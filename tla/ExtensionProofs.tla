-------------------------- MODULE ExtensionProofs --------------------------
(***************************************************************************)
(* Proofs about ExtensionInstall, for any slots, packages and groups, and  *)
(* about ExtensionRuntime, for any contracts and queues.                   *)
(***************************************************************************)
EXTENDS ExtensionInstall, ExtensionRuntime, SequenceTheorems, TLAPS

\* The stages of the worker while it installs a group, and while it loads what
\* is installed.
Attempting == {"verify", "slots", "replace", "start", "await", "undo", "cleanup", "unpoint"}
Installing == {"check", "switch", "failed"} \cup Attempting
Loading == {"idle", "restore", "unload", "launch", "spawn", "loading", "publish"}

\* A group that may be switched: some slots, each with packages of its own.
IsGroup(cs) ==
    /\ cs \in Changes /\ DOMAIN cs # {}
    /\ \A s \in DOMAIN cs : /\ SlotOf[cs[s].to] = s
                            /\ cs[s].expected # None => SlotOf[cs[s].expected] = s

Rows ==
    /\ staged \subseteq objects /\ staged \subseteq Packages
    /\ staging \in Downloads \cup {None}
    /\ staging # None /\ staging.pc = "record" => staging.pkg \in objects
    /\ active \in [Slots -> Pointers \cup {None}]
    /\ \A s \in Slots : Pkg(s) # None => SlotOf[Pkg(s)] = s
    /\ txns \in [Ops -> Transactions \cup {None}]
    /\ \A op \in Ops : txns[op] # None => IsGroup(txns[op].changes)
    /\ confirmed \in [Ops -> Reviews \cup {None}]
    /\ \A op \in Ops : confirmed[op] # None => IsGroup(confirmed[op].changes)
    /\ shown \in Reviews \cup {None}
    /\ shown # None => IsGroup(shown.changes)
    /\ removal \in Removals \cup {None}
    /\ removal # None /\ removal.kind = "uninstall" => removal.slot \in Slots

\* The files of what a slot uses, or would go back to.
Backed == \A s \in Slots : {Pkg(s), Committed(s)} \subseteq (staged \cap prepared) \cup {None}

Workers == [pc : Installing \cup Loading, op : Ops \cup {None}, changes : Changes \cup {None},
           todo : SUBSET Slots, started : SUBSET Ids, required : SUBSET Ids,
           stopped : SUBSET Slots, slot : Slots \cup {None}, id : Ids \cup {None},
           permit : BOOLEAN]

\* The worker's group is the one its operation id stands for; until it is
\* restored or completed the transaction is unfinished.
Working ==
    /\ act \in Workers
    /\ endpoints \in [Slots -> Ids \cup {None}] /\ registry \subseteq Ids
    /\ act.pc \in Installing => act.op \in Ops /\ IsGroup(act.changes)
    /\ act.pc \in Attempting => txns[act.op] # None /\ txns[act.op].changes = act.changes
    /\ act.pc \in {"slots", "replace", "start", "await"} => Unfinished(act.op)
    /\ act.started # {} =>
          act.pc \in {"slots", "replace", "start", "await", "undo", "cleanup"} /\ Unfinished(act.op)
    /\ act.pc \in {"slots", "replace", "start", "await"} => act.todo \subseteq DOMAIN act.changes
    /\ act.pc \in {"replace", "start", "await", "unload", "launch", "spawn", "loading", "publish"} =>
          act.slot \in Slots /\ act.changes \in Changes /\ act.slot \in DOMAIN act.changes
    /\ act.id # None <=> act.pc \in {"await", "loading", "publish"}

Live(i) == inst[i] # None /\ inst[i].state \in {"starting", "ready"}

\* The registry knows every process; it belongs to the open vault, to an
\* endpoint or to the worker.
Handles ==
    /\ inst \in [Ids -> Instances \cup {None}]
    /\ \A s \in Slots : endpoints[s] # None =>
          inst[endpoints[s]] # None /\ inst[endpoints[s]].slot = s
    /\ \A i \in Ids : Alive(i) => i \in registry /\ vault /\ ~Leaving
    /\ act.permit => vault /\ ~Leaving
    /\ \A i \in Ids : Live(i) =>
          endpoints[inst[i].slot] = i \/ i \in act.started \/ i = act.id
    /\ \A i \in Ids : inst[i] # None /\ inst[i].state = "starting" =>
          i = act.id /\ act.pc \in {"await", "loading"}

\* What the worker started: one instance of the group's package for a slot
\* that has no endpoint.
Attempt ==
    /\ \A i \in act.started :
          /\ inst[i] # None /\ inst[i].slot \in DOMAIN act.changes \ act.todo
          /\ inst[i].pkg = act.changes[inst[i].slot].to
          /\ endpoints[inst[i].slot] = None
          /\ act.pc \in {"replace", "start", "await"} => inst[i].slot # act.slot
    /\ \A i, j \in act.started : inst[i].slot = inst[j].slot => i = j
    /\ act.id # None => /\ inst[act.id] # None /\ inst[act.id].slot = act.slot
                        /\ inst[act.id].pkg = Target
                        /\ act.pc # "await" => inst[act.id].op = None
    /\ act.pc \in {"start", "await", "launch", "spawn", "loading", "publish"} =>
          endpoints[act.slot] = None
    /\ act.pc \in {"replace", "start", "await"} => act.slot \notin act.todo

\* The slots of the group whose instances are already those of the group.
Replaced == DOMAIN act.changes
            \ (act.todo \cup IF act.pc = "slots" THEN {} ELSE {act.slot})

\* A process runs what its slot uses without the pending switch, or is one the
\* worker just started; in the slots already replaced nothing else runs.
Current ==
    /\ ~removed =>
          \A i \in Ids : Executing(i) =>
             \/ inst[i].pkg = Committed(inst[i].slot)
             \/ i \in act.started
             \/ i = act.id /\ act.pc = "await"
    /\ act.pc \in {"slots", "replace", "start", "await"} =>
          \A i \in Ids : Executing(i) /\ inst[i].slot \in Replaced =>
             inst[i].pkg = act.changes[inst[i].slot].to

StoreInv == Rows /\ PendingMatchesGroup /\ Backed /\ Working
InstallInv == StoreInv /\ Handles /\ Attempt /\ Current

-----------------------------------------------------------------------------
(* Groups of changes. *)

LEMMA ChangesAre ==
    ASSUME NEW cs \in Changes
    PROVE  /\ DOMAIN cs \subseteq Slots
           /\ cs \in [DOMAIN cs -> [to : Packages, expected : Packages \cup {None}]]
           /\ \A s \in DOMAIN cs : cs[s].to \in Packages /\ cs[s].expected \in Packages \cup {None}
BY DEF Changes

LEMMA ChangesFrom ==
    ASSUME NEW D \in SUBSET Slots, NEW cs \in [D -> [to : Packages, expected : Packages \cup {None}]]
    PROVE  cs \in Changes /\ DOMAIN cs = D
BY DEF Changes

\* No transaction is open for a slot whose pointer is not pending.
LEMMA PointersAre ==
    ASSUME Rows, NEW s \in Slots
    PROVE  /\ active[s] = None \/ active[s] \in Pointers
           /\ Pkg(s) \in Packages \cup {None} /\ PendingOp(s) \in Ops \cup {None}
           /\ active[s] # None => Pkg(s) # None
BY NoneIsAbsent DEF Rows, Pkg, PendingOp, Pointers

LEMMA TransactionsAre ==
    ASSUME Rows, NEW op \in Ops, txns[op] # None
    PROVE  /\ txns[op] \in Transactions /\ IsGroup(txns[op].changes)
           /\ txns[op].state \in {"checking", "complete", "rolled_back"}
           /\ txns[op].changes \in Changes /\ DOMAIN txns[op].changes \subseteq Slots
<1>1. txns[op] \in Transactions /\ IsGroup(txns[op].changes)
  BY DEF Rows
<1>2. txns[op].changes \in Changes /\ txns[op].state \in {"checking", "complete", "rolled_back"}
  BY <1>1 DEF Transactions
<1> QED
  BY <1>1, <1>2, ChangesAre

\* What is pending for a slot, and what it would go back to.
LEMMA PendingIs ==
    ASSUME Rows, PendingMatchesGroup, NEW s \in Slots, PendingOp(s) # None
    PROVE  LET op == active[s].pending
           IN  /\ op \in Ops /\ txns[op] # None /\ Unfinished(op) /\ active[s] # None
               /\ s \in DOMAIN txns[op].changes
               /\ active[s] = [pkg |-> txns[op].changes[s].to, pending |-> op]
               /\ Committed(s) = txns[op].changes[s].expected
               /\ Committed(s) \in Packages \cup {None}
<1> DEFINE op == active[s].pending
<1>1. active[s] # None /\ op \in Ops /\ PendingOp(s) = op
  BY PointersAre DEF PendingOp
<1>2. Unfinished(op) /\ s \in DOMAIN txns[op].changes
  BY DEF PendingMatchesGroup
<1>3. txns[op] # None /\ active[s] = [pkg |-> txns[op].changes[s].to, pending |-> op]
  BY <1>1, <1>2 DEF PendingMatchesGroup, Targets, Unfinished
<1>4. txns[op].changes[s].expected \in Packages \cup {None}
  BY <1>1, <1>2, <1>3, TransactionsAre, ChangesAre
<1> QED
  BY <1>1, <1>2, <1>3, <1>4 DEF Committed

LEMMA SettledIs ==
    ASSUME NEW s, PendingOp(s) = None
    PROVE  Committed(s) = Pkg(s)
BY DEF Committed

\* Two unfinished groups have no slot in common.
LEMMA OneGroup ==
    ASSUME PendingMatchesGroup, NEW op \in Ops, NEW other \in Ops,
           Unfinished(op), Unfinished(other),
           NEW s, s \in DOMAIN txns[op].changes, s \in DOMAIN txns[other].changes
    PROVE  op = other
<1>1. active[s] = [pkg |-> txns[op].changes[s].to, pending |-> op]
  BY DEF PendingMatchesGroup, Targets
<1>2. active[s] = [pkg |-> txns[other].changes[s].to, pending |-> other]
  BY DEF PendingMatchesGroup, Targets
<1> QED
  BY <1>1, <1>2

-----------------------------------------------------------------------------
(* The pointers and the transactions through the steps that change them. *)

\* What the pointers and transactions have to keep.
Durable == Rows /\ PendingMatchesGroup /\ Backed

\* Neither pointers nor transactions change; files and rows are only added.
LEMMA PointersKept ==
    ASSUME Durable, UNCHANGED <<active, txns>>,
           staged \subseteq staged', prepared \subseteq prepared'
    PROVE  /\ PendingMatchesGroup' /\ Backed'
           /\ \A s \in Slots : Committed(s)' = Committed(s) /\ Pkg(s)' = Pkg(s)
           /\ \A op \in Ops : Unfinished(op)' <=> Unfinished(op)
<1>1. \A s \in Slots : /\ Pkg(s)' = Pkg(s) /\ PendingOp(s)' = PendingOp(s)
                       /\ Committed(s)' = Committed(s)
  BY DEF Pkg, PendingOp, Committed
<1>2. \A op : (Unfinished(op)' <=> Unfinished(op)) /\ (Targets(op)' <=> Targets(op))
  BY DEF Unfinished, Targets
<1>3. PendingMatchesGroup'
  BY <1>1, <1>2 DEF Durable, PendingMatchesGroup, Unfinished
<1>4. Backed'
  BY <1>1 DEF Durable, Backed
<1> QED
  BY <1>1, <1>2, <1>3, <1>4

\* A group is switched: its pointers are pending, what the slots use without
\* the switch is what they used before.
LEMMA SwitchMoves ==
    ASSUME Durable, Working, act.pc = "switch", Verified, Switched, UNCHANGED <<staged, prepared>>
    PROVE  /\ PendingMatchesGroup' /\ Backed'
           /\ active' \in [Slots -> Pointers \cup {None}]
           /\ \A s \in Slots : Pkg(s)' # None => SlotOf[Pkg(s)'] = s
           /\ txns' = [txns EXCEPT ![act.op] = [changes |-> act.changes, state |-> "checking"]]
           /\ act.op \in Ops /\ IsGroup(act.changes) /\ Unfinished(act.op)'
           /\ \A s \in Slots : Committed(s)' = Committed(s)
           /\ \A s \in DOMAIN act.changes : Committed(s) = act.changes[s].expected
<1> DEFINE o == act.op
           cs == act.changes
<1>1. o \in Ops /\ IsGroup(cs) /\ cs \in Changes /\ DOMAIN cs \subseteq Slots
  BY ChangesAre DEF Working, Installing, IsGroup
<1>2. PICK op \in Ops : op = o
  BY <1>1
<1>3. PICK new \in Changes : new = cs
  BY <1>1
<1>4. /\ txns[op] = None
      /\ txns' = [txns EXCEPT ![op] = [changes |-> new, state |-> "checking"]]
      /\ active' = [s \in Slots |-> IF s \in DOMAIN new
                                    THEN [pkg |-> new[s].to, pending |-> op] ELSE active[s]]
      /\ \A s \in DOMAIN new : PendingOp(s) = None /\ Pkg(s) = new[s].expected
      /\ \A s \in DOMAIN new : new[s].to \in (staged \cap prepared)
  BY <1>2, <1>3 DEF Switched, Switchable, Verified
<1>5. /\ DOMAIN new \subseteq Slots
      /\ \A s \in DOMAIN new : /\ new[s].to \in Packages /\ SlotOf[new[s].to] = s
                               /\ new[s].expected \in Packages \cup {None}
  BY <1>1, <1>3, ChangesAre DEF IsGroup
<1>6. /\ txns'[op] = [changes |-> new, state |-> "checking"]
      /\ \A x \in Ops : x # op => txns'[x] = txns[x]
  BY <1>4 DEF Durable, Rows
<1>7. [changes |-> new, state |-> "checking"] # None
  BY NoneIsAbsent DEF Transactions
<1>8. Unfinished(op)' /\ ~Unfinished(op)
  BY <1>4, <1>6, <1>7 DEF Unfinished
<1>9. \A x \in Ops : x # op => (Unfinished(x)' <=> Unfinished(x))
  BY <1>6 DEF Unfinished
<1>10. ASSUME NEW s \in Slots
       PROVE  /\ s \in DOMAIN new =>
                    /\ active'[s] = [pkg |-> new[s].to, pending |-> op] /\ active'[s] # None
                    /\ Pkg(s)' = new[s].to /\ PendingOp(s)' = op
                    /\ Committed(s)' = new[s].expected /\ Committed(s) = new[s].expected
              /\ s \notin DOMAIN new =>
                    /\ active'[s] = active[s] /\ Pkg(s)' = Pkg(s) /\ PendingOp(s)' = PendingOp(s)
                    /\ Committed(s)' = Committed(s)
  <2>1. CASE s \in DOMAIN new
    <3>1. active'[s] = [pkg |-> new[s].to, pending |-> op]
      BY <1>4, <2>1
    <3>2. active'[s] \in Pointers
      BY <1>5, <2>1, <3>1 DEF Pointers
    <3>3. active'[s] # None /\ op # None
      BY <3>2, NoneIsAbsent
    <3>4. Committed(s) = new[s].expected
      BY <1>4, <2>1, SettledIs
    <3> QED
      BY <1>6, <2>1, <3>1, <3>3, <3>4 DEF Pkg, PendingOp, Committed
  <2>2. CASE s \notin DOMAIN new
    <3>1. active'[s] = active[s] /\ Pkg(s)' = Pkg(s) /\ PendingOp(s)' = PendingOp(s)
      BY <1>4, <2>2 DEF Pkg, PendingOp
    <3>2. PendingOp(s) # None => /\ active[s].pending \in Ops /\ active[s].pending # op
      BY <1>4, PendingIs DEF Durable
    <3> QED
      BY <1>6, <2>2, <3>1, <3>2 DEF Committed
  <2> QED
    BY <2>1, <2>2
<1>11. PendingMatchesGroup'
  <2>1. ASSUME NEW x \in Ops, Unfinished(x)'
        PROVE  Targets(x)'
    <3>1. CASE x = op
      BY <1>5, <1>6, <1>8, <1>10, <3>1 DEF Targets
    <3>2. CASE x # op
      <4>1. Unfinished(x) /\ txns'[x] = txns[x] /\ DOMAIN txns[x].changes \subseteq Slots
        BY <1>6, <1>9, <2>1, <3>2, TransactionsAre DEF Durable, Unfinished
      <4>2. \A s \in DOMAIN txns[x].changes :
               active[s] = [pkg |-> txns[x].changes[s].to, pending |-> x]
        BY <4>1 DEF Durable, PendingMatchesGroup, Targets
      <4>3. \A s \in DOMAIN txns[x].changes : s \notin DOMAIN new
        <5>1. ASSUME NEW s \in DOMAIN txns[x].changes, s \in DOMAIN new
              PROVE  FALSE
          <6>1. s \in Slots /\ PendingOp(s) = None
            BY <1>4, <4>1, <5>1
          <6>2. active[s] = [pkg |-> txns[x].changes[s].to, pending |-> x]
            BY <4>2, <5>1
          <6>3. active[s] # None
            BY <4>1, <6>1, <6>2, <5>1, TransactionsAre, ChangesAre, NoneIsAbsent
               DEF Durable, Unfinished, Pointers
          <6> QED
            BY <6>1, <6>2, <6>3, NoneIsAbsent DEF PendingOp
        <5> QED
          BY <5>1
      <4> QED
        BY <1>10, <2>1, <4>1, <4>2, <4>3 DEF Targets
    <3> QED
      BY <3>1, <3>2
  <2>2. ASSUME NEW s \in Slots, PendingOp(s)' # None
        PROVE  Unfinished(active[s].pending)' /\ s \in DOMAIN txns'[active'[s].pending].changes
    <3>1. CASE s \in DOMAIN new
      <4>1. active'[s].pending = op
        BY <1>4, <3>1
      <4> QED
        BY <1>6, <1>8, <3>1, <4>1 DEF Unfinished
    <3>2. CASE s \notin DOMAIN new
      <4>1. active'[s] = active[s] /\ PendingOp(s) # None
        BY <1>10, <2>2, <3>2
      <4>2. PICK x \in Ops : /\ x = active[s].pending /\ Unfinished(x)
                             /\ s \in DOMAIN txns[x].changes
        BY <4>1, PendingIs DEF Durable
      <4>3. x # op
        BY <1>8, <4>2
      <4> QED
        BY <1>6, <1>9, <4>1, <4>2, <4>3 DEF Unfinished
    <3> QED
      BY <3>1, <3>2
  <2> QED
    BY <2>1, <2>2 DEF PendingMatchesGroup
<1>12. \A s \in Slots : Committed(s)' = Committed(s)
  BY <1>10
<1>13. Backed'
  <2>1. ASSUME NEW s \in Slots
        PROVE  {Pkg(s)', Committed(s)'} \subseteq (staged \cap prepared) \cup {None}
    <3>1. {Pkg(s), Committed(s)} \subseteq (staged \cap prepared) \cup {None}
      BY DEF Durable, Backed
    <3>2. Pkg(s)' \in (staged \cap prepared) \cup {None}
      BY <1>4, <1>10, <3>1
    <3> QED
      BY <1>12, <3>1, <3>2
  <2> QED
    BY <2>1 DEF Backed
<1>14. active' \in [Slots -> Pointers \cup {None}]
  <2>1. \A s \in Slots : active'[s] \in Pointers \cup {None}
    <3>1. \A s \in DOMAIN new : [pkg |-> new[s].to, pending |-> op] \in Pointers
      BY <1>5 DEF Pointers
    <3> QED
      BY <1>4, <3>1 DEF Durable, Rows
  <2> QED
    BY <1>4, <2>1
<1>15. ASSUME NEW s \in Slots, Pkg(s)' # None
       PROVE  SlotOf[Pkg(s)'] = s
  <2>1. CASE s \in DOMAIN new
    BY <1>5, <1>10, <2>1
  <2>2. CASE s \notin DOMAIN new
    BY <1>10, <1>15, <2>2 DEF Durable, Rows
  <2> QED
    BY <2>1, <2>2
<1>16. txns' = [txns EXCEPT ![act.op] = [changes |-> act.changes, state |-> "checking"]]
  BY <1>2, <1>3, <1>4
<1>17. Unfinished(act.op)'
  <2>1. act'.op = act.op
    BY DEF Switched, Working, Workers
  <2> QED
    BY <1>2, <1>8, <2>1 DEF Unfinished
<1>18. \A s \in DOMAIN act.changes : Committed(s) = act.changes[s].expected
  BY <1>3, <1>5, <1>10
<1> QED
  BY <1>1, <1>11, <1>12, <1>13, <1>14, <1>15, <1>16, <1>17, <1>18

\* Some unfinished groups are closed: completed, or restored to what the slots
\* used before.
ClosedPointer(s, healthy) ==
    IF healthy THEN [pkg |-> Pkg(s), pending |-> None]
    ELSE IF Committed(s) = None THEN None ELSE [pkg |-> Committed(s), pending |-> None]

Closes(closed, healthy) ==
    /\ active' = [s \in Slots |-> IF PendingOp(s) \in closed THEN ClosedPointer(s, healthy)
                                  ELSE active[s]]
    /\ txns' = [op \in Ops |-> IF op \in closed
                               THEN [txns[op] EXCEPT !.state = IF healthy THEN "complete" ELSE "rolled_back"]
                               ELSE txns[op]]

LEMMA CloseMoves ==
    ASSUME Durable, NEW closed \in SUBSET Ops, NEW healthy \in BOOLEAN,
           \A op \in closed : Unfinished(op),
           Closes(closed, healthy), UNCHANGED <<staged, prepared>>
    PROVE  /\ PendingMatchesGroup' /\ Backed'
           /\ active' \in [Slots -> Pointers \cup {None}]
           /\ \A s \in Slots : Pkg(s)' # None => SlotOf[Pkg(s)'] = s
           /\ txns' \in [Ops -> Transactions \cup {None}]
           /\ \A op \in Ops : txns'[op] = None <=> txns[op] = None
           /\ \A op \in Ops : txns[op] # None => txns'[op].changes = txns[op].changes
           /\ \A op \in Ops : Unfinished(op)' <=> Unfinished(op) /\ op \notin closed
           /\ \A s \in Slots : Committed(s)' = IF PendingOp(s) \in closed /\ healthy THEN Pkg(s)
                                              ELSE Committed(s)
<1>0. Rows /\ PendingMatchesGroup /\ Backed /\ None \notin closed
  BY NoneIsAbsent DEF Durable
<1>1. ASSUME NEW op \in Ops
      PROVE  /\ txns'[op] \in Transactions \cup {None}
             /\ txns'[op] = None <=> txns[op] = None
             /\ txns[op] # None => txns'[op].changes = txns[op].changes
             /\ Unfinished(op)' <=> Unfinished(op) /\ op \notin closed
  <2>1. CASE op \in closed
    <3>1. txns[op] \in Transactions /\ txns[op] # None
      BY <1>0, <2>1, TransactionsAre DEF Unfinished
    <3>2. /\ txns'[op] = [txns[op] EXCEPT !.state = IF healthy THEN "complete" ELSE "rolled_back"]
          /\ txns'[op] \in Transactions /\ txns'[op].changes = txns[op].changes
          /\ txns'[op].state # "checking"
      BY <2>1, <3>1 DEF Closes, Transactions
    <3> QED
      BY <2>1, <3>1, <3>2, NoneIsAbsent DEF Unfinished
  <2>2. CASE op \notin closed
    BY <1>0, <2>2 DEF Closes, Rows, Unfinished
  <2> QED
    BY <2>1, <2>2
\* The pointer of a slot, closed or not.
<1>2. ASSUME NEW s \in Slots, PendingOp(s) \in closed
      PROVE  /\ active'[s] \in Pointers \cup {None}
             /\ PendingOp(s)' = None
             /\ Pkg(s)' = IF healthy THEN Pkg(s) ELSE Committed(s)
             /\ Committed(s)' = Pkg(s)'
  <2>1. Pkg(s) \in Packages /\ Committed(s) \in Packages \cup {None} /\ active'[s] = ClosedPointer(s, healthy)
    <3>1. active[s] # None /\ Committed(s) \in Packages \cup {None}
      BY <1>0, <1>2, PendingIs
    <3>2. Pkg(s) \in Packages
      BY <1>0, <3>1, PointersAre
    <3> QED
      BY <1>2, <3>1, <3>2 DEF Closes
  <2>2. CASE healthy
    <3>1. active'[s] = [pkg |-> Pkg(s), pending |-> None]
      BY <2>1, <2>2 DEF ClosedPointer
    <3>2. active'[s] \in Pointers
      BY <2>1, <3>1 DEF Pointers
    <3>3. active'[s] # None
      BY <3>2, NoneIsAbsent
    <3>4. Pkg(s)' = Pkg(s) /\ PendingOp(s)' = None
      BY <3>1, <3>3 DEF Pkg, PendingOp
    <3> QED
      BY <2>2, <3>2, <3>4 DEF Committed
  <2>3. CASE ~healthy /\ Committed(s) # None
    <3>1. active'[s] = [pkg |-> Committed(s), pending |-> None]
      BY <2>1, <2>3 DEF ClosedPointer
    <3>2. active'[s] \in Pointers
      BY <2>1, <2>3, <3>1 DEF Pointers
    <3>3. active'[s] # None
      BY <3>2, NoneIsAbsent
    <3>4. Pkg(s)' = Committed(s) /\ PendingOp(s)' = None
      BY <3>1, <3>3 DEF Pkg, PendingOp
    <3> QED
      BY <2>3, <3>2, <3>4 DEF Committed
  <2>4. CASE ~healthy /\ Committed(s) = None
    <3>1. active'[s] = None
      BY <2>1, <2>4 DEF ClosedPointer
    <3>2. Pkg(s)' = None /\ PendingOp(s)' = None
      BY <3>1 DEF Pkg, PendingOp
    <3> QED
      BY <2>4, <3>1, <3>2 DEF Committed
  <2> QED
    BY <2>2, <2>3, <2>4
<1>3. ASSUME NEW s \in Slots, PendingOp(s) \notin closed
      PROVE  /\ active'[s] = active[s] /\ PendingOp(s)' = PendingOp(s) /\ Pkg(s)' = Pkg(s)
             /\ Committed(s)' = Committed(s)
  <2>1. active'[s] = active[s]
    BY <1>3 DEF Closes
  <2>2. PendingOp(s)' = PendingOp(s) /\ Pkg(s)' = Pkg(s)
    BY <2>1 DEF PendingOp, Pkg
  <2>3. PendingOp(s) # None => active[s].pending \in Ops \ closed /\ txns[active[s].pending] # None
    BY <1>0, <1>3, PendingIs DEF PendingOp
  <2>4. PendingOp(s) # None => txns'[active[s].pending].changes = txns[active[s].pending].changes
    BY <1>1, <2>3
  <2> QED
    BY <2>1, <2>2, <2>4 DEF Committed
<1>4. ASSUME NEW op \in Ops, Unfinished(op)'
      PROVE  Targets(op)'
  <2>1. Unfinished(op) /\ op \notin closed /\ txns[op] # None /\ txns'[op].changes = txns[op].changes
    BY <1>1, <1>4 DEF Unfinished
  <2>2. ASSUME NEW s \in DOMAIN txns[op].changes
        PROVE  active'[s] = [pkg |-> txns[op].changes[s].to, pending |-> op]
    <3>1. active[s] = [pkg |-> txns[op].changes[s].to, pending |-> op] /\ s \in Slots
      BY <1>0, <2>1, <2>2, TransactionsAre DEF PendingMatchesGroup, Targets
    <3>2. active[s] # None
      BY <1>0, <2>1, <2>2, <3>1, TransactionsAre, ChangesAre, NoneIsAbsent DEF Pointers
    <3>3. PendingOp(s) = op
      BY <3>1, <3>2 DEF PendingOp
    <3> QED
      BY <1>3, <2>1, <3>1, <3>3
  <2> QED
    BY <1>4, <2>1, <2>2 DEF Targets
<1>5. ASSUME NEW s \in Slots, PendingOp(s)' # None
      PROVE  Unfinished(active[s].pending)' /\ s \in DOMAIN txns'[active'[s].pending].changes
  <2>1. PendingOp(s) \notin closed /\ active'[s] = active[s] /\ PendingOp(s) # None
    BY <1>2, <1>3, <1>5
  <2>2. PICK op \in Ops : /\ op = active[s].pending /\ Unfinished(op)
                          /\ s \in DOMAIN txns[op].changes /\ txns[op] # None /\ op \notin closed
    BY <1>0, <2>1, PendingIs DEF PendingOp
  <2>3. Unfinished(op)' /\ txns'[op].changes = txns[op].changes
    BY <1>1, <2>2
  <2> QED
    BY <2>1, <2>2, <2>3 DEF Unfinished
<1>6. PendingMatchesGroup'
  BY <1>4, <1>5 DEF PendingMatchesGroup
<1>7. Backed'
  <2>1. ASSUME NEW s \in Slots
        PROVE  {Pkg(s)', Committed(s)'} \subseteq {Pkg(s), Committed(s)}
    BY <1>2, <1>3
  <2> QED
    BY <1>0, <2>1 DEF Backed
<1>8. active' \in [Slots -> Pointers \cup {None}]
  <2>1. \A s \in Slots : active'[s] \in Pointers \cup {None}
    BY <1>0, <1>2, <1>3 DEF Rows
  <2> QED
    BY <2>1 DEF Closes
<1>9. ASSUME NEW s \in Slots, Pkg(s)' # None
      PROVE  SlotOf[Pkg(s)'] = s
  <2>1. PendingOp(s) \in closed /\ Committed(s) # None => SlotOf[Committed(s)] = s
    <3>1. ASSUME PendingOp(s) \in closed, Committed(s) # None
          PROVE  SlotOf[Committed(s)] = s
      <4>1. PICK op \in Ops : /\ op = active[s].pending /\ txns[op] # None
                              /\ s \in DOMAIN txns[op].changes
                              /\ Committed(s) = txns[op].changes[s].expected
        BY <1>0, <3>1, PendingIs
      <4> QED
        BY <1>0, <3>1, <4>1, TransactionsAre DEF IsGroup
    <3> QED
      BY <3>1
  <2>2. Pkg(s) # None => SlotOf[Pkg(s)] = s
    BY <1>0 DEF Rows
  <2> QED
    BY <1>2, <1>3, <1>9, <2>1, <2>2
<1>10. txns' \in [Ops -> Transactions \cup {None}]
  <2>1. \A op \in Ops : txns'[op] \in Transactions \cup {None}
    BY <1>1
  <2> QED
    BY <2>1 DEF Closes
<1>11. \A s \in Slots : Committed(s)' = IF PendingOp(s) \in closed /\ healthy THEN Pkg(s) ELSE Committed(s)
  BY <1>2, <1>3
<1> QED
  BY <1>1, <1>6, <1>7, <1>8, <1>9, <1>10, <1>11

\* One group is closed by finish.
LEMMA FinishCloses ==
    ASSUME Durable, NEW op \in Ops, NEW healthy \in BOOLEAN, Unfinished(op), Finish(op, healthy)
    PROVE  Closes({op}, healthy)
<1>1. txns[op] # None /\ DOMAIN txns[op].changes \subseteq Slots
  BY TransactionsAre DEF Durable, Unfinished
<1>2. ASSUME NEW s \in Slots
      PROVE  /\ PendingOp(s) = op <=> s \in DOMAIN txns[op].changes
             /\ s \in DOMAIN txns[op].changes =>
                   /\ Committed(s) = txns[op].changes[s].expected
                   /\ [active[s] EXCEPT !.pending = None] = [pkg |-> Pkg(s), pending |-> None]
  <2>1. ASSUME s \in DOMAIN txns[op].changes
        PROVE  /\ PendingOp(s) = op /\ Committed(s) = txns[op].changes[s].expected
               /\ [active[s] EXCEPT !.pending = None] = [pkg |-> Pkg(s), pending |-> None]
    <3>1. active[s] = [pkg |-> txns[op].changes[s].to, pending |-> op]
      BY <2>1 DEF Durable, PendingMatchesGroup, Targets
    <3>2. active[s] # None /\ op # None
      BY <1>1, <2>1, <3>1, TransactionsAre, ChangesAre, NoneIsAbsent DEF Durable, Pointers
    <3>3. PendingOp(s) = op /\ Pkg(s) = txns[op].changes[s].to
      BY <3>1, <3>2 DEF PendingOp, Pkg
    <3>4. Committed(s) = txns[op].changes[s].expected
      BY <3>1, <3>2, <3>3 DEF Committed
    <3> QED
      BY <3>1, <3>3, <3>4
  <2>2. ASSUME PendingOp(s) = op
        PROVE  s \in DOMAIN txns[op].changes
    BY <2>2, NoneIsAbsent, PendingIs DEF Durable, PendingOp
  <2> QED
    BY <2>1, <2>2
<1>3. active' = [s \in Slots |-> IF PendingOp(s) \in {op} THEN ClosedPointer(s, healthy)
                                 ELSE active[s]]
  <2>1. ASSUME NEW s \in Slots
        PROVE  FinishedPointers(op, healthy)[s] =
                 IF PendingOp(s) \in {op} THEN ClosedPointer(s, healthy) ELSE active[s]
    <3>1. CASE s \in DOMAIN txns[op].changes
      BY <1>2, <3>1 DEF FinishedPointers, ClosedPointer
    <3>2. CASE s \notin DOMAIN txns[op].changes
      BY <1>2, <3>2 DEF FinishedPointers
    <3> QED
      BY <3>1, <3>2
  <2> QED
    BY <2>1 DEF Finish, FinishedPointers
<1>4. txns' = [x \in Ops |-> IF x \in {op}
                             THEN [txns[x] EXCEPT !.state = IF healthy THEN "complete" ELSE "rolled_back"]
                             ELSE txns[x]]
  BY DEF Finish, Durable, Rows
<1> QED
  BY <1>3, <1>4 DEF Closes

\* All of them are closed when the store is opened again.
LEMMA RestartCloses ==
    ASSUME Durable, Restart
    PROVE  Closes({op \in Ops : Unfinished(op)}, FALSE)
<1> DEFINE open == {op \in Ops : Unfinished(op)}
<1>1. ASSUME NEW s \in Slots, NEW op \in open, s \in DOMAIN txns[op].changes
      PROVE  /\ PendingOp(s) = op /\ Committed(s) = txns[op].changes[s].expected
             /\ FinishedPointers(op, FALSE)[s] = ClosedPointer(s, FALSE)
  <2>1. active[s] = [pkg |-> txns[op].changes[s].to, pending |-> op]
    BY <1>1 DEF Durable, PendingMatchesGroup, Targets
  <2>2. active[s] # None /\ op # None
    BY <1>1, <2>1, TransactionsAre, ChangesAre, NoneIsAbsent DEF Durable, Pointers, Unfinished
  <2>3. PendingOp(s) = op
    BY <2>1, <2>2 DEF PendingOp
  <2>4. Committed(s) = txns[op].changes[s].expected
    BY <2>1, <2>2, <2>3 DEF Committed
  <2> QED
    BY <1>1, <2>3, <2>4 DEF FinishedPointers, ClosedPointer
<1>2. ASSUME NEW s \in Slots
      PROVE  active'[s] = IF PendingOp(s) \in open THEN ClosedPointer(s, FALSE) ELSE active[s]
  <2>1. CASE \E op \in open : s \in DOMAIN txns[op].changes
    <3> DEFINE op == CHOOSE op \in open : s \in DOMAIN txns[op].changes
    <3>1. op \in open /\ s \in DOMAIN txns[op].changes
      BY <2>1
    <3>2. active'[s] = FinishedPointers(op, FALSE)[s]
      BY <2>1 DEF Restart
    <3> HIDE DEF op
    <3> QED
      BY <1>1, <3>1, <3>2
  <2>2. CASE ~(\E op \in open : s \in DOMAIN txns[op].changes)
    <3>1. active'[s] = active[s]
      BY <2>2 DEF Restart
    <3>2. PendingOp(s) \notin open
      BY <2>2, NoneIsAbsent, PendingIs DEF Durable, PendingOp
    <3> QED
      BY <3>1, <3>2
  <2> QED
    BY <2>1, <2>2
<1>3. active' = [s \in Slots |-> IF PendingOp(s) \in open THEN ClosedPointer(s, FALSE) ELSE active[s]]
  <2>1. DOMAIN active' = Slots /\ active' = [s \in Slots |-> active'[s]]
    BY DEF Restart
  <2> QED
    BY <1>2, <2>1
<1>4. txns' = [op \in Ops |-> IF op \in open THEN [txns[op] EXCEPT !.state = "rolled_back"] ELSE txns[op]]
  BY DEF Restart
<1> QED
  BY <1>3, <1>4 DEF Closes

\* A pointer without a pending switch is removed.
LEMMA RemoveMoves ==
    ASSUME Durable, RemovePointer
    PROVE  /\ PendingMatchesGroup' /\ Backed'
           /\ active' \in [Slots -> Pointers \cup {None}]
           /\ \A s \in Slots : Pkg(s)' # None => SlotOf[Pkg(s)'] = s
           /\ \/ UNCHANGED active
              \/ \E r \in Slots : /\ Committed(r) # None /\ Committed(r)' = None
                                  /\ \A s \in Slots : s # r => Committed(s)' = Committed(s)
<1>0. Rows /\ PendingMatchesGroup /\ Backed /\ UNCHANGED <<txns, staged, prepared>>
  BY DEF Durable, RemovePointer
<1>1. CASE UNCHANGED active
  BY <1>0, <1>1, PointersKept DEF Rows, Pkg
<1>2. CASE active' # active
  <2>1. PICK r \in Slots : /\ active[r] = [pkg |-> removal.pkg, pending |-> None]
                           /\ active' = [active EXCEPT ![r] = None]
    BY <1>0, <1>2 DEF RemovePointer, Rows
  <2>2. /\ active'[r] = None /\ \A s \in Slots : s # r => active'[s] = active[s]
        /\ active' \in [Slots -> Pointers \cup {None}]
    BY <1>0, <2>1 DEF Rows
  <2>4. PendingOp(r) = None
    BY <2>1 DEF PendingOp
  <2>5. active[r] # None
    BY <1>2, <1>0, <2>1, <2>2 DEF Rows
  <2>6. Committed(r) # None
    BY <1>0, <2>4, <2>5, SettledIs, PointersAre
  <2>7. Pkg(r)' = None /\ PendingOp(r)' = None /\ Committed(r)' = None
    BY <2>2 DEF Pkg, PendingOp, Committed
  <2>8. \A s \in Slots : s # r => /\ Pkg(s)' = Pkg(s) /\ PendingOp(s)' = PendingOp(s)
                                  /\ Committed(s)' = Committed(s)
    BY <1>0, <2>2 DEF Pkg, PendingOp, Committed
  <2>9. \A op : Unfinished(op)' <=> Unfinished(op)
    BY <1>0 DEF Unfinished
  <2>10. PendingMatchesGroup'
    <3>1. ASSUME NEW op \in Ops, Unfinished(op)
          PROVE  Targets(op)'
      <4>1. /\ \A s \in DOMAIN txns[op].changes :
                  active[s] = [pkg |-> txns[op].changes[s].to, pending |-> op]
            /\ DOMAIN txns[op].changes \subseteq Slots
        BY <1>0, <3>1, TransactionsAre DEF PendingMatchesGroup, Targets, Unfinished
      <4>2. r \notin DOMAIN txns[op].changes
        <5>1. active[r].pending = None /\ op # None
          BY <2>1, NoneIsAbsent
        <5>2. ASSUME r \in DOMAIN txns[op].changes
              PROVE  FALSE
          <6>1. active[r] = [pkg |-> txns[op].changes[r].to, pending |-> op]
            BY <4>1, <5>2
          <6> QED
            BY <5>1, <6>1
        <5> QED
          BY <5>2
      <4> QED
        BY <1>0, <2>2, <2>9, <3>1, <4>1, <4>2 DEF Targets
    <3>2. ASSUME NEW s \in Slots, PendingOp(s)' # None
          PROVE  Unfinished(active[s].pending)' /\ s \in DOMAIN txns'[active'[s].pending].changes
      <4>1. s # r /\ active'[s] = active[s] /\ PendingOp(s) # None
        BY <2>2, <2>7, <2>8, <3>2
      <4> QED
        BY <1>0, <4>1, PendingIs DEF Unfinished
    <3> QED
      BY <2>9, <3>1, <3>2 DEF PendingMatchesGroup
  <2>11. Backed'
    BY <1>0, <2>7, <2>8 DEF Backed
  <2> QED
    BY <1>0, <2>2, <2>6, <2>7, <2>8, <2>10, <2>11 DEF Rows
<1> QED
  BY <1>1, <1>2

-----------------------------------------------------------------------------
(* Reviewed groups: a plan, or the way back from an installed group. *)

LEMMA PlanIsGroup ==
    ASSUME Rows, NEW root \in staged, Plans(root) # {}
    PROVE  IsGroup(PlannedChanges(Plan(root)))
<1>1. PICK g \in Plans(root) : g = Plan(root)
  <2>1. \E g \in Plans(root) : Newest(root) # {} => g \in Newest(root)
    BY DEF Newest
  <2> QED
    BY <2>1 DEF Plan
<1>2. g \subseteq staged /\ g \subseteq Packages /\ root \in g
  BY <1>1 DEF Plans, Rows
<1> DEFINE D == {SlotOf[p] : p \in g}
           cs == PlannedChanges(g)
<1>3. D \subseteq Slots /\ D # {}
  BY <1>2, InstallAssumption
<1>4. ASSUME NEW s \in D
      PROVE  /\ cs[s].to \in Packages /\ SlotOf[cs[s].to] = s
             /\ cs[s].expected \in Packages \cup {None}
             /\ cs[s].expected # None => SlotOf[cs[s].expected] = s
             /\ cs[s] \in [to : Packages, expected : Packages \cup {None}]
  <2> DEFINE p == CHOOSE q \in g : SlotOf[q] = s
  <2>1. p \in g /\ SlotOf[p] = s
    BY <1>4
  <2>2. cs[s] = [to |-> p, expected |-> Pkg(s)]
    BY DEF PlannedChanges
  <2>3. Pkg(s) \in Packages \cup {None} /\ (Pkg(s) # None => SlotOf[Pkg(s)] = s)
    BY <1>3, PointersAre DEF Rows
  <2> HIDE DEF p
  <2> QED
    BY <1>2, <2>1, <2>2, <2>3
<1>5. cs \in [D -> [to : Packages, expected : Packages \cup {None}]]
  <2>1. cs = [s \in D |-> cs[s]]
    BY DEF PlannedChanges
  <2> HIDE DEF cs
  <2> QED
    BY <1>4, <2>1
<1>6. cs \in Changes /\ DOMAIN cs = D
  BY <1>3, <1>5, ChangesFrom
<1> QED
  BY <1>1, <1>3, <1>4, <1>6 DEF IsGroup

LEMMA RollbackIsGroup ==
    ASSUME Rows, NEW op \in Ops, Reversible(op)
    PROVE  IsGroup(RollbackChanges(op))
<1> DEFINE D == DOMAIN txns[op].changes
           cs == RollbackChanges(op)
<1>1. txns[op] # None /\ IsGroup(txns[op].changes) /\ D \subseteq Slots /\ D # {}
  BY TransactionsAre DEF Reversible, IsGroup
<1>2. ASSUME NEW s \in D
      PROVE  /\ cs[s].to \in Packages /\ SlotOf[cs[s].to] = s
             /\ cs[s].expected \in Packages \cup {None}
             /\ cs[s].expected # None => SlotOf[cs[s].expected] = s
             /\ cs[s] \in [to : Packages, expected : Packages \cup {None}]
  <2>1. PICK p : p = txns[op].changes[s].expected
    OBVIOUS
  <2>2. p \in Packages /\ SlotOf[p] = s
    BY <1>1, <1>2, <2>1, TransactionsAre, ChangesAre DEF Reversible, IsGroup
  <2>3. cs[s] = [to |-> p, expected |-> Pkg(s)]
    BY <2>1 DEF RollbackChanges
  <2>4. Pkg(s) \in Packages \cup {None} /\ (Pkg(s) # None => SlotOf[Pkg(s)] = s)
    BY <1>1, <1>2, PointersAre DEF Rows
  <2> QED
    BY <2>2, <2>3, <2>4
<1>3. cs \in [D -> [to : Packages, expected : Packages \cup {None}]]
  <2>1. cs = [s \in D |-> cs[s]]
    BY DEF RollbackChanges
  <2> HIDE DEF cs
  <2> QED
    BY <1>2, <2>1
<1>4. cs \in Changes /\ DOMAIN cs = D
  BY <1>1, <1>3, ChangesFrom
<1> QED
  BY <1>1, <1>2, <1>4 DEF IsGroup

-----------------------------------------------------------------------------
(* The rows of the store, step by step. *)

LEMMA StoreRows ==
    ASSUME Durable, Store
    PROVE  Rows' /\ UNCHANGED <<active, txns>> /\ staged \subseteq staged' /\ prepared \subseteq prepared'
<1>0. Rows
  BY DEF Durable
<1>1. ASSUME NEW p \in Packages, StageCheck(p)
      PROVE  Rows' /\ UNCHANGED <<active, txns, staged, prepared>>
  <2>1. UNCHANGED <<objects, staged, prepared, active, txns, confirmed, shown, removal>>
    BY <1>1 DEF StageCheck, Remember
  <2>2. staging' = [pkg |-> p, pc |-> "download"] \/ UNCHANGED staging
    BY <1>1 DEF StageCheck
  <2>3. staging' \in Downloads \cup {None} /\ (staging' # None /\ staging'.pc = "record" => staging'.pkg \in objects)
    BY <1>0, <2>2 DEF Rows, Downloads
  <2> QED
    BY <1>0, <2>1, <2>3 DEF Rows, Pkg
<1>2. ASSUME NEW p \in Packages, Withdraw(p)
      PROVE  Rows' /\ UNCHANGED <<active, txns, staged, prepared>>
  BY <1>0, <1>2 DEF Withdraw, durable, Rows, Pkg
<1>3. ASSUME NEW root \in Roots, Preview(root)
      PROVE  Rows' /\ UNCHANGED <<active, txns, staged>> /\ prepared \subseteq prepared'
  <2>1. UNCHANGED <<objects, staged, active, txns, confirmed, staging, removal>>
    BY <1>3 DEF Preview
  <2>2. prepared \subseteq prepared'
    BY <1>3 DEF Preview, Prepare
  <2>3. PICK cs : cs = PlannedChanges(Plan(root))
    OBVIOUS
  <2>4. IsGroup(cs) /\ cs \in Changes
    BY <1>0, <1>3, <2>3, PlanIsGroup DEF Preview, Previewable, IsGroup
  <2>5. shown' = [root |-> root, changes |-> cs] \/ shown' = None
    BY <1>3, <2>3 DEF Preview
  <2>6. shown' \in Reviews \cup {None} /\ (shown' # None => IsGroup(shown'.changes))
    BY <2>4, <2>5, InstallAssumption DEF Reviews
  <2> QED
    BY <1>0, <2>1, <2>2, <2>6 DEF Rows, Pkg
<1>4. ASSUME StoreObject
      PROVE  Rows' /\ UNCHANGED <<active, txns, staged, prepared>>
  <2>1. /\ UNCHANGED <<staged, prepared, active, txns, confirmed, shown, removal>>
        /\ objects' = objects \cup {staging.pkg}
        /\ staging # None /\ staging' = [staging EXCEPT !.pc = "record"]
    BY <1>4 DEF StoreObject
  <2>2. staging' \in Downloads /\ staging'.pkg = staging.pkg
    BY <1>0, <2>1 DEF Rows, Downloads
  <2> QED
    BY <1>0, <2>1, <2>2 DEF Rows, Pkg
<1>5. ASSUME RecordStage
      PROVE  Rows' /\ UNCHANGED <<active, txns, prepared>> /\ staged \subseteq staged'
  <2>1. /\ UNCHANGED <<objects, prepared, active, txns, confirmed, shown, removal>>
        /\ staged' = staged \cup {staging.pkg} /\ staging' = None
        /\ staging # None /\ staging.pc = "record"
    BY <1>5 DEF RecordStage
  <2>2. staging.pkg \in Packages /\ staging.pkg \in objects
    BY <1>0, <2>1 DEF Rows, Downloads
  <2> QED
    BY <1>0, <2>1, <2>2 DEF Rows, Pkg
<1>6. ASSUME StageFails
      PROVE  Rows' /\ UNCHANGED <<active, txns, staged, prepared>>
  BY <1>0, <1>6 DEF StageFails, durable, Rows, Pkg
<1>7. ASSUME ChangeTrust
      PROVE  Rows' /\ UNCHANGED <<active, txns, staged, prepared>>
  BY <1>0, <1>7 DEF ChangeTrust, Rows, Pkg
<1>8. ASSUME NEW op \in Ops, LockPlan(op)
      PROVE  Rows' /\ UNCHANGED <<active, txns, staged, prepared>>
  <2>1. /\ UNCHANGED <<objects, staged, prepared, active, txns, staging, removal>>
        /\ shown # None /\ shown' = None /\ confirmed' = [confirmed EXCEPT ![op] = shown]
    BY <1>8 DEF LockPlan
  <2>2. /\ confirmed' \in [Ops -> Reviews \cup {None}]
        /\ \A x \in Ops : confirmed'[x] # None => IsGroup(confirmed'[x].changes)
    BY <1>0, <2>1 DEF Rows
  <2> QED
    BY <1>0, <2>1, <2>2 DEF Rows, Pkg
<1>9. ASSUME NEW op \in Ops, RepeatConfirm(op) \/ RetryActivation(op)
      PROVE  Rows' /\ UNCHANGED <<active, txns, staged, prepared>>
  BY <1>0, <1>9 DEF RepeatConfirm, RetryActivation, durable, background, Rows, Pkg
<1>10. ASSUME NEW op \in Ops, NEW installed \in Ops, Rollback(op, installed)
       PROVE  Rows' /\ UNCHANGED <<active, txns, staged, prepared>>
  BY <1>0, <1>10 DEF Rollback, durable, background, Rows, Pkg
<1> QED
  BY <1>1, <1>2, <1>3, <1>4, <1>5, <1>6, <1>7, <1>8, <1>9, <1>10 DEF Store

\* The steps of the worker and of the others that write nothing.
WritesNothing ==
    UNCHANGED <<objects, staged, prepared, active, txns, confirmed, staging>>

LEMMA WorkerWrites ==
    ASSUME Activation
    PROVE  \/ WritesNothing /\ UNCHANGED <<shown, removal>>
           \/ Switch \/ AbandonReview \/ CommitGroup \/ RestorePointers
<1>1. ASSUME NEW s \in Slots, CheckOnline(s) \/ NextSlot(s) \/ BeginEnable(s)
      PROVE  WritesNothing /\ UNCHANGED <<shown, removal>>
  BY <1>1 DEF CheckOnline, NextSlot, BeginEnable, WritesNothing, durable, background
<1>2. ASSUME CheckFails \/ Verify \/ PredecessorGone \/ StartTarget \/ TargetReady \/ ActivationFails
      PROVE  WritesNothing /\ UNCHANGED <<shown, removal>>
  BY <1>2 DEF CheckFails, Verify, PredecessorGone, StartTarget, TargetReady, ActivationFails,
              WritesNothing, durable, background
<1>3. ASSUME StopPredecessor \/ TargetFails \/ UndoStarted \/ StopLoaded \/ LoadFails
      PROVE  WritesNothing /\ UNCHANGED <<shown, removal>>
  BY <1>3 DEF StopPredecessor, TargetFails, UndoStarted, StopLoaded, LoadFails,
              WritesNothing, durable, background
<1>4. ASSUME IssuePermit \/ LaunchCommitted \/ CheckLoaded \/ PublishLoaded
      PROVE  WritesNothing /\ UNCHANGED <<shown, removal>>
  BY <1>4 DEF IssuePermit, LaunchCommitted, CheckLoaded, PublishLoaded,
              WritesNothing, durable, background
<1> QED
  BY <1>1, <1>2, <1>3, <1>4 DEF Activation

LEMMA OthersWrite ==
    ASSUME Durable, Others
    PROVE  \/ WritesNothing /\ UNCHANGED shown /\ removal' \in Removals \cup {None}
              /\ (removal' # None /\ removal'.kind = "uninstall" => removal'.slot \in Slots)
           \/ RemovePointer \/ Restart
<1>1. ASSUME NEW i \in Ids, ResumeInstance(i) \/ EndInstance(i)
      PROVE  WritesNothing /\ UNCHANGED <<shown, removal>>
  BY <1>1 DEF ResumeInstance, EndInstance, WritesNothing, durable
<1>2. ASSUME NEW s \in Slots, Disable(s)
      PROVE  WritesNothing /\ UNCHANGED <<shown, removal>>
  BY <1>2 DEF Disable, WritesNothing, durable
<1>3. ASSUME LockCredentials
      PROVE  WritesNothing /\ UNCHANGED <<shown, removal>>
  BY <1>3 DEF LockCredentials, WritesNothing, durable
<1>4. ASSUME NEW s \in Slots, Uninstall(s)
      PROVE  WritesNothing /\ UNCHANGED shown /\ removal' \in Removals /\ removal'.slot \in Slots
  <2>1. active[s].pkg \in Packages
    BY <1>4, PointersAre DEF Durable, Uninstall, Pkg, Pointers
  <2> QED
    BY <1>4, <2>1 DEF Uninstall, WritesNothing, durable, Removals
<1>5. ASSUME LeaveVault
      PROVE  WritesNothing /\ UNCHANGED shown /\ removal' \in Removals /\ removal'.kind = "vault"
  BY <1>5 DEF LeaveVault, WritesNothing, durable, Removals
<1>6. ASSUME ReplaceVault
      PROVE  WritesNothing /\ UNCHANGED shown /\ removal' = None
  BY <1>6 DEF ReplaceVault, WritesNothing, durable
<1> QED
  BY <1>1, <1>2, <1>3, <1>4, <1>5, <1>6 DEF Others, Durable, Rows

\* The steps that close groups: a finished one, or all of them at a restart.
ClosesGroups(closed, healthy) ==
    /\ closed \in SUBSET Ops /\ healthy \in BOOLEAN
    /\ \A op \in closed : Unfinished(op)
    /\ Closes(closed, healthy)
    /\ UNCHANGED <<objects, staged, prepared, confirmed>>
    /\ UNCHANGED <<staging, shown, removal>> \/ (staging' = None /\ shown' = None /\ removal' = None)

LEMMA ClosingRows ==
    ASSUME Durable, NEW closed, NEW healthy, ClosesGroups(closed, healthy)
    PROVE  Durable'
<1>1. /\ PendingMatchesGroup' /\ Backed'
      /\ active' \in [Slots -> Pointers \cup {None}]
      /\ \A s \in Slots : Pkg(s)' # None => SlotOf[Pkg(s)'] = s
      /\ txns' \in [Ops -> Transactions \cup {None}]
      /\ \A op \in Ops : txns'[op] = None <=> txns[op] = None
      /\ \A op \in Ops : txns[op] # None => txns'[op].changes = txns[op].changes
  BY CloseMoves DEF ClosesGroups
<1>2. \A op \in Ops : txns'[op] # None => IsGroup(txns'[op].changes)
  BY <1>1 DEF Durable, Rows
<1>3. Rows'
  BY <1>1, <1>2 DEF Durable, Rows, ClosesGroups
<1> QED
  BY <1>1, <1>3 DEF Durable

LEMMA FinishersClose ==
    ASSUME Durable, Working
    PROVE  /\ CommitGroup => ClosesGroups({act.op}, TRUE) /\ Unfinished(act.op)
           /\ AbandonReview =>
                \/ ClosesGroups({act.op}, FALSE) /\ Unfinished(act.op)
                \/ WritesNothing /\ UNCHANGED <<shown, removal>> /\ ~Unfinished(act.op)
           /\ RestorePointers =>
                \/ ClosesGroups({act.op}, FALSE) /\ Unfinished(act.op)
                \/ WritesNothing /\ UNCHANGED <<shown, removal>> /\ ~Unfinished(act.op)
           /\ Restart => ClosesGroups({op \in Ops : Unfinished(op)}, FALSE)
<1>1. ASSUME CommitGroup
      PROVE  ClosesGroups({act.op}, TRUE) /\ Unfinished(act.op)
  <2>1. act.op \in Ops /\ Unfinished(act.op) /\ Finish(act.op, TRUE)
    BY <1>1 DEF CommitGroup, Working, Installing, Attempting, Targets
  <2> QED
    BY <1>1, <2>1, FinishCloses DEF CommitGroup, ClosesGroups, background
<1>2. ASSUME AbandonReview
      PROVE  \/ ClosesGroups({act.op}, FALSE) /\ Unfinished(act.op)
             \/ WritesNothing /\ UNCHANGED <<shown, removal>> /\ ~Unfinished(act.op)
  <2>1. act.op \in Ops
    BY <1>2 DEF AbandonReview, Working, Installing
  <2>2. CASE Unfinished(act.op)
    <3>1. Finish(act.op, FALSE)
      BY <1>2, <2>2 DEF AbandonReview
    <3>2. Closes({act.op}, FALSE)
      BY <2>1, <2>2, <3>1, FinishCloses
    <3>3. UNCHANGED <<objects, staged, prepared, confirmed, staging, shown, removal>>
      BY <1>2 DEF AbandonReview, background
    <3>4. ClosesGroups({act.op}, FALSE)
      BY <2>1, <2>2, <3>2, <3>3 DEF ClosesGroups
    <3> QED
      BY <2>2, <3>4
  <2>3. CASE ~Unfinished(act.op)
    BY <1>2, <2>3 DEF AbandonReview, WritesNothing, background
  <2> QED
    BY <2>2, <2>3
<1>3. ASSUME RestorePointers
      PROVE  \/ ClosesGroups({act.op}, FALSE) /\ Unfinished(act.op)
             \/ WritesNothing /\ UNCHANGED <<shown, removal>> /\ ~Unfinished(act.op)
  <2>1. act.op \in Ops
    BY <1>3 DEF RestorePointers, Working, Installing, Attempting
  <2>2. CASE Unfinished(act.op)
    <3>1. Finish(act.op, FALSE)
      BY <1>3, <2>2 DEF RestorePointers
    <3>2. Closes({act.op}, FALSE)
      BY <2>1, <2>2, <3>1, FinishCloses
    <3>3. UNCHANGED <<objects, staged, prepared, confirmed, staging, shown, removal>>
      BY <1>3 DEF RestorePointers, background
    <3>4. ClosesGroups({act.op}, FALSE)
      BY <2>1, <2>2, <3>2, <3>3 DEF ClosesGroups
    <3> QED
      BY <2>2, <3>4
  <2>3. CASE ~Unfinished(act.op)
    BY <1>3, <2>3 DEF RestorePointers, WritesNothing, background
  <2> QED
    BY <2>2, <2>3
<1>4. ASSUME Restart
      PROVE  ClosesGroups({op \in Ops : Unfinished(op)}, FALSE)
  BY <1>4, RestartCloses DEF Restart, ClosesGroups
<1> QED
  BY <1>1, <1>2, <1>3, <1>4

\* The rows keep their form through every step.
LEMMA RowsStep ==
    ASSUME StoreInv, [Next]_vars
    PROVE  Durable'
<1>0. Durable /\ Rows /\ Working
  BY DEF StoreInv, Durable
<1>1. ASSUME WritesNothing, UNCHANGED shown, removal' \in Removals \cup {None},
             removal' # None /\ removal'.kind = "uninstall" => removal'.slot \in Slots
      PROVE  Durable'
  <2>1. Rows'
    BY <1>0, <1>1 DEF WritesNothing, Rows, Pkg
  <2>2. PendingMatchesGroup' /\ Backed'
    BY <1>0, <1>1, PointersKept DEF WritesNothing
  <2> QED
    BY <2>1, <2>2 DEF Durable
<1>2. ASSUME Store
      PROVE  Durable'
  <2>1. Rows' /\ UNCHANGED <<active, txns>> /\ staged \subseteq staged' /\ prepared \subseteq prepared'
    BY <1>0, <1>2, StoreRows
  <2>2. PendingMatchesGroup' /\ Backed'
    BY <1>0, <2>1, PointersKept
  <2> QED
    BY <2>1, <2>2 DEF Durable
<1>3. ASSUME Switch
      PROVE  Durable'
  <2>1. act.pc = "switch" /\ Verified /\ UNCHANGED <<objects, staged, prepared, confirmed, staging, shown, removal>>
    BY <1>3 DEF Switch, background
  <2>2. CASE Replayed
    BY <1>0, <1>1, <2>1, <2>2 DEF Replayed, WritesNothing, Rows
  <2>3. CASE Switched
    <3>1. /\ PendingMatchesGroup' /\ Backed'
          /\ active' \in [Slots -> Pointers \cup {None}]
          /\ \A s \in Slots : Pkg(s)' # None => SlotOf[Pkg(s)'] = s
          /\ txns' = [txns EXCEPT ![act.op] = [changes |-> act.changes, state |-> "checking"]]
          /\ act.op \in Ops /\ IsGroup(act.changes)
      BY <1>0, <2>1, <2>3, SwitchMoves
    <3>2. [changes |-> act.changes, state |-> "checking"] \in Transactions
      BY <3>1 DEF IsGroup, Transactions
    <3>3. /\ txns' \in [Ops -> Transactions \cup {None}]
          /\ \A op \in Ops : txns'[op] # None => IsGroup(txns'[op].changes)
      BY <1>0, <3>1, <3>2 DEF Rows
    <3>4. Rows'
      BY <1>0, <2>1, <3>1, <3>3 DEF Rows
    <3> QED
      BY <3>1, <3>4 DEF Durable
  <2> QED
    BY <1>3, <2>2, <2>3 DEF Switch
<1>4. ASSUME RemovePointer
      PROVE  Durable'
  <2>1. /\ PendingMatchesGroup' /\ Backed'
        /\ active' \in [Slots -> Pointers \cup {None}]
        /\ \A s \in Slots : Pkg(s)' # None => SlotOf[Pkg(s)'] = s
    BY <1>0, <1>4, RemoveMoves
  <2>2. UNCHANGED <<objects, staged, prepared, txns, confirmed, staging, shown>> /\ removal' = None
    BY <1>4 DEF RemovePointer
  <2>3. Rows'
    BY <1>0, <2>1, <2>2 DEF Rows
  <2> QED
    BY <2>1, <2>3 DEF Durable
<1>5. ASSUME Activation
      PROVE  Durable'
  <2>1. CASE WritesNothing /\ UNCHANGED <<shown, removal>>
    BY <1>0, <1>1, <2>1 DEF Rows
  <2>2. CASE AbandonReview \/ RestorePointers
    BY <1>0, <2>1, <2>2, FinishersClose, ClosingRows
  <2>3. CASE CommitGroup
    BY <1>0, <2>3, FinishersClose, ClosingRows
  <2> QED
    BY <1>3, <1>5, <2>1, <2>2, <2>3, WorkerWrites
<1>6. ASSUME Others
      PROVE  Durable'
  <2>1. CASE Restart
    BY <1>0, <2>1, FinishersClose, ClosingRows
  <2> QED
    BY <1>0, <1>1, <1>4, <1>6, <2>1, OthersWrite
<1>7. CASE UNCHANGED vars
  BY <1>0, <1>1, <1>7 DEF vars, durable, background, WritesNothing, Rows
<1> QED
  BY <1>2, <1>5, <1>6, <1>7 DEF Next

-----------------------------------------------------------------------------
(* The worker and its operation, step by step. *)

\* A process handle is published or forgotten; nothing else enters the tables.
HandleTypes == endpoints \in [Slots -> Ids \cup {None}] /\ registry \subseteq Ids

\* The worker does not move.
LEMMA WorkerKept ==
    ASSUME Working, UNCHANGED txns, HandleTypes',
           act' = act \/ act' = [act EXCEPT !.permit = FALSE]
    PROVE  Working'
<1>1. /\ act' \in Workers
      /\ act'.pc = act.pc /\ act'.op = act.op /\ act'.changes = act.changes /\ act'.todo = act.todo
      /\ act'.started = act.started /\ act'.slot = act.slot /\ act'.id = act.id
  BY DEF Working, Workers
<1>2. Unfinished(act.op)' <=> Unfinished(act.op)
  BY <1>1 DEF Unfinished
<1> QED
  BY <1>1, <1>2 DEF Working, HandleTypes, Target

\* The worker waits, or goes through the slots whose instances it restores.
LEMMA WorkerIdles ==
    ASSUME HandleTypes', NEW pc \in {"idle", "restore"}, NEW todo \in SUBSET Slots,
           act' = [Idle EXCEPT !.pc = pc, !.todo = todo] \/ act' = Idle
    PROVE  Working'
<1>1. Idle \in Workers /\ Idle.pc = "idle" /\ Idle.started = {} /\ Idle.id = None
  BY DEF Idle, Workers, Loading, Installing, Attempting
<1> HIDE DEF Idle
<1>2. /\ act' \in Workers /\ act'.pc \in {"idle", "restore"} /\ act'.started = {} /\ act'.id = None
  <2>1. CASE act' = Idle
    BY <1>1, <2>1
  <2>2. CASE act' = [Idle EXCEPT !.pc = pc, !.todo = todo]
    <3>1. pc \in Installing \cup Loading
      BY DEF Loading
    <3> QED
      BY <1>1, <2>2, <3>1 DEF Workers
  <2> QED
    BY <2>1, <2>2
<1> QED
  BY <1>2 DEF Working, HandleTypes, Installing, Attempting

\* The worker takes up a group.
LEMMA WorkerBegins ==
    ASSUME HandleTypes', NEW op \in Ops, NEW cs, IsGroup(cs), Worker(op, cs)
    PROVE  Working'
<1>1. cs \in Changes /\ DOMAIN cs \subseteq Slots
  BY ChangesAre DEF IsGroup
<1> DEFINE D == DOMAIN cs
<1>2. D \in SUBSET Slots /\ act' = [Idle EXCEPT !.pc = "check", !.op = op, !.todo = D, !.changes = cs]
  BY <1>1 DEF Worker
<1> HIDE DEF D
<1>3. /\ act' \in Workers /\ act'.pc = "check" /\ act'.op = op /\ act'.changes = cs
      /\ act'.started = {} /\ act'.id = None
  BY <1>1, <1>2 DEF Idle, Workers, Loading, Installing, Attempting
<1> QED
  BY <1>3 DEF Working, HandleTypes, Attempting

LEMMA StoreWorks ==
    ASSUME StoreInv, Store
    PROVE  Working'
<1>0. Durable /\ Rows /\ Working /\ HandleTypes
  BY DEF StoreInv, Durable, Working, HandleTypes
<1>1. UNCHANGED txns
  BY <1>0, StoreRows
<1>2. UNCHANGED runtime
  BY DEF Store, StageCheck, Withdraw, Preview, StoreObject, RecordStage, StageFails, ChangeTrust,
         LockPlan, RepeatConfirm, RetryActivation, Rollback
<1>3. HandleTypes'
  BY <1>0, <1>2 DEF runtime, HandleTypes
<1>4. ASSUME NEW p \in Packages, StageCheck(p) \/ Withdraw(p)
      PROVE  UNCHANGED act
  BY <1>4 DEF StageCheck, Withdraw
<1>5. ASSUME NEW p \in Roots, Preview(p)
      PROVE  UNCHANGED act
  BY <1>5 DEF Preview
<1>6. ASSUME StoreObject \/ RecordStage \/ StageFails \/ ChangeTrust
      PROVE  UNCHANGED act
  BY <1>6 DEF StoreObject, RecordStage, StageFails, ChangeTrust
<1>7. ASSUME NEW op \in Ops, LockPlan(op)
      PROVE  Working'
  <2>1. IsGroup(shown.changes) /\ Worker(op, shown.changes)
    BY <1>0, <1>7 DEF LockPlan, Rows
  <2> QED
    BY <1>3, <2>1, WorkerBegins
<1>8. ASSUME NEW op \in Ops, RepeatConfirm(op)
      PROVE  Working'
  <2>1. IsGroup(confirmed[op].changes) /\ Worker(op, confirmed[op].changes)
    BY <1>0, <1>8 DEF RepeatConfirm, Rows
  <2> QED
    BY <1>3, <2>1, WorkerBegins
<1>9. ASSUME NEW op \in Ops, NEW installed \in Ops, Rollback(op, installed)
      PROVE  Working'
  <2>1. IsGroup(RollbackChanges(installed)) /\ Worker(op, RollbackChanges(installed))
    BY <1>0, <1>9, RollbackIsGroup DEF Rollback
  <2> QED
    BY <1>3, <2>1, WorkerBegins
<1>10. ASSUME NEW op \in Ops, RetryActivation(op)
       PROVE  Working'
  <2>1. /\ txns[op] # None
        /\ act' = [Idle EXCEPT !.pc = "verify", !.op = op, !.changes = txns[op].changes]
    BY <1>10 DEF RetryActivation, Targets, Unfinished
  <2>2. PICK cs : cs = txns[op].changes
    OBVIOUS
  <2>3. IsGroup(cs) /\ cs \in Changes
    BY <1>0, <2>1, <2>2, TransactionsAre
  <2>4. /\ act' \in Workers /\ act'.pc = "verify" /\ act'.op = op /\ act'.changes = cs
        /\ act'.started = {} /\ act'.id = None
    BY <2>1, <2>2, <2>3 DEF Idle, Workers, Loading, Installing, Attempting
  <2> QED
    BY <1>1, <1>3, <2>1, <2>2, <2>3, <2>4 DEF Working, HandleTypes
<1> QED
  BY <1>0, <1>1, <1>3, <1>4, <1>5, <1>6, <1>7, <1>8, <1>9, <1>10, WorkerKept DEF Store

\* The steps up to the switch.
LEMMA ReviewWorks ==
    ASSUME StoreInv, \/ \E s \in Slots : CheckOnline(s)
                     \/ CheckFails \/ Switch \/ AbandonReview
    PROVE  Working'
<1>0. Durable /\ Rows /\ Working /\ HandleTypes
  BY DEF StoreInv, Durable, Working, HandleTypes
<1>1. HandleTypes'
  BY <1>0 DEF HandleTypes, CheckOnline, CheckFails, Switch, AbandonReview, runtime
<1>2. ASSUME NEW s \in Slots, CheckOnline(s)
      PROVE  Working'
  <2>1. act.pc = "check" /\ UNCHANGED txns
    BY <1>2 DEF CheckOnline
  <2>2. \/ act' = [act EXCEPT !.pc = "failed"]
        \/ \E pc \in {"switch", "check"} : act' = [act EXCEPT !.todo = @ \ {s}, !.pc = pc]
    BY <1>2 DEF CheckOnline
  <2>3. /\ act' \in Workers /\ act'.pc \in {"check", "switch", "failed"}
        /\ act'.op = act.op /\ act'.changes = act.changes
        /\ act'.started = act.started /\ act'.id = act.id
    <3>1. act \in Workers
      BY <1>0 DEF Working
    <3>2. CASE act' = [act EXCEPT !.pc = "failed"]
      BY <3>1, <3>2 DEF Workers, Installing
    <3>3. CASE \E pc \in {"switch", "check"} : act' = [act EXCEPT !.todo = @ \ {s}, !.pc = pc]
      <4>1. PICK pc \in {"switch", "check"} : act' = [act EXCEPT !.todo = @ \ {s}, !.pc = pc]
        BY <3>3
      <4> QED
        BY <3>1, <4>1 DEF Workers, Installing
    <3> QED
      BY <2>2, <3>2, <3>3
  <2> QED
    BY <1>0, <1>1, <2>1, <2>3 DEF Working, HandleTypes, Installing, Attempting
<1>3. ASSUME CheckFails
      PROVE  Working'
  <2>1. act.pc \in {"check", "switch"} /\ act' = [act EXCEPT !.pc = "failed"]
    BY <1>3 DEF CheckFails
  <2>2. /\ act' \in Workers /\ act'.pc = "failed"
        /\ act'.op = act.op /\ act'.changes = act.changes
        /\ act'.started = act.started /\ act'.id = act.id
    BY <1>0, <2>1 DEF Working, Workers, Installing
  <2> QED
    BY <1>0, <1>1, <2>1, <2>2 DEF Working, HandleTypes, Installing, Attempting
<1>4. ASSUME AbandonReview
      PROVE  Working'
  BY <1>1, <1>4, WorkerIdles DEF AbandonReview
<1>5. ASSUME Switch
      PROVE  Working'
  <2>1. act.pc = "switch" /\ act.op \in Ops /\ IsGroup(act.changes) /\ act.started = {} /\ act.id = None
    BY <1>0, <1>5 DEF Switch, Working, Installing
  <2>2. ASSUME NEW pc \in {"verify", "failed"}, act' = [act EXCEPT !.pc = pc],
               txns'[act.op] # None, txns'[act.op].changes = act.changes
        PROVE  Working'
    <3>1. /\ act' \in Workers /\ act'.pc = pc /\ act'.op = act.op /\ act'.changes = act.changes
          /\ act'.started = {} /\ act'.id = None
      BY <1>0, <2>1, <2>2 DEF Working, Workers, Installing, Attempting
    <3> QED
      BY <1>1, <2>1, <2>2, <3>1 DEF Working, HandleTypes, Attempting
  <2>3. CASE Replayed
    <3>1. txns'[act.op] # None /\ txns'[act.op].changes = act.changes
      BY <2>3 DEF Replayed
    <3>2. act' = Idle \/ act' = [act EXCEPT !.pc = "verify"]
      BY <2>3 DEF Replayed
    <3> QED
      BY <1>1, <2>2, <3>1, <3>2, WorkerIdles
  <2>4. CASE Switched
    <3>1. txns'[act.op] = [changes |-> act.changes, state |-> "checking"]
      BY <1>0, <2>1, <2>4 DEF Switched, Rows
    <3>2. txns'[act.op] # None
      BY <2>1, <3>1, NoneIsAbsent DEF IsGroup, Transactions
    <3> QED
      BY <2>2, <2>4, <3>1, <3>2 DEF Switched
  <2> QED
    BY <1>5, <2>3, <2>4 DEF Switch
<1> QED
  BY <1>2, <1>3, <1>4, <1>5

LEMMA StopIs ==
    ASSUME NEW pc, StopOld(pc)
    PROVE  LET i == endpoints[act.slot] IN
           \E state \in JoinStates(i) :
              /\ registry' = IF Joined(state) THEN registry \ {i} ELSE registry
              /\ endpoints' = IF Joined(state) THEN [endpoints EXCEPT ![act.slot] = None] ELSE endpoints
              /\ act' = IF Joined(state)
                        THEN [act EXCEPT !.pc = pc, !.stopped = @ \cup {act.slot}]
                        ELSE IF act.pc = "unload" THEN Idle
                        ELSE [act EXCEPT !.pc = IF i \in registry THEN "cleanup" ELSE "undo"]
              /\ inst' = Kept([inst EXCEPT ![i].state = state])
BY DEF StopOld

\* The steps of an attempt that go on with it: the worker's group and its
\* operation stay what they are.
Attempts(pcs) ==
    /\ act' \in Workers /\ act'.pc \in pcs
    /\ act'.op = act.op /\ act'.changes = act.changes

LEMMA AttemptWorks ==
    ASSUME Working, HandleTypes', UNCHANGED txns, act.pc \in Attempting, Attempts(Attempting),
           act'.pc \in {"slots", "replace", "start", "await"} =>
              /\ Unfinished(act.op) /\ act'.todo \subseteq DOMAIN act.changes
              /\ act'.pc # "slots" => act'.slot \in DOMAIN act.changes,
           act'.started # {} =>
              /\ Unfinished(act.op)
              /\ act'.pc \in {"slots", "replace", "start", "await", "undo", "cleanup"},
           act'.id # None <=> act'.pc = "await"
    PROVE  Working'
<1>1. Unfinished(act.op)' <=> Unfinished(act.op)
  BY DEF Unfinished, Attempts
<1>2. IsGroup(act.changes) /\ act.changes \in Changes /\ DOMAIN act.changes \subseteq Slots
  BY ChangesAre DEF Working, Installing, IsGroup
<1> QED
  BY <1>1, <1>2 DEF Working, HandleTypes, Attempts, Installing, Attempting

LEMMA VerifyWorks ==
    ASSUME StoreInv, \/ Verify \/ PredecessorGone \/ ActivationFails \/ TargetReady
                     \/ \E s \in Slots : NextSlot(s)
    PROVE  Working'
<1>0. Durable /\ Rows /\ Working /\ HandleTypes
  BY DEF StoreInv, Durable, Working, HandleTypes
<1>1. HandleTypes' /\ UNCHANGED txns
  BY <1>0 DEF HandleTypes, Verify, PredecessorGone, ActivationFails, TargetReady, NextSlot, runtime, durable
<1>2. act.pc \in Attempting => DOMAIN act.changes \subseteq Slots
  BY <1>0, ChangesAre DEF Working, Installing, IsGroup
<1>3. ASSUME Verify
      PROVE  Working'
  <2> DEFINE D == DOMAIN act.changes
  <2>1. /\ act.pc = "verify" /\ act.started = {} /\ act.id = None
        /\ D \in SUBSET Slots
    BY <1>0, <1>2, <1>3 DEF Verify, Working, Attempting
  <2>2. \/ Unfinished(act.op) /\ act' = [act EXCEPT !.pc = "slots", !.todo = D, !.permit = TRUE]
        \/ act' = [act EXCEPT !.pc = "undo"]
    BY <1>3 DEF Verify, Targets
  <2> HIDE DEF D
  <2>3. /\ Attempts({"slots", "undo"}) /\ act'.started = {} /\ act'.id = None
        /\ act'.pc = "slots" => Unfinished(act.op) /\ act'.todo = D
    <3>1. act \in Workers /\ {"slots", "undo"} \subseteq Installing
      BY <1>0 DEF Working, Installing, Attempting
    <3>2. CASE act' = [act EXCEPT !.pc = "undo"]
      BY <2>1, <3>1, <3>2 DEF Attempts, Workers
    <3>3. CASE Unfinished(act.op) /\ act' = [act EXCEPT !.pc = "slots", !.todo = D, !.permit = TRUE]
      BY <2>1, <3>1, <3>3 DEF Attempts, Workers
    <3> QED
      BY <2>2, <3>2, <3>3
  <2> QED
    BY <1>0, <1>1, <2>1, <2>3, AttemptWorks DEF Attempts, Attempting, D
<1>4. ASSUME PredecessorGone
      PROVE  Working'
  <2>1. /\ act.pc = "replace" /\ act.id = None /\ Unfinished(act.op)
        /\ act.todo \subseteq DOMAIN act.changes /\ act.slot \in DOMAIN act.changes
        /\ \E pc \in {"start", "slots"} : act' = [act EXCEPT !.pc = pc]
    BY <1>0, <1>4 DEF PredecessorGone, Working, Attempting
  <2>2. /\ Attempts({"slots", "start"}) /\ act'.started = act.started /\ act'.id = None
        /\ act'.todo = act.todo /\ act'.slot = act.slot
    BY <1>0, <2>1 DEF Attempts, Working, Workers, Installing, Attempting
  <2> QED
    BY <1>0, <1>1, <2>1, <2>2, AttemptWorks DEF Attempts, Attempting
<1>5. ASSUME ActivationFails
      PROVE  Working'
  <2>1. /\ act.pc \in {"slots", "replace", "start"} /\ act.id = None /\ Unfinished(act.op)
        /\ act' = [act EXCEPT !.pc = "undo"]
    BY <1>0, <1>5 DEF ActivationFails, Working, Attempting
  <2>2. Attempts({"undo"}) /\ act'.started = act.started /\ act'.id = None
    BY <1>0, <2>1 DEF Attempts, Working, Workers, Installing, Attempting
  <2> QED
    BY <1>0, <1>1, <2>1, <2>2, AttemptWorks DEF Attempts, Attempting
<1>6. ASSUME TargetReady
      PROVE  Working'
  <2>1. /\ act.pc = "await" /\ Unfinished(act.op) /\ act.todo \subseteq DOMAIN act.changes
        /\ act.id \in Ids
        /\ act' = [act EXCEPT !.pc = "slots", !.id = None, !.started = @ \cup {act.id},
                              !.required = @ \cup {act.id}]
    BY <1>0, <1>6 DEF TargetReady, Working, Workers, Attempting
  <2>2. Attempts({"slots"}) /\ act'.todo = act.todo /\ act'.id = None
    BY <1>0, <2>1 DEF Attempts, Working, Workers, Installing, Attempting
  <2> QED
    BY <1>0, <1>1, <2>1, <2>2, AttemptWorks DEF Attempts, Attempting
<1>7. ASSUME NEW s \in Slots, NextSlot(s)
      PROVE  Working'
  <2>1. /\ act.pc = "slots" /\ Unfinished(act.op) /\ act.todo \subseteq DOMAIN act.changes
        /\ s \in act.todo /\ act.id = None
    BY <1>0, <1>7 DEF NextSlot, Working, Attempting
  <2>2. PICK required \in SUBSET Ids, pc \in {"slots", "replace", "start"} :
           act' = [act EXCEPT !.todo = @ \ {s}, !.required = required, !.slot = s, !.pc = pc]
    <3>1. endpoints[s] # None => act.required \cup {endpoints[s]} \in SUBSET Ids
      BY <1>0 DEF HandleTypes, Working, Workers
    <3>2. act.required \in SUBSET Ids
      BY <1>0 DEF Working, Workers
    <3> QED
      BY <1>7, <3>1, <3>2 DEF NextSlot
  <2>3. /\ Attempts({"slots", "replace", "start"}) /\ act'.todo = act.todo \ {s} /\ act'.slot = s
        /\ act'.id = None /\ act'.started = act.started
    <3>1. act \in Workers /\ act.todo \ {s} \in SUBSET Slots
      BY <1>0 DEF Working, Workers
    <3>2. pc \in Installing
      BY DEF Installing, Attempting
    <3> QED
      BY <2>1, <2>2, <3>1, <3>2 DEF Attempts, Workers
  <2> QED
    BY <1>0, <1>1, <2>1, <2>3, AttemptWorks DEF Attempts, Attempting
<1> QED
  BY <1>3, <1>4, <1>5, <1>6, <1>7

LEMMA AttemptStops ==
    ASSUME StoreInv, StopPredecessor \/ StartTarget \/ TargetFails \/ UndoStarted
    PROVE  Working'
<1>0. Durable /\ Rows /\ Working /\ HandleTypes
  BY DEF StoreInv, Durable, Working, HandleTypes
<1>1. UNCHANGED txns
  BY DEF StopPredecessor, StartTarget, TargetFails, UndoStarted, durable
<1>2. ASSUME StopPredecessor
      PROVE  Working'
  <2>1. /\ act.pc = "replace" /\ act.id = None /\ Unfinished(act.op) /\ act.slot \in Slots
        /\ act.todo \subseteq DOMAIN act.changes /\ act.slot \in DOMAIN act.changes
    BY <1>0, <1>2 DEF StopPredecessor, Working, Attempting
  <2>2. HandleTypes' /\ \/ \E pc \in {"start", "slots"} :
                              act' = [act EXCEPT !.pc = pc, !.stopped = @ \cup {act.slot}]
                        \/ \E pc \in {"cleanup", "undo"} : act' = [act EXCEPT !.pc = pc]
    BY <1>0, <1>2, <2>1, StopIs DEF StopPredecessor, HandleTypes
  <2>3. /\ Attempts({"slots", "start", "undo", "cleanup"}) /\ act'.started = act.started
        /\ act'.id = None /\ act'.todo = act.todo /\ act'.slot = act.slot
    <3>1. CASE \E pc \in {"cleanup", "undo"} : act' = [act EXCEPT !.pc = pc]
      BY <1>0, <2>1, <3>1 DEF Attempts, Working, Workers, Installing, Attempting
    <3>2. ASSUME NEW pc \in {"start", "slots"},
                 act' = [act EXCEPT !.pc = pc, !.stopped = @ \cup {act.slot}]
          PROVE  /\ Attempts({"slots", "start"}) /\ act'.started = act.started
                 /\ act'.id = None /\ act'.todo = act.todo /\ act'.slot = act.slot
      <4>1. PICK stopped \in SUBSET Slots : stopped = act.stopped \cup {act.slot}
        BY <1>0, <2>1 DEF Working, Workers
      <4>2. act' = [act EXCEPT !.pc = pc, !.stopped = stopped]
        BY <3>2, <4>1
      <4> QED
        BY <1>0, <2>1, <4>2 DEF Attempts, Working, Workers, Installing, Attempting
    <3> QED
      BY <2>2, <3>1, <3>2 DEF Attempts
  <2> QED
    BY <1>0, <1>1, <2>1, <2>2, <2>3, AttemptWorks DEF Attempts, Attempting
<1>3. ASSUME StartTarget
      PROVE  Working'
  <2>1. /\ act.pc = "start" /\ act.id = None /\ Unfinished(act.op) /\ act.slot \in Slots
        /\ act.todo \subseteq DOMAIN act.changes /\ act.slot \in DOMAIN act.changes
    BY <1>0, <1>3 DEF StartTarget, Working, Attempting
  <2>2. CASE Started(act.slot, Target, act.op, TRUE, "await")
    <3>0. PICK i \in Ids : /\ registry' = Reaped \cup {i}
                           /\ act' = [act EXCEPT !.pc = "await", !.slot = act.slot, !.id = i]
      BY <2>2 DEF Started
    <3>1. i # None /\ registry' \subseteq Ids
      BY <1>0, <3>0, NoneIsAbsent DEF Reaped, HandleTypes
    <3>2. HandleTypes'
      BY <1>0, <1>3, <3>1 DEF HandleTypes, StartTarget
    <3>3. /\ Attempts({"await"}) /\ act'.started = act.started /\ act'.id # None
          /\ act'.todo = act.todo /\ act'.slot = act.slot
      <4>1. act \in Workers /\ "await" \in Installing
        BY <1>0 DEF Working, Installing, Attempting
      <4> QED
        BY <2>1, <3>0, <3>1, <4>1 DEF Attempts, Workers
    <3> QED
      BY <1>0, <1>1, <2>1, <3>2, <3>3, AttemptWorks DEF Attempts, Attempting
  <2>3. CASE ~Started(act.slot, Target, act.op, TRUE, "await")
    <3>1. HandleTypes' /\ \E pc \in {"cleanup", "undo"} : act' = [act EXCEPT !.pc = pc]
      BY <1>0, <1>3, <2>3 DEF HandleTypes, StartTarget, Reaped
    <3>2. /\ Attempts({"undo", "cleanup"}) /\ act'.started = act.started /\ act'.id = None
      BY <1>0, <2>1, <3>1 DEF Attempts, Working, Workers, Installing, Attempting
    <3> QED
      BY <1>0, <1>1, <2>1, <3>1, <3>2, AttemptWorks DEF Attempts, Attempting
  <2> QED
    BY <2>2, <2>3
<1>4. ASSUME TargetFails
      PROVE  Working'
  <2>1. act.pc = "await" /\ Unfinished(act.op)
    BY <1>0, <1>4 DEF TargetFails, Working
  <2>2. HandleTypes' /\ \E pc \in {"cleanup", "undo"} : act' = [act EXCEPT !.id = None, !.pc = pc]
    BY <1>0, <1>4 DEF HandleTypes, TargetFails
  <2>3. Attempts({"undo", "cleanup"}) /\ act'.started = act.started /\ act'.id = None
    BY <1>0, <2>1, <2>2 DEF Attempts, Working, Workers, Installing, Attempting
  <2> QED
    BY <1>0, <1>1, <2>1, <2>2, <2>3, AttemptWorks DEF Attempts, Attempting
<1>5. ASSUME UndoStarted
      PROVE  Working'
  <2>0. act.pc \in {"undo", "cleanup"} /\ act.id = None
    BY <1>0, <1>5 DEF UndoStarted, Working
  <2>1. CASE act.started = {}
    <3>1. /\ HandleTypes'
          /\ act' = Idle \/ act' = [act EXCEPT !.pc = "unpoint"]
      BY <1>0, <1>5, <2>1 DEF HandleTypes, UndoStarted
    <3>2. CASE act' = Idle
      BY <3>1, <3>2, WorkerIdles
    <3>3. CASE act' = [act EXCEPT !.pc = "unpoint"]
      <4>1. Attempts({"unpoint"}) /\ act'.started = {} /\ act'.id = None
        BY <1>0, <2>0, <2>1, <3>3 DEF Attempts, Working, Workers, Installing, Attempting
      <4> QED
        BY <1>0, <1>1, <2>0, <3>1, <4>1, AttemptWorks DEF Attempts, Attempting
    <3> QED
      BY <3>1, <3>2, <3>3
  <2>2. CASE act.started # {}
    <3>1. HandleTypes'
      BY <1>0, <1>5, <2>2 DEF HandleTypes, UndoStarted
    <3>2. PICK i \in act.started, pc \in {"undo", "cleanup"} :
             act' = [act EXCEPT !.started = @ \ {i}, !.required = @ \ {i}, !.pc = pc]
      BY <1>5, <2>0, <2>2 DEF UndoStarted
    <3>3. Attempts({"undo", "cleanup"}) /\ act'.id = None
      BY <1>0, <2>0, <3>2 DEF Attempts, Working, Workers, Installing, Attempting
    <3>4. Unfinished(act.op)
      BY <1>0, <2>2 DEF Working
    <3> QED
      BY <1>0, <1>1, <2>0, <3>1, <3>3, <3>4, AttemptWorks DEF Attempts, Attempting
  <2> QED
    BY <2>1, <2>2
<1> QED
  BY <1>2, <1>3, <1>4, <1>5

\* The steps that end an attempt, and those that load what is installed.
LEMMA EndingWorks ==
    ASSUME StoreInv, CommitGroup \/ RestorePointers \/ PublishLoaded \/ LoadFails
    PROVE  Working'
<1>0. Durable /\ Rows /\ Working /\ HandleTypes
  BY DEF StoreInv, Durable, Working, HandleTypes
<1>1. ASSUME CommitGroup
      PROVE  Working'
  <2>1. endpoints' \in [Slots -> Ids \cup {None}]
    <3>1. ASSUME NEW s \in Slots
          PROVE  endpoints'[s] \in Ids \cup {None}
      <4>1. CASE \E i \in act.started : inst[i].slot = s
        BY <1>0, <1>1, <4>1 DEF CommitGroup, Working, Workers
      <4>2. CASE ~\E i \in act.started : inst[i].slot = s
        BY <1>0, <1>1, <4>2 DEF CommitGroup, HandleTypes
      <4> QED
        BY <4>1, <4>2
    <3>2. DOMAIN endpoints' = Slots /\ endpoints' = [s \in Slots |-> endpoints'[s]]
      BY <1>1 DEF CommitGroup
    <3> QED
      BY <3>1, <3>2
  <2>2. registry' = registry /\ act' = Idle
    BY <1>1 DEF CommitGroup
  <2>3. HandleTypes'
    BY <1>0, <2>1, <2>2 DEF HandleTypes
  <2> QED
    BY <2>2, <2>3, WorkerIdles
<1>2. ASSUME RestorePointers
      PROVE  Working'
  <2>1. HandleTypes'
    BY <1>0, <1>2 DEF HandleTypes, RestorePointers
  <2>2. act.stopped \in SUBSET Slots
    BY <1>0 DEF Working, Workers
  <2>3. act' = Idle \/ act' = [Idle EXCEPT !.pc = "restore", !.todo = act.stopped]
    BY <1>2 DEF RestorePointers
  <2> QED
    BY <2>1, <2>2, <2>3, WorkerIdles
<1>3. ASSUME PublishLoaded
      PROVE  Working'
  <2>1. act.slot \in Slots /\ act.id \in Ids
    BY <1>0, <1>3 DEF PublishLoaded, Working, Workers
  <2>2. HandleTypes'
    BY <1>0, <1>3, <2>1 DEF HandleTypes, PublishLoaded
  <2>3. act.todo \in SUBSET Slots
    BY <1>0 DEF Working, Workers
  <2>4. act' = Idle \/ act' = [Idle EXCEPT !.pc = "restore", !.todo = act.todo]
    BY <1>3 DEF PublishLoaded
  <2> QED
    BY <2>2, <2>3, <2>4, WorkerIdles
<1>4. ASSUME LoadFails
      PROVE  Working'
  <2>1. HandleTypes' /\ act' = Idle
    BY <1>0, <1>4 DEF HandleTypes, LoadFails
  <2> QED
    BY <2>1, WorkerIdles
<1> QED
  BY <1>1, <1>2, <1>3, <1>4

LEMMA LoadingWorks ==
    ASSUME StoreInv, \/ \E s \in Slots : BeginEnable(s)
                     \/ StopLoaded \/ IssuePermit \/ LaunchCommitted \/ CheckLoaded
    PROVE  Working'
<1>0. Durable /\ Rows /\ Working /\ HandleTypes
  BY DEF StoreInv, Durable, Working, HandleTypes
<1>1. ASSUME NEW pcs \in SUBSET {"unload", "launch", "spawn", "loading", "publish"},
             act' \in Workers, act'.pc \in pcs, act'.started = {},
             act'.slot \in Slots, act'.changes \in Changes, act'.slot \in DOMAIN act'.changes,
             act'.id # None <=> act'.pc \in {"loading", "publish"}, HandleTypes'
      PROVE  Working'
  BY <1>1 DEF Working, HandleTypes, Installing, Attempting
<1>2. ASSUME act.pc \in {"unload", "launch", "spawn", "loading", "publish"}
      PROVE  /\ act.started = {} /\ act.slot \in Slots /\ act.changes \in Changes
             /\ act.slot \in DOMAIN act.changes
             /\ act.id # None <=> act.pc \in {"loading", "publish"}
  BY <1>0, <1>2 DEF Working
<1>3. ASSUME NEW s \in Slots, BeginEnable(s)
      PROVE  Working'
  <2>1. HandleTypes'
    BY <1>0, <1>3 DEF HandleTypes, BeginEnable, runtime
  <2>2. act.pc \in {"idle", "restore"} /\ act.started = {} /\ act.id = None
    BY <1>0, <1>3 DEF BeginEnable, Working
  <2>3. CASE Enabled(s) /\ \E pc \in {"launch", "unload"} :
                act' = [act EXCEPT !.pc = pc, !.slot = s, !.todo = @ \ {s},
                          !.changes = [t \in {s} |-> [to |-> active[s].pkg, expected |-> None]]]
    <3>1. active[s].pkg \in Packages
      BY <1>0, <2>3, PointersAre DEF Enabled, Pkg, Pointers
    <3>2. PICK cs : cs = [t \in {s} |-> [to |-> active[s].pkg, expected |-> None]]
      OBVIOUS
    <3>3. cs \in Changes /\ DOMAIN cs = {s}
      <4>1. cs \in [{s} -> [to : Packages, expected : Packages \cup {None}]]
        BY <3>1, <3>2
      <4> QED
        BY <4>1, ChangesFrom
    <3>4. PICK pc \in {"launch", "unload"} :
             act' = [act EXCEPT !.pc = pc, !.slot = s, !.todo = @ \ {s}, !.changes = cs]
      BY <2>3, <3>2
    <3>5. /\ act' \in Workers /\ act'.pc \in {"launch", "unload"} /\ act'.started = {}
          /\ act'.slot = s /\ act'.changes = cs /\ act'.id = None
      BY <1>0, <2>2, <3>3, <3>4 DEF Working, Workers, Loading
    <3> QED
      BY <1>1, <2>1, <3>3, <3>5
  <2>4. CASE act.pc = "restore" /\ act' = [act EXCEPT !.todo = @ \ {s}]
    <3>1. /\ act' \in Workers /\ act'.pc = "restore" /\ act'.started = {} /\ act'.id = None
      BY <1>0, <2>2, <2>4 DEF Working, Workers
    <3> QED
      BY <2>1, <3>1 DEF Working, HandleTypes, Installing, Attempting
  <2>5. CASE act' = Idle
    BY <2>1, <2>5, WorkerIdles
  <2> QED
    BY <1>3, <2>3, <2>4, <2>5 DEF BeginEnable
<1>4. ASSUME StopLoaded
      PROVE  Working'
  <2>1. act.pc = "unload"
    BY <1>4 DEF StopLoaded
  <2>2. /\ HandleTypes'
        /\ act' = Idle \/ act' = [act EXCEPT !.pc = "launch", !.stopped = @ \cup {act.slot}]
    BY <1>0, <1>2, <1>4, <2>1, StopIs DEF StopLoaded, HandleTypes
  <2>3. CASE act' = [act EXCEPT !.pc = "launch", !.stopped = @ \cup {act.slot}]
    <3>1. /\ act' \in Workers /\ act'.pc = "launch" /\ act'.started = {}
          /\ act'.slot = act.slot /\ act'.changes = act.changes /\ act'.id = None
      BY <1>0, <1>2, <2>1, <2>3 DEF Working, Workers, Loading
    <3> QED
      BY <1>1, <1>2, <2>1, <2>2, <3>1
  <2> QED
    BY <2>2, <2>3, WorkerIdles
<1>5. ASSUME IssuePermit
      PROVE  Working'
  <2>1. /\ act.pc \in {"launch", "unload"} /\ HandleTypes'
        /\ act' = Idle \/ act' = [act EXCEPT !.pc = "spawn", !.permit = TRUE]
    BY <1>0, <1>5 DEF IssuePermit, HandleTypes, runtime
  <2>2. CASE act' = [act EXCEPT !.pc = "spawn", !.permit = TRUE]
    <3>1. /\ act' \in Workers /\ act'.pc = "spawn" /\ act'.started = {}
          /\ act'.slot = act.slot /\ act'.changes = act.changes /\ act'.id = None
      BY <1>0, <1>2, <2>1, <2>2 DEF Working, Workers, Loading
    <3> QED
      BY <1>1, <1>2, <2>1, <3>1
  <2> QED
    BY <2>1, <2>2, WorkerIdles
<1>6. ASSUME LaunchCommitted
      PROVE  Working'
  <2>1. act.pc = "spawn" /\ UNCHANGED endpoints
    BY <1>6 DEF LaunchCommitted
  <2>2. CASE Started(act.slot, Target, None, TRUE, "loading")
    <3>0. PICK i \in Ids : /\ registry' = Reaped \cup {i}
                           /\ act' = [act EXCEPT !.pc = "loading", !.slot = act.slot, !.id = i]
      BY <2>2 DEF Started
    <3>1. i # None /\ registry' \subseteq Ids
      BY <1>0, <3>0, NoneIsAbsent DEF Reaped, HandleTypes
    <3>2. HandleTypes'
      BY <1>0, <2>1, <3>1 DEF HandleTypes
    <3>3. /\ act' \in Workers /\ act'.pc = "loading" /\ act'.started = {}
          /\ act'.slot = act.slot /\ act'.changes = act.changes /\ act'.id # None
      BY <1>0, <1>2, <2>1, <3>0, <3>1 DEF Working, Workers, Loading
    <3> QED
      BY <1>1, <1>2, <2>1, <3>2, <3>3
  <2>3. CASE ~Started(act.slot, Target, None, TRUE, "loading")
    <3>1. HandleTypes' /\ act' = Idle
      BY <1>0, <1>6, <2>3 DEF HandleTypes, LaunchCommitted, Reaped
    <3> QED
      BY <3>1, WorkerIdles
  <2> QED
    BY <2>2, <2>3
<1>7. ASSUME CheckLoaded
      PROVE  Working'
  <2>1. act.pc = "loading" /\ HandleTypes' /\ act' = [act EXCEPT !.pc = "publish"]
    BY <1>0, <1>7 DEF CheckLoaded, HandleTypes, runtime
  <2>2. /\ act' \in Workers /\ act'.pc = "publish" /\ act'.started = {}
        /\ act'.slot = act.slot /\ act'.changes = act.changes /\ act'.id = act.id
    BY <1>0, <1>2, <2>1 DEF Working, Workers, Loading
  <2> QED
    BY <1>1, <1>2, <2>1, <2>2
<1> QED
  BY <1>3, <1>4, <1>5, <1>6, <1>7

LEMMA OthersWork ==
    ASSUME StoreInv, Others
    PROVE  Working'
<1>0. Durable /\ Rows /\ Working /\ HandleTypes
  BY DEF StoreInv, Durable, Working, HandleTypes
<1>1. ASSUME NEW i \in Ids, ResumeInstance(i) \/ EndInstance(i)
      PROVE  Working'
  BY <1>0, <1>1, WorkerKept DEF ResumeInstance, EndInstance, durable, HandleTypes
<1>2. ASSUME NEW s \in Slots, Disable(s)
      PROVE  Working'
  BY <1>0, <1>2, WorkerKept DEF Disable, durable, HandleTypes
<1>3. ASSUME StopAll, UNCHANGED txns
      PROVE  Working'
  BY <1>0, <1>3, WorkerKept DEF StopAll, HandleTypes
<1>4. ASSUME LockCredentials \/ LeaveVault \/ \E s \in Slots : Uninstall(s)
      PROVE  Working'
  BY <1>3, <1>4 DEF LockCredentials, LeaveVault, Uninstall, durable
<1>5. ASSUME ReplaceVault \/ RemovePointer
      PROVE  Working'
  BY <1>0, <1>5, WorkerKept DEF ReplaceVault, RemovePointer, durable, runtime, HandleTypes
<1>6. ASSUME Restart
      PROVE  Working'
  <2>1. HandleTypes' /\ act' = Idle
    BY <1>6 DEF Restart, HandleTypes
  <2> QED
    BY <2>1, WorkerIdles
<1> QED
  BY <1>1, <1>2, <1>4, <1>5, <1>6 DEF Others

LEMMA StoreStep ==
    ASSUME StoreInv, [Next]_vars
    PROVE  StoreInv'
<1>1. Durable'
  BY RowsStep
<1>2. Working'
  <2>1. CASE Activation
    BY <2>1, ReviewWorks, VerifyWorks, AttemptStops, EndingWorks, LoadingWorks DEF Activation
  <2>2. CASE UNCHANGED vars
    BY <2>2, WorkerKept DEF vars, durable, runtime, StoreInv, Working, HandleTypes
  <2> QED
    BY <2>1, <2>2, StoreWorks, OthersWork DEF Next
<1> QED
  BY <1>1, <1>2 DEF StoreInv, Durable

LEMMA StoreInit ==
    ASSUME Init
    PROVE  StoreInv
<1>1. ASSUME NEW s \in Slots
      PROVE  /\ active[s] \in Pointers \cup {None}
             /\ PendingOp(s) = None
             /\ Pkg(s) # None => Pkg(s) \in Installed /\ SlotOf[Pkg(s)] = s
  <2>1. CASE \E p \in Installed : SlotOf[p] = s
    <3> DEFINE q == CHOOSE p \in Installed : SlotOf[p] = s
    <3>1. q \in Installed /\ SlotOf[q] = s
      BY <2>1
    <3>2. active[s] = [pkg |-> q, pending |-> None]
      BY <2>1 DEF Init
    <3> HIDE DEF q
    <3>3. active[s] \in Pointers /\ active[s] # None
      BY <3>1, <3>2, InstallAssumption, NoneIsAbsent DEF Pointers
    <3> QED
      BY <3>1, <3>2, <3>3 DEF PendingOp, Pkg
  <2>2. CASE ~\E p \in Installed : SlotOf[p] = s
    BY <2>2 DEF Init, PendingOp, Pkg
  <2> QED
    BY <2>1, <2>2
<1>2. active \in [Slots -> Pointers \cup {None}]
  BY <1>1 DEF Init
<1>3. Rows
  BY <1>1, <1>2, InstallAssumption DEF Init, Rows
<1>4. PendingMatchesGroup
  BY <1>1 DEF Init, PendingMatchesGroup, Unfinished
<1>5. Backed
  <2>1. \A s \in Slots : Committed(s) = Pkg(s)
    BY <1>1, SettledIs
  <2>2. \A s \in Slots : Pkg(s) \in (staged \cap prepared) \cup {None}
    BY <1>1, InstallAssumption DEF Init
  <2> QED
    BY <2>1, <2>2 DEF Backed
<1>6. Working
  BY DEF Init, Working, Workers, Idle, Loading, Installing, Attempting
<1> QED
  BY <1>3, <1>4, <1>5, <1>6 DEF StoreInv

\* The rows, the groups and the worker's operation stay consistent through
\* every interleaving, failure and restart (extension_transaction.rs,
\* extension_activation.rs).
THEOREM StoreInvariant == Spec => []StoreInv
<1>1. Init => StoreInv
  BY StoreInit
<1>2. StoreInv /\ [Next]_vars => StoreInv'
  BY StoreStep
<1> QED
  BY <1>1, <1>2, PTL DEF Spec

\* Whatever a slot uses, or would go back to, has its archive and its verified
\* tree (extension_store.rs writes files before rows).
THEOREM PointersAreBackedHolds == Spec => []PointersAreBacked
<1>1. StoreInv => PointersAreBacked
  BY DEF StoreInv, Rows, Backed, PointersAreBacked
<1> QED
  BY <1>1, StoreInvariant, PTL

-----------------------------------------------------------------------------
(* The store implements the catalogue of groups. *)

LiveNow == [s \in Slots |-> Committed(s)]
GroupNow == [op \in Ops |-> IF txns[op] = None THEN None ELSE GroupOf(txns[op])]

LEMMA FateIs ==
    /\ Fate["checking"] = "offered" /\ Fate["complete"] = "installed"
    /\ Fate["rolled_back"] = "dropped"
BY DEF Fate

\* What is offered under an operation id.
LEMMA GroupIs ==
    ASSUME NEW t \in Transactions, IsGroup(t.changes)
    PROVE  LET cs == t.changes
           IN  /\ GroupOf(t) = [to |-> [s \in DOMAIN cs |-> cs[s].to],
                                base |-> [s \in DOMAIN cs |-> cs[s].expected],
                                state |-> Fate[t.state]]
               /\ [s \in DOMAIN cs |-> cs[s].to] \in Catalogue!Targets
               /\ GroupOf(t) # None
<1>1. PICK cs \in Changes : cs = t.changes
  BY DEF Transactions
<1>2. DOMAIN cs \subseteq Slots /\ \A s \in DOMAIN cs : cs[s].to \in Packages /\ cs[s].expected \in Packages \cup {None}
  BY ChangesAre
<1> DEFINE to == [s \in DOMAIN cs |-> cs[s].to]
           base == [s \in DOMAIN cs |-> cs[s].expected]
<1>3. to \in [DOMAIN cs -> Packages] /\ base \in [DOMAIN cs -> Packages \cup {None}]
  BY <1>2
<1>4. /\ to \in UNION {[D -> Packages] : D \in SUBSET Slots}
      /\ base \in UNION {[D -> Packages \cup {None}] : D \in SUBSET Slots}
  BY <1>2, <1>3
<1>5. DOMAIN to = DOMAIN cs /\ DOMAIN cs # {} /\ \A s \in DOMAIN to : SlotOf[to[s]] = s
  BY <1>1 DEF IsGroup
<1>6. to \in Catalogue!Targets
  <2> HIDE DEF to
  <2> QED
    BY <1>4, <1>5 DEF Catalogue!Targets
<1>7. GroupOf(t) = [to |-> to, base |-> base, state |-> Fate[t.state]]
  BY <1>1 DEF GroupOf
<1>8. Fate[t.state] \in {"offered", "installed", "dropped"}
  BY FateIs DEF Transactions
<1>9. GroupOf(t) # None
  <2> HIDE DEF to, base
  <2>1. [to |-> to, base |-> base, state |-> Fate[t.state]] \in Groups
    BY <1>4, <1>8 DEF Groups
  <2> QED
    BY <1>7, <2>1, NoneIsAbsent
<1> QED
  BY <1>1, <1>6, <1>7, <1>9

\* A group is open in the catalogue while its transaction is unfinished.
LEMMA OfferedIs ==
    ASSUME Rows, NEW op \in Ops
    PROVE  /\ GroupNow[op] = None <=> txns[op] = None
           /\ txns[op] # None =>
                 /\ GroupNow[op].to = [s \in DOMAIN txns[op].changes |-> txns[op].changes[s].to]
                 /\ GroupNow[op].base = [s \in DOMAIN txns[op].changes |-> txns[op].changes[s].expected]
                 /\ GroupNow[op].state = Fate[txns[op].state]
           /\ Unfinished(op) => GroupNow[op] # None /\ GroupNow[op].state = "offered"
<1>1. CASE txns[op] = None
  BY <1>1 DEF GroupNow, Unfinished
<1>2. CASE txns[op] # None
  <2>1. txns[op] \in Transactions /\ IsGroup(txns[op].changes)
    BY <1>2, TransactionsAre
  <2>2. GroupNow[op] = GroupOf(txns[op])
    BY <1>2 DEF GroupNow
  <2>3. GroupOf(txns[op]) # None
    BY <2>1, GroupIs
  <2> QED
    BY <1>2, <2>2, <2>3, FateIs DEF GroupOf, Unfinished
<1> QED
  BY <1>1, <1>2

LEMMA CatalogueInit ==
    ASSUME Init
    PROVE  Catalogue!Init
<1>1. StoreInv /\ Rows
  BY StoreInit DEF StoreInv
<1>2. \A s \in Slots : Committed(s) = Pkg(s)
  <2>1. \A s \in Slots : PendingOp(s) # None => active[s].pending \in Ops /\ Unfinished(active[s].pending)
    BY <1>1, PendingIs DEF StoreInv
  <2>2. \A op \in Ops : ~Unfinished(op)
    BY DEF Init, Unfinished
  <2> QED
    BY <2>1, <2>2, SettledIs
<1>3. \A s \in Slots : Committed(s) \in Packages \cup {None} /\ (Committed(s) = None \/ SlotOf[Committed(s)] = s)
  BY <1>1, <1>2, PointersAre DEF Rows
<1>4. GroupNow = [op \in Ops |-> None]
  BY DEF Init, GroupNow
<1> QED
  BY <1>3, <1>4 DEF Catalogue!Init, GroupNow

LEMMA CatalogueOffers ==
    ASSUME StoreInv, Switch, Switched
    PROVE  \E op \in Ops : Catalogue!Offer(op)
<1>0. Durable /\ Rows /\ Working
  BY DEF StoreInv, Durable
<1>1. /\ txns' = [txns EXCEPT ![act.op] = [changes |-> act.changes, state |-> "checking"]]
      /\ act.op \in Ops /\ IsGroup(act.changes)
      /\ \A s \in Slots : Committed(s)' = Committed(s)
      /\ \A s \in DOMAIN act.changes : Committed(s) = act.changes[s].expected
  BY <1>0, SwitchMoves DEF Switch
<1>2. PICK op \in Ops, cs \in Changes : op = act.op /\ cs = act.changes
  BY <1>1 DEF IsGroup
<1>3. PICK t \in Transactions : t = [changes |-> cs, state |-> "checking"]
  BY DEF Transactions
<1> DEFINE to == [s \in DOMAIN cs |-> cs[s].to]
           base == [s \in DOMAIN cs |-> cs[s].expected]
<1>4. IsGroup(cs) /\ t.changes = cs /\ t.state = "checking"
  BY <1>1, <1>2, <1>3
<1>5. GroupOf(t) = [to |-> to, base |-> base, state |-> "offered"] /\ to \in Catalogue!Targets
  BY <1>4, GroupIs, FateIs
<1>6. t # None /\ txns[op] = None /\ txns'[op] = t /\ \A x \in Ops : x # op => txns'[x] = txns[x]
  BY <1>0, <1>1, <1>2, <1>3, NoneIsAbsent DEF Rows, Switched
<1>7. LiveNow' = LiveNow
  BY <1>1 DEF LiveNow
<1>8. GroupNow[op] = None /\ GroupNow' = [GroupNow EXCEPT ![op] = GroupOf(t)]
  <2>1. ASSUME NEW x \in Ops
        PROVE  GroupNow'[x] = [GroupNow EXCEPT ![op] = GroupOf(t)][x]
    BY <1>6 DEF GroupNow, GroupOf
  <2> QED
    BY <1>6, <2>1 DEF GroupNow
<1>9. base = [s \in DOMAIN to |-> LiveNow[s]]
  BY <1>1, <1>2, ChangesAre DEF LiveNow
<1>10. Catalogue!Offer(op)
  <2> HIDE DEF to, base
  <2>1. GroupNow' = [GroupNow EXCEPT ![op] = [to |-> to, base |-> [s \in DOMAIN to |-> LiveNow[s]], state |-> "offered"]]
    BY <1>5, <1>8, <1>9
  <2> QED
    BY <1>5, <1>7, <1>8, <2>1 DEF Catalogue!Offer, LiveNow, GroupNow
<1> QED
  BY <1>10

LEMMA CatalogueCloses ==
    ASSUME Durable, NEW closed \in SUBSET Ops, NEW healthy \in BOOLEAN, ClosesGroups(closed, healthy)
    PROVE  /\ \A s \in Slots : LiveNow'[s] = IF PendingOp(s) \in closed /\ healthy THEN Pkg(s) ELSE LiveNow[s]
           /\ GroupNow' = [op \in Ops |->
                IF op \in closed
                THEN [GroupNow[op] EXCEPT !.state = IF healthy THEN "installed" ELSE "dropped"]
                ELSE GroupNow[op]]
<1>0. Rows /\ closed \in SUBSET Ops /\ healthy \in BOOLEAN /\ Closes(closed, healthy)
  BY DEF Durable, ClosesGroups
<1>1. \A s \in Slots : Committed(s)' = IF PendingOp(s) \in closed /\ healthy THEN Pkg(s) ELSE Committed(s)
  BY CloseMoves DEF ClosesGroups
<1>2. ASSUME NEW op \in Ops
      PROVE  GroupNow'[op] = IF op \in closed
                THEN [GroupNow[op] EXCEPT !.state = IF healthy THEN "installed" ELSE "dropped"]
                ELSE GroupNow[op]
  <2>1. CASE op \notin closed
    BY <1>0, <2>1 DEF Closes, GroupNow, GroupOf
  <2>2. CASE op \in closed
    <3>1. txns[op] # None /\ txns[op] \in Transactions /\ Unfinished(op)
      BY <1>0, <2>2, TransactionsAre DEF ClosesGroups, Unfinished
    <3>2. PICK state : state = IF healthy THEN "complete" ELSE "rolled_back"
      OBVIOUS
    <3>3. txns'[op] = [txns[op] EXCEPT !.state = state]
      BY <1>0, <2>2, <3>2 DEF Closes
    <3>4. txns'[op].changes = txns[op].changes /\ txns'[op].state = state /\ txns'[op] # None
      <4>1. state \in {"complete", "rolled_back"}
        BY <3>2
      <4>2. txns'[op] \in Transactions
        BY <3>1, <3>3, <4>1 DEF Transactions
      <4> QED
        BY <3>1, <3>3, <4>1, <4>2, NoneIsAbsent DEF Transactions
    <3>5. GroupNow'[op] = GroupOf(txns[op])'
      BY <3>4 DEF GroupNow
    <3>6. GroupNow[op] = GroupOf(txns[op])
      BY <3>1 DEF GroupNow
    <3>7. Fate[state] = IF healthy THEN "installed" ELSE "dropped"
      BY <1>0, <3>2, FateIs
    <3>8. PICK to, base : /\ to = [s \in DOMAIN txns[op].changes |-> txns[op].changes[s].to]
                          /\ base = [s \in DOMAIN txns[op].changes |-> txns[op].changes[s].expected]
      OBVIOUS
    <3>9. GroupOf(txns[op]) = [to |-> to, base |-> base, state |-> Fate[txns[op].state]]
      BY <3>8 DEF GroupOf
    <3>10. GroupOf(txns[op])' = [to |-> to, base |-> base, state |-> Fate[state]]
      BY <3>4, <3>8 DEF GroupOf
    <3> QED
      BY <2>2, <3>5, <3>6, <3>7, <3>9, <3>10
  <2> QED
    BY <2>1, <2>2
<1>3. \A s \in Slots : LiveNow[s] = Committed(s) /\ LiveNow'[s] = Committed(s)'
  BY DEF LiveNow
<1>4. DOMAIN GroupNow' = Ops /\ GroupNow' = [op \in Ops |-> GroupNow'[op]]
  BY DEF GroupNow
<1> QED
  BY <1>1, <1>2, <1>3, <1>4

LEMMA CatalogueInstalls ==
    ASSUME Durable, NEW op \in Ops, Unfinished(op), ClosesGroups({op}, TRUE)
    PROVE  Catalogue!Install(op)
<1>0. Rows /\ PendingMatchesGroup
  BY DEF Durable
<1>1. /\ GroupNow[op] # None /\ GroupNow[op].state = "offered" /\ txns[op] # None
      /\ DOMAIN txns[op].changes \subseteq Slots
  BY <1>0, OfferedIs, TransactionsAre DEF Unfinished
<1> DEFINE to == GroupNow[op].to
           base == GroupNow[op].base
           D == DOMAIN txns[op].changes
<1>2. to = [s \in D |-> txns[op].changes[s].to] /\ base = [s \in D |-> txns[op].changes[s].expected]
  BY <1>0, <1>1, OfferedIs
<1>3. ASSUME NEW s \in Slots
      PROVE  /\ PendingOp(s) = op <=> s \in D
             /\ s \in D => Pkg(s) = to[s] /\ Committed(s) = base[s]
  <2>1. ASSUME s \in D
        PROVE  PendingOp(s) = op /\ Pkg(s) = to[s] /\ Committed(s) = base[s]
    <3>1. active[s] = [pkg |-> txns[op].changes[s].to, pending |-> op]
      BY <1>0, <2>1 DEF PendingMatchesGroup, Targets
    <3>2. active[s] # None /\ op # None
      BY <1>0, <1>1, <2>1, <3>1, TransactionsAre, ChangesAre, NoneIsAbsent DEF Pointers
    <3>3. PendingOp(s) = op /\ Pkg(s) = txns[op].changes[s].to
      BY <3>1, <3>2 DEF PendingOp, Pkg
    <3>4. Committed(s) = txns[op].changes[s].expected
      BY <3>1, <3>2, <3>3 DEF Committed
    <3> QED
      BY <1>2, <2>1, <3>3, <3>4
  <2>2. ASSUME PendingOp(s) = op
        PROVE  s \in D
    BY <1>0, <2>2, NoneIsAbsent, PendingIs DEF PendingOp
  <2> QED
    BY <2>1, <2>2
<1>a. {op} \in SUBSET Ops
  OBVIOUS
<1>4. /\ \A s \in Slots : LiveNow'[s] = IF PendingOp(s) = op THEN Pkg(s) ELSE LiveNow[s]
      /\ GroupNow' = [x \in Ops |-> IF x = op THEN [GroupNow[x] EXCEPT !.state = "installed"] ELSE GroupNow[x]]
  BY <1>a, CatalogueCloses
<1>5. /\ LiveNow' = [s \in Slots |-> IF s \in DOMAIN to THEN to[s] ELSE LiveNow[s]]
      /\ \A s \in DOMAIN to : LiveNow[s] = base[s]
  <2>1. DOMAIN to = D
    BY <1>2
  <2>2. LiveNow' = [s \in Slots |-> LiveNow'[s]]
    BY DEF LiveNow
  <2> HIDE DEF to, base, D
  <2>3. \A s \in Slots : LiveNow'[s] = IF s \in DOMAIN to THEN to[s] ELSE LiveNow[s]
    BY <1>3, <1>4, <2>1
  <2>4. \A s \in D : s \in Slots /\ LiveNow[s] = Committed(s)
    BY <1>1 DEF LiveNow, D
  <2> QED
    BY <1>3, <2>1, <2>2, <2>3, <2>4
<1>6. GroupNow' = [GroupNow EXCEPT ![op].state = "installed"]
  BY <1>4 DEF GroupNow
<1> QED
  BY <1>1, <1>5, <1>6 DEF Catalogue!Install, LiveNow, GroupNow

LEMMA CatalogueDrops ==
    ASSUME Durable, NEW closed \in SUBSET Ops, ClosesGroups(closed, FALSE)
    PROVE  Catalogue!Drop(closed)
<1>0. Rows /\ \A op \in closed : Unfinished(op)
  BY DEF Durable, ClosesGroups
<1>1. \A op \in closed : GroupNow[op] # None /\ GroupNow[op].state = "offered"
  BY <1>0, OfferedIs
<1>2. /\ \A s \in Slots : LiveNow'[s] = LiveNow[s]
      /\ GroupNow' = [op \in Ops |-> IF op \in closed
                      THEN [GroupNow[op] EXCEPT !.state = "dropped"] ELSE GroupNow[op]]
  BY CatalogueCloses
<1>3. LiveNow' = LiveNow
  BY <1>2 DEF LiveNow
<1> QED
  BY <1>1, <1>2, <1>3 DEF Catalogue!Drop, LiveNow, GroupNow

LEMMA CatalogueStep ==
    ASSUME StoreInv, [Next]_vars
    PROVE  [Catalogue!Next]_<<LiveNow, GroupNow>>
<1>0. Durable /\ Rows /\ Working
  BY DEF StoreInv, Durable
<1>1. ASSUME UNCHANGED <<active, txns>>
      PROVE  UNCHANGED <<LiveNow, GroupNow>>
  BY <1>1 DEF LiveNow, GroupNow, GroupOf, Committed, PendingOp, Pkg
<1>2. CASE Store
  BY <1>0, <1>1, <1>2, StoreRows
<1>3. CASE Switch
  <2>1. CASE Replayed
    BY <1>1, <2>1 DEF Replayed
  <2>2. CASE Switched
    BY <1>3, <2>2, CatalogueOffers DEF Catalogue!Next
  <2> QED
    BY <1>3, <2>1, <2>2 DEF Switch
<1>4. CASE CommitGroup
  <2>1. act.op \in Ops
    BY <1>0, <1>4 DEF CommitGroup, Working, Installing, Attempting
  <2>2. PICK op \in Ops : op = act.op
    BY <2>1
  <2>3. Unfinished(op) /\ ClosesGroups({op}, TRUE)
    BY <1>0, <1>4, <2>2, FinishersClose
  <2>4. Catalogue!Install(op)
    BY <1>0, <2>3, CatalogueInstalls
  <2> QED
    BY <2>4 DEF Catalogue!Next
<1>5. CASE AbandonReview \/ RestorePointers
  <2>1. {act.op} \in SUBSET Ops
    BY <1>0, <1>5 DEF AbandonReview, RestorePointers, Working, Installing, Attempting
  <2>2. CASE WritesNothing
    BY <1>1, <2>2 DEF WritesNothing
  <2>3. CASE ClosesGroups({act.op}, FALSE)
    BY <1>0, <2>1, <2>3, CatalogueDrops DEF Catalogue!Next
  <2> QED
    BY <1>0, <1>5, <2>2, <2>3, FinishersClose
<1>6. CASE Restart
  <2> DEFINE open == {op \in Ops : Unfinished(op)}
  <2>1. open \in SUBSET Ops /\ ClosesGroups(open, FALSE)
    BY <1>0, <1>6, FinishersClose
  <2> HIDE DEF open
  <2> QED
    BY <1>0, <2>1, CatalogueDrops DEF Catalogue!Next
<1>7. CASE RemovePointer
  <2>1. UNCHANGED txns /\ \/ UNCHANGED active
                          \/ \E r \in Slots : /\ Committed(r) # None /\ Committed(r)' = None
                                              /\ \A s \in Slots : s # r => Committed(s)' = Committed(s)
    BY <1>0, <1>7, RemoveMoves DEF RemovePointer
  <2>2. ASSUME NEW r \in Slots, Committed(r) # None, Committed(r)' = None,
               \A s \in Slots : s # r => Committed(s)' = Committed(s)
        PROVE  Catalogue!Remove(r)
    <3>1. GroupNow' = GroupNow
      BY <2>1 DEF GroupNow, GroupOf
    <3>2. LiveNow[r] # None /\ LiveNow' = [LiveNow EXCEPT ![r] = None]
      BY <2>2 DEF LiveNow
    <3> QED
      BY <3>1, <3>2 DEF Catalogue!Remove, LiveNow, GroupNow
  <2> QED
    BY <1>1, <2>1, <2>2 DEF Catalogue!Next
<1>8. CASE UNCHANGED vars
  BY <1>1, <1>8 DEF vars, durable
<1>9. ASSUME WritesNothing
      PROVE  UNCHANGED <<LiveNow, GroupNow>>
  BY <1>1, <1>9 DEF WritesNothing
<1>10. CASE Activation
  BY <1>3, <1>4, <1>5, <1>9, <1>10, WorkerWrites
<1>11. CASE Others
  BY <1>0, <1>6, <1>7, <1>9, <1>11, OthersWrite
<1> QED
  BY <1>2, <1>8, <1>10, <1>11 DEF Next

\* Seen without its pending switches the store only moves by whole groups, each
\* at most once, or by one removal: switch, finish, the recovery at a restart
\* and uninstall implement the catalogue.
THEOREM AtomicGroupsHolds == Spec => AtomicGroups
<1>1. Init => Catalogue!Init
  BY CatalogueInit
<1>2. StoreInv /\ [Next]_vars => [Catalogue!Next]_<<[s \in Slots |-> Committed(s)],
         [op \in Ops |-> IF txns[op] = None THEN None ELSE GroupOf(txns[op])]>>
  BY CatalogueStep DEF LiveNow, GroupNow
<1> QED
  BY <1>1, <1>2, StoreInvariant, PTL DEF Spec, AtomicGroups, Catalogue!Spec

-----------------------------------------------------------------------------
(* The instances and their handles. *)

RuntimeInv == Handles /\ Attempt /\ Current

\* What one instance may become when nothing starts or resumes.
Fades(i) ==
    inst'[i] # None =>
        /\ inst[i] # None
        /\ inst'[i].slot = inst[i].slot /\ inst'[i].pkg = inst[i].pkg /\ inst'[i].op = inst[i].op
        /\ Alive(i)' => Alive(i)
        /\ inst'[i].state \in {"starting", "ready"} => inst'[i].state = inst[i].state

\* No instance starts or gets ready, and none that is still referred to is lost.
Fading ==
    /\ inst' \in [Ids -> Instances \cup {None}]
    /\ \A i \in Ids : Fades(i)
    /\ \A i \in Ids : inst[i] # None /\ Referenced(i)' => inst'[i] # None

LEMMA FadingIs ==
    ASSUME Fading
    PROVE  /\ \A i \in Ids : Live(i)' => Live(i) /\ inst'[i] # None /\ inst'[i].slot = inst[i].slot
           /\ \A i \in Ids : Executing(i)' => /\ Executing(i) /\ inst'[i] # None
                                              /\ inst'[i].slot = inst[i].slot /\ inst'[i].pkg = inst[i].pkg
           /\ \A i \in Ids : Alive(i)' => Alive(i)
           /\ \A i \in Ids : Executing(i)' => Live(i)'
BY DEF Fading, Fades, Live, Executing, Alive

\* Instances are typed; a live one is alive.
LEMMA InstanceIs ==
    ASSUME Handles, NEW i \in Ids, inst[i] # None
    PROVE  /\ inst[i] \in Instances /\ inst[i].slot \in Slots /\ inst[i].pkg \in Packages
           /\ Live(i) => Alive(i)
           /\ Executing(i) => Live(i)
BY DEF Handles, Instances, Live, Alive, Executing

\* Handles that nothing refers to are dropped; one instance may be stopped.
LEMMA DropFades ==
    ASSUME Handles, inst' = inst \/ inst' = Kept(inst)
    PROVE  Fading
<1>1. /\ \A i \in Ids : inst'[i] = inst[i] \/ inst'[i] = None
      /\ \A i \in Ids : Referenced(i)' => inst'[i] = inst[i]
      /\ inst' \in [Ids -> Instances \cup {None}]
  BY DEF Handles, Kept
<1>2. \A i \in Ids : Fades(i)
  BY <1>1 DEF Fades, Alive
<1> QED
  BY <1>1, <1>2 DEF Fading

LEMMA StopFades ==
    ASSUME Handles, NEW j \in Ids, inst[j] # None,
           NEW state \in {"starting", "ready", "stopping", "stopped", "failed", "dirty"},
           state \in {"starting", "ready"} => state = inst[j].state,
           state \in {"starting", "ready", "stopping"} => Alive(j),
           inst' = Kept([inst EXCEPT ![j].state = state])
    PROVE  /\ Fading
           /\ inst'[j] = None \/ inst'[j].state = state
           /\ \A i \in Ids : i # j => inst'[i] = None \/ inst'[i] = inst[i]
<1> DEFINE new == [inst[j] EXCEPT !.state = state]
<1>1. inst[j] \in Instances /\ new \in Instances /\ new # None /\ new.state = state
      /\ new.slot = inst[j].slot /\ new.pkg = inst[j].pkg /\ new.op = inst[j].op
  <2>1. inst[j] \in Instances
    BY DEF Handles
  <2>2. /\ new \in Instances /\ new.state = state
        /\ new.slot = inst[j].slot /\ new.pkg = inst[j].pkg /\ new.op = inst[j].op
    BY <2>1 DEF Instances
  <2> QED
    BY <2>1, <2>2, NoneIsAbsent
<1>2. /\ \A i \in Ids : inst'[i] = None \/ inst'[i] = IF i = j THEN new ELSE inst[i]
      /\ \A i \in Ids : Referenced(i)' => inst'[i] = IF i = j THEN new ELSE inst[i]
      /\ DOMAIN inst' = Ids /\ inst' = [i \in Ids |-> inst'[i]]
  <2> DEFINE all == [inst EXCEPT ![j].state = state]
  <2>1. \A i \in Ids : all[i] = IF i = j THEN new ELSE inst[i]
    BY DEF Handles
  <2>2. inst' = Kept(all)
    OBVIOUS
  <2> HIDE DEF all, new
  <2> QED
    BY <2>1, <2>2 DEF Kept
<1> HIDE DEF new
<1>3. inst' \in [Ids -> Instances \cup {None}]
  <2>1. ASSUME NEW i \in Ids
        PROVE  inst'[i] \in Instances \cup {None}
    <3>1. inst[i] \in Instances \cup {None}
      BY DEF Handles
    <3> QED
      BY <1>1, <1>2, <3>1
  <2> QED
    BY <1>2, <2>1
<1>4. ASSUME NEW i \in Ids
      PROVE  Fades(i)
  <2>1. CASE i = j
    BY <1>1, <1>2, <2>1 DEF Fades, Alive
  <2>2. CASE i # j
    BY <1>2, <2>2 DEF Fades, Alive
  <2> QED
    BY <2>1, <2>2
<1>5. \A i \in Ids : inst[i] # None /\ Referenced(i)' => inst'[i] # None
  BY <1>1, <1>2
<1> QED
  BY <1>1, <1>2, <1>3, <1>4, <1>5 DEF Fading

\* stop_and_join never leaves a live instance behind.
LEMMA JoinFades ==
    ASSUME Handles, NEW j \in Ids, inst[j] # None, NEW state \in JoinStates(j),
           inst' = Kept([inst EXCEPT ![j].state = state])
    PROVE  /\ Fading /\ ~Live(j)'
           /\ Joined(state) => ~Alive(j)'
           /\ \A i \in Ids : i # j => inst'[i] = None \/ inst'[i] = inst[i]
<1>1. inst[j] \in Instances /\ (Alive(j) => j \in registry)
  BY DEF Handles
<1>2. /\ state \in {"starting", "ready", "stopping", "stopped", "failed", "dirty"}
      /\ state \notin {"starting", "ready"}
      /\ state = "stopping" => Alive(j)
  <2>1. CASE ~Alive(j)
    BY <1>1, <2>1 DEF JoinStates, Alive, Instances
  <2>2. CASE Alive(j)
    BY <1>1, <2>2 DEF JoinStates
  <2> QED
    BY <2>1, <2>2
<1>3. /\ Fading /\ (inst'[j] = None \/ inst'[j].state = state)
      /\ \A i \in Ids : i # j => inst'[i] = None \/ inst'[i] = inst[i]
  BY <1>2, StopFades
<1> QED
  BY <1>2, <1>3 DEF Live, Alive, Joined

\* When no instance starts: the handles follow.
LEMMA HandlesFade ==
    ASSUME Handles, Fading,
           \A i \in Ids : Alive(i)' => i \in registry',
           (vault' = vault /\ (Leaving' => Leaving)) \/ \A i \in Ids : ~Alive(i)',
           act'.permit => vault' /\ ~Leaving',
           \A s \in Slots : endpoints'[s] # None =>
              /\ endpoints'[s] \in Ids /\ inst[endpoints'[s]] # None /\ inst[endpoints'[s]].slot = s,
           \A s \in Slots : \A i \in Ids : endpoints[s] = i /\ Live(i)' => endpoints'[s] = i,
           \A i \in Ids : Live(i)' /\ (i \in act.started \/ i = act.id) =>
              i \in act'.started \/ i = act'.id \/ endpoints'[inst[i].slot] = i,
           \A i \in Ids : i = act.id /\ Live(i)' => (act'.id = i /\ act'.pc = act.pc) \/ Executing(i)
    PROVE  Handles'
<1>1. inst' \in [Ids -> Instances \cup {None}]
  BY DEF Fading
<1>2. ASSUME NEW s \in Slots, endpoints'[s] # None
      PROVE  inst'[endpoints'[s]] # None /\ inst'[endpoints'[s]].slot = s
  <2>1. PICK e \in Ids : e = endpoints'[s]
    BY <1>2
  <2>2. inst[e] # None /\ inst[e].slot = s
    BY <1>2, <2>1
  <2>3. Referenced(e)'
    BY <2>1 DEF Referenced
  <2>4. inst'[e] # None
    BY <2>2, <2>3 DEF Fading
  <2>5. inst'[e].slot = inst[e].slot
    BY <2>4 DEF Fading, Fades
  <2> QED
    BY <2>1, <2>2, <2>4, <2>5
<1>3. ASSUME NEW i \in Ids, Alive(i)'
      PROVE  i \in registry' /\ vault' /\ ~Leaving'
  <2>1. Alive(i)
    BY <1>3, FadingIs
  <2>2. vault /\ ~Leaving
    BY <2>1 DEF Handles
  <2> QED
    BY <1>3, <2>2
<1>4. ASSUME NEW i \in Ids, Live(i)'
      PROVE  endpoints'[inst'[i].slot] = i \/ i \in act'.started \/ i = act'.id
  <2>1. Live(i) /\ inst'[i].slot = inst[i].slot
    BY <1>4, FadingIs
  <2>2. endpoints[inst[i].slot] = i \/ i \in act.started \/ i = act.id
    BY <2>1 DEF Handles
  <2>3. inst[i].slot \in Slots
    BY <2>1, InstanceIs DEF Live
  <2>4. CASE endpoints[inst[i].slot] = i
    BY <1>4, <2>1, <2>3, <2>4
  <2> QED
    BY <1>4, <2>1, <2>2, <2>4
<1>5. ASSUME NEW i \in Ids, inst'[i] # None, inst'[i].state = "starting"
      PROVE  i = act'.id /\ act'.pc \in {"await", "loading"}
  <2>1. inst[i] # None /\ inst[i].state = "starting" /\ Live(i)'
    BY <1>5 DEF Fading, Fades, Live
  <2>2. i = act.id /\ act.pc \in {"await", "loading"}
    BY <2>1 DEF Handles
  <2>3. ~Executing(i)
    BY <2>1 DEF Executing
  <2> QED
    BY <2>1, <2>2, <2>3
<1> QED
  BY <1>1, <1>2, <1>3, <1>4, <1>5 DEF Handles

\* When no instance starts: what the worker started stays its own.
LEMMA AttemptFade ==
    ASSUME Handles, Attempt, Fading, HandleTypes', act' \in Workers, act \in Workers,
           act'.started \subseteq act.started,
           act'.started # {} =>
              /\ act'.changes = act.changes /\ act'.todo \subseteq act.todo
              /\ act'.pc \in {"replace", "start", "await"} =>
                    \/ act'.slot \in act.todo
                    \/ act.pc \in {"replace", "start", "await"} /\ act'.slot = act.slot,
           \A s \in Slots : endpoints'[s] # None => endpoints'[s] = endpoints[s],
           act'.id # None =>
              /\ act'.id = act.id /\ act'.slot = act.slot /\ act'.changes = act.changes
              /\ act'.pc # "await" => act.pc # "await",
           act'.pc \in {"start", "await", "launch", "spawn", "loading", "publish"} =>
              endpoints'[act'.slot] = None,
           act'.pc \in {"replace", "start", "await"} => act'.slot \notin act'.todo
    PROVE  Attempt'
<1>1. ASSUME NEW i \in act'.started
      PROVE  /\ inst'[i] # None /\ inst'[i].slot \in DOMAIN act'.changes \ act'.todo
             /\ inst'[i].slot = inst[i].slot
             /\ inst'[i].pkg = act'.changes[inst'[i].slot].to
             /\ endpoints'[inst'[i].slot] = None
             /\ act'.pc \in {"replace", "start", "await"} => inst'[i].slot # act'.slot
  <2>1. i \in Ids /\ i \in act.started /\ act'.started # {}
    BY <1>1 DEF Workers
  <2>2. /\ inst[i] # None /\ inst[i].slot \in DOMAIN act.changes \ act.todo
        /\ inst[i].pkg = act.changes[inst[i].slot].to
        /\ endpoints[inst[i].slot] = None
        /\ act.pc \in {"replace", "start", "await"} => inst[i].slot # act.slot
    BY <2>1 DEF Attempt
  <2>3. inst'[i] # None
    BY <2>1, <2>2 DEF Fading, Referenced
  <2>4. inst'[i].slot = inst[i].slot /\ inst'[i].pkg = inst[i].pkg /\ inst[i].slot \in Slots
    BY <2>1, <2>2, <2>3, InstanceIs DEF Fading, Fades
  <2> QED
    BY <2>1, <2>2, <2>3, <2>4
<1>2. \A i, j \in act'.started : inst'[i].slot = inst'[j].slot => i = j
  BY <1>1 DEF Attempt
<1>3. ASSUME act'.id # None
      PROVE  /\ inst'[act'.id] # None /\ inst'[act'.id].slot = act'.slot
             /\ inst'[act'.id].pkg = Target'
             /\ act'.pc # "await" => inst'[act'.id].op = None
  <2>1. PICK i \in Ids : i = act.id /\ i = act'.id
    BY <1>3 DEF Workers
  <2>2. /\ inst[i] # None /\ inst[i].slot = act.slot /\ inst[i].pkg = Target
        /\ act.pc # "await" => inst[i].op = None
    BY <1>3, <2>1 DEF Attempt
  <2>3. inst'[i] # None
    BY <2>1, <2>2 DEF Fading, Referenced
  <2>4. inst'[i].slot = inst[i].slot /\ inst'[i].pkg = inst[i].pkg /\ inst'[i].op = inst[i].op
    BY <2>3 DEF Fading, Fades
  <2>5. Target' = Target
    BY <1>3 DEF Target
  <2> QED
    BY <1>3, <2>1, <2>2, <2>3, <2>4, <2>5
<1> QED
  BY <1>1, <1>2, <1>3 DEF Attempt

\* An attempt that is over leaves nothing to say.
LEMMA AttemptOver ==
    ASSUME act'.started = {}, act'.id = None,
           act'.pc \notin {"replace", "start", "await", "launch", "spawn", "loading", "publish"}
    PROVE  Attempt'
BY DEF Attempt

\* When no instance starts: what executes stays current.
LEMMA CurrentFade ==
    ASSUME Handles, Current, Fading,
           removed' \/ (removed' = removed /\ \A s \in Slots : Committed(s)' = Committed(s)),
           \A i \in Ids : Executing(i)' /\ (i \in act.started \/ (i = act.id /\ act.pc = "await")) =>
              i \in act'.started \/ (i = act'.id /\ act'.pc = "await"),
           act'.pc \in {"slots", "replace", "start", "await"} =>
              \A i \in Ids : Executing(i)' /\ inst[i].slot \in Replaced' =>
                 \/ inst[i].pkg = act'.changes[inst[i].slot].to
                 \/ /\ act.pc \in {"slots", "replace", "start", "await"}
                    /\ act'.changes = act.changes /\ inst[i].slot \in Replaced
    PROVE  Current'
<1>1. ASSUME ~removed', NEW i \in Ids, Executing(i)'
      PROVE  \/ inst'[i].pkg = Committed(inst[i].slot)'
             \/ i \in act'.started
             \/ i = act'.id /\ act'.pc = "await"
  <2>1. /\ Executing(i) /\ inst[i] # None
        /\ inst'[i].slot = inst[i].slot /\ inst'[i].pkg = inst[i].pkg
    BY <1>1, FadingIs DEF Executing
  <2>2. PICK s \in Slots : s = inst[i].slot
    BY <2>1, InstanceIs
  <2>3. \/ inst[i].pkg = Committed(s)
        \/ i \in act.started
        \/ i = act.id /\ act.pc = "await"
    BY <1>1, <2>1, <2>2 DEF Current
  <2>4. Committed(inst[i].slot)' = Committed(s)'
    BY <2>1, <2>2
  <2> QED
    BY <1>1, <2>1, <2>2, <2>3, <2>4
<1>2. ASSUME act'.pc \in {"slots", "replace", "start", "await"},
             NEW i \in Ids, Executing(i)', inst'[i].slot \in Replaced'
      PROVE  inst'[i].pkg = act'.changes[inst'[i].slot].to
  <2>1. Executing(i) /\ inst'[i].slot = inst[i].slot /\ inst'[i].pkg = inst[i].pkg
    BY <1>2, FadingIs
  <2> QED
    BY <1>2, <2>1 DEF Current
<1> QED
  BY <1>1, <1>2 DEF Current

\* Nothing but the commit of a group and a removal changes what slots use.
LEMMA CommittedKept ==
    ASSUME StoreInv, Store \/ Activation \/ Others, ~CommitGroup, ~RemovePointer
    PROVE  \A s \in Slots : Committed(s)' = Committed(s)
<1>0. Durable /\ Rows /\ Working
  BY DEF StoreInv, Durable
<1>1. ASSUME UNCHANGED <<active, txns>>
      PROVE  \A s \in Slots : Committed(s)' = Committed(s)
  BY <1>1 DEF Committed, PendingOp, Pkg
<1>2. ASSUME NEW closed, ClosesGroups(closed, FALSE)
      PROVE  \A s \in Slots : Committed(s)' = Committed(s)
  BY <1>0, <1>2, CloseMoves DEF ClosesGroups
<1>3. CASE Store
  BY <1>0, <1>1, <1>3, StoreRows
<1>4. CASE Switch
  <2>1. CASE Replayed
    BY <1>1, <2>1 DEF Replayed
  <2>2. CASE Switched
    BY <1>0, <1>4, <2>2, SwitchMoves DEF Switch
  <2> QED
    BY <1>4, <2>1, <2>2 DEF Switch
<1>5. CASE AbandonReview \/ RestorePointers \/ Restart
  BY <1>0, <1>1, <1>2, <1>5, FinishersClose DEF WritesNothing
<1>6. CASE WritesNothing
  BY <1>1, <1>6 DEF WritesNothing
<1> QED
  BY <1>0, <1>3, <1>4, <1>5, <1>6, WorkerWrites, OthersWrite

-----------------------------------------------------------------------------
(* The handles, step by step. *)

\* The steps in which only the worker moves, and keeps its instances.
OnlyWorker ==
    /\ UNCHANGED <<endpoints, inst, registry, vault, removal, removed>>
    /\ act'.started = act.started /\ act'.id = act.id
    /\ act'.permit => act.permit \/ (vault /\ ~Leaving)
    /\ act.id # None => act' = act

LEMMA OnlyWorkerRuns ==
    ASSUME StoreInv, StoreInv', RuntimeInv, OnlyWorker,
           \A s \in Slots : Committed(s)' = Committed(s),
           act'.started # {} =>
              /\ act'.changes = act.changes /\ act'.todo \subseteq act.todo
              /\ act'.pc \in {"replace", "start", "await"} =>
                    \/ act'.slot \in act.todo
                    \/ act.pc \in {"replace", "start", "await"} /\ act'.slot = act.slot,
           act'.pc \in {"start", "launch", "spawn"} => endpoints[act'.slot] = None,
           act'.pc \in {"replace", "start"} => act'.slot \notin act'.todo,
           act'.pc \in {"slots", "replace", "start"} =>
              \A i \in Ids : Executing(i) /\ inst[i].slot \in Replaced' =>
                 \/ inst[i].pkg = act'.changes[inst[i].slot].to
                 \/ /\ act.pc \in {"slots", "replace", "start", "await"}
                    /\ act'.changes = act.changes /\ inst[i].slot \in Replaced
    PROVE  RuntimeInv'
<1>0. /\ Handles /\ Attempt /\ Current /\ Working /\ Working' /\ HandleTypes /\ HandleTypes'
      /\ act \in Workers /\ act' \in Workers
  BY DEF RuntimeInv, StoreInv, Working, HandleTypes
<1>1. Fading
  BY <1>0, DropFades DEF OnlyWorker
<1>2. /\ \A i \in Ids : (Alive(i)' <=> Alive(i)) /\ (Live(i)' <=> Live(i)) /\ (Executing(i)' <=> Executing(i))
      /\ Leaving' <=> Leaving
  BY DEF OnlyWorker, Alive, Live, Executing, Leaving
<1>3. /\ act.id # None <=> act.pc \in {"await", "loading", "publish"}
      /\ act'.id # None <=> act'.pc \in {"await", "loading", "publish"}
  BY <1>0 DEF Working
<1>4. Handles'
  <2>1. \A i \in Ids : Alive(i)' => i \in registry'
    BY <1>0, <1>2 DEF Handles, OnlyWorker
  <2>2. act'.permit => vault' /\ ~Leaving'
    BY <1>0, <1>2 DEF Handles, OnlyWorker
  <2>3. \A s \in Slots : endpoints'[s] # None =>
              /\ endpoints'[s] \in Ids /\ inst[endpoints'[s]] # None /\ inst[endpoints'[s]].slot = s
    BY <1>0 DEF Handles, OnlyWorker, HandleTypes
  <2>4. \A s \in Slots : \A i \in Ids : endpoints[s] = i /\ Live(i)' => endpoints'[s] = i
    BY DEF OnlyWorker
  <2>5. \A i \in Ids : i = act.id => act'.id = i /\ act'.pc = act.pc
    BY NoneIsAbsent DEF OnlyWorker
  <2> QED
    BY <1>0, <1>1, <1>2, <2>1, <2>2, <2>3, <2>4, <2>5, HandlesFade DEF OnlyWorker
<1>5. Attempt'
  <2>1. act'.pc \in {"start", "await", "launch", "spawn", "loading", "publish"} => endpoints'[act'.slot] = None
    BY <1>0, <1>3 DEF OnlyWorker, Attempt
  <2>2. act'.pc \in {"replace", "start", "await"} => act'.slot \notin act'.todo
    BY <1>0, <1>3 DEF OnlyWorker, Attempt
  <2> QED
    BY <1>0, <1>1, <1>3, <2>1, <2>2, AttemptFade DEF OnlyWorker
<1>6. Current'
  <2>1. \A i \in Ids : i \in act.started \/ (i = act.id /\ act.pc = "await") =>
              i \in act'.started \/ (i = act'.id /\ act'.pc = "await")
    BY <1>3 DEF OnlyWorker
  <2>2. act'.pc \in {"slots", "replace", "start", "await"} =>
              \A i \in Ids : Executing(i)' /\ inst[i].slot \in Replaced' =>
                 \/ inst[i].pkg = act'.changes[inst[i].slot].to
                 \/ /\ act.pc \in {"slots", "replace", "start", "await"}
                    /\ act'.changes = act.changes /\ inst[i].slot \in Replaced
    <3>1. CASE act'.pc = "await"
      <4>1. act' = act
        BY <1>3, <3>1 DEF OnlyWorker
      <4> QED
        BY <3>1, <4>1 DEF Replaced
    <3>2. CASE act'.pc # "await"
      BY <1>2, <3>2
    <3> QED
      BY <3>1, <3>2
  <2>3. removed' = removed
    BY DEF OnlyWorker
  <2> QED
    BY <1>0, <1>1, <2>1, <2>2, <2>3, CurrentFade
<1> QED
  BY <1>4, <1>5, <1>6 DEF RuntimeInv

\* Nothing that concerns the instances moves.
LEMMA NothingRuns ==
    ASSUME StoreInv, StoreInv', RuntimeInv, \A s \in Slots : Committed(s)' = Committed(s),
           UNCHANGED <<endpoints, inst, registry, vault, removal, removed, act>>
    PROVE  RuntimeInv'
<1>1. /\ Working /\ Attempt
      /\ act.id # None <=> act.pc \in {"await", "loading", "publish"}
  BY DEF RuntimeInv, StoreInv, Working
<1>2. OnlyWorker
  BY DEF OnlyWorker
<1>3. /\ act'.pc \in {"start", "launch", "spawn"} => endpoints[act'.slot] = None
      /\ act'.pc \in {"replace", "start"} => act'.slot \notin act'.todo
  BY <1>1 DEF Attempt
<1>4. Replaced' = Replaced
  BY DEF Replaced
<1> QED
  BY <1>1, <1>2, <1>3, <1>4, OnlyWorkerRuns

LEMMA StoreRuns ==
    ASSUME StoreInv, StoreInv', RuntimeInv, Store
    PROVE  RuntimeInv'
<1>0. Working /\ \A s \in Slots : Committed(s)' = Committed(s)
  <2>1. UNCHANGED <<active, txns>> => \A s \in Slots : Committed(s)' = Committed(s)
    BY DEF Committed, PendingOp, Pkg
  <2> QED
    BY StoreRows, <2>1 DEF StoreInv, Durable
<1>1. ASSUME NEW p \in Packages, StageCheck(p) \/ Withdraw(p)
      PROVE  UNCHANGED <<endpoints, inst, registry, vault, removal, removed, act>>
  BY <1>1 DEF StageCheck, Withdraw, runtime
<1>2. ASSUME NEW p \in Roots, Preview(p)
      PROVE  UNCHANGED <<endpoints, inst, registry, vault, removal, removed, act>>
  BY <1>2 DEF Preview, runtime
<1>3. ASSUME StoreObject \/ RecordStage \/ StageFails \/ ChangeTrust
      PROVE  UNCHANGED <<endpoints, inst, registry, vault, removal, removed, act>>
  BY <1>3 DEF StoreObject, RecordStage, StageFails, ChangeTrust, runtime
<1>4. ASSUME UNCHANGED <<endpoints, inst, registry, vault, removal, removed>>, act.pc = "idle",
             act'.pc \in {"check", "verify"}, act'.started = {}, act'.id = None, act'.permit = FALSE
      PROVE  RuntimeInv'
  <2>1. act.started = {} /\ act.id = None
    BY <1>0, <1>4 DEF Working
  <2>2. OnlyWorker
    BY <1>4, <2>1 DEF OnlyWorker
  <2> QED
    BY <1>0, <1>4, <2>1, <2>2, OnlyWorkerRuns
<1>5. ASSUME NEW op \in Ops, LockPlan(op) \/ RepeatConfirm(op) \/ RetryActivation(op)
      PROVE  RuntimeInv'
  BY <1>4, <1>5 DEF LockPlan, RepeatConfirm, RetryActivation, Worker, Idle, runtime, background
<1>6. ASSUME NEW op \in Ops, NEW installed \in Ops, Rollback(op, installed)
      PROVE  RuntimeInv'
  BY <1>4, <1>6 DEF Rollback, Worker, Idle, runtime, background
<1> QED
  BY <1>0, <1>1, <1>2, <1>3, <1>5, <1>6, NothingRuns DEF Store

\* The worker checks, switches, abandons, verifies and takes up slots.
LEMMA WorkerRuns ==
    ASSUME StoreInv, StoreInv', RuntimeInv, \A s \in Slots : Committed(s)' = Committed(s),
           \/ \E s \in Slots : CheckOnline(s) \/ NextSlot(s) \/ BeginEnable(s)
           \/ CheckFails \/ Switch \/ AbandonReview \/ Verify \/ PredecessorGone
           \/ ActivationFails \/ IssuePermit
    PROVE  RuntimeInv'
<1>0. /\ Working /\ Handles /\ Attempt /\ HandleTypes /\ act \in Workers
  BY DEF RuntimeInv, StoreInv, Working, HandleTypes
<1>1. UNCHANGED <<endpoints, inst, registry, vault, removal, removed>>
  BY DEF CheckOnline, NextSlot, BeginEnable, CheckFails, Switch, AbandonReview, Verify, PredecessorGone,
         ActivationFails, IssuePermit, runtime, background
<1>2. act.id # None <=> act.pc \in {"await", "loading", "publish"}
  BY <1>0 DEF Working
\* Before the switch, and when an attempt is given up.
<1>3. ASSUME act.pc \notin {"await", "loading", "publish"}, act'.started = act.started, act'.id = act.id,
             act'.permit => act.permit,
             act'.pc \notin {"slots", "replace", "start", "await", "launch", "spawn", "loading", "publish"},
             act.started # {} => act'.changes = act.changes /\ act'.todo \subseteq act.todo
      PROVE  RuntimeInv'
  <2>1. OnlyWorker
    BY <1>1, <1>2, <1>3 DEF OnlyWorker
  <2> QED
    BY <1>3, <2>1, OnlyWorkerRuns
<1>4. ASSUME NEW s \in Slots, CheckOnline(s)
      PROVE  RuntimeInv'
  <2>1. act.pc = "check" /\ act.started = {}
    BY <1>0, <1>4 DEF CheckOnline, Working
  <2>2. \E pc \in {"failed", "switch", "check"} :
           act' = [act EXCEPT !.pc = pc] \/ act' = [act EXCEPT !.todo = @ \ {s}, !.pc = pc]
    BY <1>4 DEF CheckOnline
  <2> QED
    BY <1>0, <1>3, <2>1, <2>2 DEF Workers
<1>5. ASSUME CheckFails
      PROVE  RuntimeInv'
  <2>1. act.pc \in {"check", "switch"} /\ act.started = {} /\ act' = [act EXCEPT !.pc = "failed"]
    BY <1>0, <1>5 DEF CheckFails, Working
  <2> QED
    BY <1>0, <1>3, <2>1 DEF Workers
<1>6. ASSUME act.pc \notin {"await", "loading", "publish"}, act.started = {}, act' = Idle
      PROVE  RuntimeInv'
  BY <1>2, <1>3, <1>6 DEF Idle
<1>7. ASSUME Switch
      PROVE  RuntimeInv'
  <2>1. act.pc = "switch" /\ act.started = {}
    BY <1>0, <1>7 DEF Switch, Working
  <2>2. act' = Idle \/ \E pc \in {"verify", "failed"} : act' = [act EXCEPT !.pc = pc]
    BY <1>7 DEF Switch, Replayed, Switched
  <2> QED
    BY <1>0, <1>3, <1>6, <2>1, <2>2 DEF Workers
<1>8. ASSUME AbandonReview
      PROVE  RuntimeInv'
  <2>1. act.pc = "failed" /\ act.started = {} /\ act' = Idle
    BY <1>0, <1>8 DEF AbandonReview, Working
  <2> QED
    BY <1>6, <2>1
<1>9. ASSUME ActivationFails
      PROVE  RuntimeInv'
  <2>1. act.pc \in {"slots", "replace", "start"} /\ act' = [act EXCEPT !.pc = "undo"]
    BY <1>9 DEF ActivationFails
  <2> QED
    BY <1>0, <1>3, <2>1 DEF Workers
<1>10. ASSUME Verify
       PROVE  RuntimeInv'
  <2>1. act.pc = "verify" /\ act.started = {} /\ act.id = None /\ ~Leaving
    BY <1>0, <1>10 DEF Verify, Working
  <2>2. CASE act' = [act EXCEPT !.pc = "undo"]
    BY <1>0, <1>3, <2>1, <2>2 DEF Workers
  <2>3. CASE vault /\ act' = [act EXCEPT !.pc = "slots", !.todo = DOMAIN act.changes, !.permit = TRUE]
    <3>1. /\ act'.started = {} /\ act'.id = None /\ act'.pc = "slots"
          /\ act'.todo = DOMAIN act.changes /\ act'.changes = act.changes
      BY <1>0, <2>1, <2>3 DEF Workers
    <3>2. OnlyWorker
      BY <1>1, <2>1, <2>3, <3>1 DEF OnlyWorker
    <3>3. Replaced' = {}
      BY <3>1 DEF Replaced
    <3> QED
      BY <3>1, <3>2, <3>3, OnlyWorkerRuns
  <2> QED
    BY <1>10, <2>2, <2>3 DEF Verify
\* A slot that nothing else runs in.
<1>11. ASSUME act.pc \in {"slots", "replace"}, NEW s \in Slots,
              s \in act.todo \/ (act.pc = "replace" /\ s = act.slot),
              NEW i \in Ids, Executing(i), inst[i].slot = s
       PROVE  endpoints[s] = i
  <2>1. endpoints[s] = i \/ i \in act.started \/ i = act.id
    BY <1>0, <1>11, InstanceIs DEF Handles, Executing
  <2>2. act.id = None
    BY <1>2, <1>11
  <2>3. i \notin act.started
    BY <1>0, <1>11 DEF Attempt
  <2> QED
    BY <2>1, <2>2, <2>3, NoneIsAbsent
<1>12. ASSUME PredecessorGone
       PROVE  RuntimeInv'
  <2>1. /\ act.pc = "replace" /\ act.id = None /\ endpoints[act.slot] = None
        /\ act.slot \in Slots /\ act.slot \notin act.todo
    BY <1>0, <1>12 DEF PredecessorGone, Working, Attempt
  <2>2. PICK pc \in {"start", "slots"} : act' = [act EXCEPT !.pc = pc]
    BY <1>12 DEF PredecessorGone
  <2>3. /\ act'.started = act.started /\ act'.id = None /\ act'.pc = pc /\ act'.permit = act.permit
        /\ act'.todo = act.todo /\ act'.changes = act.changes /\ act'.slot = act.slot
    BY <1>0, <2>1, <2>2 DEF Workers
  <2>4. OnlyWorker
    BY <1>1, <2>1, <2>3 DEF OnlyWorker
  <2>5. Replaced' \subseteq Replaced \cup {act.slot}
    BY <2>1, <2>3 DEF Replaced
  <2>6. \A i \in Ids : Executing(i) => inst[i].slot # act.slot
    BY <1>11, <2>1, NoneIsAbsent
  <2> QED
    BY <2>1, <2>3, <2>4, <2>5, <2>6, OnlyWorkerRuns
<1>13. ASSUME NEW s \in Slots, NextSlot(s)
       PROVE  RuntimeInv'
  <2> DEFINE keep == endpoints[s] # None /\ act.changes[s].to \in Programs
                   /\ ReadyFor(endpoints[s], act.changes[s].to)
             skip == endpoints[s] = None /\ act.changes[s].to \notin Programs
  <2>1. act.pc = "slots" /\ act.id = None /\ s \in act.todo /\ act.todo \subseteq Slots
    BY <1>0, <1>13 DEF NextSlot, Working, Workers
  <2>a. PICK pc \in {"slots", "replace", "start"} :
           pc = IF keep \/ skip THEN "slots" ELSE IF endpoints[s] # None THEN "replace" ELSE "start"
    OBVIOUS
  <2>b. PICK required : required = IF keep THEN act.required \cup {endpoints[s]} ELSE act.required
    OBVIOUS
  <2>2. act' = [act EXCEPT !.todo = @ \ {s}, !.required = required, !.slot = s, !.pc = pc]
    BY <1>13, <2>a, <2>b DEF NextSlot
  <2>3. /\ act'.started = act.started /\ act'.id = None /\ act'.pc = pc /\ act'.permit = act.permit
        /\ act'.todo = act.todo \ {s} /\ act'.changes = act.changes /\ act'.slot = s
    BY <1>0, <2>1, <2>2 DEF Workers
  <2>4. OnlyWorker
    BY <1>1, <2>1, <2>3 DEF OnlyWorker
  <2>5. pc = "start" => endpoints[s] = None
    BY <2>a
  <2>6. ASSUME NEW i \in Ids, Executing(i), inst[i].slot \in Replaced'
        PROVE  inst[i].pkg = act.changes[inst[i].slot].to \/ inst[i].slot \in Replaced
    <3>1. CASE inst[i].slot = s
      <4>1. endpoints[s] = i /\ i # None
        BY <1>11, <2>1, <2>6, <3>1, NoneIsAbsent
      <4>2. pc = "slots"
        BY <2>3, <2>6, <3>1 DEF Replaced
      <4>3. keep
        BY <2>a, <4>1, <4>2
      <4> QED
        BY <3>1, <4>1, <4>3 DEF ReadyFor
    <3>2. CASE inst[i].slot # s
      BY <2>1, <2>3, <2>6, <3>2 DEF Replaced
    <3> QED
      BY <3>1, <3>2
  <2> HIDE DEF keep, skip
  <2> QED
    BY <2>1, <2>3, <2>4, <2>5, <2>6, OnlyWorkerRuns
<1>14. ASSUME NEW s \in Slots, BeginEnable(s)
       PROVE  RuntimeInv'
  <2>1. act.pc \in {"idle", "restore"} /\ act.started = {} /\ act.id = None
    BY <1>0, <1>14 DEF BeginEnable, Working
  <2>2. CASE act' = Idle \/ act' = [act EXCEPT !.todo = @ \ {s}]
    BY <1>0, <1>3, <1>6, <2>1, <2>2 DEF Workers
  <2>3. ASSUME NEW cs, act' = [act EXCEPT !.pc = IF endpoints[s] = None THEN "launch" ELSE "unload",
                                 !.slot = s, !.todo = @ \ {s}, !.changes = cs]
        PROVE  RuntimeInv'
    <3>1. /\ act'.started = {} /\ act'.id = None /\ act'.permit = act.permit /\ act'.slot = s
          /\ act'.pc = IF endpoints[s] = None THEN "launch" ELSE "unload"
      BY <1>0, <2>1, <2>3 DEF Workers
    <3>2. OnlyWorker
      BY <1>1, <2>1, <3>1 DEF OnlyWorker
    <3> QED
      BY <3>1, <3>2, OnlyWorkerRuns
  <2> QED
    BY <1>14, <2>2, <2>3 DEF BeginEnable
<1>15. ASSUME IssuePermit
       PROVE  RuntimeInv'
  <2>1. /\ act.pc \in {"launch", "unload"} /\ act.started = {} /\ act.id = None /\ ~Leaving
        /\ endpoints[act.slot] = None
    BY <1>0, <1>15 DEF IssuePermit, Working, Attempt
  <2>2. CASE act' = Idle
    BY <1>6, <2>1, <2>2
  <2>3. CASE vault /\ act' = [act EXCEPT !.pc = "spawn", !.permit = TRUE]
    <3>1. act'.started = {} /\ act'.id = None /\ act'.slot = act.slot /\ act'.pc = "spawn"
      BY <1>0, <2>1, <2>3 DEF Workers
    <3>2. OnlyWorker
      BY <1>1, <2>1, <2>3, <3>1 DEF OnlyWorker
    <3> QED
      BY <2>1, <3>1, <3>2, OnlyWorkerRuns
  <2> QED
    BY <1>15, <2>2, <2>3 DEF IssuePermit
<1> QED
  BY <1>4, <1>5, <1>7, <1>8, <1>9, <1>10, <1>12, <1>13, <1>14, <1>15

-----------------------------------------------------------------------------
(* The instances, step by step. *)

Kernel == StoreInv /\ StoreInv' /\ RuntimeInv

LEMMA KernelIs ==
    ASSUME Kernel
    PROVE  /\ Handles /\ Attempt /\ Current /\ Working /\ Working' /\ HandleTypes /\ HandleTypes'
           /\ Durable /\ act \in Workers /\ act' \in Workers
           /\ act.id # None <=> act.pc \in {"await", "loading", "publish"}
           /\ act'.id # None <=> act'.pc \in {"await", "loading", "publish"}
BY DEF Kernel, RuntimeInv, StoreInv, Durable, Working, HandleTypes

\* An instance got ready: it belongs to the attempt, or may be published.
LEMMA ReadyRuns ==
    ASSUME Kernel, \A s \in Slots : Committed(s)' = Committed(s), TargetReady \/ CheckLoaded
    PROVE  RuntimeInv'
<1>0. /\ Handles /\ Attempt /\ Current /\ Working /\ Working' /\ HandleTypes /\ HandleTypes'
      /\ act \in Workers /\ act' \in Workers
  BY KernelIs
<1>1. UNCHANGED <<endpoints, inst, registry, vault, removal, removed>>
  BY DEF TargetReady, CheckLoaded, runtime, background
<1>2. PICK j \in Ids : j = act.id /\ j # None /\ Executing(j) /\ inst[j] # None
  <2>1. act.id \in Ids /\ act.id # None
    BY <1>0, NoneIsAbsent DEF TargetReady, CheckLoaded, Working, Workers
  <2>2. inst[act.id] # None /\ inst[act.id].state = "ready"
    BY <1>0, <2>1 DEF TargetReady, CheckLoaded, ReadyFor, Attempt
  <2> QED
    BY <2>1, <2>2 DEF Executing
<1>3. Fading
  BY <1>0, <1>1, DropFades
<1>4. /\ \A i \in Ids : (Alive(i)' <=> Alive(i)) /\ (Live(i)' <=> Live(i)) /\ (Executing(i)' <=> Executing(i))
      /\ Leaving' <=> Leaving
  BY <1>1 DEF Alive, Live, Executing, Leaving
<1>5. \A i \in Ids : Alive(i)' => i \in registry'
  BY <1>0, <1>1, <1>4 DEF Handles
<1>6. \A s \in Slots : endpoints'[s] # None =>
              /\ endpoints'[s] \in Ids /\ inst[endpoints'[s]] # None /\ inst[endpoints'[s]].slot = s
  BY <1>0, <1>1 DEF Handles, HandleTypes
<1>7. CASE TargetReady
  <2>1. act.pc = "await" /\ act' = [act EXCEPT !.pc = "slots", !.id = None, !.started = @ \cup {j},
                                      !.required = @ \cup {j}]
    BY <1>2, <1>7 DEF TargetReady
  <2>2. /\ act'.pc = "slots" /\ act'.id = None /\ act'.started = act.started \cup {j}
        /\ act'.changes = act.changes /\ act'.todo = act.todo /\ act'.permit = act.permit
    BY <1>0, <2>1 DEF Workers
  <2>3. Handles'
    <3>1. act'.permit => vault' /\ ~Leaving'
      BY <1>0, <1>1, <1>4, <2>2 DEF Handles
    <3> QED
      BY <1>0, <1>1, <1>2, <1>3, <1>4, <1>5, <1>6, <2>2, <3>1, HandlesFade
  <2>4. /\ inst[j].slot = act.slot /\ inst[j].pkg = act.changes[act.slot].to
        /\ act.slot \in DOMAIN act.changes \ act.todo /\ endpoints[act.slot] = None
    BY <1>0, <1>2, <2>1 DEF Attempt, Working, Target
  <2>5. Attempt'
    <3>1. ASSUME NEW i \in act.started
          PROVE  /\ inst[i] # None /\ inst[i].slot \in DOMAIN act.changes \ act.todo
                 /\ inst[i].pkg = act.changes[inst[i].slot].to
                 /\ endpoints[inst[i].slot] = None
                 /\ inst[i].slot # act.slot
      BY <1>0, <2>1 DEF Attempt
    <3>2. \A i, k \in act.started \cup {j} : inst[i].slot = inst[k].slot => i = k
      BY <1>0, <2>4, <3>1 DEF Attempt
    <3> QED
      BY <1>1, <1>2, <2>2, <2>4, <3>1, <3>2 DEF Attempt
  <2>6. Current'
    <3>1. \A i \in Ids : Executing(i)' /\ (i \in act.started \/ (i = act.id /\ act.pc = "await")) =>
              i \in act'.started \/ (i = act'.id /\ act'.pc = "await")
      BY <1>2, <2>2
    <3>2. ASSUME NEW i \in Ids, Executing(i)', inst[i].slot \in Replaced'
          PROVE  inst[i].pkg = act'.changes[inst[i].slot].to \/ inst[i].slot \in Replaced
      <4>1. CASE inst[i].slot = act.slot
        <5>1. endpoints[inst[i].slot] = i \/ i \in act.started \/ i = j
          BY <1>0, <1>2, <1>4, <3>2, InstanceIs DEF Handles, Executing
        <5>2. i \notin act.started
          BY <1>0, <2>1, <4>1 DEF Attempt
        <5>3. i = j
          BY <2>4, <4>1, <5>1, <5>2, NoneIsAbsent
        <5> QED
          BY <2>2, <2>4, <4>1, <5>3
      <4>2. CASE inst[i].slot # act.slot
        BY <2>1, <2>2, <3>2, <4>2 DEF Replaced
      <4> QED
        BY <4>1, <4>2
    <3> QED
      BY <1>0, <1>1, <1>3, <2>1, <2>2, <3>1, <3>2, CurrentFade
  <2> QED
    BY <2>3, <2>5, <2>6 DEF RuntimeInv
<1>8. CASE CheckLoaded
  <2>1. act.pc = "loading" /\ act' = [act EXCEPT !.pc = "publish"]
    BY <1>8 DEF CheckLoaded
  <2>2. /\ act'.pc = "publish" /\ act'.id = act.id /\ act'.started = act.started /\ act'.slot = act.slot
        /\ act'.changes = act.changes /\ act'.todo = act.todo /\ act'.permit = act.permit
    BY <1>0, <2>1 DEF Workers
  <2>3. Handles'
    <3>1. act'.permit => vault' /\ ~Leaving'
      BY <1>0, <1>1, <1>4, <2>2 DEF Handles
    <3> QED
      BY <1>0, <1>1, <1>2, <1>3, <1>4, <1>5, <1>6, <2>2, <3>1, HandlesFade
  <2>4. Attempt'
    <3>1. endpoints'[act'.slot] = None
      BY <1>0, <1>1, <2>1, <2>2 DEF Attempt
    <3> QED
      BY <1>0, <1>1, <1>3, <2>1, <2>2, <3>1, AttemptFade
  <2>5. Current'
    BY <1>0, <1>1, <1>3, <2>1, <2>2, CurrentFade
  <2> QED
    BY <2>3, <2>4, <2>5 DEF RuntimeInv
<1> QED
  BY <1>7, <1>8

\* The worker of an instance resumes it, or an instance ends on its own.
LEMMA InstanceRuns ==
    ASSUME Kernel, \A s \in Slots : Committed(s)' = Committed(s), NEW j \in Ids,
           ResumeInstance(j) \/ EndInstance(j)
    PROVE  RuntimeInv'
<1>0. /\ Handles /\ Attempt /\ Current /\ Working /\ Working' /\ HandleTypes /\ HandleTypes'
      /\ act \in Workers /\ act' \in Workers
  BY KernelIs
<1>1. UNCHANGED <<endpoints, registry, vault, removal, removed, act>>
  BY DEF ResumeInstance, EndInstance
<1>2. inst[j] # None /\ inst[j] \in Instances
  BY <1>0 DEF Handles, ResumeInstance, EndInstance, Alive
<1>3. PICK state \in {"ready", "stopped", "failed"} :
         /\ inst' = [inst EXCEPT ![j].state = state]
         /\ state = "ready" <=> ResumeInstance(j)
  <2>1. CASE ResumeInstance(j)
    BY <2>1 DEF ResumeInstance
  <2>2. CASE EndInstance(j) /\ ~ResumeInstance(j)
    BY <2>2 DEF EndInstance
  <2> QED
    BY <2>1, <2>2
<1>4. /\ inst'[j] = [inst[j] EXCEPT !.state = state] /\ inst'[j] \in Instances /\ inst'[j] # None
      /\ \A i \in Ids : i # j => inst'[i] = inst[i]
      /\ inst' \in [Ids -> Instances \cup {None}]
  <2>1. [inst[j] EXCEPT !.state = state] \in Instances
    BY <1>2 DEF Instances
  <2> QED
    BY <1>0, <1>3, <2>1, NoneIsAbsent DEF Handles
<1>5. /\ inst'[j].slot = inst[j].slot /\ inst'[j].pkg = inst[j].pkg /\ inst'[j].op = inst[j].op
      /\ inst'[j].state = state
  BY <1>2, <1>4 DEF Instances
<1>6. CASE EndInstance(j) /\ ~ResumeInstance(j)
  <2>1. Fading
    <3>1. \A i \in Ids : Fades(i)
      BY <1>2, <1>3, <1>4, <1>5, <1>6 DEF Fades, Alive
    <3> QED
      BY <1>4, <3>1 DEF Fading
  <2>2. \A i \in Ids : (Alive(i)' => Alive(i)) /\ (Live(i)' => Live(i)) /\ (Executing(i)' => Executing(i))
    BY <2>1, FadingIs
  <2>3. Handles'
    <3>1. \A i \in Ids : Alive(i)' => i \in registry'
      BY <1>0, <1>1, <2>2 DEF Handles
    <3>2. act'.permit => vault' /\ ~Leaving'
      BY <1>0, <1>1 DEF Handles, Leaving
    <3>3. Leaving' <=> Leaving
      BY <1>1 DEF Leaving
    <3>4. \A s \in Slots : endpoints'[s] # None =>
              /\ endpoints'[s] \in Ids /\ inst[endpoints'[s]] # None /\ inst[endpoints'[s]].slot = s
      BY <1>0, <1>1 DEF Handles, HandleTypes
    <3> QED
      BY <1>0, <1>1, <2>1, <3>1, <3>2, <3>3, <3>4, HandlesFade
  <2>4. Attempt'
    <3>1. /\ act'.pc \in {"start", "await", "launch", "spawn", "loading", "publish"} => endpoints'[act'.slot] = None
          /\ act'.pc \in {"replace", "start", "await"} => act'.slot \notin act'.todo
      BY <1>0, <1>1 DEF Attempt
    <3> QED
      BY <1>0, <1>1, <2>1, <3>1, AttemptFade
  <2>5. Current'
    <3>1. Replaced' = Replaced
      BY <1>1 DEF Replaced
    <3> QED
      BY <1>0, <1>1, <2>1, <3>1, CurrentFade
  <2> QED
    BY <2>3, <2>4, <2>5 DEF RuntimeInv
<1>7. CASE ResumeInstance(j)
  <2>1. /\ inst[j].state = "starting" /\ state = "ready"
        /\ active[inst[j].slot] = [pkg |-> inst[j].pkg, pending |-> inst[j].op]
    BY <1>3, <1>7 DEF ResumeInstance
  <2>2. j = act.id /\ act.pc \in {"await", "loading"} /\ j # None /\ inst[j].slot = act.slot
    BY <1>0, <1>2, <2>1, NoneIsAbsent DEF Handles, Attempt
  <2>3. \A i \in Ids : /\ Alive(i)' <=> Alive(i)
                       /\ Live(i)' <=> Live(i)
                       /\ inst'[i] = None <=> inst[i] = None
                       /\ inst'[i].slot = inst[i].slot /\ inst'[i].pkg = inst[i].pkg /\ inst'[i].op = inst[i].op
                       /\ i # j => (Executing(i)' <=> Executing(i))
    BY <1>2, <1>4, <1>5, <2>1 DEF Alive, Live, Executing
  <2>4. Handles'
    <3>1. \A i \in Ids : inst'[i] # None /\ inst'[i].state = "starting" => i # j
      BY <1>5, <2>1
    <3>2. \A i \in Ids : inst'[i] # None /\ inst'[i].state = "starting" =>
             i = act'.id /\ act'.pc \in {"await", "loading"}
      BY <1>0, <1>1, <1>4, <3>1 DEF Handles
    <3>3. \A s \in Slots : endpoints'[s] # None =>
             inst'[endpoints'[s]] # None /\ inst'[endpoints'[s]].slot = s
      BY <1>0, <1>1, <2>3 DEF Handles, HandleTypes
    <3>4. Leaving' <=> Leaving
      BY <1>1 DEF Leaving
    <3>5. \A i \in Ids : Alive(i)' => i \in registry' /\ vault' /\ ~Leaving'
      BY <1>0, <1>1, <2>3, <3>4 DEF Handles
    <3>6. \A i \in Ids : Live(i)' =>
             endpoints'[inst'[i].slot] = i \/ i \in act'.started \/ i = act'.id
      BY <1>0, <1>1, <2>3 DEF Handles
    <3>7. act'.permit => vault' /\ ~Leaving'
      BY <1>0, <1>1, <3>4 DEF Handles
    <3> QED
      BY <1>4, <3>2, <3>3, <3>5, <3>6, <3>7 DEF Handles
  <2>5. Attempt'
    <3>1. \A i \in act.started : i \in Ids
      BY <1>0 DEF Workers
    <3>2. Target' = Target
      BY <1>1 DEF Target
    <3>3. \A i \in act'.started :
             /\ inst'[i] # None /\ inst'[i].slot \in DOMAIN act'.changes \ act'.todo
             /\ inst'[i].pkg = act'.changes[inst'[i].slot].to
             /\ endpoints'[inst'[i].slot] = None
             /\ act'.pc \in {"replace", "start", "await"} => inst'[i].slot # act'.slot
      BY <1>0, <1>1, <2>3, <3>1 DEF Attempt
    <3>4. \A i, k \in act'.started : inst'[i].slot = inst'[k].slot => i = k
      BY <1>0, <1>1, <2>3, <3>1 DEF Attempt
    <3>5. /\ inst'[act'.id] # None /\ inst'[act'.id].slot = act'.slot
          /\ inst'[act'.id].pkg = Target'
          /\ act'.pc # "await" => inst'[act'.id].op = None
      BY <1>0, <1>1, <2>2, <2>3, <3>2 DEF Attempt
    <3>6. /\ act'.pc \in {"start", "await", "launch", "spawn", "loading", "publish"} => endpoints'[act'.slot] = None
          /\ act'.pc \in {"replace", "start", "await"} => act'.slot \notin act'.todo
      BY <1>0, <1>1 DEF Attempt
    <3> QED
      BY <3>3, <3>4, <3>5, <3>6 DEF Attempt
  <2>6. Current'
    <3>1. act.pc = "loading" => inst[j].pkg = Committed(inst[j].slot)
      <4>1. SUFFICES ASSUME act.pc = "loading"
                     PROVE  inst[j].pkg = Committed(inst[j].slot)
        OBVIOUS
      <4>2. inst[j].op = None
        BY <1>0, <2>2, <4>1 DEF Attempt
      <4>3. PICK s \in Slots : s = inst[j].slot
        BY <1>0, <1>2, InstanceIs
      <4>4. active[s] = [pkg |-> inst[j].pkg, pending |-> None] /\ active[s] \in Pointers
        BY <1>2, <2>1, <4>2, <4>3 DEF Pointers, Instances
      <4>5. active[s] # None
        BY <4>4, NoneIsAbsent
      <4>6. PendingOp(s) = None /\ Pkg(s) = inst[j].pkg
        BY <4>4, <4>5 DEF PendingOp, Pkg
      <4> QED
        BY <4>3, <4>6, SettledIs
    <3>2. ASSUME ~removed', NEW i \in Ids, Executing(i)'
          PROVE  \/ inst'[i].pkg = Committed(inst[i].slot)'
                 \/ i \in act'.started
                 \/ i = act'.id /\ act'.pc = "await"
      <4>1. PICK s \in Slots : s = inst[i].slot
        <5>1. inst[i] # None
          BY <2>3, <3>2 DEF Executing
        <5> QED
          BY <1>0, <5>1, InstanceIs
      <4>2. Committed(inst[i].slot)' = Committed(s) /\ inst'[i].pkg = inst[i].pkg
        BY <2>3, <4>1
      <4>3. CASE i = j
        BY <1>1, <2>2, <3>1, <4>1, <4>2, <4>3
      <4>4. CASE i # j
        BY <1>0, <1>1, <2>3, <3>2, <4>1, <4>2, <4>4 DEF Current
      <4> QED
        BY <4>3, <4>4
    <3>3. ASSUME act'.pc \in {"slots", "replace", "start", "await"},
                 NEW i \in Ids, Executing(i)', inst'[i].slot \in Replaced'
          PROVE  inst'[i].pkg = act'.changes[inst'[i].slot].to
      <4>1. Replaced' = Replaced
        BY <1>1 DEF Replaced
      <4>2. inst[j].slot \notin Replaced
        BY <1>1, <2>2, <3>3 DEF Replaced
      <4>3. i # j /\ Executing(i)
        BY <2>3, <3>3, <4>1, <4>2
      <4> QED
        BY <1>0, <1>1, <2>3, <3>3, <4>1, <4>3 DEF Current
    <3> QED
      BY <3>2, <3>3 DEF Current
  <2> QED
    BY <2>4, <2>5, <2>6 DEF RuntimeInv
<1> QED
  BY <1>6, <1>7

\* A new instance, for a slot without endpoint and under a permit.
LEMMA StartedRuns ==
    ASSUME Kernel, \A s \in Slots : Committed(s)' = Committed(s),
           UNCHANGED <<endpoints, vault, removal, removed>>, act.permit,
           NEW op \in Ops \cup {None}, NEW pc \in {"await", "loading"},
           act.pc = IF pc = "await" THEN "start" ELSE "spawn",
           pc = "loading" => op = None,
           Started(act.slot, Target, op, TRUE, pc)
    PROVE  RuntimeInv'
<1>0. /\ Handles /\ Attempt /\ Current /\ Working /\ Working' /\ HandleTypes /\ HandleTypes'
      /\ act \in Workers /\ act' \in Workers
  BY KernelIs
<1>1. /\ act.id = None /\ act.slot \in Slots /\ act.changes \in Changes /\ act.slot \in DOMAIN act.changes
      /\ endpoints[act.slot] = None
  BY <1>0 DEF Working, Attempt
<1>2. PICK slot \in Slots, p \in Packages : slot = act.slot /\ p = Target
  BY <1>1, ChangesAre DEF Target
<1>3. PICK j \in Ids : /\ ~Referenced(j)
                       /\ registry' = Reaped \cup {j}
                       /\ act' = [act EXCEPT !.pc = pc, !.slot = slot, !.id = j]
                       /\ inst' = Kept([inst EXCEPT ![j] = Fresh(slot, p, op, TRUE)])
  BY <1>2 DEF Started
<1>4. /\ act'.pc = pc /\ act'.slot = slot /\ act'.id = j /\ act'.started = act.started
      /\ act'.changes = act.changes /\ act'.todo = act.todo /\ act'.permit = act.permit
  BY <1>0, <1>3 DEF Workers
<1>5. /\ j # None /\ j \notin act.started /\ j \notin registry
      /\ \A s \in Slots : endpoints[s] # j
  BY <1>3, NoneIsAbsent DEF Referenced
<1>6. /\ Fresh(slot, p, op, TRUE) \in Instances /\ Fresh(slot, p, op, TRUE) # None
  <2>1. Fresh(slot, p, op, TRUE) \in Instances
    BY DEF Fresh, Instances
  <2> QED
    BY <2>1, NoneIsAbsent
<1>7. Referenced(j)'
  BY <1>4 DEF Referenced
<1>8. /\ inst'[j] = Fresh(slot, p, op, TRUE)
      /\ \A i \in Ids : i # j => inst'[i] = inst[i] \/ inst'[i] = None
      /\ \A i \in Ids : i # j /\ Referenced(i)' => inst'[i] = inst[i]
      /\ inst' \in [Ids -> Instances \cup {None}]
  BY <1>0, <1>3, <1>6, <1>7 DEF Kept, Handles
<1>9. /\ inst'[j] # None /\ inst'[j].slot = slot /\ inst'[j].pkg = p /\ inst'[j].op = op
      /\ inst'[j].state = "starting"
  BY <1>6, <1>8 DEF Fresh
<1>10. ASSUME NEW i \in Ids, i # j
       PROVE  /\ Alive(i)' => Alive(i)
              /\ Live(i)' => Live(i) /\ inst'[i].slot = inst[i].slot
              /\ Executing(i)' => Executing(i) /\ inst'[i] = inst[i]
              /\ inst'[i] # None => inst'[i] = inst[i]
  BY <1>8, <1>10 DEF Alive, Live, Executing
<1>11. ~Executing(j)'
  BY <1>9 DEF Executing
<1>12. vault /\ ~Leaving /\ (Leaving' <=> Leaving)
  BY <1>0 DEF Handles, Leaving
<1>13. Handles'
  <2>1. \A s \in Slots : endpoints'[s] # None =>
           inst'[endpoints'[s]] # None /\ inst'[endpoints'[s]].slot = s
    <3>1. ASSUME NEW s \in Slots, endpoints[s] # None
          PROVE  inst'[endpoints[s]] # None /\ inst'[endpoints[s]].slot = s
      <4>1. PICK e \in Ids : e = endpoints[s] /\ e # j
        BY <1>0, <1>5, <3>1 DEF HandleTypes
      <4>2. Referenced(e)'
        BY <4>1 DEF Referenced
      <4> QED
        BY <1>0, <1>8, <3>1, <4>1, <4>2 DEF Handles
    <3> QED
      BY <3>1
  <2>2. \A i \in Ids : Alive(i)' => i \in registry' /\ vault' /\ ~Leaving'
    <3>1. ASSUME NEW i \in Ids, Alive(i)', i # j
          PROVE  i \in Reaped
      BY <1>0, <1>10, <3>1 DEF Reaped, Joined, Handles, Alive
    <3> QED
      BY <1>3, <1>12, <3>1
  <2>3. act'.permit => vault' /\ ~Leaving'
    BY <1>12
  <2>4. ASSUME NEW i \in Ids, Live(i)'
        PROVE  endpoints'[inst'[i].slot] = i \/ i \in act'.started \/ i = act'.id
    <3>1. CASE i = j
      BY <1>4, <3>1
    <3>2. CASE i # j
      BY <1>0, <1>1, <1>4, <1>10, <2>4, <3>2, NoneIsAbsent DEF Handles
    <3> QED
      BY <3>1, <3>2
  <2>5. ASSUME NEW i \in Ids, inst'[i] # None, inst'[i].state = "starting"
        PROVE  i = act'.id /\ act'.pc \in {"await", "loading"}
    BY <1>0, <1>1, <1>4, <1>10, <2>5, NoneIsAbsent DEF Handles
  <2> QED
    BY <1>8, <2>1, <2>2, <2>3, <2>4, <2>5 DEF Handles
<1>14. Attempt'
  <2>1. ASSUME NEW i \in act.started
        PROVE  /\ inst'[i] = inst[i] /\ inst[i] # None /\ inst[i].slot \in DOMAIN act.changes \ act.todo
               /\ inst[i].pkg = act.changes[inst[i].slot].to
               /\ endpoints[inst[i].slot] = None
               /\ pc = "await" => inst[i].slot # act.slot
    <3>1. i \in Ids /\ i # j /\ Referenced(i)'
      BY <1>0, <1>4, <1>5 DEF Workers, Referenced
    <3> QED
      BY <1>0, <1>8, <3>1 DEF Attempt
  <2>2. act.started # {} => pc = "await"
    BY <1>0 DEF Working
  <2>3. Target' = Target
    BY <1>2, <1>4 DEF Target
  <2>4. \A i, k \in act'.started : inst'[i].slot = inst'[k].slot => i = k
    BY <1>0, <1>4, <2>1 DEF Attempt
  <2>5. /\ inst'[act'.id] # None /\ inst'[act'.id].slot = act'.slot /\ inst'[act'.id].pkg = Target'
        /\ act'.pc # "await" => inst'[act'.id].op = None
    BY <1>2, <1>4, <1>9, <2>3
  <2>6. act'.pc \in {"replace", "start", "await"} => act'.slot \notin act'.todo
    BY <1>0, <1>2, <1>4 DEF Attempt
  <2>7. endpoints'[act'.slot] = None
    BY <1>1, <1>2, <1>4
  <2>8. \A i \in act'.started :
             /\ inst'[i] # None /\ inst'[i].slot \in DOMAIN act'.changes \ act'.todo
             /\ inst'[i].pkg = act'.changes[inst'[i].slot].to
             /\ endpoints'[inst'[i].slot] = None
             /\ act'.pc \in {"replace", "start", "await"} => inst'[i].slot # act'.slot
    BY <1>2, <1>4, <2>1, <2>2
  <2> QED
    BY <2>4, <2>5, <2>6, <2>7, <2>8 DEF Attempt
<1>15. Current'
  <2>1. ASSUME ~removed', NEW i \in Ids, Executing(i)'
        PROVE  \/ inst'[i].pkg = Committed(inst[i].slot)'
               \/ i \in act'.started
               \/ i = act'.id /\ act'.pc = "await"
    <3>1. i # j /\ Executing(i) /\ inst'[i] = inst[i]
      BY <1>10, <1>11, <2>1
    <3>2. PICK s \in Slots : s = inst[i].slot
      BY <1>0, <3>1, InstanceIs DEF Executing
    <3>3. i # act.id
      BY <1>1, NoneIsAbsent
    <3>4. inst[i].pkg = Committed(s) \/ i \in act.started
      BY <1>0, <2>1, <3>1, <3>2, <3>3 DEF Current
    <3>5. Committed(inst[i].slot)' = Committed(s)
      BY <3>1, <3>2
    <3> QED
      BY <1>4, <3>1, <3>4, <3>5
  <2>2. ASSUME act'.pc \in {"slots", "replace", "start", "await"},
               NEW i \in Ids, Executing(i)', inst'[i].slot \in Replaced'
        PROVE  inst'[i].pkg = act'.changes[inst'[i].slot].to
    <3>1. i # j /\ Executing(i) /\ inst'[i] = inst[i]
      BY <1>10, <1>11, <2>2
    <3>2. act.pc = "start" /\ Replaced' = Replaced
      BY <1>2, <1>4, <2>2 DEF Replaced
    <3> QED
      BY <1>0, <1>4, <2>2, <3>1, <3>2 DEF Current
  <2> QED
    BY <2>1, <2>2 DEF Current
<1> QED
  BY <1>13, <1>14, <1>15 DEF RuntimeInv

\* The steps that stop something, forget handles or publish them: the hypotheses
\* left are about the handles that change.
LEMMA FadingRuns ==
    ASSUME Kernel, Fading,
           removed' \/ (removed' = removed /\ \A s \in Slots : Committed(s)' = Committed(s)),
           (vault' = vault /\ (Leaving' => Leaving)) \/ \A i \in Ids : ~Alive(i)',
           act'.permit => vault' /\ ~Leaving',
           \A i \in Ids : Alive(i)' => i \in registry',
           \A s \in Slots : endpoints'[s] # None => endpoints'[s] = endpoints[s],
           \A s \in Slots : \A i \in Ids : endpoints[s] = i /\ Live(i)' => endpoints'[s] = i,
           act'.started \subseteq act.started,
           \A i \in Ids : Live(i)' /\ (i \in act.started \/ i = act.id) => i \in act'.started \/ i = act'.id,
           act'.id # None => act' = act \/ act' = [act EXCEPT !.permit = FALSE],
           act'.started # {} => act'.changes = act.changes /\ act'.todo = act.todo /\ act'.slot = act.slot
                                /\ (act'.pc = "replace" => act.pc = "replace")
                                /\ (act'.pc = "start" => act.pc \in {"replace", "start"}),
           act'.pc \in {"start", "launch", "spawn"} => endpoints'[act'.slot] = None,
           act'.pc \in {"replace", "start"} => act'.slot \notin act'.todo,
           act'.pc \in {"slots", "replace", "start"} =>
              \A i \in Ids : Executing(i)' /\ inst[i].slot \in Replaced' =>
                 /\ act.pc \in {"slots", "replace", "start", "await"}
                 /\ act'.changes = act.changes /\ inst[i].slot \in Replaced
    PROVE  RuntimeInv'
<1>0. /\ Handles /\ Attempt /\ Current /\ Working /\ Working' /\ HandleTypes /\ HandleTypes'
      /\ act \in Workers /\ act' \in Workers
      /\ act'.id # None <=> act'.pc \in {"await", "loading", "publish"}
  BY KernelIs
<1>2. act'.id # None =>
         /\ act'.id = act.id /\ act'.slot = act.slot /\ act'.changes = act.changes /\ act'.pc = act.pc
         /\ act'.todo = act.todo /\ act'.started = act.started
  BY <1>0 DEF Workers
<1>3. Handles'
  <2>2. \A s \in Slots : endpoints'[s] # None =>
              /\ endpoints'[s] \in Ids /\ inst[endpoints'[s]] # None /\ inst[endpoints'[s]].slot = s
    BY <1>0 DEF Handles, HandleTypes
  <2>3. \A i \in Ids : i = act.id /\ Live(i)' => (act'.id = i /\ act'.pc = act.pc) \/ Executing(i)
    <3>1. ASSUME NEW i \in Ids, i = act.id, Live(i)', act'.id # i
          PROVE  FALSE
      <4>1. i \in act'.started /\ i \in act.started /\ i # None
        BY <3>1, NoneIsAbsent
      <4>2. act.pc \in {"await", "loading", "publish"} /\ act.started # {}
        BY <3>1, <4>1, KernelIs
      <4>3. act.pc = "await" /\ inst[i].slot = act.slot
        BY <1>0, <3>1, <4>1, <4>2 DEF Working, Attempt
      <4> QED
        BY <1>0, <4>1, <4>3 DEF Attempt
    <3> QED
      BY <1>2, <3>1, NoneIsAbsent
  <2> QED
    BY <1>0, <2>2, <2>3, HandlesFade
<1>4. Attempt'
  <2>1. act'.pc \in {"start", "await", "launch", "spawn", "loading", "publish"} => endpoints'[act'.slot] = None
    <3>1. CASE act'.pc \in {"await", "loading", "publish"}
      <4>1. act'.slot = act.slot /\ act'.pc = act.pc
        BY <1>0, <1>2, <3>1
      <4>2. act.slot \in Slots /\ endpoints[act.slot] = None
        BY <1>0, <3>1, <4>1 DEF Working, Attempt
      <4> QED
        BY <4>1, <4>2
    <3> QED
      BY <3>1
  <2>2. act'.pc \in {"replace", "start", "await"} => act'.slot \notin act'.todo
    BY <1>0, <1>2 DEF Attempt
  <2>3. act'.started # {} =>
              /\ act'.changes = act.changes /\ act'.todo \subseteq act.todo
              /\ act'.pc \in {"replace", "start", "await"} =>
                    \/ act'.slot \in act.todo
                    \/ act.pc \in {"replace", "start", "await"} /\ act'.slot = act.slot
    BY <1>0, <1>2
  <2> QED
    BY <1>0, <1>2, <2>1, <2>2, <2>3, AttemptFade
<1>5. Current'
  <2>1. \A i \in Ids : Executing(i)' /\ (i \in act.started \/ (i = act.id /\ act.pc = "await")) =>
              i \in act'.started \/ (i = act'.id /\ act'.pc = "await")
    BY <1>2, FadingIs, NoneIsAbsent
  <2>2. act'.pc \in {"slots", "replace", "start", "await"} =>
              \A i \in Ids : Executing(i)' /\ inst[i].slot \in Replaced' =>
                 \/ inst[i].pkg = act'.changes[inst[i].slot].to
                 \/ /\ act.pc \in {"slots", "replace", "start", "await"}
                    /\ act'.changes = act.changes /\ inst[i].slot \in Replaced
    <3>1. CASE act'.pc = "await"
      BY <1>0, <1>2, <3>1 DEF Replaced
    <3> QED
      BY <3>1
  <2> QED
    BY <1>0, <2>1, <2>2, CurrentFade
<1> QED
  BY <1>3, <1>4, <1>5 DEF RuntimeInv

\* stop_and_join of one instance, with the registry's bookkeeping.
LEMMA JoinRuns ==
    ASSUME Handles, NEW j \in Ids, inst[j] # None, NEW state \in JoinStates(j),
           registry' = IF Joined(state) THEN registry \ {j} ELSE registry,
           inst' = Kept([inst EXCEPT ![j].state = state])
    PROVE  Fading /\ ~Live(j)' /\ \A i \in Ids : Alive(i)' => i \in registry'
<1>1. Fading /\ ~Live(j)' /\ (Joined(state) => ~Alive(j)')
  BY JoinFades
<1>2. \A i \in Ids : Alive(i)' => i \in registry
  BY <1>1, FadingIs DEF Handles
<1> QED
  BY <1>1, <1>2

\* reap keeps what is alive.
LEMMA ReapRuns ==
    ASSUME Handles, registry' = Reaped, inst' = Kept(inst)
    PROVE  Fading /\ \A i \in Ids : Alive(i)' => i \in registry'
<1>1. Fading
  BY DropFades
<1>2. \A i \in Ids : Alive(i) => i \in Reaped
  BY DEF Handles, Reaped, Joined, Alive
<1> QED
  BY <1>1, <1>2, FadingIs

LEMMA StopRuns ==
    ASSUME Kernel, \A s \in Slots : Committed(s)' = Committed(s), StopPredecessor \/ StopLoaded
    PROVE  RuntimeInv'
<1>0. /\ Handles /\ Attempt /\ Current /\ Working /\ HandleTypes
      /\ act \in Workers /\ act' \in Workers
      /\ act.id # None <=> act.pc \in {"await", "loading", "publish"}
  BY KernelIs
<1>1. UNCHANGED <<vault, removal, removed>>
  BY DEF StopPredecessor, StopLoaded
<1>2. act.pc \in {"replace", "unload"} /\ endpoints[act.slot] # None /\ act.slot \in Slots /\ act.id = None
  BY <1>0 DEF StopPredecessor, StopLoaded, Working
<1>3. PICK j \in Ids : j = endpoints[act.slot] /\ inst[j] # None /\ j # None
  BY <1>0, <1>2, NoneIsAbsent DEF Handles, HandleTypes
<1>4. PICK pc \in {"start", "slots", "launch"} :
         StopOld(pc) /\ (pc = "launch" <=> act.pc = "unload")
  BY DEF StopPredecessor, StopLoaded
<1>5. PICK state \in JoinStates(j) :
         /\ registry' = IF Joined(state) THEN registry \ {j} ELSE registry
         /\ endpoints' = IF Joined(state) THEN [endpoints EXCEPT ![act.slot] = None] ELSE endpoints
         /\ act' = IF Joined(state)
                   THEN [act EXCEPT !.pc = pc, !.stopped = @ \cup {act.slot}]
                   ELSE IF act.pc = "unload" THEN Idle
                   ELSE [act EXCEPT !.pc = IF j \in registry THEN "cleanup" ELSE "undo"]
         /\ inst' = Kept([inst EXCEPT ![j].state = state])
  BY <1>3, <1>4 DEF StopOld
<1>6. Fading /\ ~Live(j)' /\ \A i \in Ids : Alive(i)' => i \in registry'
  BY <1>0, <1>3, <1>5, JoinRuns
<1>7. /\ \A s \in Slots : endpoints'[s] # None => endpoints'[s] = endpoints[s]
      /\ \A s \in Slots : \A i \in Ids : endpoints[s] = i /\ Live(i)' => endpoints'[s] = i
  <2>1. \A s \in Slots : s # act.slot => endpoints'[s] = endpoints[s]
    BY <1>0, <1>5 DEF HandleTypes
  <2>2. endpoints'[act.slot] \in {None, j}
    BY <1>0, <1>2, <1>3, <1>5 DEF HandleTypes
  <2> QED
    BY <1>3, <1>6, <2>1, <2>2
<1>8. act'.permit => vault' /\ ~Leaving'
  <2>1. act'.permit => act.permit
    BY <1>0, <1>5 DEF Idle, Workers
  <2> QED
    BY <1>0, <1>1, <2>1 DEF Handles, Leaving
<1>9. Leaving' <=> Leaving
  BY <1>1 DEF Leaving
\* The slot has no instance any more.
<1>10. ASSUME NEW i \in Ids, Executing(i)', act.pc = "replace"
       PROVE  inst[i].slot # act.slot
  <2>1. Executing(i) /\ Live(i)' /\ inst[i] # None
    BY <1>6, <1>10, FadingIs DEF Executing
  <2>2. i # j
    BY <1>6, <2>1
  <2>3. endpoints[inst[i].slot] = i \/ i \in act.started
    BY <1>0, <1>2, <2>1, InstanceIs, NoneIsAbsent DEF Handles
  <2>4. ASSUME inst[i].slot = act.slot
        PROVE  FALSE
    <3>1. endpoints[inst[i].slot] # i
      BY <1>3, <2>2, <2>4
    <3>2. i \notin act.started
      BY <1>0, <1>10, <2>4 DEF Attempt
    <3> QED
      BY <2>3, <3>1, <3>2
  <2> QED
    BY <2>4
<1>11. CASE Joined(state)
  <2>1. PICK stopped : stopped = act.stopped \cup {act.slot}
    OBVIOUS
  <2>2. act' = [act EXCEPT !.pc = pc, !.stopped = stopped]
    BY <1>5, <1>11, <2>1
  <2>3. /\ act'.pc = pc /\ act'.started = act.started /\ act'.id = None /\ act'.slot = act.slot
        /\ act'.changes = act.changes /\ act'.todo = act.todo
    BY <1>0, <1>2, <2>2 DEF Workers
  <2>4. endpoints'[act'.slot] = None
    BY <1>0, <1>2, <1>5, <1>11, <2>3 DEF HandleTypes
  <2>5. act.started # {} => act.pc = "replace"
    BY <1>0, <1>2 DEF Working
  <2>6. pc \in {"slots", "start"} => act.pc = "replace" /\ act.slot \notin act.todo
    BY <1>0, <1>2, <1>4 DEF Attempt
  <2>7. Replaced' \subseteq Replaced \cup {act.slot}
    BY <1>2, <2>3 DEF Replaced
  <2>8. pc \in {"slots", "start"} =>
           \A i \in Ids : Executing(i)' /\ inst[i].slot \in Replaced' => inst[i].slot \in Replaced
    BY <1>10, <2>6, <2>7
  <2>9. /\ removed' = removed /\ vault' = vault /\ (Leaving' => Leaving)
        /\ act'.pc # "replace"
    BY <1>1, <1>9, <2>3
  <2>10. /\ act'.started # {} => /\ act'.changes = act.changes /\ act'.todo = act.todo /\ act'.slot = act.slot
                                 /\ act'.pc = "replace" => act.pc = "replace"
                                 /\ act'.pc = "start" => act.pc \in {"replace", "start"}
         /\ act'.pc \in {"replace", "start"} => act'.slot \notin act'.todo
    BY <2>3, <2>5, <2>6, <2>9
  <2>11. act'.pc \in {"slots", "replace", "start"} =>
              \A i \in Ids : Executing(i)' /\ inst[i].slot \in Replaced' =>
                 /\ act.pc \in {"slots", "replace", "start", "await"}
                 /\ act'.changes = act.changes /\ inst[i].slot \in Replaced
    BY <2>3, <2>6, <2>8, <2>9
  <2> QED
    BY <1>2, <1>6, <1>7, <1>8, <2>3, <2>4, <2>9, <2>10, <2>11, FadingRuns
<1>12. CASE ~Joined(state)
  <2>1. /\ act'.pc \in {"idle", "cleanup", "undo"} /\ act'.started = act.started /\ act'.id = None
        /\ act.started # {} => act'.changes = act.changes /\ act'.todo = act.todo /\ act'.slot = act.slot
    BY <1>0, <1>2, <1>5, <1>12 DEF Workers, Idle, Working
  <2>2. removed' = removed /\ vault' = vault /\ (Leaving' => Leaving)
    BY <1>1, <1>9
  <2> QED
    BY <1>0, <1>2, <1>6, <1>7, <1>8, <2>1, <2>2, FadingRuns
<1> QED
  BY <1>11, <1>12

\* The worker gives something up: a new instance that failed, what the attempt
\* started, the attempt itself, or a launch that is refused.
LEMMA GivesUp ==
    ASSUME Kernel, \A s \in Slots : Committed(s)' = Committed(s),
           UNCHANGED <<endpoints, vault, removal, removed>>, Fading,
           \A i \in Ids : Alive(i)' => i \in registry',
           act'.permit => act.permit,
           act'.started \subseteq act.started, act'.id = None,
           \A i \in Ids : Live(i)' /\ (i \in act.started \/ i = act.id) => i \in act'.started,
           act'.started # {} => act'.changes = act.changes /\ act'.todo = act.todo /\ act'.slot = act.slot,
           act'.pc \notin {"slots", "replace", "start", "launch", "spawn"}
    PROVE  RuntimeInv'
<1>1. Handles
  BY KernelIs
<1>2. /\ act'.permit => vault' /\ ~Leaving'
      /\ removed' = removed /\ vault' = vault /\ (Leaving' => Leaving)
  BY <1>1 DEF Handles, Leaving
<1> QED
  BY <1>2, FadingRuns

LEMMA FailureRuns ==
    ASSUME Kernel, \A s \in Slots : Committed(s)' = Committed(s),
           TargetFails \/ LoadFails \/ UndoStarted \/ RestorePointers
    PROVE  RuntimeInv'
<1>0. /\ Handles /\ Attempt /\ Current /\ Working /\ HandleTypes
      /\ act \in Workers /\ act' \in Workers
      /\ act.id # None <=> act.pc \in {"await", "loading", "publish"}
  BY KernelIs
<1>1. UNCHANGED <<endpoints, vault, removal, removed>>
  BY DEF TargetFails, LoadFails, UndoStarted, RestorePointers, background
<1>2. CASE TargetFails \/ LoadFails
  <2>1. act.pc \in {"await", "loading"}
    BY <1>2 DEF TargetFails, LoadFails
  <2>2. PICK j \in Ids : j = act.id /\ j # None /\ inst[j] # None
    BY <1>0, <2>1 DEF Workers, Attempt
  <2>3. PICK state \in JoinStates(j) :
           /\ registry' = IF Joined(state) THEN registry \ {j} ELSE registry
           /\ inst' = Kept([inst EXCEPT ![j].state = state])
           /\ \/ \E pc \in {"undo", "cleanup"} : act' = [act EXCEPT !.id = None, !.pc = pc]
              \/ act.pc = "loading" /\ act' = Idle
    <3>1. CASE TargetFails
      BY <2>2, <3>1 DEF TargetFails
    <3>2. CASE LoadFails
      BY <2>2, <3>2 DEF LoadFails
    <3> QED
      BY <1>2, <3>1, <3>2
  <2>4. Fading /\ ~Live(j)' /\ \A i \in Ids : Alive(i)' => i \in registry'
    BY <1>0, <2>2, <2>3, JoinRuns
  <2>5. act.pc = "loading" => act.started = {}
    BY <1>0 DEF Working
  <2>6. /\ act'.pc \in {"undo", "cleanup", "idle"} /\ act'.started = act.started /\ act'.id = None
        /\ act'.permit => act.permit
        /\ act.started # {} => act'.changes = act.changes /\ act'.todo = act.todo /\ act'.slot = act.slot
    <3>1. CASE \E pc \in {"undo", "cleanup"} : act' = [act EXCEPT !.id = None, !.pc = pc]
      BY <1>0, <3>1 DEF Workers
    <3>2. CASE act.pc = "loading" /\ act' = Idle
      BY <2>5, <3>2 DEF Idle
    <3> QED
      BY <2>3, <3>1, <3>2
  <2> QED
    BY <1>1, <2>2, <2>4, <2>6, GivesUp
<1>3. CASE UndoStarted
  <2>1. act.pc \in {"undo", "cleanup"} /\ act.id = None
    BY <1>0, <1>3 DEF UndoStarted
  <2>2. CASE act.started = {}
    <3>1. /\ act' = Idle \/ act' = [act EXCEPT !.pc = "unpoint"]
          /\ UNCHANGED registry /\ inst' = Kept(inst)
      BY <1>3, <2>2 DEF UndoStarted
    <3>2. Fading
      BY <1>0, <3>1, DropFades
    <3>3. \A i \in Ids : Alive(i)' => i \in registry'
      BY <1>0, <3>1, <3>2, FadingIs DEF Handles
    <3>4. /\ act'.pc \in {"idle", "unpoint"} /\ act'.started = {} /\ act'.id = None
          /\ act'.permit => act.permit
      BY <1>0, <2>1, <2>2, <3>1 DEF Workers, Idle
    <3> QED
      BY <1>1, <2>1, <2>2, <3>2, <3>3, <3>4, NoneIsAbsent, GivesUp
  <2>3. CASE act.started # {}
    <3>1. PICK j \in act.started : \E state \in JoinStates(j) :
              /\ registry' = IF Joined(state) THEN registry \ {j} ELSE registry
              /\ act' = [act EXCEPT !.started = @ \ {j}, !.required = @ \ {j},
                                    !.pc = IF Joined(state) THEN @ ELSE "cleanup"]
              /\ inst' = Kept([inst EXCEPT ![j].state = state])
      BY <1>3, <2>3 DEF UndoStarted
    <3>2. PICK state \in JoinStates(j), pc \in {"undo", "cleanup"} :
              /\ registry' = IF Joined(state) THEN registry \ {j} ELSE registry
              /\ act' = [act EXCEPT !.started = @ \ {j}, !.required = @ \ {j}, !.pc = pc]
              /\ inst' = Kept([inst EXCEPT ![j].state = state])
      BY <2>1, <3>1
    <3>3. j \in Ids /\ inst[j] # None
      BY <1>0 DEF Workers, Attempt
    <3>4. Fading /\ ~Live(j)' /\ \A i \in Ids : Alive(i)' => i \in registry'
      BY <1>0, <3>2, <3>3, JoinRuns
    <3>5. /\ act'.pc = pc /\ act'.started = act.started \ {j} /\ act'.id = None /\ act'.permit = act.permit
          /\ act'.changes = act.changes /\ act'.todo = act.todo /\ act'.slot = act.slot
      BY <1>0, <2>1, <3>2 DEF Workers
    <3> QED
      BY <1>1, <2>1, <3>4, <3>5, NoneIsAbsent, GivesUp
  <2> QED
    BY <2>2, <2>3
<1>4. CASE RestorePointers
  <2>1. act.pc = "unpoint" /\ act.started = {} /\ act.id = None
    BY <1>0, <1>4 DEF RestorePointers, Working
  <2>2. /\ act' = Idle \/ act' = [Idle EXCEPT !.pc = "restore", !.todo = act.stopped]
        /\ UNCHANGED registry /\ inst' = Kept(inst)
    BY <1>4 DEF RestorePointers
  <2>3. Fading
    BY <1>0, <2>2, DropFades
  <2>4. \A i \in Ids : Alive(i)' => i \in registry'
    BY <1>0, <2>2, <2>3, FadingIs DEF Handles
  <2>5. /\ act'.pc \in {"idle", "restore"} /\ act'.started = {} /\ act'.id = None /\ act'.permit = FALSE
    <3>1. CASE act' = Idle
      BY <3>1 DEF Idle
    <3>2. CASE act' = [Idle EXCEPT !.pc = "restore", !.todo = act.stopped]
      BY <3>2 DEF Idle
    <3> QED
      BY <2>2, <3>1, <3>2
  <2> QED
    BY <1>1, <2>1, <2>3, <2>4, <2>5, NoneIsAbsent, GivesUp
<1> QED
  BY <1>2, <1>3, <1>4

LEMMA LaunchRuns ==
    ASSUME Kernel, \A s \in Slots : Committed(s)' = Committed(s), StartTarget \/ LaunchCommitted
    PROVE  RuntimeInv'
<1>0. /\ Handles /\ Attempt /\ Current /\ Working /\ HandleTypes
      /\ act \in Workers /\ act' \in Workers
      /\ act.id # None <=> act.pc \in {"await", "loading", "publish"}
  BY KernelIs
<1>1. UNCHANGED <<endpoints, vault, removal, removed>>
  BY DEF StartTarget, LaunchCommitted, background
<1>2. CASE StartTarget
  <2>1. act.pc = "start" /\ act.id = None /\ act.op \in Ops
    BY <1>0, <1>2 DEF StartTarget, Working, Installing, Attempting
  <2>2. CASE act.permit /\ ~Occupied(act.slot)
    <3>1. PICK op \in Ops : op = act.op
      BY <2>1
    <3>2. Started(act.slot, Target, op, TRUE, "await")
      BY <1>2, <2>2, <3>1 DEF StartTarget
    <3>3. op \in Ops \cup {None}
      OBVIOUS
    <3> QED
      BY <1>1, <2>1, <2>2, <3>2, <3>3, StartedRuns
  <2>3. CASE ~(act.permit /\ ~Occupied(act.slot))
    <3>1. registry' = Reaped /\ inst' = Kept(inst) /\ \E pc \in {"cleanup", "undo"} : act' = [act EXCEPT !.pc = pc]
      BY <1>2, <2>3 DEF StartTarget
    <3>2. Fading /\ \A i \in Ids : Alive(i)' => i \in registry'
      BY <1>0, <3>1, ReapRuns
    <3>3. /\ act'.pc \in {"cleanup", "undo"} /\ act'.started = act.started /\ act'.id = None
          /\ act'.permit = act.permit
          /\ act'.changes = act.changes /\ act'.todo = act.todo /\ act'.slot = act.slot
      BY <1>0, <2>1, <3>1 DEF Workers
    <3> QED
      BY <1>1, <2>1, <3>2, <3>3, NoneIsAbsent, GivesUp
  <2> QED
    BY <2>2, <2>3
<1>3. CASE LaunchCommitted
  <2>1. act.pc = "spawn" /\ act.id = None /\ act.started = {}
    BY <1>0, <1>3 DEF LaunchCommitted, Working
  <2>2. CASE act.permit /\ ~Occupied(act.slot)
    <3>1. Started(act.slot, Target, None, TRUE, "loading")
      BY <1>3, <2>2 DEF LaunchCommitted
    <3> QED
      BY <1>1, <2>1, <2>2, <3>1, StartedRuns
  <2>3. CASE ~(act.permit /\ ~Occupied(act.slot))
    <3>1. registry' = Reaped /\ inst' = Kept(inst) /\ act' = Idle
      BY <1>3, <2>3 DEF LaunchCommitted
    <3>2. Fading /\ \A i \in Ids : Alive(i)' => i \in registry'
      BY <1>0, <3>1, ReapRuns
    <3>3. act'.pc = "idle" /\ act'.started = {} /\ act'.id = None /\ act'.permit = FALSE
      BY <3>1 DEF Idle
    <3> QED
      BY <1>1, <2>1, <3>2, <3>3, NoneIsAbsent, GivesUp
  <2> QED
    BY <2>2, <2>3
<1> QED
  BY <1>2, <1>3

LEMMA PublishRuns ==
    ASSUME Kernel, \A s \in Slots : Committed(s)' = Committed(s), PublishLoaded
    PROVE  RuntimeInv'
<1>0. /\ Handles /\ Attempt /\ Current /\ Working /\ HandleTypes
      /\ act \in Workers /\ act' \in Workers
  BY KernelIs
<1>1. /\ UNCHANGED <<registry, vault, removal, removed>> /\ inst' = Kept(inst)
      /\ act.pc = "publish" /\ act.started = {} /\ act.slot \in Slots
  BY <1>0 DEF PublishLoaded, background, Working
<1>2. PICK j \in Ids, s \in Slots :
         /\ j = act.id /\ s = act.slot /\ j # None
         /\ inst[j] # None /\ inst[j].slot = s /\ endpoints[s] = None
         /\ endpoints' = [endpoints EXCEPT ![s] = j]
  BY <1>0, <1>1, NoneIsAbsent DEF Working, Workers, Attempt, PublishLoaded
<1>3. /\ act'.pc \in {"idle", "restore"} /\ act'.started = {} /\ act'.id = None /\ act'.permit = FALSE
  <2>1. act' = Idle \/ act' = [Idle EXCEPT !.pc = "restore", !.todo = act.todo]
    BY DEF PublishLoaded
  <2>2. CASE act' = Idle
    BY <2>2 DEF Idle
  <2>3. CASE act' = [Idle EXCEPT !.pc = "restore", !.todo = act.todo]
    BY <2>3 DEF Idle
  <2> QED
    BY <2>1, <2>2, <2>3
<1>4. Fading
  BY <1>0, <1>1, DropFades
<1>5. endpoints'[s] = j /\ \A t \in Slots : t # s => endpoints'[t] = endpoints[t]
  BY <1>0, <1>2 DEF HandleTypes
<1>6. Handles'
  <2>1. \A i \in Ids : Alive(i)' => i \in registry'
    BY <1>0, <1>1, <1>4, FadingIs DEF Handles
  <2>2. \A t \in Slots : endpoints'[t] # None =>
              /\ endpoints'[t] \in Ids /\ inst[endpoints'[t]] # None /\ inst[endpoints'[t]].slot = t
    BY <1>0, <1>2, <1>5 DEF Handles, HandleTypes
  <2>3. \A t \in Slots : \A i \in Ids : endpoints[t] = i /\ Live(i)' => endpoints'[t] = i
    BY <1>2, <1>5, NoneIsAbsent
  <2>4. \A i \in Ids : i = act.id => endpoints'[inst[i].slot] = i
    BY <1>2, <1>5
  <2>5. \A i \in Ids : i = act.id /\ Live(i)' => Executing(i)
    <3>1. ASSUME NEW i \in Ids, i = act.id, Live(i)'
          PROVE  Executing(i)
      <4>1. Live(i)
        BY <1>4, <3>1, FadingIs
      <4>2. inst[i].state # "starting"
        BY <1>0, <1>1, <4>1 DEF Handles, Live
      <4> QED
        BY <4>1, <4>2 DEF Live, Executing
    <3> QED
      BY <3>1
  <2>6. vault' = vault /\ (Leaving' => Leaving)
    BY <1>1 DEF Leaving
  <2> QED
    BY <1>0, <1>1, <1>3, <1>4, <2>1, <2>2, <2>3, <2>4, <2>5, <2>6, HandlesFade
<1>7. Attempt'
  BY <1>3, AttemptOver
<1>8. Current'
  BY <1>0, <1>1, <1>3, <1>4, CurrentFade
<1> QED
  BY <1>6, <1>7, <1>8 DEF RuntimeInv

\* The group is committed: its instances are published, and the slots use them.
LEMMA CommitRuns ==
    ASSUME Kernel, CommitGroup
    PROVE  RuntimeInv'
<1>0. /\ Handles /\ Attempt /\ Current /\ Working /\ HandleTypes /\ HandleTypes' /\ Durable
      /\ act \in Workers /\ act' \in Workers
      /\ act.id # None <=> act.pc \in {"await", "loading", "publish"}
  BY KernelIs
<1>1. /\ UNCHANGED <<registry, vault, removal, removed>> /\ inst' = Kept(inst) /\ act' = Idle
      /\ act.pc = "slots" /\ act.todo = {} /\ act.id = None
  BY <1>0 DEF CommitGroup, background
<1>2. PICK op \in Ops, cs \in Changes : op = act.op /\ cs = act.changes /\ txns[op].changes = cs /\ txns[op] # None
  BY <1>0, <1>1 DEF Working, Installing, Attempting, IsGroup
<1>3. Targets(op) /\ Unfinished(op) /\ ClosesGroups({op}, TRUE)
  BY <1>0, <1>2, FinishersClose DEF CommitGroup
<1>4. \A s \in Slots : Committed(s)' = IF PendingOp(s) = op THEN Pkg(s) ELSE Committed(s)
  BY <1>0, <1>3, CloseMoves DEF ClosesGroups
<1>5. Fading
  BY <1>0, <1>1, DropFades
<1>6. act'.pc = "idle" /\ act'.started = {} /\ act'.id = None /\ act'.permit = FALSE
  BY <1>1 DEF Idle
<1>7. \A i \in act.started : i \in Ids /\ inst[i] # None /\ inst[i].slot \in DOMAIN cs /\ endpoints[inst[i].slot] = None
  BY <1>0, <1>2 DEF Workers, Attempt
<1>8. ASSUME NEW s \in Slots
      PROVE  \/ endpoints'[s] \in act.started /\ inst[endpoints'[s]].slot = s
             \/ endpoints'[s] = endpoints[s] /\ \A i \in act.started : inst[i].slot # s
  <2>1. CASE \E i \in act.started : inst[i].slot = s
    <3> DEFINE e == CHOOSE i \in act.started : inst[i].slot = s
    <3>1. e \in act.started /\ inst[e].slot = s
      BY <2>1
    <3>2. endpoints'[s] = e
      BY <2>1 DEF CommitGroup
    <3> HIDE DEF e
    <3> QED
      BY <3>1, <3>2
  <2>2. CASE ~\E i \in act.started : inst[i].slot = s
    BY <2>2 DEF CommitGroup
  <2> QED
    BY <2>1, <2>2
<1>9. Handles'
  <2>1. \A i \in Ids : Alive(i)' => i \in registry'
    BY <1>0, <1>1, <1>5, FadingIs DEF Handles
  <2>2. \A s \in Slots : endpoints'[s] # None =>
              /\ endpoints'[s] \in Ids /\ inst[endpoints'[s]] # None /\ inst[endpoints'[s]].slot = s
    BY <1>0, <1>7, <1>8 DEF Handles, HandleTypes
  <2>3. ASSUME NEW s \in Slots, NEW i \in Ids, endpoints[s] = i
        PROVE  endpoints'[s] = i
    <3>1. i # None
      BY NoneIsAbsent
    <3>2. \A k \in act.started : inst[k].slot # s
      BY <1>7, <2>3, <3>1
    <3> QED
      BY <1>8, <2>3, <3>2
  <2>4. ASSUME NEW i \in Ids, i \in act.started
        PROVE  endpoints'[inst[i].slot] = i
    <3>1. inst[i].slot \in Slots
      BY <1>0, <1>7, <2>4, InstanceIs
    <3>2. endpoints'[inst[i].slot] \in act.started /\ inst[endpoints'[inst[i].slot]].slot = inst[i].slot
      BY <1>8, <2>4, <3>1
    <3> QED
      BY <1>0, <2>4, <3>2 DEF Attempt
  <2>5. \A i \in Ids : i # act.id
    BY <1>1, NoneIsAbsent
  <2>6. vault' = vault /\ (Leaving' => Leaving)
    BY <1>1 DEF Leaving
  <2> QED
    BY <1>0, <1>5, <1>6, <2>1, <2>2, <2>3, <2>4, <2>5, <2>6, HandlesFade
<1>10. Attempt'
  BY <1>6, AttemptOver
<1>11. Current'
  <2>1. ASSUME ~removed', NEW i \in Ids, Executing(i)'
        PROVE  inst'[i].pkg = Committed(inst[i].slot)'
    <3>1. Executing(i) /\ inst[i] # None /\ inst'[i].slot = inst[i].slot /\ inst'[i].pkg = inst[i].pkg
      BY <1>5, <2>1, FadingIs DEF Executing
    <3>2. PICK s \in Slots : s = inst[i].slot
      BY <1>0, <3>1, InstanceIs
    <3>3. Committed(inst[i].slot)' = Committed(s)'
      BY <3>1, <3>2
    <3>4. CASE s \in DOMAIN cs
      <4>1. active[s] = [pkg |-> cs[s].to, pending |-> op]
        BY <1>2, <1>3, <3>4 DEF Targets
      <4>2. active[s] # None
        BY <3>4, <4>1, ChangesAre, NoneIsAbsent DEF Pointers
      <4>3. Committed(s)' = cs[s].to
        BY <1>4, <4>1, <4>2 DEF PendingOp, Pkg
      <4>4. s \in Replaced
        BY <1>1, <1>2, <3>4 DEF Replaced
      <4>5. inst[i].pkg = cs[s].to
        BY <1>0, <1>1, <1>2, <3>1, <3>2, <4>4 DEF Current
      <4> QED
        BY <3>1, <3>3, <4>3, <4>5
    <3>5. CASE s \notin DOMAIN cs
      <4>1. PendingOp(s) # op
        BY <1>0, <1>2, <3>5, NoneIsAbsent, PendingIs DEF Durable, PendingOp
      <4>2. i \notin act.started
        BY <1>7, <3>2, <3>5
      <4>3. inst[i].pkg = Committed(s)
        BY <1>0, <1>1, <2>1, <3>1, <3>2, <4>2, NoneIsAbsent DEF Current
      <4> QED
        BY <1>4, <3>1, <3>3, <4>1, <4>3
    <3> QED
      BY <3>4, <3>5
  <2> QED
    BY <1>6, <2>1 DEF Current
<1> QED
  BY <1>9, <1>10, <1>11 DEF RuntimeInv

\* Everything else: instances are disabled or all stopped, the vault changes, a
\* pointer is removed.
LEMMA OthersRun ==
    ASSUME Kernel, Others
    PROVE  RuntimeInv'
<1>0. /\ Handles /\ Attempt /\ Current /\ Working /\ HandleTypes
      /\ act \in Workers /\ act' \in Workers
  BY KernelIs
<1>a. ASSUME NEW i \in Ids, ResumeInstance(i) \/ EndInstance(i)
      PROVE  \A s \in Slots : Committed(s)' = Committed(s)
  BY <1>a DEF ResumeInstance, EndInstance, durable, Committed, PendingOp, Pkg
<1>2. ASSUME NEW i \in Ids, ResumeInstance(i) \/ EndInstance(i)
      PROVE  RuntimeInv'
  BY <1>2, <1>a, InstanceRuns
\* What FadingRuns asks of a worker that stays where it is.
<1>3. ASSUME Fading, act' = act \/ act' = [act EXCEPT !.permit = FALSE],
             removed' \/ (removed' = removed /\ \A s \in Slots : Committed(s)' = Committed(s)),
             (vault' = vault /\ (Leaving' => Leaving)) \/ \A i \in Ids : ~Alive(i)',
             act'.permit => vault' /\ ~Leaving',
             \A i \in Ids : Alive(i)' => i \in registry',
             \A s \in Slots : endpoints'[s] # None => endpoints'[s] = endpoints[s],
             \A s \in Slots : \A i \in Ids : endpoints[s] = i /\ Live(i)' => endpoints'[s] = i
      PROVE  RuntimeInv'
  <2>1. /\ act'.pc = act.pc /\ act'.started = act.started /\ act'.id = act.id /\ act'.slot = act.slot
        /\ act'.changes = act.changes /\ act'.todo = act.todo
    BY <1>0, <1>3 DEF Workers
  <2>2. act'.pc \in {"start", "launch", "spawn"} => endpoints'[act'.slot] = None
    BY <1>0, <1>3, <2>1 DEF Working, Attempt
  <2>3. act'.pc \in {"replace", "start"} => act'.slot \notin act'.todo
    BY <1>0, <2>1 DEF Attempt
  <2>4. Replaced' = Replaced
    BY <2>1 DEF Replaced
  <2> QED
    BY <1>3, <2>1, <2>2, <2>3, <2>4, FadingRuns
<1>4. act.permit => vault /\ ~Leaving
  BY <1>0 DEF Handles
<1>5. ASSUME NEW t \in Slots, Disable(t)
      PROVE  RuntimeInv'
  <2>1. /\ UNCHANGED <<registry, vault, removal, removed, act, active, txns>> /\ endpoints[t] # None
        /\ endpoints' = [endpoints EXCEPT ![t] = None]
    BY <1>5 DEF Disable, durable
  <2>2. PICK j \in Ids : j = endpoints[t] /\ inst[j] # None /\ inst[j] \in Instances
    BY <1>0, <2>1 DEF Handles, HandleTypes
  <2>3. PICK state : state = IF inst[j].state \in {"starting", "ready"} THEN "stopping" ELSE inst[j].state
    OBVIOUS
  <2>4. inst' = Kept([inst EXCEPT ![j].state = state])
    BY <1>5, <2>2, <2>3 DEF Disable
  <2>5. /\ state \in {"starting", "ready", "stopping", "stopped", "failed", "dirty"}
        /\ state \notin {"starting", "ready"}
        /\ state = "stopping" => Alive(j)
    BY <2>2, <2>3 DEF Instances, Alive
  <2>6. Fading /\ (inst'[j] = None \/ inst'[j].state = state)
    BY <1>0, <2>2, <2>4, <2>5, StopFades
  <2>7. ~Live(j)'
    BY <2>5, <2>6 DEF Live
  <2>8. \A i \in Ids : Alive(i)' => i \in registry'
    BY <1>0, <2>1, <2>6, FadingIs DEF Handles
  <2>9. /\ \A s \in Slots : endpoints'[s] # None => endpoints'[s] = endpoints[s]
        /\ \A s \in Slots : \A i \in Ids : endpoints[s] = i /\ Live(i)' => endpoints'[s] = i
    BY <1>0, <2>1, <2>2, <2>7 DEF HandleTypes
  <2>10. /\ vault' = vault /\ (Leaving' <=> Leaving) /\ removed' = removed
         /\ \A s \in Slots : Committed(s)' = Committed(s)
    BY <2>1 DEF Leaving, Committed, PendingOp, Pkg
  <2> QED
    BY <1>3, <1>4, <2>1, <2>6, <2>8, <2>9, <2>10
<1>6. ASSUME StopAll, removed' = removed, \A s \in Slots : Committed(s)' = Committed(s)
      PROVE  RuntimeInv'
  <2>1. /\ \A s \in Slots : endpoints'[s] = None
        /\ act' = [act EXCEPT !.permit = FALSE]
    BY <1>6 DEF StopAll
  <2>2. act'.permit = FALSE
    BY <1>0, <2>1 DEF Workers
  <2>3. ASSUME NEW i \in Ids
        PROVE  /\ inst'[i] \in Instances \cup {None}
               /\ Fades(i) /\ ~Alive(i)' /\ ~Live(i)'
               /\ inst[i] # None /\ Referenced(i)' => inst'[i] # None
    <3> DEFINE new == [inst[i] EXCEPT !.valid = FALSE, !.state = IF Alive(i) THEN "stopped" ELSE @]
    <3>1. CASE inst[i] = None
      BY <1>6, <3>1 DEF StopAll, Kept, Fades, Alive, Live
    <3>2. CASE inst[i] # None
      <4>1. inst[i] \in Instances
        BY <1>0, <3>2 DEF Handles
      <4>2. /\ new \in Instances /\ new.slot = inst[i].slot /\ new.pkg = inst[i].pkg /\ new.op = inst[i].op
            /\ new.state \notin {"starting", "ready", "stopping"}
        BY <3>2, <4>1 DEF Instances, Alive
      <4>3. inst'[i] = IF Referenced(i)' THEN new ELSE None
        BY <1>6, <3>2 DEF StopAll, Kept
      <4> HIDE DEF new
      <4> QED
        BY <3>2, <4>2, <4>3, NoneIsAbsent DEF Fades, Alive, Live
    <3> QED
      BY <3>1, <3>2
  <2>4. inst' \in [Ids -> Instances \cup {None}]
    <3>1. DOMAIN inst' = Ids /\ inst' = [i \in Ids |-> inst'[i]]
      BY <1>6 DEF StopAll, Kept
    <3> QED
      BY <2>3, <3>1
  <2>5. Fading
    BY <2>3, <2>4 DEF Fading
  <2> QED
    BY <1>3, <1>6, <2>1, <2>2, <2>3, <2>5
<1>7. ASSUME LockCredentials \/ LeaveVault \/ \E s \in Slots : Uninstall(s)
      PROVE  RuntimeInv'
  <2>1. StopAll /\ UNCHANGED <<active, txns>> /\ removed' = removed
    BY <1>7 DEF LockCredentials, LeaveVault, Uninstall, durable
  <2>2. \A s \in Slots : Committed(s)' = Committed(s)
    BY <2>1 DEF Committed, PendingOp, Pkg
  <2> QED
    BY <1>6, <2>1, <2>2
<1>8. ASSUME ReplaceVault
      PROVE  RuntimeInv'
  <2>1. UNCHANGED <<endpoints, inst, registry, removed, act, active, txns>> /\ Leaving
    BY <1>8 DEF ReplaceVault, durable, runtime, Leaving
  <2>2. Fading
    BY <1>0, <2>1, DropFades
  <2>3. \A i \in Ids : ~Alive(i)'
    BY <1>0, <2>1, <2>2, FadingIs DEF Handles
  <2>4. ~act'.permit
    BY <1>4, <2>1
  <2>5. \A s \in Slots : Committed(s)' = Committed(s)
    BY <2>1 DEF Committed, PendingOp, Pkg
  <2> QED
    BY <1>3, <2>1, <2>2, <2>3, <2>4, <2>5
<1>9. ASSUME RemovePointer
      PROVE  RuntimeInv'
  <2>1. UNCHANGED <<endpoints, inst, registry, vault, act>> /\ removed' = TRUE /\ ~Leaving /\ ~Leaving'
    BY <1>9 DEF RemovePointer, runtime, Leaving
  <2>2. Fading
    BY <1>0, <2>1, DropFades
  <2>3. \A i \in Ids : Alive(i)' => i \in registry'
    BY <1>0, <2>1, <2>2, FadingIs DEF Handles
  <2> QED
    BY <1>3, <1>4, <2>1, <2>2, <2>3
<1>10. ASSUME Restart
       PROVE  RuntimeInv'
  <2>1. /\ endpoints' = [s \in Slots |-> None] /\ inst' = [i \in Ids |-> None] /\ act' = Idle
    BY <1>10 DEF Restart
  <2>2. act'.pc = "idle" /\ act'.started = {} /\ act'.id = None /\ act'.permit = FALSE
    BY <2>1 DEF Idle
  <2>3. \A i \in Ids : inst'[i] = None /\ ~Alive(i)' /\ ~Live(i)' /\ ~Executing(i)'
    BY <2>1 DEF Alive, Live, Executing
  <2>4. Handles'
    BY <2>1, <2>2, <2>3 DEF Handles
  <2>5. Attempt'
    BY <2>2, AttemptOver
  <2>6. Current'
    BY <2>2, <2>3 DEF Current
  <2> QED
    BY <2>4, <2>5, <2>6 DEF RuntimeInv
<1> QED
  BY <1>2, <1>5, <1>7, <1>8, <1>9, <1>10 DEF Others

LEMMA RuntimeStep ==
    ASSUME StoreInv, StoreInv', RuntimeInv, [Next]_vars
    PROVE  RuntimeInv'
<1>0. Kernel
  BY DEF Kernel
<1>1. CASE Store
  BY <1>1, StoreRuns
<1>2. CASE Activation
  <2>1. CASE CommitGroup
    BY <1>0, <2>1, CommitRuns
  <2>2. CASE ~CommitGroup
    <3>1. ~RemovePointer \/ UNCHANGED <<endpoints, inst, registry, vault, act>>
      BY DEF RemovePointer, runtime
    <3>2. CASE RemovePointer
      BY <1>0, <3>2, OthersRun DEF Others
    <3>3. CASE ~RemovePointer
      <4>1. \A s \in Slots : Committed(s)' = Committed(s)
        BY <1>2, <2>2, <3>3, CommittedKept
      <4> QED
        BY <1>0, <1>2, <2>2, <4>1, WorkerRuns, ReadyRuns, StopRuns, FailureRuns, LaunchRuns, PublishRuns
           DEF Activation
    <3> QED
      BY <3>2, <3>3
  <2> QED
    BY <2>1, <2>2
<1>3. CASE Others
  BY <1>0, <1>3, OthersRun
<1>4. CASE UNCHANGED vars
  <2>1. \A s \in Slots : Committed(s)' = Committed(s)
    BY <1>4 DEF vars, durable, Committed, PendingOp, Pkg
  <2> QED
    BY <1>4, <2>1, NothingRuns DEF vars, runtime, background
<1> QED
  BY <1>1, <1>2, <1>3, <1>4 DEF Next

LEMMA RuntimeInit ==
    ASSUME Init
    PROVE  RuntimeInv
<1>1. act.pc = "idle" /\ act.started = {} /\ act.id = None /\ act.permit = FALSE
  BY DEF Init, Idle
<1>2. \A i \in Ids : inst[i] = None /\ ~Alive(i) /\ ~Live(i) /\ ~Executing(i)
  BY DEF Init, Alive, Live, Executing
<1>3. Handles
  BY <1>1, <1>2 DEF Init, Handles
<1>4. Attempt /\ Current
  BY <1>1, <1>2 DEF Attempt, Current
<1> QED
  BY <1>3, <1>4 DEF RuntimeInv

\* The instances, the registry, the endpoints and what the worker started stay
\* consistent with the pointers through every stop, failure, cancellation,
\* change of vault and restart (extension_activation.rs).
THEOREM InstallInvariant == Spec => []InstallInv
<1>1. Init => StoreInv /\ RuntimeInv
  BY StoreInit, RuntimeInit
<1>2. StoreInv /\ RuntimeInv /\ [Next]_vars => StoreInv' /\ RuntimeInv'
  BY StoreStep, RuntimeStep
<1>3. StoreInv /\ RuntimeInv => InstallInv
  BY DEF RuntimeInv, InstallInv
<1> QED
  BY <1>1, <1>2, <1>3, PTL DEF Spec

\* While no package is removed, a process past its last check runs the package
\* its slot points to, or the one an unfinished update is about to replace, and
\* only in the vault that is open (activate_pending, enable_committed).
THEOREM ExecutingIsInstalledHolds == Spec => []ExecutingIsInstalled
<1>1. InstallInv => ExecutingIsInstalled
  <2>1. SUFFICES ASSUME InstallInv, ~removed, NEW i \in Ids, Executing(i)
                 PROVE  vault /\ inst[i].pkg \in {Pkg(inst[i].slot), Committed(inst[i].slot)}
    BY DEF ExecutingIsInstalled
  <2>2. Rows /\ PendingMatchesGroup /\ Working /\ Handles /\ Attempt /\ Current
    BY <2>1 DEF InstallInv, StoreInv
  <2>3. inst[i] # None /\ Alive(i)
    BY <2>1, <2>2, InstanceIs DEF Executing
  <2>4. vault
    BY <2>2, <2>3 DEF Handles
  <2>5. ASSUME NEW s \in Slots, s = inst[i].slot, act.pc \in Attempting, Unfinished(act.op),
               s \in DOMAIN act.changes, inst[i].pkg = act.changes[s].to
        PROVE  inst[i].pkg = Pkg(s)
    <3>1. /\ act.op \in Ops /\ txns[act.op].changes = act.changes
          /\ Targets(act.op) /\ act.changes \in Changes
      BY <2>2, <2>5 DEF Working, Installing, PendingMatchesGroup, IsGroup
    <3>2. active[s] = [pkg |-> act.changes[s].to, pending |-> act.op]
      BY <2>5, <3>1 DEF Targets
    <3>3. active[s] # None
      BY <2>5, <3>1, <3>2, ChangesAre, NoneIsAbsent DEF Pointers
    <3> QED
      BY <2>5, <3>2, <3>3 DEF Pkg
  <2>6. inst[i].slot \in Slots
    BY <2>2, <2>3, InstanceIs
  <2>7. \/ inst[i].pkg = Committed(inst[i].slot)
        \/ i \in act.started
        \/ i = act.id /\ act.pc = "await"
    BY <2>1, <2>2 DEF Current
  <2>8. CASE i \in act.started
    <3>1. /\ act.pc \in Attempting /\ Unfinished(act.op)
          /\ inst[i].slot \in DOMAIN act.changes
          /\ inst[i].pkg = act.changes[inst[i].slot].to
      BY <2>2, <2>8 DEF Working, Attempt, Attempting
    <3> QED
      BY <2>4, <2>5, <2>6, <3>1
  <2>9. CASE i = act.id /\ act.pc = "await"
    <3>1. /\ act.pc \in Attempting /\ Unfinished(act.op)
          /\ act.slot \in DOMAIN act.changes
      BY <2>2, <2>9 DEF Working, Attempting
    <3>2. inst[i].slot = act.slot /\ inst[i].pkg = act.changes[act.slot].to
      BY <2>2, <2>3, <2>9, InstanceIs, NoneIsAbsent DEF Attempt, Target, Working
    <3> QED
      BY <2>4, <2>5, <2>6, <3>1, <3>2
  <2> QED
    BY <2>4, <2>7, <2>8, <2>9
<1> QED
  BY <1>1, InstallInvariant, PTL

-----------------------------------------------------------------------------
(* A running extension: the types of the state. *)

Epochs == Nat \cup {Nil}
Threads ==
    [pc : Phases, gen : Nat, epoch : Epochs, network : Epochs, expired : BOOLEAN,
     stop : BOOLEAN, status : {"starting", "ready", "stopping", "stopped", "failed"},
     err : {"none", "cancelled", "failed", "cleanup"}, profile : BOOLEAN, acl : BOOLEAN,
     proc : {"none", "suspended", "running", "dead"}, watch : {"none", "armed", "ended"},
     tripped : BOOLEAN]
Calls == [kind : {"initialize", "list", "call"}, ticket : Nat \cup {Nil},
             review : Nat \cup {Nil}, epoch : Nat]
Sessions == [failed : BOOLEAN, catalog : Contracts \cup {Nil}, changed : BOOLEAN, epoch : Nat,
             pending : SUBSET Nat, req : Calls \cup {Nil},
             deadline : {"none", "armed", "expired"}]
Commands == [kind : {"review", "refresh", "invoke", "over"}, review : Nat \cup {Nil},
             cancel : BOOLEAN, state : {"queued", "active", "over"}]
Frames == [kind : {"answer", "changed", "bad", "closed"}, contract : Contracts]
ReviewRows == [contract : Contracts, epoch : Nat,
            sent : Seq([contract : Contracts \cup {Nil}, epoch : Nat])]

HostTypes ==
    /\ generation \in Nat /\ signal \in Nat /\ unlocked \in Epochs /\ unlocking \in Epochs
    /\ host \in [pc : {"idle", "revoked", "joining", "joined", "signalled"},
                 kind : {"lock", "switch"}]
    /\ permit \in Epochs
    /\ registered \in BOOLEAN /\ joining \in BOOLEAN /\ leaked \in BOOLEAN
    /\ incidents \in Nat

SessionTypes ==
    /\ session \in Sessions
    /\ tickets \in Seq(Commands) /\ queue \in Seq(Nat) /\ Len(queue) <= QueuedCommands
    /\ frames \in Seq(Frames) /\ Len(frames) <= QueuedFrames
    /\ emitted \in Nat /\ contract \in Contracts
    /\ reviews \in Seq(ReviewRows)

RuntimeTypes == HostTypes /\ w \in Threads /\ SessionTypes

-----------------------------------------------------------------------------
(* How the instance moves through its phases. *)

Holding == {"lease", "bound", "build"}
Served == {"suspended", "arming", "armed", "resumed", "init", "list", "ready", "publish",
           "loop", "confirmed", "waiting"}
Early == {"new", "profile", "granted", "prepared", "leased"} \cup Holding
OnDuty == Early \cup Served

Dies(x, y) == y.proc = x.proc \/ (x.proc # "none" /\ y.proc = "dead")
KeepsGrants(x, y) == y.profile = x.profile /\ y.acl = x.acl
KeepsEpochs(x, y) == y.epoch = x.epoch /\ y.network = x.network

\* It stays where it is,
Stays(x, y) == /\ y.pc = x.pc /\ y.err = x.err
               /\ KeepsGrants(x, y) /\ KeepsEpochs(x, y) /\ Dies(x, y)
\* fails,
Fails(x, y) == /\ x.pc \in OnDuty /\ y.pc = "closing"
               /\ KeepsGrants(x, y) /\ KeepsEpochs(x, y) /\ Dies(x, y)
\* serves,
Serves(x, y) == /\ x.pc \in Served /\ y.pc \in Served /\ y.err = x.err
                /\ KeepsGrants(x, y) /\ KeepsEpochs(x, y)
                /\ Dies(x, y) \/ y.proc = "running"
\* is launched,
Launches(x, y) ==
    /\ y.err = x.err
    /\ \/ /\ x.pc = "new" /\ y.pc = "profile"
          /\ y.profile /\ y.acl = x.acl /\ KeepsEpochs(x, y) /\ y.proc = x.proc
       \/ /\ x.pc = "profile" /\ y.pc = "granted"
          /\ y.acl /\ y.profile = x.profile /\ KeepsEpochs(x, y) /\ y.proc = x.proc
       \/ /\ x.pc = "granted" /\ y.pc = "lease" /\ unlocking = Nil
          /\ KeepsGrants(x, y) /\ KeepsEpochs(x, y) /\ y.proc = x.proc
       \/ /\ x.pc = "lease" /\ y.pc = "bound" /\ y.epoch = signal
          /\ KeepsGrants(x, y) /\ y.network = x.network /\ y.proc = x.proc
       \/ /\ x.pc = "bound" /\ y.pc = "build" /\ ~Locked
          /\ KeepsGrants(x, y) /\ KeepsEpochs(x, y) /\ y.proc = x.proc
       \/ /\ x.pc = "build" /\ y.pc = "prepared"
          /\ KeepsGrants(x, y) /\ KeepsEpochs(x, y) /\ y.proc = x.proc
       \/ /\ x.pc = "prepared" /\ y.pc = "leased" /\ y.network = signal /\ ~Locked
          /\ KeepsGrants(x, y) /\ y.epoch = x.epoch /\ y.proc = x.proc
       \/ /\ x.pc = "leased" /\ y.pc = "suspended"
          /\ KeepsGrants(x, y) /\ KeepsEpochs(x, y) /\ y.proc = "suspended"
\* ends,
Ends(x, y) ==
    \/ /\ x.pc = "closing" /\ y.pc = "released" /\ y.proc \in {"none", "dead"}
       /\ KeepsGrants(x, y) /\ KeepsEpochs(x, y)
    \/ /\ x.pc = "released" /\ y.pc = "unlinked" /\ y.proc = x.proc
       /\ y.err = "cleanup" \/ ~y.acl
       /\ y.profile = x.profile /\ KeepsEpochs(x, y)
    \/ /\ x.pc = "unlinked" /\ y.pc = "done" /\ y.proc = x.proc /\ y.acl = x.acl
       /\ y.err = "cleanup" \/ (y.err = x.err /\ ~y.profile)
       /\ y.epoch = Nil /\ y.network = Nil
\* or is a new one.
Starts(y) == \E g \in Nat : y = Starting(g)

InstanceStep == \/ Stays(w, w') \/ Fails(w, w') \/ Serves(w, w') \/ Launches(w, w')
                \/ Ends(w, w') \/ Starts(w')
Steps == w' \in Threads /\ InstanceStep

-----------------------------------------------------------------------------
\* Before the first start there is no instance.
LEMMA AbsentIs == Absent \in Threads
  BY DEF Absent, Threads, Phases, Epochs

\* The instance stays typed through the fields its cleanup sets.
LEMMA InstancesAre ==
    ASSUME NEW x \in Threads, NEW q \in Phases
    PROVE  /\ \A g \in Nat : [x EXCEPT !.pc = q, !.gen = g, !.status = "starting"] \in Threads
           /\ [x EXCEPT !.pc = q, !.watch = "none"] \in Threads
           /\ [x EXCEPT !.err = "cleanup"] \in Threads
           /\ \A y \in Threads, s \in {"stopped", "failed"} :
                [x EXCEPT !.pc = q, !.profile = y.profile, !.acl = y.acl, !.err = y.err,
                          !.proc = y.proc, !.status = s] \in Threads
<1>1. ASSUME NEW g \in Nat PROVE [x EXCEPT !.pc = q, !.gen = g, !.status = "starting"] \in Threads
  BY DEF Threads
<1>2. [x EXCEPT !.pc = q, !.watch = "none"] \in Threads
  BY DEF Threads
<1>3. [x EXCEPT !.err = "cleanup"] \in Threads
  BY DEF Threads
<1>4. ASSUME NEW y \in Threads, NEW s \in {"stopped", "failed"}
      PROVE  [x EXCEPT !.pc = q, !.profile = y.profile, !.acl = y.acl, !.err = y.err,
                       !.proc = y.proc, !.status = s] \in Threads
  BY DEF Threads
<1> QED
  BY <1>1, <1>2, <1>3, <1>4

\* A failure leads to cleanup and takes nothing away that is to be released.
LEMMA FailedIs ==
    ASSUME w \in Threads, NEW e \in {"none", "cancelled", "failed", "cleanup"}
    PROVE  /\ Failed(e) \in Threads /\ Killed(Failed(e)) \in Threads
           /\ w.pc \in OnDuty => Fails(w, Failed(e)) /\ Fails(w, Killed(Failed(e)))
           /\ Failed(e).pc = "closing" /\ Killed(Failed(e)).pc = "closing"
<1>1. Failed(e) \in Threads
  BY DEF Failed, Threads, Phases
<1>2. Killed(Failed(e)) \in Threads
  BY <1>1 DEF Killed, Threads
<1>3. w.pc \in OnDuty => Fails(w, Failed(e))
  BY DEF Fails, Failed, KeepsGrants, KeepsEpochs, Dies, Threads
<1>4. w.pc \in OnDuty => Fails(w, Killed(Failed(e)))
  BY DEF Fails, Failed, Killed, KeepsGrants, KeepsEpochs, Dies, Threads
<1>5. Failed(e).pc = "closing" /\ Killed(Failed(e)).pc = "closing"
  BY DEF Failed, Killed, Threads
<1> QED
  BY <1>1, <1>2, <1>3, <1>4, <1>5

\* A process that is ended stays the same instance.
LEMMA KilledIs ==
    ASSUME w \in Threads
    PROVE  /\ Killed(w) \in Threads /\ Stays(w, Killed(w))
           /\ Killed(w).proc \in {"none", "dead"}
  BY DEF Killed, Threads, Stays, KeepsGrants, KeepsEpochs, Dies

\* The worker goes on with its session.
LEMMA GoesOn ==
    ASSUME w \in Threads, NEW q \in Served, w.pc \in Served
    PROVE  /\ [w EXCEPT !.pc = q] \in Threads /\ Serves(w, [w EXCEPT !.pc = q])
  BY DEF Threads, Serves, KeepsGrants, KeepsEpochs, Dies, Served, Phases

\* The instance is left alone.
LEMMA SameInstance ==
    ASSUME w \in Threads, w' = w
    PROVE  Steps
  BY DEF Steps, InstanceStep, Stays, KeepsGrants, KeepsEpochs, Dies

\* The host starts an instance, or asks one to stop.
LEMMA HostSteps ==
    ASSUME RuntimeAssumption, HostTypes, w \in Threads, HostActions
    PROVE  Steps
<1>1. CASE Start
  <2>1. CASE w' = w
    BY <2>1, SameInstance
  <2>2. CASE permit = generation /\ w' = Starting(permit)
    <3>1. generation \in Nat
      BY DEF HostTypes
    <3>2. Starting(generation) \in Threads
      BY <3>1, AbsentIs, InstancesAre DEF Starting, Phases
    <3> QED
      BY <2>2, <3>1, <3>2 DEF Steps, InstanceStep, Starts
  <2> QED
    BY <1>1, <2>1, <2>2 DEF Start
<1>2. CASE w' = [w EXCEPT !.stop = TRUE]
  BY <1>2 DEF Steps, InstanceStep, Stays, KeepsGrants, KeepsEpochs, Dies, Threads
<1>3. CASE w' = [w EXCEPT !.status = "stopping"]
  BY <1>3 DEF Steps, InstanceStep, Stays, KeepsGrants, KeepsEpochs, Dies, Threads
<1>4. CASE w' = [w EXCEPT !.expired = TRUE]
  BY <1>4 DEF Steps, InstanceStep, Stays, KeepsGrants, KeepsEpochs, Dies, Threads
<1>5. CASE UNCHANGED w
  BY <1>5, SameInstance
<1> QED
  BY <1>1, <1>2, <1>3, <1>4, <1>5
  DEF HostActions, Request, Submit, Cancel, Issue, StatusFollows, Stop, StopFlag, Join,
      JoinTimesOut, Revoke, StopInstances, JoinAll, Signal, LockBroker, BeginUnlock, FinishUnlock,
      Expire

\* All phases
LEMMA PhasesAre == OnDuty \cup {"none", "closing", "released", "unlinked", "done"} = Phases
  BY DEF OnDuty, Early, Served, Holding, Phases

\* A launch leaves the host and the session alone.
LEMMA LaunchFrame ==
    ASSUME LaunchActions
    PROVE  UNCHANGED <<generation, credentials, host, permit, roster, session, client, server>>
  BY DEF LaunchActions, CreateProfile, GrantAccess, TakeLease, BindCredential, Build,
      LeaseNetwork, CreateSuspended, BeforeResume, ArmWatch, ResumeThread, OpenSession,
      Step, Fault, Launch

\* launch, phase by phase
LEMMA LaunchSteps ==
    ASSUME RuntimeAssumption, HostTypes, w \in Threads, LaunchActions
    PROVE  Steps
<1>2. CASE \E e \in {"none", "failed"} : w' = Failed(e) /\ w.pc \in OnDuty
  BY <1>2, FailedIs DEF Steps, InstanceStep
<1>3. CASE CreateProfile
  <2>1. CASE w.pc = "new" /\ w' = [w EXCEPT !.pc = "profile", !.profile = TRUE]
    BY <2>1 DEF Steps, InstanceStep, Launches, KeepsEpochs, Threads, Phases
  <2> QED
    BY <1>2, <1>3, <2>1 DEF CreateProfile, Step, Fault, Launch, OnDuty, Early
<1>4. CASE GrantAccess
  <2>1. CASE w.pc = "profile" /\ w' = [w EXCEPT !.pc = "granted", !.acl = TRUE]
    BY <2>1 DEF Steps, InstanceStep, Launches, KeepsEpochs, Threads, Phases
  <2> QED
    BY <1>2, <1>4, <2>1 DEF GrantAccess, Step, Fault, Launch, OnDuty, Early
<1>5. CASE TakeLease
  <2>1. CASE w.pc = "granted" /\ w' = [w EXCEPT !.pc = "lease"] /\ unlocking = Nil
    BY <2>1 DEF Steps, InstanceStep, Launches, KeepsGrants, KeepsEpochs, Threads, Phases
  <2> QED
    BY <1>2, <1>5, <2>1 DEF TakeLease, CredentialsFree, Step, Fault, Launch, OnDuty, Early
<1>6. CASE BindCredential
  <2>1. CASE w.pc = "lease" /\ w' = [w EXCEPT !.pc = "bound", !.epoch = signal]
    BY <2>1 DEF Steps, InstanceStep, Launches, KeepsGrants, KeepsEpochs, Threads, Phases,
        HostTypes, Epochs
  <2>2. CASE w.pc = "bound" /\ w' = [w EXCEPT !.pc = "build"] /\ ~Locked
    BY <2>2 DEF Steps, InstanceStep, Launches, KeepsGrants, KeepsEpochs, Threads, Phases
  <2> QED
    BY <1>2, <1>6, <2>1, <2>2
    DEF BindCredential, Step, Fault, Launch, OnDuty, Early, Holding
<1>7. CASE Build
  <2>1. CASE w.pc = "build" /\ w' = [w EXCEPT !.pc = "prepared"]
    BY <2>1 DEF Steps, InstanceStep, Launches, KeepsGrants, KeepsEpochs, Threads, Phases
  <2> QED
    BY <1>2, <1>7, <2>1 DEF Build, Step, Fault, Launch, OnDuty, Early, Holding
<1>8. CASE LeaseNetwork
  <2>1. CASE w.pc = "prepared" /\ w' = [w EXCEPT !.pc = "leased", !.network = signal] /\ ~Locked
    BY <2>1 DEF Steps, InstanceStep, Launches, KeepsGrants, KeepsEpochs, Threads, Phases,
        HostTypes, Epochs
  <2> QED
    BY <1>2, <1>8, <2>1 DEF LeaseNetwork, Step, Fault, Launch, OnDuty, Early
<1>9. CASE CreateSuspended
  <2>1. CASE w.pc = "leased" /\ w' = [w EXCEPT !.pc = "suspended", !.proc = "suspended"]
    BY <2>1 DEF Steps, InstanceStep, Launches, KeepsGrants, KeepsEpochs, Threads, Phases
  <2> QED
    BY <1>2, <1>9, <2>1 DEF CreateSuspended, Step, Fault, Launch, OnDuty, Early
<1>10. CASE BeforeResume
  <2>1. CASE w.pc = "suspended" /\ w' = [w EXCEPT !.pc = "arming"]
    BY <2>1, GoesOn DEF Steps, InstanceStep, Served
  <2> QED
    BY <1>2, <1>10, <2>1 DEF BeforeResume, Step, Fault, Launch, OnDuty, Served
<1>11. CASE ArmWatch
  <2>1. CASE w.pc = "arming" /\ w' = [w EXCEPT !.pc = "armed", !.watch = "armed"]
    BY <2>1 DEF Steps, InstanceStep, Serves, Served, KeepsGrants, KeepsEpochs, Dies, Threads,
        Phases
  <2> QED
    BY <1>2, <1>11, <2>1 DEF ArmWatch, Step, Fault, Launch, OnDuty, Served
<1>12. CASE ResumeThread
  <2>1. CASE w.pc = "armed" /\ w' = [w EXCEPT !.pc = "resumed", !.proc = "running"]
    BY <2>1 DEF Steps, InstanceStep, Serves, Served, KeepsGrants, KeepsEpochs, Dies, Threads,
        Phases
  <2> QED
    BY <1>2, <1>12, <2>1 DEF ResumeThread, Step, Fault, Launch, OnDuty, Served
<1>13. CASE OpenSession
  <2>1. CASE w.pc = "resumed" /\ w' = [w EXCEPT !.pc = "init"]
    BY <2>1, GoesOn DEF Steps, InstanceStep, Served
  <2> QED
    BY <1>2, <1>13, <2>1 DEF OpenSession, Step, Fault, Launch, OnDuty, Served
<1> QED
  BY <1>3, <1>4, <1>5, <1>6, <1>7, <1>8, <1>9, <1>10, <1>11, <1>12, <1>13 DEF LaunchActions

\* The process ends, by itself or by the monitor.
LEMMA EnvironmentSteps ==
    ASSUME RuntimeAssumption, w \in Threads, Environment
    PROVE  Steps
<1>1. CASE w' \in {w, Killed(w)}
  BY <1>1, KilledIs, SameInstance DEF Steps, InstanceStep
<1>2. CASE w' = [Killed(w) EXCEPT !.tripped = TRUE]
  BY <1>2 DEF Killed, Steps, InstanceStep, Stays, KeepsGrants, KeepsEpochs, Dies, Threads
<1>3. CASE w' = [Killed(w) EXCEPT !.watch = "ended"]
  BY <1>3 DEF Killed, Steps, InstanceStep, Stays, KeepsGrants, KeepsEpochs, Dies, Threads
<1>4. CASE w' = [w EXCEPT !.watch = "ended"]
  BY <1>4 DEF Steps, InstanceStep, Stays, KeepsGrants, KeepsEpochs, Dies, Threads
<1> QED
  BY <1>1, <1>2, <1>3, <1>4
  DEF Environment, Emit, AnswerRequest, EndOfOutput, ServerExits, MonitorTrips, WatchFires,
      Outside, PumpedProcess

\* Cleanup, phase by phase
LEMMA CleanupSteps ==
    ASSUME RuntimeAssumption, w \in Threads, CleanupActions
    PROVE  Steps
<1>1. CASE EndProcess
  <2>1. EndedProcess \in Threads /\ [EndedProcess EXCEPT !.err = "cleanup"] \in Threads
    BY KilledIs, InstancesAre DEF EndedProcess, Phases
  <2>2. ASSUME w.pc = "closing", w' = EndedProcess
        PROVE  Ends(w, w')
    BY <2>2 DEF EndedProcess, Killed, Threads, Ends, KeepsGrants, KeepsEpochs
  <2>3. ASSUME w.pc = "closing", w' = [EndedProcess EXCEPT !.err = "cleanup"]
        PROVE  Ends(w, w')
    BY <2>3 DEF EndedProcess, Killed, Threads, Ends, KeepsGrants, KeepsEpochs
  <2> QED
    BY <1>1, <2>1, <2>2, <2>3 DEF EndProcess, Release, Steps, InstanceStep
<1>2. CASE RevokeAccess
  <2>1. CASE w' = [w EXCEPT !.pc = "unlinked", !.acl = FALSE]
    BY <1>2, <2>1 DEF RevokeAccess, Release, Steps, InstanceStep, Ends, KeepsEpochs, Threads,
        Phases
  <2>2. ASSUME NEW b \in BOOLEAN, w' = [w EXCEPT !.pc = "unlinked", !.acl = b, !.err = "cleanup"]
        PROVE  Steps
    BY <1>2, <2>2 DEF RevokeAccess, Release, Steps, InstanceStep, Ends, KeepsEpochs, Threads,
        Phases
  <2> QED
    BY <1>2, <2>1, <2>2 DEF RevokeAccess, Release
<1>3. CASE RemoveProfile
  <2>1. ASSUME NEW x \in Threads, w.pc = "unlinked", w' = Final(x), x.acl = w.acl,
               x.proc = w.proc, x.err = "cleanup" \/ (x.err = w.err /\ ~x.profile)
        PROVE  Steps
    <3>1. Final(x) \in Threads
      BY AbsentIs, InstancesAre DEF Final, Phases
    <3>2. Ends(w, Final(x))
      BY <2>1, AbsentIs DEF Final, Absent, Ends, Threads
    <3> QED
      BY <2>1, <3>1, <3>2 DEF Steps, InstanceStep
  <2>2. CASE w' = Final([w EXCEPT !.profile = FALSE])
    <3> DEFINE x == [w EXCEPT !.profile = FALSE]
    <3>1. x \in Threads /\ x.acl = w.acl /\ x.proc = w.proc /\ x.err = w.err /\ ~x.profile
      BY DEF Threads
    <3> QED
      BY <1>3, <2>1, <2>2, <3>1 DEF RemoveProfile
  <2>3. ASSUME NEW b \in BOOLEAN, w' = Final([w EXCEPT !.profile = b, !.err = "cleanup"])
        PROVE  Steps
    <3> DEFINE x == [w EXCEPT !.profile = b, !.err = "cleanup"]
    <3>1. x \in Threads /\ x.acl = w.acl /\ x.proc = w.proc /\ x.err = "cleanup"
      BY DEF Threads
    <3> QED
      BY <1>3, <2>1, <2>3, <3>1 DEF RemoveProfile
  <2> QED
    BY <1>3, <2>2, <2>3 DEF RemoveProfile, Release
<1> QED
  BY <1>1, <1>2, <1>3 DEF CleanupActions

-----------------------------------------------------------------------------
(* The credentials and the leases. *)

Secured == {"build", "prepared", "leased"} \cup Served
LeaseInv ==
    /\ unlocking # Nil => unlocked = Nil /\ w.pc \notin Holding
    /\ w.epoch \in Nat => w.epoch <= signal
    /\ w.network \in Nat => w.network <= signal
    /\ w.pc \in Secured /\ w.epoch = signal => unlocked = signal
    /\ w.network = signal => unlocked = signal

\* What becomes of the credentials while the instance stays as it is.
CredentialStep ==
    \/ UNCHANGED credentials
    \/ /\ w' = w /\ signal' = signal + 1
       /\ \/ UNCHANGED <<unlocked, unlocking>>
          \/ CredentialsFree /\ unlocked' = Nil /\ unlocking' \in {Nil, signal + 1}
    \/ /\ w' = w /\ unlocking # Nil /\ signal' = signal /\ unlocking' = Nil
       /\ unlocked' \in {Nil, signal}

\* Every action leaves the credentials alone, or changes them in one of these ways.
LEMMA CredentialSteps ==
    ASSUME InstanceNext
    PROVE  CredentialStep
<1>1. CASE HostActions
  BY <1>1
  DEF CredentialStep, credentials, HostActions, Request, Submit, Cancel, Issue, Start,
      StatusFollows, Stop, Join, JoinTimesOut, Revoke, StopInstances, JoinAll, Signal, LockBroker,
      BeginUnlock, FinishUnlock, Expire, CredentialsFree
<1>2. CASE LaunchActions
  BY <1>2, LaunchFrame DEF CredentialStep
<1>3. CASE SessionActions
  BY <1>3
  DEF CredentialStep, SessionActions, Initialize, FirstList, BecomeReady, Publish, Step, Launch,
      Turn, CallTool, GiveUp, TimesOut, Await, DeadlinePasses, Serve
<1>4. CASE CleanupActions \/ Environment
  BY <1>4
  DEF CredentialStep, CleanupActions, EndProcess, RevokeAccess, RemoveProfile, Release,
      Environment, Emit, AnswerRequest, EndOfOutput, ServerExits, MonitorTrips, WatchFires,
      Outside
<1> QED
  BY <1>1, <1>2, <1>3, <1>4 DEF InstanceNext, WorkerActions

\* A lease is bound to the signal it was issued under, which only grows.
LEMMA LeaseStep ==
    ASSUME RuntimeAssumption, HostTypes, w \in Threads, LeaseInv, Steps, CredentialStep
    PROVE  LeaseInv'
<1> USE DEF RuntimeAssumption, HostTypes, Epochs
<1>1. CASE UNCHANGED credentials
  <2>1. CASE Stays(w, w') \/ Fails(w, w') \/ Serves(w, w')
    BY <1>1, <2>1 DEF LeaseInv, Stays, Fails, Serves, KeepsEpochs, credentials, Secured, Served,
        Holding
  <2>2. CASE Launches(w, w')
    BY <1>1, <2>2 DEF LeaseInv, Launches, KeepsEpochs, credentials, Secured, Served, Holding,
        Locked
  <2>3. CASE Ends(w, w')
    BY <1>1, <2>3 DEF LeaseInv, Ends, KeepsEpochs, credentials, Secured, Served, Holding
  <2>4. CASE Starts(w')
    BY <1>1, <2>4 DEF LeaseInv, Starts, Starting, Absent, credentials, Secured, Served, Holding
  <2> QED
    BY <2>1, <2>2, <2>3, <2>4 DEF Steps, InstanceStep
<1>2. CASE /\ w' = w /\ signal' = signal + 1
           /\ UNCHANGED <<unlocked, unlocking>>
  BY <1>2 DEF LeaseInv, Threads
<1>3. CASE /\ w' = w /\ signal' = signal + 1
           /\ CredentialsFree /\ unlocked' = Nil /\ unlocking' \in {Nil, signal + 1}
  BY <1>3 DEF LeaseInv, Threads, CredentialsFree, Holding
<1>4. CASE /\ w' = w /\ unlocking # Nil /\ signal' = signal /\ unlocking' = Nil
           /\ unlocked' \in {Nil, signal}
  BY <1>4 DEF LeaseInv
<1> QED
  BY <1>1, <1>2, <1>3, <1>4 DEF CredentialStep

\* What the invariant says of the leases is enough.
LEMMA LeasesHold ==
    ASSUME RuntimeAssumption, HostTypes, w \in Threads, LeaseInv
    PROVE  LeasesMeanUnlocked
  BY DEF RuntimeAssumption, HostTypes, LeaseInv, LeasesMeanUnlocked, Prepared, Valid,
      NetworkValid, Locked, Secured, Served, Threads, Phases, Epochs

-----------------------------------------------------------------------------
(* What the instance holds. *)

LiveProcesses == {"suspended", "running"}
ReleaseInv ==
    /\ w.pc \in {"none", "new"} => ~w.profile /\ ~w.acl
    /\ w.pc \in {"none", "new", "profile", "granted", "prepared", "leased"} \cup Holding =>
          w.proc = "none"
    /\ w.pc \in OnDuty \ {"new"} => w.profile
    /\ w.pc = "profile" => ~w.acl
    /\ w.pc \in OnDuty \ {"new", "profile"} => w.acl
    /\ w.proc \in LiveProcesses => w.acl
    /\ w.pc \in {"closing", "released"} /\ w.acl => w.profile
    /\ w.pc \in {"released", "unlinked", "done"} => w.proc \notin LiveProcesses
    /\ w.pc \in {"unlinked", "done"} /\ w.err # "cleanup" => ~w.acl
    /\ w.pc = "done" /\ w.err # "cleanup" => ~w.profile

\* What was granted is released in the order of the phases.
LEMMA ReleaseStep ==
    ASSUME w \in Threads, ReleaseInv, Steps
    PROVE  ReleaseInv'
<1> USE DEF ReleaseInv, OnDuty, Early, Served, Holding, LiveProcesses
<1>1. CASE Stays(w, w')
  BY <1>1 DEF Stays, KeepsGrants, Dies
<1>2. CASE Fails(w, w')
  BY <1>2 DEF Fails, KeepsGrants, Dies
<1>3. CASE Serves(w, w')
  BY <1>3 DEF Serves, KeepsGrants, Dies
<1>4. CASE Launches(w, w')
  BY <1>4 DEF Launches, KeepsGrants, KeepsEpochs
<1>5. CASE Ends(w, w')
  BY <1>5 DEF Ends, KeepsGrants
<1>6. CASE Starts(w')
  BY <1>6 DEF Starts, Starting, Absent
<1> QED
  BY <1>1, <1>2, <1>3, <1>4, <1>5, <1>6 DEF Steps, InstanceStep

\* What the invariant says of the release is enough.
LEMMA ReleasesHold ==
    ASSUME w \in Threads, ReleaseInv
    PROVE  ReleasedInOrder
  BY DEF ReleaseInv, ReleasedInOrder, CleanupFailed, Finished, OnDuty, Early, Served, Holding,
      LiveProcesses, Threads, Phases

-----------------------------------------------------------------------------
(* The session and the reviews. *)

\* A function on 1..n is a sequence.
LEMMA FunctionsAreSeqs ==
    ASSUME NEW S, NEW n \in Nat, NEW f \in [1..n -> S]
    PROVE  f \in Seq(S)
  BY SeqDef

\* How a session may lose reviews that wait to be confirmed.
Narrows(s, x) == /\ x.pending \subseteq s.pending
                 /\ x.pending # {} => x.epoch = s.epoch
Narrower(s) == {x \in Sessions : Narrows(s, x)}
Closed(s) == [s EXCEPT !.req = Nil, !.deadline = "none"]

\* Narrowing a session twice is narrowing it.
LEMMA NarrowerIs ==
    ASSUME NEW s \in Sessions
    PROVE  /\ s \in Narrower(s)
           /\ \A x \in Narrower(s) : Narrower(x) \subseteq Narrower(s)
  BY DEF Narrower, Narrows, Sessions

\* Each of these only narrows the session.
LEMMA SessionOperations ==
    ASSUME NEW s \in Sessions
    PROVE  /\ Invalidated(s) \in Narrower(s) /\ Aborted(s) \in Narrower(s)
           /\ CatalogChanged(s) \in Narrower(s) /\ Relisted(s) \in Narrower(s)
           /\ Published(s) \in Narrower(s) /\ Closed(s) \in Narrower(s)
           /\ [s EXCEPT !.deadline = "expired"] \in Narrower(s)
           /\ \A c \in Contracts : [s EXCEPT !.catalog = c, !.req = Nil, !.deadline = "none"]
                                      \in Narrower(s)
           /\ \A r : Confirmed(s, r) \in Narrower(s)
           /\ \A k \in {"initialize", "list", "call"}, t, r \in Nat \cup {Nil} :
                Sent(s, k, t, r) \in Narrower(s)
<1>2. Invalidated(s) \in Sessions /\ Invalidated(s).pending = {}
  <2>1. s.epoch + 1 \in Nat /\ {} \in SUBSET Nat
    BY DEF Sessions
  <2>2. \A e \in Nat, p \in SUBSET Nat : /\ [s EXCEPT !.pending = p, !.epoch = e] \in Sessions
                                         /\ [s EXCEPT !.pending = p, !.epoch = e].pending = p
    BY DEF Sessions
  <2> QED
    BY <2>1, <2>2 DEF Invalidated
<1>1. Invalidated(s) \in Narrower(s)
  BY <1>2 DEF Narrower, Narrows
<1>3. Aborted(s) \in Narrower(s)
  BY <1>2 DEF Aborted, Narrower, Narrows, Sessions
<1>4. CatalogChanged(s) \in Narrower(s)
  BY <1>2 DEF CatalogChanged, Narrower, Narrows, Sessions
<1>5. Relisted(s) \in Narrower(s)
  BY <1>2 DEF Relisted, Narrower, Narrows, Sessions
<1>6. Published(s) \in Narrower(s) /\ Closed(s) \in Narrower(s)
  BY DEF Published, Closed, Narrower, Narrows, Sessions
<1>7. [s EXCEPT !.deadline = "expired"] \in Narrower(s)
  BY DEF Narrower, Narrows, Sessions
<1>8. ASSUME NEW c \in Contracts
      PROVE  [s EXCEPT !.catalog = c, !.req = Nil, !.deadline = "none"] \in Narrower(s)
  BY DEF Narrower, Narrows, Sessions
<1>9. ASSUME NEW r PROVE Confirmed(s, r) \in Narrower(s)
  BY DEF Confirmed, Narrower, Narrows, Sessions
<1>10. ASSUME NEW k \in {"initialize", "list", "call"}, NEW t \in Nat \cup {Nil},
              NEW r \in Nat \cup {Nil}
       PROVE  Sent(s, k, t, r) \in Narrower(s)
  <2> DEFINE c == [kind |-> k, ticket |-> t, review |-> r, epoch |-> s.epoch]
  <2>1. c \in Calls
    BY DEF Calls, Sessions
  <2>2. Sent(s, k, t, r) = [s EXCEPT !.req = c, !.deadline = "armed"]
    BY DEF Sent
  <2> HIDE DEF c
  <2> QED
    BY <2>1, <2>2 DEF Narrower, Narrows, Sessions
<1> QED
  BY <1>1, <1>3, <1>4, <1>5, <1>6, <1>7, <1>8, <1>9, <1>10

\* Reading the frames that arrived only narrows the session.
LEMMA DrainedIs ==
    ASSUME NEW s \in Sessions, NEW fs
    PROVE  /\ Drained(s, fs) \in Narrower(s)
           /\ Published(Drained(s, fs)) \in Narrower(s)
           /\ Drained(s, fs).req = s.req
           /\ Published(Drained(s, fs)).req = s.req
<1>1. Drained(s, fs) \in Narrower(s) /\ Drained(s, fs).req = s.req
  BY SessionOperations, NarrowerIs DEF Drained, CatalogChanged, Invalidated, Sessions
<1>2. Drained(s, fs) \in Sessions
  BY <1>1 DEF Narrower
<1>3. Published(Drained(s, fs)) \in Narrower(Drained(s, fs))
  BY <1>2, SessionOperations
<1>4. Published(Drained(s, fs)).req = s.req
  BY <1>1, <1>2 DEF Published, Sessions
<1> QED
  BY <1>1, <1>3, <1>4, NarrowerIs

\* A new session has nothing pending.
LEMMA NoSessionIs == NoSession \in Sessions /\ NoSession.pending = {}
  BY DEF NoSession, Sessions

\* Tickets stay tickets.
LEMMA TicketsAre ==
    ASSUME tickets \in Seq(Commands), NEW t
    PROVE  /\ Answer(tickets, t) \in Seq(Commands)
           /\ [tickets EXCEPT ![t].state = "active"] \in Seq(Commands)
           /\ [tickets EXCEPT ![t].cancel = TRUE] \in Seq(Commands)
           /\ CancelActive(tickets) \in Seq(Commands)
           /\ Disconnected \in Seq(Commands)
<1> DEFINE n == Len(tickets)
<1>1. n \in Nat /\ tickets \in [1..n -> Commands] /\ DOMAIN tickets = 1..n
  BY LenProperties
<1> HIDE DEF n
<1>2. Over \in Commands
  BY DEF Over, Commands
<1>3. \A i \in 1..n : /\ [tickets[i] EXCEPT !.state = "active"] \in Commands
                      /\ [tickets[i] EXCEPT !.cancel = TRUE] \in Commands
  BY <1>1 DEF Commands
<1>4. [tickets EXCEPT ![t] = Over] \in [1..n -> Commands]
  BY <1>1, <1>2
<1>5. [tickets EXCEPT ![t].state = "active"] \in [1..n -> Commands]
  BY <1>1, <1>3
<1>6. [tickets EXCEPT ![t].cancel = TRUE] \in [1..n -> Commands]
  BY <1>1, <1>3
<1>7. CancelActive(tickets) \in [1..n -> Commands]
  BY <1>1, <1>3 DEF CancelActive
<1>8. Disconnected \in [1..n -> Commands]
  BY <1>1, <1>2 DEF Disconnected
<1> QED
  BY <1>1, <1>4, <1>5, <1>6, <1>7, <1>8, FunctionsAreSeqs DEF Answer

\* A review that waits has not been used and is of the session's epoch; the one
\* that is confirmed waits no more; and one that was used gave exactly the call
\* that the user saw.
ReviewInv ==
    /\ \A r \in session.pending :
          r \in DOMAIN reviews /\ reviews[r].sent = <<>> /\ reviews[r].epoch = session.epoch
    /\ w.pc = "confirmed" =>
          /\ session.req \in Calls
          /\ session.req.review \in DOMAIN reviews \ session.pending
          /\ reviews[session.req.review].sent = <<>>
          /\ reviews[session.req.review].epoch = session.req.epoch
    /\ \A r \in DOMAIN reviews :
          reviews[r].sent \in {<<>>, <<[contract |-> reviews[r].contract,
                                         epoch |-> reviews[r].epoch]>>}

\* A step leaves the reviews alone,
KeepsReviews ==
    /\ reviews' = reviews /\ session' \in Narrower(session)
    /\ w'.pc = "confirmed" => w.pc = "confirmed" /\ session'.req = session.req
\* shows one more to the user,
ShowsReview == \E x \in Narrower(session) :
    /\ x.catalog \in Contracts /\ w'.pc # "confirmed"
    /\ reviews' = Append(reviews, [contract |-> x.catalog, epoch |-> x.epoch, sent |-> <<>>])
    /\ session'.pending = x.pending \cup {Len(reviews) + 1} /\ session'.epoch = x.epoch
\* uses one up,
ConfirmsReview == \E x \in Narrower(session) : \E r \in x.pending :
    /\ reviews' = reviews
    /\ session'.pending = x.pending \ {r} /\ session'.epoch = x.epoch
    /\ session'.req \in Calls /\ session'.req.review = r /\ session'.req.epoch = x.epoch
\* sends the call of the one just used up,
SendsCall == \E x \in Narrower(session) :
    /\ w.pc = "confirmed" /\ w'.pc # "confirmed"
    /\ x.req = session.req /\ SameEpoch(x) /\ session' \in Narrower(x)
    /\ reviews' = [reviews EXCEPT ![session.req.review].sent =
                      Append(@, [contract |-> x.catalog, epoch |-> x.epoch])]
\* or forgets them all with the instance.
ForgetsReviews == reviews' = <<>> /\ session'.pending = {} /\ w'.pc # "confirmed"

ReviewStep == KeepsReviews \/ ShowsReview \/ ConfirmsReview \/ SendsCall \/ ForgetsReviews

\* A review is sent at most once, and as it was reviewed.
LEMMA ReviewsStep ==
    ASSUME SessionTypes, SessionTypes', ReviewInv, ReviewStep
    PROVE  ReviewInv'
<1> DEFINE n == Len(reviews)
<1>1. n \in Nat /\ DOMAIN reviews = 1..n /\ reviews \in [1..n -> ReviewRows]
  BY LenProperties DEF SessionTypes
<1> HIDE DEF n
<1>2. CASE KeepsReviews
  BY <1>2 DEF KeepsReviews, ReviewInv, Narrower, Narrows
<1>3. CASE ShowsReview
  <2>1. PICK x \in Narrower(session) :
           /\ x.catalog \in Contracts /\ w'.pc # "confirmed"
           /\ reviews' = Append(reviews, [contract |-> x.catalog, epoch |-> x.epoch, sent |-> <<>>])
           /\ session'.pending = x.pending \cup {Len(reviews) + 1} /\ session'.epoch = x.epoch
    BY <1>3 DEF ShowsReview
  <2> DEFINE one == [contract |-> x.catalog, epoch |-> x.epoch, sent |-> <<>>]
  <2>2. one.contract = x.catalog /\ one.epoch = x.epoch /\ one.sent = <<>> /\ one \in ReviewRows
    BY <2>1, EmptySeq DEF ReviewRows, Narrower, Sessions
  <2> HIDE DEF one
  <2>3. /\ DOMAIN reviews' = 1..(n + 1) /\ reviews'[n + 1] = one
        /\ \A r \in 1..n : reviews'[r] = reviews[r]
    BY <1>1, <2>1, <2>2, AppendProperties, LenProperties DEF SessionTypes, one, n
  <2>4. \A r \in session'.pending :
           /\ r \in DOMAIN reviews' /\ reviews'[r].sent = <<>>
           /\ reviews'[r].epoch = session'.epoch
    BY <1>1, <2>1, <2>2, <2>3 DEF ReviewInv, Narrower, Narrows, n
  <2>5. \A r \in DOMAIN reviews' :
           reviews'[r].sent \in {<<>>, <<[contract |-> reviews'[r].contract,
                                            epoch |-> reviews'[r].epoch]>>}
    BY <1>1, <2>2, <2>3 DEF ReviewInv
  <2> QED
    BY <2>1, <2>4, <2>5 DEF ReviewInv
<1>4. CASE ConfirmsReview
  BY <1>4 DEF ConfirmsReview, ReviewInv, Narrower, Narrows
<1>5. CASE SendsCall
  <2>1. PICK x \in Narrower(session) :
           /\ w.pc = "confirmed" /\ w'.pc # "confirmed"
           /\ x.req = session.req /\ SameEpoch(x) /\ session' \in Narrower(x)
           /\ reviews' = [reviews EXCEPT ![session.req.review].sent =
                             Append(@, [contract |-> x.catalog, epoch |-> x.epoch])]
    BY <1>5 DEF SendsCall
  <2> DEFINE r == session.req.review
             call == [contract |-> reviews[r].contract, epoch |-> reviews[r].epoch]
  <2>2. r \in 1..n /\ r \notin session.pending /\ reviews[r].sent = <<>>
        /\ reviews[r] \in ReviewRows
    BY <1>1, <2>1 DEF ReviewInv
  <2>3. x.catalog = reviews[r].contract /\ x.epoch = reviews[r].epoch
    BY <1>1, <2>1 DEF SameEpoch, ReviewInv
  <2>4. Append(<<>>, call) = <<call>>
    OBVIOUS
  <2>5. reviews' = [reviews EXCEPT ![r] = [reviews[r] EXCEPT !.sent = <<call>>]]
    BY <2>1, <2>2, <2>3, <2>4
  <2> DEFINE one == [reviews[r] EXCEPT !.sent = <<call>>]
  <2>6. /\ one.sent = <<[contract |-> one.contract, epoch |-> one.epoch]>>
    BY <2>2 DEF ReviewRows
  <2> HIDE DEF one, call, r
  <2>7. DOMAIN reviews' = 1..n /\ reviews'[r] = one /\ \A k \in (1..n) \ {r} : reviews'[k] = reviews[k]
    BY <1>1, <2>2, <2>5 DEF one
  <2>8. session'.pending \subseteq session.pending
        /\ (session'.pending # {} => session'.epoch = session.epoch)
    BY <2>1 DEF Narrower, Narrows
  <2>9. \A k \in session'.pending :
           /\ k \in DOMAIN reviews' /\ reviews'[k].sent = <<>>
           /\ reviews'[k].epoch = session'.epoch
    BY <1>1, <2>2, <2>7, <2>8 DEF ReviewInv
  <2>10. \A k \in DOMAIN reviews' :
           reviews'[k].sent \in {<<>>, <<[contract |-> reviews'[k].contract,
                                            epoch |-> reviews'[k].epoch]>>}
    BY <1>1, <2>2, <2>6, <2>7 DEF ReviewInv
  <2> QED
    BY <2>1, <2>9, <2>10 DEF ReviewInv
<1>6. CASE ForgetsReviews
  BY <1>6 DEF ForgetsReviews, ReviewInv
<1> QED
  BY <1>2, <1>3, <1>4, <1>5, <1>6 DEF ReviewStep

\* What the invariant says of the reviews is enough.
LEMMA ReviewsHold ==
    ASSUME SessionTypes, ReviewInv
    PROVE  CallsWereReviewed
<1> SUFFICES ASSUME NEW r \in DOMAIN reviews
             PROVE  /\ Len(reviews[r].sent) <= 1
                    /\ \A k \in 1..Len(reviews[r].sent) :
                          /\ reviews[r].sent[k].epoch = reviews[r].epoch
                          /\ reviews[r].sent[k].contract = reviews[r].contract
  BY DEF CallsWereReviewed
<1>1. CASE reviews[r].sent = <<>>
  BY <1>1
<1>2. CASE reviews[r].sent = <<[contract |-> reviews[r].contract, epoch |-> reviews[r].epoch]>>
  BY <1>2
<1> QED
  BY <1>1, <1>2 DEF ReviewInv

-----------------------------------------------------------------------------
(* What each action does to the session. *)

Keeps == SessionTypes' /\ ReviewStep

\* The session is left alone.
LEMMA SessionUntouched ==
    ASSUME SessionTypes, UNCHANGED <<session, reviews>>, w'.pc # "confirmed" \/ w'.pc = w.pc
    PROVE  ReviewStep
  BY NarrowerIs DEF SessionTypes, ReviewStep, KeepsReviews

\* The host leaves the reviews alone; a start begins a session without any.
LEMMA HostKeeps ==
    ASSUME RuntimeAssumption, SessionTypes, w \in Threads, HostActions
    PROVE  Keeps
<1>1. CASE Start
  <2>1. CASE UNCHANGED <<w, session, client, server>>
    BY <2>1, SessionUntouched DEF Keeps, SessionTypes, client, server
  <2>2. CASE /\ w' = Starting(permit) /\ session' = NoSession
             /\ tickets' = <<>> /\ queue' = <<>> /\ reviews' = <<>>
             /\ frames' = <<>> /\ emitted' = 0 /\ contract' = contract
    <3>1. w'.pc # "confirmed"
      BY <2>2 DEF Starting, Absent
    <3>2. ReviewStep
      BY <2>2, <3>1, NoSessionIs DEF ReviewStep, ForgetsReviews
    <3>3. SessionTypes'
      BY <2>2, NoSessionIs, EmptySeq DEF SessionTypes, RuntimeAssumption
    <3> QED
      BY <3>2, <3>3 DEF Keeps
  <2> QED
    BY <1>1, <2>1, <2>2 DEF Start
<1>3. CASE StopFlag /\ UNCHANGED <<session, queue, reviews, server>>
  <2>1. w'.pc = w.pc
    BY <1>3 DEF StopFlag, Threads
  <2> QED
    BY <1>3, <2>1, SessionUntouched, TicketsAre DEF Keeps, StopFlag, SessionTypes, server
<1>4. CASE /\ w' \in {[w EXCEPT !.status = "stopping"], [w EXCEPT !.expired = TRUE]}
           /\ UNCHANGED <<session, client, server>>
  <2>1. w'.pc = w.pc
    BY <1>4 DEF Threads
  <2> QED
    BY <1>4, <2>1, SessionUntouched DEF Keeps, SessionTypes, server, client
<1>2. CASE UNCHANGED <<session, reviews, server>> /\ w' = w /\ HostActions
  <2>1. ReviewStep
    BY <1>2, SessionUntouched
  <2>2. CASE UNCHANGED <<tickets, queue>>
    BY <1>2, <2>1, <2>2 DEF Keeps, SessionTypes, server
  <2>3. ASSUME NEW kind \in {"review", "refresh", "invoke"}, NEW r \in Nat \cup {Nil},
               Submit(kind, r)
        PROVE  Keeps
    <3>1. Ticket(kind, r) \in Commands
      BY <2>3 DEF Ticket, Commands
    <3>2. tickets' \in Seq(Commands)
      BY <2>3, <3>1, AppendProperties DEF Submit, SessionTypes
    <3>3. Len(tickets) + 1 \in Nat
      BY LenProperties DEF SessionTypes
    <3>4. queue' \in Seq(Nat) /\ Len(queue') <= QueuedCommands
      BY <2>3, <3>3, AppendProperties, LenProperties
      DEF Submit, SessionTypes, HasRoom, RuntimeAssumption
    <3> QED
      BY <1>2, <2>1, <3>2, <3>4 DEF Keeps, SessionTypes, server
  <2>4. ASSUME NEW t, Cancel(t)
        PROVE  Keeps
    BY <1>2, <2>1, <2>4, TicketsAre DEF Cancel, Keeps, SessionTypes, server
  <2>5. CASE Request
    <3>1. Nil \in Nat \cup {Nil} /\ DOMAIN reviews \subseteq Nat
      BY LenProperties DEF SessionTypes
    <3> QED
      BY <2>3, <2>5, <3>1 DEF Request
  <2> QED
    BY <1>1, <1>2, <1>3, <2>2, <2>4, <2>5
    DEF HostActions, Issue, StatusFollows, Stop, Join, JoinTimesOut, Revoke,
      StopInstances, JoinAll, Signal, LockBroker, BeginUnlock, FinishUnlock, Expire, client
<1> QED
  BY <1>1, <1>2, <1>3, <1>4
  DEF HostActions, Request, Submit, Cancel, Issue, StatusFollows, Stop, Join, JoinTimesOut,
      Revoke, StopInstances, JoinAll, Signal, LockBroker, BeginUnlock, FinishUnlock, Expire, client

\* So does the launch,
LEMMA LaunchKeeps ==
    ASSUME RuntimeAssumption, HostTypes, SessionTypes, w \in Threads, LaunchActions
    PROVE  Keeps
<1>1. w'.pc # "confirmed"
  <2>1. w.pc \in Early \cup {"suspended", "arming", "armed", "resumed"}
    BY DEF LaunchActions, CreateProfile, GrantAccess, TakeLease, BindCredential, Build,
      LeaseNetwork, CreateSuspended, BeforeResume, ArmWatch, ResumeThread, OpenSession,
      Step, Fault, Launch, Early, Holding
  <2> QED
    BY DEF LaunchActions, CreateProfile, GrantAccess, TakeLease, BindCredential, Build,
      LeaseNetwork, CreateSuspended, BeforeResume, ArmWatch, ResumeThread, OpenSession,
      Step, Fault, Launch, Failed, Threads
<1> QED
  BY <1>1, LaunchFrame, SessionUntouched DEF Keeps, SessionTypes, client, server

\* the cleanup,
LEMMA CleanupKeeps ==
    ASSUME RuntimeAssumption, SessionTypes, w \in Threads, CleanupActions
    PROVE  Keeps
<1>1. CASE EndProcess
  <2>1. w'.pc = "released"
    BY <1>1 DEF EndProcess, Release, EndedProcess, Killed, Threads
  <2>2. ReviewStep
    BY <1>1, <2>1, NoSessionIs DEF EndProcess, ReviewStep, ForgetsReviews
  <2>3. SessionTypes'
    <3>1. /\ session' = NoSession /\ tickets' = Disconnected /\ queue' = <<>>
          /\ frames' = <<>> /\ reviews' = <<>> /\ emitted' = 0 /\ contract' = contract
      BY <1>1 DEF EndProcess, Release
    <3>2. Disconnected \in Seq(Commands)
      BY TicketsAre DEF SessionTypes
    <3> QED
      BY <3>1, <3>2, NoSessionIs, EmptySeq DEF SessionTypes, RuntimeAssumption
  <2> QED
    BY <2>2, <2>3 DEF Keeps
<1>2. CASE RevokeAccess \/ RemoveProfile
  <2>1. w'.pc # "confirmed"
    <3>1. ASSUME NEW x PROVE Final(x).pc = "done"
      BY DEF Final, Absent
    <3>2. CASE RemoveProfile
      <4>1. \E x : w' = Final(x)
        BY <3>2 DEF RemoveProfile, Release
      <4> QED
        BY <3>1, <4>1
    <3>3. CASE RevokeAccess
      BY <3>3 DEF RevokeAccess, Release, Threads
    <3> QED
      BY <1>2, <3>2, <3>3
  <2> QED
    BY <1>2, <2>1, SessionUntouched
    DEF RevokeAccess, RemoveProfile, Release, Keeps, SessionTypes, client
<1> QED
  BY <1>1, <1>2 DEF CleanupActions

\* and the server.
LEMMA EnvironmentKeeps ==
    ASSUME RuntimeAssumption, SessionTypes, w \in Threads, Environment
    PROVE  Keeps
<1>1. w'.pc = w.pc
  BY DEF Environment, Emit, AnswerRequest, EndOfOutput, ServerExits, MonitorTrips, WatchFires,
      Outside, PumpedProcess, Killed, Threads
<1>2. UNCHANGED <<session, client>>
  BY DEF Environment, Emit, AnswerRequest, EndOfOutput, ServerExits, MonitorTrips, WatchFires,
      Outside
<1>3. ReviewStep
  BY <1>1, <1>2, SessionUntouched DEF client
<1>4. ASSUME NEW kind \in {"answer", "changed", "bad", "closed"}
      PROVE  Pumped(kind) \in Seq(Frames) /\ Len(Pumped(kind)) <= QueuedFrames
  <2>1. Frame(kind) \in Frames /\ Frame("bad") \in Frames
    BY DEF Frame, Frames, SessionTypes
  <2>2. <<Frame("bad")>> \in Seq(Frames) /\ Len(<<Frame("bad")>>) = 1
    BY <2>1
  <2>3. Append(frames, Frame(kind)) \in Seq(Frames)
        /\ Len(Append(frames, Frame(kind))) = Len(frames) + 1 /\ Len(frames) \in Nat
    BY <2>1, AppendProperties, LenProperties DEF SessionTypes
  <2> QED
    BY <2>2, <2>3 DEF Pumped, RuntimeAssumption
<1>5. /\ frames' \in {frames} \cup {Pumped(k) : k \in {"answer", "changed", "bad", "closed"}}
      /\ emitted' \in {emitted, emitted + 1} /\ contract' \in Contracts
  BY DEF Environment, Emit, AnswerRequest, EndOfOutput, ServerExits, MonitorTrips, WatchFires,
      server, SessionTypes
<1> QED
  BY <1>2, <1>3, <1>4, <1>5 DEF Keeps, SessionTypes, client

\* A session that is aborted ends with its instance.
LEMMA AborterIs ==
    ASSUME SessionTypes, w \in Threads, w.pc \in OnDuty,
           NEW e \in {"none", "cancelled", "failed"}, NEW t, Abort(e, t)
    PROVE  /\ Steps /\ w'.pc = "closing"
           /\ session' \in Narrower(session) /\ session' \in Sessions
           /\ tickets' \in Seq(Commands)
  BY FailedIs, SessionOperations, TicketsAre
  DEF Abort, SessionTypes, Steps, InstanceStep, Narrower

\* An answer, given in a session x that the present one was narrowed to.
LEMMA ReplyIs ==
    ASSUME SessionTypes, w \in Threads, w.pc \in Served,
           NEW x \in Sessions, NEW t, Reply(t, x)
    PROVE  /\ Steps /\ w'.pc = "loop"
           /\ session' \in Narrower(x) /\ session' \in Sessions
           /\ session'.pending = x.pending /\ session'.epoch = x.epoch
           /\ tickets' \in Seq(Commands)
<1>1. session' = Closed(x) /\ tickets' = Answer(tickets, t) /\ w' = [w EXCEPT !.pc = "loop"]
  BY DEF Reply, Closed
<1>2. Closed(x).pending = x.pending /\ Closed(x).epoch = x.epoch
  BY DEF Closed, Sessions
<1>3. w' \in Threads /\ Serves(w, w')
  BY <1>1, GoesOn DEF Served
<1>4. w'.pc = "loop"
  BY <1>1 DEF Threads
<1> QED
  BY <1>1, <1>2, <1>3, <1>4, SessionOperations, TicketsAre
  DEF SessionTypes, Steps, InstanceStep, Narrower

\* A session that is only narrowed keeps what was reviewed.
LEMMA NarrowedKeeps ==
    ASSUME RuntimeAssumption, SessionTypes, reviews' = reviews,
           session' \in Narrower(session), w'.pc # "confirmed",
           tickets' \in Seq(Commands), queue' \in Seq(Nat), Len(queue') <= QueuedCommands,
           frames' \in Seq(Frames), Len(frames') <= QueuedFrames,
           UNCHANGED <<emitted, contract>>
    PROVE  Keeps
  BY DEF Keeps, SessionTypes, ReviewStep, KeepsReviews, Narrower

\* The queues stay within their bounds when something is taken from them.
LEMMA FramesAre ==
    ASSUME RuntimeAssumption, SessionTypes
    PROVE  /\ <<>> \in Seq(Frames) /\ Len(<<>>) <= QueuedFrames
           /\ frames # <<>> => /\ Head(frames) \in Frames
                               /\ Tail(frames) \in Seq(Frames) /\ Len(Tail(frames)) <= QueuedFrames
           /\ queue # <<>> => /\ Head(queue) \in Nat
                              /\ Tail(queue) \in Seq(Nat) /\ Len(Tail(queue)) <= QueuedCommands
<1>1. <<>> \in Seq(Frames) /\ Len(<<>>) <= QueuedFrames
  BY EmptySeq DEF RuntimeAssumption
<1>2. ASSUME NEW S, NEW s \in Seq(S), s # <<>>
      PROVE  Head(s) \in S /\ Tail(s) \in Seq(S) /\ Len(Tail(s)) = Len(s) - 1 /\ Len(s) \in Nat
  BY <1>2, HeadTailProperties, LenProperties
<1>3. frames # <<>> => /\ Head(frames) \in Frames
                       /\ Tail(frames) \in Seq(Frames) /\ Len(Tail(frames)) <= QueuedFrames
  BY <1>2 DEF SessionTypes, RuntimeAssumption
<1>4. queue # <<>> => /\ Head(queue) \in Nat
                      /\ Tail(queue) \in Seq(Nat) /\ Len(Tail(queue)) <= QueuedCommands
  BY <1>2 DEF SessionTypes, RuntimeAssumption
<1> QED
  BY <1>1, <1>3, <1>4

-----------------------------------------------------------------------------
Sound == Steps /\ Keeps

\* initialize, the first list, and the catalogue it publishes
LEMMA PreparingSound ==
    ASSUME RuntimeAssumption, HostTypes, SessionTypes, w \in Threads,
           Initialize \/ FirstList \/ BecomeReady \/ Publish
    PROVE  Sound
<1>1. /\ UNCHANGED <<client, contract, emitted>> /\ w.pc \in {"init", "list", "ready", "publish"}
      /\ w.pc \in Served /\ w.pc \in OnDuty
  BY DEF Initialize, FirstList, ListTools, BecomeReady, Publish, Step, Launch, Serve, server,
      Served, OnDuty
<1>2. ASSUME Steps, w'.pc # "confirmed", session' \in Narrower(session),
             frames' \in {frames, <<>>}
      PROVE  Sound
  BY <1>1, <1>2, FramesAre, NarrowedKeeps DEF Sound, client, SessionTypes
<1>3. session \in Narrower(session) /\ session \in Sessions
  BY NarrowerIs DEF SessionTypes
<1>4. ASSUME NEW q \in Served PROVE [w EXCEPT !.pc = q].pc = q
  BY <1>4 DEF Threads
<1>5. Nil \in Nat \cup {Nil}
  OBVIOUS
<1>6. CASE Initialize
  <2>1. CASE w' = Failed(Verdict(Nil)) /\ UNCHANGED <<session, frames>>
    BY <1>1, <1>2, <1>3, <2>1, FailedIs DEF Verdict, Steps, InstanceStep
  <2>2. CASE /\ w' = [w EXCEPT !.pc = "waiting"] /\ frames' = frames
             /\ session' = Sent(session, "initialize", Nil, Nil)
    BY <1>1, <1>2, <1>3, <1>4, <1>5, <2>2, GoesOn, SessionOperations
    DEF Steps, InstanceStep, Served
  <2> QED
    BY <1>6, <2>1, <2>2 DEF Initialize
<1>7. CASE FirstList
  <2>1. CASE /\ \E e \in {"cancelled", "failed"} : w' = Killed(Failed(e))
             /\ session' = Aborted(session) /\ UNCHANGED frames
    BY <1>1, <1>2, <1>3, <2>1, FailedIs, SessionOperations DEF Steps, InstanceStep
  <2>2. CASE /\ w' = [w EXCEPT !.pc = "waiting"] /\ frames' = <<>>
             /\ session' = Sent(Relisted(Drained(session, frames)), "list", Nil, Nil)
    <3>1. Drained(session, frames) \in Narrower(session) /\ Drained(session, frames) \in Sessions
      BY <1>3, DrainedIs DEF Narrower
    <3>2. Relisted(Drained(session, frames)) \in Narrower(session)
          /\ Relisted(Drained(session, frames)) \in Sessions
      BY <1>3, <3>1, SessionOperations, NarrowerIs DEF Narrower
    <3>3. session' \in Narrower(session)
      BY <1>3, <1>5, <2>2, <3>2, SessionOperations, NarrowerIs
    <3> QED
      BY <1>1, <1>2, <1>4, <2>2, <3>3, GoesOn DEF Steps, InstanceStep, Served
  <2> QED
    BY <1>7, <2>1, <2>2 DEF FirstList, ListTools
<1>8. CASE BecomeReady
  <2>1. CASE \E e \in {"none", "failed"} : w' = Failed(e)
    BY <1>1, <1>2, <1>3, <1>8, <2>1, FailedIs DEF BecomeReady, Steps, InstanceStep
  <2>2. CASE w' = [w EXCEPT !.pc = "publish"]
    BY <1>1, <1>2, <1>3, <1>4, <1>8, <2>2, GoesOn DEF BecomeReady, Steps, InstanceStep, Served
  <2> QED
    BY <1>8, <2>1, <2>2 DEF BecomeReady
<1>9. CASE Publish
  <2>1. /\ w' = [w EXCEPT !.pc = "loop", !.status = IF @ = "starting" THEN "ready" ELSE @]
        /\ UNCHANGED <<session, frames>>
    BY <1>9 DEF Publish, Step, Launch, server
  <2>2. /\ w' \in Threads /\ Serves(w, w') /\ w'.pc = "loop"
    BY <1>1, <2>1 DEF Threads, Serves, KeepsGrants, KeepsEpochs, Dies, Served, Phases
  <2> QED
    BY <1>2, <1>3, <2>1, <2>2 DEF Steps, InstanceStep
<1> QED
  BY <1>6, <1>7, <1>8, <1>9

\* The session is given up, or its deadline passes.
LEMMA EndingSound ==
    ASSUME RuntimeAssumption, HostTypes, SessionTypes, w \in Threads,
           GiveUp \/ TimesOut \/ DeadlinePasses
    PROVE  Sound
<1>1. CASE GiveUp \/ TimesOut
  <2>1. /\ w.pc \in OnDuty /\ UNCHANGED <<queue, reviews, frames, contract, emitted>>
    BY <1>1 DEF GiveUp, TimesOut, Serve, OnDuty, Served
  <2>2. PICK e \in {"failed", "cancelled"}, t \in {session.req.ticket} : Abort(e, t)
    BY <1>1 DEF GiveUp, TimesOut
  <2>3. /\ Steps /\ w'.pc = "closing"
        /\ session' \in Narrower(session) /\ tickets' \in Seq(Commands)
    BY <2>1, <2>2, AborterIs
  <2> QED
    BY <2>1, <2>3, NarrowedKeeps DEF Sound, SessionTypes
<1>2. CASE DeadlinePasses
  <2>1. /\ w' = Killed(w) /\ session' = [session EXCEPT !.deadline = "expired"]
        /\ UNCHANGED <<client, server>>
    BY <1>2 DEF DeadlinePasses
  <2>2. session' \in Narrower(session) /\ session' \in Sessions
        /\ session'.req = session.req
    BY <2>1, SessionOperations DEF SessionTypes, Narrower, Sessions
  <2>3. Steps /\ w'.pc = w.pc
    BY <2>1, KilledIs DEF Steps, InstanceStep, Stays
  <2>4. ReviewStep
    BY <2>1, <2>2, <2>3 DEF ReviewStep, KeepsReviews, client
  <2> QED
    BY <2>1, <2>2, <2>3, <2>4 DEF Sound, Keeps, SessionTypes, client, server
<1> QED
  BY <1>1, <1>2

\* The answer to a request of the session arrives.
LEMMA AwaitSound ==
    ASSUME RuntimeAssumption, HostTypes, SessionTypes, w \in Threads, Await
    PROVE  Sound
<1> DEFINE f == Head(frames)  t == session.req.ticket
<1>1. /\ w.pc = "waiting" /\ w.pc \in Served /\ w.pc \in OnDuty /\ frames # <<>>
      /\ UNCHANGED <<queue, reviews, contract, emitted>>
  BY DEF Await, Serve, Served, OnDuty
<1>2. f \in Frames /\ Tail(frames) \in Seq(Frames) /\ Len(Tail(frames)) <= QueuedFrames
      /\ <<>> \in Seq(Frames) /\ Len(<<>>) <= QueuedFrames
  BY <1>1, FramesAre
<1>3. ASSUME Steps, w'.pc # "confirmed", session' \in Narrower(session),
             tickets' \in Seq(Commands), frames' \in {frames, Tail(frames), <<>>}
      PROVE  Sound
  BY <1>1, <1>2, <1>3, NarrowedKeeps DEF Sound, SessionTypes
<1>4. session \in Narrower(session) /\ session \in Sessions /\ tickets \in Seq(Commands)
  BY NarrowerIs DEF SessionTypes
<1>5. CASE Abort("failed", t) /\ UNCHANGED frames
  BY <1>1, <1>3, <1>5, AborterIs
<1>6. CASE /\ frames' = Tail(frames) /\ session' = CatalogChanged(session)
           /\ UNCHANGED <<w, tickets>>
  BY <1>1, <1>3, <1>4, <1>6, SameInstance, SessionOperations
<1>7. CASE Answered(f) /\ frames' \in {Tail(frames), <<>>}
  <2>1. CASE /\ w' = [w EXCEPT !.pc = "list"] /\ UNCHANGED tickets
             /\ session' = [session EXCEPT !.req = Nil, !.deadline = "none"]
    <3>1. Steps /\ w'.pc = "list"
      BY <1>1, <2>1, GoesOn DEF Steps, InstanceStep, Served, Threads
    <3> QED
      BY <1>3, <1>4, <1>7, <2>1, <3>1, SessionOperations DEF Closed
  <2>2. CASE Reply(t, session)
    BY <1>1, <1>3, <1>4, <1>7, <2>2, ReplyIs
  <2>3. CASE Listed(f)
    <3> DEFINE s == Drained(session, Tail(frames))
    <3>1. s \in Narrower(session) /\ s \in Sessions
      BY <1>4, DrainedIs DEF Narrower
    <3>2. CASE Abort("failed", t)
      BY <1>1, <1>3, <1>7, <3>2, AborterIs
    <3>3. CASE w' = Failed("failed") /\ session' = s /\ UNCHANGED tickets
      BY <1>1, <1>3, <1>4, <1>7, <3>1, <3>3, FailedIs DEF Steps, InstanceStep
    <3>4. CASE Reply(t, s)
      BY <1>1, <1>3, <1>7, <3>1, <3>4, ReplyIs, NarrowerIs, <1>4
    <3>5. CASE /\ session' = [s EXCEPT !.catalog = f.contract, !.req = Nil, !.deadline = "none"]
               /\ w' = [w EXCEPT !.pc = IF t = Nil THEN "ready" ELSE "loop"]
               /\ tickets' = Answer(tickets, t)
      <4>1. f.contract \in Contracts
        BY <1>2 DEF Frames
      <4>2. session' \in Narrower(session)
        BY <1>4, <3>1, <3>5, <4>1, SessionOperations, NarrowerIs
      <4>3. \E q \in {"ready", "loop"} : w' = [w EXCEPT !.pc = q]
        BY <3>5
      <4>4. Steps /\ w'.pc # "confirmed"
        <5>1. PICK q \in {"ready", "loop"} : w' = [w EXCEPT !.pc = q]
          BY <4>3
        <5>2. w' \in Threads /\ Serves(w, w')
          BY <1>1, <5>1, GoesOn DEF Served
        <5>3. w'.pc = q
          BY <5>1 DEF Threads
        <5> QED
          BY <5>2, <5>3 DEF Steps, InstanceStep
      <4> QED
        BY <1>3, <1>4, <1>7, <3>5, <4>2, <4>4, TicketsAre
    <3> QED
      BY <2>3, <3>2, <3>3, <3>4, <3>5 DEF Listed
  <2> QED
    BY <1>7, <2>1, <2>2, <2>3 DEF Answered
<1> QED
  BY <1>5, <1>6, <1>7 DEF Await

\* A confirmed call is sent as it was reviewed, or not at all.
LEMMA CallSound ==
    ASSUME RuntimeAssumption, HostTypes, SessionTypes, w \in Threads, ReviewInv, CallTool
    PROVE  Sound
<1> DEFINE s == Drained(session, frames)  t == session.req.ticket  r == session.req.review
<1>1. /\ w.pc = "confirmed" /\ w.pc \in Served /\ w.pc \in OnDuty
      /\ UNCHANGED <<queue, contract, emitted>>
  BY DEF CallTool, Serve, Served, OnDuty
<1>2. session.req \in Calls /\ t \in Nat \cup {Nil} /\ r \in Nat \cup {Nil}
      /\ r \in DOMAIN reviews /\ reviews[r].sent = <<>>
  BY <1>1 DEF ReviewInv, Calls
<1>3. s \in Narrower(session) /\ s \in Sessions /\ s.req = session.req
      /\ session \in Sessions
  BY DrainedIs DEF Narrower, SessionTypes
<1>4. <<>> \in Seq(Frames) /\ Len(<<>>) <= QueuedFrames
  BY FramesAre
<1>5. CASE Abort("failed", t) /\ UNCHANGED <<queue, reviews, frames>>
  <2>1. /\ Steps /\ w'.pc = "closing"
        /\ session' \in Narrower(session) /\ tickets' \in Seq(Commands)
    BY <1>1, <1>5, AborterIs
  <2> QED
    BY <1>1, <1>5, <2>1, NarrowedKeeps DEF Sound, SessionTypes
<1>6. CASE frames' = <<>> /\ Reply(t, s) /\ UNCHANGED reviews
  <2>1. /\ Steps /\ w'.pc = "loop"
        /\ session' \in Narrower(session) /\ tickets' \in Seq(Commands)
    BY <1>1, <1>3, <1>6, ReplyIs, NarrowerIs
  <2> QED
    BY <1>1, <1>4, <1>6, <2>1, NarrowedKeeps DEF Sound, SessionTypes
<1>7. CASE /\ frames' = <<>> /\ SameEpoch(s) /\ w' = [w EXCEPT !.pc = "waiting"]
           /\ session' = Sent(s, "call", t, r)
           /\ reviews' = [reviews EXCEPT ![r].sent =
                            Append(@, [contract |-> s.catalog, epoch |-> s.epoch])]
           /\ UNCHANGED tickets
  <2>1. Steps /\ w'.pc = "waiting"
    BY <1>1, <1>7, GoesOn DEF Steps, InstanceStep, Served, Threads
  <2>2. session' \in Narrower(s) /\ session' \in Sessions
    BY <1>2, <1>3, <1>7, SessionOperations DEF Narrower
  <2>3. ReviewStep
    BY <1>1, <1>3, <1>7, <2>1, <2>2 DEF ReviewStep, SendsCall
  <2>4. reviews' \in Seq(ReviewRows)
    <3> DEFINE call == [contract |-> s.catalog, epoch |-> s.epoch]
               one == [reviews[r] EXCEPT !.sent = <<call>>]
    <3>1. call \in [contract : Contracts \cup {Nil}, epoch : Nat]
      BY <1>3 DEF Sessions
    <3> HIDE DEF call
    <3>2. Len(reviews) \in Nat /\ reviews \in [1..Len(reviews) -> ReviewRows] /\ r \in 1..Len(reviews)
      BY <1>2, LenProperties DEF SessionTypes
    <3>3. <<call>> \in Seq([contract : Contracts \cup {Nil}, epoch : Nat])
      BY <3>1
    <3>4. one \in ReviewRows
      BY <3>2, <3>3 DEF ReviewRows
    <3>5. reviews' = [reviews EXCEPT ![r] = one]
      <4>1. Append(<<>>, call) = <<call>>
        OBVIOUS
      <4> QED
        BY <1>2, <1>7, <4>1 DEF call
    <3> HIDE DEF one
    <3>6. reviews' \in [1..Len(reviews) -> ReviewRows]
      BY <3>2, <3>4, <3>5
    <3> QED
      BY <3>2, <3>6, FunctionsAreSeqs
  <2> QED
    BY <1>1, <1>4, <1>7, <2>1, <2>2, <2>3, <2>4 DEF Sound, Keeps, SessionTypes
<1> QED
  BY <1>1, <1>5, <1>6, <1>7 DEF CallTool

\* A command is taken up.
LEMMA ExecuteSound ==
    ASSUME RuntimeAssumption, HostTypes, SessionTypes, w \in Threads, w.pc = "loop",
           NEW s \in Narrower(session), NEW t \in Nat, Execute(t, s),
           queue' \in Seq(Nat), Len(queue') <= QueuedCommands,
           frames' = <<>>, UNCHANGED <<emitted, contract>>
    PROVE  Sound
<1>1. s \in Sessions /\ session \in Sessions
  BY DEF Narrower, SessionTypes
<1>2. w.pc \in Served /\ <<>> \in Seq(Frames) /\ Len(<<>>) <= QueuedFrames
  BY FramesAre DEF Served
<1>3. ASSUME Steps, w'.pc # "confirmed", session' \in Narrower(session), reviews' = reviews,
             tickets' \in Seq(Commands)
      PROVE  Sound
  BY <1>2, <1>3, NarrowedKeeps DEF Sound
<1>4. CASE Reply(t, s) /\ UNCHANGED reviews
  BY <1>1, <1>2, <1>3, <1>4, ReplyIs, NarrowerIs
<1>5. CASE Reviewed(t, s)
  <2>1. CASE s.catalog # Nil /\ Reply(t, [s EXCEPT !.pending = @ \cup {Len(reviews) + 1}])
             /\ reviews' = Append(reviews, [contract |-> s.catalog, epoch |-> s.epoch, sent |-> <<>>])
    <3> DEFINE x == [s EXCEPT !.pending = @ \cup {Len(reviews) + 1}]
               one == [contract |-> s.catalog, epoch |-> s.epoch, sent |-> <<>>]
    <3>1. Len(reviews) + 1 \in Nat
      BY LenProperties DEF SessionTypes
    <3>2. s.pending \cup {Len(reviews) + 1} \in SUBSET Nat
      BY <1>1, <3>1 DEF Sessions
    <3>3. x \in Sessions /\ x.pending = s.pending \cup {Len(reviews) + 1} /\ x.epoch = s.epoch
      BY <1>1, <3>2 DEF Sessions
    <3>4. /\ Steps /\ w'.pc = "loop" /\ session' \in Sessions /\ tickets' \in Seq(Commands)
          /\ session'.pending = x.pending /\ session'.epoch = x.epoch
      BY <1>2, <2>1, <3>3, ReplyIs
    <3>5. s.catalog \in Contracts
      BY <1>1, <2>1 DEF Sessions
    <3>6. one \in ReviewRows
      BY <1>1, <3>5, EmptySeq DEF ReviewRows, Sessions
    <3>7. reviews' \in Seq(ReviewRows)
      BY <2>1, <3>6, AppendProperties DEF SessionTypes
    <3>8. ReviewStep
      BY <2>1, <3>3, <3>4, <3>5 DEF ReviewStep, ShowsReview
    <3> QED
      BY <1>2, <3>4, <3>7, <3>8 DEF Sound, Keeps, SessionTypes
  <2> QED
    BY <1>4, <1>5, <2>1 DEF Reviewed
<1>6. CASE Confirm(t, s) /\ UNCHANGED reviews
  <2> DEFINE r == tickets[t].review
  <2>1. CASE Reply(t, Confirmed(s, r))
    <3>1. Confirmed(s, r) \in Narrower(session) /\ Confirmed(s, r) \in Sessions
      BY <1>1, SessionOperations, NarrowerIs DEF Narrower
    <3> QED
      BY <1>1, <1>2, <1>3, <1>6, <2>1, <3>1, ReplyIs, NarrowerIs
  <2>2. CASE /\ r \in s.pending
             /\ w' = [w EXCEPT !.pc = "confirmed"]
             /\ session' = [Confirmed(s, r) EXCEPT
                  !.req = [kind |-> "call", ticket |-> t, review |-> r, epoch |-> s.epoch]]
             /\ tickets' = [tickets EXCEPT ![t].state = "active"]
    <3> DEFINE c == [kind |-> "call", ticket |-> t, review |-> r, epoch |-> s.epoch]
               x == Confirmed(s, r)
    <3>1. c \in Calls /\ c.review = r /\ c.epoch = s.epoch
      BY <1>1, <2>2 DEF Calls, Sessions
    <3>2. x \in Sessions /\ x.pending = s.pending \ {r} /\ x.epoch = s.epoch
      BY <1>1, SessionOperations DEF Confirmed, Sessions, Narrower
    <3> HIDE DEF c, x
    <3>3. session' = [x EXCEPT !.req = c]
      BY <2>2 DEF c, x
    <3>4. session' \in Sessions /\ session'.pending = x.pending /\ session'.epoch = x.epoch
          /\ session'.req = c
      BY <3>1, <3>2, <3>3 DEF Sessions
    <3>5. Steps
      BY <1>2, <2>2, GoesOn DEF Steps, InstanceStep, Served
    <3>6. ReviewStep
      <4>1. r \in s.pending /\ s \in Narrower(session)
        BY <2>2
      <4> HIDE DEF r
      <4> QED
        BY <1>6, <3>1, <3>2, <3>4, <4>1 DEF ReviewStep, ConfirmsReview
    <3> QED
      BY <1>2, <1>6, <2>2, <3>4, <3>5, <3>6, TicketsAre DEF Sound, Keeps, SessionTypes
  <2> QED
    BY <1>6, <2>1, <2>2 DEF Confirm
<1>7. CASE /\ w' = [w EXCEPT !.pc = "waiting"] /\ UNCHANGED reviews
           /\ session' = Sent(Relisted(s), "list", t, Nil)
           /\ tickets' = [tickets EXCEPT ![t].state = "active"]
  <2>1. Relisted(s) \in Narrower(session) /\ Relisted(s) \in Sessions
    BY <1>1, SessionOperations, NarrowerIs DEF Narrower
  <2>2. session' \in Narrower(session)
    BY <1>1, <1>7, <2>1, SessionOperations, NarrowerIs
  <2>3. Steps /\ w'.pc = "waiting"
    BY <1>2, <1>7, GoesOn DEF Steps, InstanceStep, Served, Threads
  <2> QED
    BY <1>3, <1>7, <2>2, <2>3, TicketsAre DEF SessionTypes
<1> QED
  BY <1>4, <1>5, <1>6, <1>7 DEF Execute

\* One turn of the worker's loop
LEMMA TurnSound ==
    ASSUME RuntimeAssumption, HostTypes, SessionTypes, w \in Threads, Turn
    PROVE  Sound
<1>1. /\ w.pc = "loop" /\ w.pc \in OnDuty /\ UNCHANGED <<contract, emitted>>
  BY DEF Turn, Serve, OnDuty, Served
<1>2. session \in Narrower(session) /\ session \in Sessions
  BY NarrowerIs DEF SessionTypes
<1>3. <<>> \in Seq(Frames) /\ Len(<<>>) <= QueuedFrames
  BY FramesAre
<1>4. CASE (\E e \in {"none", "failed"} : w' = Failed(e)) /\ UNCHANGED <<session, client, frames>>
  <2>1. Steps /\ w'.pc = "closing"
    BY <1>1, <1>4, FailedIs DEF Steps, InstanceStep
  <2> QED
    BY <1>1, <1>2, <1>4, <2>1, NarrowedKeeps DEF Sound, SessionTypes, client
<1>5. CASE Abort("failed", Nil) /\ UNCHANGED <<queue, reviews, frames>>
  <2>1. /\ Steps /\ w'.pc = "closing"
        /\ session' \in Narrower(session) /\ tickets' \in Seq(Commands)
    BY <1>1, <1>5, AborterIs
  <2> QED
    BY <1>1, <1>5, <2>1, NarrowedKeeps DEF Sound, SessionTypes
<1> DEFINE s == Published(Drained(session, frames))
<1>6. s \in Narrower(session)
  BY <1>2, DrainedIs
<1>7. CASE frames' = <<>> /\ session' = s /\ UNCHANGED <<w, client>>
  BY <1>1, <1>3, <1>6, <1>7, NarrowedKeeps, SameInstance DEF Sound, SessionTypes, client
<1>8. CASE frames' = <<>> /\ queue # <<>> /\ queue' = Tail(queue) /\ Execute(Head(queue), s)
  <2>1. Head(queue) \in Nat /\ Tail(queue) \in Seq(Nat) /\ Len(Tail(queue)) <= QueuedCommands
    BY <1>8, FramesAre
  <2> HIDE DEF s
  <2> QED
    BY <1>1, <1>6, <1>8, <2>1, ExecuteSound
<1> QED
  BY <1>4, <1>5, <1>7, <1>8 DEF Turn

-----------------------------------------------------------------------------
(* The invariants. *)

\* Every action is one of these steps.
LEMMA InstanceSound ==
    ASSUME RuntimeAssumption, HostTypes, SessionTypes, w \in Threads, ReviewInv, InstanceNext
    PROVE  Sound
<1>1. CASE HostActions
  BY <1>1, HostSteps, HostKeeps DEF Sound
<1>2. CASE LaunchActions
  BY <1>2, LaunchSteps, LaunchKeeps DEF Sound
<1>3. CASE SessionActions
  BY <1>3, PreparingSound, TurnSound, CallSound, EndingSound, AwaitSound DEF SessionActions
<1>4. CASE CleanupActions
  BY <1>4, CleanupSteps, CleanupKeeps DEF Sound
<1>5. CASE Environment
  BY <1>5, EnvironmentSteps, EnvironmentKeeps DEF Sound
<1> QED
  BY <1>1, <1>2, <1>3, <1>4, <1>5 DEF InstanceNext, WorkerActions

\* The host's part of the state stays typed.
LEMMA HostTypesStep ==
    ASSUME RuntimeAssumption, HostTypes, w \in Threads, InstanceNext
    PROVE  HostTypes'
<1>1. CASE HostActions
  <2>1. CASE UNCHANGED <<generation, credentials, host, permit, roster>>
    BY <1>1, <2>1
    DEF HostTypes, credentials, roster, Incident, Calm, HostActions, Request, Submit, Cancel,
        Issue, Start, StatusFollows, Stop, Join,
        JoinTimesOut, Revoke, StopInstances, JoinAll, Signal, LockBroker, BeginUnlock, FinishUnlock,
        Expire
  <2>2. CASE Issue
    BY <2>2 DEF HostTypes, Epochs, credentials, roster, Incident, Issue
  <2>3. CASE Start
    <3>1. StillRegistered \in BOOLEAN /\ Leftover \in BOOLEAN
      BY DEF StillRegistered, Leftover, HostTypes, Threads
    <3>2. /\ permit' = Nil /\ registered' \in {StillRegistered, TRUE} /\ leaked' \in {leaked, Leftover}
          /\ UNCHANGED <<generation, credentials, host, joining, incidents>>
      BY <2>3 DEF Start, Calm
    <3> QED
      BY <3>1, <3>2 DEF HostTypes, Epochs, credentials
  <2>5. CASE Stop \/ Join \/ JoinTimesOut
    <3>1. CleanupFailed \in BOOLEAN
      BY DEF CleanupFailed
    <3>2. /\ joining' \in BOOLEAN /\ registered' \in {registered, CleanupFailed}
          /\ UNCHANGED <<generation, credentials, host, permit, leaked>>
          /\ Calm \/ Incident
      BY <2>5 DEF Stop, Join, JoinTimesOut
    <3> QED
      BY <3>1, <3>2 DEF HostTypes, credentials, Calm, Incident
  <2>6. CASE \E kind \in {"lock", "switch"} : Revoke(kind)
    BY <2>6 DEF HostTypes, credentials, roster, Incident, Revoke
  <2>7. CASE StopInstances
    BY <2>7 DEF HostTypes, credentials, roster, Calm, StopInstances
  <2>8. CASE JoinAll
    BY <2>8 DEF HostTypes, credentials, Calm, JoinAll
  <2>4. CASE Signal \/ LockBroker \/ BeginUnlock \/ FinishUnlock
    BY <2>4
    DEF HostTypes, Epochs, credentials, roster, Incident, Calm, Signal, LockBroker, BeginUnlock,
        FinishUnlock
  <2> QED
    BY <1>1, <2>1, <2>2, <2>3, <2>4, <2>5, <2>6, <2>7, <2>8
    DEF HostActions, Request, Submit, Cancel, StatusFollows, Expire, roster
<1>2. ASSUME UNCHANGED <<generation, credentials, host, permit, roster>>, Calm \/ Incident
      PROVE  HostTypes'
  BY <1>2 DEF HostTypes, credentials, roster, Calm, Incident
<1>3. CASE LaunchActions
  BY <1>2, <1>3
  DEF LaunchActions, CreateProfile, GrantAccess, TakeLease, BindCredential, Build,
      LeaseNetwork, CreateSuspended, BeforeResume, ArmWatch, ResumeThread, OpenSession,
      Step, Fault, Launch
<1>4. CASE SessionActions
  BY <1>2, <1>4
  DEF SessionActions, Initialize, FirstList, BecomeReady, Publish, Step, Launch,
      Turn, CallTool, GiveUp, TimesOut, Await, DeadlinePasses, Serve
<1>5. CASE CleanupActions \/ Environment
  BY <1>2, <1>5
  DEF CleanupActions, EndProcess, RevokeAccess, RemoveProfile, Release,
      Environment, Emit, AnswerRequest, EndOfOutput, ServerExits, MonitorTrips, WatchFires,
      Outside
<1> QED
  BY <1>1, <1>3, <1>4, <1>5 DEF InstanceNext, WorkerActions

LaunchInv == HostTypes /\ w \in Threads /\ SessionTypes /\ LeaseInv /\ ReleaseInv /\ ReviewInv

\* The invariant holds before the first start.
LEMMA RuntimeInitial == RuntimeAssumption /\ InstanceInit => LaunchInv
<1> SUFFICES ASSUME RuntimeAssumption, InstanceInit PROVE LaunchInv
  OBVIOUS
<1>1. HostTypes /\ w \in Threads
  <2>1. host \in [pc : {"idle", "revoked", "joining", "joined", "signalled"},
                  kind : {"lock", "switch"}]
    BY DEF InstanceInit
  <2>2. w \in Threads
    BY AbsentIs DEF InstanceInit
  <2>3. unlocked \in Epochs /\ unlocking \in Epochs /\ permit \in Epochs
    BY DEF InstanceInit, Epochs
  <2> QED
    BY <2>1, <2>2, <2>3 DEF InstanceInit, HostTypes
<1>2. SessionTypes
  BY NoSessionIs, EmptySeq DEF InstanceInit, SessionTypes, RuntimeAssumption
<1>3. LeaseInv
  BY DEF InstanceInit, RuntimeAssumption, LeaseInv, Absent, Secured, Served, Holding
<1>4. ReleaseInv
  BY DEF InstanceInit, ReleaseInv, Absent, OnDuty, Early, Served, Holding, LiveProcesses
<1>5. ReviewInv
  BY DEF InstanceInit, ReviewInv, NoSession, Absent
<1> QED
  BY <1>1, <1>2, <1>3, <1>4, <1>5 DEF LaunchInv

\* The invariant from which the properties of a running extension follow: a lease
\* has the epoch of an unlock and epochs only grow, what was granted is held until
\* the cleanup releases it, and a review that is pending was made in the epoch of
\* its session and never sent.
THEOREM LaunchInvariant == InstanceSpec => []LaunchInv
<1>1. InstanceInit => LaunchInv
  BY RuntimeInitial, RuntimeAssumption
<1>2. LaunchInv /\ [InstanceNext]_instanceVars => LaunchInv'
  <2> SUFFICES ASSUME LaunchInv, [InstanceNext]_instanceVars PROVE LaunchInv'
    OBVIOUS
  <2>1. CASE InstanceNext
    <3>1. Sound
      BY <2>1, InstanceSound, RuntimeAssumption DEF LaunchInv
    <3>2. LeaseInv' /\ ReleaseInv' /\ ReviewInv'
      BY <2>1, <3>1, CredentialSteps, LeaseStep, ReleaseStep, ReviewsStep, RuntimeAssumption
      DEF LaunchInv, Sound, Keeps
    <3> QED
      BY <2>1, <3>1, <3>2, HostTypesStep, RuntimeAssumption DEF LaunchInv, Sound, Keeps, Steps
  <2>2. CASE UNCHANGED instanceVars
    BY <2>2 DEF instanceVars, credentials, roster, client, server, LaunchInv, HostTypes, SessionTypes,
        LeaseInv, ReleaseInv, ReviewInv
  <2> QED
    BY <2>1, <2>2
<1> QED
  BY <1>1, <1>2, PTL DEF InstanceSpec

\* A lease that still passes its check was bound while the credentials were
\* unlocked, and they still are, however lock_credentials and unlock meet with the
\* steps of extension_launch_authorization.rs prepare and of the launch.
THEOREM LeasesMeanUnlockedHolds == InstanceSpec => []LeasesMeanUnlocked
<1>1. LaunchInv => LeasesMeanUnlocked
  BY LeasesHold, RuntimeAssumption DEF LaunchInv
<1> QED
  BY <1>1, LaunchInvariant, PTL

\* call_tool sends a review at most once, in the epoch and with the contract that
\* the user saw, however often the server changes its list in between.
THEOREM CallsWereReviewedHolds == InstanceSpec => []CallsWereReviewed
<1>1. LaunchInv => CallsWereReviewed
  BY ReviewsHold DEF LaunchInv
<1> QED
  BY <1>1, LaunchInvariant, PTL

\* A process that can execute has its container and its grants, and a thread that
\* ended without reporting a failed cleanup left none of them (run, run_in_profile).
THEOREM ReleasedInOrderHolds == InstanceSpec => []ReleasedInOrder
<1>1. LaunchInv => ReleasedInOrder
  BY ReleasesHold DEF LaunchInv
<1> QED
  BY <1>1, LaunchInvariant, PTL

\* The phases of the instance, its session and its bounded queues keep their types,
\* and a pending review is one of the session's.
THEOREM InstanceTypesHold == InstanceSpec => []InstanceTypeOK
<1>1. LaunchInv => InstanceTypeOK
  BY DEF LaunchInv, InstanceTypeOK, HostTypes, Epochs, SessionTypes, Sessions, Threads, ReviewInv
<1> QED
  BY <1>1, LaunchInvariant, PTL
=============================================================================

------------------------- MODULE SyncBindingProofs -------------------------
(***************************************************************************)
(* Proofs about SyncBinding, for any paths, contents, remotes, page size   *)
(* and any number of bindings, edits, commits, failures and process stops. *)
(***************************************************************************)
EXTENDS SyncBinding, FiniteSetTheorems, FunctionTheorems, WellFoundedInduction, TLAPS

-----------------------------------------------------------------------------
(* Minima, maxima, orders and pages *)

\* A set of naturals that is not empty has its Min.
LEMMA MinIsLeast ==
    ASSUME NEW S, S \subseteq Nat, S # {}
    PROVE  Min(S) \in S /\ \A j \in S : Min(S) <= j
<1>1. \E n \in S : \A j \in S : <<j, n>> \notin OpToRel(<, Nat)
  BY NatLessThanWellFounded, WFMin
<1>2. \A j, n \in Nat : <<j, n>> \notin OpToRel(<, Nat) => n <= j
  BY DEF OpToRel
<1> QED
  BY <1>1, <1>2 DEF Min

\* A bounded set of naturals that is not empty has its Max.
LEMMA MaxIsGreatest ==
    ASSUME NEW n \in Nat, NEW S, S \subseteq 0..n, S # {}
    PROVE  Max(S) \in S /\ \A t \in S : t <= Max(S)
<1> DEFINE T == {n - s : s \in S}
<1>1. T \subseteq Nat /\ T # {}
  <2>1. \A s \in S : n - s \in Nat
    OBVIOUS
  <2> QED
    BY <2>1
<1>2. Min(T) \in T /\ \A j \in T : Min(T) <= j
  BY <1>1, MinIsLeast
<1>3. PICK s \in S : Min(T) = n - s
  BY <1>2
<1>4. \A t \in S : Min(T) <= n - t
  BY <1>2
<1>5. \A t \in S : t <= s
  <2> HIDE DEF T
  <2> QED
    BY <1>3, <1>4
<1>6. \A t \in S : s >= t
  BY <1>5
<1>7. \A t \in S : Max(S) >= t /\ Max(S) \in S
  BY <1>6 DEF Max
<1> QED
  BY <1>7

\* Latest is 0, or the greatest of the first n revisions that is the file's.
LEMMA LatestIs ==
    ASSUME NEW r, NEW f, NEW n \in Nat
    PROVE  /\ Latest(r, f, n) \in 0..n
           /\ Latest(r, f, n) # 0 => log[r][Latest(r, f, n)].id = f
           /\ \A s \in 1..n : log[r][s].id = f => s <= Latest(r, f, n)
<1> DEFINE S == {0} \cup {s \in 1..n : log[r][s].id = f}
<1>1. S \subseteq 0..n /\ S # {}
  OBVIOUS
<1>2. Max(S) \in S /\ \A t \in S : t <= Max(S)
  BY <1>1, MaxIsGreatest
<1> HIDE DEF S
<1>3. Latest(r, f, n) \in S /\ \A t \in S : t <= Latest(r, f, n)
  BY <1>2 DEF Latest, S
<1> QED
  BY <1>3 DEF S

\* The revision that is the file's and behind which no other is, is the latest.
LEMMA LatestUnique ==
    ASSUME NEW r, NEW f, NEW n \in Nat, NEW m \in 0..n,
           m # 0 => log[r][m].id = f,
           \A s \in 1..n : log[r][s].id = f => s <= m
    PROVE  Latest(r, f, n) = m
<1> DEFINE k == Latest(r, f, n)
<1>1. /\ k \in 0..n
      /\ k # 0 => log[r][k].id = f
      /\ \A s \in 1..n : log[r][s].id = f => s <= k
  BY LatestIs
<1> HIDE DEF k
<1>2. k <= m /\ m <= k
  BY <1>1
<1>3. k = m
  BY <1>1, <1>2
<1> QED
  BY <1>3 DEF k

\* A finite set can be put in an order.
LEMMA OrderInjects ==
    ASSUME NEW S, IsFiniteSet(S)
    PROVE  /\ Cardinality(S) \in Nat
           /\ Order(S) \in [S -> 1..Cardinality(S)]
           /\ \A x, y \in S : Order(S)[x] = Order(S)[y] => x = y
<1>1. Cardinality(S) \in Nat /\ ExistsBijection(1..Cardinality(S), S)
  BY FS_CardinalityType
<1>2. ExistsBijection(S, 1..Cardinality(S))
  BY <1>1, Fun_ExistsBijSymmetric
<1>3. \E n \in [S -> 1..Cardinality(S)] : \A x, y \in S : n[x] = n[y] => x = y
  BY <1>2 DEF ExistsBijection, Bijection, Injection, IsInjective
<1> QED
  BY <1>1, <1>3 DEF Order

\* A page of a bounded set holds, with a revision, all the ones before it.
LEMMA PageIsFirst ==
    ASSUME NEW n \in Nat, NEW S, S \subseteq 1..n
    PROVE  /\ Page(S) \subseteq S
           /\ \A s \in Page(S), t \in S : t <= s => t \in Page(S)
<1>1. Page(S) \subseteq S
  BY DEF Page
<1>2. ASSUME NEW s \in Page(S), NEW t \in S, t <= s
      PROVE  t \in Page(S)
  <2> DEFINE A == {u \in S : u <= s}
             B == {u \in S : u <= t}
  <2>1. s \in S /\ Cardinality(A) <= PageSize
    BY <1>2 DEF Page
  <2>2. B \subseteq A
    <3>1. s \in Nat /\ t \in Nat /\ \A u \in S : u \in Nat
      BY <2>1
    <3>2. \A u \in S : u <= t => u <= s
      BY <1>2, <3>1
    <3> QED
      BY <3>2
  <2>3. IsFiniteSet(A)
    <3>1. IsFiniteSet(1..n)
      BY FS_Interval
    <3> QED
      BY <3>1, FS_Subset
  <2>4. IsFiniteSet(B) /\ Cardinality(B) <= Cardinality(A)
    BY <2>2, <2>3, FS_Subset
  <2>5. Cardinality(A) \in Nat /\ Cardinality(B) \in Nat
    BY <2>3, <2>4, FS_CardinalityType
  <2> HIDE DEF A, B
  <2>6. Cardinality(B) <= PageSize
    BY <2>1, <2>4, <2>5, ConstantsAssumption
  <2> QED
    BY <2>6 DEF Page, B
<1> QED
  BY <1>1, <1>2

-----------------------------------------------------------------------------
(* The holder of the gate *)

\* What the invariants say of a holder depends on these fields.
Has(h, at, b, r, n, todo, op, reply) ==
    /\ h \in Holders
    /\ h.at = at /\ h.binding = b /\ h.remote = r /\ h.seen = n
    /\ h.todo = todo /\ h.op = op /\ h.reply = reply

\* A holder has the fields of its record.
LEMMA HolderFields ==
    ASSUME NEW g \in Holders
    PROVE  /\ g.at \in Points /\ g.binding \in Nat /\ g.remote \in Remotes
           /\ g.seen \in Nat /\ g.todo \in SUBSET Nat /\ g.op \in Nat
           /\ g.reply \in {"none", "accepted", "rejected"}
           /\ Has(g, g.at, g.binding, g.remote, g.seen, g.todo, g.op, g.reply)
  BY DEF Holders, Has

\* What each update of a holder gives.
LEMMA HolderUpdates ==
    ASSUME NEW g \in Holders, NEW at \in Points, NEW todo \in SUBSET Nat, NEW op \in Nat,
           NEW reply \in {"none", "accepted", "rejected"}
    PROVE  /\ Has([g EXCEPT !.stale = TRUE],
                   g.at, g.binding, g.remote, g.seen, g.todo, g.op, g.reply)
           /\ Has([g EXCEPT !.at = at],
                   at, g.binding, g.remote, g.seen, g.todo, g.op, g.reply)
           /\ Has([g EXCEPT !.at = "handshake", !.retried = TRUE, !.last = FALSE, !.todo = {}],
                   "handshake", g.binding, g.remote, g.seen, {}, g.op, g.reply)
           /\ Has([g EXCEPT !.at = at, !.todo = todo],
                   at, g.binding, g.remote, g.seen, todo, g.op, g.reply)
           /\ Has([g EXCEPT !.at = "pull", !.last = TRUE],
                   "pull", g.binding, g.remote, g.seen, g.todo, g.op, g.reply)
           /\ Has([g EXCEPT !.op = op, !.at = at],
                   at, g.binding, g.remote, g.seen, g.todo, op, g.reply)
           /\ Has([g EXCEPT !.at = "sent", !.reply = "none"],
                   "sent", g.binding, g.remote, g.seen, g.todo, g.op, "none")
           /\ Has([g EXCEPT !.at = "push", !.op = 0, !.reply = "none"],
                   "push", g.binding, g.remote, g.seen, g.todo, 0, "none")
           /\ Has([g EXCEPT !.reply = reply],
                   g.at, g.binding, g.remote, g.seen, g.todo, g.op, reply)
<1>1. Has([g EXCEPT !.stale = TRUE], g.at, g.binding, g.remote, g.seen, g.todo, g.op, g.reply)
  BY DEF Holders, Has, Points
<1>2. Has([g EXCEPT !.at = at], at, g.binding, g.remote, g.seen, g.todo, g.op, g.reply)
  BY DEF Holders, Has, Points
<1>3. Has([g EXCEPT !.at = "handshake", !.retried = TRUE, !.last = FALSE, !.todo = {}], "handshake", g.binding, g.remote, g.seen, {}, g.op, g.reply)
  BY DEF Holders, Has, Points
<1>4. Has([g EXCEPT !.at = at, !.todo = todo], at, g.binding, g.remote, g.seen, todo, g.op, g.reply)
  BY DEF Holders, Has, Points
<1>5. Has([g EXCEPT !.at = "pull", !.last = TRUE], "pull", g.binding, g.remote, g.seen, g.todo, g.op, g.reply)
  BY DEF Holders, Has, Points
<1>6. Has([g EXCEPT !.op = op, !.at = at], at, g.binding, g.remote, g.seen, g.todo, op, g.reply)
  BY DEF Holders, Has, Points
<1>7. Has([g EXCEPT !.at = "sent", !.reply = "none"], "sent", g.binding, g.remote, g.seen, g.todo, g.op, "none")
  BY DEF Holders, Has, Points
<1>8. Has([g EXCEPT !.at = "push", !.op = 0, !.reply = "none"], "push", g.binding, g.remote, g.seen, g.todo, 0, "none")
  BY DEF Holders, Has, Points
<1>9. Has([g EXCEPT !.reply = reply], g.at, g.binding, g.remote, g.seen, g.todo, g.op, reply)
  BY DEF Holders, Has, Points
<1> QED
  BY <1>1, <1>2, <1>3, <1>4, <1>5, <1>6, <1>7, <1>8, <1>9

\* A new holder.
LEMMA HolderMade ==
    ASSUME NEW at \in Points, NEW r \in Remotes, NEW n \in Nat, NEW b \in Nat
    PROVE  Has(Holder(at, r, n, b), at, b, r, n, {}, 0, "none")
  BY DEF Holder, Holders, Has

\* The gate is free, or held by the same run at the same point.
SameGate ==
    \/ gate = None /\ gate' = None
    \/ /\ gate # None
       /\ Has(gate', gate.at, gate.binding, gate.remote, gate.seen, gate.todo,
              gate.op, gate.reply)

\* A run that goes to another point.
Goes(at) ==
    /\ gate # None /\ gate \in Holders
    /\ Has(gate', at, gate.binding, gate.remote, gate.seen, gate.todo, gate.op, gate.reply)

LEMMA GotoGoes ==
    ASSUME TypeOK, gate # None, NEW at \in Points, Goto(at)
    PROVE  Goes(at)
  BY HolderUpdates DEF TypeOK, Goto, Goes

\* Cancelling leaves the run where it is.
LEMMA CancelledSame ==
    ASSUME TypeOK, gate' = Cancelled
    PROVE  SameGate
<1>1. CASE gate = None
  BY <1>1 DEF Cancelled, SameGate
<1>2. CASE gate # None
  <2>1. gate \in Holders
    BY <1>2 DEF TypeOK
  <2>2. \/ gate' = gate
        \/ gate' = [gate EXCEPT !.stale = TRUE]
    BY <1>2 DEF Cancelled
  <2> QED
    BY <1>2, <2>1, <2>2, HolderFields, HolderUpdates DEF SameGate, Points
<1> QED
  BY <1>1, <1>2

\* An unchanged gate is the same.
LEMMA UnchangedSame ==
    ASSUME TypeOK, gate' = gate
    PROVE  SameGate
  BY HolderFields DEF TypeOK, SameGate

\* The gate's type follows.
LEMMA SameGateType ==
    ASSUME SameGate
    PROVE  gate' # None => gate' \in Holders
  BY DEF SameGate, Has

LEMMA CancelledType ==
    ASSUME TypeOK, gate' = Cancelled
    PROVE  gate' # None => gate' \in Holders
  BY CancelledSame, SameGateType

-----------------------------------------------------------------------------
(* Types *)

LEMMA JobType ==
    ASSUME NEW n \in Nat, NEW f \in Ids, NEW c \in Hashes
    PROVE  /\ NewJob(n, f, c) \in Jobs
           /\ NewJob(n, f, c).op = n /\ NewJob(n, f, c).id = f
           /\ NewJob(n, f, c).content = c /\ NewJob(n, f, c).stage = "pending"
  BY DEF NewJob, Jobs

LEMMA ShownType ==
    ASSUME TypeOK, NEW r \in Remotes, NEW n \in Nat
    PROVE  Shown(r, n) \in Previews
  BY DEF TypeOK, Shown, Previews, Hashes

\* What every bind leaves in the tables of the new binding.
LEMMA FreshTypes ==
    ASSUME TypeOK, FreshTables,
           binding' \in Bindings, initial' # None => initial' \in Initials,
           heads' \in [Ids -> Nat], queue' \subseteq Jobs,
           row' \in [Paths -> Ids], \A p \in Paths : PathOf(row'[p]) = p,
           observed' \in [Ids -> Hashes], ops' \in Nat,
           UNCHANGED <<server, session, disk, scope, activity, events>>
    PROVE  TypeOK'
<1>1. retry' \in Retries /\ paused' \in BOOLEAN
  BY DEF FreshTables, Retries
<1>2. /\ bindings' \in Nat /\ window' = 0 /\ inbox' = 0 /\ conflicts' = {}
      /\ inherited' \subseteq Paths /\ gate' = None /\ preview' = None
  BY DEF TypeOK, FreshTables
<1> QED
  BY <1>1, <1>2 DEF TypeOK, server

LEMMA HappensType ==
    ASSUME TypeOK, Happens
    PROVE  events' \in Nat
  BY DEF TypeOK, Happens

LEMMA EditType ==
    ASSUME TypeOK, NEW p \in Paths, NEW c \in Hashes, Edit(p, c)
    PROVE  TypeOK'
  BY JobType DEF TypeOK, Edit, NewJob, Happens, Unlocked, server, files, merging, state

LEMMA OutsideEditType ==
    ASSUME TypeOK, NEW p \in Paths, NEW c \in Hashes, OutsideEdit(p, c)
    PROVE  TypeOK'
  BY DEF TypeOK, OutsideEdit, Happens, server, files, merging, state

LEMMA LoginType ==
    ASSUME TypeOK, Login
    PROVE  TypeOK'
  BY DEF TypeOK, Login, Retries, server, files, merging, state

LEMMA RefreshType ==
    ASSUME TypeOK, Refresh
    PROVE  TypeOK'
  BY DEF TypeOK, Refresh, Happens, server, files, merging, state

LEMMA ExpireType ==
    ASSUME TypeOK, Expire
    PROVE  TypeOK'
  BY DEF TypeOK, Expire, Happens, server, files, merging, state

LEMMA LogoutType ==
    ASSUME TypeOK, Logout
    PROVE  TypeOK'
  BY DEF TypeOK, Logout, Happens, server, files, merging, state

LEMMA RevokeDeviceType ==
    ASSUME TypeOK, RevokeDevice
    PROVE  TypeOK'
<1>1. events' \in Nat /\ peers' = FALSE
  BY HappensType DEF RevokeDevice
<1>2. UNCHANGED <<log, wire, session, files, queue, merging, state, preview, gate,
                  activity, ops>>
  BY DEF RevokeDevice
<1> QED
  BY <1>1, <1>2 DEF TypeOK, files, merging, state

LEMMA PreviewType ==
    ASSUME TypeOK, NEW r \in Remotes, Preview(r)
    PROVE  TypeOK'
  BY ShownType DEF TypeOK, Preview, server, files, merging, state

LEMMA AskRemoteType ==
    ASSUME TypeOK, NEW r \in Remotes, NEW mode \in {"merge", "upload", "download"}, AskRemote(mode, r)
    PROVE  TypeOK'
<1>1. Len(log[r]) \in Nat /\ mode \in Points /\ 0 \in Nat
  BY DEF TypeOK, Points
<1>2. gate' \in Holders
  BY <1>1, HolderMade DEF AskRemote, Has
<1> QED
  BY <1>2 DEF TypeOK, AskRemote, server, files, merging, state

LEMMA BindRefusedType ==
    ASSUME TypeOK, BindRefused
    PROVE  TypeOK'
  BY DEF TypeOK, BindRefused, server, files, merging, state

LEMMA BindDownloadType ==
    ASSUME TypeOK, BindDownload
    PROVE  TypeOK'
<1>1. binding' \in Bindings
  BY DEF TypeOK, BindDownload, NewBinding, Bindings, Holders
<1>2. /\ queue' = {} /\ initial' = None /\ heads' = [f \in Ids |-> 0]
      /\ UNCHANGED <<server, session, files, scope, activity, ops, events>>
  BY DEF BindDownload
<1>3. FreshTables
  BY DEF BindDownload
<1>4. heads' \in [Ids -> Nat]
  BY <1>2
<1> QED
  BY <1>1, <1>2, <1>3, <1>4, FreshTypes DEF TypeOK, files

LEMMA UnbindType ==
    ASSUME TypeOK, Unbind
    PROVE  TypeOK'
<1>1. gate' # None => gate' \in Holders
  BY CancelledType DEF Unbind
<1>2. events' \in Nat
  BY HappensType DEF Unbind
<1>5. retry' \in Retries /\ paused' = FALSE
  BY DEF Unbind, Retries
<1>3. /\ binding' = None /\ queue' = {} /\ initial' = None
      /\ window' = 0 /\ inbox' = 0 /\ conflicts' = {} /\ inherited' = {}
      /\ heads' = [f \in Ids |-> 0]
      /\ UNCHANGED <<server, session, files, bindings, scope, preview, activity, ops>>
  BY DEF Unbind
<1>4. heads' \in [Ids -> Nat]
  BY <1>3
<1> QED
  BY <1>1, <1>2, <1>3, <1>4, <1>5 DEF TypeOK, server, files

LEMMA PauseType ==
    ASSUME TypeOK, Pause
    PROVE  TypeOK'
<1>1. gate' # None => gate' \in Holders
  BY CancelledType DEF Pause
<1>2. retry' \in Retries /\ paused' \in BOOLEAN
  BY DEF TypeOK, Pause, Retries
<1>3. events' \in Nat
  BY HappensType DEF Pause
<1> QED
  BY <1>1, <1>2, <1>3 DEF TypeOK, Pause, server, files, merging

LEMMA SetScopeType ==
    ASSUME TypeOK, SetScope
    PROVE  TypeOK'
  BY DEF TypeOK, SetScope, Happens, server, files, merging, state

LEMMA ElapseType ==
    ASSUME TypeOK, Elapse
    PROVE  TypeOK'
<1>1. retry' \in Retries
  BY DEF TypeOK, Elapse, Retries
<1> QED
  BY <1>1 DEF TypeOK, Elapse, server, files, merging

LEMMA CrashType ==
    ASSUME TypeOK, Crash
    PROVE  TypeOK'
  BY DEF TypeOK, Crash, Happens, server, files, merging, state

\* A step of the gate, with what a status or a session makes of it.
LEMMA GateOnlyType ==
    ASSUME TypeOK, gate' # None => gate' \in Holders,
           activity' \in {"none", "running", "done"},
           session' \in {"absent", "fresh", "expired", "dead"},
           UNCHANGED <<server, files, queue, merging, state, preview, ops, events>>
    PROVE  TypeOK'
  BY DEF TypeOK, server, files, merging, state

LEMMA GoesType ==
    ASSUME NEW at, Goes(at)
    PROVE  gate' \in Holders
  BY DEF Goes, Has

LEMMA EndRunType ==
    ASSUME TypeOK, NEW result, EndRun(result),
           session' \in {"absent", "fresh", "expired", "dead"}, events' \in Nat
    PROVE  TypeOK'
<1>1. retry' \in Retries
  BY DEF TypeOK, EndRun, Retries
<1>2. activity' \in {"none", "running", "done"}
  BY DEF TypeOK, EndRun, Finished
<1>3. /\ gate' = None
      /\ UNCHANGED <<server, files, queue, merging, binding, bindings, paused,
                     scope, preview, ops>>
  BY DEF EndRun
<1> QED
  BY <1>1, <1>2, <1>3 DEF TypeOK, server, files, merging

LEMMA RunType ==
    ASSUME TypeOK, NEW manual, Run(manual)
    PROVE  /\ TypeOK'
           /\ gate = None /\ binding # None
           /\ Has(gate', "checked", binding.id, binding.remote, 0, {}, 0, "none")
           /\ UNCHANGED <<server, session, files, queue, merging, state, preview,
                          activity, ops, events>>
<1>1. /\ Free /\ binding # None
      /\ gate' = Holder("checked", binding.remote, 0, binding.id)
      /\ UNCHANGED <<server, session, files, queue, merging, state, preview,
                     activity, ops, events>>
  BY DEF Run
<1>2. binding.remote \in Remotes /\ binding.id \in Nat
  BY <1>1 DEF TypeOK, Bindings
<1>3. Has(gate', "checked", binding.id, binding.remote, 0, {}, 0, "none")
  BY <1>1, <1>2, HolderMade DEF Points
<1>4. gate' \in Holders /\ session' = session /\ activity' = activity
  BY <1>1, <1>3 DEF Has
<1>5. session \in {"absent", "fresh", "expired", "dead"}
      /\ activity \in {"none", "running", "done"}
  BY DEF TypeOK
<1>6. TypeOK'
  BY <1>1, <1>4, <1>5, GateOnlyType
<1> QED
  BY <1>1, <1>3, <1>6 DEF Free

LEMMA LaunchType ==
    ASSUME TypeOK, Launch
    PROVE  TypeOK' /\ gate.at = "checked" /\ Goes("handshake")
<1>1. /\ gate # None /\ gate.at = "checked" /\ Goto("handshake") /\ activity' = "running"
      /\ session' = session
      /\ UNCHANGED <<server, files, queue, merging, state, preview, ops, events>>
  BY DEF Launch, Running
<1>2. Goes("handshake")
  BY <1>1, GotoGoes DEF Points
<1>3. session \in {"absent", "fresh", "expired", "dead"}
  BY DEF TypeOK
<1> QED
  BY <1>1, <1>2, <1>3, GoesType, GateOnlyType

\* The steps of a run that only end it.
Ends == RunCancelled \/ RunFails \/ Rejected

LEMMA EndsType ==
    ASSUME TypeOK, Ends
    PROVE  /\ TypeOK' /\ gate' = None
           /\ UNCHANGED <<server, files, queue, merging, binding, scope, ops>>
<1>1. PICK result : EndRun(result)
  BY DEF Ends, RunCancelled, RunFails, Rejected
<1>2. session' = session
  BY DEF Ends, RunCancelled, RunFails, Rejected
<1>3. events' \in Nat
  <2>1. CASE RunFails
    BY <2>1, HappensType DEF RunFails
  <2>2. CASE RunCancelled \/ Rejected
    BY <2>2 DEF RunCancelled, Rejected, TypeOK
  <2> QED
    BY <2>1, <2>2 DEF Ends
<1>4. session \in {"absent", "fresh", "expired", "dead"}
  BY DEF TypeOK
<1>5. TypeOK'
  BY <1>1, <1>2, <1>3, <1>4, EndRunType
<1> QED
  BY <1>1, <1>5 DEF EndRun

LEMMA UnauthorizedType ==
    ASSUME TypeOK, Unauthorized
    PROVE  /\ TypeOK'
           /\ \/ gate' = None
              \/ /\ gate # None /\ gate \in Holders
                 /\ gate.at \notin {"merge", "upload", "download", "checked"}
                 /\ Has(gate', "handshake", gate.binding, gate.remote, gate.seen, {},
                        gate.op, gate.reply)
           /\ UNCHANGED <<server, files, queue, merging, binding, scope, ops>>
<1>1. gate # None /\ gate \in Holders
      /\ gate.at \notin {"merge", "upload", "download", "checked"}
  BY DEF Unauthorized, AtNetwork, InCycle, TypeOK
<1>2. CASE \E result : EndRun(result) /\ UNCHANGED <<session, events>>
  <2>1. PICK result : EndRun(result)
    BY <1>2
  <2>2. session' \in {"absent", "fresh", "expired", "dead"} /\ events' \in Nat
    BY <1>2 DEF TypeOK
  <2>3. TypeOK'
    BY <2>1, <2>2, EndRunType
  <2> QED
    BY <2>1, <2>3 DEF EndRun
<1>3. CASE /\ session' = "fresh"
           /\ gate' = [gate EXCEPT !.at = "handshake", !.retried = TRUE,
                                   !.last = FALSE, !.todo = {}]
           /\ UNCHANGED <<server, files, queue, merging, state, preview,
                          activity, ops, events>>
  <2>1. Has(gate', "handshake", gate.binding, gate.remote, gate.seen, {}, gate.op, gate.reply)
    <3>1. "handshake" \in Points /\ {} \in SUBSET Nat /\ 0 \in Nat
      BY DEF Points
    <3> QED
      BY <1>1, <1>3, <3>1, HolderUpdates
  <2>2. activity' \in {"none", "running", "done"}
    BY <1>3 DEF TypeOK
  <2>3. TypeOK'
    BY <1>3, <2>1, <2>2, GateOnlyType DEF Has
  <2> QED
    BY <1>1, <1>3, <2>1, <2>3 DEF state
<1> QED
  BY <1>2, <1>3 DEF Unauthorized

LEMMA HandshakeType ==
    ASSUME TypeOK, Handshake
    PROVE  TypeOK' /\ gate.at = "handshake" /\ Goes("discover")
<1>1. /\ gate # None /\ gate.at = "handshake" /\ Goto("discover") /\ activity' = activity
      /\ session' = session
      /\ UNCHANGED <<server, files, queue, merging, state, preview, ops, events>>
  BY DEF Handshake, Running
<1>2. Goes("discover")
  BY <1>1, GotoGoes DEF Points
<1>3. session \in {"absent", "fresh", "expired", "dead"}
      /\ activity \in {"none", "running", "done"}
  BY DEF TypeOK
<1> QED
  BY <1>1, <1>2, <1>3, GoesType, GateOnlyType

LEMMA UploadObjectType ==
    ASSUME TypeOK, UploadObject
    PROVE  TypeOK' /\ gate.at = "upload_object" /\ Goes("commit")
<1>1. /\ gate # None /\ gate.at = "upload_object" /\ Goto("commit") /\ activity' = activity
      /\ session' = session
      /\ UNCHANGED <<server, files, queue, merging, state, preview, ops, events>>
  BY DEF UploadObject, Running
<1>2. Goes("commit")
  BY <1>1, GotoGoes DEF Points
<1>3. session \in {"absent", "fresh", "expired", "dead"}
      /\ activity \in {"none", "running", "done"}
  BY DEF TypeOK
<1> QED
  BY <1>1, <1>2, <1>3, GoesType, GateOnlyType

-----------------------------------------------------------------------------
(* New jobs *)

\* The jobs made for the elements of a set, numbered from n, with an identity and
\* a content each.
MadeFor(Q, S, n, id, c) ==
    /\ \A x \in S : NewJob(n + Order(S)[x], id[x], c[x]) \in Q
    /\ \A j \in Q : \E x \in S : j = NewJob(n + Order(S)[x], id[x], c[x])

\* What the invariants need to know of new jobs.
Numbered(Q, n, m) ==
    /\ Q \subseteq Jobs /\ m \in Nat /\ n <= m
    /\ \A j \in Q : n < j.op /\ j.op <= m /\ j.stage = "pending"
    /\ \A j, k \in Q : j.op = k.op => j = k
Covers(Q, S, id, c) ==
    /\ \A j \in Q : \E x \in S : j.id = id[x] /\ j.content = c[x]
    /\ \A x \in S : \E j \in Q : j.id = id[x] /\ j.content = c[x]

\* They get operation ids of their own behind n.
LEMMA NewJobs ==
    ASSUME NEW S, IsFiniteSet(S), NEW n \in Nat, NEW id \in [S -> Ids], NEW c \in [S -> Hashes],
           NEW Q, MadeFor(Q, S, n, id, c)
    PROVE  Numbered(Q, n, n + Cardinality(S)) /\ Covers(Q, S, id, c)
<1> USE DEF MadeFor
<1>1. /\ Cardinality(S) \in Nat
      /\ Order(S) \in [S -> 1..Cardinality(S)]
      /\ \A x, y \in S : Order(S)[x] = Order(S)[y] => x = y
  BY OrderInjects
<1>2. \A x \in S : Order(S)[x] \in 1..Cardinality(S)
  BY <1>1
<1>3. \A x \in S : /\ n + Order(S)[x] \in Nat
                   /\ n < n + Order(S)[x] /\ n + Order(S)[x] <= n + Cardinality(S)
  BY <1>1, <1>2
<1>4. ASSUME NEW x \in S
      PROVE  LET j == NewJob(n + Order(S)[x], id[x], c[x]) IN
             /\ j \in Jobs /\ j.op = n + Order(S)[x] /\ j.id = id[x]
             /\ j.content = c[x] /\ j.stage = "pending"
  <2>1. id[x] \in Ids /\ c[x] \in Hashes
    OBVIOUS
  <2> QED
    BY <1>3, <2>1, JobType
<1>5. ASSUME NEW j \in Q
      PROVE  \E x \in S : /\ j = NewJob(n + Order(S)[x], id[x], c[x])
                          /\ j \in Jobs /\ j.op = n + Order(S)[x] /\ j.id = id[x]
                          /\ j.content = c[x] /\ j.stage = "pending"
  <2>1. PICK x \in S : j = NewJob(n + Order(S)[x], id[x], c[x])
    OBVIOUS
  <2> QED
    BY <1>4, <2>1
<1>6. \A j, k \in Q : j.op = k.op => j = k
  <2> SUFFICES ASSUME NEW j \in Q, NEW k \in Q, j.op = k.op
               PROVE  j = k
    OBVIOUS
  <2>1. PICK x \in S : j = NewJob(n + Order(S)[x], id[x], c[x]) /\ j.op = n + Order(S)[x]
    BY <1>5
  <2>2. PICK y \in S : k = NewJob(n + Order(S)[y], id[y], c[y]) /\ k.op = n + Order(S)[y]
    BY <1>5
  <2>3. Order(S)[x] = Order(S)[y]
    <3>1. Order(S)[x] \in Nat /\ Order(S)[y] \in Nat
      BY <1>1, <1>2
    <3>2. n + Order(S)[x] = n + Order(S)[y]
      BY <2>1, <2>2
    <3> QED
      BY <3>1, <3>2
  <2>4. x = y
    BY <1>1, <2>3
  <2> QED
    BY <2>1, <2>2, <2>4
<1>7. \A x \in S : \E j \in Q : j.id = id[x] /\ j.content = c[x]
  BY <1>4
<1>8. Q \subseteq Jobs
  BY <1>5
<1>9. \A j \in Q : n < j.op /\ j.op <= n + Cardinality(S) /\ j.stage = "pending"
  BY <1>3, <1>5
<1>10. \A j \in Q : \E x \in S : j.id = id[x] /\ j.content = c[x]
  BY <1>5
<1>11. n + Cardinality(S) \in Nat /\ n <= n + Cardinality(S)
  BY <1>1
<1> QED
  BY <1>6, <1>7, <1>8, <1>9, <1>10, <1>11 DEF Numbered, Covers

\* The puts of a set of paths.
LEMMA PutsAre ==
    ASSUME TypeOK, NEW S \in SUBSET Paths, NEW n \in Nat
    PROVE  Numbered(Puts(S, n), n, n + Cardinality(S)) /\ Covers(Puts(S, n), S, row, disk)
<1> DEFINE id == [p \in S |-> row[p]]
           c == [p \in S |-> disk[p]]
<1>1. IsFiniteSet(S)
  BY FS_Subset, ConstantsAssumption
<1>2. id \in [S -> Ids] /\ c \in [S -> Hashes]
  BY DEF TypeOK
<1>3. MadeFor(Puts(S, n), S, n, id, c)
  BY DEF Puts, MadeFor
<1>4. \A p \in S : id[p] = row[p] /\ c[p] = disk[p]
  OBVIOUS
<1> HIDE DEF id, c
<1>5. Numbered(Puts(S, n), n, n + Cardinality(S)) /\ Covers(Puts(S, n), S, id, c)
  BY <1>1, <1>2, <1>3, NewJobs
<1> QED
  BY <1>4, <1>5 DEF Covers

\* The deletions of a set of identities.
LEMMA DeletionsAre ==
    ASSUME NEW S \in SUBSET Ids, NEW n \in Nat
    PROVE  /\ Numbered(Deletions(S, n), n, n + Cardinality(S))
           /\ \A j \in Deletions(S, n) : j.id \in S /\ j.content = Absent
           /\ \A f \in S : \E j \in Deletions(S, n) : j.id = f /\ j.content = Absent
<1> DEFINE id == [f \in S |-> f]
           c == [f \in S |-> Absent]
<1>1. IsFiniteSet(S)
  <2>1. IsFiniteSet(Remotes \cup {Here})
    BY FS_AddElement, ConstantsAssumption
  <2>2. IsFiniteSet(Ids)
    BY <2>1, FS_Product, ConstantsAssumption DEF Ids
  <2> QED
    BY <2>2, FS_Subset
<1>2. id \in [S -> Ids] /\ c \in [S -> Hashes]
  BY DEF Hashes
<1>3. MadeFor(Deletions(S, n), S, n, id, c)
  BY DEF Deletions, MadeFor
<1>4. \A f \in S : id[f] = f /\ c[f] = Absent
  OBVIOUS
<1> HIDE DEF id, c
<1>5. Numbered(Deletions(S, n), n, n + Cardinality(S)) /\ Covers(Deletions(S, n), S, id, c)
  BY <1>1, <1>2, <1>3, NewJobs
<1> QED
  BY <1>4, <1>5 DEF Covers

LEMMA DiscoverType ==
    ASSUME TypeOK, Discover
    PROVE  TypeOK' /\ gate.at = "discover" /\ Goes("pull")
<1>1. gate # None /\ gate.at = "discover" /\ Goto("pull")
  BY DEF Discover, Running
<1>2. Goes("pull")
  BY <1>1, GotoGoes DEF Points
<1>3. ops \in Nat /\ Vanished \in SUBSET Ids /\ Changed \in SUBSET Paths
  BY DEF TypeOK, Vanished, Changed, LocalPaths
<1>4. /\ Deletions(Vanished, ops) \subseteq Jobs /\ ops + Cardinality(Vanished) \in Nat
  BY <1>3, DeletionsAre DEF Numbered
<1>5. /\ Puts(Changed, ops + Cardinality(Vanished)) \subseteq Jobs
      /\ ops + Cardinality(Vanished) + Cardinality(Changed) \in Nat
  BY <1>3, <1>4, PutsAre DEF Numbered
<1>6. queue' \subseteq Jobs /\ ops' \in Nat
  BY <1>4, <1>5 DEF Discover, TypeOK
<1>7. observed' \in [Ids -> Hashes]
  BY DEF TypeOK, Discover, Hashes, Ids, PathOf
<1>8. /\ inherited' \subseteq Paths
      /\ UNCHANGED <<server, session, disk, row, initial, window, inbox, heads,
                     conflicts, state, preview, activity, events>>
  BY DEF Discover, TypeOK
<1>9. gate' \in Holders
  BY <1>2, GoesType
<1>10. TypeOK'
  BY <1>6, <1>7, <1>8, <1>9 DEF TypeOK, server, state
<1> QED
  BY <1>1, <1>2, <1>10

\* What pull_page works on.
LEMMA PullType ==
    ASSUME TypeOK, Pull
    PROVE  /\ TypeOK' /\ gate.at = "pull" /\ Held
           /\ \/ inbox # 0 /\ Goes("staged")
              \/ /\ inbox = 0 /\ initial # None
                 /\ gate \in Holders
                 /\ Has(gate', "item", gate.binding, gate.remote, gate.seen,
                        Page(initial.items), gate.op, gate.reply)
              \/ inbox = 0 /\ initial = None /\ Goes("fetch")
           /\ UNCHANGED <<server, session, files, queue, merging, state, preview,
                          activity, ops, events>>
<1>1. /\ gate # None /\ gate.at = "pull" /\ Held
      /\ UNCHANGED <<server, session, files, queue, merging, state, preview,
                     activity, ops, events>>
  BY DEF Pull, Running
<1>2. gate \in Holders
  BY <1>1 DEF TypeOK
<1>3. \/ inbox # 0 /\ Goes("staged")
      \/ /\ inbox = 0 /\ initial # None
         /\ Has(gate', "item", gate.binding, gate.remote, gate.seen,
                Page(initial.items), gate.op, gate.reply)
      \/ inbox = 0 /\ initial = None /\ Goes("fetch")
  <2>1. CASE inbox # 0
    <3>1. Goto("staged")
      BY <2>1 DEF Pull
    <3> QED
      BY <1>1, <2>1, <3>1, GotoGoes DEF Points
  <2>2. CASE inbox = 0 /\ initial # None
    <3>1. Page(initial.items) \in SUBSET Nat
      BY <2>2 DEF TypeOK, Initials, Page
    <3>2. gate' = [gate EXCEPT !.at = "item", !.todo = Page(initial.items)]
      BY <2>2 DEF Pull
    <3>3. "item" \in Points /\ 0 \in Nat /\ "none" \in {"none", "accepted", "rejected"}
      BY DEF Points
    <3> QED
      BY <1>2, <2>2, <3>1, <3>2, <3>3, HolderUpdates
  <2>3. CASE inbox = 0 /\ initial = None
    <3>1. Goto("fetch")
      BY <2>3 DEF Pull
    <3> QED
      BY <1>1, <2>3, <3>1, GotoGoes DEF Points
  <2> QED
    BY <2>1, <2>2, <2>3
<1>4. gate' \in Holders
  BY <1>3, GoesType DEF Has
<1>5. session' \in {"absent", "fresh", "expired", "dead"}
      /\ activity' \in {"none", "running", "done"}
  BY <1>1 DEF TypeOK
<1>6. TypeOK'
  BY <1>1, <1>4, <1>5, GateOnlyType
<1> QED
  BY <1>1, <1>2, <1>3, <1>6

-----------------------------------------------------------------------------
(* The inductive invariant of CursorAndHeads *)

Modes == {"merge", "upload", "download"}

\* Nothing is bound while a bind holds the gate; a cycle keeps the binding and
\* the remote it started with, unless the binding is gone.
Gates ==
    gate # None =>
        /\ gate.seen <= Len(log[gate.remote])
        /\ gate.at \in Modes => binding = None
        /\ gate.at \notin Modes /\ binding # None =>
              gate.binding = binding.id /\ gate.remote = binding.remote
        /\ gate.at = "staged" => binding # None /\ inbox # 0
        /\ gate.at \in {"fetch", "item"} /\ binding # None => inbox = 0
        /\ gate.at = "fetch" /\ binding # None => initial = None
        /\ gate.at \notin {"item", "staged"} => gate.todo = {}
        /\ gate.op <= ops

\* Without a binding its tables are empty.
Unbound ==
    binding = None =>
        /\ heads = [f \in Ids |-> 0]
        /\ initial = None /\ window = 0 /\ inbox = 0 /\ conflicts = {}

\* The tables of the binding point into the log of its remote; the inbox holds
\* the revision behind the cursor, or an item of the initial merge.
Positions ==
    binding # None =>
        /\ binding.cursor <= Len(log[binding.remote])
        /\ window <= Len(log[binding.remote]) /\ inbox <= Len(log[binding.remote])
        /\ initial = None /\ inbox # 0 => inbox = binding.cursor + 1
        /\ initial # None =>
              /\ binding.cursor = 0 /\ initial.boundary <= Len(log[binding.remote])
              /\ initial.items \subseteq 1..initial.boundary
              /\ inbox # 0 => inbox \in initial.items

\* The page a cycle works on begins behind the cursor and has no gap.
InOrder(todo) ==
    \A s \in todo :
        /\ binding.cursor < s /\ s <= Len(log[binding.remote]) /\ s # inbox
        /\ \A t \in 1..s : t <= binding.cursor \/ t \in todo \/ t = inbox
Taken ==
    gate # None /\ binding # None /\ gate.at \in {"item", "staged"} =>
        IF initial = None THEN InOrder(gate.todo)
        ELSE gate.todo \subseteq initial.items \ {inbox}

\* During an initial merge the head of a file is its newest revision in the
\* snapshot, or that revision is still to be merged.
Merging ==
    binding # None /\ initial # None =>
        \A f \in Ids :
            \/ Latest(binding.remote, f, initial.boundary) = 0
            \/ heads[f] >= Latest(binding.remote, f, initial.boundary)
            \/ Latest(binding.remote, f, initial.boundary) \in initial.items

\* The tables of the binding agree with the log of its remote.
Tables == Unbound /\ Positions /\ Merging /\ CursorAndHeads

\* An operation is on the wire, or a server has it.
Sent(op) ==
    \/ \E m \in wire : m.op = op
    \/ \E r \in Remotes : \E s \in 1..Len(log[r]) : log[r][s].by = op

\* Operation ids are given once.
Operations ==
    /\ \A j \in queue : 0 < j.op /\ j.op <= ops
    /\ \A j, k \in queue : j.op = k.op => j = k
    /\ \A m \in wire : 0 < m.op /\ m.op <= ops
    /\ \A r \in Remotes : \A s \in 1..Len(log[r]) : log[r][s].by <= ops

\* What was sent of a job that is queued is the job's, and went to the remote of
\* the binding.
Owned ==
    \A j \in queue :
        /\ Sent(j.op) => binding # None /\ j.stage # "pending"
        /\ \A m \in wire : m.op = j.op =>
              m.remote = binding.remote /\ m.id = j.id /\ m.content = j.content
        /\ \A r \in Remotes : \A s \in 1..Len(log[r]) : log[r][s].by = j.op =>
              /\ r = binding.remote
              /\ log[r][s].id = j.id /\ log[r][s].content = j.content

\* The run's commit goes to its remote; when it is accepted, the log has it.
Answered ==
    gate # None /\ gate.at = "sent" =>
        /\ \A m \in wire : m.op = gate.op => m.remote = gate.remote
        /\ gate.reply = "accepted" =>
              \E s \in 1..Len(log[gate.remote]) : log[gate.remote][s].by = gate.op

Following == Gates /\ Taken /\ Tables /\ Operations /\ Owned /\ Answered

-----------------------------------------------------------------------------
(* Types, continued *)

\* A run that holds its binding works on the binding's remote.
LEMMA HolderOfBinding ==
    ASSUME TypeOK, Gates, gate # None, gate.at \notin Modes, binding # None
    PROVE  /\ gate \in Holders /\ binding \in Bindings
           /\ gate.remote = binding.remote /\ gate.remote \in Remotes
           /\ binding.cursor \in Nat /\ Len(log[gate.remote]) \in Nat
           /\ \A s \in 1..Len(log[gate.remote]) : log[gate.remote][s] \in Revisions
<1>1. gate \in Holders /\ binding \in Bindings /\ gate.remote = binding.remote
  BY DEF TypeOK, Gates
<1>2. binding.remote \in Remotes /\ binding.cursor \in Nat
  BY <1>1 DEF Bindings
<1>3. log[gate.remote] \in Seq(Revisions)
  BY <1>1, <1>2 DEF TypeOK
<1> QED
  BY <1>1, <1>2, <1>3

\* The parts of a revision.
LEMMA RevisionFields ==
    ASSUME NEW e \in Revisions
    PROVE  /\ e.id \in Ids /\ e.content \in Hashes /\ e.by \in Nat
           /\ PathOf(e.id) \in Paths
  BY DEF Revisions, Ids, PathOf

\* The revision that is staged.
LEMMA StagedRevision ==
    ASSUME TypeOK, Gates, Positions, gate # None, gate.at = "staged"
    PROVE  /\ binding # None /\ gate.remote = binding.remote
           /\ inbox \in 1..Len(log[gate.remote])
           /\ log[gate.remote][inbox] \in Revisions
<1>1. binding # None /\ inbox # 0 /\ gate.at \notin Modes
  BY DEF Gates, Modes
<1>2. inbox \in Nat /\ inbox <= Len(log[binding.remote])
  BY <1>1 DEF TypeOK, Positions
<1> QED
  BY <1>1, <1>2, HolderOfBinding

LEMMA FetchType ==
    ASSUME TypeOK, Gates, Positions, Fetch
    PROVE  /\ TypeOK' /\ gate.at = "fetch" /\ Held
           /\ \/ /\ gate \in Holders /\ window' = Boundary(gate.remote)
                 /\ Boundary(gate.remote) \in 0..Len(log[gate.remote])
                 /\ Has(gate', "item", gate.binding, gate.remote, gate.seen,
                        Page(binding.cursor + 1 .. Boundary(gate.remote)),
                        gate.op, gate.reply)
              \/ window' = window /\ Goes("push")
              \/ window' = window /\ gate' = None
           /\ UNCHANGED <<server, files, queue, initial, inbox, heads, conflicts,
                          inherited, binding, scope, ops>>
<1> DEFINE r == gate.remote
           page == Page(binding.cursor + 1 .. Boundary(r))
<1>1. gate # None /\ gate.at = "fetch" /\ Held /\ binding # None /\ gate.at \notin Modes
  BY DEF Fetch, Running, Held, Modes
<1>2. /\ gate \in Holders /\ r = binding.remote /\ r \in Remotes
      /\ Len(log[r]) \in Nat /\ binding.cursor \in Nat
  BY <1>1, HolderOfBinding
<1>3. Boundary(r) \in 0..Len(log[r])
  BY <1>1, <1>2 DEF Boundary, Positions, TypeOK
<1>4. page \in SUBSET Nat
  BY <1>2, <1>3 DEF Page
<1>5. session \in {"absent", "fresh", "expired", "dead"}
      /\ activity \in {"none", "running", "done"} /\ events \in Nat
  BY DEF TypeOK
<1>6. CASE /\ window' = Boundary(r)
           /\ gate' = [gate EXCEPT !.at = "item", !.todo = page]
           /\ UNCHANGED <<server, session, files, queue, initial, inbox, heads,
                          conflicts, inherited, state, preview, activity, ops, events>>
  <2> HIDE DEF page
  <2>1. Has(gate', "item", gate.binding, r, gate.seen, page, gate.op, gate.reply)
    <3>1. "item" \in Points /\ 0 \in Nat /\ "none" \in {"none", "accepted", "rejected"}
      BY DEF Points
    <3> QED
      BY <1>2, <1>4, <1>6, <3>1, HolderUpdates
  <2>2. window' \in Nat /\ gate' \in Holders
    BY <1>3, <1>6, <2>1 DEF Has
  <2>3. TypeOK'
    BY <1>6, <2>2 DEF TypeOK, server, files, state
  <2> QED
    BY <1>1, <1>2, <1>3, <1>6, <2>1, <2>3 DEF page, state
<1>7. CASE /\ Goto("push")
           /\ UNCHANGED <<server, session, files, queue, merging, state, preview,
                          activity, ops, events>>
  <2>1. Goes("push")
    BY <1>1, <1>7, GotoGoes DEF Points
  <2>2. TypeOK'
    BY <1>5, <1>7, <2>1, GoesType, GateOnlyType
  <2> QED
    BY <1>1, <1>7, <2>1, <2>2 DEF merging, state
<1>8. CASE EndRun("ok") /\ UNCHANGED <<session, events>>
  <2>1. TypeOK'
    BY <1>5, <1>8, EndRunType
  <2> QED
    BY <1>1, <1>8, <2>1 DEF EndRun, merging
<1> QED
  BY <1>6, <1>7, <1>8 DEF Fetch

LEMMA StageType ==
    ASSUME TypeOK, Stage
    PROVE  /\ TypeOK' /\ gate.at = "item" /\ Held /\ gate \in Holders
           /\ NextItem \in gate.todo /\ \A s \in gate.todo : NextItem <= s
           /\ inbox' = NextItem
           /\ Has(gate', "staged", gate.binding, gate.remote, gate.seen,
                  gate.todo \ {NextItem}, gate.op, gate.reply)
           /\ UNCHANGED <<server, files, queue, initial, window, heads, conflicts,
                          inherited, binding, scope, ops>>
<1>1. /\ gate # None /\ gate.at = "item" /\ gate.todo # {} /\ Held
      /\ inbox' = NextItem
      /\ gate' = [gate EXCEPT !.at = "staged", !.todo = @ \ {NextItem}]
      /\ UNCHANGED <<server, session, files, queue, initial, window, heads,
                     conflicts, inherited, state, preview, activity, ops, events>>
  BY DEF Stage, Running
<1>2. gate \in Holders /\ gate.todo \in SUBSET Nat
  BY <1>1, HolderFields DEF TypeOK
<1>3. NextItem \in gate.todo /\ \A s \in gate.todo : NextItem <= s
  BY <1>1, <1>2, MinIsLeast DEF NextItem
<1>4. Has(gate', "staged", gate.binding, gate.remote, gate.seen,
          gate.todo \ {NextItem}, gate.op, gate.reply)
  <2>1. "staged" \in Points /\ 0 \in Nat /\ "none" \in {"none", "accepted", "rejected"}
        /\ gate.todo \ {NextItem} \in SUBSET Nat
    BY <1>2 DEF Points
  <2>2. gate' = [gate EXCEPT !.at = "staged", !.todo = gate.todo \ {NextItem}]
    BY <1>1
  <2> QED
    BY <1>2, <2>1, <2>2, HolderUpdates
<1>5. inbox' \in Nat /\ gate' \in Holders
  BY <1>1, <1>2, <1>3, <1>4 DEF Has
<1>6. TypeOK'
  BY <1>1, <1>5 DEF TypeOK, server, files, state
<1> QED
  BY <1>1, <1>2, <1>3, <1>4, <1>6 DEF state

LEMMA PageDoneType ==
    ASSUME TypeOK, PageDone
    PROVE  /\ TypeOK' /\ gate # None /\ gate.at = "item" /\ gate.todo = {}
           /\ Goes("pull") \/ Goes("push") \/ gate' = None
           /\ UNCHANGED <<server, files, queue, merging, binding, scope, ops>>
<1>1. gate # None /\ gate.at = "item" /\ gate.todo = {}
  BY DEF PageDone, Running
<1>2. session \in {"absent", "fresh", "expired", "dead"}
      /\ activity \in {"none", "running", "done"} /\ events \in Nat
  BY DEF TypeOK
<1>3. CASE /\ Goto("pull") \/ Goto("push")
           /\ UNCHANGED <<server, session, files, queue, merging, state, preview,
                          activity, ops, events>>
  <2>1. Goes("pull") \/ Goes("push")
    BY <1>1, <1>3, GotoGoes DEF Points
  <2>2. TypeOK'
    BY <1>2, <1>3, <2>1, GoesType, GateOnlyType
  <2> QED
    BY <1>1, <1>3, <2>1, <2>2 DEF state
<1>4. CASE EndRun("ok") /\ UNCHANGED <<session, events>>
  <2>1. TypeOK'
    BY <1>2, <1>4, EndRunType
  <2> QED
    BY <1>1, <1>4, <2>1 DEF EndRun
<1> QED
  BY <1>3, <1>4 DEF PageDone

-----------------------------------------------------------------------------
(* Jobs that are captured, chosen, sent and superseded *)

\* The parts of a job.
LEMMA JobFields ==
    ASSUME NEW j \in Jobs
    PROVE  /\ j.op \in Nat /\ j.id \in Ids /\ j.content \in Hashes /\ j.base \in Nat
           /\ j.stage \in {"pending", "queued", "committing", "conflict"}
           /\ PathOf(j.id) \in Paths
  BY DEF Jobs, Ids, PathOf

\* A job at another stage is the same operation.
LEMMA JobUpdates ==
    ASSUME NEW j \in Jobs, NEW x \in {"pending", "queued", "committing", "conflict"},
           NEW base \in Nat
    PROVE  /\ [j EXCEPT !.stage = x] \in Jobs
           /\ [j EXCEPT !.stage = x].op = j.op /\ [j EXCEPT !.stage = x].id = j.id
           /\ [j EXCEPT !.stage = x].content = j.content
           /\ [j EXCEPT !.stage = x].stage = x
           /\ [j EXCEPT !.stage = x, !.base = base] \in Jobs
           /\ [j EXCEPT !.stage = x, !.base = base].op = j.op
           /\ [j EXCEPT !.stage = x, !.base = base].id = j.id
           /\ [j EXCEPT !.stage = x, !.base = base].content = j.content
           /\ [j EXCEPT !.stage = x, !.base = base].stage = x
<1>1. /\ [j EXCEPT !.stage = x] \in Jobs
      /\ [j EXCEPT !.stage = x].op = j.op /\ [j EXCEPT !.stage = x].id = j.id
      /\ [j EXCEPT !.stage = x].content = j.content
      /\ [j EXCEPT !.stage = x].stage = x
  BY DEF Jobs
<1>2. /\ [j EXCEPT !.stage = x, !.base = base] \in Jobs
      /\ [j EXCEPT !.stage = x, !.base = base].op = j.op
      /\ [j EXCEPT !.stage = x, !.base = base].id = j.id
      /\ [j EXCEPT !.stage = x, !.base = base].content = j.content
      /\ [j EXCEPT !.stage = x, !.base = base].stage = x
  BY DEF Jobs
<1> QED
  BY <1>1, <1>2

\* The same operation, which may have left the stage "pending".
Same(j, k) ==
    /\ j.op = k.op /\ j.id = k.id /\ j.content = k.content
    /\ j.stage = "pending" => k.stage = "pending"

\* sync_capture leaves no job pending and changes no other.
LEMMA CapturedAre ==
    ASSUME NEW q, q \subseteq Jobs
    PROVE  /\ Captured(q) \subseteq Jobs
           /\ \A j \in Captured(q) :
                /\ j.stage # "pending"
                /\ \E k \in q : /\ Same(j, k)
                                /\ k.stage = "pending" => j.stage = "queued"
                                /\ k.stage # "pending" => j.stage = k.stage
           /\ \A k \in q : \E j \in Captured(q) : Same(j, k)
<1>1. ASSUME NEW k \in q, NEW j,
             j = [k EXCEPT !.stage = IF @ = "pending" THEN "queued" ELSE @]
      PROVE  /\ j \in Jobs /\ j.stage # "pending" /\ Same(j, k)
             /\ k.stage = "pending" => j.stage = "queued"
             /\ k.stage # "pending" => j.stage = k.stage
  <2>1. k \in Jobs /\ 0 \in Nat
        /\ k.stage \in {"pending", "queued", "committing", "conflict"}
    BY JobFields
  <2> DEFINE x == IF k.stage = "pending" THEN "queued" ELSE k.stage
  <2>2. x \in {"pending", "queued", "committing", "conflict"} /\ x # "pending"
    BY <2>1
  <2>3. j = [k EXCEPT !.stage = x]
    BY <1>1
  <2>4. /\ k.stage = "pending" => x = "queued"
        /\ k.stage # "pending" => x = k.stage
    OBVIOUS
  <2> HIDE DEF x
  <2>5. j \in Jobs /\ j.op = k.op /\ j.id = k.id /\ j.content = k.content /\ j.stage = x
    BY <2>1, <2>2, <2>3 DEF Jobs
  <2> QED
    BY <2>2, <2>4, <2>5 DEF Same
<1>2. \A j \in Captured(q) : \E k \in q :
         j = [k EXCEPT !.stage = IF @ = "pending" THEN "queued" ELSE @]
  BY DEF Captured
<1>3. \A k \in q : \E j \in Captured(q) :
         j = [k EXCEPT !.stage = IF @ = "pending" THEN "queued" ELSE @]
  BY DEF Captured
<1>4. ASSUME NEW j \in Captured(q)
      PROVE  /\ j \in Jobs /\ j.stage # "pending"
             /\ \E k \in q : /\ Same(j, k)
                             /\ k.stage = "pending" => j.stage = "queued"
                             /\ k.stage # "pending" => j.stage = k.stage
  <2>1. PICK k \in q : j = [k EXCEPT !.stage = IF @ = "pending" THEN "queued" ELSE @]
    BY <1>2
  <2>2. /\ j \in Jobs /\ j.stage # "pending" /\ Same(j, k)
        /\ k.stage = "pending" => j.stage = "queued"
        /\ k.stage # "pending" => j.stage = k.stage
    BY <1>1, <2>1
  <2> QED
    BY <2>2
<1>5. ASSUME NEW k \in q
      PROVE  \E j \in Captured(q) : Same(j, k)
  <2>1. PICK j \in Captured(q) :
           j = [k EXCEPT !.stage = IF @ = "pending" THEN "queued" ELSE @]
    BY <1>3
  <2>2. Same(j, k)
    BY <1>1, <2>1
  <2> QED
    BY <2>2
<1> QED
  BY <1>4, <1>5

\* The oldest of some jobs is one of them.
LEMMA OldestIs ==
    ASSUME NEW q, q \subseteq Jobs, q # {}
    PROVE  Oldest(q) \in q /\ \A k \in q : Oldest(q).op <= k.op
<1> DEFINE S == {j.op : j \in q}
<1>1. S \subseteq Nat /\ S # {}
  BY JobFields
<1>2. Min(S) \in S /\ \A n \in S : Min(S) <= n
  BY <1>1, MinIsLeast
<1>3. PICK j \in q : j.op = Min(S)
  BY <1>2
<1>4. \A k \in q : j.op <= k.op
  BY <1>2, <1>3
<1> QED
  BY <1>4 DEF Oldest

\* The job of the run, when it is still queued.
LEMMA JobIs ==
    ASSUME \E j \in queue : j.op = gate.op
    PROVE  Job \in queue /\ Job.op = gate.op
  BY DEF Job

\* Without two jobs of an operation it is the one check_job found.
LEMMA JobStage ==
    ASSUME Operations, CheckJob
    PROVE  Job \in queue /\ Job.op = gate.op /\ Job.stage # "conflict"
<1>1. PICK j \in queue : j.op = gate.op /\ j.stage # "conflict"
  BY DEF CheckJob
<1>2. Job \in queue /\ Job.op = gate.op
  BY <1>1, JobIs
<1>3. Job = j
  BY <1>1, <1>2 DEF Operations
<1> QED
  BY <1>1, <1>2, <1>3

\* What sync_finish does to the binding and its tables.
LEMMA MoveCursorIs ==
    ASSUME TypeOK, binding # None, NEW s \in Nat, MoveCursor(s)
    PROVE  /\ inbox' = 0 /\ window' \in {0, window}
           /\ binding' \in Bindings
           /\ binding'.id = binding.id /\ binding'.remote = binding.remote
           /\ initial' # None => initial' \in Initials
           /\ \/ initial = None /\ initial' = None /\ binding'.cursor = s
              \/ /\ initial # None /\ initial.items \ {s} = {}
                 /\ initial' = None /\ binding'.cursor = initial.boundary
              \/ /\ initial # None /\ initial.items \ {s} # {}
                 /\ initial' # None /\ initial'.boundary = initial.boundary
                 /\ initial'.items = initial.items \ {s} /\ binding' = binding
<1>1. binding \in Bindings /\ (initial # None => initial \in Initials)
  BY DEF TypeOK
<1>2. inbox' = 0 /\ window' \in {0, window}
  BY DEF MoveCursor
<1>3. CASE initial = None
  <2>1. initial' = None /\ binding' = [binding EXCEPT !.cursor = s]
    BY <1>3 DEF MoveCursor
  <2> QED
    BY <1>1, <1>2, <1>3, <2>1 DEF Bindings
<1>4. CASE initial # None /\ initial.items \ {s} = {}
  <2>1. initial' = None /\ binding' = [binding EXCEPT !.cursor = initial.boundary]
    BY <1>4 DEF MoveCursor
  <2>2. initial.boundary \in Nat
    BY <1>1, <1>4 DEF Initials
  <2> QED
    BY <1>1, <1>2, <1>4, <2>1, <2>2 DEF Bindings
<1>5. CASE initial # None /\ initial.items \ {s} # {}
  <2>1. initial' = [initial EXCEPT !.items = initial.items \ {s}] /\ binding' = binding
    BY <1>5 DEF MoveCursor
  <2>2. /\ initial' \in Initials /\ initial'.boundary = initial.boundary
        /\ initial'.items = initial.items \ {s}
    BY <1>1, <1>5, <2>1 DEF Initials
  <2>3. initial' # None
    BY <2>2, NoneAssumption
  <2> QED
    BY <1>1, <1>2, <1>5, <2>1, <2>2, <2>3
<1> QED
  BY <1>3, <1>4, <1>5

\* Heads only grow, to the revision that is recorded.
LEMMA NewerIs ==
    ASSUME TypeOK, NEW f \in Ids, NEW s \in Nat
    PROVE  /\ Newer(f, s) \in [Ids -> Nat]
           /\ \A g \in Ids : g # f => Newer(f, s)[g] = heads[g]
           /\ heads[f] < s => Newer(f, s)[f] = s
           /\ heads[f] >= s => Newer(f, s)[f] = heads[f]
           /\ heads[f] \in Nat
  BY DEF TypeOK, Newer

-----------------------------------------------------------------------------
(* Types, concluded *)

LEMMA ApplyType ==
    ASSUME TypeOK, Gates, Positions, Apply
    PROVE  TypeOK' /\ gate.at = "staged" /\ Goes("item")
<1> DEFINE e == log[gate.remote][inbox]
<1>1. gate # None /\ gate.at = "staged" /\ Goto("item") /\ Finish(inbox) /\ Settled
      /\ (ApplyNothing(inbox) \/ ApplyConflict(inbox) \/ ApplyRemote(inbox))
  BY DEF Apply, Running
<1>2. binding # None /\ inbox \in Nat /\ e \in Revisions
  BY <1>1, StagedRevision DEF TypeOK
<1> HIDE DEF e
<1>3. e.id \in Ids /\ e.content \in Hashes /\ PathOf(e.id) \in Paths
  BY <1>2, RevisionFields
<1>4. Goes("item") /\ gate' \in Holders
  BY <1>1, GotoGoes, GoesType DEF Points
<1>5. MoveCursor(inbox) /\ heads' = Newer(e.id, inbox)
  BY <1>1 DEF Finish, e
<1>6. binding' \in Bindings /\ inbox' \in Nat /\ window' \in Nat
      /\ (initial' # None => initial' \in Initials)
  BY <1>2, <1>5, MoveCursorIs DEF TypeOK
<1>7. heads' \in [Ids -> Nat]
  BY <1>2, <1>3, <1>5, NewerIs
<1>8. /\ queue' \subseteq Jobs /\ conflicts' \subseteq Paths
      /\ disk' \in [Paths -> Hashes] /\ observed' \in [Ids -> Hashes]
      /\ row' \in [Paths -> Ids] /\ \A p \in Paths : PathOf(row'[p]) = p
  <2>1. CASE ApplyNothing(inbox)
    <3>1. queue' \subseteq queue /\ UNCHANGED <<files, conflicts>>
      BY <2>1 DEF ApplyNothing
    <3> QED
      BY <3>1 DEF TypeOK, files
  <2>2. CASE ApplyConflict(inbox)
    <3>1. /\ conflicts' = conflicts \cup {PathOf(e.id)} /\ UNCHANGED files
          /\ queue' = {IF PathOf(j.id) = PathOf(e.id) /\ j.stage # "pending"
                       THEN [j EXCEPT !.stage = "conflict"] ELSE j : j \in queue}
      BY <2>2 DEF ApplyConflict, e
    <3>2. \A j \in queue : [j EXCEPT !.stage = "conflict"] \in Jobs /\ j \in Jobs
      BY DEF TypeOK, Jobs
    <3>3. queue' \subseteq Jobs
      BY <3>1, <3>2
    <3> QED
      BY <1>3, <3>1, <3>3 DEF TypeOK, files
  <2>3. CASE ApplyRemote(inbox)
    <3>1. /\ disk' = [disk EXCEPT ![PathOf(e.id)] = e.content]
          /\ row' = [row EXCEPT ![PathOf(e.id)] = IF e.content = Absent THEN @ ELSE e.id]
          /\ observed' = [observed EXCEPT ![e.id] =
                IF e.content # Absent \/ Tracked(e.id) THEN e.content ELSE @]
          /\ UNCHANGED <<queue, conflicts>>
      BY <2>3 DEF ApplyRemote, e
    <3>2. disk' \in [Paths -> Hashes] /\ observed' \in [Ids -> Hashes]
      BY <1>3, <3>1 DEF TypeOK
    <3>3. row' \in [Paths -> Ids] /\ \A p \in Paths : PathOf(row'[p]) = p
      BY <1>3, <3>1 DEF TypeOK
    <3> QED
      BY <3>1, <3>2, <3>3 DEF TypeOK
  <2> QED
    BY <1>1, <2>1, <2>2, <2>3
<1>9. UNCHANGED <<server, session, inherited, bindings, paused, retry, scope, preview,
                  activity, ops, events>>
  BY <1>1 DEF Settled
<1>10. TypeOK'
  BY <1>4, <1>6, <1>7, <1>8, <1>9 DEF TypeOK, server
<1> QED
  BY <1>1, <1>4, <1>10

LEMMA PushType ==
    ASSUME TypeOK, Push
    PROVE  /\ TypeOK' /\ gate.at = "push" /\ Held
           /\ \/ /\ gate # None /\ gate \in Holders
                 /\ (initial # None /\ queue' = queue)
                    \/ (initial = None /\ queue' = Captured(InScope(queue)))
                 /\ Has(gate', "pull", gate.binding, gate.remote, gate.seen, gate.todo,
                        gate.op, gate.reply)
              \/ \E j \in queue' :
                 /\ gate # None /\ gate \in Holders
                 /\ initial = None /\ queue' = Captured(InScope(queue))
                 /\ j \in Sendable(queue') /\ \A k \in Sendable(queue') : j.op <= k.op
                 /\ \E at \in {"commit", "upload_object"} :
                      Has(gate', at, gate.binding, gate.remote, gate.seen, gate.todo,
                          j.op, gate.reply)
           /\ UNCHANGED <<server, files, merging, binding, scope, ops>>
<1>1. /\ gate # None /\ gate.at = "push" /\ Held
      /\ UNCHANGED <<server, session, files, merging, state, preview, activity, ops, events>>
  BY DEF Push, Running
<1>2. gate \in Holders
  BY <1>1 DEF TypeOK
<1>3. CASE initial # None
  <2>1. gate' = [gate EXCEPT !.at = "pull", !.last = TRUE] /\ queue' = queue
    BY <1>3 DEF Push
  <2>2. Has(gate', "pull", gate.binding, gate.remote, gate.seen, gate.todo,
            gate.op, gate.reply)
    <3>1. "pull" \in Points /\ 0 \in Nat /\ {} \in SUBSET Nat
          /\ "none" \in {"none", "accepted", "rejected"}
      BY DEF Points
    <3> QED
      BY <1>2, <2>1, <3>1, HolderUpdates
  <2>3. TypeOK'
    <3>1. gate' \in Holders
      BY <2>2 DEF Has
    <3> QED
      BY <1>1, <2>1, <3>1 DEF TypeOK, server, files, merging, state
  <2> QED
    BY <1>1, <1>2, <1>3, <2>1, <2>2, <2>3 DEF state
<1>4. CASE initial = None
  <2> DEFINE q == Captured(InScope(queue))
  <2>1. InScope(queue) \subseteq Jobs
    BY DEF TypeOK, InScope
  <2>2. q \subseteq Jobs
    BY <2>1, CapturedAre
  <2>3. queue' = q
    BY <1>4 DEF Push
  <2>4. CASE Sendable(q) = {}
    <3>1. gate' = [gate EXCEPT !.at = "pull", !.last = TRUE]
      BY <1>4, <2>4 DEF Push
    <3>2. Has(gate', "pull", gate.binding, gate.remote, gate.seen, gate.todo,
              gate.op, gate.reply)
      <4>1. "pull" \in Points /\ 0 \in Nat /\ {} \in SUBSET Nat
            /\ "none" \in {"none", "accepted", "rejected"}
        BY DEF Points
      <4> QED
        BY <1>2, <3>1, <4>1, HolderUpdates
    <3>3. gate' \in Holders
      BY <3>2 DEF Has
    <3>4. TypeOK'
      BY <1>1, <2>2, <2>3, <3>3 DEF TypeOK, server, files, merging, state
    <3> QED
      BY <1>1, <1>2, <1>4, <2>3, <3>2, <3>4 DEF state
  <2>5. CASE Sendable(q) # {}
    <3> DEFINE j == Oldest(Sendable(q))
               at == IF j.stage = "committing" \/ j.content = Absent
                     THEN "commit" ELSE "upload_object"
    <3>1. gate' = [gate EXCEPT !.op = j.op, !.at = at]
      BY <1>4, <2>5 DEF Push
    <3>2. Sendable(q) \subseteq Jobs /\ Sendable(q) \subseteq q
      BY <2>2 DEF Sendable
    <3>3. j \in Sendable(q) /\ \A k \in Sendable(q) : j.op <= k.op
      BY <2>5, <3>2, OldestIs
    <3>4. at \in {"commit", "upload_object"}
      OBVIOUS
    <3>5. j.op \in Nat
      BY <3>2, <3>3, JobFields
    <3> HIDE DEF j, at, q
    <3>6. Has(gate', at, gate.binding, gate.remote, gate.seen, gate.todo,
              j.op, gate.reply)
      <4>1. at \in Points /\ {} \in SUBSET Nat
            /\ "none" \in {"none", "accepted", "rejected"}
        BY <3>4 DEF Points
      <4> QED
        BY <1>2, <3>1, <3>5, <4>1, HolderUpdates
    <3>7. gate' \in Holders
      BY <3>6 DEF Has
    <3>8. TypeOK'
      BY <1>1, <2>2, <2>3, <3>7 DEF TypeOK, server, files, merging, state
    <3>9. j \in queue' /\ Sendable(queue') = Sendable(q)
      BY <2>3, <3>2, <3>3
    <3> QED
      BY <1>1, <1>2, <1>4, <2>3, <3>3, <3>4, <3>6, <3>8, <3>9 DEF state, q
  <2> QED
    BY <2>4, <2>5
<1> QED
  BY <1>3, <1>4

\* A commit leaves for the job of the run, which stays queued.
LEMMA CommitType ==
    ASSUME TypeOK, Operations, Commit
    PROVE  /\ TypeOK' /\ gate # None /\ gate \in Holders /\ gate.at = "commit" /\ Held
           /\ Job \in queue /\ Job.op = gate.op /\ Job.stage # "conflict"
           /\ \E j, m :
                /\ queue' = (queue \ {Job}) \cup {j} /\ wire' = wire \cup {m}
                /\ j \in Jobs /\ j.op = Job.op /\ j.id = Job.id /\ j.content = Job.content
                /\ j.stage = "committing"
                /\ m \in Commits /\ m.remote = gate.remote /\ m.op = Job.op
                /\ m.id = Job.id /\ m.content = Job.content
           /\ Has(gate', "sent", gate.binding, gate.remote, gate.seen, gate.todo,
                  gate.op, "none")
           /\ UNCHANGED <<log, peers, files, merging, binding, scope, ops>>
<1>1. /\ gate # None /\ gate.at = "commit" /\ Held
      /\ gate' = [gate EXCEPT !.at = "sent", !.reply = "none"]
      /\ UNCHANGED <<log, peers, session, files, merging, state, preview, activity,
                     ops, events>>
  BY DEF Commit, Running, CheckJob
<1>3. Job \in queue /\ Job.op = gate.op /\ Job.stage # "conflict"
  BY JobStage DEF Commit
<1>4. gate \in Holders /\ gate.remote \in Remotes
  BY <1>1, HolderFields DEF TypeOK
<1> DEFINE base == IF Job.stage = "committing" THEN Job.base ELSE heads[Job.id]
           j == [Job EXCEPT !.stage = "committing", !.base = base]
           m == [remote |-> gate.remote, op |-> Job.op, id |-> Job.id,
                 content |-> Job.content, base |-> base]
<1>5. queue' = (queue \ {Job}) \cup {j} /\ wire' = wire \cup {m}
  BY DEF Commit
<1>6. Job \in Jobs
  BY <1>3 DEF TypeOK
<1>7. base \in Nat
  BY <1>6, JobFields DEF TypeOK
<1> HIDE DEF base
<1>8. /\ j \in Jobs /\ j.op = Job.op /\ j.id = Job.id /\ j.content = Job.content
      /\ j.stage = "committing"
  BY <1>6, <1>7 DEF Jobs
<1>9. /\ m \in Commits /\ m.remote = gate.remote /\ m.op = Job.op
      /\ m.id = Job.id /\ m.content = Job.content
  BY <1>4, <1>6, <1>7, JobFields DEF Commits
<1>10. Has(gate', "sent", gate.binding, gate.remote, gate.seen, gate.todo, gate.op, "none")
  <2>1. "sent" \in Points /\ 0 \in Nat /\ {} \in SUBSET Nat
        /\ "none" \in {"none", "accepted", "rejected"}
    BY DEF Points
  <2> QED
    BY <1>1, <1>4, <2>1, HolderUpdates
<1> HIDE DEF j, m
<1>11. queue' \subseteq Jobs /\ wire' \subseteq Commits /\ gate' \in Holders
  BY <1>5, <1>8, <1>9, <1>10 DEF TypeOK, Has
<1>12. TypeOK'
  BY <1>1, <1>11 DEF TypeOK, files, merging, state
<1>13. UNCHANGED <<log, peers, files, merging, binding, scope, ops>>
  BY <1>1 DEF state
<1> QED
  BY <1>1, <1>3, <1>4, <1>5, <1>8, <1>9, <1>10, <1>12, <1>13

\* What the answer acknowledges is a revision of the job's file.
LEMMA AckType ==
    ASSUME TypeOK, Gates, Operations, Owned, Answered, Ack
    PROVE  /\ TypeOK' /\ gate # None /\ gate \in Holders /\ gate.at = "sent" /\ Held
           /\ Job \in queue /\ Job.op = gate.op /\ Job.stage # "conflict"
           /\ queue' = queue \ {Job}
           /\ gate.remote = binding.remote
           /\ Sequence(gate.op) \in 1..Len(log[gate.remote])
           /\ log[gate.remote][Sequence(gate.op)].by = gate.op
           /\ log[gate.remote][Sequence(gate.op)].id = Job.id
           /\ log[gate.remote][Sequence(gate.op)].content = Job.content
           /\ heads' = Newer(Job.id, Sequence(gate.op))
           /\ Has(gate', "push", gate.binding, gate.remote, gate.seen, gate.todo, 0, "none")
           /\ UNCHANGED <<server, files, initial, window, inbox, conflicts, inherited,
                          binding, scope, ops>>
<1>1. /\ gate # None /\ gate.at = "sent" /\ gate.reply = "accepted" /\ CheckJob /\ Held
      /\ queue' = queue \ {Job}
      /\ heads' = Newer(Job.id, Sequence(gate.op))
      /\ gate' = [gate EXCEPT !.at = "push", !.op = 0, !.reply = "none"]
      /\ UNCHANGED <<server, session, files, initial, window, inbox, conflicts,
                     inherited, state, preview, activity, ops, events>>
  BY DEF Ack, Running, CheckJob
<1>2. Job \in queue /\ Job.op = gate.op /\ Job.stage # "conflict"
  BY <1>1, JobStage
<1>3. gate \in Holders /\ gate.remote = binding.remote /\ gate.remote \in Remotes
  BY <1>1, HolderOfBinding DEF Held, Modes
<1>4. \E s \in 1..Len(log[gate.remote]) : log[gate.remote][s].by = gate.op
  BY <1>1 DEF Answered
<1> DEFINE s == Sequence(gate.op)
<1>5. s \in 1..Len(log[gate.remote]) /\ log[gate.remote][s].by = gate.op
  BY <1>4 DEF Sequence
<1> HIDE DEF s
<1>6. log[gate.remote][s].id = Job.id /\ log[gate.remote][s].content = Job.content
  BY <1>2, <1>3, <1>5 DEF Owned
<1>7. s \in Nat /\ Job.id \in Ids
  <2>1. s \in Nat
    BY <1>3, <1>5 DEF TypeOK
  <2>2. Job \in Jobs
    BY <1>2 DEF TypeOK
  <2> QED
    BY <2>1, <2>2, JobFields
<1>8. heads' \in [Ids -> Nat]
  BY <1>1, <1>7, NewerIs DEF s
<1>9. Has(gate', "push", gate.binding, gate.remote, gate.seen, gate.todo, 0, "none")
  <2>1. "push" \in Points /\ 0 \in Nat /\ {} \in SUBSET Nat
        /\ "none" \in {"none", "accepted", "rejected"}
    BY DEF Points
  <2> QED
    BY <1>1, <1>3, <2>1, HolderUpdates
<1>10. gate' \in Holders /\ queue' \subseteq Jobs
  BY <1>1, <1>9 DEF Has, TypeOK
<1>11. TypeOK'
  BY <1>1, <1>8, <1>10 DEF TypeOK, server, files, state
<1> QED
  BY <1>1, <1>2, <1>3, <1>5, <1>6, <1>9, <1>11 DEF s, state

\* The logs only grow, at their ends.
LogsGrow ==
    \A r \in Remotes :
        /\ Len(log[r]) <= Len(log'[r])
        /\ \A s \in 1..Len(log[r]) : log'[r][s] = log[r][s]

\* A revision is appended to a remote's log.
LEMMA AppendGrows ==
    ASSUME TypeOK, NEW r \in Remotes, NEW e \in Revisions,
           log' = [log EXCEPT ![r] = Append(@, e)]
    PROVE  /\ log' \in [Remotes -> Seq(Revisions)] /\ LogsGrow
           /\ Len(log'[r]) = Len(log[r]) + 1 /\ log'[r][Len(log[r]) + 1] = e
           /\ \A x \in Remotes : x # r => log'[x] = log[x]
<1>1. log \in [Remotes -> Seq(Revisions)] /\ log[r] \in Seq(Revisions)
  BY DEF TypeOK
<1>2. log'[r] = Append(log[r], e) /\ \A x \in Remotes : x # r => log'[x] = log[x]
  BY <1>1
<1>3. /\ log'[r] \in Seq(Revisions) /\ Len(log'[r]) = Len(log[r]) + 1
      /\ \A s \in 1..Len(log[r]) : log'[r][s] = log[r][s]
      /\ log'[r][Len(log[r]) + 1] = e /\ Len(log[r]) \in Nat
  BY <1>1, <1>2
<1>4. log' \in [Remotes -> Seq(Revisions)]
  BY <1>1, <1>3
<1>5. LogsGrow
  <2> SUFFICES ASSUME NEW x \in Remotes
               PROVE  /\ Len(log[x]) <= Len(log'[x])
                      /\ \A s \in 1..Len(log[x]) : log'[x][s] = log[x][s]
    BY DEF LogsGrow
  <2>1. CASE x = r
    BY <1>3, <2>1
  <2>2. CASE x # r
    <3>1. Len(log[x]) \in Nat
      BY <1>1
    <3> QED
      BY <1>2, <2>2, <3>1
  <2> QED
    BY <2>1, <2>2
<1> QED
  BY <1>2, <1>3, <1>4, <1>5

\* Logs that do not change grow by nothing.
LEMMA SameLogGrows ==
    ASSUME TypeOK, log' = log
    PROVE  LogsGrow
<1>1. \A r \in Remotes : Len(log[r]) \in Nat
  BY DEF TypeOK
<1> QED
  BY <1>1 DEF LogsGrow

LEMMA ServeType ==
    ASSUME TypeOK, NEW m \in wire, Serve(m)
    PROVE  /\ TypeOK' /\ LogsGrow /\ wire' = wire \ {m} /\ m \in Commits
           /\ \/ log' = log
              \/ /\ ~Known(m) /\ Acceptable(m)
                 /\ log' = [log EXCEPT ![m.remote] =
                      Append(@, [id |-> m.id, content |-> m.content, by |-> m.op])]
           /\ \/ SameGate
              \/ /\ gate # None /\ gate \in Holders /\ gate.at = "sent" /\ gate.op = m.op
                 /\ \E reply \in {"accepted", "rejected"} :
                      /\ reply = "accepted" =>
                            \E s \in 1..Len(log'[m.remote]) : log'[m.remote][s].by = m.op
                      /\ Has(gate', gate.at, gate.binding, gate.remote, gate.seen,
                             gate.todo, gate.op, reply)
           /\ UNCHANGED <<peers, files, queue, merging, binding, scope, ops>>
<1> DEFINE e == [id |-> m.id, content |-> m.content, by |-> m.op]
           accepted == Known(m) \/ Acceptable(m)
<1>1. m \in Commits /\ m.remote \in Remotes /\ e \in Revisions /\ e.by = m.op
  BY DEF TypeOK, Commits, Revisions
<1>2. /\ wire' = wire \ {m}
      /\ log' = IF accepted /\ ~Known(m) THEN [log EXCEPT ![m.remote] = Append(@, e)] ELSE log
      /\ gate' = IF gate # None /\ gate.at = "sent" /\ gate.op = m.op
                 THEN [gate EXCEPT !.reply = IF accepted THEN "accepted" ELSE "rejected"]
                 ELSE gate
      /\ UNCHANGED <<peers, session, files, queue, merging, state, preview, activity,
                     ops, events>>
  BY DEF Serve
<1> HIDE DEF e
<1>3. \/ log' = log
      \/ ~Known(m) /\ Acceptable(m) /\ log' = [log EXCEPT ![m.remote] = Append(@, e)]
  BY <1>2
<1>4. log' \in [Remotes -> Seq(Revisions)] /\ LogsGrow
  BY <1>1, <1>3, AppendGrows, SameLogGrows DEF TypeOK
<1>5. ASSUME accepted
      PROVE  \E s \in 1..Len(log'[m.remote]) : log'[m.remote][s].by = m.op
  <2>1. CASE Known(m)
    <3>1. log' = log
      BY <1>2, <2>1
    <3> QED
      BY <2>1, <3>1 DEF Known
  <2>2. CASE ~Known(m)
    <3>1. log' = [log EXCEPT ![m.remote] = Append(@, e)]
      BY <1>2, <1>5, <2>2
    <3>2. Len(log'[m.remote]) = Len(log[m.remote]) + 1
          /\ log'[m.remote][Len(log[m.remote]) + 1] = e
      BY <1>1, <3>1, AppendGrows
    <3>3. Len(log[m.remote]) \in Nat
      BY <1>1 DEF TypeOK
    <3>4. Len(log[m.remote]) + 1 \in 1..Len(log'[m.remote])
      BY <3>2, <3>3
    <3> QED
      BY <1>1, <3>2, <3>4
  <2> QED
    BY <2>1, <2>2
<1>6. \/ SameGate
      \/ /\ gate # None /\ gate \in Holders /\ gate.at = "sent" /\ gate.op = m.op
         /\ \E reply \in {"accepted", "rejected"} :
              /\ reply = "accepted" =>
                    \E s \in 1..Len(log'[m.remote]) : log'[m.remote][s].by = m.op
              /\ Has(gate', gate.at, gate.binding, gate.remote, gate.seen,
                     gate.todo, gate.op, reply)
  <2>1. CASE gate # None /\ gate.at = "sent" /\ gate.op = m.op
    <3> DEFINE reply == IF accepted THEN "accepted" ELSE "rejected"
    <3>1. gate' = [gate EXCEPT !.reply = reply] /\ gate \in Holders
      BY <1>2, <2>1 DEF TypeOK
    <3>2. reply \in {"accepted", "rejected"} /\ (reply = "accepted" => accepted)
      OBVIOUS
    <3> HIDE DEF reply, accepted
    <3>3. Has(gate', gate.at, gate.binding, gate.remote, gate.seen, gate.todo, gate.op, reply)
      <4>1. "sent" \in Points /\ 0 \in Nat /\ {} \in SUBSET Nat
            /\ reply \in {"none", "accepted", "rejected"}
        BY <3>2 DEF Points
      <4> QED
        BY <3>1, <4>1, HolderUpdates
    <3> QED
      BY <1>5, <2>1, <3>1, <3>2, <3>3
  <2>2. CASE ~(gate # None /\ gate.at = "sent" /\ gate.op = m.op)
    <3>1. gate' = gate
      BY <1>2, <2>2
    <3> QED
      BY <3>1, UnchangedSame
  <2> QED
    BY <2>1, <2>2
<1>7. gate' # None => gate' \in Holders
  BY <1>6, SameGateType DEF Has
<1>8. TypeOK'
  BY <1>2, <1>4, <1>7 DEF TypeOK, files, merging, state
<1>9. UNCHANGED <<peers, files, queue, merging, binding, scope, ops>>
  BY <1>2 DEF state
<1> QED
  BY <1>1, <1>2, <1>3, <1>4, <1>6, <1>8, <1>9 DEF e

\* A file another device commits: the one at the path, or one of its own.
Elsewhere(r, p) ==
    IF LiveAt(r, p) # {} THEN CHOOSE g \in LiveAt(r, p) : TRUE ELSE <<r, p>>

LEMMA OtherCommitType ==
    ASSUME TypeOK, NEW r \in Remotes, NEW p \in Paths, NEW c \in Hashes, OtherCommit(r, p, c)
    PROVE  /\ TypeOK' /\ LogsGrow
           /\ Elsewhere(r, p) \in Ids /\ PathOf(Elsewhere(r, p)) = p
           /\ [id |-> Elsewhere(r, p), content |-> c, by |-> 0] \in Revisions
           /\ log' = [log EXCEPT ![r] =
                Append(@, [id |-> Elsewhere(r, p), content |-> c, by |-> 0])]
           /\ UNCHANGED <<wire, peers, session, files, queue, merging, state, preview, gate,
                          activity, ops>>
<1> DEFINE f == Elsewhere(r, p)
           e == [id |-> f, content |-> c, by |-> 0]
<1>1. f \in Ids /\ PathOf(f) = p
  <2>1. LiveAt(r, p) \subseteq Ids /\ \A g \in LiveAt(r, p) : PathOf(g) = p
    BY DEF LiveAt, Ids, PathOf
  <2>2. <<r, p>> \in Ids /\ PathOf(<<r, p>>) = p
    BY DEF Ids, PathOf
  <2> QED
    BY <2>1, <2>2 DEF Elsewhere
<1> HIDE DEF f
<1>2. e \in Revisions
  BY <1>1 DEF Revisions
<1>3. /\ log' = [log EXCEPT ![r] = Append(@, e)]
      /\ Happens
      /\ UNCHANGED <<wire, peers, session, files, queue, merging, state, preview, gate,
                     activity, ops>>
  BY DEF OtherCommit, Elsewhere, f
<1> HIDE DEF e
<1>4. log' \in [Remotes -> Seq(Revisions)] /\ LogsGrow
  BY <1>2, <1>3, AppendGrows
<1>5. TypeOK'
  BY <1>3, <1>4, HappensType DEF TypeOK, files, merging, state
<1> QED
  BY <1>1, <1>2, <1>3, <1>4, <1>5 DEF e, f

-----------------------------------------------------------------------------
(* What a bind leaves *)

\* A bind works on the remote it asked and what it saw of it.
LEMMA BindRemote ==
    ASSUME TypeOK, Gates, gate # None
    PROVE  /\ gate.remote \in Remotes /\ gate.seen \in 0..Len(log[gate.remote])
           /\ Len(log[gate.remote]) \in Nat /\ gate.seen \in Nat
           /\ \A s \in 1..gate.seen : log[gate.remote][s] \in Revisions
<1>1. gate \in Holders
  BY DEF TypeOK
<1>2. gate.remote \in Remotes /\ gate.seen \in Nat
  BY <1>1, HolderFields
<1>3. gate.seen <= Len(log[gate.remote])
  BY DEF Gates
<1>4. log[gate.remote] \in Seq(Revisions)
  BY <1>2 DEF TypeOK
<1> QED
  BY <1>2, <1>3, <1>4

\* The identity a path takes in an initial merge has that path.
LEMMA AdoptedIs ==
    ASSUME TypeOK, NEW r \in Remotes, NEW n \in Nat,
           \A s \in 1..n : log[r][s] \in Revisions, NEW p \in Paths
    PROVE  /\ Adopted(r, n, p) \in Ids /\ PathOf(Adopted(r, n, p)) = p
           /\ \/ Adopted(r, n, p) = row[p] /\ ItemsAt(r, n, p) = {}
              \/ \E s \in ItemsAt(r, n, p) : Adopted(r, n, p) = log[r][s].id
<1>1. CASE ItemsAt(r, n, p) = {}
  BY <1>1 DEF Adopted, TypeOK
<1>2. CASE ItemsAt(r, n, p) # {}
  <2> DEFINE s == CHOOSE s \in ItemsAt(r, n, p) : TRUE
  <2>1. s \in ItemsAt(r, n, p)
    BY <1>2
  <2>2. Adopted(r, n, p) = log[r][s].id
    BY <1>2 DEF Adopted
  <2> HIDE DEF s
  <2>3. s \in 1..n /\ PathOf(log[r][s].id) = p
    BY <2>1 DEF ItemsAt, Items
  <2>4. log[r][s].id \in Ids
    BY <2>3, RevisionFields
  <2> QED
    BY <2>1, <2>2, <2>3, <2>4
<1> QED
  BY <1>1, <1>2

\* The jobs of an initial merge: the local files that differ from the snapshot.
LEMMA MergeJobsAre ==
    ASSUME TypeOK, NEW r \in Remotes, NEW n \in Nat,
           \A s \in 1..n : log[r][s] \in Revisions
    PROVE  /\ Numbered(MergeJobs(r, n), ops, ops + Cardinality(Different(r, n)))
           /\ \A j \in MergeJobs(r, n) : \E p \in Different(r, n) :
                j.id = Adopted(r, n, p) /\ j.content = disk[p]
           /\ \A p \in Different(r, n) : \E j \in MergeJobs(r, n) :
                j.id = Adopted(r, n, p) /\ j.content = disk[p]
<1> DEFINE S == Different(r, n)
           id == [p \in S |-> Adopted(r, n, p)]
           c == [p \in S |-> disk[p]]
           Q == MergeJobs(r, n)
<1>1. S \in SUBSET Paths
  BY DEF Different, LocalPaths
<1>2. IsFiniteSet(S)
  BY <1>1, FS_Subset, ConstantsAssumption
<1>3. id \in [S -> Ids] /\ c \in [S -> Hashes]
  <2>1. \A p \in S : Adopted(r, n, p) \in Ids /\ disk[p] \in Hashes
    BY <1>1, AdoptedIs DEF TypeOK
  <2> QED
    BY <2>1
<1>4. MadeFor(Q, S, ops, id, c)
  <2>1. \A p \in S : id[p] = Adopted(r, n, p) /\ c[p] = disk[p]
    OBVIOUS
  <2> HIDE DEF id, c
  <2> QED
    BY <2>1 DEF MergeJobs, MadeFor
<1>5. \A p \in S : id[p] = Adopted(r, n, p) /\ c[p] = disk[p]
  OBVIOUS
<1>6. ops \in Nat
  BY DEF TypeOK
<1> HIDE DEF id, c, Q, S
<1>7. Numbered(Q, ops, ops + Cardinality(S)) /\ Covers(Q, S, id, c)
  BY <1>2, <1>3, <1>4, <1>6, NewJobs
<1>8. /\ \A j \in Q : \E p \in S : j.id = Adopted(r, n, p) /\ j.content = disk[p]
      /\ \A p \in S : \E j \in Q : j.id = Adopted(r, n, p) /\ j.content = disk[p]
  BY <1>5, <1>7 DEF Covers
<1> QED
  BY <1>7, <1>8 DEF S, Q

\* What FreshTables leaves of the other tables.
LEMMA FreshIs ==
    ASSUME FreshTables
    PROVE  gate' = None /\ window' = 0 /\ inbox' = 0 /\ conflicts' = {}
  BY DEF FreshTables

\* A new binding.
LEMMA NewBindingIs ==
    ASSUME TypeOK, NEW r \in Remotes, NEW n \in Nat
    PROVE  /\ NewBinding(r, n) \in Bindings /\ NewBinding(r, n) # None
           /\ NewBinding(r, n).remote = r /\ NewBinding(r, n).cursor = n
<1>1. /\ NewBinding(r, n) \in Bindings
      /\ NewBinding(r, n).remote = r /\ NewBinding(r, n).cursor = n
  BY DEF TypeOK, NewBinding, Bindings
<1> QED
  BY <1>1, NoneAssumption

LEMMA BindMergeType ==
    ASSUME TypeOK, Gates, BindMerge
    PROVE  TypeOK' /\ gate' = None
<1> DEFINE r == gate.remote
           n == gate.seen
<1>1. /\ r \in Remotes /\ n \in Nat /\ \A s \in 1..n : log[r][s] \in Revisions
  BY BindRemote DEF BindMerge
<1>2. FreshTables /\ UNCHANGED <<server, session, disk, scope, activity, events>>
  BY DEF BindMerge
<1> HIDE DEF r, n
<1>3. binding' \in Bindings
  <2>1. binding' = NewBinding(r, IF Items(r, n) = {} THEN n ELSE 0)
    BY DEF BindMerge, r, n
  <2>2. (IF Items(r, n) = {} THEN n ELSE 0) \in Nat
    BY <1>1
  <2> QED
    BY <1>1, <2>1, <2>2, NewBindingIs
<1>4. initial' # None => initial' \in Initials
  <2>1. initial' # None => initial' = [boundary |-> n, items |-> Items(r, n)]
    BY DEF BindMerge, r, n
  <2>2. Items(r, n) \in SUBSET Nat
    BY <1>1 DEF Items
  <2> QED
    BY <1>1, <2>1, <2>2 DEF Initials
<1>5. row' \in [Paths -> Ids] /\ \A p \in Paths : PathOf(row'[p]) = p
  <2>1. row' = [p \in Paths |-> IF p \in LocalPaths THEN Adopted(r, n, p) ELSE row[p]]
    BY DEF BindMerge, r, n
  <2>2. \A p \in Paths : /\ Adopted(r, n, p) \in Ids /\ PathOf(Adopted(r, n, p)) = p
                         /\ row[p] \in Ids /\ PathOf(row[p]) = p
    BY <1>1, AdoptedIs DEF TypeOK
  <2> QED
    BY <2>1, <2>2
<1>6. observed' \in [Ids -> Hashes]
  <2>1. observed' = [f \in Ids |->
                LET p == PathOf(f) IN
                IF p \notin LocalPaths THEN observed[f]
                ELSE IF f = Adopted(r, n, p) THEN disk[p]
                ELSE IF f = row[p] THEN Absent ELSE observed[f]]
    BY DEF BindMerge, r, n
  <2>2. \A f \in Ids : PathOf(f) \in Paths /\ observed[f] \in Hashes /\ Absent \in Hashes
    BY DEF TypeOK, Ids, PathOf, Hashes
  <2>3. \A p \in Paths : disk[p] \in Hashes
    BY DEF TypeOK
  <2> QED
    BY <2>1, <2>2, <2>3
<1>7. heads' \in [Ids -> Nat]
  <2>1. heads' = [f \in Ids |->
                LET s == Latest(r, f, n) IN
                IF s \in Items(r, n) /\ PathOf(f) \notin Identical(r, n) THEN 0 ELSE s]
    BY DEF BindMerge, r, n
  <2>2. \A f \in Ids : Latest(r, f, n) \in Nat
    BY <1>1, LatestIs
  <2> QED
    BY <2>1, <2>2
<1>8. queue' \subseteq Jobs /\ ops' \in Nat
  <2>1. queue' = MergeJobs(r, n) /\ ops' = ops + Cardinality(Different(r, n))
    BY DEF BindMerge, r, n
  <2> QED
    BY <1>1, <2>1, MergeJobsAre DEF Numbered
<1> QED
  BY <1>2, <1>3, <1>4, <1>5, <1>6, <1>7, <1>8, FreshTypes, FreshIs

\* What an upload leaves in the queue, all of it captured: of the carried jobs and
\* the new puts the ones in scope.
UploadQueue == InScope(Carried \cup Puts(Unqueued, ops))

LEMMA BindUploadType ==
    ASSUME TypeOK, BindUpload, Gates
    PROVE  /\ TypeOK' /\ gate' = None
           /\ Numbered(Puts(Unqueued, ops), ops, ops')
           /\ UploadQueue \subseteq Jobs /\ queue' = Captured(UploadQueue)
<1>1. /\ FreshTables /\ UNCHANGED <<server, session, disk, row, scope, activity, events>>
      /\ binding' = NewBinding(gate.remote, 0) /\ initial' = None
      /\ heads' = [f \in Ids |-> 0]
      /\ queue' = Captured(UploadQueue)
      /\ ops' = ops + Cardinality(Unqueued)
      /\ observed' = ObservedNow(Unqueued)
  BY DEF BindUpload, UploadQueue
<1>2. ops \in Nat /\ Unqueued \in SUBSET Paths
  BY DEF TypeOK, Unqueued, LocalPaths
<1>3. Numbered(Puts(Unqueued, ops), ops, ops')
  BY <1>1, <1>2, PutsAre
<1>4. UploadQueue \subseteq Jobs
  BY <1>3 DEF TypeOK, UploadQueue, InScope, Carried, Numbered
<1>5. queue' \subseteq Jobs
  BY <1>1, <1>4, CapturedAre
<1>6. observed' \in [Ids -> Hashes]
  <2>1. \A f \in Ids : PathOf(f) \in Paths
    BY DEF Ids, PathOf
  <2> QED
    BY <1>1, <2>1 DEF TypeOK, ObservedNow
<1>7. binding' \in Bindings
  BY <1>1, BindRemote, NewBindingIs DEF BindUpload
<1>8. heads' \in [Ids -> Nat] /\ ops' \in Nat
  BY <1>1, <1>3 DEF Numbered
<1>9. row' \in [Paths -> Ids] /\ \A p \in Paths : PathOf(row'[p]) = p
  BY <1>1 DEF TypeOK
<1> QED
  BY <1>1, <1>3, <1>4, <1>5, <1>6, <1>7, <1>8, <1>9, FreshTypes, FreshIs

LEMMA BindUploadStopsType ==
    ASSUME TypeOK, NEW S \in SUBSET Paths, BindUploadStops(S)
    PROVE  /\ TypeOK' /\ gate' = None
           /\ Numbered(Puts(S, ops), ops, ops')
           /\ queue' = Carried \cup Puts(S, ops)
           /\ UNCHANGED <<server, disk, row, merging, binding, bindings, scope>>
<1>1. /\ queue' = Carried \cup Puts(S, ops)
      /\ ops' = ops + Cardinality(S)
      /\ observed' = ObservedNow(S)
      /\ gate' = None /\ preview' = None /\ activity' = "none" /\ Happens
      /\ UNCHANGED <<server, session, disk, row, merging, state>>
  BY DEF BindUploadStops
<1>2. ops \in Nat
  BY DEF TypeOK
<1>3. Numbered(Puts(S, ops), ops, ops')
  BY <1>1, <1>2, PutsAre
<1>4. queue' \subseteq Jobs /\ ops' \in Nat
  BY <1>1, <1>3 DEF TypeOK, Carried, Numbered
<1>5. observed' \in [Ids -> Hashes]
  <2>1. \A f \in Ids : PathOf(f) \in Paths
    BY DEF Ids, PathOf
  <2> QED
    BY <1>1, <2>1 DEF TypeOK, ObservedNow
<1>6. TypeOK'
  BY <1>1, <1>4, <1>5, HappensType DEF TypeOK, server, merging, state
<1> QED
  BY <1>1, <1>3, <1>6 DEF state

-----------------------------------------------------------------------------
(* What every step keeps of the gate and of the tables *)

\* The logs' lengths and entries are typed.
LEMMA LogTypes ==
    ASSUME TypeOK, NEW r \in Remotes
    PROVE  /\ Len(log[r]) \in Nat
           /\ \A s \in 1..Len(log[r]) :
                log[r][s] \in Revisions /\ log[r][s].id \in Ids /\ log[r][s].by \in Nat
                /\ log[r][s].content \in Hashes
<1>1. log[r] \in Seq(Revisions)
  BY DEF TypeOK
<1>2. \A s \in 1..Len(log[r]) : log[r][s] \in Revisions
  BY <1>1
<1> QED
  BY <1>1, <1>2, RevisionFields

\* Whatever is within a log stays within it.
LEMMA GrownLength ==
    ASSUME TypeOK, TypeOK', LogsGrow, NEW r \in Remotes
    PROVE  \A n \in Nat : n <= Len(log[r]) => n <= Len(log'[r])
<1>1. Len(log[r]) \in Nat
  BY LogTypes
<1>2. Len(log'[r]) \in Nat
  BY DEF TypeOK
<1> QED
  BY <1>1, <1>2 DEF LogsGrow

\* What the first revisions say of a file stays.
LEMMA LatestStays ==
    ASSUME TypeOK, LogsGrow, NEW r \in Remotes, NEW f, NEW n \in 0..Len(log[r])
    PROVE  Latest(r, f, n)' = Latest(r, f, n)
<1>1. Len(log[r]) \in Nat /\ n \in Nat
  BY LogTypes
<1>2. \A s \in 1..n : s \in 1..Len(log[r]) /\ log'[r][s] = log[r][s]
  BY <1>1 DEF LogsGrow
<1>3. {s \in 1..n : log'[r][s].id = f} = {s \in 1..n : log[r][s].id = f}
  BY <1>2
<1> QED
  BY <1>3 DEF Latest

\* Heads and cursor that do not move keep what is said of them.
LEMMA HeadsStay ==
    ASSUME TypeOK, TypeOK', Tables, LogsGrow, UNCHANGED <<binding, initial, heads>>
    PROVE  Merging' /\ CursorAndHeads'
<1>1. CASE binding = None
  BY <1>1 DEF Merging, CursorAndHeads
<1>2. CASE binding # None
  <2> DEFINE r == binding.remote
  <2>1. r \in Remotes /\ binding.cursor \in Nat
    BY <1>2 DEF TypeOK, Bindings
  <2>2. /\ Len(log[r]) \in Nat /\ Len(log[r]) <= Len(log'[r])
        /\ \A s \in 1..Len(log[r]) : log'[r][s] = log[r][s]
    BY <2>1, LogTypes DEF LogsGrow
  <2>5. Merging'
    <3>1. initial # None => initial.boundary \in 0..Len(log[r])
      BY <1>2, <2>2 DEF Tables, Positions, TypeOK, Initials
    <3>2. initial # None => \A f \in Ids : Latest(r, f, initial.boundary)'
                                             = Latest(r, f, initial.boundary)
      <4> SUFFICES ASSUME initial # None, NEW f \in Ids
                   PROVE  Latest(r, f, initial.boundary)' = Latest(r, f, initial.boundary)
        OBVIOUS
      <4>1. {s \in 1..initial.boundary : log'[r][s].id = f}
              = {s \in 1..initial.boundary : log[r][s].id = f}
        BY <2>2, <3>1
      <4> QED
        BY <4>1 DEF Latest
    <3> QED
      BY <3>2 DEF Merging, Tables
  <2>6. CursorAndHeads'
    <3>1. \A f \in Ids : heads[f] # 0 => /\ heads[f] <= Len(log[r])
                                         /\ log[r][heads[f]].id = f
                                         /\ heads[f] \in Nat
      BY <1>2 DEF Tables, CursorAndHeads, TypeOK
    <3>2. \A f \in Ids : heads[f] # 0 => /\ heads[f] \in 1..Len(log[r])
                                         /\ log'[r][heads[f]].id = f
      BY <2>2, <3>1
    <3>3. \A f \in Ids : heads[f] # 0 => heads[f] <= Len(log'[r])
      BY <2>1, <2>2, <3>1, GrownLength
    <3>4. \A s \in 1..binding.cursor : s \in 1..Len(log[r])
      BY <1>2, <2>1, <2>2 DEF Tables, Positions
    <3>5. \A s \in 1..binding.cursor : heads[log'[r][s].id] >= s
      BY <1>2, <2>2, <3>4 DEF Tables, CursorAndHeads
    <3> QED
      BY <3>2, <3>3, <3>5 DEF CursorAndHeads
  <2> QED
    BY <2>5, <2>6
<1> QED
  BY <1>1, <1>2

\* Steps that do not touch the binding's tables keep what is said of them.
LEMMA TablesStay ==
    ASSUME TypeOK, TypeOK', Tables, LogsGrow,
           UNCHANGED <<binding, initial, window, inbox, heads, conflicts>>
    PROVE  Tables'
<1>1. CASE binding = None
  BY <1>1 DEF Tables, Unbound, Positions, Merging, CursorAndHeads
<1>2. CASE binding # None
  <2> DEFINE r == binding.remote
  <2>1. r \in Remotes /\ binding.cursor \in Nat
    BY <1>2 DEF TypeOK, Bindings
  <2>2. /\ Len(log[r]) \in Nat /\ Len(log[r]) <= Len(log'[r])
        /\ \A s \in 1..Len(log[r]) : log'[r][s] = log[r][s]
    BY <2>1, LogTypes DEF LogsGrow
  <2>3. Unbound'
    BY <1>2 DEF Unbound
  <2>4. Positions'
    <3>1. window \in Nat /\ inbox \in Nat /\ (initial # None => initial.boundary \in Nat)
      BY DEF TypeOK, Initials
    <3>2. /\ \A n \in Nat : n <= Len(log[r]) => n <= Len(log'[r])
          /\ binding' = binding /\ initial' = initial /\ window' = window /\ inbox' = inbox
      BY <2>1, GrownLength
    <3> QED
      BY <1>2, <2>1, <3>1, <3>2 DEF Positions, Tables
  <2> QED
    BY <2>3, <2>4, HeadsStay DEF Tables
<1> QED
  BY <1>1, <1>2

\* The binding ends, or is the same with another cursor.
SameBinding ==
    \/ binding' = None
    \/ /\ binding # None
       /\ binding'.id = binding.id /\ binding'.remote = binding.remote

\* A run that goes on, with what its next point asks for.
LEMMA GatesGo ==
    ASSUME TypeOK, TypeOK', LogsGrow, Gates, gate # None, SameBinding,
           NEW at, NEW todo, NEW op, NEW reply,
           Has(gate', at, gate.binding, gate.remote, gate.seen, todo, op, reply),
           at \in Modes <=> gate.at \in Modes,
           at = "staged" => binding' # None /\ inbox' # 0,
           at \in {"fetch", "item"} /\ binding' # None => inbox' = 0,
           at = "fetch" /\ binding' # None => initial' = None,
           at \notin {"item", "staged"} => todo = {},
           op <= ops'
    PROVE  Gates'
<1>1. gate.remote \in Remotes /\ gate.seen \in Nat
  BY HolderFields DEF TypeOK
<1>2. /\ gate'.at = at /\ gate'.binding = gate.binding /\ gate'.remote = gate.remote
      /\ gate'.seen = gate.seen /\ gate'.todo = todo /\ gate'.op = op
  BY DEF Has
<1>3. gate'.seen <= Len(log'[gate'.remote])
  BY <1>1, <1>2, GrownLength DEF Gates
<1>4. gate'.at \in Modes => binding' = None
  BY <1>2 DEF Gates, SameBinding
<1>5. gate'.at \notin Modes /\ binding' # None =>
         gate'.binding = binding'.id /\ gate'.remote = binding'.remote
  BY <1>2 DEF Gates, SameBinding
<1> QED
  BY <1>2, <1>3, <1>4, <1>5 DEF Gates

\* A free gate says nothing.
LEMMA GateFree ==
    ASSUME gate' = None
    PROVE  Gates' /\ Taken' /\ Answered'
  BY DEF Gates, Taken, Answered

\* The gate where it is, and nothing moved.
LEMMA GateStays ==
    ASSUME TypeOK, TypeOK', LogsGrow, Gates, Taken, SameGate,
           UNCHANGED <<binding, initial, inbox>>, ops <= ops'
    PROVE  Gates' /\ Taken'
<1>1. CASE gate = None
  <2>1. gate' = None
    BY <1>1 DEF SameGate
  <2> QED
    BY <2>1, GateFree
<1>2. CASE gate # None
  <2>1. Has(gate', gate.at, gate.binding, gate.remote, gate.seen, gate.todo, gate.op, gate.reply)
    BY <1>2 DEF SameGate
  <2>2. SameBinding
    BY DEF SameBinding
  <2>3. gate.op <= ops'
    <3>1. gate.op \in Nat /\ ops \in Nat /\ ops' \in Nat /\ gate.op <= ops
      BY <1>2, HolderFields DEF TypeOK, Gates
    <3> QED
      BY <3>1
  <2>4. Gates'
    <3>1. /\ gate.at = "staged" => binding' # None /\ inbox' # 0
          /\ gate.at \in {"fetch", "item"} /\ binding' # None => inbox' = 0
          /\ gate.at = "fetch" /\ binding' # None => initial' = None
          /\ gate.at \notin {"item", "staged"} => gate.todo = {}
      BY <1>2 DEF Gates
    <3> QED
      BY <1>2, <2>1, <2>2, <2>3, <3>1, GatesGo
  <2>5. Taken'
    <3>1. gate'.at = gate.at /\ gate'.todo = gate.todo
      BY <2>1 DEF Has
    <3> SUFFICES ASSUME binding # None, gate.at \in {"item", "staged"}
                 PROVE  IF initial = None THEN InOrder(gate.todo)'
                        ELSE gate.todo \subseteq initial.items \ {inbox}
      BY <3>1 DEF Taken, InOrder
    <3>2. CASE initial = None
      <4>1. InOrder(gate.todo)
        BY <1>2, <3>2 DEF Taken
      <4>2. binding.remote \in Remotes
        BY DEF TypeOK, Bindings
      <4>3. \A s \in gate.todo : s \in Nat
        BY <1>2, HolderFields DEF TypeOK
      <4>4. \A s \in gate.todo : s <= Len(log'[binding.remote])
        BY <4>1, <4>2, <4>3, GrownLength DEF InOrder
      <4> QED
        BY <3>1, <3>2, <4>1, <4>4 DEF InOrder
    <3>3. CASE initial # None
      BY <1>2, <3>3 DEF Taken
    <3> QED
      BY <3>2, <3>3
  <2> QED
    BY <2>4, <2>5
<1> QED
  BY <1>1, <1>2

\* At most points a run holds no page.
LEMMA NoPage ==
    ASSUME gate' # None => gate'.at \notin {"item", "staged"}
    PROVE  Taken'
  BY DEF Taken
LEMMA NoAnswer ==
    ASSUME gate' # None => gate'.at # "sent"
    PROVE  Answered'
  BY DEF Answered

-----------------------------------------------------------------------------
(* Every step keeps Gates, Taken and Tables *)

\* Steps outside the cycle that leave the binding's tables alone.
LEMMA AsideKept ==
    ASSUME TypeOK, TypeOK', Gates, Taken, Tables, LogsGrow, SameGate, ops <= ops',
           UNCHANGED <<binding, initial, window, inbox, heads, conflicts>>
    PROVE  Gates' /\ Taken' /\ Tables'
  BY GateStays, TablesStay

\* Steps that free the gate and leave the binding's tables alone.
LEMMA FreedKept ==
    ASSUME TypeOK, TypeOK', Tables, LogsGrow, gate' = None,
           UNCHANGED <<binding, initial, window, inbox, heads, conflicts>>
    PROVE  Gates' /\ Taken' /\ Tables'
  BY GateFree, TablesStay

\* Steps of a cycle to a point that holds no page and no inbox.
LEMMA CycleKept ==
    ASSUME TypeOK, TypeOK', Gates, Tables, LogsGrow, gate # None, gate.at \notin Modes,
           NEW at, NEW op, NEW reply, at \notin Modes \cup {"item", "staged", "fetch"},
           Has(gate', at, gate.binding, gate.remote, gate.seen, {}, op, reply), op <= ops',
           UNCHANGED <<binding, initial, window, inbox, heads, conflicts>>
    PROVE  Gates' /\ Taken' /\ Tables'
<1>1. SameBinding
  BY DEF SameBinding
<1>2. Gates'
  BY <1>1, GatesGo
<1>3. Taken'
  BY NoPage DEF Has
<1> QED
  BY <1>2, <1>3, TablesStay

LEMMA AskRemoteKept ==
    ASSUME TypeOK, Gates, Tables, NEW r \in Remotes, NEW mode \in Modes, AskRemote(mode, r),
           TypeOK'
    PROVE  Gates' /\ Taken' /\ Tables'
<1>1. /\ gate' = Holder(mode, r, Len(log[r]), 0) /\ binding = None
      /\ UNCHANGED <<server, session, files, queue, merging, state, preview, activity,
                     ops, events>>
  BY DEF AskRemote
<1>2. Len(log[r]) \in Nat /\ ops \in Nat
  BY LogTypes DEF TypeOK
<1>3. Has(gate', mode, 0, r, Len(log[r]), {}, 0, "none")
  BY <1>1, <1>2, HolderMade DEF Points, Modes
<1>4. UNCHANGED <<log, binding, initial, window, inbox, heads, conflicts, ops>>
  BY <1>1 DEF server, merging, state
<1>5. /\ gate'.seen <= Len(log'[gate'.remote]) /\ gate'.op <= ops' /\ gate'.todo = {}
      /\ gate'.at \in Modes /\ binding' = None
  BY <1>1, <1>2, <1>3, <1>4 DEF Has
<1>6. Gates'
  BY <1>5 DEF Gates, Modes
<1>7. Taken'
  BY <1>5, NoPage DEF Modes
<1>8. Tables'
  BY <1>4, SameLogGrows, TablesStay
<1> QED
  BY <1>6, <1>7, <1>8

LEMMA RunKept ==
    ASSUME TypeOK, Gates, Tables, NEW manual, Run(manual)
    PROVE  Gates' /\ Taken' /\ Tables'
<1>1. /\ TypeOK' /\ gate = None /\ binding # None
      /\ Has(gate', "checked", binding.id, binding.remote, 0, {}, 0, "none")
      /\ UNCHANGED <<server, session, files, queue, merging, state, preview,
                     activity, ops, events>>
  BY RunType
<1>2. UNCHANGED <<log, binding, initial, window, inbox, heads, conflicts, ops>>
  BY <1>1 DEF server, merging, state
<1>3. binding.remote \in Remotes /\ ops \in Nat
  BY <1>1 DEF TypeOK, Bindings
<1>4. Len(log[binding.remote]) \in Nat
  BY <1>3, LogTypes
<1>5. /\ gate'.seen = 0 /\ gate'.remote = binding.remote /\ gate'.op = 0 /\ gate'.todo = {}
      /\ gate'.at = "checked" /\ gate'.binding = binding.id
  BY <1>1 DEF Has
<1>6. 0 <= Len(log[binding.remote]) /\ 0 <= ops
  BY <1>3, <1>4
<1>7. Gates'
  BY <1>2, <1>5, <1>6 DEF Gates, Modes
<1>8. Taken'
  BY <1>5, NoPage
<1> QED
  BY <1>1, <1>2, <1>7, <1>8, SameLogGrows, TablesStay

LEMMA PullKept ==
    ASSUME TypeOK, Gates, Tables, Pull
    PROVE  Gates' /\ Taken' /\ Tables'
<1>1. /\ TypeOK' /\ gate # None /\ gate.at = "pull" /\ Held
      /\ UNCHANGED <<server, session, files, queue, merging, state, preview,
                     activity, ops, events>>
  BY PullType DEF Pull, Running
<1>2. UNCHANGED <<log, binding, initial, window, inbox, heads, conflicts, ops>>
  BY <1>1 DEF server, merging, state
<1>3. LogsGrow /\ SameBinding /\ Tables'
  BY <1>1, <1>2, SameLogGrows, TablesStay DEF SameBinding
<1>4. gate.todo = {} /\ gate.op <= ops' /\ binding # None /\ gate.at \notin Modes
  BY <1>1, <1>2 DEF Gates, Held, Modes
<1>5. CASE inbox # 0 /\ Goes("staged")
  <2>1. Has(gate', "staged", gate.binding, gate.remote, gate.seen, {}, gate.op, gate.reply)
    BY <1>4, <1>5 DEF Goes
  <2>2. Gates'
    BY <1>1, <1>2, <1>3, <1>4, <1>5, <2>1, GatesGo DEF Modes
  <2>3. Taken'
    BY <2>1 DEF Has, Taken, InOrder
  <2> QED
    BY <1>3, <2>2, <2>3
<1>6. CASE /\ inbox = 0 /\ initial # None
           /\ Has(gate', "item", gate.binding, gate.remote, gate.seen,
                  Page(initial.items), gate.op, gate.reply)
  <2>1. Gates'
    BY <1>1, <1>2, <1>3, <1>4, <1>6, GatesGo DEF Modes
  <2>2. initial.items \subseteq 1..initial.boundary
    BY <1>4, <1>6 DEF Tables, Positions
  <2>3. Page(initial.items) \subseteq initial.items /\ 0 \notin initial.items
    BY <2>2 DEF Page
  <2>4. Taken'
    BY <1>2, <1>6, <2>3 DEF Has, Taken
  <2> QED
    BY <1>3, <2>1, <2>4
<1>7. CASE inbox = 0 /\ initial = None /\ Goes("fetch")
  <2>1. Has(gate', "fetch", gate.binding, gate.remote, gate.seen, {}, gate.op, gate.reply)
    BY <1>4, <1>7 DEF Goes
  <2>2. Gates'
    BY <1>1, <1>2, <1>3, <1>4, <1>7, <2>1, GatesGo DEF Modes
  <2>3. Taken'
    BY <2>1, NoPage DEF Has
  <2> QED
    BY <1>3, <2>2, <2>3
<1> QED
  BY <1>5, <1>6, <1>7, PullType

\* A page behind the cursor is in order.
LEMMA PageInOrder ==
    ASSUME TypeOK, binding # None, NEW n \in Nat, n <= Len(log[binding.remote]),
           inbox = 0
    PROVE  InOrder(Page(binding.cursor + 1 .. n))
<1> DEFINE S == binding.cursor + 1 .. n
<1>1. binding.cursor \in Nat
  BY DEF TypeOK, Bindings
<1>2. S \subseteq 1..n
  BY <1>1
<1>3. Page(S) \subseteq S /\ \A s \in Page(S), t \in S : t <= s => t \in Page(S)
  BY <1>2, PageIsFirst
<1>4. Len(log[binding.remote]) \in Nat
  BY LogTypes DEF TypeOK, Bindings
<1>5. ASSUME NEW s \in Page(S)
      PROVE  /\ binding.cursor < s /\ s <= Len(log[binding.remote]) /\ s # 0
             /\ \A t \in 1..s : t <= binding.cursor \/ t \in Page(S)
  <2>1. s \in S
    BY <1>3
  <2>2. binding.cursor < s /\ s <= Len(log[binding.remote]) /\ s # 0
    BY <1>1, <1>4, <2>1
  <2>3. ASSUME NEW t \in 1..s, ~(t <= binding.cursor)
        PROVE  t \in Page(S)
    <3>1. t \in S /\ t <= s
      BY <1>1, <2>1, <2>3
    <3> QED
      BY <1>3, <3>1
  <2> QED
    BY <2>2, <2>3
<1> HIDE DEF S
<1>6. InOrder(Page(S))
  BY <1>5 DEF InOrder
<1> QED
  BY <1>6 DEF S

LEMMA FetchKept ==
    ASSUME TypeOK, Gates, Tables, Fetch
    PROVE  Gates' /\ Taken' /\ Tables'
<1>1. Positions
  BY DEF Tables
<1>2. /\ TypeOK' /\ gate # None /\ gate.at = "fetch" /\ Held
      /\ UNCHANGED <<server, files, queue, initial, inbox, heads, conflicts,
                     inherited, binding, scope, ops>>
  BY <1>1, FetchType DEF Fetch, Running
<1>3. /\ UNCHANGED <<log, binding, initial, inbox, heads, conflicts, ops>>
      /\ LogsGrow /\ SameBinding
  BY <1>2, SameLogGrows DEF server, SameBinding
<1>4. /\ gate.todo = {} /\ gate.op <= ops' /\ binding # None /\ gate.at \notin Modes
      /\ inbox = 0 /\ initial = None
  BY <1>2, <1>3 DEF Gates, Held, Modes
<1>5. gate.remote = binding.remote /\ Len(log[gate.remote]) \in Nat
  BY <1>2, <1>4, HolderOfBinding
<1>6. CASE /\ window' = Boundary(gate.remote)
           /\ Boundary(gate.remote) \in 0..Len(log[gate.remote])
           /\ Has(gate', "item", gate.binding, gate.remote, gate.seen,
                  Page(binding.cursor + 1 .. Boundary(gate.remote)), gate.op, gate.reply)
  <2> DEFINE n == Boundary(gate.remote)
             page == Page(binding.cursor + 1 .. n)
  <2>1. n \in Nat /\ n <= Len(log[binding.remote])
    BY <1>5, <1>6
  <2>2. InOrder(page)
    BY <1>4, <2>1, PageInOrder
  <2> HIDE DEF page, n
  <2>3. Has(gate', "item", gate.binding, gate.remote, gate.seen, page, gate.op, gate.reply)
    BY <1>6 DEF page, n
  <2>4. Gates'
    BY <1>2, <1>3, <1>4, <2>3, GatesGo DEF Modes
  <2>5. Taken'
    <3>1. gate'.todo = page
      BY <2>3 DEF Has
    <3> QED
      BY <1>3, <1>4, <2>2, <3>1 DEF Taken, InOrder
  <2>6. Tables'
    <3>1. Positions'
      BY <1>3, <1>4, <1>6, <2>1 DEF Positions, Tables, n
    <3> QED
      BY <1>3, <1>4, <3>1 DEF Tables, Unbound, Merging, CursorAndHeads
  <2> QED
    BY <2>4, <2>5, <2>6
<1>7. CASE window' = window /\ Goes("push")
  <2>1. Has(gate', "push", gate.binding, gate.remote, gate.seen, {}, gate.op, gate.reply)
    BY <1>4, <1>7 DEF Goes
  <2> QED
    BY <1>2, <1>3, <1>4, <1>7, <2>1, CycleKept DEF Modes
<1>8. CASE window' = window /\ gate' = None
  BY <1>2, <1>3, <1>8, FreedKept
<1> QED
  BY <1>1, <1>6, <1>7, <1>8, FetchType

LEMMA StageKept ==
    ASSUME TypeOK, Gates, Taken, Tables, Stage
    PROVE  Gates' /\ Taken' /\ Tables'
<1>1. /\ TypeOK' /\ gate # None /\ gate.at = "item" /\ Held /\ gate \in Holders
      /\ NextItem \in gate.todo /\ \A s \in gate.todo : NextItem <= s
      /\ inbox' = NextItem
      /\ Has(gate', "staged", gate.binding, gate.remote, gate.seen,
             gate.todo \ {NextItem}, gate.op, gate.reply)
      /\ UNCHANGED <<server, files, queue, initial, window, heads, conflicts,
                     inherited, binding, scope, ops>>
  BY StageType DEF Stage, Running
<1>2. UNCHANGED <<log, binding, initial, window, heads, conflicts, ops>>
      /\ LogsGrow /\ SameBinding
  BY <1>1, SameLogGrows DEF server, SameBinding
<1>3. /\ binding # None /\ gate.at \notin Modes /\ inbox = 0 /\ gate.op <= ops'
  BY <1>1, <1>2 DEF Gates, Held, Modes
<1>4. /\ gate.remote = binding.remote /\ Len(log[binding.remote]) \in Nat
      /\ binding.cursor \in Nat /\ NextItem \in Nat /\ gate.todo \in SUBSET Nat
  BY <1>1, <1>3, HolderOfBinding, HolderFields
<1>5. /\ NextItem # 0 /\ NextItem <= Len(log[binding.remote])
      /\ initial = None => NextItem = binding.cursor + 1
      /\ initial # None => NextItem \in initial.items
  <2>1. CASE initial = None
    <3>1. InOrder(gate.todo)
      BY <1>1, <1>3, <2>1 DEF Taken
    <3>2. /\ binding.cursor < NextItem /\ NextItem <= Len(log[binding.remote])
          /\ \A t \in 1..NextItem : t <= binding.cursor \/ t \in gate.todo \/ t = 0
      BY <1>1, <1>3, <3>1 DEF InOrder
    <3>3. binding.cursor + 1 \in 1..NextItem
      BY <1>4, <3>2
    <3>4. binding.cursor + 1 \in gate.todo
      BY <1>4, <3>2, <3>3
    <3>5. NextItem <= binding.cursor + 1
      BY <1>1, <3>4
    <3> QED
      BY <1>4, <2>1, <3>2, <3>5
  <2>2. CASE initial # None
    <3>1. NextItem \in initial.items
      BY <1>1, <1>3, <2>2 DEF Taken
    <3>2. initial.items \subseteq 1..initial.boundary
          /\ initial.boundary <= Len(log[binding.remote]) /\ initial.boundary \in Nat
      BY <1>3, <2>2 DEF Tables, Positions, TypeOK, Initials
    <3> QED
      BY <1>4, <2>2, <3>1, <3>2
  <2> QED
    BY <2>1, <2>2
<1>6. Gates'
  BY <1>1, <1>2, <1>3, <1>5, GatesGo DEF Modes
<1>7. Taken'
  <2>1. gate'.todo = gate.todo \ {NextItem}
    BY <1>1 DEF Has
  <2>2. CASE initial = None
    <3>1. InOrder(gate.todo)
      BY <1>1, <1>3, <2>2 DEF Taken
    <3>2. InOrder(gate.todo)'
      BY <1>1, <1>2, <1>3, <2>1, <3>1 DEF InOrder
    <3> QED
      BY <1>2, <2>2, <3>2 DEF Taken
  <2>3. CASE initial # None
    <3>1. gate.todo \subseteq initial.items
      BY <1>1, <1>3, <2>3 DEF Taken
    <3> QED
      BY <1>1, <1>2, <2>1, <2>3, <3>1 DEF Taken
  <2> QED
    BY <2>2, <2>3
<1>8. Tables'
  <2>1. Positions'
    BY <1>1, <1>2, <1>3, <1>5 DEF Positions, Tables
  <2> QED
    BY <1>1, <1>2, <1>3, <2>1, HeadsStay DEF Tables, Unbound
<1> QED
  BY <1>6, <1>7, <1>8

\* Heads only grow.
LEMMA NewerGrows ==
    ASSUME TypeOK, NEW f \in Ids, NEW s \in Nat, heads' = Newer(f, s)
    PROVE  /\ heads' \in [Ids -> Nat]
           /\ \A g \in Ids : heads[g] \in Nat /\ heads'[g] \in Nat /\ heads'[g] >= heads[g]
           /\ heads'[f] >= s
           /\ \A g \in Ids : heads'[g] = heads[g] \/ (g = f /\ heads'[g] = s)
<1>1. /\ heads' \in [Ids -> Nat]
      /\ \A g \in Ids : g # f => heads'[g] = heads[g]
      /\ heads[f] < s => heads'[f] = s
      /\ heads[f] >= s => heads'[f] = heads[f]
  BY NewerIs
<1>2. \A g \in Ids : heads[g] \in Nat /\ heads'[g] \in Nat
  BY <1>1 DEF TypeOK
<1>3. heads[f] < s \/ heads[f] >= s
  BY <1>2
<1>4. heads'[f] >= heads[f] /\ heads'[f] >= s /\ (heads'[f] = heads[f] \/ heads'[f] = s)
  BY <1>1, <1>2, <1>3
<1>5. \A g \in Ids : heads'[g] >= heads[g] /\ (heads'[g] = heads[g] \/ (g = f /\ heads'[g] = s))
  BY <1>1, <1>2, <1>4
<1> QED
  BY <1>1, <1>2, <1>4, <1>5

\* A head that moves to a revision of its file says what is in the log.
LEMMA NewerInLog ==
    ASSUME TypeOK, Tables, binding # None, NEW f \in Ids,
           NEW s \in 1..Len(log[binding.remote]), log[binding.remote][s].id = f,
           heads' = Newer(f, s), log' = log
    PROVE  \A g \in Ids : heads'[g] # 0 => /\ heads'[g] <= Len(log[binding.remote])
                                           /\ log[binding.remote][heads'[g]].id = g
<1>1. Len(log[binding.remote]) \in Nat
  BY LogTypes DEF TypeOK, Bindings
<1>2. s \in Nat /\ s <= Len(log[binding.remote])
  BY <1>1
<1>3. \A g \in Ids : heads'[g] = heads[g] \/ (g = f /\ heads'[g] = s)
  BY <1>2, NewerGrows
<1>4. \A g \in Ids : heads[g] # 0 => /\ heads[g] <= Len(log[binding.remote])
                                     /\ log[binding.remote][heads[g]].id = g
  BY DEF Tables, CursorAndHeads
<1> QED
  BY <1>2, <1>3, <1>4

LEMMA ApplyKept ==
    ASSUME TypeOK, Gates, Taken, Tables, Apply
    PROVE  Gates' /\ Taken' /\ Tables'
<1> DEFINE r == binding.remote
           s == inbox
           f == log[r][s].id
<1>1. Positions
  BY DEF Tables
<1>2. /\ TypeOK' /\ gate # None /\ gate.at = "staged" /\ Goes("item")
      /\ Finish(inbox) /\ Settled
  BY <1>1, ApplyType DEF Apply, Running
<1>3. /\ binding # None /\ gate.remote = r /\ s \in 1..Len(log[r]) /\ log[r][s] \in Revisions
      /\ r \in Remotes
  BY <1>1, <1>2, StagedRevision, HolderOfBinding DEF Modes
<1>4. /\ f \in Ids /\ s \in Nat /\ binding.cursor \in Nat /\ Len(log[r]) \in Nat
      /\ s <= Len(log[r]) /\ s # 0
  BY <1>3, RevisionFields, LogTypes DEF TypeOK, Bindings
<1>5. MoveCursor(s) /\ heads' = Newer(f, s) /\ log' = log /\ ops' = ops
  BY <1>2, <1>3 DEF Finish, Settled, server
<1> DEFINE first == initial = None /\ initial' = None /\ binding'.cursor = s
           last == /\ initial # None /\ initial.items \ {s} = {}
                   /\ initial' = None /\ binding'.cursor = initial.boundary
           more == /\ initial # None /\ initial.items \ {s} # {}
                   /\ initial' # None /\ initial'.boundary = initial.boundary
                   /\ initial'.items = initial.items \ {s} /\ binding' = binding
<1>6. /\ inbox' = 0 /\ window' \in {0, window} /\ binding' \in Bindings
      /\ binding'.id = binding.id /\ binding'.remote = r
      /\ first \/ last \/ more
  BY <1>3, <1>4, <1>5, MoveCursorIs
<1>7. binding' # None /\ SameBinding /\ LogsGrow
  BY <1>3, <1>5, <1>6, NoneAssumption, SameLogGrows DEF SameBinding
<1>8. initial # None =>
         /\ initial.boundary \in Nat /\ initial.boundary <= Len(log[r])
         /\ initial.items \subseteq 1..initial.boundary /\ binding.cursor = 0
         /\ s \in initial.items
  BY <1>1, <1>3, <1>4 DEF Positions, TypeOK, Initials
<1>9. initial = None => s = binding.cursor + 1
  BY <1>1, <1>3, <1>4 DEF Positions
<1>10. /\ gate \in Holders /\ gate.todo \in SUBSET Nat /\ gate.op <= ops'
       /\ Has(gate', "item", gate.binding, gate.remote, gate.seen, gate.todo,
              gate.op, gate.reply)
  BY <1>2, <1>5, HolderFields DEF Goes, Gates
<1>11. Gates'
  BY <1>2, <1>6, <1>7, <1>10, GatesGo DEF Modes
<1>12. \A g \in Ids : /\ heads[g] \in Nat /\ heads'[g] \in Nat /\ heads'[g] >= heads[g]
  BY <1>4, <1>5, NewerGrows
<1>13. heads'[f] >= s
  BY <1>4, <1>5, NewerGrows
<1>14. \A g \in Ids : heads'[g] # 0 => heads'[g] <= Len(log[r]) /\ log[r][heads'[g]].id = g
  BY <1>3, <1>4, <1>5, NewerInLog
<1>15. \A t \in 1..Len(log[r]) : log[r][t].id \in Ids
  BY <1>3, LogTypes
<1> HIDE DEF r, s, f
<1>16. CASE first
  <2>1. InOrder(gate.todo)
    BY <1>2, <1>3, <1>16 DEF Taken
  <2>2. Taken'
    <3>1. gate'.todo = gate.todo
      BY <1>10 DEF Has
    <3>2. \A t \in gate.todo :
            /\ s < t /\ t <= Len(log[r]) /\ t # 0
            /\ \A u \in 1..t : u <= s \/ u \in gate.todo
      <4> SUFFICES ASSUME NEW t \in gate.todo
                   PROVE  /\ s < t /\ t <= Len(log[r]) /\ t # 0
                          /\ \A u \in 1..t : u <= s \/ u \in gate.todo
        OBVIOUS
      <4>1. /\ binding.cursor < t /\ t <= Len(log[r]) /\ t # s
            /\ \A u \in 1..t : u <= binding.cursor \/ u \in gate.todo \/ u = s
        BY <2>1 DEF InOrder, r, s
      <4>2. t \in Nat /\ s = binding.cursor + 1
        BY <1>9, <1>10, <1>16
      <4>3. \A u \in 1..t : u <= binding.cursor \/ u = s => u <= s
        BY <1>4, <4>2
      <4> QED
        BY <1>4, <4>1, <4>2, <4>3
    <3>3. InOrder(gate.todo)'
      BY <1>5, <1>6, <1>16, <3>1, <3>2 DEF InOrder
    <3> QED
      BY <1>16, <3>3 DEF Taken
  <2>3. Positions'
    BY <1>1, <1>3, <1>4, <1>5, <1>6, <1>16 DEF Positions, r, s
  <2>4. CursorAndHeads'
    <3>1. ASSUME NEW t \in 1..s
          PROVE  heads'[log[r][t].id] >= t
      <4>1. t \in 1..Len(log[r]) /\ t \in Nat
        BY <1>4
      <4>2. CASE t = s
        BY <1>13, <4>2 DEF f
      <4>3. CASE t # s
        <5>1. t \in 1..binding.cursor
          BY <1>4, <1>9, <1>16, <4>3
        <5>2. heads[log[r][t].id] >= t
          BY <1>3, <5>1 DEF Tables, CursorAndHeads, r
        <5>3. log[r][t].id \in Ids
          BY <1>15, <4>1
        <5> QED
          BY <1>12, <4>1, <5>2, <5>3
      <4> QED
        BY <4>2, <4>3
    <3> QED
      BY <1>5, <1>6, <1>14, <1>16, <3>1 DEF CursorAndHeads
  <2> QED
    BY <1>7, <1>11, <1>16, <2>2, <2>3, <2>4 DEF Tables, Unbound, Merging
<1>17. CASE last
  <2>1. Taken'
    <3>1. gate.todo = {}
      BY <1>2, <1>3, <1>17 DEF Taken, s
    <3>2. gate'.todo = {}
      BY <1>10, <3>1 DEF Has
    <3> QED
      BY <1>17, <3>2 DEF Taken, InOrder
  <2>2. Positions'
    BY <1>1, <1>3, <1>5, <1>6, <1>8, <1>17 DEF Positions, r, s
  <2>3. CursorAndHeads'
    <3>1. ASSUME NEW t \in 1..initial.boundary
          PROVE  heads'[log[r][t].id] >= t
      <4> DEFINE g == log[r][t].id
                 m == Latest(r, g, initial.boundary)
      <4>1. t \in 1..Len(log[r]) /\ t \in Nat /\ initial.boundary \in Nat
        BY <1>4, <1>8, <1>17
      <4>2. g \in Ids
        BY <1>15, <4>1
      <4>3. m \in Nat /\ t <= m /\ (m # 0 => log[r][m].id = g)
        BY <4>1, LatestIs
      <4>4. m = 0 \/ heads[g] >= m \/ m \in initial.items
        BY <1>3, <1>17, <4>2 DEF Tables, Merging, r
      <4> HIDE DEF g, m
      <4>5. CASE heads[g] >= m
        <5>1. heads'[g] >= heads[g] /\ heads'[g] \in Nat /\ heads[g] \in Nat
          BY <1>12, <4>2
        <5> QED
          BY <4>1, <4>3, <4>5, <5>1 DEF g
      <4>6. CASE m \in initial.items
        <5>1. m = s
          BY <1>17, <4>6
        <5>2. g = f
          BY <1>4, <4>3, <5>1 DEF f
        <5>3. heads'[g] >= s /\ heads'[g] \in Nat
          BY <1>12, <1>13, <4>2, <5>2
        <5> QED
          BY <1>4, <4>1, <4>3, <5>1, <5>3 DEF g
      <4>7. m # 0
        BY <4>1, <4>3
      <4> QED
        BY <4>4, <4>5, <4>6, <4>7
    <3> QED
      BY <1>5, <1>6, <1>14, <1>17, <3>1 DEF CursorAndHeads
  <2> QED
    BY <1>7, <1>11, <1>17, <2>1, <2>2, <2>3 DEF Tables, Unbound, Merging
<1>18. CASE more
  <2>1. Taken'
    <3>1. gate.todo \subseteq initial.items \ {s} /\ 0 \notin initial.items
      BY <1>2, <1>3, <1>8, <1>18 DEF Taken, s
    <3>2. gate'.todo = gate.todo
      BY <1>10 DEF Has
    <3> QED
      BY <1>6, <1>18, <3>1, <3>2 DEF Taken
  <2>2. Positions'
    BY <1>1, <1>3, <1>5, <1>6, <1>8, <1>18 DEF Positions, r, s
  <2>3. CursorAndHeads'
    <3>1. binding.cursor = 0
      BY <1>8, <1>18
    <3> QED
      BY <1>5, <1>14, <1>18, <3>1 DEF CursorAndHeads, r
  <2>4. Merging'
    <3>1. ASSUME NEW g \in Ids
          PROVE  \/ Latest(r, g, initial.boundary) = 0
                 \/ heads'[g] >= Latest(r, g, initial.boundary)
                 \/ Latest(r, g, initial.boundary) \in initial.items \ {s}
      <4> DEFINE m == Latest(r, g, initial.boundary)
      <4>1. m \in Nat /\ (m # 0 => log[r][m].id = g)
        BY <1>8, <1>18, LatestIs
      <4>2. m = 0 \/ heads[g] >= m \/ m \in initial.items
        BY <1>3, <1>18 DEF Tables, Merging, r
      <4> HIDE DEF m
      <4>3. heads[g] >= m => heads'[g] >= m
        BY <1>12, <4>1
      <4>4. CASE m = s
        <5>1. g = f
          BY <1>4, <4>1, <4>4 DEF f
        <5> QED
          BY <1>13, <4>4, <5>1 DEF m
      <4> QED
        BY <4>2, <4>3, <4>4 DEF m
    <3>2. \A g \in Ids : Latest(r, g, initial.boundary)' = Latest(r, g, initial'.boundary)
      <4>1. r' = r /\ initial'.boundary = initial.boundary
        BY <1>18 DEF r
      <4> QED
        BY <1>5, <4>1 DEF Latest
    <3> QED
      BY <1>5, <1>18, <3>1 DEF Merging, r, Latest
  <2> QED
    BY <1>7, <1>11, <2>1, <2>2, <2>3, <2>4 DEF Tables, Unbound
<1> QED
  BY <1>6, <1>16, <1>17, <1>18

\* sync_ack moves the head of the job's file.
LEMMA AckKept ==
    ASSUME TypeOK, Gates, Tables, Operations, Owned, Answered, Ack
    PROVE  Gates' /\ Taken' /\ Tables'
<1> DEFINE r == binding.remote
           s == Sequence(gate.op)
           f == Job.id
<1>1. /\ TypeOK' /\ gate # None /\ gate.at = "sent" /\ Held /\ Job \in queue
      /\ gate.remote = r /\ s \in 1..Len(log[r]) /\ log[r][s].id = f
      /\ heads' = Newer(f, s)
      /\ Has(gate', "push", gate.binding, gate.remote, gate.seen, gate.todo, 0, "none")
      /\ UNCHANGED <<server, files, initial, window, inbox, conflicts, inherited,
                     binding, scope, ops>>
  BY AckType
<1>2. binding # None /\ log' = log /\ gate.at \notin Modes /\ SameBinding /\ LogsGrow
  BY <1>1, SameLogGrows DEF Held, server, Modes, SameBinding
<1>3. /\ gate.todo = {} /\ 0 <= ops'
  BY <1>1 DEF Gates, TypeOK
<1>4. Gates'
  BY <1>1, <1>2, <1>3, GatesGo DEF Modes
<1>5. Taken'
  BY <1>1, NoPage DEF Has
<1>6. f \in Ids /\ r \in Remotes /\ s \in Nat /\ binding.cursor \in Nat
  <2>1. Job \in Jobs /\ r \in Remotes /\ binding.cursor \in Nat
    BY <1>1, <1>2 DEF TypeOK, Bindings
  <2>2. Len(log[r]) \in Nat
    BY <2>1, LogTypes
  <2> QED
    BY <1>1, <2>1, <2>2, JobFields
<1>7. \A g \in Ids : /\ heads[g] \in Nat /\ heads'[g] \in Nat /\ heads'[g] >= heads[g]
  BY <1>1, <1>6, NewerGrows
<1>8. \A g \in Ids : heads'[g] # 0 => heads'[g] <= Len(log[r]) /\ log[r][heads'[g]].id = g
  BY <1>1, <1>2, <1>6, NewerInLog
<1>9. \A t \in 1..Len(log[r]) : log[r][t].id \in Ids
  BY <1>6, LogTypes
<1> HIDE DEF s, f
<1>10. CursorAndHeads'
  <2>1. ASSUME NEW t \in 1..binding.cursor
        PROVE  heads'[log[r][t].id] >= t
    <3>1. t \in 1..Len(log[r]) /\ t \in Nat
      <4>1. binding.cursor <= Len(log[r]) /\ Len(log[r]) \in Nat
        BY <1>2, <1>6, LogTypes DEF Tables, Positions
      <4> QED
        BY <1>6, <4>1
    <3>2. heads[log[r][t].id] >= t /\ log[r][t].id \in Ids
      BY <1>2, <1>9, <3>1 DEF Tables, CursorAndHeads
    <3> QED
      BY <1>7, <3>1, <3>2
  <2> QED
    BY <1>1, <1>2, <1>8, <2>1 DEF CursorAndHeads
<1>11. Positions' /\ Unbound'
  BY <1>1, <1>2 DEF Tables, Positions, Unbound
<1>12. Merging'
  <2> SUFFICES ASSUME initial # None, NEW g \in Ids
               PROVE  \/ Latest(r, g, initial.boundary) = 0
                      \/ heads'[g] >= Latest(r, g, initial.boundary)
                      \/ Latest(r, g, initial.boundary) \in initial.items
    BY <1>1, <1>2 DEF Merging, Latest
  <2> DEFINE m == Latest(r, g, initial.boundary)
  <2>1. m = 0 \/ heads[g] >= m \/ m \in initial.items
    BY <1>2 DEF Tables, Merging
  <2>2. m \in Nat
    BY LatestIs DEF TypeOK, Initials
  <2> HIDE DEF m
  <2>3. heads[g] >= m => heads'[g] >= m
    BY <1>7, <2>2
  <2> QED
    BY <2>1, <2>3 DEF m
<1> QED
  BY <1>4, <1>5, <1>10, <1>11, <1>12 DEF Tables

\* An initial merge begins with the heads of the snapshot that need no merging.
LEMMA BindMergeKept ==
    ASSUME TypeOK, Gates, BindMerge
    PROVE  Gates' /\ Taken' /\ Tables'
<1> DEFINE r == gate.remote
           n == gate.seen
           h == [f \in Ids |-> LET s == Latest(r, f, n) IN
                   IF s \in Items(r, n) /\ PathOf(f) \notin Identical(r, n) THEN 0 ELSE s]
<1>1. gate # None /\ FreshTables /\ UNCHANGED server
  BY DEF BindMerge
<1>2. /\ r \in Remotes /\ n \in Nat /\ n <= Len(log[r]) /\ Len(log[r]) \in Nat
      /\ \A s \in 1..n : log[r][s] \in Revisions
  BY <1>1, BindRemote
<1>3. /\ binding' = NewBinding(r, IF Items(r, n) = {} THEN n ELSE 0)
      /\ initial' = IF Items(r, n) = {} THEN None
                    ELSE [boundary |-> n, items |-> Items(r, n)]
      /\ heads' = h
  BY DEF BindMerge
<1>4. TypeOK' /\ gate' = None /\ inbox' = 0 /\ window' = 0 /\ log' = log
  BY <1>1, BindMergeType, FreshIs DEF server
<1> HIDE DEF r, n
<1>5. binding' # None /\ binding'.remote = r
  BY <1>2, <1>3, NewBindingIs
<1>6. ASSUME NEW f \in Ids
      PROVE  /\ heads'[f] \in {0, Latest(r, f, n)}
             /\ Latest(r, f, n) \in Items(r, n) \/ heads'[f] = Latest(r, f, n)
  BY <1>3
<1> HIDE DEF h
<1>7. \A f \in Ids : heads'[f] # 0 => heads'[f] <= Len(log[r]) /\ log[r][heads'[f]].id = f
  <2> SUFFICES ASSUME NEW f \in Ids, heads'[f] # 0
               PROVE  heads'[f] <= Len(log[r]) /\ log[r][heads'[f]].id = f
    OBVIOUS
  <2>1. heads'[f] = Latest(r, f, n)
    BY <1>6
  <2>2. Latest(r, f, n) \in 0..n /\ (Latest(r, f, n) # 0 => log[r][Latest(r, f, n)].id = f)
    BY <1>2, LatestIs
  <2>3. heads'[f] \in 0..n /\ log[r][heads'[f]].id = f
    BY <2>1, <2>2
  <2> QED
    BY <1>2, <2>3
<1>8. CASE Items(r, n) = {}
  <2>1. initial' = None /\ binding'.cursor = n
    BY <1>2, <1>3, <1>8, NewBindingIs
  <2>2. ASSUME NEW t \in 1..n
        PROVE  heads'[log[r][t].id] >= t
    <3>1. log[r][t].id \in Ids /\ t \in Nat
      BY <1>2, RevisionFields
    <3>2. heads'[log[r][t].id] = Latest(r, log[r][t].id, n)
      BY <1>6, <1>8, <3>1
    <3>3. t <= Latest(r, log[r][t].id, n) /\ Latest(r, log[r][t].id, n) \in Nat
      BY <1>2, LatestIs
    <3> QED
      BY <3>1, <3>2, <3>3
  <2>3. CursorAndHeads'
    BY <1>4, <1>5, <1>7, <2>1, <2>2 DEF CursorAndHeads
  <2>4. Positions' /\ Unbound' /\ Merging'
    BY <1>2, <1>4, <1>5, <2>1 DEF Positions, Unbound, Merging
  <2> QED
    BY <1>4, <2>3, <2>4, GateFree DEF Tables
<1>9. CASE Items(r, n) # {}
  <2>1. binding'.cursor = 0
    BY <1>2, <1>3, <1>9, NewBindingIs
  <2>2. initial'.boundary = n /\ initial'.items = Items(r, n)
    BY <1>3, <1>9
  <2>3. Items(r, n) \subseteq 1..n
    BY DEF Items
  <2>4. CursorAndHeads'
    BY <1>4, <1>5, <1>7, <2>1 DEF CursorAndHeads
  <2>5. Positions' /\ Unbound'
    BY <1>2, <1>4, <1>5, <2>1, <2>2, <2>3 DEF Positions, Unbound
  <2>6. Merging'
    <3> SUFFICES ASSUME NEW f \in Ids
                 PROVE  \/ Latest(r, f, n) = 0
                        \/ heads'[f] >= Latest(r, f, n)
                        \/ Latest(r, f, n) \in Items(r, n)
      BY <1>4, <1>5, <2>2 DEF Merging, Latest
    <3>1. Latest(r, f, n) \in Nat
      BY <1>2, LatestIs
    <3>2. Latest(r, f, n) \in Items(r, n) \/ heads'[f] = Latest(r, f, n)
      BY <1>6
    <3> DEFINE m == Latest(r, f, n)
    <3>3. m \in Nat /\ (m \in Items(r, n) \/ heads'[f] = m)
      BY <3>1, <3>2
    <3> HIDE DEF m
    <3>4. m \in Items(r, n) \/ heads'[f] >= m
      BY <3>3
    <3> QED
      BY <3>4 DEF m
  <2> QED
    BY <1>4, <2>4, <2>5, <2>6, GateFree DEF Tables
<1> QED
  BY <1>8, <1>9

\* The other binds begin behind nothing.
LEMMA BindEmptyKept ==
    ASSUME TypeOK, Gates, gate # None, FreshTables, UNCHANGED server,
           binding' = NewBinding(gate.remote, 0), initial' = None,
           heads' = [f \in Ids |-> 0]
    PROVE  Gates' /\ Taken' /\ Tables'
<1>1. gate' = None /\ inbox' = 0 /\ window' = 0 /\ log' = log
  BY FreshIs DEF server
<1>2. gate.remote \in Remotes /\ Len(log[gate.remote]) \in Nat
  BY BindRemote
<1>3. binding' # None /\ binding'.remote = gate.remote /\ binding'.cursor = 0
  BY <1>2, NewBindingIs
<1>4. Positions' /\ Unbound' /\ Merging'
  BY <1>1, <1>2, <1>3 DEF Positions, Unbound, Merging
<1>5. CursorAndHeads'
  BY <1>3 DEF CursorAndHeads
<1> QED
  BY <1>1, <1>4, <1>5, GateFree DEF Tables

\* Unbinding empties the tables under whatever cycle is in progress.
LEMMA UnbindKept ==
    ASSUME TypeOK, Gates, Tables, Unbind
    PROVE  Gates' /\ Taken' /\ Tables'
<1>1. /\ gate' = Cancelled /\ binding' = None /\ Unlocked
      /\ initial' = None /\ window' = 0 /\ inbox' = 0 /\ conflicts' = {}
      /\ heads' = [f \in Ids |-> 0]
      /\ log' = log /\ ops' = ops
  BY DEF Unbind, server
<1>2. TypeOK' /\ SameGate /\ LogsGrow /\ SameBinding
  BY <1>1, UnbindType, CancelledSame, SameLogGrows DEF SameBinding
<1>3. Tables'
  BY <1>1 DEF Tables, Unbound, Positions, Merging, CursorAndHeads
<1>4. Taken'
  BY <1>1 DEF Taken
<1>5. CASE gate = None
  <2>1. gate' = None
    BY <1>2, <1>5 DEF SameGate
  <2> QED
    BY <1>3, <2>1, GateFree
<1>6. CASE gate # None
  <2>1. Has(gate', gate.at, gate.binding, gate.remote, gate.seen, gate.todo,
            gate.op, gate.reply)
    BY <1>2, <1>6 DEF SameGate
  <2>2. gate.at # "staged"
    BY <1>1, <1>6 DEF Unlocked
  <2>3. gate.at \notin {"item", "staged"} => gate.todo = {}
    BY <1>6 DEF Gates
  <2>4. gate.op <= ops'
    BY <1>1, <1>6 DEF Gates
  <2>5. Gates'
    BY <1>1, <1>2, <1>6, <2>1, <2>2, <2>3, <2>4, GatesGo
  <2> QED
    BY <1>3, <1>4, <2>5
<1> QED
  BY <1>5, <1>6
-----------------------------------------------------------------------------
(* Every step keeps Operations, Owned and Answered *)

\* Each operation once.
Once(Q) == \A j, k \in Q : j.op = k.op => j = k
\* Jobs that were queued, or have new operation ids up to m.
Derived(Q, m) ==
    /\ Q \subseteq Jobs /\ m \in Nat /\ ops <= m /\ Once(Q)
    /\ \A j \in Q : \/ \E k \in queue : Same(j, k)
                    \/ ops < j.op /\ j.op <= m

LEMMA QueueDerived ==
    ASSUME TypeOK, Operations, NEW Q, Q \subseteq queue
    PROVE  Derived(Q, ops)
<1>1. ops \in Nat /\ ops <= ops /\ Q \subseteq Jobs
  BY DEF TypeOK
<1>2. Once(Q)
  BY DEF Operations, Once
<1> QED
  BY <1>1, <1>2 DEF Derived, Same

LEMMA PartDerived ==
    ASSUME NEW Q, NEW m, Derived(Q, m), NEW R, R \subseteq Q
    PROVE  Derived(R, m)
  BY DEF Derived, Once

\* New jobs behind the others.
LEMMA MoreDerived ==
    ASSUME TypeOK, Operations, NEW Q, NEW n, Derived(Q, n), NEW R, NEW m, Numbered(R, n, m)
    PROVE  Derived(Q \cup R, m)
<1>1. ops \in Nat /\ n \in Nat /\ m \in Nat /\ ops <= n /\ n <= m
  BY DEF TypeOK, Derived, Numbered
<1>2. \A j \in Q : j.op \in Nat /\ j.op <= n
  <2> SUFFICES ASSUME NEW j \in Q
               PROVE  j.op \in Nat /\ j.op <= n
    OBVIOUS
  <2>1. j \in Jobs
    BY DEF Derived
  <2>2. j.op \in Nat
    BY <2>1, JobFields
  <2>3. CASE \E k \in queue : Same(j, k)
    BY <1>1, <2>2, <2>3 DEF Same, Operations
  <2> QED
    BY <2>2, <2>3 DEF Derived
<1>3. \A j \in R : j \in Jobs /\ j.op \in Nat /\ n < j.op /\ j.op <= m
  <2> SUFFICES ASSUME NEW j \in R
               PROVE  j \in Jobs /\ j.op \in Nat /\ n < j.op /\ j.op <= m
    OBVIOUS
  <2>1. j \in Jobs
    BY DEF Numbered
  <2> QED
    BY <2>1, JobFields DEF Numbered
<1>4. Once(Q \cup R)
  <2> SUFFICES ASSUME NEW j \in Q \cup R, NEW k \in Q \cup R, j.op = k.op
               PROVE  j = k
    BY DEF Once
  <2>1. CASE j \in Q /\ k \in Q
    BY <2>1 DEF Derived, Once
  <2>2. CASE j \in R /\ k \in R
    BY <2>2 DEF Numbered
  <2>3. j \in Q => k \notin R
    BY <1>1, <1>2, <1>3
  <2>4. j \in R => k \notin Q
    BY <1>1, <1>2, <1>3
  <2> QED
    BY <2>1, <2>2, <2>3, <2>4
<1>5. ASSUME NEW j \in Q \cup R
      PROVE  (\E k \in queue : Same(j, k)) \/ (ops < j.op /\ j.op <= m)
  <2>1. CASE j \in Q
    <3>1. (\E k \in queue : Same(j, k)) \/ (ops < j.op /\ j.op <= n)
      BY <2>1 DEF Derived
    <3> QED
      BY <1>1, <1>2, <2>1, <3>1
  <2>2. CASE j \in R
    BY <1>1, <1>3, <2>2
  <2> QED
    BY <2>1, <2>2
<1>6. Q \cup R \subseteq Jobs
  BY <1>3 DEF Derived
<1> QED
  BY <1>1, <1>4, <1>5, <1>6 DEF Derived

\* A job that went through sync_capture.
Capture(k) == [k EXCEPT !.stage = IF @ = "pending" THEN "queued" ELSE @]

LEMMA CapturedDerived ==
    ASSUME TypeOK, NEW q, NEW m, Derived(q, m)
    PROVE  Derived(Captured(q), m)
<1>1. q \subseteq Jobs /\ m \in Nat /\ ops <= m /\ Once(q)
  BY DEF Derived
<1>2. Captured(q) \subseteq Jobs /\ \A j \in Captured(q) : \E k \in q : Same(j, k)
  BY <1>1, CapturedAre
<1>3. Once(Captured(q))
  <2>1. \A j \in Captured(q) : \E k \in q : j = Capture(k)
    BY DEF Captured, Capture
  <2>2. \A k \in q : Capture(k).op = k.op
    BY <1>1 DEF Capture, Jobs
  <2> QED
    BY <1>1, <2>1, <2>2 DEF Once
<1>4. ASSUME NEW j \in Captured(q)
      PROVE  (\E k \in queue : Same(j, k)) \/ (ops < j.op /\ j.op <= m)
  <2>1. PICK k \in q : Same(j, k)
    BY <1>2
  <2>2. CASE ops < k.op /\ k.op <= m
    BY <2>1, <2>2 DEF Same
  <2>3. CASE \E l \in queue : Same(k, l)
    BY <2>1, <2>3 DEF Same
  <2> QED
    BY <2>2, <2>3 DEF Derived
<1> QED
  BY <1>1, <1>2, <1>3, <1>4 DEF Derived

\* A queue derived from the old one, with nothing sent.
LEMMA LedgerKept ==
    ASSUME TypeOK, Operations, Owned, UNCHANGED <<log, wire>>,
           Derived(queue', ops'),
           \/ queue' = {}
           \/ binding # None => binding' # None /\ binding'.remote = binding.remote
    PROVE  Operations' /\ Owned'
<1>1. ops \in Nat /\ ops' \in Nat /\ ops <= ops' /\ queue \subseteq Jobs
  BY DEF TypeOK, Derived
<1>2. \A m \in wire : m.op \in Nat /\ m.op <= ops
  BY DEF TypeOK, Commits, Operations
<1>3. \A r \in Remotes : \A s \in 1..Len(log[r]) : log[r][s].by \in Nat /\ log[r][s].by <= ops
  BY LogTypes DEF Operations
<1>4. ASSUME NEW j \in queue'
      PROVE  \/ \E k \in queue : Same(j, k)
             \/ j.op \in Nat /\ ops < j.op /\ j.op <= ops'
  <2>1. j \in Jobs
    BY DEF Derived
  <2> QED
    BY <2>1, JobFields DEF Derived
<1>5. Operations'
  <2>1. ASSUME NEW j \in queue'
        PROVE  0 < j.op /\ j.op <= ops'
    <3>1. CASE \E k \in queue : Same(j, k)
      <4>1. PICK k \in queue : Same(j, k)
        BY <3>1
      <4>2. k.op \in Nat /\ 0 < k.op /\ k.op <= ops
        <5>1. k \in Jobs
          BY <1>1
        <5> QED
          BY <5>1, JobFields DEF Operations
      <4> QED
        BY <1>1, <4>1, <4>2 DEF Same
    <3> QED
      BY <1>1, <1>4, <3>1
  <2>2. \A m \in wire : 0 < m.op /\ m.op <= ops'
    BY <1>1, <1>2 DEF Operations
  <2>3. \A r \in Remotes : \A s \in 1..Len(log[r]) : log[r][s].by <= ops'
    BY <1>1, <1>3
  <2> QED
    BY <2>1, <2>2, <2>3 DEF Operations, Derived, Once
<1>6. ASSUME NEW j \in queue'
      PROVE  /\ Sent(j.op)' => binding' # None /\ j.stage # "pending"
             /\ \A m \in wire : m.op = j.op =>
                   m.remote = binding'.remote /\ m.id = j.id /\ m.content = j.content
             /\ \A r \in Remotes : \A s \in 1..Len(log[r]) : log[r][s].by = j.op =>
                   /\ r = binding'.remote
                   /\ log[r][s].id = j.id /\ log[r][s].content = j.content
  <2>1. Sent(j.op)' <=> Sent(j.op)
    BY DEF Sent
  <2>2. CASE ~Sent(j.op)
    BY <2>1, <2>2 DEF Sent
  <2>3. CASE Sent(j.op)
    <3>1. ~(j.op \in Nat /\ ops < j.op)
      BY <1>1, <1>2, <1>3, <2>3 DEF Sent
    <3>2. PICK k \in queue : Same(j, k)
      BY <1>4, <3>1
    <3>3. Sent(k.op)
      BY <2>3, <3>2 DEF Same
    <3>4. binding # None /\ k.stage # "pending" /\ binding' # None
          /\ binding'.remote = binding.remote
      BY <3>3 DEF Owned
    <3>5. j.stage # "pending"
      BY <3>2, <3>4 DEF Same
    <3> QED
      BY <3>2, <3>4, <3>5 DEF Owned, Same
  <2> QED
    BY <2>2, <2>3
<1>7. Owned'
  BY <1>6 DEF Owned
<1> QED
  BY <1>5, <1>7

\* An answer stays what it was.
LEMMA AnswerStays ==
    ASSUME TypeOK, Answered, SameGate, LogsGrow, wire' \subseteq wire
    PROVE  Answered'
<1>1. CASE gate = None
  BY <1>1, GateFree DEF SameGate
<1>2. CASE gate # None
  <2>1. /\ gate'.at = gate.at /\ gate'.op = gate.op /\ gate'.reply = gate.reply
        /\ gate'.remote = gate.remote
    BY <1>2 DEF SameGate, Has
  <2>2. gate.remote \in Remotes
    BY <1>2, HolderFields DEF TypeOK
  <2>3. Len(log[gate.remote]) \in Nat /\ Len(log'[gate.remote]) \in Nat =>
           1..Len(log[gate.remote]) \subseteq 1..Len(log'[gate.remote])
    BY <2>2 DEF LogsGrow
  <2> SUFFICES ASSUME gate.at = "sent"
               PROVE  /\ \A m \in wire' : m.op = gate.op => m.remote = gate.remote
                      /\ gate.reply = "accepted" =>
                            \E s \in 1..Len(log'[gate.remote]) : log'[gate.remote][s].by = gate.op
    BY <2>1 DEF Answered
  <2>4. \A m \in wire' : m.op = gate.op => m.remote = gate.remote
    BY <1>2 DEF Answered
  <2> QED
    BY <1>2, <2>2, <2>3, <2>4 DEF Answered, LogsGrow
<1> QED
  BY <1>1, <1>2
-----------------------------------------------------------------------------
(* Every step keeps Following *)

\* Nothing is sent, and what is queued keeps its operation ids.
LEMMA QueueStays ==
    ASSUME TypeOK, Operations, Owned, UNCHANGED <<log, wire, queue, ops>>,
           binding # None => binding' # None /\ binding'.remote = binding.remote
    PROVE  Operations' /\ Owned'
<1>1. Derived(queue', ops')
  BY QueueDerived
<1> QED
  BY <1>1, LedgerKept

\* Steps that leave the server, the binding's tables and the queue alone.
LEMMA AsideFollows ==
    ASSUME TypeOK, TypeOK', Following, SameGate \/ gate' = None,
           UNCHANGED <<log, wire, queue, ops, binding, initial, window, inbox, heads, conflicts>>
    PROVE  Following'
<1>1. Operations' /\ Owned'
  BY QueueStays DEF Following
<1>2. LogsGrow
  BY SameLogGrows
<1>3. ops <= ops'
  BY DEF TypeOK
<1>4. CASE SameGate
  <2>1. Answered'
    BY <1>2, <1>4, AnswerStays DEF Following
  <2> QED
    BY <1>1, <1>2, <1>3, <1>4, <2>1, AsideKept DEF Following
<1>5. CASE gate' = None
  BY <1>1, <1>2, <1>5, FreedKept, GateFree DEF Following
<1> QED
  BY <1>4, <1>5

\* Steps of a cycle that move its point and, at most, the queue.
LEMMA CycleFollows ==
    ASSUME TypeOK, TypeOK', Following, gate # None, gate.at \notin Modes,
           NEW at, NEW op, NEW reply,
           at \notin Modes \cup {"item", "staged", "fetch", "sent"},
           Has(gate', at, gate.binding, gate.remote, gate.seen, {}, op, reply), op <= ops',
           Derived(queue', ops'),
           UNCHANGED <<log, wire, binding, initial, window, inbox, heads, conflicts>>
    PROVE  Following'
<1>1. Operations' /\ Owned'
  BY LedgerKept DEF Following
<1>2. LogsGrow
  BY SameLogGrows
<1>3. Gates' /\ Taken' /\ Tables'
  BY <1>2, CycleKept DEF Following
<1>4. Answered'
  BY NoAnswer DEF Has
<1> QED
  BY <1>1, <1>3, <1>4 DEF Following

LEMMA OutsideFollows ==
    ASSUME TypeOK, Following,
           \/ \E p \in Paths, c \in Hashes : OutsideEdit(p, c)
           \/ Login \/ Refresh \/ Expire \/ Logout \/ RevokeDevice
           \/ \E r \in Remotes : Preview(r)
           \/ BindRefused \/ Pause \/ SetScope \/ Elapse \/ Crash
    PROVE  TypeOK' /\ Following'
<1>1. TypeOK'
  BY OutsideEditType, LoginType, RefreshType, ExpireType, LogoutType, RevokeDeviceType,
     PreviewType, BindRefusedType, PauseType, SetScopeType, ElapseType, CrashType
<1>2. UNCHANGED <<log, wire, queue, ops, binding, initial, window, inbox, heads, conflicts>>
  BY DEF OutsideEdit, Login, Refresh, Expire, Logout, RevokeDevice, Preview, BindRefused,
         Pause, SetScope, Elapse, Crash, server, merging, state
<1>3. gate' = gate \/ gate' = None \/ gate' = Cancelled
  BY DEF OutsideEdit, Login, Refresh, Expire, Logout, RevokeDevice, Preview, BindRefused,
         Pause, SetScope, Elapse, Crash
<1>4. SameGate \/ gate' = None
  BY <1>3, UnchangedSame, CancelledSame
<1> QED
  BY <1>1, <1>2, <1>4, AsideFollows

LEMMA EndsFollows ==
    ASSUME TypeOK, Following, Ends
    PROVE  TypeOK' /\ Following'
<1>1. TypeOK' /\ gate' = None
      /\ UNCHANGED <<server, files, queue, merging, binding, scope, ops>>
  BY EndsType
<1> QED
  BY <1>1, AsideFollows DEF server, merging

LEMMA EditFollows ==
    ASSUME TypeOK, Following, NEW p \in Paths, NEW c \in Hashes, Edit(p, c)
    PROVE  TypeOK' /\ Following'
<1>1. TypeOK'
  BY EditType
<1>2. /\ queue' = queue \cup {NewJob(ops + 1, row[p], c)} /\ ops' = ops + 1 /\ gate' = gate
      /\ UNCHANGED <<log, wire, binding, initial, window, inbox, heads, conflicts>>
  BY DEF Edit, server, merging, state
<1>3. row[p] \in Ids /\ ops \in Nat /\ ops + 1 \in Nat
  BY DEF TypeOK
<1>4. Numbered({NewJob(ops + 1, row[p], c)}, ops, ops')
  BY <1>2, <1>3, JobType DEF Numbered
<1>5. Derived(queue', ops')
  BY <1>2, <1>4, QueueDerived, MoreDerived DEF Following
<1>6. Operations' /\ Owned'
  BY <1>2, <1>5, LedgerKept DEF Following
<1>7. LogsGrow /\ SameGate /\ ops <= ops'
  BY <1>2, <1>3, SameLogGrows, UnchangedSame
<1>8. Answered'
  BY <1>2, <1>7, AnswerStays DEF Following
<1> QED
  BY <1>1, <1>2, <1>6, <1>7, <1>8, AsideKept DEF Following

LEMMA AskRemoteFollows ==
    ASSUME TypeOK, Following, NEW r \in Remotes, NEW mode \in Modes, AskRemote(mode, r)
    PROVE  TypeOK' /\ Following'
<1>1. TypeOK'
  BY AskRemoteType DEF Modes
<1>2. Gates' /\ Taken' /\ Tables'
  BY <1>1, AskRemoteKept DEF Following
<1>3. /\ gate' = Holder(mode, r, Len(log[r]), 0)
      /\ UNCHANGED <<log, wire, queue, ops, binding>>
  BY DEF AskRemote, server, state
<1>4. Answered'
  BY <1>3, NoAnswer DEF Holder, Modes
<1> QED
  BY <1>1, <1>2, <1>3, <1>4, QueueStays DEF Following

LEMMA RunFollows ==
    ASSUME TypeOK, Following, NEW manual, Run(manual)
    PROVE  TypeOK' /\ Following'
<1>1. TypeOK' /\ (gate' # None => gate'.at # "sent")
  BY RunType DEF Has
<1>2. UNCHANGED <<log, wire, queue, ops, binding>>
  BY DEF Run, server, state
<1>3. Gates' /\ Taken' /\ Tables'
  BY RunKept DEF Following
<1>4. Answered'
  BY <1>1, NoAnswer
<1>5. Operations' /\ Owned'
  BY <1>2, QueueStays DEF Following
<1> QED
  BY <1>1, <1>3, <1>4, <1>5 DEF Following

\* Launch, Handshake, UploadObject and the first step of a run that starts again.
LEMMA PassFollows ==
    ASSUME TypeOK, Following, Launch \/ Handshake \/ UploadObject
    PROVE  TypeOK' /\ Following'
<1>1. /\ TypeOK' /\ gate.at \in {"checked", "handshake", "upload_object"}
      /\ \E at \in {"handshake", "discover", "commit"} : Goes(at)
  BY LaunchType, HandshakeType, UploadObjectType
<1>2. UNCHANGED <<log, wire, queue, ops, binding, initial, window, inbox, heads, conflicts>>
  BY DEF Launch, Handshake, UploadObject, server, merging, state
<1>3. PICK at \in {"handshake", "discover", "commit"} : Goes(at)
  BY <1>1
<1>4. gate # None /\ gate.todo = {} /\ gate.op <= ops'
  BY <1>1, <1>2, <1>3 DEF Goes, Following, Gates
<1>5. Has(gate', at, gate.binding, gate.remote, gate.seen, {}, gate.op, gate.reply)
  BY <1>3, <1>4 DEF Goes
<1>6. Derived(queue', ops')
  BY <1>2, QueueDerived DEF Following
<1>7. gate.at \notin Modes /\ at \notin Modes \cup {"item", "staged", "fetch", "sent"}
  BY <1>1, <1>3 DEF Modes
<1> QED
  BY <1>1, <1>2, <1>4, <1>5, <1>6, <1>7, CycleFollows

LEMMA UnauthorizedFollows ==
    ASSUME TypeOK, Following, Unauthorized
    PROVE  TypeOK' /\ Following'
<1>1. /\ TypeOK'
      /\ \/ gate' = None
         \/ /\ gate # None /\ gate \in Holders
            /\ gate.at \notin {"merge", "upload", "download", "checked"}
            /\ Has(gate', "handshake", gate.binding, gate.remote, gate.seen, {},
                   gate.op, gate.reply)
      /\ UNCHANGED <<server, files, queue, merging, binding, scope, ops>>
  BY UnauthorizedType
<1>2. UNCHANGED <<log, wire, queue, ops, binding, initial, window, inbox, heads, conflicts>>
  BY <1>1 DEF server, merging
<1>3. CASE gate' = None
  BY <1>1, <1>2, <1>3, AsideFollows
<1>4. CASE gate' # None
  <2>1. gate # None /\ gate.at \notin Modes /\ gate.op <= ops'
    BY <1>1, <1>2, <1>4 DEF Modes, Following, Gates
  <2>2. Derived(queue', ops')
    BY <1>2, QueueDerived DEF Following
  <2>3. "handshake" \notin Modes \cup {"item", "staged", "fetch", "sent"}
    BY DEF Modes
  <2> QED
    BY <1>1, <1>2, <1>4, <2>1, <2>2, <2>3, CycleFollows
<1> QED
  BY <1>3, <1>4

LEMMA DiscoverFollows ==
    ASSUME TypeOK, Following, Discover
    PROVE  TypeOK' /\ Following'
<1>1. TypeOK' /\ gate.at = "discover" /\ Goes("pull")
  BY DiscoverType
<1>2. /\ queue' = queue \cup Deletions(Vanished, ops)
                        \cup Puts(Changed, ops + Cardinality(Vanished))
      /\ ops' = ops + Cardinality(Vanished) + Cardinality(Changed)
      /\ UNCHANGED <<log, wire, binding, initial, window, inbox, heads, conflicts>>
  BY DEF Discover, server, state
<1>3. ops \in Nat /\ Vanished \in SUBSET Ids /\ Changed \in SUBSET Paths
  BY DEF TypeOK, Vanished, Changed, LocalPaths
<1>4. Numbered(Deletions(Vanished, ops), ops, ops + Cardinality(Vanished))
  BY <1>3, DeletionsAre
<1>5. ops + Cardinality(Vanished) \in Nat
  BY <1>4 DEF Numbered
<1>6. Numbered(Puts(Changed, ops + Cardinality(Vanished)), ops + Cardinality(Vanished), ops')
  BY <1>2, <1>3, <1>5, PutsAre
<1>7. Derived(queue, ops)
  BY QueueDerived DEF Following
<1>8. Derived(queue \cup Deletions(Vanished, ops), ops + Cardinality(Vanished))
  BY <1>4, <1>7, MoreDerived DEF Following
<1>9. Derived(queue', ops')
  BY <1>2, <1>6, <1>8, MoreDerived DEF Following
<1>10. gate # None /\ gate.todo = {} /\ gate.op <= ops'
  <2>1. gate # None /\ gate.todo = {} /\ gate.op <= ops /\ gate.op \in Nat
    BY <1>1, HolderFields DEF Goes, Following, Gates
  <2> QED
    BY <1>3, <1>9, <2>1 DEF Derived
<1>11. Has(gate', "pull", gate.binding, gate.remote, gate.seen, {}, gate.op, gate.reply)
  BY <1>1, <1>10 DEF Goes
<1>12. gate.at \notin Modes /\ "pull" \notin Modes \cup {"item", "staged", "fetch", "sent"}
  BY <1>1 DEF Modes
<1> QED
  BY <1>1, <1>2, <1>9, <1>10, <1>11, <1>12, CycleFollows

\* Pull, Fetch, Stage and PageDone leave the queue alone.
LEMMA PagesFollow ==
    ASSUME TypeOK, Following, Pull \/ Fetch \/ Stage \/ PageDone
    PROVE  TypeOK' /\ Following'
<1>1. /\ TypeOK' /\ gate.at \in {"pull", "fetch", "item"}
      /\ UNCHANGED <<server, queue, ops>>
  BY PullType, FetchType, StageType, PageDoneType DEF Following, Tables
<1>2. gate' # None => gate'.at # "sent"
  BY PullType, FetchType, StageType, PageDoneType DEF Following, Tables, Goes, Has
<1>3. Gates' /\ Taken' /\ Tables'
  <2>1. CASE PageDone
    <3>1. /\ gate # None /\ gate.at = "item" /\ gate.todo = {}
          /\ Goes("pull") \/ Goes("push") \/ gate' = None
          /\ UNCHANGED <<server, files, queue, merging, binding, scope, ops>>
      BY <2>1, PageDoneType
    <3>2. UNCHANGED <<log, wire, queue, ops, binding, initial, window, inbox, heads, conflicts>>
      BY <3>1 DEF server, merging
    <3>3. LogsGrow
      BY <3>2, SameLogGrows
    <3>4. CASE gate' = None
      BY <1>1, <3>2, <3>3, <3>4, FreedKept DEF Following
    <3>5. ASSUME NEW at \in {"pull", "push"}, Goes(at)
          PROVE  Gates' /\ Taken' /\ Tables'
      <4>1. Has(gate', at, gate.binding, gate.remote, gate.seen, {}, gate.op, gate.reply)
        BY <3>1, <3>5 DEF Goes
      <4>2. gate.at \notin Modes /\ at \notin Modes \cup {"item", "staged", "fetch"}
        BY <3>1 DEF Modes
      <4>3. gate.op <= ops'
        BY <3>1, <3>2 DEF Following, Gates
      <4> QED
        BY <1>1, <3>1, <3>2, <3>3, <4>1, <4>2, <4>3, CycleKept DEF Following
    <3> QED
      BY <3>1, <3>4, <3>5
  <2> QED
    BY <2>1, PullKept, FetchKept, StageKept DEF Following
<1>4. Answered'
  BY <1>2, NoAnswer
<1>5. binding # None => binding' # None /\ binding'.remote = binding.remote
  BY PullType, FetchType, StageType, PageDoneType DEF Following, Tables, state
<1>6. UNCHANGED <<log, wire, queue, ops>>
  BY <1>1 DEF server
<1>7. Operations' /\ Owned'
  BY <1>5, <1>6, QueueStays DEF Following
<1> QED
  BY <1>1, <1>3, <1>4, <1>7 DEF Following
\* The queue after a revision is applied.
LEMMA ApplyQueue ==
    ASSUME TypeOK, Operations, Apply
    PROVE  Derived(queue', ops')
<1>1. ops' = ops
  BY DEF Apply, Settled
<1>2. CASE ApplyNothing(inbox) \/ ApplyRemote(inbox)
  <2>1. queue' \subseteq queue
    BY <1>2 DEF ApplyNothing, ApplyRemote
  <2> QED
    BY <1>1, <2>1, QueueDerived
<1>3. CASE ApplyConflict(inbox)
  <2> DEFINE x(k) == IF /\ PathOf(k.id) = PathOf(log[gate.remote][inbox].id)
                        /\ k.stage # "pending"
                     THEN [k EXCEPT !.stage = "conflict"] ELSE k
  <2>1. \A j \in queue' : \E k \in queue : j = x(k)
    BY <1>3 DEF ApplyConflict
  <2>2. ASSUME NEW k \in queue
        PROVE  x(k) \in Jobs /\ Same(x(k), k)
    <3>1. k \in Jobs
      BY DEF TypeOK
    <3>2. [k EXCEPT !.stage = "conflict"] \in Jobs
          /\ (k.stage # "pending" => Same([k EXCEPT !.stage = "conflict"], k))
      BY <3>1 DEF Jobs, Same
    <3> QED
      BY <3>1, <3>2 DEF Same
  <2> HIDE DEF x
  <2>3. queue' \subseteq Jobs
    BY <2>1, <2>2
  <2>4. Once(queue')
    <3> SUFFICES ASSUME NEW i \in queue', NEW j \in queue', i.op = j.op
                 PROVE  i = j
      BY DEF Once
    <3>1. PICK k \in queue : i = x(k)
      BY <2>1
    <3>2. PICK l \in queue : j = x(l)
      BY <2>1
    <3>3. k.op = l.op
      BY <2>2, <3>1, <3>2 DEF Same
    <3> QED
      BY <3>1, <3>2, <3>3 DEF Operations
  <2>5. \A j \in queue' : \E k \in queue : Same(j, k)
    BY <2>1, <2>2
  <2>6. ops \in Nat /\ ops <= ops
    BY DEF TypeOK
  <2> QED
    BY <1>1, <2>3, <2>4, <2>5, <2>6 DEF Derived
<1> QED
  BY <1>2, <1>3 DEF Apply

LEMMA ApplyFollows ==
    ASSUME TypeOK, Following, Apply
    PROVE  TypeOK' /\ Following'
<1>1. TypeOK' /\ gate.at = "staged" /\ Goes("item")
  BY ApplyType DEF Following, Tables
<1>2. Gates' /\ Taken' /\ Tables'
  BY ApplyKept DEF Following
<1>3. Answered'
  BY <1>1, NoAnswer DEF Goes, Has
<1>4. Derived(queue', ops') /\ UNCHANGED <<log, wire>>
  BY ApplyQueue DEF Following, Apply, Settled, server
<1>5. binding # None /\ inbox \in Nat /\ MoveCursor(inbox)
  BY <1>1 DEF Following, Gates, Goes, TypeOK, Apply, Finish
<1>6. binding'.remote = binding.remote /\ binding' # None
  BY <1>5, MoveCursorIs, NoneAssumption
<1>7. Operations' /\ Owned'
  BY <1>4, <1>6, LedgerKept DEF Following
<1> QED
  BY <1>1, <1>2, <1>3, <1>7 DEF Following

LEMMA PushFollows ==
    ASSUME TypeOK, Following, Push
    PROVE  TypeOK' /\ Following'
<1>1. /\ TypeOK' /\ gate.at = "push" /\ gate # None
      /\ queue' = queue \/ queue' = Captured(InScope(queue))
      /\ UNCHANGED <<server, files, merging, binding, scope, ops>>
  BY PushType DEF Push, Running
<1>2. UNCHANGED <<log, wire, ops, binding, initial, window, inbox, heads, conflicts>>
  BY <1>1 DEF server, merging
<1>3. gate.todo = {} /\ gate.op <= ops' /\ gate.at \notin Modes
  BY <1>1, <1>2 DEF Following, Gates, Modes
<1>4. Derived(queue', ops')
  <2>1. Derived(queue, ops) /\ Derived(InScope(queue), ops)
    BY QueueDerived DEF Following, InScope
  <2> QED
    BY <1>1, <1>2, <2>1, CapturedDerived
<1>5. \E at \in {"pull", "commit", "upload_object"}, op \in Nat :
         /\ Has(gate', at, gate.binding, gate.remote, gate.seen, {}, op, gate.reply)
         /\ op <= ops'
  <2>1. CASE Has(gate', "pull", gate.binding, gate.remote, gate.seen, gate.todo,
                 gate.op, gate.reply)
    <3>1. gate.op \in Nat
      BY <1>1, HolderFields DEF TypeOK
    <3> QED
      BY <1>3, <2>1, <3>1
  <2>2. CASE \E j \in queue' : \E at \in {"commit", "upload_object"} :
                Has(gate', at, gate.binding, gate.remote, gate.seen, gate.todo,
                    j.op, gate.reply)
    <3>1. PICK j \in queue', at \in {"commit", "upload_object"} :
             Has(gate', at, gate.binding, gate.remote, gate.seen, gate.todo, j.op, gate.reply)
      BY <2>2
    <3>2. j.op \in Nat
      <4>1. j \in Jobs
        BY <1>4 DEF Derived
      <4> QED
        BY <4>1, JobFields
    <3>3. Operations'
      BY <1>2, <1>4, LedgerKept DEF Following
    <3>4. j.op <= ops'
      BY <3>3 DEF Operations
    <3> QED
      BY <1>3, <3>1, <3>2, <3>4
  <2> QED
    BY <2>1, <2>2, PushType
<1>6. PICK at \in {"pull", "commit", "upload_object"}, op \in Nat :
         /\ Has(gate', at, gate.binding, gate.remote, gate.seen, {}, op, gate.reply)
         /\ op <= ops'
  BY <1>5
<1>7. at \notin Modes \cup {"item", "staged", "fetch", "sent"}
  BY <1>6 DEF Modes
<1> QED
  BY <1>1, <1>2, <1>3, <1>4, <1>6, <1>7, CycleFollows

LEMMA AckFollows ==
    ASSUME TypeOK, Following, Ack
    PROVE  TypeOK' /\ Following'
<1>1. /\ TypeOK' /\ queue' = queue \ {Job}
      /\ Has(gate', "push", gate.binding, gate.remote, gate.seen, gate.todo, 0, "none")
      /\ UNCHANGED <<server, files, initial, window, inbox, conflicts, inherited,
                     binding, scope, ops>>
  BY AckType DEF Following
<1>2. Gates' /\ Taken' /\ Tables'
  BY AckKept DEF Following
<1>3. Answered'
  BY <1>1, NoAnswer DEF Has
<1>4. Derived(queue', ops')
  BY <1>1, QueueDerived DEF Following
<1>5. Operations' /\ Owned'
  BY <1>1, <1>4, LedgerKept DEF Following, server
<1> QED
  BY <1>1, <1>2, <1>3, <1>5 DEF Following
LEMMA CommitFollows ==
    ASSUME TypeOK, Following, Commit
    PROVE  TypeOK' /\ Following'
<1>1. /\ TypeOK' /\ gate # None /\ gate \in Holders /\ gate.at = "commit" /\ Held
      /\ Job \in queue /\ Job.op = gate.op
      /\ Has(gate', "sent", gate.binding, gate.remote, gate.seen, gate.todo, gate.op, "none")
      /\ UNCHANGED <<log, peers, files, merging, binding, scope, ops>>
  BY CommitType DEF Following
<1>2. PICK j, m :
         /\ queue' = (queue \ {Job}) \cup {j} /\ wire' = wire \cup {m}
         /\ j \in Jobs /\ j.op = Job.op /\ j.id = Job.id /\ j.content = Job.content
         /\ j.stage = "committing"
         /\ m \in Commits /\ m.remote = gate.remote /\ m.op = Job.op
         /\ m.id = Job.id /\ m.content = Job.content
  BY CommitType DEF Following
<1>3. UNCHANGED <<log, binding, initial, window, inbox, heads, conflicts, ops>> /\ LogsGrow
  BY <1>1, SameLogGrows DEF merging
<1>4. /\ gate.remote = binding.remote /\ binding # None /\ gate.todo = {}
      /\ gate.op <= ops' /\ gate.at \notin Modes
  BY <1>1, <1>3, HolderOfBinding DEF Following, Gates, Held, Modes
<1>5. Gates' /\ Taken' /\ Tables'
  <2>1. Has(gate', "sent", gate.binding, gate.remote, gate.seen, {}, gate.op, "none")
    BY <1>1, <1>4
  <2>2. "sent" \notin Modes \cup {"item", "staged", "fetch"}
    BY DEF Modes
  <2> QED
    BY <1>1, <1>3, <1>4, <2>1, <2>2, CycleKept DEF Following
<1>6. 0 < Job.op /\ Job.op <= ops
  BY <1>1 DEF Following, Operations
<1>7. \A k \in queue : k # Job => k.op # Job.op
  BY <1>1 DEF Following, Operations
<1>8. Operations'
  <2>1. \A k \in queue' : 0 < k.op /\ k.op <= ops
    BY <1>2, <1>6 DEF Following, Operations
  <2>2. \A k, l \in queue' : k.op = l.op => k = l
    BY <1>2, <1>7 DEF Following, Operations
  <2>3. \A w \in wire' : 0 < w.op /\ w.op <= ops
    BY <1>2, <1>6 DEF Following, Operations
  <2> QED
    BY <1>3, <2>1, <2>2, <2>3 DEF Following, Operations
<1>9. Owned'
  <2>1. ASSUME NEW k \in queue, k # Job
        PROVE  /\ Sent(k.op)' => binding # None /\ k.stage # "pending"
               /\ \A w \in wire' : w.op = k.op =>
                     w.remote = binding.remote /\ w.id = k.id /\ w.content = k.content
               /\ \A r \in Remotes : \A s \in 1..Len(log[r]) : log[r][s].by = k.op =>
                     /\ r = binding.remote
                     /\ log[r][s].id = k.id /\ log[r][s].content = k.content
    <3>1. m.op # k.op
      BY <1>2, <1>7, <2>1
    <3>2. Sent(k.op)' => Sent(k.op)
      BY <1>2, <1>3, <3>1 DEF Sent
    <3> QED
      BY <1>2, <3>1, <3>2 DEF Following, Owned
  <2>2. /\ \A w \in wire' : w.op = j.op =>
              w.remote = binding.remote /\ w.id = j.id /\ w.content = j.content
        /\ \A r \in Remotes : \A s \in 1..Len(log[r]) : log[r][s].by = j.op =>
              /\ r = binding.remote
              /\ log[r][s].id = j.id /\ log[r][s].content = j.content
    BY <1>1, <1>2, <1>4 DEF Following, Owned
  <2> QED
    BY <1>2, <1>3, <1>4, <2>1, <2>2 DEF Owned
<1>10. Answered'
  <2>1. \A w \in wire' : w.op = gate.op => w.remote = gate.remote
    BY <1>1, <1>2, <1>4 DEF Following, Owned
  <2>2. gate'.op = gate.op /\ gate'.remote = gate.remote /\ gate'.reply = "none"
    BY <1>1 DEF Has
  <2> QED
    BY <2>1, <2>2 DEF Answered
<1> QED
  BY <1>1, <1>5, <1>8, <1>9, <1>10 DEF Following

\* The logs after a revision is appended.
LEMMA AppendedLog ==
    ASSUME TypeOK, NEW r \in Remotes, NEW e \in Revisions,
           log' = [log EXCEPT ![r] = Append(@, e)]
    PROVE  \A x \in Remotes : \A s \in 1..Len(log'[x]) :
              \/ s \in 1..Len(log[x]) /\ log'[x][s] = log[x][s]
              \/ x = r /\ s = Len(log[r]) + 1 /\ log'[x][s] = e
<1>1. /\ Len(log'[r]) = Len(log[r]) + 1 /\ log'[r][Len(log[r]) + 1] = e
      /\ \A x \in Remotes : x # r => log'[x] = log[x]
      /\ LogsGrow
  BY AppendGrows
<1>2. Len(log[r]) \in Nat
  BY LogTypes
<1>3. \A s \in 1..Len(log'[r]) : s \in 1..Len(log[r]) \/ s = Len(log[r]) + 1
  BY <1>1, <1>2
<1> QED
  BY <1>1, <1>3 DEF LogsGrow

\* The server answers an operation that is on the wire.
LEMMA ServeFollows ==
    ASSUME TypeOK, Following, NEW m \in wire, Serve(m)
    PROVE  TypeOK' /\ Following'
<1>1. /\ TypeOK' /\ LogsGrow /\ wire' = wire \ {m} /\ m \in Commits
      /\ UNCHANGED <<peers, files, queue, merging, binding, scope, ops>>
  BY ServeType
<1>2. UNCHANGED <<binding, initial, window, inbox, heads, conflicts, ops, queue>>
  BY <1>1 DEF merging
<1>3. \A r \in Remotes : \A s \in 1..Len(log'[r]) :
         \/ s \in 1..Len(log[r]) /\ log'[r][s] = log[r][s]
         \/ /\ r = m.remote /\ log'[r][s].by = m.op /\ log'[r][s].id = m.id
            /\ log'[r][s].content = m.content
  <2>1. CASE log' = log
    BY <2>1
  <2>2. CASE log' = [log EXCEPT ![m.remote] =
                Append(@, [id |-> m.id, content |-> m.content, by |-> m.op])]
    <3>1. /\ [id |-> m.id, content |-> m.content, by |-> m.op] \in Revisions
          /\ m.remote \in Remotes
      BY <1>1 DEF Commits, Revisions
    <3> QED
      BY <2>2, <3>1, AppendedLog
  <2> QED
    BY <2>1, <2>2, ServeType
<1>4. Operations'
  <2>1. \A w \in wire' : 0 < w.op /\ w.op <= ops
    BY <1>1 DEF Following, Operations
  <2>2. m.op <= ops
    BY DEF Following, Operations
  <2>3. \A r \in Remotes : \A s \in 1..Len(log'[r]) : log'[r][s].by <= ops
    BY <1>3, <2>2 DEF Following, Operations
  <2> QED
    BY <1>2, <2>1, <2>3 DEF Following, Operations
<1>5. ASSUME NEW j \in queue
      PROVE  /\ Sent(j.op)' => binding # None /\ j.stage # "pending"
             /\ \A w \in wire' : w.op = j.op =>
                   w.remote = binding.remote /\ w.id = j.id /\ w.content = j.content
             /\ \A r \in Remotes : \A s \in 1..Len(log'[r]) : log'[r][s].by = j.op =>
                   /\ r = binding.remote
                   /\ log'[r][s].id = j.id /\ log'[r][s].content = j.content
  <2>1. Sent(j.op)' => Sent(j.op)
    BY <1>1, <1>3 DEF Sent
  <2> QED
    BY <1>1, <1>3, <2>1 DEF Following, Owned
<1>6. Owned'
  BY <1>2, <1>5 DEF Owned
<1>7. CASE SameGate
  <2>1. Answered'
    BY <1>1, <1>7, AnswerStays DEF Following
  <2>2. ops <= ops'
    BY <1>2 DEF TypeOK
  <2> QED
    BY <1>1, <1>2, <1>4, <1>6, <1>7, <2>1, <2>2, AsideKept DEF Following
<1>8. CASE /\ gate # None /\ gate \in Holders /\ gate.at = "sent" /\ gate.op = m.op
           /\ \E reply \in {"accepted", "rejected"} :
                /\ reply = "accepted" =>
                      \E s \in 1..Len(log'[m.remote]) : log'[m.remote][s].by = m.op
                /\ Has(gate', gate.at, gate.binding, gate.remote, gate.seen,
                       gate.todo, gate.op, reply)
  <2>1. PICK reply \in {"accepted", "rejected"} :
           /\ reply = "accepted" =>
                 \E s \in 1..Len(log'[m.remote]) : log'[m.remote][s].by = m.op
           /\ Has(gate', gate.at, gate.binding, gate.remote, gate.seen,
                  gate.todo, gate.op, reply)
    BY <1>8
  <2>2. gate.todo = {} /\ gate.op <= ops' /\ gate.at \notin Modes
    BY <1>2, <1>8 DEF Following, Gates, Modes
  <2>3. Has(gate', "sent", gate.binding, gate.remote, gate.seen, {}, gate.op, reply)
    BY <1>8, <2>1, <2>2
  <2>4. "sent" \notin Modes \cup {"item", "staged", "fetch"}
    BY DEF Modes
  <2>5. Gates' /\ Taken' /\ Tables'
    BY <1>1, <1>2, <1>8, <2>2, <2>3, <2>4, CycleKept DEF Following
  <2>6. m.remote = gate.remote /\ \A w \in wire' : w.op = gate.op => w.remote = gate.remote
    BY <1>1, <1>8 DEF Following, Answered
  <2>7. /\ gate'.op = gate.op /\ gate'.remote = gate.remote /\ gate'.reply = reply
    BY <2>3 DEF Has
  <2>8. Answered'
    BY <1>8, <2>1, <2>6, <2>7 DEF Answered
  <2> QED
    BY <1>1, <1>4, <1>6, <2>5, <2>8 DEF Following
<1> QED
  BY <1>7, <1>8, ServeType

LEMMA OtherCommitFollows ==
    ASSUME TypeOK, Following, NEW r \in Remotes, NEW p \in Paths, NEW c \in Hashes,
           OtherCommit(r, p, c)
    PROVE  TypeOK' /\ Following'
<1> DEFINE e == [id |-> Elsewhere(r, p), content |-> c, by |-> 0]
<1>1. /\ TypeOK' /\ LogsGrow /\ e \in Revisions
      /\ log' = [log EXCEPT ![r] = Append(@, e)]
      /\ UNCHANGED <<wire, peers, session, files, queue, merging, state, preview, gate,
                     activity, ops>>
  BY OtherCommitType
<1>2. UNCHANGED <<binding, initial, window, inbox, heads, conflicts, ops, queue, wire>>
      /\ SameGate
  BY <1>1, UnchangedSame DEF merging, state
<1>3. e.by = 0
  OBVIOUS
<1> HIDE DEF e
<1>4. \A x \in Remotes : \A s \in 1..Len(log'[x]) :
         \/ s \in 1..Len(log[x]) /\ log'[x][s] = log[x][s]
         \/ log'[x][s].by = 0
  BY <1>1, <1>3, AppendedLog
<1>5. ops \in Nat /\ ops <= ops'
  BY <1>2 DEF TypeOK
<1>6. Operations'
  <2>1. \A x \in Remotes : \A s \in 1..Len(log'[x]) : log'[x][s].by <= ops
    BY <1>4, <1>5 DEF Following, Operations
  <2> QED
    BY <1>2, <2>1 DEF Following, Operations
<1>7. ASSUME NEW j \in queue
      PROVE  /\ Sent(j.op)' => binding # None /\ j.stage # "pending"
             /\ \A x \in Remotes : \A s \in 1..Len(log'[x]) : log'[x][s].by = j.op =>
                   /\ x = binding.remote
                   /\ log'[x][s].id = j.id /\ log'[x][s].content = j.content
  <2>1. j.op # 0
    <3>1. 0 < j.op /\ j.op \in Nat
      <4>1. j \in Jobs
        BY DEF TypeOK
      <4> QED
        BY <4>1, JobFields DEF Following, Operations
    <3> QED
      BY <3>1
  <2>2. Sent(j.op)' => Sent(j.op)
    BY <1>2, <1>4, <2>1 DEF Sent
  <2> QED
    BY <1>4, <2>1, <2>2 DEF Following, Owned
<1>8. Owned'
  BY <1>2, <1>7 DEF Following, Owned
<1>9. Answered'
  BY <1>1, <1>2, AnswerStays DEF Following
<1> QED
  BY <1>1, <1>2, <1>5, <1>6, <1>8, <1>9, AsideKept DEF Following
LEMMA BindMergeFollows ==
    ASSUME TypeOK, Following, BindMerge
    PROVE  TypeOK' /\ Following'
<1>1. TypeOK' /\ gate' = None
  BY BindMergeType DEF Following
<1>2. Gates' /\ Taken' /\ Tables'
  BY BindMergeKept DEF Following
<1>3. /\ gate # None /\ gate.at \in Modes
      /\ queue' = MergeJobs(gate.remote, gate.seen)
      /\ ops' = ops + Cardinality(Different(gate.remote, gate.seen))
      /\ UNCHANGED <<log, wire>>
  BY DEF BindMerge, server, Modes
<1>4. binding = None
  BY <1>3 DEF Following, Gates
<1>5. Numbered(queue', ops, ops')
  BY <1>3, BindRemote, MergeJobsAre DEF Following
<1>6. Derived({}, ops)
  BY QueueDerived DEF Following
<1>7. Derived({} \cup queue', ops')
  BY <1>5, <1>6, MoreDerived DEF Following
<1>8. {} \cup queue' = queue'
  OBVIOUS
<1>9. Operations' /\ Owned'
  BY <1>3, <1>4, <1>7, <1>8, LedgerKept DEF Following
<1> QED
  BY <1>1, <1>2, <1>9, GateFree DEF Following

LEMMA BindUploadFollows ==
    ASSUME TypeOK, Following, BindUpload
    PROVE  TypeOK' /\ Following'
<1>1. /\ TypeOK' /\ gate' = None
      /\ Numbered(Puts(Unqueued, ops), ops, ops')
      /\ UploadQueue \subseteq Jobs /\ queue' = Captured(UploadQueue)
  BY BindUploadType DEF Following
<1>2. /\ gate # None /\ gate.at \in Modes /\ FreshTables /\ UNCHANGED server
      /\ binding' = NewBinding(gate.remote, 0) /\ initial' = None
      /\ heads' = [f \in Ids |-> 0]
  BY DEF BindUpload, Modes
<1>3. binding = None /\ UNCHANGED <<log, wire>>
  BY <1>2 DEF Following, Gates, server
<1>4. Derived(Carried, ops)
  BY QueueDerived DEF Following, Carried
<1>5. Derived(Carried \cup Puts(Unqueued, ops), ops')
  BY <1>1, <1>4, MoreDerived DEF Following
<1>6. Derived(UploadQueue, ops')
  BY <1>5, PartDerived DEF UploadQueue, InScope
<1>7. Derived(queue', ops')
  BY <1>1, <1>6, CapturedDerived
<1>8. Operations' /\ Owned'
  BY <1>3, <1>7, LedgerKept DEF Following
<1>9. Gates' /\ Taken' /\ Tables'
  BY <1>2, BindEmptyKept DEF Following
<1> QED
  BY <1>1, <1>8, <1>9, GateFree DEF Following

LEMMA BindUploadStopsFollows ==
    ASSUME TypeOK, Following, NEW S \in SUBSET Paths, BindUploadStops(S)
    PROVE  TypeOK' /\ Following'
<1>1. /\ TypeOK' /\ gate' = None
      /\ Numbered(Puts(S, ops), ops, ops')
      /\ queue' = Carried \cup Puts(S, ops)
      /\ UNCHANGED <<server, disk, row, merging, binding, bindings, scope>>
  BY BindUploadStopsType
<1>2. UNCHANGED <<log, wire, binding, initial, window, inbox, heads, conflicts>>
  BY <1>1 DEF server, merging
<1>3. Derived(Carried, ops)
  BY QueueDerived DEF Following, Carried
<1>4. Derived(queue', ops')
  BY <1>1, <1>3, MoreDerived DEF Following
<1>5. Operations' /\ Owned'
  BY <1>2, <1>4, LedgerKept DEF Following
<1>6. LogsGrow
  BY <1>2, SameLogGrows
<1> QED
  BY <1>1, <1>2, <1>5, <1>6, FreedKept, GateFree DEF Following

LEMMA BindDownloadFollows ==
    ASSUME TypeOK, Following, BindDownload
    PROVE  TypeOK' /\ Following'
<1>1. TypeOK'
  BY BindDownloadType
<1>2. /\ gate # None /\ FreshTables /\ UNCHANGED server
      /\ binding' = NewBinding(gate.remote, 0) /\ initial' = None
      /\ heads' = [f \in Ids |-> 0] /\ queue' = {} /\ ops' = ops
  BY DEF BindDownload
<1>3. Gates' /\ Taken' /\ Tables'
  BY <1>2, BindEmptyKept DEF Following
<1>4. Derived(queue', ops')
  BY <1>2, QueueDerived DEF Following
<1>5. Operations' /\ Owned'
  BY <1>2, <1>4, LedgerKept DEF Following, server
<1>6. gate' = None
  BY <1>2, FreshIs
<1> QED
  BY <1>1, <1>3, <1>5, <1>6, GateFree DEF Following

LEMMA UnbindFollows ==
    ASSUME TypeOK, Following, Unbind
    PROVE  TypeOK' /\ Following'
<1>1. TypeOK'
  BY UnbindType
<1>2. gate' = Cancelled /\ queue' = {} /\ ops' = ops /\ UNCHANGED <<log, wire>>
  BY DEF Unbind, server
<1>3. Gates' /\ Taken' /\ Tables'
  BY UnbindKept DEF Following
<1>4. Derived(queue', ops')
  BY <1>2, QueueDerived DEF Following
<1>5. Operations' /\ Owned'
  BY <1>2, <1>4, LedgerKept DEF Following
<1>6. Answered'
  BY <1>2, CancelledSame, SameLogGrows, AnswerStays DEF Following
<1> QED
  BY <1>1, <1>3, <1>5, <1>6 DEF Following

-----------------------------------------------------------------------------
(* The theorems *)

\* The log a remote that is not empty begins with.
LEMMA FilledType ==
    ASSUME NEW r \in Remotes, NEW c \in Contents
    PROVE  /\ Filled(r, c) \in Seq(Revisions) /\ Len(Filled(r, c)) = Cardinality(Paths)
           /\ \A i \in 1..Cardinality(Paths) :
                Filled(r, c)[i].by = 0 /\ Filled(r, c)[i].id \in {r} \X Paths
<1>1. Cardinality(Paths) \in Nat /\ ExistsBijection(1..Cardinality(Paths), Paths)
  BY FS_CardinalityType, ConstantsAssumption
<1>2. \E s \in [1..Cardinality(Paths) -> Paths] :
         \A p \in Paths : \E i \in 1..Cardinality(Paths) : s[i] = p
  BY <1>1 DEF ExistsBijection, Bijection, Surjection
<1>3. PathsInOrder \in [1..Cardinality(Paths) -> Paths]
  BY <1>2 DEF PathsInOrder
<1>4. ASSUME NEW i \in 1..Cardinality(Paths)
      PROVE  /\ [id |-> <<r, PathsInOrder[i]>>, content |-> c, by |-> 0] \in Revisions
             /\ <<r, PathsInOrder[i]>> \in {r} \X Paths
  BY <1>3 DEF Revisions, Ids, Hashes
<1>5. \A i \in 1..Cardinality(Paths) :
         Filled(r, c)[i] = [id |-> <<r, PathsInOrder[i]>>, content |-> c, by |-> 0]
  BY DEF Filled
<1>6. Filled(r, c) \in [1..Cardinality(Paths) -> Revisions]
  BY <1>4 DEF Filled
<1>7. Filled(r, c) \in Seq(Revisions)
  BY <1>1, <1>6
<1>8. Len(Filled(r, c)) = Cardinality(Paths)
  BY <1>1, <1>6, <1>7
<1> QED
  BY <1>4, <1>5, <1>7, <1>8

\* The logs in an initial state.
LEMMA FirstLogs ==
    ASSUME Init
    PROVE  /\ log \in [Remotes -> Seq(Revisions)]
           /\ \A r \in Remotes : \A s \in 1..Len(log[r]) :
                log[r][s].by = 0 /\ log[r][s].id \in {r} \X Paths
<1>1. PICK S \in {{}} \cup {{r} : r \in Remotes}, c \in Contents :
         log = [r \in Remotes |-> IF r \in S THEN Filled(r, c) ELSE <<>>]
  BY DEF Init
<1>2. ASSUME NEW r \in Remotes
      PROVE  /\ log[r] \in Seq(Revisions)
             /\ \A s \in 1..Len(log[r]) : log[r][s].by = 0 /\ log[r][s].id \in {r} \X Paths
  <2>1. CASE r \in S
    BY <1>1, <2>1, FilledType
  <2>2. CASE r \notin S
    BY <1>1, <2>2
  <2> QED
    BY <2>1, <2>2
<1> QED
  BY <1>1, <1>2

LEMMA InitFollows ==
    ASSUME Init
    PROVE  TypeOK /\ Following
<1>1. /\ log \in [Remotes -> Seq(Revisions)]
      /\ \A r \in Remotes : \A s \in 1..Len(log[r]) : log[r][s].by = 0
  BY FirstLogs
<1>2. /\ wire = {} /\ peers = TRUE /\ session = "absent"
      /\ disk = [p \in Paths |-> Absent] /\ row = [p \in Paths |-> <<Here, p>>]
      /\ observed = [f \in Ids |-> Absent] /\ queue = {}
      /\ binding = None /\ bindings = 0 /\ initial = None /\ window = 0 /\ inbox = 0
      /\ heads = [f \in Ids |-> 0] /\ conflicts = {} /\ inherited = {}
      /\ paused = FALSE /\ retry = [halted |-> FALSE, waiting |-> FALSE]
      /\ scope = FALSE /\ preview = None /\ gate = None /\ activity = "none"
      /\ ops = 0 /\ events = MaxEvents
  BY DEF Init
<1>3. TypeOK
  <2>1. row \in [Paths -> Ids] /\ \A p \in Paths : PathOf(row[p]) = p
    BY <1>2 DEF Ids, PathOf
  <2>2. observed \in [Ids -> Hashes] /\ disk \in [Paths -> Hashes] /\ heads \in [Ids -> Nat]
    BY <1>2 DEF Hashes
  <2>3. retry \in Retries
    BY <1>2 DEF Retries
  <2>4. events \in Nat
    BY <1>2, ConstantsAssumption
  <2> QED
    BY <1>1, <1>2, <2>1, <2>2, <2>3, <2>4 DEF TypeOK
<1>4. Gates /\ Taken /\ Answered
  BY <1>2 DEF Gates, Taken, Answered
<1>5. Tables
  BY <1>2 DEF Tables, Unbound, Positions, Merging, CursorAndHeads
<1>6. Operations /\ Owned
  BY <1>1, <1>2 DEF Operations, Owned
<1> QED
  BY <1>3, <1>4, <1>5, <1>6 DEF Following

LEMMA NextFollows ==
    ASSUME TypeOK, Following, Next
    PROVE  TypeOK' /\ Following'
<1>1. CASE Person
  <2>1. CASE \E p \in Paths, c \in Hashes : Edit(p, c)
    BY <2>1, EditFollows
  <2>2. CASE \E r \in Remotes, mode \in Modes : AskRemote(mode, r)
    BY <2>2, AskRemoteFollows
  <2>3. CASE Unbind
    BY <2>3, UnbindFollows
  <2>4. CASE Run(TRUE)
    BY <2>4, RunFollows
  <2>5. CASE \/ \E p \in Paths, c \in Hashes : OutsideEdit(p, c)
             \/ Login \/ Logout \/ RevokeDevice \/ Pause \/ SetScope
             \/ \E r \in Remotes : Preview(r)
    BY <2>5, OutsideFollows
  <2> QED
    BY <1>1, <2>1, <2>2, <2>3, <2>4, <2>5 DEF Person, Modes
<1>2. CASE Binding
  BY <1>2, BindMergeFollows, BindUploadFollows, BindDownloadFollows, OutsideFollows
     DEF Binding
<1>3. CASE Cycle
  BY <1>3, PassFollows, EndsFollows, UnauthorizedFollows, DiscoverFollows, PagesFollow,
     ApplyFollows, PushFollows, CommitFollows, AckFollows DEF Cycle, Ends
<1>4. CASE Run(FALSE)
  BY <1>4, RunFollows
<1>5. CASE Elapse
  BY <1>5, OutsideFollows
<1>6. CASE Environment
  <2>1. CASE \E m \in wire : Serve(m)
    BY <2>1, ServeFollows
  <2>2. CASE \E r \in Remotes, p \in Paths, c \in Hashes : OtherCommit(r, p, c)
    BY <2>2, OtherCommitFollows
  <2>3. CASE \E S \in SUBSET Paths : BindUploadStops(S)
    BY <2>3, BindUploadStopsFollows
  <2>4. CASE Expire \/ Refresh \/ Crash
    BY <2>4, OutsideFollows
  <2>5. CASE RunFails
    BY <2>5, EndsFollows DEF Ends
  <2> QED
    BY <1>6, <2>1, <2>2, <2>3, <2>4, <2>5 DEF Environment
<1> QED
  BY <1>1, <1>2, <1>3, <1>4, <1>5, <1>6 DEF Next

LEMMA StutterFollows ==
    ASSUME TypeOK, Following, UNCHANGED vars
    PROVE  TypeOK' /\ Following'
<1>1. TypeOK'
  BY DEF TypeOK, vars, server, files, merging, state
<1>2. UNCHANGED <<log, wire, queue, ops, binding, initial, window, inbox, heads, conflicts,
                  gate>>
  BY DEF vars, server, merging, state
<1> QED
  BY <1>1, <1>2, UnchangedSame, AsideFollows

\* sync_state.rs, sync_initial.rs, sync_inbox.rs: whatever is bound, unbound and bound
\* again, and wherever a cycle is cancelled, the tables of the binding point into the
\* log of its remote, a cycle that holds the gate works on them alone, and an operation
\* id stands for one job.
THEOREM FollowingInvariant == Spec => [](TypeOK /\ Following)
<1>1. Init => TypeOK /\ Following
  BY InitFollows
<1>2. TypeOK /\ Following /\ [Next]_vars => (TypeOK /\ Following)'
  BY NextFollows, StutterFollows
<1> QED
  BY <1>1, <1>2, PTL DEF Spec

\* Every variable keeps its type.
THEOREM BindingTypesHold == Spec => []TypeOK
  BY FollowingInvariant, PTL

\* sync_finish, sync_ack: what the binding believes of a file is a revision of that
\* file in the log of its own remote, and nothing the cursor passed was skipped.
THEOREM CursorAndHeadsHold == Spec => []CursorAndHeads
<1>1. TypeOK /\ Following => CursorAndHeads
  BY DEF Following, Tables
<1> QED
  BY <1>1, FollowingInvariant, PTL
-----------------------------------------------------------------------------
(* The inductive invariant of LocalWorkKept *)

\* No prefix of a remote's log has two files with content at a path.
OneLive ==
    \A r \in Remotes : \A n \in 0..Len(log[r]) : \A f, g \in Ids :
        /\ PathOf(f) = PathOf(g)
        /\ ContentAt(r, Latest(r, f, n)) # Absent
        /\ ContentAt(r, Latest(r, g, n)) # Absent
        => f = g

\* What was captured is in scope, of a binding whose initial merge is done; what a
\* conflict superseded is at a path in conflict.
Stages ==
    \A j \in queue :
        /\ j.stage # "pending" => binding # None /\ initial = None /\ Enabled(PathOf(j.id))
        /\ j.stage = "conflict" => PathOf(j.id) \in conflicts

\* The work of a file is sent in its order.
First(j) == \A k \in queue : k.id = j.id => j.op <= k.op
SentFirst == \A j \in queue : Sent(j.op) => First(j)
Sending == {"upload_object", "commit", "sent"}
Turn ==
    gate # None /\ gate.at \in Sending =>
        \A j \in queue : j.op = gate.op => j.stage # "pending" /\ First(j)

\* An acknowledgement that is still to come is ahead of the tables.
Ahead ==
    binding # None =>
        \A j \in queue : j.stage # "conflict" =>
            \A s \in 1..Len(log[binding.remote]) : log[binding.remote][s].by = j.op =>
                binding.cursor < s /\ heads[j.id] < s

\* The newest work of the file at a path has the content that was observed.
Newest(j) == \A k \in queue : k.id = j.id => k.op <= j.op
DescribedAt(p) == \A j \in queue : j.id = row[p] /\ Newest(j) => j.content = observed[row[p]]
Described ==
    \A p \in Paths : binding = None \/ (Enabled(p) /\ p \notin conflicts) => DescribedAt(p)

\* Without such work it is what the binding believes.
AgreedAt(p) == Queued(row[p]) \/ Believed(row[p]) = observed[row[p]]
Agreed ==
    binding # None =>
        \A p \in Paths : Enabled(p) /\ p \notin conflicts \cup inherited => AgreedAt(p)

Working == OneLive /\ Stages /\ SentFirst /\ Turn /\ Ahead /\ Described /\ Agreed

-----------------------------------------------------------------------------
(* What keeps the parts of Working *)

\* The work of a file is the same.
SameJobs(f) ==
    /\ \A j \in queue' : j.id = f => \E k \in queue : Same(j, k)
    /\ \A k \in queue : k.id = f => \E j \in queue' : Same(j, k)

LEMMA SameJobsKeep ==
    ASSUME NEW p, SameJobs(row[p]), row'[p] = row[p], observed'[row[p]] = observed[row[p]]
    PROVE  /\ DescribedAt(p) => DescribedAt(p)'
           /\ Queued(row[p])' <=> Queued(row[p])
<1>1. Queued(row[p])' <=> Queued(row[p])
  BY DEF Queued, SameJobs, Same
<1>2. ASSUME DescribedAt(p), NEW j \in queue', j.id = row[p],
             \A k \in queue' : k.id = j.id => k.op <= j.op
      PROVE  j.content = observed[row[p]]
  <2>1. PICK k \in queue : Same(j, k)
    BY <1>2 DEF SameJobs
  <2>2. ASSUME NEW l \in queue, l.id = k.id
        PROVE  l.op <= k.op
    <3>1. PICK i \in queue' : Same(i, l)
      BY <1>2, <2>1, <2>2 DEF SameJobs, Same
    <3> QED
      BY <1>2, <2>1, <2>2, <3>1 DEF Same
  <2> QED
    BY <1>2, <2>1, <2>2 DEF DescribedAt, Newest, Same
<1>3. DescribedAt(p) => DescribedAt(p)'
  BY <1>2 DEF DescribedAt, Newest
<1> QED
  BY <1>1, <1>3

\* A queue that stays has the same jobs.
LEMMA QueueSame ==
    ASSUME queue' = queue, NEW f
    PROVE  SameJobs(f)
  BY DEF SameJobs, Same

\* The belief stays with the head; the logs only grow.
LEMMA BelievedStays ==
    ASSUME TypeOK, Tables, LogsGrow, binding # None, NEW f \in Ids,
           binding'.remote = binding.remote, heads'[f] = heads[f]
    PROVE  Believed(f)' = Believed(f)
<1>1. binding.remote \in Remotes /\ heads[f] \in Nat
  BY DEF TypeOK, Bindings
<1>2. Len(log[binding.remote]) \in Nat
  BY <1>1, LogTypes
<1>3. heads[f] = 0 \/ heads[f] \in 1..Len(log[binding.remote])
  BY <1>1, <1>2 DEF Tables, CursorAndHeads
<1> QED
  BY <1>1, <1>3 DEF Believed, ContentAt, LogsGrow

\* At a path where nothing moves.
LEMMA PathStays ==
    ASSUME TypeOK, Tables, LogsGrow, NEW p \in Paths, SameJobs(row[p]),
           row'[p] = row[p], observed'[row[p]] = observed[row[p]]
    PROVE  /\ DescribedAt(p) => DescribedAt(p)'
           /\ /\ binding # None /\ binding'.remote = binding.remote
              /\ heads'[row[p]] = heads[row[p]]
              => (AgreedAt(p) => AgreedAt(p)')
<1>1. row[p] \in Ids
  BY DEF TypeOK
<1> QED
  BY <1>1, SameJobsKeep, BelievedStays DEF AgreedAt

\* No run is sending.
LEMMA NotSending ==
    ASSUME gate' # None => gate'.at \notin Sending
    PROVE  Turn'
  BY DEF Turn

\* Jobs are taken from the queue, or moved to a later stage, and others are new.
LEMMA SentFirstKept ==
    ASSUME TypeOK, Operations, SentFirst, Derived(queue', ops'), UNCHANGED <<log, wire>>
    PROVE  SentFirst'
<1>1. ops \in Nat /\ ops' \in Nat
  BY DEF TypeOK, Derived
<1>2. \A m \in wire : m.op \in Nat /\ m.op <= ops
  BY DEF TypeOK, Commits, Operations
<1>3. \A r \in Remotes : \A s \in 1..Len(log[r]) : log[r][s].by \in Nat /\ log[r][s].by <= ops
  BY LogTypes DEF Operations
<1>4. ASSUME NEW j \in queue', Sent(j.op)
      PROVE  j.op \in Nat /\ j.op <= ops /\ \E k \in queue : Same(j, k) /\ First(k)
  <2>1. j \in Jobs
    BY DEF Derived
  <2>2. j.op \in Nat /\ j.op <= ops
    BY <1>2, <1>3, <1>4, <2>1, JobFields DEF Sent
  <2>3. PICK k \in queue : Same(j, k)
    BY <1>1, <2>2 DEF Derived
  <2>4. First(k)
    BY <1>4, <2>3 DEF SentFirst, Same
  <2> QED
    BY <2>2, <2>3, <2>4
<1>5. ASSUME NEW j \in queue', Sent(j.op), NEW l \in queue', l.id = j.id
      PROVE  j.op <= l.op
  <2>1. PICK k \in queue : Same(j, k) /\ First(k)
    BY <1>4, <1>5
  <2>2. j.op \in Nat /\ j.op <= ops
    BY <1>4, <1>5
  <2>3. l.op \in Nat
    <3>1. l \in Jobs
      BY DEF Derived
    <3> QED
      BY <3>1, JobFields
  <2>4. CASE \E i \in queue : Same(l, i)
    BY <1>5, <2>1, <2>4 DEF First, Same
  <2>5. CASE ops < l.op
    BY <1>1, <2>2, <2>3, <2>5
  <2> QED
    BY <2>4, <2>5 DEF Derived
<1>6. \A n : Sent(n)' <=> Sent(n)
  BY DEF Sent
<1> QED
  BY <1>5, <1>6 DEF SentFirst, First
\* The same jobs at the same stages, and new ones that are pending.
Kin(Q) ==
    \A j \in Q : \/ \E k \in queue : Same(j, k) /\ j.stage = k.stage
                 \/ ops < j.op /\ j.stage = "pending"

LEMMA StagesKept ==
    ASSUME Stages, Kin(queue'), UNCHANGED <<binding, initial, conflicts, scope>>
    PROVE  Stages'
  BY DEF Stages, Kin, Same, Enabled

\* Nothing moved that an acknowledgement could be behind of.
LEMMA AheadKept ==
    ASSUME TypeOK, Operations, Ahead, UNCHANGED <<log, binding, heads>>,
           queue' \subseteq Jobs,
           \A j \in queue' :
              \/ ops < j.op
              \/ \E k \in queue : Same(j, k) /\ (k.stage = "conflict" => j.stage = "conflict")
    PROVE  Ahead'
<1>1. ops \in Nat
  BY DEF TypeOK
<1> SUFFICES ASSUME binding # None, NEW j \in queue', j.stage # "conflict",
                    NEW s \in 1..Len(log[binding.remote]), log[binding.remote][s].by = j.op
             PROVE  binding.cursor < s /\ heads[j.id] < s
  BY DEF Ahead
<1>2. binding.remote \in Remotes
  BY DEF TypeOK, Bindings
<1>3. j.op \in Nat /\ j.op <= ops
  <2>1. j \in Jobs
    OBVIOUS
  <2> QED
    BY <1>2, <2>1, JobFields DEF Operations
<1>4. PICK k \in queue : Same(j, k) /\ (k.stage = "conflict" => j.stage = "conflict")
  BY <1>1, <1>3
<1> QED
  BY <1>4 DEF Ahead, Same

\* The queue only gets new jobs.
LEMMA AheadGrows ==
    ASSUME TypeOK, Operations, Ahead, UNCHANGED <<log, binding, heads>>,
           queue' \subseteq Jobs, Kin(queue')
    PROVE  Ahead'
<1>1. \A j \in queue' :
         \/ ops < j.op
         \/ \E k \in queue : Same(j, k) /\ (k.stage = "conflict" => j.stage = "conflict")
  BY DEF Kin
<1> QED
  BY <1>1, AheadKept

LEMMA LogSame ==
    ASSUME TypeOK, OneLive, log' = log
    PROVE  OneLive'
<1>1. LogsGrow
  BY SameLogGrows
<1>2. \A r \in Remotes : \A n \in 0..Len(log[r]) : \A f \in Ids :
         Latest(r, f, n)' = Latest(r, f, n)
  BY <1>1, LatestStays
<1>3. \A r \in Remotes : \A n \in 0..Len(log[r]) : \A f \in Ids :
         ContentAt(r, Latest(r, f, n))' = ContentAt(r, Latest(r, f, n))
  BY <1>2 DEF ContentAt
<1> QED
  BY <1>3 DEF OneLive

-----------------------------------------------------------------------------
(* Every step keeps Working *)

\* Steps that move the gate only, and do not start to send.
LEMMA IdleWorks ==
    ASSUME TypeOK, Following, Working,
           UNCHANGED <<log, wire, queue, row, observed, binding, initial, heads, conflicts,
                       inherited, scope, ops>>,
           \/ gate' # None => gate'.at \notin Sending
           \/ /\ gate # None /\ gate' # None /\ gate'.op = gate.op
              /\ gate.at \in Sending /\ gate'.at \in Sending
    PROVE  Working'
<1>1. OneLive'
  BY LogSame DEF Working
<1>2. Stages' /\ SentFirst' /\ Ahead'
  BY DEF Working, Stages, SentFirst, Ahead, Enabled, First, Sent
<1>3. Turn'
  BY DEF Working, Turn, First
<1>4. Described' /\ Agreed'
  BY DEF Working, Described, Agreed, DescribedAt, AgreedAt, Newest, Queued, Believed,
         ContentAt, Enabled
<1> QED
  BY <1>1, <1>2, <1>3, <1>4 DEF Working

\* A gate that is the same, or free.
LEMMA SameGateIdle ==
    ASSUME TypeOK, SameGate \/ gate' = None
    PROVE  \/ gate' # None => gate'.at \notin Sending
           \/ /\ gate # None /\ gate' # None /\ gate'.op = gate.op
              /\ gate.at \in Sending /\ gate'.at \in Sending
<1>1. CASE gate' = None
  BY <1>1
<1>2. CASE SameGate /\ gate # None
  <2>1. gate'.at = gate.at /\ gate'.op = gate.op /\ gate' \in Holders
    BY <1>2 DEF SameGate, Has
  <2>2. gate' # None
    BY <2>1, NoneAssumption
  <2> QED
    BY <1>2, <2>1, <2>2
<1> QED
  BY <1>1, <1>2 DEF SameGate

LEMMA OutsideWorks ==
    ASSUME TypeOK, Following, Working,
           \/ \E p \in Paths, c \in Hashes : OutsideEdit(p, c)
           \/ Login \/ Refresh \/ Expire \/ Logout \/ RevokeDevice
           \/ \E r \in Remotes : Preview(r)
           \/ BindRefused \/ Pause \/ Elapse \/ Crash
    PROVE  Working'
<1>1. UNCHANGED <<log, wire, queue, row, observed, binding, initial, heads, conflicts,
                  inherited, scope, ops>>
  BY DEF OutsideEdit, Login, Refresh, Expire, Logout, RevokeDevice, Preview, BindRefused,
         Pause, Elapse, Crash, server, merging, state, files
<1>2. gate' = gate \/ gate' = None \/ gate' = Cancelled
  BY DEF OutsideEdit, Login, Refresh, Expire, Logout, RevokeDevice, Preview, BindRefused,
         Pause, Elapse, Crash
<1>3. SameGate \/ gate' = None
  BY <1>2, UnchangedSame, CancelledSame
<1> QED
  BY <1>1, <1>3, SameGateIdle, IdleWorks

\* The scope changes while nothing is bound.
LEMMA SetScopeWorks ==
    ASSUME TypeOK, Following, Working, SetScope
    PROVE  Working'
<1>1. /\ binding = None
      /\ UNCHANGED <<log, wire, queue, row, observed, binding, heads, gate>>
  BY DEF SetScope, server, files, merging
<1>2. OneLive'
  BY <1>1, LogSame DEF Working
<1>3. SentFirst' /\ Turn'
  BY <1>1 DEF Working, SentFirst, Turn, First, Sent
<1>4. Stages'
  <2>1. conflicts' = conflicts
    BY DEF SetScope, merging
  <2> QED
    BY <1>1, <2>1 DEF Working, Stages
<1>5. Described'
  BY <1>1 DEF Working, Described, DescribedAt, Newest
<1>6. Agreed' /\ Ahead'
  BY <1>1 DEF Agreed, Ahead
<1> QED
  BY <1>2, <1>3, <1>4, <1>5, <1>6 DEF Working

\* The points of a cycle that leave the queue alone.
LEMMA PassWorks ==
    ASSUME TypeOK, Following, Working,
           \/ Launch \/ Handshake \/ UploadObject \/ Pull \/ Fetch \/ Stage \/ PageDone
           \/ Unauthorized \/ Ends \/ \E manual \in BOOLEAN : Run(manual)
           \/ \E r \in Remotes, mode \in Modes : AskRemote(mode, r)
    PROVE  Working'
<1>1. UNCHANGED <<log, wire, queue, row, observed, binding, initial, heads, conflicts,
                  inherited, scope, ops>>
  BY EndsType, PageDoneType, StageType, UnauthorizedType
     DEF Launch, Handshake, UploadObject, Pull, Fetch, Run, AskRemote, EndRun, server, files, merging, state
<1>2. \/ gate' # None => gate'.at \notin Sending
      \/ /\ gate # None /\ gate' # None /\ gate'.op = gate.op
         /\ gate.at \in Sending /\ gate'.at \in Sending
  <2>1. CASE Launch \/ Handshake
    <3>1. Goes("handshake") \/ Goes("discover")
      BY <2>1, LaunchType, HandshakeType
    <3> QED
      BY <3>1 DEF Goes, Has, Sending
  <2>2. CASE UploadObject
    <3>1. gate.at = "upload_object" /\ Goes("commit") /\ gate # None
      BY <2>2, UploadObjectType DEF Goes
    <3>2. gate' # None
      BY <3>1, NoneAssumption DEF Goes, Has
    <3> QED
      BY <3>1, <3>2 DEF Goes, Has, Sending
  <2>3. CASE Pull \/ Fetch \/ Stage \/ PageDone
    BY <2>3, PullType, FetchType, StageType, PageDoneType
       DEF Following, Tables, Goes, Has, Sending
  <2>4. CASE Unauthorized \/ Ends
    BY <2>4, UnauthorizedType, EndsType DEF Has, Sending
  <2>5. CASE \E manual \in BOOLEAN : Run(manual)
    <3>1. PICK manual \in BOOLEAN : Run(manual)
      BY <2>5
    <3> QED
      BY <3>1, RunType DEF Has, Sending
  <2>6. CASE \E r \in Remotes, mode \in Modes : AskRemote(mode, r)
    BY <2>6 DEF AskRemote, Holder, Modes, Sending
  <2> QED
    BY <2>1, <2>2, <2>3, <2>4, <2>5, <2>6
<1> QED
  BY <1>1, <1>2, IdleWorks
\* When a file has new work, the newest of its work is new.
LEMMA MadeDescribes ==
    ASSUME ops \in Nat, queue' \subseteq Jobs, NEW f, NEW c,
           \E n \in queue' : n.id = f /\ ops < n.op,
           \A j \in queue' : j.id = f /\ ops < j.op => j.content = c
    PROVE  \A j \in queue' : j.id = f /\ Newest(j)' => j.content = c
<1> SUFFICES ASSUME NEW j \in queue', j.id = f, Newest(j)'
             PROVE  j.content = c
  OBVIOUS
<1>1. PICK n \in queue' : n.id = f /\ ops < n.op
  OBVIOUS
<1>2. n.op <= j.op
  BY <1>1 DEF Newest
<1>3. n \in Jobs /\ j \in Jobs
  OBVIOUS
<1>4. n.op \in Nat /\ j.op \in Nat
  BY <1>3, JobFields
<1> QED
  BY <1>1, <1>2, <1>4

\* Identities at different paths differ.
LEMMA RowsDiffer ==
    ASSUME TypeOK, NEW p \in Paths, NEW q \in Paths, row[p] = row[q]
    PROVE  p = q
  BY DEF TypeOK

LEMMA EditWorks ==
    ASSUME TypeOK, Following, Working, NEW p \in Paths, NEW c \in Hashes, Edit(p, c)
    PROVE  Working'
<1> DEFINE n == NewJob(ops + 1, row[p], c)
<1>1. /\ queue' = queue \cup {n} /\ ops' = ops + 1 /\ gate' = gate
      /\ observed' = [observed EXCEPT ![row[p]] = c]
      /\ UNCHANGED <<log, wire, row, binding, initial, heads, conflicts, inherited, scope>>
  BY DEF Edit, server, merging, state
<1>2. row[p] \in Ids /\ ops \in Nat /\ ops + 1 \in Nat
  BY DEF TypeOK
<1>3. /\ n \in Jobs /\ n.op = ops + 1 /\ n.id = row[p] /\ n.content = c
      /\ n.stage = "pending"
  BY <1>2, JobType
<1> HIDE DEF n
<1>4. queue' \subseteq Jobs
  BY <1>1, <1>3 DEF TypeOK
<1>5. Kin(queue')
  BY <1>1, <1>2, <1>3 DEF Kin, Same
<1>6. Derived(queue', ops')
  <2>1. Numbered({n}, ops, ops')
    BY <1>1, <1>2, <1>3 DEF Numbered
  <2> QED
    BY <1>1, <2>1, QueueDerived, MoreDerived DEF Following
<1>7. OneLive'
  BY <1>1, LogSame DEF Working
<1>8. Stages'
  BY <1>1, <1>5, StagesKept DEF Working
<1>9. SentFirst'
  BY <1>1, <1>6, SentFirstKept DEF Working, Following
<1>10. Ahead'
  BY <1>1, <1>4, <1>5, AheadGrows DEF Working, Following
<1>11. \A j \in queue : j.op \in Nat /\ j.op <= ops
  <2>1. \A j \in queue : j \in Jobs
    BY DEF TypeOK
  <2> QED
    BY <2>1, JobFields DEF Following, Operations
<1>12. Turn'
  <2> SUFFICES ASSUME gate # None, gate.at \in Sending, NEW j \in queue', j.op = gate.op
               PROVE  j.stage # "pending" /\ \A k \in queue' : k.id = j.id => j.op <= k.op
    BY <1>1 DEF Turn, First
  <2>1. gate.op <= ops /\ gate.op \in Nat
    BY HolderFields DEF TypeOK, Following, Gates
  <2>2. j \in queue
    BY <1>1, <1>2, <1>3, <2>1
  <2>3. j.stage # "pending" /\ First(j)
    BY <2>2 DEF Working, Turn
  <2> QED
    BY <1>1, <1>2, <1>3, <1>11, <2>2, <2>3 DEF First
<1>13. ASSUME NEW q \in Paths, q # p
       PROVE  SameJobs(row[q]) /\ observed'[row[q]] = observed[row[q]]
  <2>1. row[q] # row[p] /\ row[q] \in Ids
    BY <1>13, RowsDiffer DEF TypeOK
  <2> QED
    BY <1>1, <1>3, <2>1 DEF SameJobs, Same, TypeOK
<1>14. LogsGrow
  BY <1>1, SameLogGrows
<1>15. DescribedAt(p)' /\ AgreedAt(p)'
  <2>1. n \in queue' /\ n.id = row[p] /\ ops < n.op
    BY <1>1, <1>2, <1>3
  <2>2. \A j \in queue' : j.id = row[p] /\ ops < j.op => j.content = c
    <3>1. \A j \in queue : ~(ops < j.op)
      BY <1>2, <1>11
    <3> QED
      BY <1>1, <1>3, <3>1
  <2>3. \A j \in queue' : j.id = row[p] /\ Newest(j)' => j.content = c
    BY <1>2, <1>4, <2>1, <2>2, MadeDescribes
  <2>4. row' = row /\ observed'[row[p]] = c
    BY <1>1, <1>2 DEF TypeOK
  <2> QED
    BY <2>1, <2>3, <2>4 DEF DescribedAt, AgreedAt, Queued
<1>16. Described'
  <2> SUFFICES ASSUME NEW q \in Paths, q # p, DescribedAt(q)
               PROVE  DescribedAt(q)'
    BY <1>1, <1>15 DEF Working, Described, Enabled
  <2> QED
    BY <1>1, <1>13, SameJobsKeep
<1>17. Agreed'
  <2> SUFFICES ASSUME binding # None, NEW q \in Paths, q # p, AgreedAt(q)
               PROVE  AgreedAt(q)'
    BY <1>1, <1>15 DEF Working, Agreed, Enabled
  <2> QED
    BY <1>1, <1>13, <1>14, PathStays DEF Following
<1> QED
  BY <1>7, <1>8, <1>9, <1>10, <1>12, <1>16, <1>17 DEF Working

LEMMA DiscoverWorks ==
    ASSUME TypeOK, Following, Working, Discover
    PROVE  Working'
<1> DEFINE D == Deletions(Vanished, ops)
           P == Puts(Changed, ops + Cardinality(Vanished))
<1>1. /\ queue' = queue \cup D \cup P
      /\ ops' = ops + Cardinality(Vanished) + Cardinality(Changed)
      /\ observed' = [f \in Ids |->
            IF f \in Vanished THEN Absent
            ELSE IF PathOf(f) \in Changed /\ row[PathOf(f)] = f THEN disk[PathOf(f)]
            ELSE observed[f]]
      /\ inherited' = {p \in inherited : row[p] \notin Vanished}
      /\ binding # None
      /\ UNCHANGED <<log, wire, row, disk, binding, initial, heads, conflicts, scope>>
  BY DEF Discover, server, state, Held
<1>2. ops \in Nat /\ Vanished \in SUBSET Ids /\ Changed \in SUBSET Paths
  BY DEF TypeOK, Vanished, Changed, LocalPaths
<1>3. /\ Numbered(D, ops, ops + Cardinality(Vanished))
      /\ \A j \in D : j.id \in Vanished /\ j.content = Absent
      /\ \A f \in Vanished : \E j \in D : j.id = f
  BY <1>2, DeletionsAre
<1>4. ops + Cardinality(Vanished) \in Nat /\ ops <= ops + Cardinality(Vanished)
  BY <1>3 DEF Numbered
<1>5. /\ Numbered(P, ops + Cardinality(Vanished), ops')
      /\ Covers(P, Changed, row, disk)
  BY <1>1, <1>2, <1>4, PutsAre
<1> HIDE DEF D, P
<1>6. \A j \in D \cup P : j \in Jobs /\ ops < j.op /\ j.stage = "pending"
  <2>1. \A j \in D : j \in Jobs /\ ops < j.op /\ j.stage = "pending"
    BY <1>3 DEF Numbered
  <2>2. ASSUME NEW j \in P
        PROVE  j \in Jobs /\ ops < j.op /\ j.stage = "pending"
    <3>1. j \in Jobs /\ ops + Cardinality(Vanished) < j.op /\ j.stage = "pending"
      BY <1>5 DEF Numbered
    <3>2. j.op \in Nat
      BY <3>1, JobFields
    <3> QED
      BY <1>2, <1>4, <3>1, <3>2
  <2> QED
    BY <2>1, <2>2
<1>7. queue' \subseteq Jobs /\ Kin(queue')
  BY <1>1, <1>6 DEF TypeOK, Kin, Same
<1>8. Derived(queue', ops')
  <2>1. Derived(queue, ops)
    BY QueueDerived DEF Following
  <2>2. Derived(queue \cup D, ops + Cardinality(Vanished))
    BY <1>3, <2>1, MoreDerived DEF Following
  <2> QED
    BY <1>1, <1>5, <2>2, MoreDerived DEF Following
<1>9. OneLive'
  BY <1>1, LogSame DEF Working
<1>10. Stages'
  BY <1>1, <1>7, StagesKept DEF Working
<1>11. SentFirst'
  BY <1>1, <1>8, SentFirstKept DEF Working, Following
<1>12. Ahead'
  BY <1>1, <1>7, AheadGrows DEF Working, Following
<1>13. Turn'
  BY DiscoverType, NotSending DEF Goes, Has, Sending
<1>14. LogsGrow
  BY <1>1, SameLogGrows
<1>15. \A j \in queue : ~(ops < j.op)
  <2>1. \A j \in queue : j.op \in Nat /\ j.op <= ops
    <3>1. \A j \in queue : j \in Jobs
      BY DEF TypeOK
    <3> QED
      BY <3>1, JobFields DEF Following, Operations
  <2> QED
    BY <1>2, <2>1
<1>16. \A j \in P : \E p \in Changed : j.id = row[p] /\ j.content = disk[p]
  BY <1>5 DEF Covers
<1>17. ASSUME NEW p \in Paths
       PROVE  row[p] \in Ids /\ PathOf(row[p]) = p
  BY DEF TypeOK
<1>18. ASSUME NEW p \in Paths, row[p] \in Vanished
       PROVE  DescribedAt(p)' /\ AgreedAt(p)'
  <2>1. p \notin Changed
    BY <1>17, <1>18 DEF Vanished, Changed, LocalPaths
  <2>2. observed'[row[p]] = Absent
    BY <1>1, <1>17, <1>18
  <2>3. \E n \in queue' : n.id = row[p] /\ ops < n.op
    BY <1>1, <1>3, <1>6, <1>18
  <2>4. \A j \in queue' : j.id = row[p] /\ ops < j.op => j.content = Absent
    <3>1. \A j \in P : j.id # row[p]
      BY <1>2, <1>16, <2>1, RowsDiffer
    <3> QED
      BY <1>1, <1>3, <1>15, <3>1
  <2>5. \A j \in queue' : j.id = row[p] /\ Newest(j)' => j.content = Absent
    BY <1>2, <1>7, <2>3, <2>4, MadeDescribes
  <2> QED
    BY <1>1, <2>2, <2>3, <2>5 DEF DescribedAt, AgreedAt, Queued
<1>19. ASSUME NEW p \in Changed
       PROVE  DescribedAt(p)' /\ AgreedAt(p)'
  <2>1. p \in Paths /\ row[p] \notin Vanished
    BY <1>2, <1>17 DEF Vanished, Changed, LocalPaths
  <2>2. observed'[row[p]] = disk[p]
    BY <1>1, <1>17, <2>1
  <2>3. \E n \in queue' : n.id = row[p] /\ ops < n.op
    <3>1. \E n \in P : n.id = row[p]
      BY <1>5 DEF Covers
    <3> QED
      BY <1>1, <1>6, <3>1
  <2>4. \A j \in queue' : j.id = row[p] /\ ops < j.op => j.content = disk[p]
    <3>1. \A j \in D : j.id # row[p]
      BY <1>3, <2>1
    <3>2. \A j \in P : j.id = row[p] => j.content = disk[p]
      BY <1>2, <1>16, <2>1, RowsDiffer
    <3> QED
      BY <1>1, <1>15, <3>1, <3>2
  <2>5. \A j \in queue' : j.id = row[p] /\ Newest(j)' => j.content = disk[p]
    BY <1>2, <1>7, <2>3, <2>4, MadeDescribes
  <2> QED
    BY <1>1, <2>2, <2>3, <2>5 DEF DescribedAt, AgreedAt, Queued
<1>20. ASSUME NEW p \in Paths, row[p] \notin Vanished, p \notin Changed
       PROVE  /\ DescribedAt(p) => DescribedAt(p)'
              /\ AgreedAt(p) => AgreedAt(p)'
  <2>1. observed'[row[p]] = observed[row[p]]
    BY <1>1, <1>17, <1>20
  <2>2. \A j \in D \cup P : j.id # row[p]
    BY <1>2, <1>3, <1>16, <1>20, RowsDiffer
  <2>3. SameJobs(row[p])
    BY <1>1, <2>2 DEF SameJobs, Same
  <2> QED
    BY <1>1, <1>14, <2>1, <2>3, PathStays DEF Following
<1>21. Described'
  BY <1>1, <1>18, <1>19, <1>20 DEF Working, Described, Enabled
<1>22. Agreed'
  BY <1>1, <1>18, <1>19, <1>20 DEF Working, Agreed, Enabled
<1> QED
  BY <1>9, <1>10, <1>11, <1>12, <1>13, <1>21, <1>22 DEF Working
\* An operation the log has is acknowledged: its job goes, and the head of its file
\* moves to the revision.
LEMMA AckedPath ==
    ASSUME TypeOK, Following, Working, binding # None,
           NEW j \in queue, j.stage # "conflict",
           NEW s \in 1..Len(log[binding.remote]), log[binding.remote][s].by = j.op,
           queue' = queue \ {j}, heads' = Newer(j.id, s),
           binding'.remote = binding.remote, UNCHANGED <<log, row, observed>>,
           NEW p \in Paths
    PROVE  /\ DescribedAt(p) => DescribedAt(p)'
           /\ DescribedAt(p) /\ AgreedAt(p) => AgreedAt(p)'
<1>1. binding.remote \in Remotes /\ j \in Jobs /\ j.id \in Ids /\ row[p] \in Ids
  <2>1. binding.remote \in Remotes /\ j \in Jobs /\ row[p] \in Ids
    BY DEF TypeOK, Bindings
  <2> QED
    BY <2>1, JobFields
<1>2. s \in Nat
  BY <1>1, LogTypes
<1>3. Sent(j.op)
  BY <1>1 DEF Sent
<1>4. First(j) /\ heads[j.id] < s
  BY <1>3 DEF Working, SentFirst, Ahead
<1>5. log[binding.remote][s].content = j.content
  BY <1>1 DEF Following, Owned
<1>6. heads'[j.id] = s /\ \A g \in Ids : g # j.id => heads'[g] = heads[g]
  BY <1>1, <1>2, <1>4, NewerIs
<1>7. CASE row[p] # j.id
  <2>1. SameJobs(row[p])
    BY <1>7 DEF SameJobs, Same
  <2>2. heads'[row[p]] = heads[row[p]]
    BY <1>1, <1>6, <1>7
  <2>3. LogsGrow
    BY SameLogGrows
  <2> QED
    BY <2>1, <2>2, <2>3, PathStays DEF Following
<1>8. CASE row[p] = j.id
  <2>1. ASSUME DescribedAt(p), NEW k \in queue', k.id = row[p],
               \A l \in queue' : l.id = k.id => l.op <= k.op
        PROVE  k.content = observed[row[p]]
    <3>1. \A l \in queue : l.id = k.id => l.op <= k.op
      BY <1>4, <1>8, <2>1 DEF First
    <3> QED
      BY <2>1, <3>1 DEF DescribedAt, Newest
  <2>2. DescribedAt(p) => DescribedAt(p)'
    BY <2>1 DEF DescribedAt, Newest
  <2>3. ASSUME DescribedAt(p), ~Queued(row[p])'
        PROVE  Believed(row[p])' = observed[row[p]]
    <3>1. \A k \in queue : k.id = j.id => k = j
      BY <1>8, <2>3 DEF Queued
    <3>2. Newest(j)
      <4>1. j.op \in Nat
        BY <1>1, JobFields
      <4> QED
        BY <3>1, <4>1 DEF Newest
    <3>3. j.content = observed[row[p]]
      BY <1>8, <2>3, <3>2 DEF DescribedAt
    <3>4. heads'[row[p]] = s /\ s # 0
      BY <1>2, <1>6, <1>8
    <3> QED
      BY <1>5, <3>3, <3>4 DEF Believed, ContentAt
  <2> QED
    BY <2>2, <2>3 DEF AgreedAt
<1> QED
  BY <1>7, <1>8

LEMMA AckWorks ==
    ASSUME TypeOK, Following, Working, Ack
    PROVE  Working'
<1> DEFINE s == Sequence(gate.op)
<1>1. /\ Held /\ Job \in queue /\ Job.op = gate.op /\ Job.stage # "conflict"
      /\ queue' = queue \ {Job} /\ gate.remote = binding.remote
      /\ s \in 1..Len(log[binding.remote]) /\ log[binding.remote][s].by = Job.op
      /\ heads' = Newer(Job.id, s)
      /\ Has(gate', "push", gate.binding, gate.remote, gate.seen, gate.todo, 0, "none")
      /\ UNCHANGED <<server, files, initial, window, inbox, conflicts, inherited,
                     binding, scope, ops>>
  BY AckType DEF Following
<1> HIDE DEF s
<1>2. /\ binding # None
      /\ UNCHANGED <<log, wire, row, observed, initial, conflicts, inherited, binding, scope, ops>>
  BY <1>1 DEF Held, server, files
<1>3. /\ binding.remote \in Remotes /\ Job.id \in Ids /\ s \in Nat
  <2>1. binding.remote \in Remotes /\ Job \in Jobs
    BY <1>1, <1>2 DEF TypeOK, Bindings
  <2> QED
    BY <1>1, <2>1, JobFields, LogTypes
<1>4. OneLive'
  BY <1>2, LogSame DEF Working
<1>5. Stages'
  BY <1>1, <1>2 DEF Working, Stages, Enabled
<1>6. SentFirst'
  <2>1. Derived(queue', ops')
    BY <1>1, <1>2, QueueDerived DEF Following
  <2> QED
    BY <1>2, <2>1, SentFirstKept DEF Working, Following
<1>7. Turn'
  BY <1>1, NotSending DEF Has, Sending
<1>8. Ahead'
  <2> SUFFICES ASSUME NEW j \in queue', j.stage # "conflict",
                      NEW t \in 1..Len(log[binding.remote]), log[binding.remote][t].by = j.op
               PROVE  binding.cursor < t /\ heads'[j.id] < t
    BY <1>2 DEF Ahead
  <2>1. j \in queue /\ j # Job /\ Sent(j.op) /\ Sent(Job.op)
    BY <1>1, <1>3 DEF Sent
  <2>2. First(j) /\ First(Job)
    BY <1>1, <2>1 DEF Working, SentFirst
  <2>3. j.op # Job.op /\ j.op \in Nat /\ Job.op \in Nat /\ j.id \in Ids
    <3>1. j \in Jobs /\ Job \in Jobs
      BY <1>1, <2>1 DEF TypeOK
    <3> QED
      BY <1>1, <2>1, <3>1, JobFields DEF Following, Operations
  <2>4. j.id # Job.id
    BY <1>1, <2>1, <2>2, <2>3 DEF First
  <2>5. heads'[j.id] = heads[j.id]
    BY <1>1, <1>3, <2>3, <2>4, NewerIs
  <2> QED
    BY <1>2, <2>1, <2>5 DEF Working, Ahead
<1>9. ASSUME NEW p \in Paths
      PROVE  /\ DescribedAt(p) => DescribedAt(p)'
             /\ DescribedAt(p) /\ AgreedAt(p) => AgreedAt(p)'
  BY <1>1, <1>2, AckedPath
<1>10. Described'
  BY <1>2, <1>9 DEF Working, Described, Enabled
<1>11. Agreed'
  BY <1>2, <1>9 DEF Working, Described, Agreed, Enabled
<1> QED
  BY <1>4, <1>5, <1>6, <1>7, <1>8, <1>10, <1>11 DEF Working

LEMMA CommitWorks ==
    ASSUME TypeOK, Following, Working, Commit
    PROVE  Working'
<1>1. /\ gate # None /\ gate.at = "commit" /\ Held
      /\ Job \in queue /\ Job.op = gate.op /\ Job.stage # "conflict"
      /\ Has(gate', "sent", gate.binding, gate.remote, gate.seen, gate.todo, gate.op, "none")
      /\ UNCHANGED <<log, peers, files, merging, binding, scope, ops>>
  BY CommitType DEF Following
<1>2. PICK j, m :
         /\ queue' = (queue \ {Job}) \cup {j} /\ wire' = wire \cup {m}
         /\ j \in Jobs /\ j.op = Job.op /\ j.id = Job.id /\ j.content = Job.content
         /\ j.stage = "committing" /\ m.op = Job.op
  BY CommitType DEF Following
<1>3. UNCHANGED <<log, row, observed, binding, initial, heads, conflicts, inherited, scope,
                  ops>> /\ binding # None
  BY <1>1 DEF files, merging, Held
<1>4. Job.stage # "pending" /\ First(Job)
  BY <1>1 DEF Working, Turn, Sending
<1>5. Same(j, Job)
  BY <1>2 DEF Same
<1>6. OneLive'
  BY <1>3, LogSame DEF Working
<1>7. Stages'
  BY <1>1, <1>2, <1>3, <1>4 DEF Working, Stages, Enabled
<1>8. \A k \in queue' : \E l \in queue : k.id = l.id /\ k.op = l.op
  BY <1>1, <1>2
<1>9. \A k \in queue : \E l \in queue' : k.id = l.id /\ k.op = l.op
  BY <1>1, <1>2
<1>10. First(j)'
  BY <1>2, <1>4, <1>8 DEF First
<1>11. SentFirst'
  <2> SUFFICES ASSUME NEW k \in queue', k # j, Sent(k.op)'
               PROVE  First(k)'
    BY <1>10 DEF SentFirst
  <2>1. k \in queue /\ k.op # Job.op
    BY <1>1, <1>2 DEF Following, Operations
  <2>2. Sent(k.op)
    BY <1>2, <1>3, <2>1 DEF Sent
  <2>3. First(k)
    BY <2>1, <2>2 DEF Working, SentFirst
  <2> QED
    BY <1>8, <2>3 DEF First
<1>12. Turn'
  <2>1. gate'.op = gate.op
    BY <1>1 DEF Has
  <2>2. \A k \in queue' : k.op = gate.op => k = j
    BY <1>1, <1>2 DEF Following, Operations
  <2> QED
    BY <1>2, <1>10, <2>1, <2>2 DEF Turn
<1>13. Ahead'
  <2>1. queue' \subseteq Jobs
    BY <1>2 DEF TypeOK
  <2>2. \A k \in queue' :
           \E l \in queue : Same(k, l) /\ (l.stage = "conflict" => k.stage = "conflict")
    BY <1>1, <1>2, <1>5 DEF Same
  <2> QED
    BY <1>3, <2>1, <2>2, AheadKept DEF Working, Following
<1>14. ASSUME NEW f
       PROVE  SameJobs(f)
  <2>1. \A k \in queue' : \E l \in queue : Same(k, l)
    BY <1>1, <1>2, <1>5 DEF Same
  <2>2. \A l \in queue : \E k \in queue' : Same(k, l)
    BY <1>1, <1>2, <1>5 DEF Same
  <2> QED
    BY <2>1, <2>2 DEF SameJobs
<1>15. LogsGrow
  BY <1>3, SameLogGrows
<1>16. Described'
  BY <1>3, <1>14, SameJobsKeep DEF Working, Described, Enabled
<1>17. Agreed'
  BY <1>3, <1>14, <1>15, PathStays DEF Working, Following, Agreed, Enabled
<1> QED
  BY <1>6, <1>7, <1>11, <1>12, <1>13, <1>16, <1>17 DEF Working

LEMMA PushWorks ==
    ASSUME TypeOK, Following, Working, Push
    PROVE  Working'
<1>1. /\ Held
      /\ \/ /\ gate # None
            /\ queue' = queue \/ (initial = None /\ queue' = Captured(InScope(queue)))
            /\ Has(gate', "pull", gate.binding, gate.remote, gate.seen, gate.todo,
                   gate.op, gate.reply)
         \/ \E j \in queue' :
            /\ initial = None /\ queue' = Captured(InScope(queue))
            /\ j \in Sendable(queue') /\ \A k \in Sendable(queue') : j.op <= k.op
            /\ \E at \in {"commit", "upload_object"} :
                 Has(gate', at, gate.binding, gate.remote, gate.seen, gate.todo,
                     j.op, gate.reply)
      /\ UNCHANGED <<server, files, merging, binding, scope, ops>>
  BY PushType
<1>2. UNCHANGED <<log, wire, row, observed, binding, initial, heads, conflicts, inherited,
                  scope, ops>> /\ binding # None
  BY <1>1 DEF server, files, merging, Held
<1>3. CASE queue' = queue /\ gate'.at = "pull"
  <2>1. gate' # None => gate'.at \notin Sending
    BY <1>3 DEF Sending
  <2> QED
    BY <1>2, <1>3, <2>1, IdleWorks
<1>4. CASE initial = None /\ queue' = Captured(InScope(queue))
  <2>1. InScope(queue) \subseteq Jobs /\ InScope(queue) \subseteq queue
        /\ \A k \in queue : k \in InScope(queue) <=> k.stage # "pending" \/ Enabled(PathOf(k.id))
    BY DEF TypeOK, InScope
  <2>2. /\ queue' \subseteq Jobs
        /\ \A j \in queue' :
              /\ j.stage # "pending"
              /\ \E k \in InScope(queue) : /\ Same(j, k)
                                           /\ k.stage = "pending" => j.stage = "queued"
                                           /\ k.stage # "pending" => j.stage = k.stage
        /\ \A k \in InScope(queue) : \E j \in queue' : Same(j, k)
    BY <1>4, <2>1, CapturedAre
  <2>3. OneLive'
    BY <1>2, LogSame DEF Working
  <2>4. Stages'
    <3>1. ASSUME NEW j \in queue'
          PROVE  j.stage = "conflict" => PathOf(j.id) \in conflicts
      <4>1. PICK k \in InScope(queue) : /\ Same(j, k)
                                        /\ k.stage = "pending" => j.stage = "queued"
                                        /\ k.stage # "pending" => j.stage = k.stage
        BY <2>2
      <4>2. Enabled(PathOf(k.id))
        BY <2>1 DEF Working, Stages
      <4>3. j.stage = "conflict" => k.stage = "conflict"
        BY <4>1
      <4> QED
        BY <2>1, <4>1, <4>2, <4>3 DEF Working, Stages, Same
    <3>2. \A j \in queue' : Enabled(PathOf(j.id))
      BY <2>1, <2>2 DEF Working, Stages, Same
    <3> QED
      BY <1>2, <1>4, <3>1, <3>2 DEF Stages, Enabled
  <2>5. SentFirst'
    <3>1. Derived(queue, ops) /\ Derived(InScope(queue), ops)
      BY <2>1, QueueDerived DEF Following
    <3>2. Derived(queue', ops')
      BY <1>2, <1>4, <3>1, CapturedDerived
    <3> QED
      BY <1>2, <3>2, SentFirstKept DEF Working, Following
  <2>6. Ahead'
    <3>1. \A j \in queue' :
             \E k \in queue : Same(j, k) /\ (k.stage = "conflict" => j.stage = "conflict")
      BY <2>1, <2>2
    <3> QED
      BY <1>2, <2>2, <3>1, AheadKept DEF Working, Following
  <2>7. Turn'
    <3>1. CASE gate'.at = "pull"
      <4>1. gate' # None => gate'.at \notin Sending
        BY <3>1 DEF Sending
      <4> QED
        BY <4>1, NotSending
    <3>2. ASSUME NEW j \in queue', j \in Sendable(queue'),
                 \A k \in Sendable(queue') : j.op <= k.op, gate'.op = j.op
          PROVE  Turn'
      <4>1. PathOf(j.id) \notin conflicts
        BY <3>2 DEF Sendable
      <4>2. ASSUME NEW k \in queue', k.id = j.id
            PROVE  j.op <= k.op
        <5>1. k.stage # "conflict" /\ k.stage # "pending"
          BY <1>2, <2>2, <2>4, <4>1, <4>2 DEF Stages
        <5>2. k \in Jobs
          BY <2>2
        <5>3. k.stage \in {"queued", "committing"}
          BY <5>1, <5>2, JobFields
        <5>4. k \in Sendable(queue')
          BY <4>1, <4>2, <5>3 DEF Sendable
        <5> QED
          BY <3>2, <5>4
      <4>3. First(j)' /\ j.stage # "pending"
        BY <2>2, <4>2 DEF First
      <4>4. Operations'
        BY PushFollows DEF Following
      <4>5. \A k \in queue' : k.op = j.op => k = j
        BY <4>4 DEF Operations
      <4> QED
        BY <3>2, <4>3, <4>5 DEF Turn
    <3> QED
      BY <1>1, <3>1, <3>2 DEF Has
  <2>8. ASSUME NEW p \in Paths, Enabled(p)
        PROVE  SameJobs(row[p])
    <3>1. PathOf(row[p]) = p
      BY DEF TypeOK
    <3>2. \A k \in queue : k.id = row[p] => k \in InScope(queue)
      BY <2>1, <2>8, <3>1
    <3> QED
      BY <2>1, <2>2, <3>2 DEF SameJobs
  <2>9. LogsGrow
    BY <1>2, SameLogGrows
  <2>10. Described'
    BY <1>2, <2>8, SameJobsKeep DEF Working, Described, Enabled
  <2>11. Agreed'
    BY <1>2, <2>8, <2>9, PathStays DEF Working, Following, Agreed, Enabled
  <2> QED
    BY <2>3, <2>4, <2>5, <2>6, <2>7, <2>10, <2>11 DEF Working
<1> QED
  BY <1>1, <1>3, <1>4 DEF Has
\* The jobs left after a revision is applied: in scope, not the ones it acknowledges.
LEMMA ApplyLeaves ==
    ASSUME TypeOK, Apply
    PROVE  \A j \in queue' : \E k \in queue :
              /\ Same(j, k) /\ (k.stage = "conflict" => j.stage = "conflict")
              /\ k.stage = "pending" => j.stage = "pending"
              /\ j.stage = "conflict" =>
                    k.stage = "conflict"
                    \/ /\ PathOf(j.id) = PathOf(log[gate.remote][inbox].id)
                       /\ PathOf(j.id) \in conflicts'
              /\ Enabled(PathOf(log[gate.remote][inbox].id)) => k \notin Own(inbox)
<1> DEFINE f == log[gate.remote][inbox].id
<1>1. CASE ApplyNothing(inbox)
  <2>1. queue' \subseteq queue
        /\ \A j \in queue' : Enabled(PathOf(f)) => j \notin Own(inbox)
    BY <1>1 DEF ApplyNothing
  <2> QED
    BY <2>1 DEF Same
<1>2. CASE ApplyConflict(inbox)
  <2>1. /\ \A j \in queue' : \E k \in queue :
              j = IF PathOf(k.id) = PathOf(f) /\ k.stage # "pending"
                  THEN [k EXCEPT !.stage = "conflict"] ELSE k
        /\ Own(inbox) = {} /\ PathOf(f) \in conflicts'
    BY <1>2 DEF ApplyConflict
  <2> SUFFICES ASSUME NEW j \in queue', NEW k \in queue,
                      j = IF PathOf(k.id) = PathOf(f) /\ k.stage # "pending"
                          THEN [k EXCEPT !.stage = "conflict"] ELSE k
               PROVE  /\ Same(j, k) /\ (k.stage = "conflict" => j.stage = "conflict")
                      /\ k.stage = "pending" => j.stage = "pending"
                      /\ j.stage = "conflict" =>
                            k.stage = "conflict" \/ PathOf(j.id) = PathOf(f)
    BY <2>1
  <2>2. k \in Jobs
    BY DEF TypeOK
  <2>3. CASE PathOf(k.id) = PathOf(f) /\ k.stage # "pending"
    <3>1. j = [k EXCEPT !.stage = "conflict"]
      BY <2>3
    <3>2. j.op = k.op /\ j.id = k.id /\ j.content = k.content /\ j.stage = "conflict"
      BY <2>2, <3>1 DEF Jobs
    <3> QED
      BY <2>3, <3>2 DEF Same
  <2>4. CASE ~(PathOf(k.id) = PathOf(f) /\ k.stage # "pending")
    BY <2>4 DEF Same
  <2> QED
    BY <2>3, <2>4
<1>3. CASE ApplyRemote(inbox)
  BY <1>3 DEF ApplyRemote, Same
<1> QED
  BY <1>1, <1>2, <1>3 DEF Apply

LEMMA ApplyAhead ==
    ASSUME TypeOK, Following, Working, Apply, TypeOK'
    PROVE  Ahead'
<1> DEFINE r == binding.remote
           f == log[r][inbox].id
<1>1. gate # None /\ gate.at = "staged" /\ Finish(inbox) /\ log' = log
  BY DEF Apply, Running, Settled, server
<1>2. /\ binding # None /\ gate.remote = r /\ inbox \in 1..Len(log[r])
      /\ log[r][inbox] \in Revisions /\ r \in Remotes
  <2>1. binding # None /\ gate.remote = r /\ inbox \in 1..Len(log[r])
        /\ log[r][inbox] \in Revisions
    BY <1>1, StagedRevision DEF Following, Tables
  <2> QED
    BY <2>1 DEF TypeOK, Bindings
<1>3. inbox \in Nat /\ binding.cursor \in Nat /\ f \in Ids
  BY <1>2, RevisionFields DEF TypeOK, Bindings
<1>4. MoveCursor(inbox) /\ heads' = Newer(f, inbox)
  BY <1>1, <1>2 DEF Finish
<1>5. binding'.remote = r /\ (initial = None => binding'.cursor = inbox)
  BY <1>2, <1>3, <1>4, MoveCursorIs
<1>6. \A g \in Ids : heads'[g] = heads[g] \/ (g = f /\ heads'[g] = inbox)
  BY <1>3, <1>4, NewerGrows
<1>7. initial = None => inbox = binding.cursor + 1
  BY <1>1, <1>2 DEF Following, Tables, Positions, Gates
<1> HIDE DEF f
<1> SUFFICES ASSUME NEW j \in queue', j.stage # "conflict",
                    NEW t \in 1..Len(log[r]), log[r][t].by = j.op
             PROVE  binding'.cursor < t /\ heads'[j.id] < t
  BY <1>1, <1>5 DEF Ahead
<1>8. PICK k \in queue : /\ Same(j, k) /\ k.stage # "conflict"
                         /\ Enabled(PathOf(f)) => k \notin Own(inbox)
  BY <1>2, ApplyLeaves DEF f
<1>9. log[r][t].by = k.op /\ j.id = k.id /\ Sent(k.op)
  BY <1>2, <1>8 DEF Same, Sent
<1>10. k.stage # "pending" /\ initial = None /\ Enabled(PathOf(k.id))
  BY <1>9 DEF Following, Owned, Working, Stages
<1>11. binding.cursor < t /\ heads[k.id] < t
  BY <1>2, <1>8, <1>9 DEF Working, Ahead
<1>12. t # inbox
  <2> SUFFICES ASSUME t = inbox
               PROVE  FALSE
    OBVIOUS
  <2>1. k.id = f
    BY <1>2, <1>9 DEF Following, Owned, f
  <2>2. k \in Own(inbox)
    BY <1>2, <1>8, <1>9 DEF Own
  <2> QED
    BY <1>8, <1>10, <2>1, <2>2
<1>13. inbox < t
  <2>1. t \in Nat
    BY <1>2, LogTypes
  <2> QED
    BY <1>3, <1>7, <1>10, <1>11, <1>12, <2>1
<1>14. k.id \in Ids
  <2>1. k \in Jobs
    BY DEF TypeOK
  <2> QED
    BY <2>1, JobFields
<1> QED
  BY <1>5, <1>6, <1>9, <1>10, <1>11, <1>13, <1>14

\* At a path that is not in conflict afterwards.
LEMMA ApplyPath ==
    ASSUME TypeOK, Following, Working, Apply, TypeOK',
           NEW p \in Paths, Enabled(p), p \notin conflicts'
    PROVE  /\ DescribedAt(p) => DescribedAt(p)'
           /\ DescribedAt(p) /\ AgreedAt(p) => AgreedAt(p)'
<1> DEFINE r == binding.remote
           e == log[r][inbox]
           f == e.id
<1>1. gate # None /\ gate.at = "staged" /\ Finish(inbox) /\ log' = log
      /\ (ApplyNothing(inbox) \/ ApplyConflict(inbox) \/ ApplyRemote(inbox))
  BY DEF Apply, Running, Settled, server
<1>2. /\ binding # None /\ gate.remote = r /\ inbox \in 1..Len(log[r])
      /\ e \in Revisions /\ r \in Remotes
  <2>1. binding # None /\ gate.remote = r /\ inbox \in 1..Len(log[r])
        /\ log[r][inbox] \in Revisions
    BY <1>1, StagedRevision DEF Following, Tables
  <2> QED
    BY <2>1 DEF TypeOK, Bindings
<1>3. inbox \in Nat /\ inbox # 0
  BY <1>2, LogTypes
<1>4. MoveCursor(inbox) /\ heads' = Newer(f, inbox)
  BY <1>1, <1>2 DEF Finish
<1>5. binding'.remote = r
  BY <1>2, <1>3, <1>4, MoveCursorIs
<1> HIDE DEF e
<1>6. f \in Ids /\ e.content \in Hashes /\ PathOf(f) \in Paths
  BY <1>2, RevisionFields
<1>7. row[p] \in Ids /\ PathOf(row[p]) = p
  BY DEF TypeOK
<1>8. /\ \A g \in Ids : g # f => heads'[g] = heads[g]
      /\ heads[f] < inbox => heads'[f] = inbox
      /\ heads[f] >= inbox => heads'[f] = heads[f]
  BY <1>3, <1>4, <1>6, NewerIs
<1>9. LogsGrow
  BY <1>1, SameLogGrows
<1>10. CASE ApplyNothing(inbox)
  <2>1. /\ ~Enabled(PathOf(f)) \/ Own(inbox) # {} \/ heads[f] >= inbox
        /\ queue' = IF Enabled(PathOf(f)) THEN queue \ Own(inbox) ELSE queue
        /\ UNCHANGED <<row, observed>>
    BY <1>2, <1>10 DEF ApplyNothing, files, e
  <2>2. CASE Enabled(PathOf(f)) /\ Own(inbox) # {}
    <3>1. PICK j \in queue : j.op = e.by /\ j.stage # "conflict"
      BY <1>2, <2>2 DEF Own, e
    <3>2. Own(inbox) = {j}
      BY <1>2, <3>1 DEF Own, e, Following, Operations
    <3>3. j.id = f
      BY <1>2, <3>1 DEF Following, Owned, e
    <3>4. queue' = queue \ {j} /\ heads' = Newer(j.id, inbox) /\ log[r][inbox].by = j.op
      BY <1>4, <2>1, <2>2, <3>1, <3>2, <3>3 DEF e
    <3> QED
      BY <1>1, <1>2, <1>5, <2>1, <3>1, <3>4, AckedPath
  <2>3. CASE ~(Enabled(PathOf(f)) /\ Own(inbox) # {})
    <3>1. queue' = queue
      BY <2>1, <2>3
    <3>2. heads'[row[p]] = heads[row[p]]
      BY <1>7, <1>8, <2>1, <2>3
    <3>3. SameJobs(row[p])
      BY <3>1, QueueSame
    <3> QED
      BY <1>2, <1>5, <1>9, <2>1, <3>2, <3>3, PathStays DEF Following
  <2> QED
    BY <2>2, <2>3
<1>11. CASE ApplyConflict(inbox)
  <2>1. /\ PathOf(f) \in conflicts' /\ UNCHANGED <<row, observed>>
        /\ queue' = {IF PathOf(j.id) = PathOf(f) /\ j.stage # "pending"
                     THEN [j EXCEPT !.stage = "conflict"] ELSE j : j \in queue}
    BY <1>2, <1>11 DEF ApplyConflict, files, e
  <2>2. row[p] # f /\ p # PathOf(f)
    BY <1>7, <2>1
  <2>3. \A j \in queue : PathOf([j EXCEPT !.stage = "conflict"].id) = PathOf(j.id)
    <3>1. \A j \in queue : j \in Jobs
      BY DEF TypeOK
    <3>2. \A j \in queue : [j EXCEPT !.stage = "conflict"].id = j.id
      BY <3>1 DEF Jobs
    <3> QED
      BY <3>2
  <2>4. \A j \in queue' : PathOf(j.id) # PathOf(f) => j \in queue
    BY <2>1, <2>3
  <2>5. \A j \in queue : PathOf(j.id) # PathOf(f) => j \in queue'
    BY <2>1
  <2>6. SameJobs(row[p])
    BY <1>7, <2>2, <2>4, <2>5 DEF SameJobs, Same
  <2>7. heads'[row[p]] = heads[row[p]]
    BY <1>7, <1>8, <2>2
  <2> QED
    BY <1>2, <1>5, <1>9, <2>1, <2>6, <2>7, PathStays DEF Following
<1>12. CASE ApplyRemote(inbox)
  <2>1. /\ heads[f] < inbox /\ ~LocalWork(f) /\ queue' = queue
        /\ row' = [row EXCEPT ![PathOf(f)] = IF e.content = Absent THEN @ ELSE f]
        /\ observed' = [observed EXCEPT ![f] =
              IF e.content # Absent \/ Tracked(f) THEN e.content ELSE @]
    BY <1>2, <1>12 DEF ApplyRemote, e
  <2>2. ~Queued(f)
    BY <2>1 DEF LocalWork
  <2>3. row \in [Paths -> Ids] /\ observed \in [Ids -> Hashes]
    BY DEF TypeOK
  <2>4. log'[binding'.remote][heads'[f]].content = e.content /\ heads'[f] # 0
    BY <1>1, <1>3, <1>5, <1>8, <2>1 DEF e
  <2>5. ASSUME row'[p] = f, observed'[f] = e.content
        PROVE  DescribedAt(p)' /\ AgreedAt(p)'
    <3>1. \A j \in queue' : j.id # row'[p]
      BY <2>1, <2>2, <2>5 DEF Queued
    <3>2. Believed(row[p])' = observed'[row'[p]]
      BY <2>4, <2>5 DEF Believed, ContentAt
    <3> QED
      BY <3>1, <3>2 DEF DescribedAt, AgreedAt
  <2>6. ASSUME row'[p] = row[p], row[p] # f
        PROVE  /\ DescribedAt(p) => DescribedAt(p)'
               /\ DescribedAt(p) /\ AgreedAt(p) => AgreedAt(p)'
    <3>1. observed'[row[p]] = observed[row[p]] /\ heads'[row[p]] = heads[row[p]]
      BY <1>7, <1>8, <2>1, <2>3, <2>6
    <3>2. SameJobs(row[p])
      BY <2>1, QueueSame
    <3> QED
      BY <1>2, <1>5, <1>9, <2>6, <3>1, <3>2, PathStays DEF Following
  <2>7. CASE p # PathOf(f)
    <3>1. row'[p] = row[p] /\ row[p] # f
      BY <1>7, <2>1, <2>3, <2>7
    <3> QED
      BY <2>6, <3>1
  <2>8. CASE p = PathOf(f) /\ e.content # Absent
    <3>1. row'[p] = f /\ observed'[f] = e.content
      BY <1>6, <2>1, <2>3, <2>8
    <3> QED
      BY <2>5, <3>1
  <2>9. CASE p = PathOf(f) /\ e.content = Absent /\ row[p] = f
    <3>1. row'[p] = f
      BY <1>6, <2>1, <2>3, <2>9
    <3>2. observed'[f] = e.content
      BY <1>6, <2>1, <2>3, <2>9 DEF Tracked
    <3> QED
      BY <2>5, <3>1, <3>2
  <2>10. CASE p = PathOf(f) /\ e.content = Absent /\ row[p] # f
    <3>1. row'[p] = row[p]
      BY <1>6, <2>1, <2>3, <2>10
    <3> QED
      BY <2>6, <2>10, <3>1
  <2> QED
    BY <2>7, <2>8, <2>9, <2>10
<1> QED
  BY <1>1, <1>10, <1>11, <1>12

LEMMA ApplyWorks ==
    ASSUME TypeOK, Following, Working, Apply
    PROVE  Working'
<1>1. TypeOK'
  BY ApplyFollows
<1>2. /\ gate # None /\ gate.at = "staged" /\ Finish(inbox)
      /\ UNCHANGED <<log, wire, inherited, scope, ops>>
      /\ conflicts \subseteq conflicts'
  BY DEF Apply, Running, Settled, server, ApplyNothing, ApplyConflict, ApplyRemote
<1>3. binding # None /\ inbox \in Nat
  BY <1>2, StagedRevision DEF Following, Tables, TypeOK
<1>4. binding' # None /\ binding'.remote = binding.remote /\ (initial = None => initial' = None)
  BY <1>2, <1>3, MoveCursorIs, NoneAssumption DEF Finish
<1>5. OneLive'
  BY <1>2, LogSame DEF Working
<1>6. Stages'
  <2> SUFFICES ASSUME NEW j \in queue'
               PROVE  /\ j.stage # "pending" => initial' = None /\ Enabled(PathOf(j.id))
                      /\ j.stage = "conflict" => PathOf(j.id) \in conflicts'
    BY <1>2, <1>4 DEF Stages, Enabled
  <2>1. PICK k \in queue :
           /\ Same(j, k) /\ (k.stage = "pending" => j.stage = "pending")
           /\ j.stage = "conflict" => k.stage = "conflict" \/ PathOf(j.id) \in conflicts'
    BY ApplyLeaves
  <2>2. j.id = k.id /\ (j.stage # "pending" => k.stage # "pending")
    BY <2>1 DEF Same
  <2>3. /\ k.stage # "pending" => initial = None /\ Enabled(PathOf(k.id))
        /\ k.stage = "conflict" => PathOf(k.id) \in conflicts
    BY DEF Working, Stages
  <2> QED
    BY <1>2, <1>4, <2>1, <2>2, <2>3
<1>7. SentFirst'
  BY <1>2, ApplyQueue, SentFirstKept DEF Working, Following
<1>8. Turn'
  BY ApplyType, NotSending DEF Following, Tables, Goes, Has, Sending
<1>9. Ahead'
  BY <1>1, ApplyAhead
<1>10. ASSUME NEW p \in Paths, Enabled(p), p \notin conflicts'
       PROVE  /\ DescribedAt(p) => DescribedAt(p)'
              /\ DescribedAt(p) /\ AgreedAt(p) => AgreedAt(p)'
  BY <1>1, <1>10, ApplyPath
<1>11. Described'
  BY <1>2, <1>3, <1>4, <1>10 DEF Working, Described, Enabled
<1>12. Agreed'
  BY <1>2, <1>3, <1>4, <1>10 DEF Working, Described, Agreed, Enabled
<1> QED
  BY <1>5, <1>6, <1>7, <1>8, <1>9, <1>11, <1>12 DEF Working
\* What a new revision leaves at its path.
LEMMA OneLiveGrows ==
    ASSUME TypeOK, OneLive, NEW r \in Remotes, NEW e \in Revisions, e.id \in Ids,
           log' = [log EXCEPT ![r] = Append(@, e)],
           e.content # Absent => LiveAt(r, PathOf(e.id)) \subseteq {e.id}
    PROVE  OneLive'
<1>1. LogsGrow /\ Len(log'[r]) = Len(log[r]) + 1 /\ \A x \in Remotes : x # r => log'[x] = log[x]
  BY AppendGrows
<1>2. \A x \in Remotes : Len(log[x]) \in Nat
  BY LogTypes
<1>3. log'[r][Len(log[r]) + 1] = e
  BY AppendGrows
<1>4. ASSUME NEW x \in Remotes, NEW n \in 0..Len(log[x]), NEW f \in Ids
      PROVE  ContentAt(x, Latest(x, f, n))' = ContentAt(x, Latest(x, f, n))
  <2>1. Latest(x, f, n)' = Latest(x, f, n)
    BY <1>1, <1>4, LatestStays
  <2>2. Latest(x, f, n) \in 0..Len(log[x])
    <3>1. n \in Nat /\ n <= Len(log[x])
      BY <1>2, <1>4
    <3>2. Latest(x, f, n) \in 0..n
      BY <3>1, LatestIs
    <3> QED
      BY <1>2, <3>1, <3>2
  <2> QED
    BY <1>1, <1>2, <2>1, <2>2 DEF ContentAt, LogsGrow
<1>5. \A f, g \in Ids : PathOf(f) = PathOf(g) /\ Current(r, f) # Absent /\ Current(r, g) # Absent
         => f = g
  <2>1. Len(log[r]) \in 0..Len(log[r])
    BY <1>2
  <2> QED
    BY <2>1 DEF OneLive, Current
<1>6. \A f \in Ids : Current(r, f) # Absent => f \in LiveAt(r, PathOf(f))
  BY DEF LiveAt, Ids, PathOf
<1>7. ASSUME NEW f \in Ids, NEW k \in Nat, k = Len(log[r]) + 1
      PROVE  ContentAt(r, Latest(r, f, k))' = IF f = e.id THEN e.content ELSE Current(r, f)
  <2>0. /\ f = e.id => Latest(r, f, k)' = k
        /\ f # e.id => Latest(r, f, k)' = Latest(r, f, Len(log[r]))
    <3> DEFINE S == {s \in 1..Len(log[r]) : log[r][s].id = f}
               T == {s \in 1..k : log'[r][s].id = f}
    <3>1. Len(log[r]) \in Nat /\ k = Len(log[r]) + 1
      BY <1>2, <1>7
    <3>2. log'[r][k] = e /\ \A s \in 1..Len(log[r]) : log'[r][s] = log[r][s]
      BY <1>1, <1>3, <1>7 DEF LogsGrow
    <3>3. f # e.id => T = S
      BY <3>1, <3>2
    <3>4. f = e.id => Max({0} \cup T) = k
      <4> SUFFICES ASSUME f = e.id
                   PROVE  Max({0} \cup T) = k
        OBVIOUS
      <4>1. {0} \cup T \subseteq 0..k /\ k \in {0} \cup T /\ k \in Nat
        BY <3>1, <3>2
      <4> HIDE DEF T
      <4>2. Max({0} \cup T) \in {0} \cup T /\ \A t \in {0} \cup T : t <= Max({0} \cup T)
        BY <4>1, MaxIsGreatest
      <4>3. Max({0} \cup T) \in 0..k /\ k <= Max({0} \cup T)
        BY <4>1, <4>2
      <4> QED
        BY <3>1, <4>1, <4>3
    <3>5. Latest(r, f, Len(log[r])) = Max({0} \cup S)
      BY DEF Latest
    <3>6. Latest(r, f, k)' = Max({0} \cup T)
      BY DEF Latest
    <3> HIDE DEF S, T
    <3> QED
      BY <3>3, <3>4, <3>5, <3>6
  <2>1. CASE f = e.id
    <3>1. Latest(r, f, k)' = k
      BY <2>0, <2>1
    <3> QED
      BY <1>2, <1>3, <1>7, <2>1, <3>1 DEF ContentAt
  <2>2. CASE f # e.id
    <3>1. Latest(r, f, k)' = Latest(r, f, Len(log[r]))
      BY <2>0, <2>2
    <3>2. Latest(r, f, Len(log[r])) \in 0..Len(log[r])
      BY <1>2, LatestIs
    <3> QED
      BY <1>1, <1>2, <2>2, <3>1, <3>2 DEF ContentAt, Current, LogsGrow
  <2> QED
    BY <2>1, <2>2
<1>8. ASSUME NEW x \in Remotes, NEW n \in 0..Len(log'[x]), NEW f \in Ids, NEW g \in Ids,
             PathOf(f) = PathOf(g), ContentAt(x, Latest(x, f, n))' # Absent,
             ContentAt(x, Latest(x, g, n))' # Absent
      PROVE  f = g
  <2>1. CASE n \in 0..Len(log[x])
    BY <1>4, <1>8, <2>1 DEF OneLive
  <2>2. CASE n \notin 0..Len(log[x])
    <3>1. x = r /\ n = Len(log[r]) + 1 /\ n \in Nat
      BY <1>1, <1>2, <1>8, <2>2
    <3>2. /\ (IF f = e.id THEN e.content ELSE Current(r, f)) # Absent
          /\ (IF g = e.id THEN e.content ELSE Current(r, g)) # Absent
      BY <1>7, <1>8, <3>1
    <3>3. CASE f = e.id
      BY <1>6, <1>8, <3>2, <3>3
    <3>4. CASE g = e.id
      BY <1>6, <1>8, <3>2, <3>4
    <3>5. CASE f # e.id /\ g # e.id
      BY <1>5, <1>8, <3>2, <3>5
    <3> QED
      BY <3>3, <3>4, <3>5
  <2> QED
    BY <2>1, <2>2
<1> QED
  BY <1>8 DEF OneLive
\* The servers' logs grow, by what was on the wire or by other devices' revisions.
LEMMA ServedWorks ==
    ASSUME TypeOK, TypeOK', Following, Working, LogsGrow, OneLive',
           \A j \in queue : Sent(j.op)' => Sent(j.op),
           UNCHANGED <<queue, row, observed, binding, initial, heads, conflicts, inherited,
                       scope>>,
           \/ gate' # None => gate'.at \notin Sending
           \/ /\ gate # None /\ gate' # None /\ gate'.op = gate.op
              /\ gate.at \in Sending /\ gate'.at \in Sending
    PROVE  Working'
<1>1. Stages' /\ SentFirst'
  BY DEF Working, Stages, SentFirst, Enabled, First
<1>2. Turn'
  BY DEF Working, Turn, First
<1>3. Described'
  BY DEF Working, Described, DescribedAt, Newest, Enabled
<1>4. Agreed'
  <2> SUFFICES ASSUME binding # None, NEW p \in Paths, AgreedAt(p)
               PROVE  AgreedAt(p)'
    BY DEF Working, Agreed, Enabled
  <2>1. SameJobs(row[p])
    BY QueueSame
  <2> QED
    BY <2>1, PathStays DEF Following
<1>5. Ahead'
  <2> SUFFICES ASSUME binding # None, NEW j \in queue, j.stage # "conflict",
                      NEW s \in 1..Len(log'[binding.remote]),
                      log'[binding.remote][s].by = j.op
               PROVE  binding.cursor < s /\ heads[j.id] < s
    BY DEF Ahead
  <2>1. binding.remote \in Remotes /\ binding.cursor \in Nat
    BY DEF TypeOK, Bindings
  <2>2. Len(log[binding.remote]) \in Nat /\ Len(log'[binding.remote]) \in Nat
    BY <2>1, LogTypes DEF TypeOK
  <2>3. CASE s \in 1..Len(log[binding.remote])
    BY <2>1, <2>3 DEF Working, Ahead, LogsGrow
  <2>4. CASE s \notin 1..Len(log[binding.remote])
    <3>1. s \in Nat /\ Len(log[binding.remote]) < s
      BY <2>2, <2>4
    <3>2. binding.cursor <= Len(log[binding.remote])
      BY DEF Following, Tables, Positions
    <3>3. j.id \in Ids
      <4>1. j \in Jobs
        BY DEF TypeOK
      <4> QED
        BY <4>1, JobFields
    <3>4. heads[j.id] \in Nat /\ heads[j.id] <= Len(log[binding.remote])
      <4>1. heads[j.id] \in Nat
        BY <3>3 DEF TypeOK
      <4>2. heads[j.id] # 0 => heads[j.id] <= Len(log[binding.remote])
        BY <3>3 DEF Following, Tables, CursorAndHeads
      <4> QED
        BY <2>2, <4>1, <4>2
    <3> QED
      BY <2>1, <2>2, <3>1, <3>2, <3>4
  <2> QED
    BY <2>3, <2>4
<1> QED
  BY <1>1, <1>2, <1>3, <1>4, <1>5 DEF Working

LEMMA ServeWorks ==
    ASSUME TypeOK, Following, Working, NEW m \in wire, Serve(m)
    PROVE  Working'
<1> DEFINE e == [id |-> m.id, content |-> m.content, by |-> m.op]
<1>1. /\ TypeOK' /\ LogsGrow /\ wire' = wire \ {m} /\ m \in Commits
      /\ UNCHANGED <<peers, files, queue, merging, binding, scope, ops>>
      /\ \/ log' = log
         \/ Acceptable(m) /\ log' = [log EXCEPT ![m.remote] = Append(@, e)]
  BY ServeType
<1>2. UNCHANGED <<queue, row, observed, binding, initial, heads, conflicts, inherited, scope>>
  BY <1>1 DEF merging, files
<1>3. m.remote \in Remotes /\ m.id \in Ids /\ m.content \in Hashes /\ m.op \in Nat
  BY <1>1 DEF Commits
<1>4. e \in Revisions /\ e.id = m.id /\ e.content = m.content /\ e.by = m.op
  BY <1>3 DEF Revisions
<1> HIDE DEF e
<1>5. OneLive'
  <2>1. CASE log' = log
    BY <2>1, LogSame DEF Working
  <2>2. CASE Acceptable(m) /\ log' = [log EXCEPT ![m.remote] = Append(@, e)]
    <3>1. e.content # Absent => LiveAt(m.remote, PathOf(e.id)) \subseteq {e.id}
      BY <1>4, <2>2 DEF Acceptable
    <3> QED
      BY <1>3, <1>4, <2>2, <3>1, OneLiveGrows DEF Working
  <2> QED
    BY <1>1, <2>1, <2>2
<1>6. \A j \in queue : Sent(j.op)' => Sent(j.op)
  <2>1. \A r \in Remotes : \A s \in 1..Len(log'[r]) :
           \/ s \in 1..Len(log[r]) /\ log'[r][s] = log[r][s]
           \/ log'[r][s].by = m.op
    <3>1. CASE log' = log
      BY <3>1
    <3>2. CASE log' = [log EXCEPT ![m.remote] = Append(@, e)]
      BY <1>3, <1>4, <3>2, AppendedLog
    <3> QED
      BY <1>1, <3>1, <3>2
  <2> QED
    BY <1>1, <2>1 DEF Sent
<1>7. \/ gate' # None => gate'.at \notin Sending
      \/ /\ gate # None /\ gate' # None /\ gate'.op = gate.op
         /\ gate.at \in Sending /\ gate'.at \in Sending
  <2>1. CASE SameGate
    BY <2>1, SameGateIdle
  <2>2. CASE /\ gate # None
             /\ \E reply \in {"accepted", "rejected"} :
                  Has(gate', gate.at, gate.binding, gate.remote, gate.seen, gate.todo,
                      gate.op, reply)
    <3>1. gate' \in Holders /\ gate'.at = gate.at /\ gate'.op = gate.op
      BY <2>2 DEF Has
    <3>2. gate' # None
      BY <3>1, NoneAssumption
    <3> QED
      BY <2>2, <3>1, <3>2
  <2> QED
    BY <2>1, <2>2, ServeType
<1> QED
  BY <1>1, <1>2, <1>5, <1>6, <1>7, ServedWorks

LEMMA OtherCommitWorks ==
    ASSUME TypeOK, Following, Working, NEW r \in Remotes, NEW p \in Paths, NEW c \in Hashes,
           OtherCommit(r, p, c)
    PROVE  Working'
<1> DEFINE f == Elsewhere(r, p)
           e == [id |-> f, content |-> c, by |-> 0]
<1>1. /\ TypeOK' /\ LogsGrow /\ f \in Ids /\ PathOf(f) = p /\ e \in Revisions
      /\ log' = [log EXCEPT ![r] = Append(@, e)]
      /\ UNCHANGED <<wire, peers, session, files, queue, merging, state, preview, gate,
                     activity, ops>>
  BY OtherCommitType
<1>2. UNCHANGED <<wire, gate, queue, row, observed, binding, initial, heads, conflicts,
                  inherited, scope>>
  BY <1>1 DEF merging, files, state
<1>3. e.id = f /\ e.by = 0
  OBVIOUS
<1>4. LiveAt(r, p) \subseteq {f}
  <2> SUFFICES ASSUME NEW g \in LiveAt(r, p)
               PROVE  g = f
    OBVIOUS
  <2>1. f \in LiveAt(r, p)
    BY DEF Elsewhere
  <2>2. /\ g \in Ids /\ f \in Ids /\ PathOf(g) = PathOf(f)
        /\ Current(r, g) # Absent /\ Current(r, f) # Absent
    BY <2>1 DEF LiveAt, Ids, PathOf
  <2>3. Len(log[r]) \in 0..Len(log[r])
    <3>1. Len(log[r]) \in Nat
      BY LogTypes
    <3> QED
      BY <3>1
  <2> QED
    BY <2>2, <2>3 DEF Working, OneLive, Current
<1> HIDE DEF e, f
<1>5. OneLive'
  BY <1>1, <1>3, <1>4, OneLiveGrows DEF Working
<1>6. \A j \in queue : Sent(j.op)' => Sent(j.op)
  <2>1. \A j \in queue : j.op # 0
    <3>1. \A j \in queue : j \in Jobs
      BY DEF TypeOK
    <3> QED
      BY <3>1, JobFields DEF Following, Operations
  <2>2. \A x \in Remotes : \A s \in 1..Len(log'[x]) :
           \/ s \in 1..Len(log[x]) /\ log'[x][s] = log[x][s]
           \/ log'[x][s].by = 0
    BY <1>1, <1>3, AppendedLog
  <2> QED
    BY <1>2, <2>1, <2>2 DEF Sent
<1>7. SameGate
  BY <1>2, UnchangedSame
<1>8. \/ gate' # None => gate'.at \notin Sending
      \/ /\ gate # None /\ gate' # None /\ gate'.op = gate.op
         /\ gate.at \in Sending /\ gate'.at \in Sending
  BY <1>7, SameGateIdle
<1> QED
  BY <1>1, <1>2, <1>5, <1>6, <1>8, ServedWorks
\* A bind, or one that stops: what is queued was not sent.
LEMMA BoundWorks ==
    ASSUME TypeOK, TypeOK', Following, Working, binding = None, gate' = None,
           UNCHANGED <<log, wire>>, Derived(queue', ops'),
           Stages', Described', Agreed'
    PROVE  Working'
<1>1. OneLive' /\ SentFirst' /\ Turn'
  BY LogSame, SentFirstKept, NotSending DEF Following, Working
<1>2. ASSUME NEW j \in queue', NEW r \in Remotes, NEW s \in 1..Len(log[r]), log[r][s].by = j.op
      PROVE  FALSE
  <2>1. log[r][s].by \in Nat /\ log[r][s].by <= ops /\ ops \in Nat
    BY <1>2, LogTypes DEF Following, Operations, TypeOK
  <2>2. PICK k \in queue : Same(j, k)
    BY <1>2, <2>1 DEF Derived
  <2>3. Sent(k.op)
    BY <1>2, <2>2 DEF Sent, Same
  <2> QED
    BY <2>3 DEF Following, Owned
<1>3. binding' # None => binding'.remote \in Remotes
  BY DEF TypeOK, Bindings
<1>4. CASE binding' = None
  BY <1>1, <1>4 DEF Working, Ahead
<1>5. CASE binding' # None /\ binding'.remote \in Remotes
  <2>1. Ahead'
    BY <1>2, <1>5 DEF Ahead
  <2> QED
    BY <1>1, <2>1 DEF Working
<1> QED
  BY <1>3, <1>4, <1>5

LEMMA UnbindWorks ==
    ASSUME TypeOK, Following, Working, Unbind
    PROVE  Working'
<1>1. queue' = {} /\ binding' = None /\ log' = log
  BY DEF Unbind, server
<1>2. OneLive'
  BY <1>1, LogSame DEF Working
<1>3. Stages' /\ SentFirst' /\ Turn' /\ Ahead' /\ Described' /\ Agreed'
  BY <1>1 DEF Stages, SentFirst, Turn, Ahead, Described, DescribedAt, Agreed
<1> QED
  BY <1>2, <1>3 DEF Working

\* A path without a file that no earlier observation gives one.
LEMMA NothingThere ==
    ASSUME TypeOK, FreshTables, NEW p \in Paths, Enabled(p), p \notin inherited',
           p \notin LocalPaths
    PROVE  disk[p] = Absent /\ observed[row[p]] = Absent
  BY DEF FreshTables, LocalPaths

\* A new binding that knows of no revision.
LEMMA NothingBelieved ==
    ASSUME NEW f \in Ids, heads' = [g \in Ids |-> 0]
    PROVE  Believed(f)' = Absent
  BY DEF Believed, ContentAt

LEMMA BindDownloadWorks ==
    ASSUME TypeOK, Following, Working, BindDownload
    PROVE  Working'
<1>1. TypeOK'
  BY BindDownloadType
<1>2. /\ gate # None /\ gate.at \in Modes /\ FreshTables /\ LocalPaths = {}
      /\ UNCHANGED <<log, wire, row, observed, scope>>
      /\ heads' = [f \in Ids |-> 0] /\ queue' = {} /\ ops' = ops
  BY DEF BindDownload, server, files, Modes
<1>3. Derived(queue', ops')
  BY <1>2, QueueDerived DEF Following
<1>4. gate' = None /\ binding = None
  BY <1>2, FreshIs DEF Following, Gates
<1>5. Stages' /\ Described'
  BY <1>2 DEF Stages, Described, DescribedAt
<1>6. Agreed'
  <2> SUFFICES ASSUME NEW p \in Paths, Enabled(p), p \notin inherited'
               PROVE  Believed(row[p])' = observed[row[p]]
    BY <1>2 DEF Agreed, AgreedAt, Enabled, Believed
  <2>1. row[p] \in Ids /\ observed[row[p]] = Absent
    BY <1>2, NothingThere DEF TypeOK
  <2> QED
    BY <1>2, <2>1, NothingBelieved DEF Believed
<1> QED
  BY <1>1, <1>2, <1>3, <1>4, <1>5, <1>6, BoundWorks

LEMMA BindUploadStopsWorks ==
    ASSUME TypeOK, Following, Working, NEW S \in SUBSET Paths, BindUploadStops(S)
    PROVE  Working'
<1>1. /\ TypeOK' /\ gate' = None
      /\ Numbered(Puts(S, ops), ops, ops')
      /\ queue' = Carried \cup Puts(S, ops)
      /\ UNCHANGED <<log, wire, row, binding, initial, conflicts, scope>>
      /\ observed' = ObservedNow(S)
      /\ gate # None /\ gate.at \in Modes
  BY BindUploadStopsType DEF BindUploadStops, server, merging, Modes
<1>2. binding = None /\ ops \in Nat
  BY <1>1 DEF Following, Gates, TypeOK
<1>3. Derived(queue', ops')
  <2>1. Derived(Carried, ops)
    BY QueueDerived DEF Following, Carried
  <2> QED
    BY <1>1, <2>1, MoreDerived DEF Following
<1>4. Kin(queue')
  BY <1>1 DEF Kin, Carried, Same, Numbered
<1>5. Stages'
  BY <1>1, <1>4, StagesKept DEF Working
<1>6. Covers(Puts(S, ops), S, row, disk)
  BY <1>2, PutsAre
<1>7. ASSUME NEW p \in Paths
      PROVE  DescribedAt(p)'
  <2>1. row[p] \in Ids /\ PathOf(row[p]) = p /\ queue' \subseteq Jobs
    BY <1>1 DEF TypeOK
  <2>2. CASE p \in S
    <3>1. \E n \in queue' : n.id = row[p] /\ ops < n.op
      BY <1>1, <1>6, <2>2 DEF Covers, Numbered
    <3>2. \A j \in queue' : j.id = row[p] /\ ops < j.op => j.content = disk[p]
      <4> SUFFICES ASSUME NEW j \in queue', j.id = row[p], ops < j.op
                   PROVE  j.content = disk[p]
        OBVIOUS
      <4>1. j \notin queue
        <5>1. \A k \in queue : k \in Jobs
          BY DEF TypeOK
        <5> QED
          BY <1>2, <5>1, JobFields DEF Following, Operations
      <4>2. PICK q \in S : j.id = row[q] /\ j.content = disk[q]
        BY <1>1, <1>6, <4>1 DEF Carried, Covers
      <4> QED
        BY <4>2, RowsDiffer
    <3>3. \A j \in queue' : j.id = row[p] /\ Newest(j)' => j.content = disk[p]
      BY <1>2, <2>1, <3>1, <3>2, MadeDescribes
    <3>4. observed'[row'[p]] = disk[p]
      BY <1>1, <2>1, <2>2 DEF ObservedNow
    <3> QED
      BY <1>1, <3>3, <3>4 DEF DescribedAt
  <2>3. CASE p \notin S
    <3>1. observed'[row[p]] = observed[row[p]]
      BY <1>1, <2>1, <2>3 DEF ObservedNow
    <3>2. \A j \in Puts(S, ops) : j.id # row[p]
      BY <1>6, <2>3, RowsDiffer DEF Covers
    <3>3. CASE bindings > 0
      BY <1>1, <3>2, <3>3 DEF DescribedAt, Carried
    <3>4. CASE ~(bindings > 0)
      <4>1. SameJobs(row[p])
        BY <1>1, <3>2, <3>4 DEF SameJobs, Same, Carried
      <4>2. DescribedAt(p)
        BY <1>2 DEF Working, Described
      <4> QED
        BY <1>1, <3>1, <4>1, <4>2, SameJobsKeep
    <3> QED
      BY <3>3, <3>4
  <2> QED
    BY <2>2, <2>3
<1>8. Described' /\ Agreed'
  BY <1>1, <1>2, <1>7 DEF Described, Agreed
<1> QED
  BY <1>1, <1>2, <1>3, <1>5, <1>8, BoundWorks
LEMMA BindUploadWorks ==
    ASSUME TypeOK, Following, Working, BindUpload
    PROVE  Working'
<1>1. /\ TypeOK' /\ gate' = None
      /\ Numbered(Puts(Unqueued, ops), ops, ops')
      /\ UploadQueue \subseteq Jobs /\ queue' = Captured(UploadQueue)
      /\ FreshTables /\ UNCHANGED <<log, wire, row, scope>>
      /\ observed' = ObservedNow(Unqueued) /\ initial' = None
      /\ heads' = [f \in Ids |-> 0]
      /\ gate # None /\ gate.at \in Modes
  BY BindUploadType DEF BindUpload, Following, server, Modes
<1>2. binding = None /\ ops \in Nat /\ Unqueued \in SUBSET Paths
  BY <1>1 DEF Following, Gates, TypeOK, Unqueued, LocalPaths
<1>3. Derived(queue', ops')
  <2>1. Derived(Carried, ops)
    BY QueueDerived DEF Following, Carried
  <2>2. Derived(Carried \cup Puts(Unqueued, ops), ops')
    BY <1>1, <2>1, MoreDerived DEF Following
  <2>3. Derived(UploadQueue, ops')
    BY <2>2, PartDerived DEF UploadQueue, InScope
  <2> QED
    BY <1>1, <2>3, CapturedDerived
<1>4. binding' # None
  BY <1>1, BindRemote, NewBindingIs DEF BindUpload, Following
<1>5. Covers(Puts(Unqueued, ops), Unqueued, row, disk)
  BY <1>2, PutsAre
<1>6. /\ \A k \in UploadQueue : k.stage = "pending" /\ Enabled(PathOf(k.id))
      /\ \A k \in Carried \cup Puts(Unqueued, ops) :
            Enabled(PathOf(k.id)) => k \in UploadQueue
  <2>1. \A k \in Carried : k.stage = "pending"
    BY <1>2 DEF Carried, Working, Stages
  <2>2. \A k \in Puts(Unqueued, ops) : k.stage = "pending"
    BY <1>1 DEF Numbered
  <2> QED
    BY <2>1, <2>2 DEF UploadQueue, InScope
<1>7. /\ \A j \in queue' : j.stage = "queued" /\ \E k \in UploadQueue : Same(j, k)
      /\ \A k \in UploadQueue : \E j \in queue' : Same(j, k)
  BY <1>1, <1>6, CapturedAre
<1>8. Stages'
  <2>1. \A j \in queue' : j.stage = "queued" /\ Enabled(PathOf(j.id))
    BY <1>6, <1>7 DEF Same
  <2> QED
    BY <1>1, <1>4, <2>1 DEF Stages, Enabled
<1>9. \A k \in queue : k.op <= ops /\ k.op \in Nat
  <2>1. \A k \in queue : k \in Jobs
    BY DEF TypeOK
  <2> QED
    BY <2>1, JobFields DEF Following, Operations
\* A path whose file gets a new job.
<1>10. ASSUME NEW p \in Unqueued
       PROVE  DescribedAt(p)' /\ Queued(row[p])'
  <2>1. /\ p \in Paths /\ Enabled(p) /\ row[p] \in Ids /\ PathOf(row[p]) = p
        /\ queue' \subseteq Jobs
    BY <1>1, <1>2 DEF TypeOK, Unqueued, LocalPaths
  <2>2. \E n \in queue' : n.id = row[p] /\ ops < n.op
    <3>1. PICK k \in Puts(Unqueued, ops) : k.id = row[p] /\ ops < k.op
      BY <1>1, <1>5, <1>10 DEF Covers, Numbered
    <3>2. k \in UploadQueue
      BY <1>6, <2>1, <3>1
    <3> QED
      BY <1>7, <3>1, <3>2 DEF Same
  <2>3. \A j \in queue' : j.id = row[p] /\ ops < j.op => j.content = disk[p]
    <3> SUFFICES ASSUME NEW j \in queue', j.id = row[p], ops < j.op
                 PROVE  j.content = disk[p]
      OBVIOUS
    <3>1. PICK k \in UploadQueue : Same(j, k)
      BY <1>7
    <3>2. k \notin queue
      BY <1>2, <1>9, <3>1 DEF Same
    <3>3. k \in Puts(Unqueued, ops)
      BY <3>1, <3>2 DEF UploadQueue, InScope, Carried
    <3>4. PICK q \in Unqueued : k.id = row[q] /\ k.content = disk[q]
      BY <1>5, <3>3 DEF Covers
    <3>5. q = p
      BY <1>2, <1>10, <3>1, <3>4, RowsDiffer DEF Same
    <3> QED
      BY <3>1, <3>4, <3>5 DEF Same
  <2>4. \A j \in queue' : j.id = row[p] /\ Newest(j)' => j.content = disk[p]
    BY <1>2, <2>1, <2>2, <2>3, MadeDescribes
  <2>5. observed'[row'[p]] = disk[p]
    BY <1>1, <1>10, <2>1 DEF ObservedNow
  <2> QED
    BY <1>1, <2>2, <2>4, <2>5 DEF DescribedAt, Queued
\* Elsewhere the carried jobs stay.
<1>11. ASSUME NEW p \in Paths, Enabled(p), p \notin Unqueued
       PROVE  /\ DescribedAt(p)' /\ observed'[row[p]] = observed[row[p]]
              /\ ~(bindings > 0) => SameJobs(row[p])
  <2>1. row[p] \in Ids /\ PathOf(row[p]) = p
    BY DEF TypeOK
  <2>2. observed'[row[p]] = observed[row[p]]
    BY <1>1, <1>11, <2>1 DEF ObservedNow
  <2>3. \A j \in Puts(Unqueued, ops) : j.id # row[p]
    BY <1>2, <1>5, <1>11, RowsDiffer DEF Covers
  <2>4. CASE bindings > 0
    <3>1. \A j \in queue' : j.id # row[p]
      BY <1>7, <2>3, <2>4 DEF Same, UploadQueue, InScope, Carried
    <3> QED
      BY <1>1, <2>2, <2>4, <3>1 DEF DescribedAt
  <2>5. CASE ~(bindings > 0)
    <3>1. Carried = queue
      BY <2>5 DEF Carried
    <3>2. \A j \in queue' : j.id = row[p] => \E k \in queue : Same(j, k)
      BY <1>7, <2>3, <3>1 DEF Same, UploadQueue, InScope
    <3>3. \A k \in queue : k.id = row[p] => \E j \in queue' : Same(j, k)
      BY <1>6, <1>7, <1>11, <2>1, <3>1
    <3>4. SameJobs(row[p])
      BY <3>2, <3>3 DEF SameJobs
    <3>5. DescribedAt(p)
      BY <1>2 DEF Working, Described
    <3> QED
      BY <1>1, <2>2, <3>4, <3>5, SameJobsKeep
  <2> QED
    BY <2>4, <2>5
<1>12. Described'
  BY <1>1, <1>4, <1>10, <1>11 DEF Described, Enabled
<1>13. Agreed'
  <2> SUFFICES ASSUME NEW p \in Paths, Enabled(p), p \notin inherited', p \notin Unqueued
               PROVE  AgreedAt(p)'
    BY <1>1, <1>10 DEF Agreed, AgreedAt, Enabled
  <2>1. CASE p \in LocalPaths
    <3>1. ~(bindings > 0) /\ Waiting(p)
      BY <2>1 DEF Unqueued
    <3>2. Queued(row[p]) /\ SameJobs(row[p])
      BY <1>11, <3>1 DEF Waiting, Queued
    <3> QED
      BY <1>1, <3>2 DEF AgreedAt, Queued, SameJobs, Same
  <2>2. CASE p \notin LocalPaths
    <3>1. observed[row[p]] = Absent
      BY <1>1, <2>2, NothingThere
    <3>2. observed'[row[p]] = Absent
      BY <1>11, <3>1
    <3>3. row[p] \in Ids
      BY DEF TypeOK
    <3>4. Believed(row[p])' = Absent
      BY <1>1, <3>3 DEF Believed, ContentAt
    <3> QED
      BY <1>1, <3>2, <3>4 DEF AgreedAt, Believed
  <2> QED
    BY <2>1, <2>2
<1> QED
  BY <1>1, <1>2, <1>3, <1>8, <1>12, <1>13, BoundWorks
\* A file the snapshot has with the same content: the identity the path takes is
\* the one of its only item there, with that content.
LEMMA IdenticalIs ==
    ASSUME TypeOK, OneLive, NEW r \in Remotes, NEW n \in 0..Len(log[r]),
           NEW p \in Identical(r, n)
    PROVE  \E s \in Items(r, n) :
              /\ s \in 1..n /\ Adopted(r, n, p) = log[r][s].id
              /\ Latest(r, Adopted(r, n, p), n) = s /\ log[r][s].content = disk[p]
<1>1. PICK s \in ItemsAt(r, n, p) : log[r][s].content = disk[p]
  BY DEF Identical
<1>2. p \in Paths /\ Len(log[r]) \in Nat
  BY LogTypes DEF Identical, LocalPaths
<1>3. n \in Nat /\ \A t \in 1..n : log[r][t] \in Revisions /\ log[r][t].id \in Ids
  BY <1>2, LogTypes
<1>4. PICK t \in ItemsAt(r, n, p) : Adopted(r, n, p) = log[r][t].id
  BY <1>1, <1>2, <1>3, AdoptedIs
<1>5. \A i \in {s, t} : /\ i \in 1..n /\ i \in Items(r, n) /\ log[r][i].id \in Ids
                        /\ Latest(r, log[r][i].id, n) = i
                        /\ log[r][i].content # Absent /\ PathOf(log[r][i].id) = p
  BY <1>1, <1>3, <1>4 DEF ItemsAt, Items
<1>6. \A i \in {s, t} : ContentAt(r, Latest(r, log[r][i].id, n)) # Absent
  BY <1>3, <1>5 DEF ContentAt
<1>7. log[r][s].id = log[r][t].id
  BY <1>5, <1>6 DEF OneLive
<1>8. s = t
  BY <1>5, <1>7
<1> QED
  BY <1>1, <1>4, <1>5, <1>8

LEMMA BindMergeWorks ==
    ASSUME TypeOK, Following, Working, BindMerge
    PROVE  Working'
<1> DEFINE r == gate.remote
           n == gate.seen
<1>1. /\ TypeOK' /\ gate' = None /\ gate # None /\ gate.at \in Modes
      /\ FreshTables /\ UNCHANGED <<log, wire, disk, scope>>
  BY BindMergeType DEF BindMerge, Following, server, Modes
<1>2. /\ r \in Remotes /\ n \in 0..Len(log[r]) /\ n \in Nat /\ Len(log[r]) \in Nat
      /\ \A s \in 1..n : log[r][s] \in Revisions
  BY <1>1, BindRemote DEF Following
<1>3. /\ binding' = NewBinding(r, IF Items(r, n) = {} THEN n ELSE 0)
      /\ row' = [p \in Paths |-> IF p \in LocalPaths THEN Adopted(r, n, p) ELSE row[p]]
      /\ observed' = [f \in Ids |->
            IF PathOf(f) \notin LocalPaths THEN observed[f]
            ELSE IF f = Adopted(r, n, PathOf(f)) THEN disk[PathOf(f)]
            ELSE IF f = row[PathOf(f)] THEN Absent ELSE observed[f]]
      /\ heads' = [f \in Ids |->
            IF Latest(r, f, n) \in Items(r, n) /\ PathOf(f) \notin Identical(r, n) THEN 0
            ELSE Latest(r, f, n)]
      /\ queue' = MergeJobs(r, n) /\ ops' = ops + Cardinality(Different(r, n))
  BY DEF BindMerge
<1> HIDE DEF r, n
<1>4. binding = None /\ ops \in Nat
  BY <1>1 DEF Following, Gates, TypeOK
<1>5. /\ Numbered(queue', ops, ops')
      /\ \A j \in queue' : \E p \in Different(r, n) :
            j.id = Adopted(r, n, p) /\ j.content = disk[p]
      /\ \A p \in Different(r, n) : \E j \in queue' : j.id = Adopted(r, n, p)
  BY <1>2, <1>3, MergeJobsAre
<1>6. binding' # None /\ binding'.remote = r
  BY <1>2, <1>3, NewBindingIs
<1>7. Derived(queue', ops')
  <2>1. Derived({}, ops)
    BY QueueDerived DEF Following
  <2>2. Derived({} \cup queue', ops')
    BY <1>5, <2>1, MoreDerived DEF Following
  <2>3. {} \cup queue' = queue'
    OBVIOUS
  <2> QED
    BY <2>2, <2>3
<1>8. Stages'
  BY <1>5 DEF Stages, Numbered
<1>9. \A p \in Paths : /\ Adopted(r, n, p) \in Ids /\ PathOf(Adopted(r, n, p)) = p
                       /\ row[p] \in Ids /\ PathOf(row[p]) = p
  BY <1>2, AdoptedIs DEF TypeOK
<1>10. \A p \in LocalPaths : /\ p \in Paths /\ row'[p] = Adopted(r, n, p)
                             /\ observed'[row'[p]] = disk[p]
  BY <1>3, <1>9 DEF LocalPaths
<1>11. Different(r, n) \subseteq LocalPaths /\ Different(r, n) \cup Identical(r, n) = LocalPaths
  BY DEF Different, Identical
<1>12. Described'
  <2> SUFFICES ASSUME NEW p \in Paths, NEW j \in queue', j.id = row'[p]
               PROVE  j.content = observed'[row'[p]]
    BY DEF Described, DescribedAt
  <2>1. PICK q \in Different(r, n) : j.id = Adopted(r, n, q) /\ j.content = disk[q]
    BY <1>5
  <2>2. q \in LocalPaths /\ q \in Paths /\ PathOf(j.id) = q
    BY <1>9, <1>10, <1>11, <2>1
  <2>3. PathOf(row'[p]) = p
    BY <1>3, <1>9
  <2>4. q = p
    BY <2>2, <2>3
  <2> QED
    BY <1>10, <2>1, <2>2, <2>4
<1>13. Agreed'
  <2> SUFFICES ASSUME NEW p \in Paths, Enabled(p), p \notin inherited'
               PROVE  AgreedAt(p)'
    BY <1>1 DEF Agreed, Enabled
  <2>1. CASE p \in Different(r, n)
    BY <1>5, <1>10, <1>11, <2>1 DEF AgreedAt, Queued
  <2>2. CASE p \in Identical(r, n)
    <3>1. PICK s \in Items(r, n) :
             /\ s \in 1..n /\ Adopted(r, n, p) = log[r][s].id
             /\ Latest(r, Adopted(r, n, p), n) = s /\ log[r][s].content = disk[p]
      BY <1>2, <2>2, IdenticalIs DEF Working
    <3>2. row'[p] = Adopted(r, n, p) /\ observed'[row'[p]] = disk[p] /\ row'[p] \in Ids
          /\ PathOf(row'[p]) = p
      BY <1>9, <1>10, <1>11, <2>2
    <3>3. heads'[row'[p]] = s
      BY <1>3, <2>2, <3>1, <3>2
    <3>4. s # 0
      BY <1>2, <3>1
    <3> QED
      BY <1>1, <1>6, <3>1, <3>2, <3>3, <3>4 DEF AgreedAt, Believed, ContentAt
  <2>3. CASE p \notin LocalPaths
    <3>1. observed[row[p]] = Absent
      BY <1>1, <2>3, NothingThere
    <3>2. /\ row'[p] = row[p] /\ observed'[row'[p]] = Absent /\ row[p] \in Ids
          /\ p \notin Identical(r, n) /\ PathOf(row[p]) = p
      BY <1>3, <1>9, <1>11, <2>3, <3>1
    <3>3. CASE Latest(r, row[p], n) \in Items(r, n)
      <4>1. heads'[row'[p]] = 0
        BY <1>3, <3>2, <3>3
      <4> QED
        BY <3>2, <4>1 DEF AgreedAt, Believed, ContentAt
    <3>4. CASE Latest(r, row[p], n) = 0
      <4>1. heads'[row'[p]] = 0
        BY <1>3, <3>2, <3>4
      <4> QED
        BY <3>2, <4>1 DEF AgreedAt, Believed, ContentAt
    <3>5. CASE Latest(r, row[p], n) \notin Items(r, n) /\ Latest(r, row[p], n) # 0
      <4>1. PICK s \in Nat : s = Latest(r, row[p], n) /\ s \in 1..n /\ log[r][s].id = row[p]
        BY <1>2, <3>5, LatestIs
      <4>2. log[r][s].content = Absent
        BY <3>5, <4>1 DEF Items
      <4>3. heads'[row'[p]] = s /\ s # 0
        BY <1>3, <3>2, <3>5, <4>1
      <4> QED
        BY <1>1, <1>6, <3>2, <4>2, <4>3 DEF AgreedAt, Believed, ContentAt
    <3> QED
      BY <3>3, <3>4, <3>5
  <2> QED
    BY <1>11, <2>1, <2>2, <2>3
<1> QED
  BY <1>1, <1>4, <1>7, <1>8, <1>12, <1>13, BoundWorks
LEMMA InitWorks ==
    ASSUME Init
    PROVE  Working
<1>1. /\ queue = {} /\ binding = None /\ gate = None
  BY DEF Init
<1>2. OneLive
  <2> SUFFICES ASSUME NEW r \in Remotes, NEW n \in 0..Len(log[r]), NEW f \in Ids, NEW g \in Ids,
                      PathOf(f) = PathOf(g), ContentAt(r, Latest(r, f, n)) # Absent,
                      ContentAt(r, Latest(r, g, n)) # Absent
               PROVE  f = g
    BY DEF OneLive
  <2>1. Len(log[r]) \in Nat /\ n \in Nat /\ \A s \in 1..Len(log[r]) : log[r][s].id \in {r} \X Paths
    BY InitFollows, LogTypes, FirstLogs
  <2>2. ASSUME NEW h \in Ids, ContentAt(r, Latest(r, h, n)) # Absent
        PROVE  h \in {r} \X Paths
    <3>1. PICK k \in 0..n : /\ k = Latest(r, h, n)
                            /\ k # 0 => log[r][k].id = h
      BY <2>1, LatestIs
    <3>2. k # 0
      BY <2>2, <3>1 DEF ContentAt
    <3> QED
      BY <2>1, <3>1, <3>2
  <2>3. f \in {r} \X Paths /\ g \in {r} \X Paths
    BY <2>2
  <2> QED
    BY <2>3 DEF PathOf
<1> QED
  BY <1>1, <1>2
     DEF Working, Stages, SentFirst, Turn, Ahead, Described, DescribedAt, Agreed

LEMMA NextWorks ==
    ASSUME TypeOK, Following, Working, Next
    PROVE  Working'
<1>1. CASE Person
  <2>1. CASE \E p \in Paths, c \in Hashes : Edit(p, c)
    BY <2>1, EditWorks
  <2>2. CASE \/ \E r \in Remotes, mode \in Modes : AskRemote(mode, r)
             \/ Run(TRUE)
    BY <2>2, PassWorks
  <2>3. CASE Unbind
    BY <2>3, UnbindWorks
  <2>4. CASE SetScope
    BY <2>4, SetScopeWorks
  <2>5. CASE \/ \E p \in Paths, c \in Hashes : OutsideEdit(p, c)
             \/ Login \/ Logout \/ RevokeDevice \/ Pause
             \/ \E r \in Remotes : Preview(r)
    BY <2>5, OutsideWorks
  <2> QED
    BY <1>1, <2>1, <2>2, <2>3, <2>4, <2>5 DEF Person, Modes
<1>2. CASE Binding
  BY <1>2, BindMergeWorks, BindUploadWorks, BindDownloadWorks, OutsideWorks DEF Binding
<1>3. CASE Cycle
  BY <1>3, PassWorks, DiscoverWorks, ApplyWorks, PushWorks, CommitWorks, AckWorks
     DEF Cycle, Ends
<1>4. CASE Run(FALSE) \/ Elapse
  BY <1>4, PassWorks, OutsideWorks
<1>5. CASE Environment
  <2>1. CASE \E m \in wire : Serve(m)
    BY <2>1, ServeWorks
  <2>2. CASE \E r \in Remotes, p \in Paths, c \in Hashes : OtherCommit(r, p, c)
    BY <2>2, OtherCommitWorks
  <2>3. CASE \E S \in SUBSET Paths : BindUploadStops(S)
    BY <2>3, BindUploadStopsWorks
  <2>4. CASE Expire \/ Refresh \/ Crash
    BY <2>4, OutsideWorks
  <2>5. CASE RunFails
    BY <2>5, PassWorks DEF Ends
  <2> QED
    BY <1>5, <2>1, <2>2, <2>3, <2>4, <2>5 DEF Environment
<1> QED
  BY <1>1, <1>2, <1>3, <1>4, <1>5 DEF Next

LEMMA StutterWorks ==
    ASSUME TypeOK, Following, Working, UNCHANGED vars
    PROVE  Working'
<1>1. UNCHANGED <<log, wire, queue, row, observed, binding, initial, heads, conflicts,
                  inherited, scope, ops, gate>>
  BY DEF vars, server, files, merging, state
<1> QED
  BY <1>1, UnchangedSame, SameGateIdle, IdleWorks

\* Where the two parts of Working meet, no local work is lost.
LEMMA WorkingKeeps ==
    ASSUME TypeOK, Following, Working
    PROVE  LocalWorkKept
<1> SUFFICES ASSUME binding # None, NEW p \in Paths, Enabled(p), p \notin inherited,
                    p \notin conflicts, observed[row[p]] = disk[p]
             PROVE  \/ Believed(row[p]) = disk[p]
                    \/ \E j \in queue : j.id = row[p] /\ j.content = disk[p]
  BY DEF LocalWorkKept, Kept
<1>1. AgreedAt(p) /\ DescribedAt(p)
  BY DEF Working, Agreed, Described
<1>2. CASE Queued(row[p])
  <2> DEFINE T == {j \in queue : j.id = row[p]}
             S == {j.op : j \in T}
  <2>1. ops \in Nat /\ \A j \in queue : j.op \in 0..ops
    <3>1. \A j \in queue : j \in Jobs
      BY DEF TypeOK
    <3> QED
      BY <3>1, JobFields DEF Following, Operations, TypeOK
  <2>2. S \subseteq 0..ops /\ S # {}
    BY <1>2, <2>1 DEF Queued
  <2>3. \A j \in queue : j.id = row[p] => j.op \in S
    OBVIOUS
  <2>4. \A s \in S : \E j \in queue : j.id = row[p] /\ j.op = s
    OBVIOUS
  <2> HIDE DEF S, T
  <2>5. Max(S) \in S /\ \A t \in S : t <= Max(S)
    BY <2>1, <2>2, MaxIsGreatest
  <2>6. PICK j \in queue : j.id = row[p] /\ j.op = Max(S)
    BY <2>4, <2>5
  <2>7. Newest(j)
    BY <2>3, <2>5, <2>6 DEF Newest
  <2>8. j.content = observed[row[p]]
    BY <1>1, <2>6, <2>7 DEF DescribedAt
  <2> QED
    BY <2>6, <2>8
<1>3. CASE ~Queued(row[p])
  BY <1>1, <1>3 DEF AgreedAt
<1> QED
  BY <1>2, <1>3

\* sync_discovery.rs, sync_state.rs, sync_inbox.rs, sync_initial.rs: of the work queued
\* for a file the newest has the content that was observed, without any the binding
\* believes it; the work of a file is sent in its order, and what was sent is ahead of
\* what the tables know until it is acknowledged or applied.
THEOREM WorkingInvariant == Spec => [](TypeOK /\ Following /\ Working)
<1>1. Init => TypeOK /\ Following /\ Working
  BY InitFollows, InitWorks
<1>2. TypeOK /\ Following /\ Working /\ [Next]_vars => (TypeOK /\ Following /\ Working)'
  BY NextFollows, StutterFollows, NextWorks, StutterWorks
<1> QED
  BY <1>1, <1>2, PTL DEF Spec

\* sync_discover, sync_apply_pending, sync_bind_initial, sync_bind_empty: every local
\* file or deletion in scope that differs from what the binding knows is queued, in
\* conflict or will be discovered, whatever is unbound, bound again, cancelled or stopped.
THEOREM LocalWorkKeptHolds == Spec => []LocalWorkKept
<1>1. TypeOK /\ Following /\ Working => LocalWorkKept
  BY WorkingKeeps
<1> QED
  BY <1>1, WorkingInvariant, PTL
=============================================================================

--------------------------- MODULE CoreHostProofs ---------------------------
(***************************************************************************)
(* Proofs about CoreHost, for any vaults, requests, operations and bounds. *)
(***************************************************************************)
EXTENDS CoreHost, FiniteSetTheorems, TLAPS

\* A request has an operation once it is made, an answer only when it is done,
\* and a call or a handler only after it was sent; a request that names a vault
\* was made while that vault was open.
Lifetime(r) ==
    /\ req[r].at # "idle" => req[r].op \in Puts \cup Deletes
    /\ req[r].at \in {"idle", "prepared"} => req[r].vault = None
    /\ req[r].told # None => req[r].at = "done"
    /\ r \in rpc \/ core[r] # "none" => req[r].at \in {"sent", "done"}
    /\ r \in rpc \/ core[r] = "asked" \/ req[r].at \in {"ready", "sent"} =>
          req[r].start \in Starts
    /\ req[r].vault # None => req[r].op \in asked[req[r].vault]

Lifetimes == \A r \in Requests : Lifetime(r)

\* A live group of processes is the session's or that of the start in progress,
\* and these two exclude each other.
Supervised ==
    /\ starter # None => session = None /\ ~exited
    /\ exited => session = None
    /\ \A g \in Starts : Alive(g) => \/ g = session
                                     \/ starter # None /\ g = starter.start

\* An operation has a receipt exactly if it was applied, once, and was asked for
\* in the vault that has the receipt.
Receipted ==
    \A v \in Vaults, o \in Ops :
        /\ applied[v][o] = IF o \in receipts[v] THEN 1 ELSE 0
        /\ o \in receipts[v] => o \in asked[v]

\* Whoever says that a change was made has seen its receipt.
Claims(r) == core[r] = "committed" \/ req[r].told = "committed"
Answered ==
    \A r \in Requests :
        Claims(r) => req[r].vault # None /\ req[r].op \in receipts[req[r].vault]

\* A request that was cancelled early has lost its reservation and is not sent.
Dismissed ==
    \A r \in early :
        /\ r \notin Streams /\ entries[r] = "none"
        /\ req[r].at \in {"prepared", "session", "ready"}

HostInv == TypeOK /\ Lifetimes /\ Supervised /\ Receipted /\ Answered /\ Dismissed

-----------------------------------------------------------------------------
(* What single operators keep of the types. *)

\* A write keeps the shape of the records.
LEMMA WriteTypes ==
    ASSUME TypeOK, NEW v \in Vaults, NEW o \in Ops, Write(v, o)
    PROVE  /\ disk' \in [Vaults -> [Kinds -> Contents]]
           /\ receipts' \in [Vaults -> SUBSET Ops]
           /\ applied' \in [Vaults -> [Ops -> 0..2]]
<1>1. KindOf(o) \in Kinds /\ Result(o) \in Contents
  BY DEF KindOf, Kinds, Result, Contents
<1>2. disk' \in [Vaults -> [Kinds -> Contents]]
  BY <1>1 DEF Write, TypeOK
<1>3. receipts' \in [Vaults -> SUBSET Ops]
  BY DEF Write, TypeOK
<1>4. applied' \in [Vaults -> [Ops -> 0..2]]
  BY DEF Write, TypeOK
<1> QED
  BY <1>2, <1>3, <1>4

Points == {"idle", "prepared", "done"} \cup Asking
Answers == {None, "committed", "error"}

\* A request may move on, and take an operation, a vault, a start or an answer.
LEMMA RequestTypes ==
    ASSUME NEW rec \in Requested, NEW at \in Points
    PROVE  /\ [rec EXCEPT !.at = at] \in Requested
           /\ \A op \in Ops :
                 /\ [rec EXCEPT !.at = at, !.op = op] \in Requested
                 /\ \A v \in Vaults \cup {None} :
                       [rec EXCEPT !.at = at, !.op = op, !.vault = v] \in Requested
           /\ \A v \in Vaults \cup {None} : [rec EXCEPT !.at = at, !.vault = v] \in Requested
           /\ \A start \in 0..MaxStarts :
                 /\ [rec EXCEPT !.at = at, !.start = start] \in Requested
                 /\ \A told \in Answers :
                       [rec EXCEPT !.at = at, !.told = told, !.start = start] \in Requested
<1> DEFINE Named == Ops \cup {None}
           Places == Vaults \cup {None}
           Starting == 0..MaxStarts
<1>1. Requested = [at : Points, op : Named, vault : Places, start : Starting, told : Answers]
  BY DEF Requested, Points, Answers
<1>2. /\ \A op \in Ops : op \in Named
      /\ \A v \in Vaults \cup {None} : v \in Places
      /\ \A start \in 0..MaxStarts : start \in Starting
  OBVIOUS
<1> HIDE DEF Named, Places, Starting
<1> QED
  BY <1>1, <1>2

\* A request that ends keeps the shape of the reservations.
LEMMA EndedTypes ==
    ASSUME TypeOK, NEW r \in Requests, NEW told \in Answers,
           Ended(r, told)
    PROVE  /\ req' \in [Requests -> Requested]
           /\ entries' \in [Requests -> {"none", "prepared", "claimed"}]
           /\ expired' \subseteq Requests /\ early' \subseteq Requests
<1>1. req' \in [Requests -> Requested]
  <2> DEFINE start == IF r \in rpc \/ core[r] = "asked" THEN req[r].start ELSE 0
  <2>1. start \in 0..MaxStarts
    BY ConstantsAssumption DEF TypeOK, Requested
  <2>2. [req[r] EXCEPT !.at = "done", !.told = told, !.start = start] \in Requested
    <3>1. "done" \in Points /\ req[r] \in Requested
      BY DEF Points, TypeOK
    <3> HIDE DEF start
    <3> QED
      BY <2>1, <3>1, RequestTypes
  <2>3. req' = [req EXCEPT ![r] = [req[r] EXCEPT !.at = "done", !.told = told,
                                                !.start = start]]
    BY DEF Ended, TypeOK
  <2> HIDE DEF start
  <2> QED
    BY <2>2, <2>3 DEF TypeOK
<1> QED
  BY <1>1 DEF Ended, TypeOK

\* What the window means an operation to replace is a content.
LEMMA IntendTypes ==
    ASSUME TypeOK, NEW v \in Vaults, NEW o \in Ops, Intend(v, o)
    PROVE  intent' \in [Ops -> Contents \cup {None}]
<1>1. KindOf(o) \in Kinds
  BY DEF KindOf, Kinds
<1> QED
  BY <1>1 DEF Intend, TypeOK

\* Dropping a session keeps the shape of the supervisor.
LEMMA ReapTypes ==
    ASSUME TypeOK, Failed, Reap
    PROVE  /\ procs' \in [Starts -> {"none", "up", "headless", "gone"}]
           /\ core' \in [Requests -> {"none", "asked", "committed", "refused"}]
           /\ session' = None /\ failures' \in Nat /\ waiting' = TRUE
<1>1. core' \in [Requests -> {"none", "asked", "committed", "refused"}]
  BY DEF Reap, Buried, TypeOK
<1> QED
  BY <1>1 DEF Reap, RecordFailure, Killed, Failed, TypeOK

\* A start keeps the shape of the supervisor.
LEMMA StartTypes ==
    ASSUME TypeOK, NEW owner \in Requests \cup {None}, Start(owner)
    PROVE  /\ procs' \in [Starts -> {"none", "up", "headless", "gone"}]
           /\ starter' \in [start: Starts, owner: Requests \cup {None}]
BY DEF Start, Unused, TypeOK

\* Whether a start is in progress can be told from its record.
LEMMA StarterRecord ==
    ASSUME TypeOK, starter # None
    PROVE  starter.start \in Starts /\ starter.owner \in Requests \cup {None}
BY DEF TypeOK

LEMMA TypeStep ==
    ASSUME TypeOK, Lifetimes, [Next]_vars
    PROVE  TypeOK'
<1> USE DEF Happens, vault, files, supervisor, lifecycle, work
<1>b. events > 0 /\ events' = events - 1 => events' \in 0..MaxEvents
  BY ConstantsAssumption DEF TypeOK
<1>a. Puts \cup Deletes \subseteq Ops /\ Preferences \subseteq Ops
  BY DEF Ops
<1>c. "error" \in Answers
  BY DEF Answers
<1>1. ASSUME NEW v \in Vaults, Choose(v) \/ Open(v)
      PROVE  TypeOK'
  BY <1>1, <1>b DEF Choose, Open, Opened, Remembered, TypeOK
<1>2. ASSUME NEW v \in Vaults, NEW o \in Preferences, Prefer(v, o)
      PROVE  TypeOK'
  <2>1. o \in Ops
    BY <1>a
  <2>2. intent' \in [Ops -> Contents \cup {None}]
    BY <1>2, <2>1, IntendTypes DEF Prefer
  <2>3. asked' \in [Vaults -> SUBSET Ops]
    BY <1>2, <2>1 DEF Prefer, TypeOK
  <2>4. /\ disk' \in [Vaults -> [Kinds -> Contents]]
        /\ receipts' \in [Vaults -> SUBSET Ops]
        /\ applied' \in [Vaults -> [Ops -> 0..2]]
    <3>1. CASE Write(workspace, o) /\ workspace # None
      <4>1. workspace \in Vaults
        BY <3>1 DEF TypeOK
      <4> QED
        BY <2>1, <3>1, <4>1, WriteTypes
    <3>2. CASE UNCHANGED <<disk, receipts, applied>>
      BY <3>2 DEF TypeOK
    <3> QED
      BY <1>2, <3>1, <3>2 DEF Prefer
  <2> QED
    BY <1>2, <1>b, <2>2, <2>3, <2>4 DEF Prefer, TypeOK
<1>3. CASE Revoke
  BY <1>3, <1>b DEF Revoke, TypeOK
<1>4. ASSUME NEW r \in Requests, NEW o \in Puts \cup Deletes, Prepare(r, o)
      PROVE  TypeOK'
  <2>1. workspace \in Vaults /\ o \in Ops
    BY <1>4, <1>a DEF Prepare, TypeOK
  <2>2. intent' \in [Ops -> Contents \cup {None}]
    BY <1>4, <2>1, IntendTypes DEF Prepare
  <2>3. req' \in [Requests -> Requested]
    <3>1. [req[r] EXCEPT !.at = "prepared", !.op = o] \in Requested
      BY <2>1, RequestTypes DEF TypeOK, Points
    <3> QED
      BY <1>4, <3>1 DEF Prepare, TypeOK
  <2>4. entries' \in [Requests -> {"none", "prepared", "claimed"}]
    BY <1>4 DEF Prepare, TypeOK
  <2> QED
    BY <1>4, <2>2, <2>3, <2>4 DEF Prepare, TypeOK
<1>5. ASSUME NEW r \in Requests, NEW o \in Puts \cup Deletes, Stream(r, o)
      PROVE  TypeOK'
  <2>1. workspace \in Vaults /\ o \in Ops
    BY <1>5, <1>a DEF Stream, TypeOK
  <2>2. intent' \in [Ops -> Contents \cup {None}]
    BY <1>5, <2>1, IntendTypes DEF Stream
  <2>3. req' \in [Requests -> Requested] /\ req'[r].op = o
    <3>1. "session" \in Points
      BY DEF Points, Asking
    <3>2. [req[r] EXCEPT !.at = "session", !.op = o, !.vault = workspace] \in Requested
      BY <2>1, <3>1, RequestTypes DEF TypeOK
    <3> QED
      BY <1>5, <3>2 DEF Stream, TypeOK, Requested
  <2>4. asked' \in [Vaults -> SUBSET Ops]
    BY <1>5, <2>1, <2>3 DEF Stream, Capture, TypeOK
  <2> QED
    BY <1>5, <2>2, <2>3, <2>4 DEF Stream, TypeOK
<1>6. ASSUME NEW r \in Requests, Call(r)
      PROVE  TypeOK'
  <2>1. CASE Ended(r, "error") /\ UNCHANGED asked
    BY <1>6, <2>1, <1>c, EndedTypes DEF Call, TypeOK
  <2>2. CASE /\ req' = [req EXCEPT ![r].at = "session", ![r].vault = workspace]
             /\ entries' = [entries EXCEPT ![r] = "claimed"]
             /\ UNCHANGED <<expired, early>>
             /\ Capture(r)
    <3>1. req' \in [Requests -> Requested] /\ req'[r].op = req[r].op
      <4>1. "session" \in Points
        BY DEF Points, Asking
      <4>2. [req[r] EXCEPT !.at = "session", !.vault = workspace] \in Requested
        BY <4>1, RequestTypes DEF TypeOK
      <4> QED
        BY <2>2, <4>2 DEF TypeOK, Requested
    <3>2. req[r].op \in Ops
      BY <1>6, <1>a DEF Call, Lifetimes, Lifetime
    <3>3. asked' \in [Vaults -> SUBSET Ops]
      BY <2>2, <3>1, <3>2 DEF Capture, TypeOK
    <3>4. entries' \in [Requests -> {"none", "prepared", "claimed"}]
      BY <2>2 DEF TypeOK
    <3> QED
      BY <1>6, <2>2, <3>1, <3>3, <3>4 DEF Call, TypeOK
  <2> QED
    BY <1>6, <2>1, <2>2 DEF Call
<1>7. ASSUME NEW r \in Requests, Cancel(r)
      PROVE  TypeOK'
  <2>1. CASE Ended(r, "error")
    BY <1>7, <2>1, <1>c, EndedTypes, <1>b DEF Cancel, TypeOK
  <2>2. CASE /\ entries' = Forget(r)
             /\ early' = IF req[r].at = "sent" THEN early ELSE early \cup {r}
             /\ UNCHANGED <<req, expired>>
    BY <1>7, <2>2, <1>b DEF Cancel, Forget, TypeOK
  <2> QED
    BY <1>7, <2>1, <2>2 DEF Cancel
<1>8. CASE Poll
  BY <1>8, ReapTypes DEF Poll, TypeOK
<1>9. CASE Boot
  BY <1>9, StartTypes DEF Boot, TypeOK
<1>10. CASE Ready
  <2>1. starter.start \in Starts
    BY <1>10, StarterRecord DEF Ready
  <2>2. req' \in [Requests -> Requested]
    <3>1. "ready" \in Points /\ starter.start \in 0..MaxStarts
      BY <2>1 DEF Points, Asking, Starts
    <3>2. \A r \in Requests :
             [req[r] EXCEPT !.at = "ready", !.start = starter.start] \in Requested
      BY <3>1, RequestTypes DEF TypeOK
    <3> QED
      BY <1>10, <3>2 DEF Ready, TypeOK
  <2> QED
    BY <1>10, <2>1, <2>2 DEF Ready, TypeOK
<1>11. CASE StartFails
  <2>1. starter.start \in Starts
    BY <1>11, StarterRecord DEF StartFails
  <2>2. CASE UNCHANGED <<req, lifecycle>>
    BY <1>11, <2>1, <2>2, <1>b DEF StartFails, RecordFailure, TypeOK
  <2>3. CASE Owner # {} /\ Ended(starter.owner, "error")
    <3>1. starter.owner \in Requests
      BY <1>11, <2>3, StarterRecord DEF StartFails, Owner
    <3> QED
      BY <1>11, <2>1, <2>3, <3>1, <1>c, EndedTypes, <1>b DEF StartFails, RecordFailure, TypeOK
  <2> QED
    BY <1>11, <2>2, <2>3 DEF StartFails
<1>12. CASE BackoffEnds \/ FailureAges
  <2>1. waiting' \in BOOLEAN
    BY <1>12 DEF BackoffEnds, FailureAges
  <2>2. failures' \in Nat
    BY <1>12 DEF BackoffEnds, FailureAges, TypeOK
  <2> QED
    BY <1>12, <1>b, <2>1, <2>2 DEF BackoffEnds, FailureAges, TypeOK
<1>13. ASSUME NEW r \in Requests, GetSession(r)
       PROVE  TypeOK'
  <2>1. CASE /\ session # None
             /\ req' = [req EXCEPT ![r].at = "ready", ![r].start = session]
             /\ UNCHANGED <<supervisor, lifecycle, core>>
    <3>1. req' \in [Requests -> Requested]
      <4>1. "ready" \in Points /\ session \in 0..MaxStarts
        BY <2>1 DEF Points, Asking, Starts, TypeOK
      <4>2. [req[r] EXCEPT !.at = "ready", !.start = session] \in Requested
        BY <4>1, RequestTypes DEF TypeOK
      <4> QED
        BY <2>1, <4>2 DEF TypeOK
    <3> QED
      BY <1>13, <2>1, <3>1 DEF GetSession, TypeOK
  <2>2. CASE Failed /\ Reap /\ Ended(r, "error") /\ UNCHANGED <<starter, closed>>
    BY <1>13, <2>2, ReapTypes, <1>c, EndedTypes DEF GetSession, TypeOK
  <2>3. CASE /\ Start(r)
             /\ UNCHANGED <<session, failures, waiting, closed, req, lifecycle, core>>
    BY <1>13, <2>3, StartTypes DEF GetSession, TypeOK
  <2>4. CASE RefuseStart(r)
    BY <1>13, <2>4, <1>c, EndedTypes DEF GetSession, RefuseStart, TypeOK
  <2> QED
    BY <1>13, <2>1, <2>2, <2>3, <2>4 DEF GetSession
<1>14. ASSUME NEW r \in Requests, Send(r)
       PROVE  TypeOK'
  <2>1. CASE req' = [req EXCEPT ![r].at = "sent"] /\ Handle(r) /\ UNCHANGED lifecycle
    <3>1. req' \in [Requests -> Requested]
      <4>1. "sent" \in Points
        BY DEF Points, Asking
      <4>2. [req[r] EXCEPT !.at = "sent"] \in Requested
        BY <4>1, RequestTypes DEF TypeOK
      <4> QED
        BY <2>1, <4>2 DEF TypeOK
    <3>2. /\ core' \in [Requests -> {"none", "asked", "committed", "refused"}]
          /\ rpc' \subseteq Requests
      <4>1. \E state \in {"asked", "refused"} : core' = [core EXCEPT ![r] = state]
        BY <2>1 DEF Handle
      <4>2. core' \in [Requests -> {"none", "asked", "committed", "refused"}]
        BY <4>1 DEF TypeOK
      <4>3. rpc' = rpc \/ rpc' = rpc \cup {r}
        BY <2>1 DEF Handle
      <4> QED
        BY <4>2, <4>3 DEF TypeOK
    <3> QED
      BY <1>14, <2>1, <3>1, <3>2 DEF Send, TypeOK
  <2>2. CASE Ended(r, "error") /\ UNCHANGED <<core, rpc>>
    BY <1>14, <2>2, <1>c, EndedTypes DEF Send, TypeOK
  <2> QED
    BY <1>14, <2>1, <2>2 DEF Send
<1>15. ASSUME NEW r \in Requests, Abandon(r) \/ Answer(r)
       PROVE  TypeOK'
  <2>1. PICK told \in Answers : Ended(r, told)
    BY <1>15 DEF Answers, Abandon, Answer, Told
  <2> QED
    BY <1>15, <2>1, <1>c, EndedTypes DEF Abandon, Answer, TypeOK
<1>16. ASSUME NEW r \in Requests, GiveUp(r)
       PROVE  TypeOK'
  BY <1>16, <1>b DEF GiveUp, Replied, TypeOK
<1>17. ASSUME NEW r \in Requests, Dispatch(r)
       PROVE  TypeOK'
  <2>1. req[r].op \in Ops /\ req[r].start \in 0..MaxStarts
    BY <1>17, <1>a DEF Dispatch, Lifetimes, Lifetime, TypeOK, Requested
  <2>2. /\ disk' \in [Vaults -> [Kinds -> Contents]]
        /\ receipts' \in [Vaults -> SUBSET Ops]
        /\ applied' \in [Vaults -> [Ops -> 0..2]]
    <3>1. CASE Write(workspace, req[r].op) /\ workspace # None
      <4>1. workspace \in Vaults
        BY <3>1 DEF TypeOK
      <4> QED
        BY <2>1, <3>1, <4>1, WriteTypes
    <3>2. CASE UNCHANGED <<disk, receipts, applied>>
      BY <3>2 DEF TypeOK
    <3> QED
      BY <1>17, <3>1, <3>2 DEF Dispatch, Broker, Bound
  <2>3. CASE PipeOpen(req[r].start)
    <3>1. core' \in [Requests -> {"none", "asked", "committed", "refused"}]
      BY <1>17, <2>3 DEF Dispatch, Replied, Outcomes, TypeOK
    <3> QED
      BY <1>17, <2>2, <2>3, <3>1 DEF Dispatch, TypeOK
  <2>4. CASE ~PipeOpen(req[r].start)
    <3>1. req[r].start \in Starts
      BY <1>17 DEF Dispatch, Lifetimes, Lifetime
    <3> QED
      BY <1>17, <2>2, <2>4, <3>1 DEF Dispatch, TypeOK
  <2> QED
    BY <2>3, <2>4
<1>18. ASSUME NEW g \in Starts, NEW how \in {"headless", "gone"}, ProcessEnds(g, how)
       PROVE  TypeOK'
  BY <1>18 DEF ProcessEnds, Buried, TypeOK
<1>19. ASSUME NEW r \in Requests, Deadline(r)
       PROVE  TypeOK'
  BY <1>19, <1>b DEF Deadline, TypeOK
<1>20. CASE Exit
  BY <1>20, <1>b DEF Exit, Killed, TypeOK
<1>21. CASE UNCHANGED vars
  BY <1>21 DEF vars, TypeOK
<1> QED
  BY <1>1, <1>2, <1>3, <1>4, <1>5, <1>6, <1>7, <1>8, <1>9, <1>10, <1>11, <1>12, <1>13,
     <1>14, <1>15, <1>16, <1>17, <1>18, <1>19, <1>20, <1>21
     DEF Next, Window, Supervisor, Serving, Environment

-----------------------------------------------------------------------------
(* The parts of the invariant, each through all steps. *)

\* Vaults only gain operations that were asked for.
LEMMA AskedGrows ==
    ASSUME TypeOK, [Next]_vars
    PROVE  \A v \in Vaults : asked[v] \subseteq asked'[v]
<1> USE DEF vault, files, supervisor, lifecycle, work
<1>1. ASSUME NEW v \in Vaults, NEW o \in Preferences, Prefer(v, o)
      PROVE  \A w \in Vaults : asked[w] \subseteq asked'[w]
  BY <1>1 DEF Prefer, TypeOK
<1>2. ASSUME NEW r \in Requests, Capture(r)
      PROVE  \A w \in Vaults : asked[w] \subseteq asked'[w]
  BY <1>2 DEF Capture, TypeOK
<1>3. ASSUME NEW r \in Requests, Call(r)
      PROVE  UNCHANGED asked \/ Capture(r)
  BY <1>3 DEF Call
<1>4. ASSUME NEW r \in Requests, NEW o \in Puts \cup Deletes, Stream(r, o)
      PROVE  Capture(r)
  BY <1>4 DEF Stream
<1>5. CASE UNCHANGED asked
  BY <1>5
<1>6. ASSUME \/ \E v \in Vaults : Choose(v) \/ Open(v)
             \/ \E r \in Requests : \/ \E o \in Puts \cup Deletes : Prepare(r, o)
                                    \/ Cancel(r)
             \/ Revoke \/ Supervisor \/ Serving \/ Environment \/ UNCHANGED vars
      PROVE  UNCHANGED asked
  <2>1. Supervisor => UNCHANGED asked
    BY DEF Supervisor, Poll, Boot, Ready, StartFails, BackoffEnds, FailureAges
  <2>2. Serving => UNCHANGED asked
    BY DEF Serving, GetSession, Send, Abandon, Answer, GiveUp, Dispatch
  <2>3. Environment => UNCHANGED asked
    BY DEF Environment, ProcessEnds, Deadline, Exit
  <2> QED
    BY <1>6, <2>1, <2>2, <2>3 DEF Choose, Open, Revoke, Prepare, Cancel, vars
<1> QED
  BY <1>1, <1>2, <1>3, <1>4, <1>5, <1>6 DEF Next, Window

LEMMA LifetimesStep ==
    ASSUME TypeOK, Lifetimes, [Next]_vars
    PROVE  Lifetimes'
<1> USE DEF vault, files, supervisor, lifecycle, work
<1>a. \A v \in Vaults : asked[v] \subseteq asked'[v]
  BY AskedGrows
<1>b. \A r \in Requests : req[r].vault # None => req[r].vault \in Vaults
  BY DEF TypeOK, Requested
\* What a step does to one request, whose row alone it changes.
<1>c. ASSUME NEW r \in Requests, Lifetime(r)',
             \A q \in Requests \ {r} :
                 /\ req'[q] = req[q]
                 /\ q \in rpc' => q \in rpc
                 /\ core'[q] = core[q] \/ core'[q] = "none"
      PROVE  Lifetimes'
  BY <1>a, <1>b, <1>c DEF Lifetimes, Lifetime
\* Steps that leave the requests alone; handlers may end.
<1>d. ASSUME UNCHANGED req, rpc' \subseteq rpc,
             \A r \in Requests : \/ core'[r] = core[r] \/ core'[r] = "none"
                                 \/ core[r] = "asked" /\ core'[r] # "asked"
      PROVE  Lifetimes'
  BY <1>a, <1>b, <1>d DEF Lifetimes, Lifetime
\* Steps that end a request.
<1>e. ASSUME NEW r \in Requests, NEW told, Ended(r, told), req[r].at # "idle",
             rpc' = rpc, \A q \in Requests : core'[q] = core[q] \/ core'[q] = "none"
      PROVE  Lifetimes'
  <2>1. Lifetime(r)'
    BY <1>a, <1>b, <1>e DEF Lifetimes, Lifetime, Ended, TypeOK
  <2> QED
    BY <1>c, <1>e, <2>1 DEF Ended, TypeOK
<1>1. CASE \/ \E v \in Vaults : Choose(v) \/ Open(v) \/ \E o \in Preferences : Prefer(v, o)
           \/ Revoke \/ BackoffEnds \/ FailureAges \/ Boot \/ Exit \/ UNCHANGED vars
           \/ \E r \in Requests : Deadline(r)
  BY <1>1, <1>d DEF Choose, Open, Prefer, Revoke, BackoffEnds, FailureAges, Boot, Exit,
     Deadline, vars
<1>2. CASE \/ Poll \/ \E r \in Requests : GiveUp(r)
           \/ \E g \in Starts, how \in {"headless", "gone"} : ProcessEnds(g, how)
  <2>1. \A r \in Requests : \/ core'[r] = core[r] \/ core'[r] = "none"
                            \/ core[r] = "asked" /\ core'[r] # "asked"
    BY <1>2 DEF Poll, Reap, Buried, GiveUp, Replied, ProcessEnds, TypeOK
  <2> QED
    BY <1>2, <1>d, <2>1 DEF Poll, GiveUp, ProcessEnds
<1>3. ASSUME NEW r \in Requests, NEW o \in Puts \cup Deletes, Prepare(r, o)
      PROVE  Lifetimes'
  <2>1. Lifetime(r)'
    BY <1>3 DEF Prepare, Lifetimes, Lifetime, TypeOK, Requested
  <2> QED
    BY <1>3, <1>c, <2>1 DEF Prepare, TypeOK
<1>4. ASSUME NEW r \in Requests, NEW o \in Puts \cup Deletes, Stream(r, o)
      PROVE  Lifetimes'
  <2>1. workspace \in Vaults
    BY <1>4 DEF Stream, TypeOK
  <2>2. req'[r] = [req[r] EXCEPT !.at = "session", !.op = o, !.vault = workspace]
    BY <1>4 DEF Stream, TypeOK
  <2>3. req'[r].op = o /\ req'[r].vault = workspace /\ req'[r].at = "session"
        /\ req'[r].told = req[r].told
    BY <2>2 DEF TypeOK, Requested
  <2>4. o \in asked'[workspace]
    BY <1>4, <2>1, <2>3 DEF Stream, Capture, TypeOK
  <2>5. Lifetime(r)'
    BY <1>4, <2>3, <2>4 DEF Stream, Lifetimes, Lifetime
  <2> QED
    BY <1>4, <1>c, <2>5 DEF Stream, TypeOK
<1>5. ASSUME NEW r \in Requests, Call(r)
      PROVE  Lifetimes'
  <2>1. CASE Ended(r, "error")
    BY <1>5, <2>1, <1>e DEF Call
  <2>2. CASE /\ req' = [req EXCEPT ![r].at = "session", ![r].vault = workspace]
             /\ Capture(r)
    <3>1. req'[r] = [req[r] EXCEPT !.at = "session", !.vault = workspace]
      BY <2>2 DEF TypeOK
    <3>2. /\ req'[r].op = req[r].op /\ req'[r].vault = workspace /\ req'[r].at = "session"
          /\ req'[r].told = req[r].told
      BY <3>1 DEF TypeOK, Requested
    <3>3. workspace # None => req[r].op \in asked'[workspace]
      BY <2>2, <3>2 DEF Capture, TypeOK
    <3>4. Lifetime(r)'
      BY <1>5, <3>2, <3>3 DEF Call, Lifetimes, Lifetime
    <3> QED
      BY <1>5, <2>2, <1>c, <3>4 DEF Call, TypeOK
  <2> QED
    BY <1>5, <2>1, <2>2 DEF Call
<1>6. ASSUME NEW r \in Requests, Cancel(r)
      PROVE  Lifetimes'
  <2>1. CASE Ended(r, "error") /\ req[r].at \in Asking
    BY <1>6, <2>1, <1>e DEF Cancel, Asking
  <2>2. CASE UNCHANGED <<req, expired>>
    BY <1>6, <2>2, <1>d DEF Cancel
  <2> QED
    BY <1>6, <2>1, <2>2 DEF Cancel
<1>7. CASE Ready
  <2>1. starter.start \in Starts
    BY <1>7, StarterRecord DEF Ready
  <2>2. ASSUME NEW r \in Requests
        PROVE  Lifetime(r)'
    <3>1. CASE req'[r] = req[r]
      BY <1>7, <1>a, <1>b, <3>1 DEF Ready, Lifetimes, Lifetime
    <3>2. CASE r \in Owner /\ req'[r] = [req[r] EXCEPT !.at = "ready", !.start = starter.start]
      <4>1. req[r].at = "session"
        BY <3>2 DEF Owner
      <4>2. /\ req'[r].at = "ready" /\ req'[r].start = starter.start
            /\ req'[r].op = req[r].op /\ req'[r].vault = req[r].vault
            /\ req'[r].told = req[r].told
        BY <3>2 DEF TypeOK, Requested
      <4> QED
        BY <1>7, <1>a, <1>b, <2>1, <4>1, <4>2 DEF Ready, Lifetimes, Lifetime
    <3> QED
      BY <1>7, <3>1, <3>2 DEF Ready
  <2> QED
    BY <2>2 DEF Lifetimes
<1>8. CASE StartFails
  <2>1. CASE UNCHANGED <<req, lifecycle>>
    BY <1>8, <2>1, <1>d DEF StartFails
  <2>2. CASE Owner # {} /\ Ended(starter.owner, "error")
    <3>1. starter.owner \in Requests /\ req[starter.owner].at = "session"
      BY <1>8, <2>2, StarterRecord DEF StartFails, Owner
    <3> QED
      BY <1>8, <2>2, <3>1, <1>e DEF StartFails
  <2> QED
    BY <1>8, <2>1, <2>2 DEF StartFails
<1>9. ASSUME NEW r \in Requests, GetSession(r)
      PROVE  Lifetimes'
  <2>1. CASE /\ session # None
             /\ req' = [req EXCEPT ![r].at = "ready", ![r].start = session]
             /\ UNCHANGED core
    <3>1. /\ req'[r].at = "ready" /\ req'[r].start = session
          /\ req'[r].op = req[r].op /\ req'[r].vault = req[r].vault
          /\ req'[r].told = req[r].told
      BY <2>1 DEF TypeOK, Requested
    <3>2. session \in Starts
      BY <2>1 DEF TypeOK
    <3>3. Lifetime(r)'
      BY <1>9, <1>a, <1>b, <2>1, <3>1, <3>2 DEF GetSession, Lifetimes, Lifetime
    <3> QED
      BY <1>9, <1>c, <2>1, <3>3 DEF GetSession, TypeOK
  <2>2. CASE Reap /\ Ended(r, "error")
    <3>1. \A q \in Requests : core'[q] = core[q] \/ core'[q] = "none"
      BY <2>2 DEF Reap, Buried
    <3> QED
      BY <1>9, <2>2, <3>1, <1>e DEF GetSession
  <2>3. CASE UNCHANGED <<session, failures, waiting, closed, req, lifecycle, core>>
    BY <1>9, <2>3, <1>d DEF GetSession
  <2>4. CASE RefuseStart(r)
    BY <1>9, <2>4, <1>e DEF GetSession, RefuseStart
  <2> QED
    BY <1>9, <2>1, <2>2, <2>3, <2>4 DEF GetSession
<1>10. ASSUME NEW r \in Requests, Send(r)
       PROVE  Lifetimes'
  <2>1. CASE req' = [req EXCEPT ![r].at = "sent"] /\ Handle(r)
    <3>1. /\ req'[r].at = "sent" /\ req'[r].start = req[r].start
          /\ req'[r].op = req[r].op /\ req'[r].vault = req[r].vault
          /\ req'[r].told = req[r].told
      BY <2>1 DEF TypeOK, Requested
    <3>2. Lifetime(r)'
      BY <1>10, <1>a, <1>b, <3>1 DEF Send, Lifetimes, Lifetime
    <3> QED
      BY <1>10, <1>c, <2>1, <3>2 DEF Send, Handle, TypeOK
  <2>2. CASE Ended(r, "error") /\ UNCHANGED <<core, rpc>>
    BY <1>10, <2>2, <1>e DEF Send
  <2> QED
    BY <1>10, <2>1, <2>2 DEF Send
<1>11. ASSUME NEW r \in Requests, Abandon(r) \/ Answer(r)
       PROVE  Lifetimes'
  <2>1. PICK told \in Answers : Ended(r, told)
    BY <1>11 DEF Answers, Abandon, Answer, Told
  <2>2. \A q \in Requests : core'[q] = core[q] \/ core'[q] = "none"
    BY <1>11 DEF Abandon, Answer, TypeOK
  <2> QED
    BY <1>11, <2>1, <2>2, <1>e DEF Abandon, Answer, Asking
<1>12. ASSUME NEW r \in Requests, Dispatch(r)
       PROVE  Lifetimes'
  <2>1. \A q \in Requests : \/ core'[q] = core[q] \/ core'[q] = "none"
                            \/ core[q] = "asked" /\ core'[q] # "asked"
    BY <1>12 DEF Dispatch, Replied, Outcomes, TypeOK
  <2>2. UNCHANGED req /\ rpc' \subseteq rpc
    BY <1>12 DEF Dispatch
  <2> QED
    BY <2>1, <2>2, <1>d
<1> QED
  BY <1>1, <1>2, <1>3, <1>4, <1>5, <1>6, <1>7, <1>8, <1>9, <1>10, <1>11, <1>12
     DEF Next, Window, Supervisor, Serving, Environment

\* Only the session, a start in progress or a killed group change hands.
LEMMA SupervisedStep ==
    ASSUME TypeOK, Supervised, [Next]_vars
    PROVE  Supervised'
<1> USE DEF vault, files, supervisor, lifecycle, work
<1>c. None \notin Starts
  BY ConstantsAssumption DEF Starts
<1>d. starter # None => starter.start \in Starts
  BY StarterRecord
\* A session that is dropped takes its group along.
<1>a. ASSUME session # None, starter = None, starter' = None, session' = None,
             procs' = [procs EXCEPT ![session] = "gone"]
      PROVE  Supervised'
  BY <1>a DEF Supervised, Alive, TypeOK
\* The group of a start that begins is the only one alive.
<1>b. ASSUME NEW owner \in Requests \cup {None}, Start(owner), ~exited, UNCHANGED exited,
             starter = None, session = None, session' = None
      PROVE  Supervised'
  <2>1. PICK g \in Unused : /\ starter' = [start |-> g, owner |-> owner]
                            /\ procs' = [procs EXCEPT ![g] = "up"]
    BY <1>b DEF Start
  <2>2. starter'.start = g /\ g \in Starts
    BY <2>1 DEF Unused
  <2>3. \A h \in Starts : Alive(h)' => h = g
    BY <1>b, <1>c, <2>1, <2>2 DEF Supervised, Alive, TypeOK
  <2>4. starter' # None
    <3>1. starter' \in [start: Starts, owner: Requests \cup {None}]
      BY <1>b, StartTypes
    <3>2. starter' \in [start: Nat, owner: Requests \cup {None}]
      BY <3>1, ConstantsAssumption DEF Starts
    <3> QED
      BY <3>2, ConstantsAssumption
  <2> QED
    BY <1>b, <2>2, <2>3, <2>4 DEF Supervised
<1>1. CASE UNCHANGED <<supervisor, exited>>
  BY <1>1 DEF Supervised, Alive
<1>2. CASE Poll
  BY <1>2, <1>a DEF Poll, Failed, Reap, Killed
<1>3. CASE Boot
  BY <1>3, <1>b DEF Boot
<1>4. CASE Ready
  <2>1. starter.start \in Starts /\ starter # None
    BY <1>4, <1>d DEF Ready
  <2>2. \A g \in Starts : Alive(g)' => g = session'
    BY <1>4, <1>c, <2>1 DEF Ready, Supervised, Alive
  <2> QED
    BY <1>4, <2>1, <2>2 DEF Ready, Supervised
<1>5. CASE StartFails
  BY <1>5, <1>d DEF StartFails, Supervised, Alive, TypeOK
<1>6. CASE BackoffEnds \/ FailureAges
  BY <1>6 DEF BackoffEnds, FailureAges, Supervised, Alive
<1>7. ASSUME NEW r \in Requests, GetSession(r)
      PROVE  Supervised'
  BY <1>7, <1>a, <1>b, <1>1 DEF GetSession, RefuseStart, Failed, Reap, Killed
<1>8. ASSUME NEW r \in Requests, Dispatch(r)
      PROVE  Supervised'
  BY <1>8 DEF Dispatch, Supervised, Alive
<1>9. ASSUME NEW g \in Starts, NEW how \in {"headless", "gone"}, ProcessEnds(g, how)
      PROVE  Supervised'
  BY <1>9 DEF ProcessEnds, Supervised, Alive, TypeOK
<1>10. CASE Exit
  <2>1. \A g \in Starts : ~Alive(g)'
    BY <1>10, <1>c DEF Exit, Killed, Supervised, Alive, TypeOK
  <2> QED
    BY <1>10, <2>1 DEF Exit, Supervised
<1>11. ASSUME \/ Window \/ UNCHANGED vars
              \/ \E r \in Requests : Send(r) \/ Abandon(r) \/ Answer(r) \/ GiveUp(r)
              \/ \E r \in Requests : Deadline(r)
       PROVE  UNCHANGED <<supervisor, exited>>
  <2>1. \A v \in Vaults : Choose(v) \/ Open(v) => UNCHANGED <<supervisor, exited>>
    BY DEF Choose, Open
  <2>2. \A v \in Vaults, o \in Preferences : Prefer(v, o) => UNCHANGED <<supervisor, exited>>
    BY DEF Prefer
  <2>3. \A r \in Requests, o \in Puts \cup Deletes :
           Prepare(r, o) \/ Stream(r, o) => UNCHANGED <<supervisor, exited>>
    BY DEF Prepare, Stream
  <2>4. \A r \in Requests : Call(r) \/ Cancel(r) => UNCHANGED <<supervisor, exited>>
    BY DEF Call, Cancel
  <2>5. Revoke => UNCHANGED <<supervisor, exited>>
    BY DEF Revoke
  <2>6. Window => UNCHANGED <<supervisor, exited>>
    BY <2>1, <2>2, <2>3, <2>4, <2>5 DEF Window
  <2>7. \A r \in Requests : Send(r) \/ Abandon(r) \/ Answer(r) \/ GiveUp(r) \/ Deadline(r)
                             => UNCHANGED <<supervisor, exited>>
    BY DEF Send, Abandon, Answer, GiveUp, Deadline
  <2> QED
    BY <1>11, <2>6, <2>7 DEF vars
<1> QED
  BY <1>1, <1>2, <1>3, <1>4, <1>5, <1>6, <1>7, <1>8, <1>9, <1>10, <1>11
     DEF Next, Supervisor, Serving, Environment

\* What a step does to the records: nothing, or one write that was asked for.
Written(v, o) ==
    /\ v \in Vaults /\ o \in Ops /\ ~Receipt(v, o)
    /\ Write(v, o) /\ o \in asked'[v]

LEMMA WrittenOnce ==
    ASSUME TypeOK, Lifetimes, [Next]_vars
    PROVE  \/ UNCHANGED <<receipts, applied>>
           \/ \E v \in Vaults, o \in Ops : Written(v, o)
<1> USE DEF vault, files, supervisor, lifecycle, work
<1>1. ASSUME NEW v \in Vaults, NEW o \in Preferences, Prefer(v, o)
      PROVE  UNCHANGED <<receipts, applied>> \/ Written(v, o)
  <2>1. o \in Ops
    BY DEF Ops
  <2>2. workspace = v => o \in asked'[v]
    BY <1>1 DEF Prefer, TypeOK
  <2> QED
    BY <1>1, <2>1, <2>2 DEF Prefer, Bound, Written
<1>2. ASSUME NEW r \in Requests, Dispatch(r)
      PROVE  UNCHANGED <<receipts, applied>> \/ Written(req[r].vault, req[r].op)
  <2>1. req[r].op \in Ops
    BY <1>2 DEF Dispatch, Lifetimes, Lifetime, Ops
  <2>2. Bound(req[r].vault) => /\ req[r].vault \in Vaults
                               /\ req[r].op \in asked'[req[r].vault]
    BY <1>2 DEF Dispatch, Bound, Lifetimes, Lifetime, TypeOK
  <2> QED
    BY <1>2, <2>1, <2>2 DEF Dispatch, Broker, Bound, Writable, Written
<1>3. ASSUME \/ \E v \in Vaults : Choose(v) \/ Open(v)
             \/ Revoke \/ Supervisor \/ Environment \/ UNCHANGED vars
             \/ \E r \in Requests :
                   \/ \E o \in Puts \cup Deletes : Prepare(r, o) \/ Stream(r, o)
                   \/ Call(r) \/ Cancel(r)
                   \/ GetSession(r) \/ Send(r) \/ Abandon(r) \/ Answer(r) \/ GiveUp(r)
      PROVE  UNCHANGED <<receipts, applied>>
  <2>1. Poll \/ Boot \/ Ready \/ StartFails => UNCHANGED <<receipts, applied>>
    BY DEF Poll, Boot, Ready, StartFails
  <2>2. BackoffEnds \/ FailureAges \/ Revoke \/ Exit => UNCHANGED <<receipts, applied>>
    BY DEF BackoffEnds, FailureAges, Revoke, Exit
  <2>3. \A v \in Vaults : Choose(v) \/ Open(v) => UNCHANGED <<receipts, applied>>
    BY DEF Choose, Open
  <2>4. \A g \in Starts, how \in {"headless", "gone"} :
           ProcessEnds(g, how) => UNCHANGED <<receipts, applied>>
    BY DEF ProcessEnds
  <2>5. \A r \in Requests, o \in Puts \cup Deletes :
           Prepare(r, o) \/ Stream(r, o) => UNCHANGED <<receipts, applied>>
    BY DEF Prepare, Stream
  <2>6. \A r \in Requests :
           Call(r) \/ Cancel(r) \/ GetSession(r) \/ Send(r) => UNCHANGED <<receipts, applied>>
    BY DEF Call, Cancel, GetSession, Send
  <2>7. \A r \in Requests : Abandon(r) \/ Answer(r) \/ GiveUp(r) \/ Deadline(r)
                             => UNCHANGED <<receipts, applied>>
    BY DEF Abandon, Answer, GiveUp, Deadline
  <2> QED
    BY <1>3, <2>1, <2>2, <2>3, <2>4, <2>5, <2>6, <2>7 DEF Supervisor, Environment, vars
<1>4. ASSUME NEW r \in Requests, Dispatch(r)
      PROVE  UNCHANGED <<receipts, applied>> \/ \E v \in Vaults, o \in Ops : Written(v, o)
  BY <1>2, <1>4 DEF Written
<1>5. ASSUME NEW v \in Vaults, NEW o \in Preferences, Prefer(v, o)
      PROVE  UNCHANGED <<receipts, applied>> \/ \E w \in Vaults, p \in Ops : Written(w, p)
  BY <1>1, <1>5 DEF Written
<1> QED
  BY <1>3, <1>4, <1>5 DEF Next, Window, Serving

\* A write that finds no receipt leaves one, and is counted once.
LEMMA WriteCounts ==
    ASSUME TypeOK, Receipted, NEW v \in Vaults, NEW o \in Ops, Written(v, o)
    PROVE  /\ \A w \in Vaults : receipts[w] \subseteq receipts'[w]
           /\ \A w \in Vaults, p \in Ops :
                 applied'[w][p] = IF p \in receipts'[w] THEN 1 ELSE 0
<1>1. applied[v][o] = 0
  BY DEF Written, Receipt, Receipted
<1>2. applied' = [applied EXCEPT ![v] = [applied[v] EXCEPT ![o] = 1]]
  BY <1>1 DEF Written, Write
<1>3. receipts' = [receipts EXCEPT ![v] = receipts[v] \cup {o}]
  BY DEF Written, Write
<1>4. \A w \in Vaults, p \in Ops :
         applied'[w][p] = IF w = v /\ p = o THEN 1 ELSE applied[w][p]
  BY <1>2 DEF TypeOK
<1> QED
  BY <1>3, <1>4 DEF Receipted, TypeOK

LEMMA ReceiptedStep ==
    ASSUME TypeOK, Lifetimes, Receipted, [Next]_vars
    PROVE  Receipted' /\ \A v \in Vaults : receipts[v] \subseteq receipts'[v]
<1>1. \A v \in Vaults : asked[v] \subseteq asked'[v]
  BY AskedGrows
<1>2. CASE UNCHANGED <<receipts, applied>>
  BY <1>1, <1>2 DEF Receipted
<1>3. ASSUME NEW v \in Vaults, NEW o \in Ops, Written(v, o)
      PROVE  Receipted' /\ \A w \in Vaults : receipts[w] \subseteq receipts'[w]
  <2>1. \A w \in Vaults, p \in Ops : p \in receipts'[w] => p \in asked'[w]
    BY <1>1, <1>3 DEF Written, Write, Receipted, TypeOK
  <2> QED
    BY <1>3, <2>1, WriteCounts DEF Receipted
<1> QED
  BY <1>2, <1>3, WrittenOnce

LEMMA AnsweredStep ==
    ASSUME TypeOK, Lifetimes, Receipted, Answered, [Next]_vars
    PROVE  Answered'
<1> USE DEF vault, files, supervisor, lifecycle, work
<1>a. \A v \in Vaults : receipts[v] \subseteq receipts'[v]
  BY ReceiptedStep
<1>b. \A r \in Requests : req[r].vault # None => req[r].vault \in Vaults
  BY DEF TypeOK, Requested
\* Who has claimed it before may claim it again.
<1>c. ASSUME \A r \in Requests :
                Claims(r)' => /\ Claims(r)
                              /\ req'[r].vault = req[r].vault /\ req'[r].op = req[r].op
      PROVE  Answered'
  BY <1>a, <1>b, <1>c DEF Answered
\* Steps that leave the answers alone.
<1>d. ASSUME UNCHANGED req, \A r \in Requests : core'[r] = "committed" => core[r] = "committed"
      PROVE  Answered'
  BY <1>c, <1>d DEF Claims
\* Steps that end a request, telling only what its handler told.
<1>e. ASSUME NEW r \in Requests, NEW told, Ended(r, told), told = "committed" => Claims(r),
             \A q \in Requests : core'[q] = "committed" => core[q] = "committed"
      PROVE  Answered'
  <2>1. \A q \in Requests : /\ req'[q].vault = req[q].vault /\ req'[q].op = req[q].op
                            /\ req'[q].told = IF q = r THEN told ELSE req[q].told
    BY <1>e DEF Ended, TypeOK, Requested
  <2> QED
    BY <1>c, <1>e, <2>1 DEF Claims
\* Steps that move one request on which has not been answered.
<1>f. ASSUME NEW r \in Requests, req[r].at # "done",
             req'[r].told = req[r].told, core'[r] # "committed",
             \A q \in Requests \ {r} : req'[q] = req[q] /\ core'[q] = core[q]
      PROVE  Answered'
  <2>1. ~Claims(r)'
    BY <1>f, ConstantsAssumption DEF Claims, Lifetimes, Lifetime
  <2> QED
    BY <1>c, <1>f, <2>1 DEF Claims
<1>g. ASSUME NEW r \in Requests, req[r].at \in {"idle", "prepared", "session", "ready"}
      PROVE  core[r] = "none"
  BY <1>g DEF Lifetimes, Lifetime
<1>1. ASSUME \/ \E v \in Vaults : \/ Choose(v) \/ Open(v)
                                  \/ \E o \in Preferences : Prefer(v, o)
             \/ Revoke \/ BackoffEnds \/ FailureAges \/ Boot \/ Exit \/ UNCHANGED vars
             \/ \E r \in Requests : Deadline(r)
      PROVE  Answered'
  BY <1>1, <1>d DEF Choose, Open, Prefer, Revoke, BackoffEnds, FailureAges, Boot, Exit,
     Deadline, vars
<1>2. ASSUME \/ Poll \/ \E r \in Requests : GiveUp(r)
             \/ \E g \in Starts, how \in {"headless", "gone"} : ProcessEnds(g, how)
      PROVE  Answered'
  <2>1. \A r \in Requests : core'[r] = "committed" => core[r] = "committed"
    BY <1>2 DEF Poll, Reap, Buried, GiveUp, Replied, ProcessEnds, TypeOK
  <2> QED
    BY <1>2, <1>d, <2>1 DEF Poll, GiveUp, ProcessEnds
<1>3. ASSUME NEW r \in Requests, NEW o \in Puts \cup Deletes, Prepare(r, o) \/ Stream(r, o)
      PROVE  Answered'
  <2>1. req'[r].told = req[r].told
    BY <1>3 DEF Prepare, Stream, TypeOK, Requested
  <2> QED
    BY <1>3, <1>f, <1>g, <2>1 DEF Prepare, Stream, TypeOK
<1>4. ASSUME NEW r \in Requests, Call(r)
      PROVE  Answered'
  <2>1. CASE Ended(r, "error")
    BY <1>4, <2>1, <1>e DEF Call
  <2>2. CASE req' = [req EXCEPT ![r].at = "session", ![r].vault = workspace]
    <3>1. req'[r].told = req[r].told
      BY <2>2 DEF TypeOK, Requested
    <3> QED
      BY <1>4, <2>2, <1>f, <1>g, <3>1 DEF Call, TypeOK
  <2> QED
    BY <1>4, <2>1, <2>2 DEF Call
<1>5. ASSUME NEW r \in Requests, Cancel(r)
      PROVE  Answered'
  <2>1. CASE Ended(r, "error")
    BY <1>5, <2>1, <1>e DEF Cancel
  <2>2. CASE UNCHANGED <<req, expired>>
    BY <1>5, <2>2, <1>d DEF Cancel
  <2> QED
    BY <1>5, <2>1, <2>2 DEF Cancel
<1>6. CASE Ready
  <2>1. ASSUME NEW r \in Requests
        PROVE  /\ req'[r].vault = req[r].vault /\ req'[r].op = req[r].op
               /\ req'[r].told = req[r].told
    <3>1. CASE req'[r] = req[r]
      BY <3>1
    <3>2. CASE req'[r] = [req[r] EXCEPT !.at = "ready", !.start = starter.start]
      BY <3>2 DEF TypeOK, Requested
    <3> QED
      BY <1>6, <3>1, <3>2 DEF Ready
  <2> QED
    BY <1>6, <1>c, <2>1 DEF Ready, Claims
<1>7. CASE StartFails
  <2>1. CASE UNCHANGED <<req, lifecycle>>
    BY <1>7, <2>1, <1>d DEF StartFails
  <2>2. CASE Owner # {} /\ Ended(starter.owner, "error")
    <3>1. starter.owner \in Requests
      BY <1>7, <2>2, StarterRecord DEF StartFails, Owner
    <3> QED
      BY <1>7, <2>2, <3>1, <1>e DEF StartFails
  <2> QED
    BY <1>7, <2>1, <2>2 DEF StartFails
<1>8. ASSUME NEW r \in Requests, GetSession(r)
      PROVE  Answered'
  <2>1. CASE /\ req' = [req EXCEPT ![r].at = "ready", ![r].start = session]
             /\ UNCHANGED core
    <3>1. req'[r].told = req[r].told
      BY <2>1 DEF TypeOK, Requested
    <3> QED
      BY <1>8, <1>f, <1>g, <2>1, <3>1 DEF GetSession, TypeOK
  <2>2. CASE Reap /\ Ended(r, "error")
    <3>1. \A q \in Requests : core'[q] = "committed" => core[q] = "committed"
      BY <2>2 DEF Reap, Buried
    <3> QED
      BY <2>2, <3>1, <1>e
  <2>3. CASE UNCHANGED <<session, failures, waiting, closed, req, lifecycle, core>>
    BY <2>3, <1>d
  <2>4. CASE RefuseStart(r)
    BY <2>4, <1>e DEF RefuseStart
  <2> QED
    BY <1>8, <2>1, <2>2, <2>3, <2>4 DEF GetSession
<1>9. ASSUME NEW r \in Requests, Send(r)
      PROVE  Answered'
  <2>1. CASE req' = [req EXCEPT ![r].at = "sent"] /\ Handle(r)
    <3>1. req'[r].told = req[r].told /\ core'[r] # "committed"
      BY <2>1 DEF Handle, TypeOK, Requested
    <3> QED
      BY <1>9, <1>f, <2>1, <3>1 DEF Send, Handle, TypeOK
  <2>2. CASE Ended(r, "error") /\ UNCHANGED <<core, rpc>>
    BY <2>2, <1>e
  <2> QED
    BY <1>9, <2>1, <2>2 DEF Send
<1>10. ASSUME NEW r \in Requests, Abandon(r) \/ Answer(r)
       PROVE  Answered'
  <2>1. PICK told \in Answers : Ended(r, told) /\ (told = "committed" => Claims(r))
    BY <1>10 DEF Answers, Abandon, Answer, Told, Claims
  <2>2. \A q \in Requests : core'[q] = "committed" => core[q] = "committed"
    BY <1>10 DEF Abandon, Answer, TypeOK
  <2> QED
    BY <2>1, <2>2, <1>e
<1>11. ASSUME NEW r \in Requests, Dispatch(r)
       PROVE  Answered'
  <2> DEFINE v == req[r].vault
             o == req[r].op
  <2>1. CASE core'[r] = "committed" /\ core[r] # "committed"
    <3>1. Bound(v) /\ "committed" \in Outcomes(workspace, o)
      BY <1>11, <2>1 DEF Dispatch, Replied, TypeOK
    <3>2. CASE Receipt(workspace, o)
      <4>1. v # None /\ o \in receipts'[v]
        BY <3>1, <3>2, <1>a DEF Bound, Receipt, TypeOK
      <4> QED
        BY <1>11, <1>a, <1>b, <4>1 DEF Dispatch, Answered, Claims, Replied, TypeOK
    <3>3. CASE Writable(workspace, o)
      <4>1. v \in Vaults /\ v # None
        BY <3>1 DEF Bound, TypeOK
      <4>2. Write(v, o)
        BY <1>11, <3>1, <3>3 DEF Dispatch, Broker, Bound
      <4>3. o \in receipts'[v]
        BY <4>1, <4>2 DEF Write, TypeOK
      <4> QED
        BY <1>11, <1>a, <1>b, <4>1, <4>3 DEF Dispatch, Answered, Claims, Replied, TypeOK
    <3> QED
      BY <3>1, <3>2, <3>3 DEF Outcomes
  <2>2. CASE core'[r] = "committed" => core[r] = "committed"
    <3>1. \A q \in Requests : core'[q] = "committed" => core[q] = "committed"
      BY <1>11, <2>2 DEF Dispatch, Replied, TypeOK
    <3> QED
      BY <1>11, <3>1, <1>d DEF Dispatch
  <2> QED
    BY <2>1, <2>2
<1> QED
  BY <1>1, <1>2, <1>3, <1>4, <1>5, <1>6, <1>7, <1>8, <1>9, <1>10, <1>11
     DEF Next, Window, Supervisor, Serving, Environment

LEMMA DismissedStep ==
    ASSUME TypeOK, Lifetimes, Dismissed, [Next]_vars
    PROVE  Dismissed'
<1> USE DEF vault, files, supervisor, lifecycle, work
<1> DEFINE Early == {"prepared", "session", "ready"}
\* Steps that keep cancelled requests where they may be.
<1>a. ASSUME early' \subseteq early,
             \A r \in early' : (req[r].at \in Early => req'[r].at \in Early)
                               /\ (entries[r] = "none" => entries'[r] = "none")
      PROVE  Dismissed'
  BY <1>a DEF Dismissed
\* Steps that end a request.
<1>b. ASSUME NEW r \in Requests, NEW told, Ended(r, told)
      PROVE  Dismissed'
  <2>1. \A q \in early' : q \in early /\ q # r
    BY <1>b DEF Ended
  <2>2. \A q \in early' : req'[q] = req[q] /\ entries'[q] = entries[q]
    BY <1>b, <2>1 DEF Ended, TypeOK
  <2> QED
    BY <1>a, <2>1, <2>2
<1>c. early \subseteq Requests
  BY DEF TypeOK
<1>1. ASSUME UNCHANGED <<req, entries, early>>
      PROVE  Dismissed'
  BY <1>1, <1>a
<1>2. ASSUME NEW r \in Requests, NEW o \in Puts \cup Deletes, Prepare(r, o)
      PROVE  Dismissed'
  <2>1. r \notin early
    BY <1>2 DEF Prepare, Dismissed
  <2>2. \A q \in early : req'[q] = req[q] /\ (entries[q] = "none" => entries'[q] = "none")
    BY <1>2, <1>c, <2>1 DEF Prepare, TypeOK
  <2> QED
    BY <1>2, <1>a, <2>2 DEF Prepare
<1>3. ASSUME NEW r \in Requests, NEW o \in Puts \cup Deletes, Stream(r, o)
      PROVE  Dismissed'
  <2>1. r \notin early
    BY <1>3 DEF Stream, Dismissed
  <2> QED
    BY <1>3, <1>a, <1>c, <2>1 DEF Stream, TypeOK
<1>4. ASSUME NEW r \in Requests, Call(r)
      PROVE  Dismissed'
  <2>1. CASE Ended(r, "error")
    BY <2>1, <1>b
  <2>2. CASE /\ entries[r] # "none"
             /\ req' = [req EXCEPT ![r].at = "session", ![r].vault = workspace]
             /\ entries' = [entries EXCEPT ![r] = "claimed"]
             /\ UNCHANGED <<expired, early>>
    <3>1. r \notin early
      BY <2>2 DEF Dismissed
    <3> QED
      BY <2>2, <1>a, <1>c, <3>1 DEF TypeOK
  <2> QED
    BY <1>4, <2>1, <2>2 DEF Call
<1>5. ASSUME NEW r \in Requests, Cancel(r)
      PROVE  Dismissed'
  <2>1. CASE Ended(r, "error")
    BY <2>1, <1>b
  <2>2. CASE /\ r \notin Streams /\ req[r].at \in {"prepared"} \cup Asking
             /\ entries' = Forget(r)
             /\ early' = IF req[r].at = "sent" THEN early ELSE early \cup {r}
             /\ UNCHANGED <<req, expired>>
    BY <2>2 DEF Forget, Dismissed, Asking, TypeOK
  <2> QED
    BY <1>5, <2>1, <2>2 DEF Cancel
<1>6. CASE Ready
  <2>1. ASSUME NEW r \in Requests
        PROVE  req'[r] = req[r] \/ req'[r].at = "ready"
    <3>1. CASE req'[r] = [req[r] EXCEPT !.at = "ready", !.start = starter.start]
      BY <3>1 DEF TypeOK, Requested
    <3> QED
      BY <1>6, <3>1 DEF Ready
  <2> QED
    BY <1>6, <1>a, <1>c, <2>1 DEF Ready
<1>7. CASE StartFails
  <2>1. CASE UNCHANGED <<req, lifecycle>>
    BY <2>1, <1>1
  <2>2. CASE Owner # {} /\ Ended(starter.owner, "error")
    <3>1. starter.owner \in Requests
      BY <1>7, <2>2, StarterRecord DEF StartFails, Owner
    <3> QED
      BY <2>2, <3>1, <1>b
  <2> QED
    BY <1>7, <2>1, <2>2 DEF StartFails
<1>8. ASSUME NEW r \in Requests, GetSession(r)
      PROVE  Dismissed'
  <2>1. CASE /\ req' = [req EXCEPT ![r].at = "ready", ![r].start = session]
             /\ UNCHANGED lifecycle
    <3>1. \A q \in Requests : req'[q] = req[q] \/ req'[q].at = "ready"
      BY <2>1 DEF TypeOK, Requested
    <3> QED
      BY <2>1, <3>1, <1>a, <1>c
  <2>2. CASE Ended(r, "error")
    BY <2>2, <1>b
  <2>3. CASE UNCHANGED <<session, failures, waiting, closed, req, lifecycle, core>>
    BY <2>3, <1>1
  <2> QED
    BY <1>8, <2>1, <2>2, <2>3 DEF GetSession, RefuseStart
<1>9. ASSUME NEW r \in Requests, Send(r)
      PROVE  Dismissed'
  <2>1. CASE req' = [req EXCEPT ![r].at = "sent"] /\ UNCHANGED lifecycle
    <3>1. r \notin early
      BY <1>9 DEF Send, Signalled, Dismissed
    <3> QED
      BY <2>1, <3>1, <1>a, <1>c DEF TypeOK
  <2>2. CASE Ended(r, "error")
    BY <2>2, <1>b
  <2> QED
    BY <1>9, <2>1, <2>2 DEF Send
<1>10. ASSUME NEW r \in Requests, Abandon(r) \/ Answer(r)
       PROVE  Dismissed'
  BY <1>10, <1>b DEF Abandon, Answer
<1>11. ASSUME NEW r \in Requests, GiveUp(r) \/ Dispatch(r) \/ Deadline(r)
       PROVE  Dismissed'
  BY <1>11, <1>1 DEF GiveUp, Dispatch, Deadline
<1>12. ASSUME NEW v \in Vaults, Choose(v) \/ Open(v) \/ \E o \in Preferences : Prefer(v, o)
       PROVE  Dismissed'
  BY <1>12, <1>1 DEF Choose, Open, Prefer
<1>13. ASSUME Poll \/ Boot \/ BackoffEnds \/ FailureAges \/ Revoke \/ Exit \/ UNCHANGED vars
       PROVE  Dismissed'
  BY <1>13, <1>1 DEF Poll, Boot, BackoffEnds, FailureAges, Revoke, Exit, vars
<1>14. ASSUME NEW g \in Starts, NEW how \in {"headless", "gone"}, ProcessEnds(g, how)
       PROVE  Dismissed'
  BY <1>14, <1>1 DEF ProcessEnds
<1> QED
  BY <1>2, <1>3, <1>4, <1>5, <1>6, <1>7, <1>8, <1>9, <1>10, <1>11, <1>12, <1>13, <1>14
     DEF Next, Window, Supervisor, Serving, Environment

-----------------------------------------------------------------------------
(* The theorems *)

LEMMA InitHost == Init => HostInv
<1> SUFFICES ASSUME Init
             PROVE  HostInv
  OBVIOUS
<1>1. TypeOK
  <2>1. [at |-> "idle", op |-> None, vault |-> None, start |-> 0, told |-> None] \in Requested
    BY ConstantsAssumption DEF Requested
  <2>2. /\ disk \in [Vaults -> [Kinds -> Contents]]
        /\ receipts \in [Vaults -> SUBSET Ops] /\ asked \in [Vaults -> SUBSET Ops]
        /\ applied \in [Vaults -> [Ops -> 0..2]]
    BY DEF Init, Contents
  <2>3. events \in 0..MaxEvents
    BY ConstantsAssumption DEF Init
  <2>4. req \in [Requests -> Requested]
    BY <2>1 DEF Init
  <2> QED
    BY <2>2, <2>3, <2>4 DEF Init, TypeOK
<1>2. Lifetimes
  BY ConstantsAssumption DEF Init, Lifetimes, Lifetime
<1>3. Supervised
  BY DEF Init, Supervised, Alive
<1>4. Receipted
  BY DEF Init, Receipted
<1>5. Answered
  BY ConstantsAssumption DEF Init, Answered, Claims
<1>6. Dismissed
  BY DEF Init, Dismissed
<1> QED
  BY <1>1, <1>2, <1>3, <1>4, <1>5, <1>6 DEF HostInv

\* In every behaviour of the host and Core the requests, the supervisor, the
\* records and their receipts agree as HostInv says.
THEOREM HostInvariant == Spec => []HostInv
<1>1. Init => HostInv
  BY InitHost
<1>2. HostInv /\ [Next]_vars => HostInv'
  BY TypeStep, LifetimesStep, SupervisedStep, ReceiptedStep, AnsweredStep, DismissedStep
     DEF HostInv
<1> QED
  BY <1>1, <1>2, PTL DEF Spec

\* At most one group of Core processes lives, and none after the end.
THEOREM OneCoreHolds == Spec => []OneCore
<1>1. HostInv => OneCore
  <2> SUFFICES ASSUME HostInv
               PROVE  OneCore
    OBVIOUS
  <2> DEFINE Living == {g \in Starts : Alive(g)}
  <2>1. PICK g \in Nat : Living \subseteq {g}
    <3>1. CASE starter # None
      BY <3>1, StarterRecord, ConstantsAssumption DEF HostInv, Supervised, Starts
    <3>2. CASE starter = None /\ session # None
      BY <3>2, ConstantsAssumption DEF HostInv, TypeOK, Supervised, Starts
    <3>3. CASE starter = None /\ session = None
      <4>1. Living = {}
        BY <3>3, ConstantsAssumption DEF HostInv, Supervised, Starts
      <4> QED
        BY <4>1
    <3> QED
      BY <3>1, <3>2, <3>3
  <2>2. Cardinality(Living) <= Cardinality({g})
    BY <2>1, FS_Singleton, FS_Subset
  <2>3. Cardinality({g}) = 1
    BY FS_Singleton
  <2>4. exited => Living = {}
    BY ConstantsAssumption DEF HostInv, Supervised, Starts
  <2> QED
    BY <2>2, <2>3, <2>4 DEF OneCore
<1> QED
  BY <1>1, HostInvariant, PTL

\* A vault only holds what was asked of it while it was the open one.
THEOREM StaysInVaultHolds == Spec => []StaysInVault
<1>1. HostInv => StaysInVault
  BY DEF HostInv, Receipted, StaysInVault
<1> QED
  BY <1>1, HostInvariant, PTL

\* A change is made once, whoever asks for it and however often, and told as
\* committed only when it was made.
THEOREM ExactlyOnceHolds == Spec => []ExactlyOnce
<1>1. HostInv => ExactlyOnce
  <2> SUFFICES ASSUME HostInv
               PROVE  ExactlyOnce
    OBVIOUS
  <2>1. \A r \in Requests : req[r].told = "committed" =>
           /\ req[r].vault \in Vaults
           /\ req[r].op \in receipts[req[r].vault]
    BY DEF HostInv, Answered, Claims, TypeOK, Requested
  <2>2. receipts \in [Vaults -> SUBSET Ops]
    BY DEF HostInv, TypeOK
  <2> QED
    BY <2>1, <2>2 DEF HostInv, Receipted, ExactlyOnce
<1> QED
  BY <1>1, HostInvariant, PTL

\* A request that was cancelled before it was sent never reaches Core.
THEOREM CancelledNeverRunsHolds == Spec => []CancelledNeverRuns
<1>1. HostInv => CancelledNeverRuns
  BY DEF HostInv, Dismissed, CancelledNeverRuns
<1> QED
  BY <1>1, HostInvariant, PTL
=============================================================================

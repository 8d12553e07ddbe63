----------------------- MODULE WorkspaceJournalProofs -----------------------
(***************************************************************************)
(* Proofs about WorkspaceJournal, for any operations, identities, paths,   *)
(* contents and any number of crashes, faults and external edits.          *)
(***************************************************************************)
EXTENDS WorkspaceJournal, TLAPS

\* The catalogue after Reidentified is a catalogue.
LEMMA ReidentifiedType ==
    ASSUME TypeOK, NEW p \in Paths, NEW ident \in FileIds
    PROVE  Reidentified(p, ident) \in [FileIds -> Rows]
  BY DEF TypeOK, Reidentified, Rows, Places

\* The catalogue after a scan is a catalogue.
LEMMA ScannedType ==
    ASSUME TypeOK, NEW fresh \in FreshIds
    PROVE  Scanned(fresh) \in [FileIds -> Rows]
<1> SUFFICES ASSUME NEW id \in FileIds
             PROVE  Scanned(fresh)[id] \in Rows
  BY DEF Scanned
<1> DEFINE row == files[id]
           named == {p \in NewPaths : fresh[p] = id}
<1>1. row \in Rows
  BY DEF TypeOK
<1>2. NewPaths \subseteq Paths
  BY DEF NewPaths
<1>3. CASE named # {}
  <2>1. (CHOOSE p \in named : TRUE) \in Paths
    BY <1>2, <1>3
  <2>2. Scanned(fresh)[id] = [path |-> CHOOSE p \in named : TRUE,
                              hash |-> disk[CHOOSE p \in named : TRUE],
                              revision |-> 1, deleted |-> FALSE]
    BY <1>3 DEF Scanned
  <2>3. disk[CHOOSE p \in named : TRUE] \in Hashes
    BY <2>1 DEF TypeOK
  <2> QED
    BY <2>1, <2>2, <2>3 DEF Rows, Places
<1>4. CASE named = {} /\ row.path \in NewPaths
  BY <1>1, <1>4 DEF Scanned, Rows, Places
<1>5. CASE named = {} /\ row.path \notin NewPaths
  <2>1. CASE row.deleted \/ row.path \notin Paths
    <3>1. Scanned(fresh)[id] = row
      BY <1>5, <2>1 DEF Scanned
    <3> QED
      BY <1>1, <3>1
  <2>2. CASE ~row.deleted /\ row.path \in Paths /\ disk[row.path] = Absent
    <3>1. Scanned(fresh)[id]
            = [row EXCEPT !.deleted = TRUE, !.revision = row.revision + 1]
      BY <1>5, <2>2 DEF Scanned
    <3>2. row.revision + 1 \in Nat
      BY <1>1 DEF Rows
    <3> HIDE DEF row
    <3> QED
      BY <1>1, <3>1, <3>2 DEF Rows
  <2>3. CASE ~row.deleted /\ row.path \in Paths /\ disk[row.path] # Absent
    <3>1. Scanned(fresh)[id]
            = [row EXCEPT !.hash = disk[row.path],
                          !.revision = IF row.hash = disk[row.path]
                                       THEN row.revision ELSE row.revision + 1]
      BY <1>5, <2>3 DEF Scanned
    <3>2. disk[row.path] \in Hashes
      BY <2>3 DEF TypeOK
    <3>3. row.revision \in Nat /\ row.revision + 1 \in Nat
      BY <1>1 DEF Rows
    <3> HIDE DEF row
    <3> QED
      BY <1>1, <3>1, <3>2, <3>3 DEF Rows
  <2> QED
    BY <2>1, <2>2, <2>3
<1> QED
  BY <1>3, <1>4, <1>5

\* The host record after leaving a call, or moving to another step of it.
LEMMA HostType ==
    ASSUME TypeOK
    PROVE  /\ Closed \in Hosts /\ Idle \in Hosts
           /\ \A op \in Ops : /\ At("calling", op, "check") \in Hosts
                              /\ At(host.mode, op, "check") \in Hosts
           /\ At("replaying", NoOp, "none") \in Hosts
           /\ At("opening", NoOp, "none") \in Hosts
           /\ At(host.mode, NoOp, "none") \in Hosts
           /\ \A step \in Steps : [host EXCEPT !.step = step] \in Hosts
  BY DEF TypeOK, Hosts, Closed, Idle, At, Steps

\* A row stays a row when an operation moves it, retires it or rehashes it.
LEMMA RowUpdates ==
    ASSUME NEW row \in Rows, NEW p \in Places, NEW h \in Hashes
    PROVE  /\ [row EXCEPT !.path = p] \in Rows
           /\ [row EXCEPT !.path = p, !.revision = row.revision + 1] \in Rows
           /\ [row EXCEPT !.deleted = TRUE, !.revision = row.revision + 1] \in Rows
           /\ [row EXCEPT !.hash = h, !.revision = row.revision + 1] \in Rows
           /\ row.revision + 1 \in Nat
<1>1. row.revision + 1 \in Nat
  BY DEF Rows
<1> QED
  BY <1>1 DEF Rows

\* Submitting keeps every variable in its type.
LEMMA SubmitType ==
    ASSUME TypeOK, Submit
    PROVE  TypeOK'
<1>1. ASSUME NEW op \in Ops, NEW p \in Paths, NEW c \in Contents,
             NEW origin \in Origins, NEW ident \in FileIds \cup {NoId},
             SubmitWrite(op, p, c, origin, ident)
      PROVE  TypeOK'
  <2> DEFINE req == [kind |-> "write", path |-> p, dest |-> NoPath,
                     expected |-> disk[p], digest |-> c, origin |-> origin]
             named == IF ident = NoId THEN files ELSE Reidentified(p, ident)
  <2>1. named \in [FileIds -> Rows]
    BY ReidentifiedType DEF TypeOK
  <2>2. req \in Requests
    BY DEF TypeOK, Requests, Kinds, Places, Hashes
  <2>3. files' = named
    BY <1>1 DEF SubmitWrite
  <2>4. CASE UNCHANGED <<operations, request, host, journal>>
    BY <1>1, <2>1, <2>3, <2>4 DEF TypeOK, SubmitWrite
  <2>5. CASE /\ Accepted(op, req)
             /\ \E id \in FileIds : journal' = [journal EXCEPT ![op] = id]
    <3>1. host' \in Hosts
      BY <2>5, HostType DEF Accepted
    <3>2. operations' \in [Ops -> States] /\ request' \in [Ops -> Requests]
      BY <2>2, <2>5 DEF Accepted, TypeOK, States
    <3>3. journal' \in [Ops -> FileIds \cup {NoId}]
      BY <2>5 DEF TypeOK
    <3> QED
      BY <1>1, <2>1, <2>3, <3>1, <3>2, <3>3 DEF TypeOK, SubmitWrite
  <2> QED
    <3>1. \/ UNCHANGED <<operations, request, host, journal>>
          \/ /\ Accepted(op, req)
             /\ \E id \in IF {i \in FileIds : named[i].path = p} # {}
                          THEN {i \in FileIds : named[i].path = p}
                          ELSE IF ident # NoId THEN {ident} ELSE Unused :
                    journal' = [journal EXCEPT ![op] = id]
      BY <1>1 DEF SubmitWrite
    <3>2. Unused \subseteq FileIds
      BY DEF Unused
    <3> QED
      BY <2>4, <2>5, <3>1, <3>2
<1>2. ASSUME NEW op \in Ops, NEW p \in Paths, NEW q \in Paths,
             NEW kind \in {"rename", "delete"}, NEW origin \in Origins,
             SubmitMove(op, kind, p, q, origin)
      PROVE  TypeOK'
  <2> DEFINE req == [kind |-> kind, path |-> p,
                     dest |-> IF kind = "rename" THEN q ELSE NoPath,
                     expected |-> disk[p], digest |-> disk[p], origin |-> origin]
  <2>1. req \in Requests
    BY DEF TypeOK, Requests, Kinds, Places
  <2>2. Accepted(op, req)
    BY <1>2 DEF SubmitMove
  <2>3. host' \in Hosts
    BY <2>2, HostType DEF Accepted
  <2>4. operations' \in [Ops -> States] /\ request' \in [Ops -> Requests]
    BY <2>1, <2>2 DEF Accepted, TypeOK, States
  <2> QED
    BY <1>2, <2>3, <2>4 DEF TypeOK, SubmitMove
<1>3. ASSUME NEW op \in Ops, Resubmit(op)
      PROVE  TypeOK'
  BY <1>3, HostType DEF TypeOK, Resubmit
<1> QED
  BY <1>1, <1>2, <1>3 DEF Submit, Origins

\* Leaving a call keeps the host in its type.
LEMMA LeaveType ==
    ASSUME TypeOK
    PROVE  /\ Abandon => host' \in Hosts
           /\ NextIntent => host' \in Hosts
           /\ \A step \in Steps : Goto(step) => host' \in Hosts
  BY HostType DEF Abandon, NextIntent, Goto

\* The records a commit writes are of their types.
LEMMA CommitRecords ==
    ASSUME TypeOK, NEW op \in Ops, NEW id \in FileIds, NEW row \in Rows,
           NEW kind \in {"put", "delete"}, NEW h \in Hashes
    PROVE  /\ Answer(op, id, row) => receipt' \in [Ops -> Receipts]
           /\ Enqueue(op, [kind |-> kind, file |-> id, path |-> row.path,
                           hash |-> h, revision |-> row.revision])
              => outbox' \in [Ops -> Sends]
           /\ \A any : Observe(any, row) => observed' \in [FileIds -> Sightings]
<1>1. [file |-> id, path |-> row.path, hash |-> row.hash,
       revision |-> row.revision, deleted |-> row.deleted] \in Receipts
  BY DEF Receipts, Rows
<1>2. [kind |-> kind, file |-> id, path |-> row.path, hash |-> h,
       revision |-> row.revision] \in Sends
  BY DEF Sends, Rows
<1>3. [path |-> row.path, hash |-> row.hash, deleted |-> row.deleted]
        \in Sightings
  BY DEF Sightings, Rows
<1> QED
  BY <1>1, <1>2, <1>3 DEF TypeOK, Answer, Enqueue, Observe

\* Applying an intent keeps every variable in its type.
LEMMA ApplyType ==
    ASSUME TypeOK, CallInProgress, NEW op \in Ops, Apply(op)
    PROVE  TypeOK'
<1> DEFINE req == request[op]
<1>a. req \in Requests /\ req.expected \in Hashes /\ req.digest \in Hashes
  BY DEF TypeOK, Requests
<1>b. ASSUME NEW state \in States, Settle(op, state)
      PROVE  operations' \in [Ops -> States]
  BY <1>b DEF TypeOK, Settle
<1>1. CASE CheckWrite(op)
  <2>1. host' \in Hosts
    BY <1>1, LeaveType DEF CheckWrite, Steps
  <2>2. operations' \in [Ops -> States]
    BY <1>1, <1>b DEF CheckWrite, States, TypeOK
  <2> QED
    BY <1>1, <2>1, <2>2 DEF CheckWrite, TypeOK
<1>2. CASE ReplaceFile(op)
  BY <1>2, <1>a, LeaveType DEF ReplaceFile, TypeOK, Steps
<1>3. CASE CommitWrite(op)
  <2> DEFINE owners == RowsAt(req.path)
  <2>1. journal[op] \in FileIds /\ owners \subseteq FileIds
    BY <1>3 DEF CallInProgress, CommitWrite, RowsAt
  <2>2. PICK owner \in IF owners # {} THEN owners ELSE {journal[op]} :
          LET row == [path |-> req.path, hash |-> req.digest,
                      revision |-> files[owner].revision + 1,
                      deleted |-> FALSE]
          IN  /\ files' = [files EXCEPT ![owner] = row]
              /\ Answer(op, owner, row)
              /\ Enqueue(op, [kind |-> "put", file |-> owner,
                              path |-> row.path, hash |-> row.hash,
                              revision |-> row.revision])
              /\ Observe(journal[op], row)
    BY <1>3 DEF CommitWrite
  <2> DEFINE row == [path |-> req.path, hash |-> req.digest,
                     revision |-> files[owner].revision + 1, deleted |-> FALSE]
  <2>3. owner \in FileIds
    BY <2>1, <2>2
  <2>4. files[owner].revision + 1 \in Nat
    BY <2>3 DEF TypeOK, Rows
  <2>5. row \in Rows
    BY <1>a, <2>4 DEF Rows, Requests
  <2>6. /\ files' = [files EXCEPT ![owner] = row]
        /\ Answer(op, owner, row)
        /\ Enqueue(op, [kind |-> "put", file |-> owner, path |-> row.path,
                        hash |-> row.hash, revision |-> row.revision])
        /\ Observe(journal[op], row)
    BY <2>2
  <2>7. files' \in [FileIds -> Rows]
    BY <2>3, <2>5, <2>6 DEF TypeOK
  <2>8. row.hash \in Hashes
    BY <1>a
  <2> HIDE DEF row
  <2>9. /\ receipt' \in [Ops -> Receipts]
        /\ outbox' \in [Ops -> Sends]
        /\ observed' \in [FileIds -> Sightings]
    BY <2>3, <2>5, <2>6, <2>8, CommitRecords
  <2>10. host' \in Hosts /\ operations' \in [Ops -> States]
    BY <1>3, <1>b, LeaveType DEF CommitWrite, States
  <2>11. hints' \in SUBSET Paths
    <3>1. hints' = hints \cup {req.path} /\ disk[req.path] # Absent
      BY <1>3 DEF CommitWrite
    <3>2. req.path \in Paths
      BY <1>3 DEF CallInProgress, CommitWrite
    <3> QED
      BY <3>1, <3>2 DEF TypeOK
  <2> QED
    BY <1>3, <2>7, <2>9, <2>10, <2>11 DEF CommitWrite, TypeOK
<1>4. CASE CheckMove(op)
  <2>1. host' \in Hosts
    BY <1>4, LeaveType DEF CheckMove, Steps
  <2>2. operations' \in [Ops -> States]
    BY <1>4, <1>b DEF CheckMove, States, TypeOK
  <2> QED
    BY <1>4, <2>1, <2>2 DEF CheckMove, TypeOK
<1>5. CASE CopyToTarget(op)
  <2>1. host' \in Hosts
    BY <1>5, LeaveType DEF CopyToTarget, Steps
  <2>2. disk' \in [Paths -> Hashes] /\ trash' \in [Ops -> Hashes]
    BY <1>5, <1>a DEF CopyToTarget, TypeOK
  <2> QED
    BY <1>5, <2>1, <2>2 DEF CopyToTarget, TypeOK
<1>6. CASE RemoveSource(op)
  BY <1>6, LeaveType DEF RemoveSource, TypeOK, Steps, Hashes
<1>7. CASE CommitMove(op)
  <2>1. PICK id \in RowsAt(req.path) :
          LET row == MovedRow(op, id)
          IN  /\ files' = [i \in FileIds |->
                     IF i = id THEN row
                     ELSE IF i \in RetiredFor(op, id)
                     THEN [files[i] EXCEPT !.path = Retired]
                     ELSE files[i]]
              /\ Answer(op, id, row)
              /\ Enqueue(op,
                     [kind |-> IF req.kind = "rename" THEN "put" ELSE "delete",
                      file |-> id, path |-> row.path,
                      hash |-> IF req.kind = "rename" THEN row.hash ELSE Absent,
                      revision |-> row.revision])
              /\ Observe(id, row)
    BY <1>7 DEF CommitMove
  <2> DEFINE row == MovedRow(op, id)
             h == IF req.kind = "rename" THEN row.hash ELSE Absent
             kind == IF req.kind = "rename" THEN "put" ELSE "delete"
  <2>2. id \in FileIds
    BY SMTT(30) DEF RowsAt
  <2>3. row \in Rows
    BY <1>a, <2>2, RowUpdates DEF MovedRow, TypeOK, Requests
  <2>4. h \in Hashes /\ kind \in {"put", "delete"}
    BY <2>3 DEF Rows, Hashes
  <2>5. files' \in [FileIds -> Rows]
    <3>1. Retired \in Places
      BY SMTT(30) DEF Places
    <3>2. \A i \in FileIds : [files[i] EXCEPT !.path = Retired] \in Rows
      BY <3>1, RowUpdates DEF TypeOK, Hashes
    <3>3. files' = [i \in FileIds |->
                      IF i = id THEN row
                      ELSE IF i \in RetiredFor(op, id)
                      THEN [files[i] EXCEPT !.path = Retired]
                      ELSE files[i]]
      BY <2>1
    <3> HIDE DEF row
    <3> QED
      BY <2>3, <3>2, <3>3 DEF TypeOK
  <2>6. /\ Answer(op, id, row)
        /\ Enqueue(op, [kind |-> kind, file |-> id, path |-> row.path,
                        hash |-> h, revision |-> row.revision])
        /\ Observe(id, row)
    BY <2>1
  <2> HIDE DEF row, h, kind
  <2>7. /\ receipt' \in [Ops -> Receipts]
        /\ outbox' \in [Ops -> Sends]
        /\ observed' \in [FileIds -> Sightings]
    BY <2>2, <2>3, <2>4, <2>6, CommitRecords
  <2>8. host' \in Hosts /\ operations' \in [Ops -> States]
    BY <1>7, <1>b, LeaveType DEF CommitMove, States
  <2> QED
    BY <1>7, <2>5, <2>7, <2>8 DEF CommitMove, TypeOK
<1>8. CASE ApplyFails(op)
  BY <1>8, LeaveType DEF ApplyFails, TypeOK
<1> QED
  BY <1>1, <1>2, <1>3, <1>4, <1>5, <1>6, <1>7, <1>8 DEF Apply

\* The other steps keep every variable in its type.
LEMMA OtherType ==
    ASSUME TypeOK,
           \/ Scan
           \/ \E p \in Paths : Read(p)
           \/ Open
           \/ Recover
           \/ Environment
           \/ UNCHANGED vars
    PROVE  TypeOK'
<1>a. ScanFiles => files' \in [FileIds -> Rows] /\ hints' \in SUBSET Paths
  BY ScannedType DEF ScanFiles
<1>1. CASE Scan
  BY <1>1, <1>a DEF Scan, TypeOK
<1>2. ASSUME NEW p \in Paths, Read(p)
      PROVE  TypeOK'
  <2>1. CASE ScanFiles
    BY <1>2, <1>a, <2>1 DEF Read, TypeOK
  <2>2. CASE \E id \in LiveAt(p) :
                files' = [files EXCEPT ![id].hash = disk[p],
                                       ![id].revision = @ + 1]
    <3>1. PICK id \in FileIds :
             files' = [files EXCEPT ![id].hash = disk[p],
                                    ![id].revision = @ + 1]
      BY <2>2 DEF LiveAt, RowsAt
    <3>2. files' = [files EXCEPT ![id] =
                       [files[id] EXCEPT !.hash = disk[p],
                                         !.revision = files[id].revision + 1]]
      BY <3>1 DEF TypeOK, Rows
    <3>3. files[id] \in Rows /\ disk[p] \in Hashes
      BY DEF TypeOK
    <3>4. Retired \in Places
      BY SMTT(30) DEF Places
    <3>5. files' \in [FileIds -> Rows]
      BY <3>2, <3>3, <3>4, RowUpdates DEF TypeOK
    <3>6. CASE UNCHANGED hints
      BY <1>2, <3>5, <3>6 DEF Read, TypeOK
    <3> QED
      BY <1>2, <1>a, <3>5, <3>6 DEF Read, TypeOK
  <2> QED
    BY <1>2, <2>1, <2>2 DEF Read
<1>3. CASE Open
  BY <1>3, HostType DEF Open, TypeOK
<1>4. CASE Recover
  <2>1. ASSUME NEW op \in Ops, RecoverNext(op)
        PROVE  TypeOK'
    BY <2>1, HostType DEF RecoverNext, TypeOK
  <2>2. CASE RecoverDone
    BY <2>2, <1>a, HostType DEF RecoverDone, TypeOK
  <2> QED
    BY <1>4, <2>1, <2>2 DEF Recover
<1>5. CASE Environment
  <2>1. CASE Crash
    BY <2>1, HostType DEF Crash, TypeOK
  <2>2. CASE Fault
    BY <2>2, LeaveType DEF Fault, TypeOK
  <2>3. ASSUME NEW p \in Paths, NEW h \in Hashes, ExternalEdit(p, h)
        PROVE  TypeOK'
    BY <2>3 DEF ExternalEdit, TypeOK
  <2> QED
    BY <1>5, <2>1, <2>2, <2>3 DEF Environment
<1>6. CASE UNCHANGED vars
  BY <1>6 DEF vars, TypeOK
<1> QED
  BY <1>1, <1>2, <1>3, <1>4, <1>5, <1>6

\* Every step keeps the types.
LEMMA TypeStep ==
    ASSUME TypeOK, CallInProgress, [Next]_vars
    PROVE  TypeOK'
  BY SubmitType, ApplyType, OtherType DEF Next

\* The call in progress keeps working on a pending intent.
LEMMA CallStep ==
    ASSUME TypeOK, CallInProgress, [Next]_vars
    PROVE  CallInProgress'
<1>a. NoOp \notin Ops /\ host.op \in Ops \cup {NoOp}
  BY ConstantsAssumption DEF TypeOK, Hosts
<1>b. /\ Closed.op = NoOp /\ Closed.step = "none"
      /\ Idle.op = NoOp /\ Idle.step = "none"
      /\ \A mode, op, step : /\ At(mode, op, step).op = op
                             /\ At(mode, op, step).step = step
                             /\ At(mode, op, step).mode = mode
  BY DEF Closed, Idle, At
<1>c. ASSUME UNCHANGED <<operations, request, journal>>,
             host'.op = NoOp, host'.step = "none"
      PROVE  CallInProgress'
  BY <1>c DEF CallInProgress, Moves
<1>d. ASSUME NEW step \in Steps \ {"none"}, Goto(step), host.op # NoOp,
             step = "replace" => request[host.op].kind = "write",
             step \in {"copy", "remove"} => Moves(host.op),
             UNCHANGED <<operations, request, journal>>
      PROVE  CallInProgress'
  <2>1. host'.op = host.op /\ host'.step = step
    BY <1>d DEF Goto, TypeOK, Hosts
  <2> QED
    BY <1>d, <2>1 DEF CallInProgress, Moves
<1>e. ASSUME NEW op \in Ops, NEW req, Accepted(op, req),
             req.kind = "write" => journal'[op] \in FileIds /\ req.path \in Paths,
             \A o \in Ops \ {op} : journal'[o] = journal[o]
      PROVE  CallInProgress'
  <2>1. host'.op = op /\ host'.step = "check"
    BY <1>e, <1>b DEF Accepted
  <2>2. operations'[op] = "pending" /\ request'[op] = req
    BY <1>e DEF Accepted, TypeOK
  <2>3. \A o \in Ops \ {op} : request'[o] = request[o]
    BY <1>e DEF Accepted, TypeOK
  <2> QED
    BY <1>a, <1>e, <2>1, <2>2, <2>3 DEF CallInProgress
<1>1. ASSUME NEW op \in Ops, NEW p \in Paths, NEW c \in Contents,
             NEW origin \in Origins, NEW ident \in FileIds \cup {NoId},
             SubmitWrite(op, p, c, origin, ident)
      PROVE  CallInProgress'
  <2> DEFINE req == [kind |-> "write", path |-> p, dest |-> NoPath,
                     expected |-> disk[p], digest |-> c, origin |-> origin]
             named == IF ident = NoId THEN files ELSE Reidentified(p, ident)
             owners == {id \in FileIds : named[id].path = p}
  <2>1. CASE UNCHANGED <<operations, request, host, journal>>
    BY <2>1 DEF CallInProgress, Moves
  <2>2. CASE /\ Accepted(op, req)
             /\ \E id \in IF owners # {} THEN owners
                          ELSE IF ident # NoId THEN {ident} ELSE Unused :
                    journal' = [journal EXCEPT ![op] = id]
    <3>1. \E id \in FileIds : journal' = [journal EXCEPT ![op] = id]
      BY <2>2 DEF Unused
    <3> QED
      BY <1>e, <2>2, <3>1 DEF TypeOK
  <2> QED
    BY <1>1, <2>1, <2>2 DEF SubmitWrite
<1>2. ASSUME NEW op \in Ops, NEW p \in Paths, NEW q \in Paths,
             NEW kind \in {"rename", "delete"}, NEW origin \in Origins,
             SubmitMove(op, kind, p, q, origin)
      PROVE  CallInProgress'
  <2> DEFINE req == [kind |-> kind, path |-> p,
                     dest |-> IF kind = "rename" THEN q ELSE NoPath,
                     expected |-> disk[p], digest |-> disk[p], origin |-> origin]
  <2>1. Accepted(op, req) /\ journal' = journal /\ req.kind # "write"
    BY <1>2 DEF SubmitMove
  <2> HIDE DEF req
  <2> QED
    BY <1>e, <2>1
<1>3. ASSUME NEW op \in Ops, Resubmit(op)
      PROVE  CallInProgress'
  BY <1>3, <1>b, <1>c DEF Resubmit
<1>4. ASSUME NEW op \in Ops, Apply(op)
      PROVE  CallInProgress'
  <2>a. ASSUME NEW state \in {"committed", "conflict"}, Settle(op, state),
               host.op = op, NextIntent, UNCHANGED <<request, journal>>
        PROVE  CallInProgress'
    <3>1. host'.op = NoOp /\ host'.step = "none"
      BY <1>b, <2>a DEF NextIntent
    <3> QED
      BY <2>a, <3>1 DEF CallInProgress, Moves
  <2>b. Abandon => host'.op = NoOp /\ host'.step = "none"
    BY <1>b DEF Abandon
  <2>1. CASE CheckWrite(op)
    <3>1. CASE Settle(op, "conflict") /\ NextIntent
      BY <2>1, <2>a, <3>1 DEF CheckWrite
    <3>2. CASE Goto("commit") /\ UNCHANGED operations
      BY <1>a, <1>d, <2>1, <3>2 DEF CheckWrite, Steps
    <3>3. CASE Goto("replace") /\ UNCHANGED operations
      BY <1>a, <1>d, <2>1, <3>3 DEF CheckWrite, Steps
    <3> QED
      BY <2>1, <3>1, <3>2, <3>3 DEF CheckWrite
  <2>2. CASE ReplaceFile(op)
    BY <1>a, <1>d, <2>2 DEF ReplaceFile, Steps
  <2>3. CASE CommitWrite(op)
    BY <2>3, <2>a DEF CommitWrite
  <2>4. CASE CheckMove(op)
    <3>1. CASE Settle(op, "conflict") /\ NextIntent
      BY <2>4, <2>a, <3>1 DEF CheckMove
    <3>2. CASE Goto("copy") /\ UNCHANGED operations
      BY <1>a, <1>d, <2>4, <3>2 DEF CheckMove, Steps
    <3> QED
      BY <2>4, <3>1, <3>2 DEF CheckMove
  <2>5. CASE CopyToTarget(op)
    BY <1>a, <1>d, <2>5 DEF CopyToTarget, Steps, CallInProgress
  <2>6. CASE RemoveSource(op)
    BY <1>a, <1>d, <2>6 DEF RemoveSource, Steps
  <2>7. CASE CommitMove(op)
    BY <2>7, <2>a DEF CommitMove
  <2>8. CASE ApplyFails(op)
    BY <2>8, <2>b, <1>c DEF ApplyFails
  <2> QED
    BY <1>4, <2>1, <2>2, <2>3, <2>4, <2>5, <2>6, <2>7, <2>8 DEF Apply
<1>5. CASE Scan \/ (\E p \in Paths : Read(p))
  BY <1>5 DEF Scan, Read, CallInProgress, Moves
<1>6. CASE Open
  BY <1>6, <1>b, <1>c DEF Open
<1>7. ASSUME NEW op \in Ops, RecoverNext(op)
      PROVE  CallInProgress'
  <2>1. host'.op = op /\ host'.step = "check"
    BY <1>7, <1>b DEF RecoverNext
  <2>2. operations[op] = "pending"
    BY <1>7 DEF RecoverNext, PendingMoves, PendingWrites
  <2> QED
    BY <1>7, <1>a, <2>1, <2>2 DEF RecoverNext, CallInProgress
<1>8. CASE RecoverDone
  BY <1>8, <1>b, <1>c DEF RecoverDone
<1>9. CASE Environment
  <2>1. CASE Crash
    BY <2>1, <1>b, <1>c DEF Crash
  <2>2. CASE Fault
    BY <2>2, <1>b, <1>c DEF Fault, Abandon
  <2>3. ASSUME NEW p \in Paths, NEW h \in Hashes, ExternalEdit(p, h)
        PROVE  CallInProgress'
    BY <2>3 DEF ExternalEdit, CallInProgress, Moves
  <2> QED
    BY <1>9, <2>1, <2>2, <2>3 DEF Environment
<1>10. CASE UNCHANGED vars
  BY <1>10 DEF vars, CallInProgress, Moves
<1> QED
  BY <1>1, <1>2, <1>3, <1>4, <1>5, <1>6, <1>7, <1>8, <1>9, <1>10
     DEF Next, Submit, Recover, Origins

\* Steps that settle nothing keep receipts, outbox and trash as they are; a step
\* that accepts an operation touches only an id that was unused.
LEMMA QuietSteps ==
    ASSUME TypeOK,
           \/ Submit
           \/ Scan
           \/ \E p \in Paths : Read(p)
           \/ Open
           \/ Recover
           \/ Environment
           \/ UNCHANGED vars
    PROVE  /\ UNCHANGED <<receipt, outbox, trash>>
           /\ \A op \in Ops :
                 \/ operations'[op] = operations[op] /\ request'[op] = request[op]
                 \/ operations[op] = "none" /\ operations'[op] = "pending"
<1>1. CASE Submit
  BY <1>1 DEF Submit, SubmitWrite, SubmitMove, Resubmit, Accepted, TypeOK
<1>2. CASE \/ Scan
           \/ \E p \in Paths : Read(p)
           \/ Open
           \/ Recover
  BY <1>2 DEF Scan, Read, Open, Recover, RecoverNext, RecoverDone
<1>3. CASE Environment \/ UNCHANGED vars
  BY <1>3 DEF Environment, Crash, Fault, ExternalEdit, vars
<1> QED
  BY <1>1, <1>2, <1>3

\* Outbox entries keep matching the committed local operations.
LEMMA OutboxStep ==
    ASSUME TypeOK, CallInProgress, OutboxMatchesReceipts, [Next]_vars
    PROVE  OutboxMatchesReceipts'
<1>1. CASE \/ Submit
           \/ Scan
           \/ \E p \in Paths : Read(p)
           \/ Open
           \/ Recover
           \/ Environment
           \/ UNCHANGED vars
  BY <1>1, QuietSteps DEF OutboxMatchesReceipts
<1>2. ASSUME NEW op \in Ops, Apply(op)
      PROVE  OutboxMatchesReceipts'
  <2>a. NoOp \notin Ops
    BY ConstantsAssumption
  <2>b. host.op = op => operations[op] = "pending"
    BY <2>a DEF CallInProgress
  <2>c. ASSUME UNCHANGED <<receipt, outbox, request>>, host.op = op,
               UNCHANGED operations \/ Settle(op, "conflict")
        PROVE  OutboxMatchesReceipts'
    BY <2>b, <2>c DEF OutboxMatchesReceipts, Settle, TypeOK
  <2>d. ASSUME NEW id \in FileIds, NEW row \in Rows, NEW kind \in {"put", "delete"},
               host.op = op, Settle(op, "committed"), UNCHANGED request,
               Answer(op, id, row),
               Enqueue(op, [kind |-> kind, file |-> id, path |-> row.path,
                            hash |-> IF kind = "put" THEN row.hash ELSE Absent,
                            revision |-> row.revision])
        PROVE  OutboxMatchesReceipts'
    <3> SUFFICES ASSUME NEW o \in Ops
                 PROVE  /\ outbox'[o].kind # "none" <=>
                              /\ operations'[o] = "committed"
                              /\ request'[o].origin = "local"
                        /\ outbox'[o].kind # "none" =>
                              /\ outbox'[o].file = receipt'[o].file
                              /\ outbox'[o].path = receipt'[o].path
                              /\ outbox'[o].revision = receipt'[o].revision
                              /\ outbox'[o].hash =
                                    IF outbox'[o].kind = "put"
                                    THEN receipt'[o].hash ELSE Absent
      BY DEF OutboxMatchesReceipts
    <3>1. CASE o # op
      <4>1. /\ outbox'[o] = outbox[o] /\ receipt'[o] = receipt[o]
            /\ operations'[o] = operations[o]
        BY <2>d, <3>1 DEF Answer, Enqueue, Settle, TypeOK
      <4> QED
        BY <2>d, <4>1 DEF OutboxMatchesReceipts
    <3>2. CASE o = op
      <4>1. operations'[op] = "committed" /\ request'[op] = request[op]
        BY <2>d DEF Settle, TypeOK
      <4>2. receipt'[op] = [file |-> id, path |-> row.path, hash |-> row.hash,
                            revision |-> row.revision, deleted |-> row.deleted]
        BY <2>d DEF Answer, TypeOK
      <4>3. CASE request[op].origin = "remote"
        <5>1. outbox'[op].kind = "none"
          BY <2>b, <2>d, <4>3 DEF Enqueue, OutboxMatchesReceipts
        <5> QED
          BY <3>2, <4>1, <4>3, <5>1
      <4>4. CASE request[op].origin # "remote"
        <5>1. request[op].origin = "local"
          BY <4>4 DEF TypeOK, Requests, Origins
        <5>2. outbox'[op] = [kind |-> kind, file |-> id, path |-> row.path,
                             hash |-> IF kind = "put" THEN row.hash ELSE Absent,
                             revision |-> row.revision]
          BY <2>d, <4>4 DEF Enqueue, TypeOK
        <5> QED
          BY <3>2, <4>1, <4>2, <5>1, <5>2
      <4> QED
        BY <4>3, <4>4
    <3> QED
      BY <3>1, <3>2
  <2>1. CASE CheckWrite(op) \/ CheckMove(op)
    BY <2>1, <2>c DEF CheckWrite, CheckMove
  <2>2. CASE ReplaceFile(op) \/ CopyToTarget(op) \/ RemoveSource(op) \/ ApplyFails(op)
    BY <2>2, <2>c DEF ReplaceFile, CopyToTarget, RemoveSource, ApplyFails
  <2>3. CASE CommitWrite(op)
    <3> DEFINE req == request[op]
               owners == RowsAt(req.path)
    <3>1. journal[op] \in FileIds /\ owners \subseteq FileIds
      BY <2>3 DEF CallInProgress, CommitWrite, RowsAt
    <3>2. PICK owner \in IF owners # {} THEN owners ELSE {journal[op]} :
            LET row == [path |-> req.path, hash |-> req.digest,
                        revision |-> files[owner].revision + 1,
                        deleted |-> FALSE]
            IN  /\ Answer(op, owner, row)
                /\ Enqueue(op, [kind |-> "put", file |-> owner,
                                path |-> row.path, hash |-> row.hash,
                                revision |-> row.revision])
      BY <2>3 DEF CommitWrite
    <3> DEFINE row == [path |-> req.path, hash |-> req.digest,
                       revision |-> files[owner].revision + 1, deleted |-> FALSE]
    <3>3. owner \in FileIds
      BY <3>1, <3>2
    <3>4. row \in Rows
      BY <3>3 DEF TypeOK, Rows, Requests
    <3>5. /\ Answer(op, owner, row)
          /\ Enqueue(op, [kind |-> "put", file |-> owner, path |-> row.path,
                          hash |-> IF "put" = "put" THEN row.hash ELSE Absent,
                          revision |-> row.revision])
      BY <3>2
    <3> HIDE DEF row
    <3>6. host.op = op /\ Settle(op, "committed") /\ UNCHANGED request
      BY <2>3 DEF CommitWrite
    <3> QED
      BY <2>d, <3>3, <3>4, <3>5, <3>6
  <2>4. CASE CommitMove(op)
    <3> DEFINE req == request[op]
               kind == IF req.kind = "rename" THEN "put" ELSE "delete"
    <3>1. PICK id \in RowsAt(req.path) :
            LET row == MovedRow(op, id)
            IN  /\ Answer(op, id, row)
                /\ Enqueue(op, [kind |-> kind, file |-> id, path |-> row.path,
                       hash |-> IF req.kind = "rename" THEN row.hash ELSE Absent,
                       revision |-> row.revision])
      BY <2>4 DEF CommitMove
    <3> DEFINE row == MovedRow(op, id)
    <3>2. id \in FileIds
      BY DEF RowsAt
    <3>3. row \in Rows
      BY <3>2, RowUpdates DEF MovedRow, TypeOK, Requests
    <3>4. kind \in {"put", "delete"} /\ (kind = "put" <=> req.kind = "rename")
      OBVIOUS
    <3>5. /\ Answer(op, id, row)
          /\ Enqueue(op, [kind |-> kind, file |-> id, path |-> row.path,
                          hash |-> IF kind = "put" THEN row.hash ELSE Absent,
                          revision |-> row.revision])
      BY <3>1
    <3> HIDE DEF row, kind
    <3>6. host.op = op /\ Settle(op, "committed") /\ UNCHANGED request
      BY <2>4 DEF CommitMove
    <3> QED
      BY <2>d, <3>2, <3>3, <3>4, <3>5, <3>6
  <2> QED
    BY <1>2, <2>1, <2>2, <2>3, <2>4 DEF Apply
<1> QED
  BY <1>1, <1>2 DEF Next

\* The trash keeps what deletes put there.
LEMMA TrashStep ==
    ASSUME TypeOK, CallInProgress, TrashPrepared, DeletedContentKept, [Next]_vars
    PROVE  TrashPrepared' /\ DeletedContentKept'
<1>a. NoOp \notin Ops /\ host.op \in Ops \cup {NoOp}
  BY ConstantsAssumption DEF TypeOK, Hosts
<1>b. /\ Closed.step = "none" /\ Idle.step = "none"
      /\ \A mode, op, step : At(mode, op, step).step = step
  BY DEF Closed, Idle, At
<1>1. CASE \/ Submit
           \/ Scan
           \/ \E p \in Paths : Read(p)
           \/ Open
           \/ Recover
           \/ Environment
           \/ UNCHANGED vars
  <2>1. DeletedContentKept'
    BY <1>1, QuietSteps DEF DeletedContentKept
  <2>2. \/ host' = host /\ UNCHANGED request
        \/ host'.step \in {"none", "check"}
    BY <1>1, <1>b DEF Submit, SubmitWrite, SubmitMove, Resubmit, Accepted, Scan,
       Read, Open, Recover, RecoverNext, RecoverDone, Environment, Crash, Fault,
       Abandon, ExternalEdit, vars
  <2>3. trash' = trash
    BY <1>1, QuietSteps
  <2> QED
    BY <2>1, <2>2, <2>3 DEF TrashPrepared
<1>2. ASSUME NEW op \in Ops, Apply(op)
      PROVE  TrashPrepared' /\ DeletedContentKept'
  <2>1. host.op = op /\ operations[op] = "pending" /\ UNCHANGED request
    BY <1>2, <1>a DEF CallInProgress, Apply, CheckWrite, ReplaceFile, CommitWrite,
       CheckMove, CopyToTarget, RemoveSource, CommitMove, ApplyFails
  <2>2. \A step : Goto(step) => host'.op = op /\ host'.step = step
    BY <2>1 DEF Goto, TypeOK, Hosts
  <2>3. (NextIntent \/ Abandon) => host'.step = "none"
    BY <1>b DEF NextIntent, Abandon
  <2>4. ASSUME NEW state \in {"committed", "conflict"}, Settle(op, state),
               NextIntent, UNCHANGED trash,
               state = "committed" /\ request[op].kind = "delete"
                  => trash[op] = request[op].expected
        PROVE  TrashPrepared' /\ DeletedContentKept'
    <3>1. TrashPrepared'
      BY <2>3, <2>4 DEF TrashPrepared
    <3>2. DeletedContentKept'
      BY <2>1, <2>4 DEF DeletedContentKept, Settle, TypeOK
    <3> QED
      BY <3>1, <3>2
  <2>5. CASE CheckWrite(op)
    <3>1. CASE Settle(op, "conflict") /\ NextIntent
      BY <2>4, <2>5, <3>1 DEF CheckWrite
    <3>2. CASE UNCHANGED operations
      <4>1. request'[host'.op].kind # "delete"
        BY <2>1, <2>2, <2>5, <3>2 DEF CheckWrite, Settle, TypeOK
      <4> QED
        BY <2>1, <2>5, <3>2, <4>1 DEF CheckWrite, TrashPrepared, DeletedContentKept
    <3> QED
      BY <2>5, <3>1, <3>2 DEF CheckWrite
  <2>6. CASE ReplaceFile(op)
    <3>1. request'[host'.op].kind # "delete"
      BY <2>1, <2>2, <2>6 DEF ReplaceFile, CallInProgress
    <3> QED
      BY <2>1, <2>6, <3>1 DEF ReplaceFile, TrashPrepared, DeletedContentKept
  <2>7. CASE CommitWrite(op)
    BY <2>4, <2>7 DEF CommitWrite
  <2>8. CASE CheckMove(op)
    <3>1. CASE Settle(op, "conflict") /\ NextIntent
      BY <2>4, <2>8, <3>1 DEF CheckMove
    <3>2. CASE Goto("copy") /\ UNCHANGED operations
                /\ TargetContent(op) \in {Absent, request[op].expected}
      <4>1. request[op].kind = "delete" =>
               trash[op] \in {Absent, request[op].expected}
        BY <3>2 DEF TargetContent
      <4> QED
        BY <2>1, <2>2, <2>8, <3>2, <4>1
           DEF CheckMove, TrashPrepared, DeletedContentKept
    <3> QED
      BY <2>8, <3>1, <3>2 DEF CheckMove
  <2>9. CASE CopyToTarget(op)
    <3>1. host.step = "copy" /\ host'.op = op /\ host'.step = "remove"
      BY <2>2, <2>9 DEF CopyToTarget
    <3>2. \A o \in Ops \ {op} : trash'[o] = trash[o]
      BY <2>9 DEF CopyToTarget, TypeOK
    <3>3. request[op].kind = "delete" => trash'[op] = request[op].expected
      BY <2>1, <2>9, <3>1 DEF CopyToTarget, TrashPrepared, TypeOK
    <3>4. UNCHANGED operations
      BY <2>9 DEF CopyToTarget
    <3> QED
      BY <2>1, <3>1, <3>2, <3>3, <3>4 DEF TrashPrepared, DeletedContentKept
  <2>10. CASE RemoveSource(op)
    <3>1. host.step = "remove" /\ host'.op = op /\ host'.step = "commit"
      BY <2>2, <2>10 DEF RemoveSource
    <3> QED
      BY <2>1, <2>10, <3>1 DEF RemoveSource, TrashPrepared, DeletedContentKept
  <2>11. CASE CommitMove(op)
    <3>1. request[op].kind = "delete" => trash[op] = request[op].expected
      BY <2>1, <2>11 DEF CommitMove, TrashPrepared
    <3> QED
      BY <2>4, <2>11, <3>1 DEF CommitMove
  <2>12. CASE ApplyFails(op)
    BY <2>1, <2>3, <2>12 DEF ApplyFails, TrashPrepared, DeletedContentKept
  <2> QED
    BY <1>2, <2>5, <2>6, <2>7, <2>8, <2>9, <2>10, <2>11, <2>12 DEF Apply
<1> QED
  BY <1>1, <1>2 DEF Next

\* The initial states satisfy the invariant.
LEMMA JournalInit ==
    ASSUME Init
    PROVE  JournalInv
<1>1. TypeOK
  BY ConstantsAssumption DEF Init, TypeOK, Hashes, NoRow, Rows, Places, States,
     NoRequest, Requests, Kinds, Origins, NoReceipt, Receipts, NoSend, Sends,
     NoSighting, Sightings, Closed, At, Hosts, Steps
<1>2. CallInProgress /\ TrashPrepared
  BY DEF Init, CallInProgress, TrashPrepared, Closed, At, NoRequest
<1>3. OutboxMatchesReceipts /\ DeletedContentKept
  BY DEF Init, OutboxMatchesReceipts, DeletedContentKept, NoSend
<1> QED
  BY <1>1, <1>2, <1>3 DEF JournalInv

\* JournalInv is inductive and holds of every reachable state: for any vault, any
\* number of operations, crashes, failed calls and external edits.
THEOREM JournalInvariant == Spec => []JournalInv
<1>1. Init => JournalInv
  BY JournalInit
<1>2. JournalInv /\ [Next]_vars => JournalInv'
  BY TypeStep, CallStep, OutboxStep, TrashStep DEF JournalInv
<1> QED
  BY <1>1, <1>2, PTL DEF Spec

\* Type correctness of the journal.
THEOREM TypeCorrect == Spec => []TypeOK
<1>1. JournalInv => TypeOK
  BY DEF JournalInv
<1> QED
  BY <1>1, JournalInvariant, PTL

\* Every committed local operation has exactly the outbox entry its receipt
\* describes, and nothing else is queued for upload.
THEOREM OutboxCorrect == Spec => []OutboxMatchesReceipts
<1>1. JournalInv => OutboxMatchesReceipts
  BY DEF JournalInv
<1> QED
  BY <1>1, JournalInvariant, PTL

\* A committed delete has its content in the trash.
THEOREM DeletesKeepContent == Spec => []DeletedContentKept
<1>1. JournalInv => DeletedContentKept
  BY DEF JournalInv
<1> QED
  BY <1>1, JournalInvariant, PTL

\* What a step does to operations and requests: nothing, accept one unused id, or
\* settle one pending id.
LEMMA LedgerMoves ==
    ASSUME TypeOK, CallInProgress, [Next]_vars
    PROVE  \/ UNCHANGED <<operations, request>>
           \/ \E op \in Ops, req \in Requests :
                 /\ operations[op] = "none"
                 /\ operations' = [operations EXCEPT ![op] = "pending"]
                 /\ request' = [request EXCEPT ![op] = req]
           \/ \E op \in Ops, state \in {"committed", "conflict"} :
                 /\ operations[op] = "pending"
                 /\ operations' = [operations EXCEPT ![op] = state]
                 /\ UNCHANGED request
<1>a. NoOp \notin Ops
  BY ConstantsAssumption
<1>1. ASSUME NEW op \in Ops, NEW p \in Paths, NEW c \in Contents,
             NEW origin \in Origins, NEW ident \in FileIds \cup {NoId},
             SubmitWrite(op, p, c, origin, ident),
             ~ UNCHANGED <<operations, request>>
      PROVE  \E req \in Requests :
                 /\ operations[op] = "none"
                 /\ operations' = [operations EXCEPT ![op] = "pending"]
                 /\ request' = [request EXCEPT ![op] = req]
  <2> DEFINE req == [kind |-> "write", path |-> p, dest |-> NoPath,
                     expected |-> disk[p], digest |-> c, origin |-> origin]
  <2>1. req \in Requests
    BY DEF TypeOK, Requests, Kinds, Places, Hashes
  <2>2. operations[op] = "none" /\ Accepted(op, req)
    BY <1>1 DEF SubmitWrite
  <2> QED
    BY <2>1, <2>2 DEF Accepted
<1>2. ASSUME NEW op \in Ops, NEW p \in Paths, NEW q \in Paths,
             NEW kind \in {"rename", "delete"}, NEW origin \in Origins,
             SubmitMove(op, kind, p, q, origin)
      PROVE  \E req \in Requests :
                 /\ operations[op] = "none"
                 /\ operations' = [operations EXCEPT ![op] = "pending"]
                 /\ request' = [request EXCEPT ![op] = req]
  <2> DEFINE req == [kind |-> kind, path |-> p,
                     dest |-> IF kind = "rename" THEN q ELSE NoPath,
                     expected |-> disk[p], digest |-> disk[p], origin |-> origin]
  <2>1. req \in Requests
    BY DEF TypeOK, Requests, Kinds, Places
  <2>2. operations[op] = "none" /\ Accepted(op, req)
    BY <1>2 DEF SubmitMove
  <2> QED
    BY <2>1, <2>2 DEF Accepted
<1>3. CASE Submit
  BY <1>1, <1>2, <1>3 DEF Submit, Resubmit, Origins
<1>4. ASSUME NEW op \in Ops, Apply(op)
      PROVE  \/ UNCHANGED <<operations, request>>
             \/ \E state \in {"committed", "conflict"} :
                  /\ operations[op] = "pending"
                  /\ operations' = [operations EXCEPT ![op] = state]
                  /\ UNCHANGED request
  <2>1. host.op = op /\ operations[op] = "pending"
    BY <1>4, <1>a DEF CallInProgress, Apply, CheckWrite, ReplaceFile, CommitWrite,
       CheckMove, CopyToTarget, RemoveSource, CommitMove, ApplyFails
  <2>2. CASE CheckWrite(op) \/ CheckMove(op)
    BY <2>1, <2>2 DEF CheckWrite, CheckMove, Settle
  <2>3. CASE CommitWrite(op) \/ CommitMove(op)
    BY <2>1, <2>3 DEF CommitWrite, CommitMove, Settle
  <2>4. CASE ReplaceFile(op) \/ CopyToTarget(op) \/ RemoveSource(op) \/ ApplyFails(op)
    BY <2>4 DEF ReplaceFile, CopyToTarget, RemoveSource, ApplyFails
  <2> QED
    BY <1>4, <2>2, <2>3, <2>4 DEF Apply
<1>5. CASE Scan \/ (\E p \in Paths : Read(p)) \/ Open \/ Recover
  BY <1>5 DEF Scan, Read, Open, Recover, RecoverNext, RecoverDone
<1>6. CASE Environment \/ UNCHANGED vars
  BY <1>6 DEF Environment, Crash, Fault, ExternalEdit, vars
<1> QED
  BY <1>3, <1>4, <1>5, <1>6 DEF Next

\* Every step of the journal is a step of the ledger or leaves it alone.
LEMMA LedgerStep ==
    ASSUME JournalInv, JournalInv', [Next]_vars
    PROVE  [Ledger!LedgerNext]_(Ledger!ledger)
<1>a. Uploads = {op \in Ops : operations[op] = "committed"
                              /\ request[op].origin = "local"}
  BY DEF JournalInv, OutboxMatchesReceipts, Uploads
<1>b. Uploads' = {op \in Ops : operations'[op] = "committed"
                               /\ request'[op].origin = "local"}
  BY DEF JournalInv, OutboxMatchesReceipts, Uploads
<1>1. CASE UNCHANGED <<operations, request>>
  <2>1. Uploads' = Uploads /\ Origin' = Origin
    BY <1>1, <1>a, <1>b DEF Origin
  <2> QED
    BY <1>1, <2>1 DEF Ledger!ledger
<1>2. ASSUME NEW op \in Ops, NEW req \in Requests,
             operations[op] = "none",
             operations' = [operations EXCEPT ![op] = "pending"],
             request' = [request EXCEPT ![op] = req]
      PROVE  Ledger!LedgerNext
  <2>1. Uploads' = Uploads
    BY <1>a, <1>b, <1>2 DEF JournalInv, TypeOK
  <2>2. Origin' = [Origin EXCEPT ![op] = req.origin]
    BY <1>2 DEF Origin, JournalInv, TypeOK
  <2>3. req.origin \in {"local", "remote"}
    BY DEF Requests, Origins
  <2>4. Ledger!Accept(op, req.origin)
    BY <1>2, <2>1, <2>2 DEF Ledger!Accept
  <2> QED
    BY <2>3, <2>4 DEF Ledger!LedgerNext
<1>3. ASSUME NEW op \in Ops, NEW state \in {"committed", "conflict"},
             operations[op] = "pending",
             operations' = [operations EXCEPT ![op] = state],
             UNCHANGED request
      PROVE  Ledger!LedgerNext
  <2>1. Origin' = Origin /\ Origin[op] = request[op].origin
    BY <1>3 DEF Origin
  <2>2. CASE state = "committed"
    <3>1. Uploads' = IF Origin[op] = "local" THEN Uploads \cup {op} ELSE Uploads
      BY <1>a, <1>b, <1>3, <2>1, <2>2 DEF JournalInv, TypeOK
    <3>2. Ledger!Commit(op)
      BY <1>3, <2>1, <2>2, <3>1 DEF Ledger!Commit
    <3> QED
      BY <3>2 DEF Ledger!LedgerNext
  <2>3. CASE state = "conflict"
    <3>1. Uploads' = Uploads
      BY <1>a, <1>b, <1>3, <2>3 DEF JournalInv, TypeOK
    <3>2. Ledger!Reject(op)
      BY <1>3, <2>1, <2>3, <3>1 DEF Ledger!Reject
    <3> QED
      BY <3>2 DEF Ledger!LedgerNext
  <2> QED
    BY <2>2, <2>3
<1> QED
  BY <1>1, <1>2, <1>3, LedgerMoves DEF JournalInv

\* The journal implements the operation ledger: through any crashes, faults and
\* external edits an id is accepted once and settled once, and its upload is
\* queued in the very step that commits it.
THEOREM JournalImplementsLedger == Spec => ImplementsLedger
<1>1. Init => Ledger!LedgerInit
  BY DEF Init, Ledger!LedgerInit, Origin, Uploads, NoRequest, NoSend
<1>2. JournalInv /\ JournalInv' /\ [Next]_vars
        => [Ledger!LedgerNext]_(Ledger!ledger)
  BY LedgerStep
<1> QED
  BY <1>1, <1>2, JournalInvariant, PTL
     DEF Spec, ImplementsLedger, Ledger!LedgerSpec

-----------------------------------------------------------------------------
(* The requests that were accepted *)

\* An accepted operation names a path of the vault; only a rename has another.
Requested ==
    \A op \in Ops : operations[op] # "none" =>
        /\ request[op].path \in Paths
        /\ request[op].dest \in IF request[op].kind = "rename" THEN Paths
                                ELSE {NoPath}

\* Only submitting brings requests, and it brings such ones.
LEMMA RequestedStep ==
    ASSUME TypeOK, CallInProgress, Requested, [Next]_vars
    PROVE  Requested'
<1>1. ASSUME NEW op \in Ops, NEW req, Accepted(op, req), req.path \in Paths,
             req.dest \in IF req.kind = "rename" THEN Paths ELSE {NoPath}
      PROVE  Requested'
  <2>1. request'[op] = req
    BY <1>1 DEF Accepted, TypeOK
  <2>2. \A o \in Ops \ {op} : operations'[o] = operations[o] /\ request'[o] = request[o]
    BY <1>1 DEF Accepted, TypeOK
  <2> QED
    BY <1>1, <2>1, <2>2 DEF Requested
<1>2. ASSUME NEW op \in Ops, NEW p \in Paths, NEW c \in Contents,
             NEW origin \in Origins, NEW ident \in FileIds \cup {NoId},
             SubmitWrite(op, p, c, origin, ident)
      PROVE  Requested'
  <2> DEFINE req == [kind |-> "write", path |-> p, dest |-> NoPath,
                     expected |-> disk[p], digest |-> c, origin |-> origin]
  <2>1. UNCHANGED <<operations, request>> \/ Accepted(op, req)
    BY <1>2 DEF SubmitWrite
  <2>2. req.path \in Paths /\ req.dest \in {NoPath} /\ req.kind # "rename"
    OBVIOUS
  <2> HIDE DEF req
  <2> QED
    BY <1>1, <2>1, <2>2 DEF Requested
<1>3. ASSUME NEW op \in Ops, NEW p \in Paths, NEW q \in Paths,
             NEW kind \in {"rename", "delete"}, NEW origin \in Origins,
             SubmitMove(op, kind, p, q, origin)
      PROVE  Requested'
  <2> DEFINE req == [kind |-> kind, path |-> p,
                     dest |-> IF kind = "rename" THEN q ELSE NoPath,
                     expected |-> disk[p], digest |-> disk[p], origin |-> origin]
  <2>1. Accepted(op, req)
    BY <1>3 DEF SubmitMove
  <2>2. /\ req.path \in Paths
        /\ req.dest \in IF req.kind = "rename" THEN Paths ELSE {NoPath}
    OBVIOUS
  <2> HIDE DEF req
  <2> QED
    BY <1>1, <2>1, <2>2
<1>4. ASSUME UNCHANGED request, \A o \in Ops : operations'[o] # "none" => operations[o] # "none"
      PROVE  Requested'
  BY <1>4 DEF Requested
<1>5. ASSUME NEW op \in Ops, Apply(op)
      PROVE  Requested'
  <2>1. host.op = op /\ operations[op] # "none"
    BY <1>5, ConstantsAssumption
       DEF Apply, CheckWrite, ReplaceFile, CommitWrite, CheckMove, CopyToTarget,
           RemoveSource, CommitMove, ApplyFails, CallInProgress
  <2>2. UNCHANGED request /\ (UNCHANGED operations \/ \E state : Settle(op, state))
    BY <1>5 DEF Apply, CheckWrite, ReplaceFile, CommitWrite, CheckMove,
                CopyToTarget, RemoveSource, CommitMove, ApplyFails
  <2> QED
    BY <1>4, <2>1, <2>2 DEF Settle, TypeOK
<1>6. CASE \/ \E op \in Ops : Resubmit(op)
           \/ Scan
           \/ \E p \in Paths : Read(p)
           \/ Open
           \/ Recover
           \/ Environment
           \/ UNCHANGED vars
  <2>1. UNCHANGED <<operations, request>>
    BY <1>6 DEF Resubmit, Scan, Read, Open, Recover, RecoverNext, RecoverDone,
                Environment, Crash, Fault, ExternalEdit, vars
  <2> QED
    BY <1>4, <2>1
<1> QED
  BY <1>2, <1>3, <1>5, <1>6 DEF Next, Submit, Origins

-----------------------------------------------------------------------------
(* The catalogue describes the directory *)

\* While commands are answered, every path is described by its live row, or
\* something still to come accounts for the difference.
Serving == host.mode \in {"idle", "calling", "replaying"}
Unsettled == {op \in Ops : operations[op] \in {"pending", "conflict"}}
Excused(p) == p \in hints \/ \E op \in Unsettled : Touches(op, p)
Listed(p) == /\ disk[p] = Absent <=> LiveAt(p) = {}
             /\ \A id \in LiveAt(p) : files[id].hash = disk[p]
Served ==
    /\ host.mode = "closed" => host.op = NoOp
    /\ Serving => \A p \in Paths : Excused(p) \/ Listed(p)

\* Whoever leaves a call serves the vault only if it was served before.
LEMMA LeavingServes ==
    ASSUME TypeOK, Served, host.op # NoOp, Abandon \/ NextIntent
    PROVE  /\ Serving' => Serving
           /\ host'.mode = "closed" => host'.op = NoOp
  BY DEF TypeOK, Hosts, Served, Serving, Abandon, NextIntent, Closed, Idle, At

\* A scan leaves every path described: a new file under a fresh identity, a
\* known one with the digest it has, a vanished one as a tombstone.
LEMMA ScanLists ==
    ASSUME TypeOK, NEW fresh \in FreshIds, files' = Scanned(fresh),
           UNCHANGED disk, NEW p \in Paths
    PROVE  Listed(p)'
<1> DEFINE named(id) == {q \in NewPaths : fresh[q] = id}
<1>1. /\ fresh \in [NewPaths -> Unused]
      /\ \A q, r \in NewPaths : fresh[q] = fresh[r] => q = r
  BY DEF FreshIds
<1>2. \A id \in FileIds : named(id) # {} => files[id].path = NoPath
  BY <1>1 DEF Unused
<1>3. \A q \in NewPaths : q \in Paths /\ disk[q] # Absent /\ LiveAt(q) = {}
  BY DEF NewPaths
<1>4. ASSUME NEW q \in NewPaths
      PROVE  /\ fresh[q] \in FileIds
             /\ files'[fresh[q]].path = q /\ ~files'[fresh[q]].deleted
             /\ files'[fresh[q]].hash = disk[q]
  <2>1. fresh[q] \in FileIds
    BY <1>1 DEF Unused
  <2>2. named(fresh[q]) = {q}
    BY <1>1
  <2>3. (CHOOSE r \in named(fresh[q]) : TRUE) = q
    BY <2>2
  <2> QED
    BY <2>1, <2>2, <2>3 DEF Scanned
<1>5. ASSUME NEW id \in FileIds, named(id) = {}
      PROVE  /\ files[id].path \in NewPaths => files'[id].path = Retired
             /\ files[id].path \notin NewPaths =>
                  /\ files'[id].path = files[id].path
                  /\ files[id].deleted => files'[id].deleted
                  /\ ~files[id].deleted /\ files[id].path \in Paths =>
                       /\ files'[id].deleted <=> disk[files[id].path] = Absent
                       /\ ~files'[id].deleted =>
                             files'[id].hash = disk[files[id].path]
  <2>1. files[id] \in Rows
    BY DEF TypeOK
  <2>2. files'[id] =
            IF files[id].path \in NewPaths THEN [files[id] EXCEPT !.path = Retired]
            ELSE IF files[id].deleted \/ files[id].path \notin Paths THEN files[id]
            ELSE IF disk[files[id].path] = Absent
            THEN [files[id] EXCEPT !.deleted = TRUE, !.revision = @ + 1]
            ELSE [files[id] EXCEPT !.hash = disk[files[id].path],
                             !.revision = IF files[id].hash = disk[files[id].path]
                                          THEN @ ELSE @ + 1]
    BY <1>5 DEF Scanned
  <2> QED
    BY <2>1, <2>2 DEF Rows
<1>6. Retired \notin Paths
  BY ConstantsAssumption
<1>7. CASE p \in NewPaths
  <2>1. LiveAt(p)' = {fresh[p]}
    <3>1. \A id \in FileIds : named(id) = {} => files'[id].path # p
      BY <1>5, <1>6, <1>7
    <3>2. \A id \in FileIds : named(id) # {} /\ files'[id].path = p => id = fresh[p]
      BY <1>4
    <3> QED
      BY <1>4, <1>7, <3>1, <3>2 DEF LiveAt, RowsAt
  <2> QED
    BY <1>3, <1>4, <1>7, <2>1 DEF Listed
<1>8. CASE p \notin NewPaths
  <2>1. \A id \in FileIds : named(id) # {} => files'[id].path # p
    BY <1>4, <1>8
  <2>2. \A id \in FileIds :
          id \in LiveAt(p)' => id \in LiveAt(p) /\ disk[p] # Absent
                               /\ files'[id].hash = disk[p]
    BY <1>5, <1>6, <1>8, <2>1 DEF LiveAt, RowsAt
  <2>3. \A id \in LiveAt(p) : disk[p] # Absent => id \in LiveAt(p)'
    <3> SUFFICES ASSUME NEW id \in LiveAt(p), disk[p] # Absent
                 PROVE  id \in LiveAt(p)'
      OBVIOUS
    <3>1. id \in FileIds /\ files[id].path = p /\ ~files[id].deleted
      BY DEF LiveAt, RowsAt
    <3>2. named(id) = {}
      BY <1>2, <3>1, ConstantsAssumption
    <3>3. files'[id].path = p /\ (files'[id].deleted <=> disk[p] = Absent)
      BY <1>5, <1>8, <3>1, <3>2
    <3> QED
      BY <3>1, <3>3 DEF LiveAt, RowsAt
  <2>4. disk[p] # Absent => LiveAt(p) # {}
    BY <1>8 DEF NewPaths
  <2> QED
    BY <2>2, <2>3, <2>4 DEF Listed, LiveAt, RowsAt
<1> QED
  BY <1>7, <1>8

\* A path stays served while its live row and its file do not change, or while
\* something accounts for the change.
LEMMA ServesOn ==
    ASSUME NEW p \in Paths, Excused(p) \/ Listed(p),
           Excused(p) => Excused(p)',
           \/ Excused(p)'
           \/ /\ disk'[p] = disk[p]
              /\ \A id \in FileIds :
                    /\ id \in LiveAt(p)' <=> id \in LiveAt(p)
                    /\ id \in LiveAt(p) => files'[id].hash = files[id].hash
    PROVE  (Excused(p) \/ Listed(p))'
<1>1. SUFFICES ASSUME ~Excused(p)'
               PROVE  Listed(p)'
  OBVIOUS
<1>2. Listed(p) /\ disk'[p] = disk[p]
  BY <1>1
<1>3. \A id \in FileIds : /\ id \in LiveAt(p)' <=> id \in LiveAt(p)
                          /\ id \in LiveAt(p) => files'[id].hash = files[id].hash
  BY <1>1
<1>4. LiveAt(p)' = LiveAt(p)
  BY <1>3 DEF LiveAt, RowsAt
<1> QED
  BY <1>2, <1>3, <1>4 DEF Listed, LiveAt, RowsAt

\* Naming an identity moves tombstones only.
LEMMA ReidentifiedLive ==
    ASSUME TypeOK, NEW p \in Paths, NEW ident \in FileIds,
           files' = Reidentified(p, ident), NEW q \in Paths, NEW id \in FileIds
    PROVE  /\ id \in LiveAt(q)' <=> id \in LiveAt(q)
           /\ files'[id].hash = files[id].hash
<1>1. files[id] \in Rows
  BY DEF TypeOK
<1>2. \/ files'[id] = files[id]
      \/ files[id].deleted /\ files'[id] = [files[id] EXCEPT !.path = Retired]
      \/ files[id].deleted /\ files'[id] = [files[id] EXCEPT !.path = p]
  BY DEF Reidentified, RowsAt
<1> QED
  BY <1>1, <1>2 DEF LiveAt, RowsAt, Rows

\* Submitting keeps the vault served.
LEMMA SubmitServes ==
    ASSUME TypeOK, Served, Submit
    PROVE  Served'
<1>a. host = Idle => Serving /\ host.mode # "closed"
  BY DEF Idle, At, Serving
<1>b. ASSUME NEW op \in Ops, operations[op] = "none", NEW req, Accepted(op, req)
      PROVE  /\ Unsettled \subseteq Unsettled'
             /\ \A o \in Unsettled : request'[o] = request[o]
             /\ host'.mode = "calling"
  BY <1>b DEF Accepted, TypeOK, Unsettled, At
<1>1. ASSUME NEW op \in Ops, NEW p \in Paths, NEW c \in Contents,
             NEW origin \in Origins, NEW ident \in FileIds \cup {NoId},
             SubmitWrite(op, p, c, origin, ident)
      PROVE  Served'
  <2>1. host = Idle /\ UNCHANGED <<disk, hints>>
    BY <1>1 DEF SubmitWrite
  <2>2. /\ \A o \in Unsettled : o \in Unsettled' /\ request'[o] = request[o]
        /\ host'.mode # "closed"
    <3> DEFINE req == [kind |-> "write", path |-> p, dest |-> NoPath,
                       expected |-> disk[p], digest |-> c, origin |-> origin]
    <3>1. operations[op] = "none"
          /\ (UNCHANGED <<operations, request, host>> \/ Accepted(op, req))
      BY <1>1 DEF SubmitWrite
    <3>2. CASE UNCHANGED <<operations, request, host>>
      BY <1>a, <2>1, <3>2 DEF Unsettled
    <3>3. CASE Accepted(op, req)
      <4> HIDE DEF req
      <4> QED
        BY <1>b, <3>1, <3>3
    <3> QED
      BY <3>1, <3>2, <3>3
  <2>3. ASSUME NEW q \in Paths, NEW id \in FileIds
        PROVE  /\ id \in LiveAt(q)' <=> id \in LiveAt(q)
               /\ files'[id].hash = files[id].hash
    <3>1. files' = IF ident = NoId THEN files ELSE Reidentified(p, ident)
      BY <1>1 DEF SubmitWrite
    <3>2. CASE ident = NoId
      BY <3>1, <3>2 DEF LiveAt, RowsAt
    <3>3. CASE ident # NoId
      BY <3>1, <3>3, ReidentifiedLive
    <3> QED
      BY <3>2, <3>3
  <2>4. ASSUME NEW q \in Paths
        PROVE  (Excused(q) \/ Listed(q))'
    <3>1. Excused(q) \/ Listed(q)
      BY <1>a, <2>1 DEF Served
    <3>2. Excused(q) => Excused(q)'
      BY <2>1, <2>2 DEF Excused, Touches
    <3> QED
      BY <2>1, <2>3, <3>1, <3>2, ServesOn
  <2> QED
    BY <2>2, <2>4 DEF Served
<1>2. ASSUME NEW op \in Ops, NEW p \in Paths, NEW q \in Paths,
             NEW kind \in {"rename", "delete"}, NEW origin \in Origins,
             SubmitMove(op, kind, p, q, origin)
      PROVE  Served'
  <2> DEFINE req == [kind |-> kind, path |-> p,
                     dest |-> IF kind = "rename" THEN q ELSE NoPath,
                     expected |-> disk[p], digest |-> disk[p], origin |-> origin]
  <2>1. /\ host = Idle /\ UNCHANGED <<disk, files, hints>>
        /\ operations[op] = "none" /\ Accepted(op, req)
    BY <1>2 DEF SubmitMove
  <2> HIDE DEF req
  <2>2. /\ \A o \in Unsettled : o \in Unsettled' /\ request'[o] = request[o]
        /\ host'.mode = "calling"
    BY <1>b, <2>1
  <2>3. \A r \in Paths : Excused(r) \/ Listed(r)
    BY <1>a, <2>1 DEF Served
  <2>4. \A r \in Paths : /\ Excused(r) => Excused(r)'
                         /\ Listed(r) => Listed(r)'
    BY <2>1, <2>2 DEF Excused, Touches, Listed, LiveAt, RowsAt
  <2> QED
    BY <2>2, <2>3, <2>4 DEF Served
<1>3. ASSUME NEW op \in Ops, Resubmit(op)
      PROVE  Served'
  <2>1. /\ host = Idle /\ host'.mode = "replaying"
        /\ UNCHANGED <<disk, files, hints, operations, request>>
    BY <1>3 DEF Resubmit, At
  <2>2. \A r \in Paths : (Excused(r) \/ Listed(r)) => (Excused(r) \/ Listed(r))'
    BY <2>1 DEF Excused, Unsettled, Touches, Listed, LiveAt, RowsAt
  <2> QED
    BY <1>a, <2>1, <2>2 DEF Served
<1> QED
  BY <1>1, <1>2, <1>3 DEF Submit, Origins

\* Applying an intent keeps the vault served: until its transaction the intent
\* excuses its paths, and the transaction marks them for the next scan.
LEMMA ApplyServes ==
    ASSUME TypeOK, CallInProgress, Requested, Served, NEW op \in Ops, Apply(op)
    PROVE  Served'
<1>a. host.op = op
  BY DEF Apply, CheckWrite, ReplaceFile, CommitWrite, CheckMove, CopyToTarget,
         RemoveSource, CommitMove, ApplyFails
<1>b. /\ host.op # NoOp /\ host.mode # "closed" /\ op \in Unsettled
  BY <1>a, ConstantsAssumption DEF Served, CallInProgress, Unsettled
<1>c. request' = request
  BY DEF Apply, CheckWrite, ReplaceFile, CommitWrite, CheckMove, CopyToTarget,
         RemoveSource, CommitMove, ApplyFails
<1>d. ASSUME NEW step, Goto(step)
      PROVE  host'.mode = host.mode
  BY <1>d DEF Goto, TypeOK, Hosts
<1>1. /\ Serving' => Serving
      /\ host'.mode = "closed" => host'.op = NoOp
  <2>1. ASSUME NEW step, Goto(step)
        PROVE  (Serving' <=> Serving) /\ host'.mode # "closed"
    BY <1>b, <1>d, <2>1 DEF Serving
  <2>2. Abandon \/ NextIntent \/ \E step \in Steps : Goto(step)
    BY DEF Apply, CheckWrite, ReplaceFile, CommitWrite, CheckMove, CopyToTarget,
           RemoveSource, CommitMove, ApplyFails, Steps
  <2> QED
    BY <1>b, <2>1, <2>2, LeavingServes
<1>2. SUFFICES ASSUME Serving, NEW p \in Paths
               PROVE  (Excused(p) \/ Listed(p))'
  BY <1>1 DEF Served
<1>3. Excused(p) \/ Listed(p)
  BY <1>2 DEF Served
<1>4. CASE CheckWrite(op) \/ CheckMove(op) \/ ApplyFails(op)
  <2>1. /\ UNCHANGED <<disk, files, hints>>
        /\ UNCHANGED operations \/ Settle(op, "conflict")
    BY <1>4 DEF CheckWrite, CheckMove, ApplyFails
  <2>2. Unsettled \subseteq Unsettled'
    BY <1>b, <2>1 DEF Unsettled, Settle, TypeOK
  <2> QED
    BY <1>c, <1>3, <2>1, <2>2 DEF Excused, Touches, Listed, LiveAt, RowsAt
<1>5. CASE ReplaceFile(op) \/ CopyToTarget(op) \/ RemoveSource(op)
  <2>1. UNCHANGED <<files, hints, operations>>
    BY <1>5 DEF ReplaceFile, CopyToTarget, RemoveSource
  <2>2. ~Touches(op, p) => disk'[p] = disk[p]
    BY <1>5 DEF ReplaceFile, CopyToTarget, RemoveSource, Touches, TypeOK
  <2>3. CASE Touches(op, p)
    BY <1>b, <1>c, <2>1, <2>3 DEF Excused, Unsettled, Touches
  <2>4. CASE ~Touches(op, p)
    BY <1>c, <1>3, <2>1, <2>2, <2>4
       DEF Excused, Unsettled, Touches, Listed, LiveAt, RowsAt
  <2> QED
    BY <2>3, <2>4
<1>6. CASE CommitWrite(op) \/ CommitMove(op)
  <2>1. /\ UNCHANGED disk
        /\ hints \subseteq hints'
        /\ Touches(op, p) => p \in hints'
        /\ Settle(op, "committed")
    <3>1. Touches(op, p) /\ request[op].kind = "write" => p = request[op].path
      BY <1>b, ConstantsAssumption DEF Requested, Unsettled, Touches
    <3> QED
      BY <1>6, <3>1 DEF CommitWrite, CommitMove, Touches
  <2>2. Unsettled \subseteq Unsettled' \cup {op}
    BY <2>1 DEF Unsettled, Settle, TypeOK
  <2>3. Excused(p) => Excused(p)'
    BY <1>c, <2>1, <2>2 DEF Excused, Touches
  <2>4. CASE Touches(op, p)
    BY <2>1, <2>4 DEF Excused
  <2>5. ASSUME ~Touches(op, p), NEW id \in FileIds
        PROVE  /\ id \in LiveAt(p)' <=> id \in LiveAt(p)
               /\ id \in LiveAt(p) => files'[id].hash = files[id].hash
    <3>1. files[id] \in Rows /\ p # NoPath /\ p # Retired
      BY ConstantsAssumption DEF TypeOK
    <3>2. CASE CommitWrite(op)
      <4>1. \/ files'[id] = files[id]
            \/ files[id].path \in {request[op].path, NoPath}
               /\ files'[id].path = request[op].path
        <5>1. PICK owner \in IF RowsAt(request[op].path) # {}
                             THEN RowsAt(request[op].path) ELSE {journal[op]} :
                 files' = [files EXCEPT ![owner] =
                    [path |-> request[op].path, hash |-> request[op].digest,
                     revision |-> files[owner].revision + 1, deleted |-> FALSE]]
          BY <3>2 DEF CommitWrite
        <5>2. files[owner].path \in {request[op].path, NoPath}
          BY <3>2, <5>1 DEF CommitWrite, RowsAt
        <5> QED
          BY <5>1, <5>2 DEF TypeOK
      <4> QED
        BY <2>5, <3>1, <4>1 DEF LiveAt, RowsAt, Touches
    <3>3. CASE CommitMove(op)
      <4>1. PICK moved \in RowsAt(request[op].path) :
               files' = [i \in FileIds |->
                  IF i = moved THEN MovedRow(op, moved)
                  ELSE IF i \in RetiredFor(op, moved)
                  THEN [files[i] EXCEPT !.path = Retired] ELSE files[i]]
        BY <3>3 DEF CommitMove
      <4>2. CASE id = moved
        <5>1. files[id].path = request[op].path
          BY <4>2 DEF RowsAt
        <5>2. files'[id].path \in {request[op].path, request[op].dest}
          BY <3>1, <4>1, <4>2, <5>1 DEF MovedRow, Rows
        <5> QED
          BY <2>5, <5>1, <5>2 DEF LiveAt, RowsAt, Touches
      <4>3. CASE id # moved /\ id \in RetiredFor(op, moved)
        <5>1. files[id].path = request[op].dest /\ files[id].deleted
          BY <4>3 DEF RetiredFor, RowsAt
        <5>2. files'[id].path = Retired
          BY <3>1, <4>1, <4>3 DEF Rows
        <5> QED
          BY <3>1, <5>1, <5>2 DEF LiveAt, RowsAt
      <4>4. CASE id # moved /\ id \notin RetiredFor(op, moved)
        BY <4>1, <4>4 DEF LiveAt, RowsAt
      <4> QED
        BY <4>2, <4>3, <4>4
    <3> QED
      BY <1>6, <3>2, <3>3
  <2> QED
    BY <1>3, <2>1, <2>3, <2>4, <2>5, ServesOn
<1> QED
  BY <1>4, <1>5, <1>6 DEF Apply

\* Scans, reads, opening, recovery and the environment keep the vault served.
LEMMA OtherServes ==
    ASSUME TypeOK, CallInProgress, Served,
           \/ Scan
           \/ \E p \in Paths : Read(p)
           \/ Open
           \/ Recover
           \/ Environment
           \/ UNCHANGED vars
    PROVE  Served'
<1>a. ASSUME UNCHANGED <<disk, operations, request>>, ScanFiles,
             host'.mode = "closed" => host'.op = NoOp
      PROVE  Served'
  BY <1>a, ScanLists DEF ScanFiles, Served
<1>b. ASSUME UNCHANGED <<disk, files, hints, operations, request>>,
             Serving' => Serving, host'.mode = "closed" => host'.op = NoOp
      PROVE  Served'
  <2>1. \A p \in Paths : (Excused(p) \/ Listed(p)) => (Excused(p) \/ Listed(p))'
    BY <1>b DEF Excused, Unsettled, Touches, Listed, LiveAt, RowsAt
  <2> QED
    BY <1>b, <2>1 DEF Served
<1>c. /\ Closed.mode = "closed" /\ Closed.op = NoOp /\ Idle.mode = "idle"
      /\ \A mode, o, step : At(mode, o, step).mode = mode /\ At(mode, o, step).op = o
  BY DEF Closed, Idle, At
<1>1. CASE Scan
  BY <1>1, <1>a, <1>c DEF Scan
<1>2. ASSUME NEW p \in Paths, Read(p)
      PROVE  Served'
  <2>1. host = Idle /\ UNCHANGED <<disk, operations, request, host>>
    BY <1>2 DEF Read
  <2>2. CASE ScanFiles
    BY <1>a, <1>c, <2>1, <2>2
  <2>3. CASE /\ \E id \in LiveAt(p) :
                   /\ files[id].hash # disk[p]
                   /\ files' = [files EXCEPT ![id].hash = disk[p],
                                             ![id].revision = @ + 1]
             /\ UNCHANGED hints
    <3>1. PICK known \in LiveAt(p) :
             /\ files[known].hash # disk[p]
             /\ files' = [files EXCEPT ![known].hash = disk[p],
                                       ![known].revision = @ + 1]
      BY <2>3
    <3>2. known \in FileIds /\ files[known].path = p /\ known \in LiveAt(p)
      BY DEF LiveAt, RowsAt
    <3>3. ASSUME NEW id \in FileIds
          PROVE  /\ files'[id].path = files[id].path
                 /\ files'[id].deleted = files[id].deleted
                 /\ files'[id] = files[id] \/ id = known
      <4>1. files[id] \in Rows
        BY DEF TypeOK
      <4> QED
        BY <3>1, <3>2, <4>1 DEF TypeOK, Rows
    <3>4. ASSUME NEW q \in Paths
          PROVE  (Excused(q) \/ Listed(q))'
      <4>1. Excused(q) \/ Listed(q)
        BY <1>c, <2>1 DEF Served, Serving
      <4>2. Excused(q) => Excused(q)'
        BY <2>1, <2>3 DEF Excused, Unsettled, Touches
      <4>3. CASE q = p
        BY <3>1, <3>2, <4>1, <4>2, <4>3 DEF Listed
      <4>4. CASE q # p
        <5>1. \A id \in FileIds : /\ id \in LiveAt(q)' <=> id \in LiveAt(q)
                                  /\ id \in LiveAt(q) => files'[id].hash = files[id].hash
          BY <3>2, <3>3, <4>4 DEF LiveAt, RowsAt
        <5> QED
          BY <2>1, <4>1, <4>2, <5>1, ServesOn
      <4> QED
        BY <4>3, <4>4
    <3> QED
      BY <1>c, <2>1, <3>4 DEF Served
  <2> QED
    BY <1>2, <2>2, <2>3 DEF Read
<1>3. CASE Open
  BY <1>3, <1>b, <1>c DEF Open, Serving
<1>4. ASSUME NEW op \in Ops, RecoverNext(op)
      PROVE  Served'
  BY <1>4, <1>b, <1>c DEF RecoverNext, Recovering, Serving
<1>5. CASE RecoverDone
  <2>1. CASE host.mode = "opening" /\ ScanFiles
    BY <1>5, <1>a, <1>c, <2>1 DEF RecoverDone
  <2>2. CASE host.mode = "replaying" /\ UNCHANGED <<files, hints>>
    BY <1>5, <1>b, <1>c, <2>2 DEF RecoverDone, Serving
  <2> QED
    BY <1>5, <2>1, <2>2 DEF RecoverDone
<1>6. CASE Crash
  BY <1>6, <1>c DEF Crash, Served, Serving
<1>7. CASE Fault
  <2>1. /\ Serving' => Serving
        /\ host'.mode = "closed" => host'.op = NoOp
    BY <1>7, LeavingServes DEF Fault
  <2> QED
    BY <1>7, <1>b, <2>1 DEF Fault
<1>8. ASSUME NEW p \in Paths, NEW h \in Hashes, ExternalEdit(p, h)
      PROVE  Served'
  <2>1. /\ UNCHANGED <<files, operations, request, host>>
        /\ hints \subseteq hints'
        /\ Serving => p \in hints'
        /\ \A q \in Paths \ {p} : disk'[q] = disk[q]
    BY <1>8, <1>c DEF ExternalEdit, Serving, TypeOK
  <2>2. ASSUME Serving, NEW q \in Paths
        PROVE  (Excused(q) \/ Listed(q))'
    <3>1. Excused(q) \/ Listed(q)
      BY <2>2 DEF Served
    <3> QED
      BY <2>1, <2>2, <3>1 DEF Excused, Unsettled, Touches, Listed, LiveAt, RowsAt
  <2> QED
    BY <2>1, <2>2 DEF Served, Serving
<1>9. CASE UNCHANGED vars
  BY <1>9, <1>b DEF vars, Served, Serving
<1> QED
  BY <1>1, <1>2, <1>3, <1>4, <1>5, <1>6, <1>7, <1>8, <1>9 DEF Recover, Environment

\* When no call runs, the catalogue describes the directory, up to what a hint
\* marks or an unfinished operation will settle (refresh_snapshot, open).
THEOREM CatalogueCorrect == Spec => []CatalogueMatchesDisk
<1>1. Init => Requested /\ Served
  BY DEF Init, Requested, Served, Serving, Closed, At
<1>2. JournalInv /\ Requested /\ Served /\ [Next]_vars => Requested' /\ Served'
  BY RequestedStep, SubmitServes, ApplyServes, OtherServes DEF Next, JournalInv
<1>3. Served => CatalogueMatchesDisk
  BY DEF Served, Serving, Idle, At, CatalogueMatchesDisk, Excused, Unsettled, Listed
<1> QED
  BY <1>1, <1>2, <1>3, JournalInvariant, PTL DEF Spec

-----------------------------------------------------------------------------
(* Rows and uploads: one row per path, one revision per upload *)

\* What a commit does to the rows: the committed file takes a path of the vault
\* (its own or a free one) and the next revision; other rows stay or retire.
CommitsRow(op, id) ==
    /\ files'[id].path \in Paths
    /\ files'[id].revision = files[id].revision + 1
    /\ \A i \in FileIds \ {id} :
          \/ files'[i] = files[i] /\ files[i].path # files'[id].path
          \/ files'[i] = [files[i] EXCEPT !.path = Retired] /\ files[i].path # NoPath

\* The transaction that ends a write.
LEMMA WriteRow ==
    ASSUME TypeOK, PathsUnique, Requested, NEW op \in Ops, CommitWrite(op),
           operations[op] = "pending", journal[op] \in FileIds
    PROVE  \E id \in FileIds, kind \in {"put", "delete"}, hash \in Hashes :
             /\ CommitsRow(op, id)
             /\ Enqueue(op, [kind |-> kind, file |-> id,
                             path |-> files'[id].path, hash |-> hash,
                             revision |-> files'[id].revision])
<1> DEFINE path == request[op].path
           owners == RowsAt(path)
           row(owner) == [path |-> path, hash |-> request[op].digest,
                          revision |-> files[owner].revision + 1, deleted |-> FALSE]
<1>1. PICK owner \in IF owners # {} THEN owners ELSE {journal[op]} :
         /\ files' = [files EXCEPT ![owner] = row(owner)]
         /\ Enqueue(op, [kind |-> "put", file |-> owner, path |-> path,
                         hash |-> request[op].digest,
                         revision |-> files[owner].revision + 1])
  BY DEF CommitWrite
<1>2. owner \in FileIds /\ path \in Paths
  BY DEF RowsAt, Requested
<1>3. files'[owner] = row(owner)
  BY <1>1, <1>2 DEF TypeOK
<1>4. ASSUME NEW i \in FileIds \ {owner}
      PROVE  files'[i] = files[i] /\ files[i].path # path
  BY <1>1, <1>2 DEF TypeOK, PathsUnique, RowsAt
<1>5. CommitsRow(op, owner)
  BY <1>2, <1>3, <1>4 DEF CommitsRow
<1>6. request[op].digest \in Hashes
  BY DEF TypeOK, Requests
<1> QED
  BY <1>1, <1>2, <1>3, <1>5, <1>6

\* The transaction that ends a rename or a delete.
LEMMA MoveRow ==
    ASSUME TypeOK, PathsUnique, Requested, NEW op \in Ops, CommitMove(op),
           operations[op] = "pending"
    PROVE  \E id \in FileIds, kind \in {"put", "delete"}, hash \in Hashes :
             /\ CommitsRow(op, id)
             /\ Enqueue(op, [kind |-> kind, file |-> id,
                             path |-> files'[id].path, hash |-> hash,
                             revision |-> files'[id].revision])
<1>1. PICK id \in RowsAt(request[op].path) :
         /\ ~UniqueBroken(op, id)
         /\ files' = [i \in FileIds |->
                IF i = id THEN MovedRow(op, id)
                ELSE IF i \in RetiredFor(op, id)
                THEN [files[i] EXCEPT !.path = Retired]
                ELSE files[i]]
         /\ Enqueue(op,
                [kind |-> IF request[op].kind = "rename" THEN "put" ELSE "delete",
                 file |-> id, path |-> MovedRow(op, id).path,
                 hash |-> IF request[op].kind = "rename"
                          THEN MovedRow(op, id).hash ELSE Absent,
                 revision |-> MovedRow(op, id).revision])
  BY DEF CommitMove
<1>2. /\ id \in FileIds /\ files[id] \in Rows /\ files[id].path = request[op].path
      /\ request[op].path \in Paths
      /\ request[op].kind = "rename" => request[op].dest \in Paths
  BY DEF RowsAt, Requested, TypeOK
<1>3. files'[id] = MovedRow(op, id)
  BY <1>1, <1>2
<1>4. /\ MovedRow(op, id).path = IF request[op].kind = "rename"
                                 THEN request[op].dest ELSE request[op].path
      /\ MovedRow(op, id).revision = files[id].revision + 1
      /\ MovedRow(op, id).hash = files[id].hash
  BY <1>2 DEF MovedRow, Rows
<1>5. ASSUME NEW i \in FileIds \ {id}
      PROVE  \/ files'[i] = files[i] /\ files[i].path # files'[id].path
             \/ files'[i] = [files[i] EXCEPT !.path = Retired] /\ files[i].path # NoPath
  <2>1. CASE i \in RetiredFor(op, id)
    <3>1. files[i].path = request[op].dest /\ request[op].kind = "rename"
      BY <2>1 DEF RetiredFor, RowsAt
    <3> QED
      BY <1>1, <1>2, <2>1, <3>1, ConstantsAssumption
  <2>2. CASE i \notin RetiredFor(op, id)
    <3>1. request[op].kind = "rename" => files[i].path # request[op].dest
      BY <1>1, <2>2 DEF RetiredFor, UniqueBroken, LiveAt, RowsAt
    <3>2. files[i].path # request[op].path
      BY <1>2 DEF PathsUnique
    <3> QED
      BY <1>1, <1>3, <1>4, <2>2, <3>1, <3>2
  <2> QED
    BY <2>1, <2>2
<1>6. CommitsRow(op, id)
  BY <1>2, <1>3, <1>4, <1>5 DEF CommitsRow
<1>7. PICK kind \in {"put", "delete"}, hash \in Hashes :
         Enqueue(op, [kind |-> kind, file |-> id, path |-> files'[id].path,
                      hash |-> hash, revision |-> files'[id].revision])
  <2>1. files[id].hash \in Hashes /\ Absent \in Hashes
    BY <1>2 DEF Rows, Hashes
  <2> QED
    BY <1>1, <1>3, <1>4, <2>1
<1> QED
  BY <1>2, <1>6, <1>7

\* A row that has a place keeps one, and its revision never falls.
RowsAdvance ==
    \A id \in FileIds : files[id].path # NoPath =>
        files'[id].path # NoPath /\ files[id].revision <= files'[id].revision

\* Naming an identity frees the path of tombstones before the identity takes it.
LEMMA ReidentifiedRows ==
    ASSUME TypeOK, PathsUnique, NEW p \in Paths, NEW ident \in FileIds,
           files' = Reidentified(p, ident)
    PROVE  PathsUnique' /\ RowsAdvance
<1> DEFINE taken == {id \in RowsAt(p) : files[id].deleted /\ id # ident}
<1>a. NoPath \notin Paths /\ Retired \notin Paths /\ Retired # NoPath
  BY ConstantsAssumption
<1>1. ASSUME NEW id \in FileIds
      PROVE  /\ files[id] \in Rows
             /\ files'[id].revision = files[id].revision
             /\ \/ files'[id].path = files[id].path /\ id \notin taken
                \/ id \in taken /\ files'[id].path = Retired
                \/ /\ id = ident /\ id \notin taken /\ files'[id].path = p
                   /\ files[id].path # NoPath /\ RowsAt(p) \subseteq taken
  BY DEF Reidentified, TypeOK, Rows
<1>2. \A id \in taken : files[id].path = p
  BY DEF RowsAt
<1>3. ASSUME NEW i \in FileIds, NEW j \in FileIds,
             files'[i].path = files'[j].path, files'[i].path \in Paths
      PROVE  i = j
  <2>1. i \notin taken /\ j \notin taken
    BY <1>1, <1>3, <1>a
  <2>2. CASE files'[i].path = files[i].path /\ files'[j].path = files[j].path
    BY <1>3, <2>2 DEF PathsUnique
  <2>3. CASE RowsAt(p) \subseteq taken /\ files'[i].path = p
    <3>1. \A id \in FileIds : id \notin taken => files[id].path # p
      BY <2>3 DEF RowsAt
    <3>2. i = ident /\ j = ident
      BY <1>1, <1>3, <2>1, <2>3, <3>1
    <3> QED
      BY <3>2
  <2> QED
    BY <1>1, <1>3, <2>1, <2>2, <2>3
<1>4. PathsUnique'
  BY <1>3 DEF PathsUnique
<1>5. RowsAdvance
  <2>1. \A id \in FileIds : files[id].revision \in Nat
    BY <1>1 DEF Rows
  <2> QED
    BY <1>1, <1>2, <1>a, <2>1 DEF RowsAdvance
<1> QED
  BY <1>4, <1>5

\* A scan gives each new path one fresh row, and tombstones make room for it.
LEMMA ScanRows ==
    ASSUME TypeOK, PathsUnique, NEW fresh \in FreshIds, files' = Scanned(fresh)
    PROVE  PathsUnique' /\ RowsAdvance
<1> DEFINE named(id) == {q \in NewPaths : fresh[q] = id}
<1>a. NoPath \notin Paths /\ Retired \notin Paths /\ Retired # NoPath
  BY ConstantsAssumption
<1>1. /\ fresh \in [NewPaths -> Unused] /\ NewPaths \subseteq Paths
      /\ \A q, r \in NewPaths : fresh[q] = fresh[r] => q = r
  BY DEF FreshIds, NewPaths
<1>2. ASSUME NEW id \in FileIds, named(id) # {}
      PROVE  /\ files[id].path = NoPath
             /\ files'[id].path \in named(id)
  <2>1. files[id].path = NoPath
    BY <1>1, <1>2 DEF Unused
  <2>2. files'[id].path = CHOOSE q \in named(id) : TRUE
    BY <1>2 DEF Scanned
  <2> QED
    BY <1>2, <2>1, <2>2
<1>3. ASSUME NEW id \in FileIds, named(id) = {}
      PROVE  /\ files'[id].path = IF files[id].path \in NewPaths THEN Retired
                                  ELSE files[id].path
             /\ files'[id].revision \in {files[id].revision, files[id].revision + 1}
  <2>1. files[id] \in Rows
    BY DEF TypeOK
  <2>2. files'[id] =
            IF files[id].path \in NewPaths THEN [files[id] EXCEPT !.path = Retired]
            ELSE IF files[id].deleted \/ files[id].path \notin Paths THEN files[id]
            ELSE IF disk[files[id].path] = Absent
            THEN [files[id] EXCEPT !.deleted = TRUE, !.revision = @ + 1]
            ELSE [files[id] EXCEPT !.hash = disk[files[id].path],
                             !.revision = IF files[id].hash = disk[files[id].path]
                                          THEN @ ELSE @ + 1]
    BY <1>3 DEF Scanned
  <2> QED
    BY <2>1, <2>2 DEF Rows
<1>4. ASSUME NEW i \in FileIds, NEW j \in FileIds,
             files'[i].path = files'[j].path, files'[i].path \in Paths
      PROVE  i = j
  <2>1. CASE named(i) # {} /\ named(j) # {}
    <3>1. files'[i].path \in named(i) /\ files'[i].path \in named(j)
      BY <1>2, <1>4, <2>1
    <3> QED
      BY <3>1
  <2>2. CASE named(i) = {} /\ named(j) = {}
    BY <1>3, <1>4, <1>a, <2>2 DEF PathsUnique
  <2>3. CASE named(i) # {} /\ named(j) = {}
    <3>1. files'[i].path \in NewPaths
      BY <1>2, <2>3
    <3> QED
      BY <1>3, <1>4, <1>a, <2>3, <3>1
  <2>4. CASE named(i) = {} /\ named(j) # {}
    <3>1. files'[j].path \in NewPaths
      BY <1>2, <2>4
    <3> QED
      BY <1>3, <1>4, <1>a, <2>4, <3>1
  <2> QED
    BY <2>1, <2>2, <2>3, <2>4
<1>5. PathsUnique'
  BY <1>4 DEF PathsUnique
<1>6. RowsAdvance
  <2>1. \A id \in FileIds : files[id].revision \in Nat
    BY DEF TypeOK, Rows
  <2>2. \A id \in FileIds : files[id].path # NoPath => named(id) = {}
    BY <1>2
  <2> HIDE DEF named
  <2> QED
    BY <1>1, <1>3, <1>a, <2>1, <2>2 DEF RowsAdvance
<1> QED
  BY <1>5, <1>6

\* A commit gives the file a free path.
LEMMA CommitRows ==
    ASSUME TypeOK, PathsUnique, NEW op \in Ops, NEW id \in FileIds, CommitsRow(op, id)
    PROVE  PathsUnique' /\ RowsAdvance
<1>a. NoPath \notin Paths /\ Retired \notin Paths /\ Retired # NoPath
  BY ConstantsAssumption
<1>1. \A i \in FileIds : files[i] \in Rows /\ files[i].revision \in Nat
  BY DEF TypeOK, Rows
<1>2. ASSUME NEW i \in FileIds \ {id}
      PROVE  /\ files'[i].path # files'[id].path
             /\ files'[i].path \in {files[i].path, Retired}
             /\ files[i].path # NoPath => files'[i].path # NoPath
             /\ files'[i].revision = files[i].revision
  <2>1. CASE files'[i] = files[i] /\ files[i].path # files'[id].path
    BY <2>1
  <2>2. CASE files'[i] = [files[i] EXCEPT !.path = Retired]
    BY <1>1, <1>a, <2>2 DEF CommitsRow, Rows
  <2> QED
    BY <2>1, <2>2 DEF CommitsRow
<1>3. PathsUnique'
  <2> SUFFICES ASSUME NEW i \in FileIds, NEW j \in FileIds, i # j,
                      files'[i].path = files'[j].path, files'[i].path \in Paths
               PROVE  FALSE
    BY DEF PathsUnique
  <2>1. i # id /\ j # id
    BY <1>2
  <2>2. files[i].path = files[j].path /\ files[i].path \in Paths
    BY <1>2, <1>a, <2>1
  <2> QED
    BY <2>2 DEF PathsUnique
<1>4. RowsAdvance
  <2>1. files'[id].path # NoPath /\ files[id].revision <= files'[id].revision
    BY <1>1, <1>a DEF CommitsRow
  <2> QED
    BY <1>1, <1>2, <2>1 DEF RowsAdvance
<1> QED
  BY <1>3, <1>4

\* Every step that commits nothing keeps the outbox.
LEMMA OtherRows ==
    ASSUME TypeOK, PathsUnique, [Next]_vars,
           \A op \in Ops : ~CommitWrite(op) /\ ~CommitMove(op)
    PROVE  PathsUnique' /\ RowsAdvance /\ UNCHANGED outbox
<1>a. UNCHANGED files => PathsUnique' /\ RowsAdvance
  BY DEF PathsUnique, RowsAdvance, TypeOK, Rows
<1>b. ScanFiles => PathsUnique' /\ RowsAdvance
  BY ScanRows DEF ScanFiles
<1>1. ASSUME NEW op \in Ops, NEW p \in Paths, NEW c \in Contents,
             NEW origin \in Origins, NEW ident \in FileIds \cup {NoId},
             SubmitWrite(op, p, c, origin, ident)
      PROVE  PathsUnique' /\ RowsAdvance /\ UNCHANGED outbox
  <2>1. /\ files' = IF ident = NoId THEN files ELSE Reidentified(p, ident)
        /\ UNCHANGED outbox
    BY <1>1 DEF SubmitWrite
  <2> QED
    BY <1>a, <2>1, ReidentifiedRows
<1>2. ASSUME NEW op \in Ops,
             Resubmit(op) \/ \E p, q \in Paths, kind \in {"rename", "delete"},
                               origin \in Origins : SubmitMove(op, kind, p, q, origin)
      PROVE  PathsUnique' /\ RowsAdvance /\ UNCHANGED outbox
  BY <1>2, <1>a DEF Resubmit, SubmitMove
<1>3. ASSUME NEW op \in Ops, Apply(op)
      PROVE  PathsUnique' /\ RowsAdvance /\ UNCHANGED outbox
  BY <1>3, <1>a DEF Apply, CheckWrite, ReplaceFile, CheckMove, CopyToTarget,
                    RemoveSource, ApplyFails
<1>4. ASSUME NEW p \in Paths, Read(p)
      PROVE  PathsUnique' /\ RowsAdvance /\ UNCHANGED outbox
  <2>1. UNCHANGED outbox
    BY <1>4 DEF Read
  <2>2. CASE ScanFiles
    BY <1>b, <2>1, <2>2
  <2>3. ASSUME NEW known \in LiveAt(p),
               files' = [files EXCEPT ![known].hash = disk[p],
                                      ![known].revision = @ + 1]
        PROVE  PathsUnique' /\ RowsAdvance
    <3>1. known \in FileIds
      BY DEF LiveAt, RowsAt
    <3>2. ASSUME NEW id \in FileIds
          PROVE  /\ files'[id].path = files[id].path
                 /\ files[id].revision <= files'[id].revision
      <4>1. files[id] \in Rows
        BY DEF TypeOK
      <4> QED
        BY <2>3, <3>1, <4>1 DEF TypeOK, Rows
    <3> QED
      BY <3>2 DEF PathsUnique, RowsAdvance
  <2> QED
    BY <1>4, <2>1, <2>2, <2>3 DEF Read
<1>5. CASE Scan \/ Open \/ Recover
  BY <1>5, <1>a, <1>b DEF Scan, Open, Recover, RecoverNext, RecoverDone
<1>6. CASE Environment \/ UNCHANGED vars
  BY <1>6, <1>a DEF Environment, Crash, Fault, ExternalEdit, vars
<1> QED
  BY <1>1, <1>2, <1>3, <1>4, <1>5, <1>6 DEF Next, Submit, Origins

\* What was queued for upload belongs to a row that has reached its revision.
Sent ==
    \A op \in Ops : outbox[op].kind # "none" =>
        /\ outbox[op].file \in FileIds
        /\ files[outbox[op].file].path # NoPath
        /\ outbox[op].revision <= files[outbox[op].file].revision

\* Rows advance, so what a commit sends is newer than all that was sent before.
LEMMA RowsStep ==
    ASSUME JournalInv, Requested, PathsUnique, Sent, UploadsOrdered, [Next]_vars
    PROVE  PathsUnique' /\ Sent' /\ UploadsOrdered'
<1>a. TypeOK
  BY DEF JournalInv
<1>b. \A id \in FileIds : files[id].revision \in Nat
  BY <1>a DEF TypeOK, Rows
<1>c. \A op \in Ops : outbox[op].revision \in Nat
  BY <1>a DEF TypeOK, Sends
<1>d. \A id \in FileIds : RowsAdvance /\ files[id].path # NoPath
                          => files'[id].revision \in Nat
  <2>1. TypeOK'
    BY <1>a, TypeStep DEF JournalInv
  <2> QED
    BY <2>1 DEF TypeOK, Rows
<1>1. ASSUME RowsAdvance
      PROVE  \A op \in Ops : outbox[op].kind # "none" =>
                /\ files'[outbox[op].file].path # NoPath
                /\ outbox[op].revision <= files'[outbox[op].file].revision
  BY <1>1, <1>b, <1>c, <1>d DEF Sent, RowsAdvance
<1>2. CASE \A op \in Ops : ~CommitWrite(op) /\ ~CommitMove(op)
  <2>1. PathsUnique' /\ RowsAdvance /\ UNCHANGED outbox
    BY <1>2, <1>a, OtherRows
  <2> QED
    BY <1>1, <2>1 DEF Sent, UploadsOrdered
<1>3. ASSUME NEW op \in Ops, CommitWrite(op) \/ CommitMove(op)
      PROVE  PathsUnique' /\ Sent' /\ UploadsOrdered'
  <2>1. operations[op] = "pending"
    BY <1>3, ConstantsAssumption DEF JournalInv, CallInProgress, CommitWrite, CommitMove
  <2>2. CommitWrite(op) => journal[op] \in FileIds
    BY DEF JournalInv, CallInProgress, CommitWrite
  <2>3. PICK id \in FileIds, kind \in {"put", "delete"}, hash \in Hashes :
           /\ CommitsRow(op, id)
           /\ Enqueue(op, [kind |-> kind, file |-> id, path |-> files'[id].path,
                           hash |-> hash, revision |-> files'[id].revision])
    BY <1>3, <1>a, <2>1, <2>2, WriteRow, MoveRow
  <2>4. PathsUnique' /\ RowsAdvance
    BY <1>a, <2>3, CommitRows
  <2>5. files'[id].path # NoPath /\ files'[id].revision = files[id].revision + 1
    BY <2>3, ConstantsAssumption DEF CommitsRow
  <2>6. CASE outbox' = outbox
    BY <1>1, <2>4, <2>6 DEF Sent, UploadsOrdered
  <2>7. CASE outbox' = [outbox EXCEPT ![op] =
                [kind |-> kind, file |-> id, path |-> files'[id].path,
                 hash |-> hash, revision |-> files'[id].revision]]
    <3>1. /\ outbox'[op].file = id
          /\ outbox'[op].revision = files[id].revision + 1
      BY <1>a, <2>5, <2>7 DEF TypeOK
    <3>2. \A o \in Ops \ {op} : outbox'[o] = outbox[o]
      BY <1>a, <2>7 DEF TypeOK
    <3>3. Sent'
      <4> SUFFICES ASSUME NEW o \in Ops, outbox'[o].kind # "none"
                   PROVE  /\ outbox'[o].file \in FileIds
                          /\ files'[outbox'[o].file].path # NoPath
                          /\ outbox'[o].revision <= files'[outbox'[o].file].revision
        BY DEF Sent
      <4>1. CASE o = op
        BY <1>b, <2>5, <3>1, <4>1
      <4>2. CASE o # op
        BY <1>1, <2>4, <3>2, <4>2 DEF Sent
      <4> QED
        BY <4>1, <4>2
    <3>4. ASSUME NEW o \in Ops \ {op}, outbox[o].kind # "none", outbox[o].file = id
          PROVE  outbox[o].revision # files[id].revision + 1
      BY <1>b, <1>c, <3>4 DEF Sent
    <3>5. UploadsOrdered'
      <4> SUFFICES ASSUME NEW a \in Ops, NEW b \in Ops, a # b,
                          outbox'[a].kind # "none", outbox'[b].kind # "none",
                          outbox'[a].file = outbox'[b].file
                   PROVE  outbox'[a].revision # outbox'[b].revision
        BY DEF UploadsOrdered
      <4>1. CASE a = op
        BY <3>1, <3>2, <3>4, <4>1
      <4>2. CASE b = op
        BY <3>1, <3>2, <3>4, <4>2
      <4>3. CASE a # op /\ b # op
        BY <3>2, <4>3 DEF UploadsOrdered
      <4> QED
        BY <4>1, <4>2, <4>3
    <3> QED
      BY <2>4, <3>3, <3>5
  <2> QED
    BY <2>3, <2>6, <2>7 DEF Enqueue
<1> QED
  BY <1>2, <1>3

\* Rows, requests and uploads of every behaviour.
LEMMA RowsInvariant ==
    Spec => [](Requested /\ PathsUnique /\ Sent /\ UploadsOrdered)
<1>1. Init => Requested /\ PathsUnique /\ Sent /\ UploadsOrdered
  <2>1. NoPath \notin Paths
    BY ConstantsAssumption
  <2> QED
    BY <2>1 DEF Init, Requested, PathsUnique, Sent, UploadsOrdered, NoRow, NoSend
<1>2. /\ JournalInv /\ Requested /\ PathsUnique /\ Sent /\ UploadsOrdered
      /\ [Next]_vars
      => Requested' /\ PathsUnique' /\ Sent' /\ UploadsOrdered'
  BY RequestedStep, RowsStep DEF JournalInv
<1> QED
  BY <1>1, <1>2, JournalInvariant, PTL DEF Spec

\* No two rows ever hold the same path: the updates of identities and tombstones
\* keep files.path UNIQUE, whatever stops and whatever others do to the vault.
THEOREM PathsStayUnique == Spec => []PathsUnique
  BY RowsInvariant, PTL

\* The uploads of a file carry distinct revisions, so their order can always be
\* recovered from the outbox (apply_stored_journal, apply_file_op).
THEOREM UploadsStayOrdered == Spec => []UploadsOrdered
  BY RowsInvariant, PTL
=============================================================================

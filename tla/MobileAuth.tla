----------------------------- MODULE MobileAuth -----------------------------
(***************************************************************************)
(* The sign-in coordinator of the mobile host                              *)
(* (mobile_sync_session.rs, mobile_sync_auth.rs, mobile_sync_commands.rs,  *)
(* mobile_sync_foreground.rs, and the gate in the mobile application's     *)
(* mobile_sync_commands.rs).                                               *)
(*                                                                         *)
(* A durable journal holds one intent per operation id (login, refresh,    *)
(* logout, local disconnect), the current intent of every scope (server    *)
(* and account) and the one selected profile; the session itself is a      *)
(* secret in the platform's store, under its scope and device.  Requests   *)
(* queue for one gate.  Each holds a lease of the foreground epoch it      *)
(* arrived in; onStart, onStop and every request that changes the identity *)
(* begin a new epoch, so all earlier leases are dead.  Every durable step  *)
(* runs under a lease that is checked and held for the step; a request     *)
(* that waits for the server is dropped when the epoch changes, and what   *)
(* the server did meanwhile is then unknown.                               *)
(*                                                                         *)
(* An epoch is represented by the leases that survive it: `leased' of a    *)
(* request holds until the next change.  The generation of an intent       *)
(* adds nothing to its unique operation id and is left out, as are the     *)
(* requests that only read (profiles, operation, choice receipt).          *)
(***************************************************************************)
EXTENDS Naturals, FiniteSets

CONSTANTS
    Scopes,        \* (endpoint, account) pairs
    Ops,           \* operation ids of intents; a device is named by its login
    NoOp,          \* no operation: an SQL NULL
    ChoiceIds,     \* operation ids of profile choices
    MaxWaiting,    \* requests waiting for the gate
    MaxEvents      \* requests, lifecycle callbacks and process deaths

ASSUME AuthBounds == NoOp \notin Ops /\ MaxWaiting \in Nat /\ MaxEvents \in Nat

VARIABLES
    intents,       \* auth_intents, by operation id
    current,       \* auth_scopes: the current operation of each scope
    selected,      \* auth_selection: [op, revision]
    choices,       \* auth_profile_choices: ids with a receipt
    rejected,      \* auth_rejections
    secrets,       \* the platform's store: device -> operation that stored
    active,        \* the Activity is in the foreground
    waiting,       \* requests queued for the gate
    holder,        \* the request that holds the gate
    posts,         \* how often each operation was sent to the server
    server,        \* what the server did with each operation
    live,          \* the session the server honours, by device
    events

journal == <<intents, current, selected, choices, rejected>>
vars == <<journal, secrets, active, waiting, holder, posts, server, live,
          events>>

NoIntent == [kind |-> "none"]
NoRequest == [kind |-> "none"]

Known(o) == intents[o].kind # "none"
KnownOps == {o \in Ops : Known(o)}
ScopeOf(o) == intents[o].scope
DeviceOf(o) == intents[o].device
Phase(o) == intents[o].phase

InvalidatingKinds ==
    {"cancel", "choose", "login", "refresh", "logout", "local_disconnect", "resume"}
Existing == {"refresh", "logout", "local_disconnect"}

-----------------------------------------------------------------------------
(* The journal: what the guarded transactions require and write.           *)

IsCurrent(o) == Known(o) /\ current[ScopeOf(o)] = o
IsSelected(o) == selected.op = o

\* select_current: a new revision for every change of the selection.
Select(o) == selected' = [op |-> o, revision |-> selected.revision + 1]

\* StoredIdentity::matches: the secret under the device is this operation's.
Stored(o) == IF DeviceOf(o) = NoOp THEN NoOp ELSE secrets[DeviceOf(o)]
StoredMatches(o) == Stored(o) = o

MayLogin(r) ==
    \/ current[r.scope] = NoOp
    \/ Phase(current[r.scope]) \in {"unknown", "disconnected"}

MayReplace(r) ==
    /\ IsCurrent(r.previous)
    /\ IsSelected(r.previous)
    /\ r.kind # "local_disconnect" => Phase(r.previous) = "active"
    /\ DeviceOf(r.previous) # NoOp

FirstPhase(kind) ==
    CASE kind = "login"            -> "login_pending"
      [] kind = "refresh"          -> "refresh_pending"
      [] kind = "logout"           -> "logout_pending"
      [] kind = "local_disconnect" -> "erase_pending"

NewIntent(r) ==
    [kind |-> r.kind, scope |-> r.scope, phase |-> FirstPhase(r.kind),
     device |-> IF r.kind = "login" THEN NoOp ELSE DeviceOf(r.previous),
     previous |-> r.previous, confirmed |-> FALSE]

\* prepare_login, prepare_existing: the new intent becomes the current one of
\* its scope and the selected profile, in one transaction.
Prepare(r) ==
    /\ intents' = [intents EXCEPT ![r.id] = NewIntent(r)]
    /\ current' = [current EXCEPT ![r.scope] = r.id]
    /\ Select(r.id)
    /\ UNCHANGED <<choices, rejected>>

\* An interrupted answer is taken for the new session.
DefectReconciled(o, stored) ==
    IF Phase(o) = "disconnected" \/ (Phase(o) = "erase_pending" /\ stored = NoOp)
    THEN "disconnected"
    ELSE IF /\ intents[o].kind \in {"login", "refresh"}
            /\ o \notin rejected
            /\ stored # NoOp
         THEN "active"
    ELSE IF Phase(o) = "erase_pending" THEN "erase_pending"
    ELSE "unknown"

\* reconcile: the phase an intent is left in, given what the store holds.
Reconciled(o, stored) ==
    IF Phase(o) = "disconnected" \/ (Phase(o) = "erase_pending" /\ stored = NoOp)
    THEN "disconnected"
    ELSE IF /\ intents[o].kind \in {"login", "refresh"}
            /\ o \notin rejected
            /\ Phase(o) \in {"store_pending", "active", "unknown"}
            /\ stored = o
         THEN "active"
    ELSE IF Phase(o) = "erase_pending" THEN "erase_pending"
    ELSE "unknown"

-----------------------------------------------------------------------------
(* The foreground and the gate.                                            *)

\* A new epoch: no lease taken before it is valid any more.
Expire(r) == IF r.kind = "none" THEN r ELSE [r EXCEPT !.leased = FALSE]

\* A later request that changes the identity has arrived.
Outdate(r) == IF r.kind = "none" THEN r ELSE [r EXCEPT !.newest = FALSE]

Request(kind, id, scope, previous, expected) ==
    [kind |-> kind, id |-> id, scope |-> scope, previous |-> previous,
     expected |-> expected, stage |-> "waiting", leased |-> TRUE, newest |-> TRUE]

\* What a view may ask for: an operation id it has used or a new one, with the
\* selection it last saw.
Wanted ==
    LET Seen == {e \in 0 .. selected.revision : e + 1 >= selected.revision}
    IN  {Request("login", o, s, NoOp, e) : o \in Ops, s \in Scopes, e \in Seen}
        \cup {Request(k, o, ScopeOf(p), p, e) : k \in Existing, o \in Ops, p \in KnownOps, e \in Seen}
        \cup {Request("choose", c, ScopeOf(p), p, e) : c \in ChoiceIds, p \in KnownOps, e \in Seen}
        \cup {Request("resume", p, ScopeOf(p), p, e) : p \in KnownOps, e \in Seen}
        \cup {Request("use", p, ScopeOf(p), p, 0) : p \in KnownOps}
        \cup {Request(k, NoOp, NoOp, NoOp, 0) : k \in {"current", "cancel"}}

\* A request arrives.  One that changes the identity ends every earlier lease
\* before it asks for the gate; without the foreground it gets no lease.
Submit(r) ==
    /\ events < MaxEvents
    /\ Cardinality(waiting) < MaxWaiting
    /\ IF r.kind \in InvalidatingKinds
       THEN /\ holder' = Outdate(Expire(holder))
            /\ waiting' = {Outdate(Expire(q)) : q \in waiting}
                          \cup (IF active THEN {r} ELSE {})
       ELSE /\ active
            /\ waiting' = waiting \cup {r}
            /\ UNCHANGED holder
    /\ events' = events + 1
    /\ UNCHANGED <<journal, secrets, active, posts, server, live>>

\* onStart, onStop.
Lifecycle(next) ==
    /\ events < MaxEvents
    /\ active # next
    /\ active' = next
    /\ holder' = Expire(holder)
    /\ waiting' = {Expire(q) : q \in waiting}
    /\ events' = events + 1
    /\ UNCHANGED <<journal, secrets, posts, server, live>>

\* A waiting request whose epoch is over leaves the queue.
Drop ==
    /\ \E r \in waiting : ~r.leased /\ waiting' = waiting \ {r}
    /\ UNCHANGED <<journal, secrets, active, holder, posts, server, live, events>>

Release == holder' = NoRequest
Step(r, stage) == holder' = [r EXCEPT !.stage = stage]

\* The gate is free: the request is executed, to its end or its first await.
Enter(r, kinds) ==
    /\ holder.kind = "none"
    /\ r.kind \in kinds
    /\ r.leased
    /\ waiting' = waiting \ {r}

\* Every further durable step needs the lease the request came with.
Abandon ==
    /\ holder.kind # "none"
    /\ ~holder.leased
    /\ Release
    /\ UNCHANGED <<journal, secrets, active, waiting, posts, server, live, events>>

-----------------------------------------------------------------------------
(* execute: the requests, under the gate.                                  *)

\* The answer of the server is applied without asking for the lease again.
DefectHolds(kinds, stage) ==
    /\ holder.kind \in kinds
    /\ holder.stage = stage

Holds(kinds, stage) ==
    /\ holder.kind \in kinds
    /\ holder.stage = stage
    /\ holder.leased

SelectionSeen(r) == selected.revision = r.expected

\* recover_selected, recover: the selected profile's intent is reconciled with
\* what the store holds.
Recover(r) ==
    /\ Enter(r, {"current"})
    /\ intents' = IF selected.op = NoOp THEN intents
                  ELSE [intents EXCEPT ![selected.op].phase = Reconciled(selected.op, Stored(selected.op))]
    /\ UNCHANGED <<current, selected, choices, rejected, secrets, active, holder,
                   posts, server, live, events>>

\* Cancel: its arrival was its effect.
Cancel(r) ==
    /\ Enter(r, {"cancel"})
    /\ UNCHANGED <<journal, secrets, active, holder, posts, server, live, events>>

\* choose: a receipt answers a repeated choice; a new one compares the
\* selection's revision and needs the current intent of the target's scope.
Choose(r) ==
    /\ Enter(r, {"choose"})
    /\ IF r.id \notin choices /\ SelectionSeen(r) /\ IsCurrent(r.previous)
       THEN /\ choices' = choices \cup {r.id}
            /\ IF IsSelected(r.previous) THEN UNCHANGED selected ELSE Select(r.previous)
            /\ UNCHANGED <<intents, current, rejected>>
       ELSE UNCHANGED journal
    /\ UNCHANGED <<secrets, active, holder, posts, server, live, events>>

\* original, expected: a known operation is only looked up.
Fresh(r) == ~Known(r.id) /\ SelectionSeen(r)

MayPrepare(r) == IF r.kind = "login" THEN MayLogin(r) ELSE MayReplace(r)

\* login, refresh, logout, local_disconnect up to the intent; the previous
\* session is read after the intent is durable, and a request without it ends.
Begin(r) ==
    /\ Enter(r, {"login"} \cup Existing)
    /\ IF Fresh(r) /\ MayPrepare(r)
       THEN /\ Prepare(r)
            /\ CASE r.kind = "login" -> Step(r, "send")
                 [] r.kind = "local_disconnect" -> Step(r, "erase")
                 [] OTHER -> IF StoredMatches(r.previous) THEN Step(r, "send")
                             ELSE UNCHANGED holder
       ELSE UNCHANGED <<journal, holder>>
    /\ UNCHANGED <<secrets, active, posts, server, live, events>>

\* resume_erasure: only the selected, original disconnect.
Resume(r) ==
    /\ Enter(r, {"resume"})
    /\ IF /\ SelectionSeen(r)
          /\ IsSelected(r.id)
          /\ Phase(r.id) \in {"erase_pending", "disconnected"}
          /\ \/ intents[r.id].kind = "local_disconnect"
             \/ intents[r.id].kind = "logout" /\ intents[r.id].confirmed
       THEN Step(r, "erase")
       ELSE UNCHANGED holder
    /\ UNCHANGED <<journal, secrets, active, posts, server, live, events>>

\* authorized: the task runs with the session of the exact active identity;
\* an expired one, or one whose password must change, is refused.
Authorize(r) ==
    /\ Enter(r, {"use"})
    /\ \/ /\ IsCurrent(r.id)
          /\ Phase(r.id) = "active"
          /\ IsSelected(r.id)
          /\ StoredMatches(r.id)
          /\ Step(r, "using")
       \/ UNCHANGED holder
    /\ UNCHANGED <<journal, secrets, active, posts, server, live, events>>

\* The guarded task ends.
Finish ==
    /\ Holds({"use"}, "using")
    /\ Release
    /\ UNCHANGED <<journal, secrets, active, waiting, posts, server, live, events>>

Send ==
    /\ Holds({"login", "refresh", "logout"}, "send")
    /\ Step(holder, "sent")
    /\ posts' = [posts EXCEPT ![holder.id] = @ + 1]
    /\ server' = [server EXCEPT ![holder.id] = "sent"]
    /\ UNCHANGED <<journal, secrets, active, waiting, live, events>>

\* The transport fails, or answers with something the journal does not record.
TransportFails ==
    /\ Holds({"login", "refresh", "logout"}, "sent")
    /\ Release
    /\ UNCHANGED <<journal, secrets, active, waiting, posts, server, live, events>>

\* failed, record_rejection: the server's definite refusal.
Rejected ==
    /\ Holds({"login", "refresh", "logout"}, "sent")
    /\ server[holder.id] = "sent"
    /\ server' = [server EXCEPT ![holder.id] = "refused"]
    /\ IsCurrent(holder.id)
    /\ rejected' = rejected \cup {holder.id}
    /\ intents' = [intents EXCEPT ![holder.id].phase = "unknown"]
    /\ Release
    /\ UNCHANGED <<current, selected, choices, secrets, active, waiting, posts,
                   live, events>>

\* A session's device is its own for a login, the previous one for a refresh.
Device(o) == IF intents[o].kind = "login" THEN o ELSE DeviceOf(o)

\* The store under a device after a put or a removal (NoOp).
Put(d, o) == [secrets EXCEPT ![d] = o]

\* accept: the intent takes the device, the secret is stored and read back, the
\* intent becomes active.  An error or the end of the process leaves a prefix.
Accept ==
    /\ Holds({"login", "refresh"}, "sent")
    /\ server[holder.id] = "granted"
    /\ IsCurrent(holder.id)
    /\ IsSelected(holder.id)
    /\ Phase(holder.id) \in {"login_pending", "refresh_pending"}
    /\ LET o == holder.id IN
       \E reached \in {"received", "stored", "active"} :
          /\ intents' = [intents EXCEPT ![o].device = Device(o),
                              ![o].phase = IF reached = "active" THEN "active" ELSE "store_pending"]
          /\ secrets' = IF reached = "received" THEN secrets
                        ELSE Put(Device(o), o)
    /\ Release
    /\ UNCHANGED <<current, selected, choices, rejected, active, waiting, posts,
                   server, live, events>>

\* received_logout.
LoggedOut ==
    /\ Holds({"logout"}, "sent")
    /\ server[holder.id] = "granted"
    /\ IsCurrent(holder.id)
    /\ IsSelected(holder.id)
    /\ Phase(holder.id) = "logout_pending"
    /\ intents' = [intents EXCEPT ![holder.id].phase = "erase_pending",
                                  ![holder.id].confirmed = TRUE]
    /\ Step(holder, "erase")
    /\ UNCHANGED <<current, selected, choices, rejected, secrets, active, waiting,
                   posts, server, live, events>>

\* The intent is closed although the store refused to remove the secret.
DefectErased(o, reached) == "disconnected"

\* What the intent says after the removal got this far.
Erased(o, reached) ==
    IF reached = "reconciled" THEN Reconciled(o, NoOp) ELSE Phase(o)

\* erase: the secret is removed, found absent, and the intent is closed.
Erase ==
    /\ Holds({"logout", "local_disconnect", "resume"}, "erase")
    /\ LET o == holder.id IN
       /\ IsCurrent(o) /\ IsSelected(o)
       /\ Phase(o) \in {"erase_pending", "disconnected"}
       /\ \E reached \in {"refused", "removed", "reconciled"} :
             /\ intents' = [intents EXCEPT ![o].phase = Erased(o, reached)]
             /\ secrets' = IF reached = "refused" \/ Phase(o) = "disconnected" THEN secrets
                           ELSE Put(DeviceOf(o), NoOp)
    /\ Release
    /\ UNCHANGED <<current, selected, choices, rejected, active, waiting, posts,
                   server, live, events>>

-----------------------------------------------------------------------------
(* The sync server, and the end of the process.                            *)

\* The server grants what it was sent, once; a refresh or logout only with the
\* session it honours.  The answer may come after nobody waits for it.
Grant(o) ==
    /\ server[o] = "sent"
    /\ intents[o].kind # "login" => live[DeviceOf(o)] = intents[o].previous
    /\ server' = [server EXCEPT ![o] = "granted"]
    /\ live' = [live EXCEPT ![Device(o)] = IF intents[o].kind = "logout" THEN NoOp ELSE o]
    /\ UNCHANGED <<journal, secrets, active, waiting, holder, posts, events>>

\* The process dies; journal and secrets survive.
Crash ==
    /\ events < MaxEvents
    /\ active' = FALSE
    /\ waiting' = {}
    /\ Release
    /\ events' = events + 1
    /\ UNCHANGED <<journal, secrets, posts, server, live>>

-----------------------------------------------------------------------------
Init ==
    /\ intents = [o \in Ops |-> NoIntent]
    /\ current = [s \in Scopes |-> NoOp]
    /\ selected = [op |-> NoOp, revision |-> 0]
    /\ choices = {}
    /\ rejected = {}
    /\ secrets = [o \in Ops |-> NoOp]
    /\ active = TRUE
    /\ waiting = {}
    /\ holder = NoRequest
    /\ posts = [o \in Ops |-> 0]
    /\ server = [o \in Ops |-> "none"]
    /\ live = [o \in Ops |-> NoOp]
    /\ events = 0

Next ==
    \/ \E r \in Wanted : Submit(r)
    \/ \E next \in BOOLEAN : Lifecycle(next)
    \/ Drop
    \/ Abandon
    \/ \E r \in waiting :
          \/ Recover(r)
          \/ Cancel(r)
          \/ Choose(r)
          \/ Begin(r)
          \/ Resume(r)
          \/ Authorize(r)
    \/ Finish
    \/ Send
    \/ TransportFails
    \/ Rejected
    \/ Accept
    \/ LoggedOut
    \/ Erase
    \/ \E o \in Ops : Grant(o)
    \/ Crash

Spec == Init /\ [][Next]_vars

-----------------------------------------------------------------------------
(* Properties.                                                             *)

Phases == {"login_pending", "store_pending", "active", "refresh_pending",
           "logout_pending", "erase_pending", "disconnected", "unknown"}

\* The rows of the journal and of the secret store refer to one another: an
\* intent's scope, device and previous operation are known ones, a pending or
\* active phase fits the intent's kind.
TypeOK ==
    /\ \A o \in KnownOps :
          /\ ScopeOf(o) \in Scopes
          /\ Phase(o) \in Phases
          /\ DeviceOf(o) \in KnownOps \cup {NoOp}
          /\ intents[o].kind # "login" => intents[o].previous \in KnownOps /\ DeviceOf(o) # NoOp
          /\ Phase(o) = "active" => intents[o].kind \in {"login", "refresh"} /\ o \notin rejected
          /\ Phase(o) = "disconnected" => intents[o].kind \in {"logout", "local_disconnect"}
    /\ \A s \in Scopes : current[s] # NoOp => Known(current[s]) /\ ScopeOf(current[s]) = s
    /\ \A d \in Ops : secrets[d] # NoOp => Known(secrets[d]) /\ DeviceOf(secrets[d]) = d

\* A profile the host calls active has in the store its own session, and it is
\* the last one the server issued for that device: refreshes whose answer was
\* lost, late answers and account switches never leave an older session, or
\* one the server has revoked, in use (Reconciled, accept, authorized).
ActiveIsLatest ==
    \A s \in Scopes :
        LET o == current[s] IN
        o # NoOp /\ Phase(o) = "active" => StoredMatches(o) /\ live[DeviceOf(o)] = o

\* An operation id is sent to the server at most once, however often the view
\* repeats the request and wherever the process stopped (first_send).
NeverResent == \A o \in Ops : posts[o] <= 1

\* A disconnected profile has left no session in the store, although removal
\* and journal are two stores with a crash between them, and nothing that
\* arrives later puts one back (erase, reconcile).
DisconnectedIsErased ==
    \A o \in KnownOps : Phase(o) = "disconnected" => Stored(o) = NoOp

\* The selected profile is the current intent of its scope: no login, refresh,
\* logout or choice moves one without the other (select_current).
SelectionIsCurrent == selected.op # NoOp => IsCurrent(selected.op)

\* The selection and the stored sessions are only changed for the newest
\* request that changes the identity: an older one, queued or waiting for the
\* server when the user switched accounts, cannot apply its result.
NewestRequestWins ==
    [][<<selected, secrets>>' # <<selected, secrets>> =>
         \/ holder.kind # "none" /\ holder.newest
         \/ holder.kind = "none" /\ \E r \in waiting \ waiting' : r.newest]_vars
=============================================================================

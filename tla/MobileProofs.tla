---------------------------- MODULE MobileProofs ----------------------------
(***************************************************************************)
(* Proofs about MobileAuth, for any scopes and operation ids, and about    *)
(* MobileDrafts, for any drafts, editors, notes, intents and texts.        *)
(***************************************************************************)
EXTENDS MobileAuth, MobileDrafts, FiniteSetTheorems, TLAPS

Sending == {"login", "refresh", "logout"}
Granting == {"login", "refresh"}
Kinds == {"login"} \cup Existing
Optional == Ops \cup {NoOp}
Intents == [kind: Kinds, scope: Scopes, phase: Phases, device: Optional,
            previous: Optional, confirmed: BOOLEAN]
RequestKinds == Kinds \cup {"choose", "resume", "use", "current", "cancel"}

StateTypes ==
    /\ intents \in [Ops -> {NoIntent} \cup Intents]
    /\ current \in [Scopes -> Optional]
    /\ selected \in [op: Optional, revision: Nat]
    /\ secrets \in [Ops -> Optional] /\ live \in [Ops -> Optional]
    /\ server \in [Ops -> {"none", "sent", "granted", "refused"}]
    /\ posts \in [Ops -> Nat]

KindOf(o) == intents[o].kind
PreviousOf(o) == intents[o].previous

\* What an intent says of its device and of the operation it replaced: a device
\* is a login the server granted, and what was replaced is current no more.
WellFormed(o) ==
    /\ KindOf(o) = "login" => DeviceOf(o) \in {NoOp, o}
    /\ KindOf(o) # "login" =>
          /\ DeviceOf(o) # NoOp
          /\ PreviousOf(o) \in KnownOps /\ ScopeOf(PreviousOf(o)) = ScopeOf(o)
          /\ ~IsCurrent(PreviousOf(o))
    /\ DeviceOf(o) # NoOp =>
          /\ DeviceOf(o) \in KnownOps /\ KindOf(DeviceOf(o)) = "login"
          /\ ScopeOf(DeviceOf(o)) = ScopeOf(o) /\ DeviceOf(DeviceOf(o)) = DeviceOf(o)
          /\ server[DeviceOf(o)] = "granted"
    /\ Phase(o) \in {"active", "store_pending"} => KindOf(o) \in Granting
    /\ Phase(o) = "login_pending" => KindOf(o) = "login" /\ DeviceOf(o) = NoOp
    /\ Phase(o) = "refresh_pending" => KindOf(o) = "refresh"
    /\ Phase(o) \in {"erase_pending", "disconnected"} =>
          KindOf(o) \in {"logout", "local_disconnect"}

Journal ==
    /\ \A s \in Scopes : current[s] # NoOp => Known(current[s]) /\ ScopeOf(current[s]) = s
    /\ selected.op # NoOp => IsCurrent(selected.op)
    /\ \A o \in Ops : server[o] # "none" => Known(o)
    /\ \A o \in Ops : posts[o] = IF server[o] = "none" THEN 0 ELSE 1
    /\ \A o \in KnownOps : WellFormed(o)

\* Who holds what: the store only has granted sessions under their device; the
\* server honours the session of the operation that is current, if it granted
\* it; a disconnected device has none, and no current operation brings one.
Disconnected(o) ==
    Phase(o) = "disconnected" =>
        /\ Stored(o) = NoOp
        /\ \A c \in KnownOps : IsCurrent(c) /\ KindOf(c) \in Granting =>
                                  DeviceOf(c) # DeviceOf(o)
Sessions ==
    /\ \A d \in Ops : secrets[d] # NoOp =>
          /\ secrets[d] \in KnownOps /\ server[secrets[d]] = "granted"
          /\ KindOf(secrets[d]) \in Granting /\ DeviceOf(secrets[d]) = d
    /\ \A o \in KnownOps : IsCurrent(o) /\ server[o] = "granted" /\ KindOf(o) \in Granting =>
          live[Device(o)] = o
    /\ \A o \in KnownOps : IsCurrent(o) /\ Phase(o) = "active" =>
          DeviceOf(o) # NoOp /\ secrets[DeviceOf(o)] = o
    /\ \A o \in KnownOps : Disconnected(o)

\* A request refers to what is known; its lease ends with the arrival of a newer
\* one.
RequestTypes == [kind: RequestKinds, id: Optional \cup ChoiceIds, scope: Scopes \cup {NoOp},
                 previous: Optional, expected: Nat, stage: {"waiting", "send", "sent", "erase", "using"},
                 leased: BOOLEAN, newest: BOOLEAN]
Asked(r) ==
    /\ r \in RequestTypes
    /\ r.leased => r.newest
    /\ r.kind = "login" => r.id \in Ops /\ r.scope \in Scopes /\ r.previous = NoOp
    /\ r.kind \in Existing => /\ r.id \in Ops /\ r.previous \in KnownOps
                              /\ r.scope = ScopeOf(r.previous)
    /\ r.kind = "choose" => r.previous \in KnownOps
    /\ r.kind \in {"resume", "use"} => r.id \in KnownOps

\* The request at the gate has its intent, which was not sent before it is sent.
Executed(r) ==
    /\ Asked(r)
    /\ r.stage \in {"send", "sent"} =>
          r.kind \in Sending /\ r.id \in KnownOps /\ KindOf(r.id) = r.kind
    /\ r.stage = "send" => server[r.id] = "none"
    /\ r.stage = "erase" => r.id \in KnownOps

Requests ==
    /\ \A r \in waiting : Asked(r)
    /\ holder = NoRequest \/ Executed(holder)

AuthInv == StateTypes /\ Journal /\ Sessions /\ Requests

-----------------------------------------------------------------------------
(* What the operators keep of the types. *)

LEMMA KnownIntent ==
    ASSUME StateTypes, NEW o \in KnownOps
    PROVE  o \in Ops /\ intents[o] \in Intents /\ Known(o)
BY DEF StateTypes, KnownOps, Known, NoIntent

\* An intent that is known stays known, under its kind, scope and predecessor;
\* this one is left with a device and a phase.
Updates(o, device, phase) ==
    /\ intents' \in [Ops -> {NoIntent} \cup Intents]
    /\ KnownOps' = KnownOps
    /\ \A x \in Ops : Known(x)' <=> Known(x)
    /\ \A x \in Ops : x # o => intents'[x] = intents[x]
    /\ KindOf(o)' = KindOf(o) /\ ScopeOf(o)' = ScopeOf(o) /\ PreviousOf(o)' = PreviousOf(o)
    /\ DeviceOf(o)' = device /\ Phase(o)' = phase

LEMMA UpdatesRecord ==
    ASSUME StateTypes, NEW o \in KnownOps, NEW rec \in Intents,
           intents' = [intents EXCEPT ![o] = rec],
           rec.kind = KindOf(o), rec.scope = ScopeOf(o), rec.previous = PreviousOf(o)
    PROVE  Updates(o, rec.device, rec.phase)
<1>1. o \in Ops /\ Known(o) /\ intents'[o] = rec
  BY KnownIntent DEF StateTypes
<1>2. intents' \in [Ops -> {NoIntent} \cup Intents]
  BY <1>1 DEF StateTypes
<1>3. \A x \in Ops : x # o => intents'[x] = intents[x]
  BY <1>1 DEF StateTypes
<1>4. \A x \in Ops : Known(x)' <=> Known(x)
  BY <1>1, <1>3 DEF Known, KindOf
<1>5. KnownOps' = KnownOps
  BY <1>4 DEF KnownOps
<1> QED
  BY <1>1, <1>2, <1>3, <1>4, <1>5 DEF Updates, KindOf, ScopeOf, PreviousOf, DeviceOf, Phase

\* The intent changes its phase, takes a device or is confirmed.
LEMMA UpdatesPhase ==
    ASSUME StateTypes, NEW o \in KnownOps, NEW phase \in Phases,
           intents' = [intents EXCEPT ![o].phase = phase]
    PROVE  Updates(o, DeviceOf(o), phase)
<1> DEFINE rec == [intents[o] EXCEPT !.phase = phase]
<1>1. intents[o] \in Intents /\ o \in Ops
  BY KnownIntent
<1>2. /\ rec \in Intents /\ rec.kind = KindOf(o) /\ rec.scope = ScopeOf(o)
      /\ rec.previous = PreviousOf(o) /\ rec.device = DeviceOf(o) /\ rec.phase = phase
  BY <1>1 DEF Intents, KindOf, ScopeOf, PreviousOf, DeviceOf
<1>3. intents' = [intents EXCEPT ![o] = rec]
  BY <1>1 DEF StateTypes
<1> HIDE DEF rec
<1> QED
  BY <1>2, <1>3, UpdatesRecord

LEMMA UpdatesDevice ==
    ASSUME StateTypes, NEW o \in KnownOps, NEW phase \in Phases, NEW device \in Optional,
           intents' = [intents EXCEPT ![o].device = device, ![o].phase = phase]
    PROVE  Updates(o, device, phase)
<1> DEFINE rec == [intents[o] EXCEPT !.device = device, !.phase = phase]
<1>1. intents[o] \in Intents /\ o \in Ops
  BY KnownIntent
<1>2. /\ rec \in Intents /\ rec.kind = KindOf(o) /\ rec.scope = ScopeOf(o)
      /\ rec.previous = PreviousOf(o) /\ rec.device = device /\ rec.phase = phase
  BY <1>1 DEF Intents, KindOf, ScopeOf, PreviousOf, DeviceOf
<1>3. intents' = [intents EXCEPT ![o] = rec]
  BY <1>1 DEF StateTypes
<1> HIDE DEF rec
<1> QED
  BY <1>2, <1>3, UpdatesRecord

LEMMA UpdatesConfirmed ==
    ASSUME StateTypes, NEW o \in KnownOps, NEW phase \in Phases,
           intents' = [intents EXCEPT ![o].phase = phase, ![o].confirmed = TRUE]
    PROVE  Updates(o, DeviceOf(o), phase)
<1> DEFINE rec == [intents[o] EXCEPT !.phase = phase, !.confirmed = TRUE]
<1>1. intents[o] \in Intents /\ o \in Ops
  BY KnownIntent
<1>2. /\ rec \in Intents /\ rec.kind = KindOf(o) /\ rec.scope = ScopeOf(o)
      /\ rec.previous = PreviousOf(o) /\ rec.device = DeviceOf(o) /\ rec.phase = phase
  BY <1>1 DEF Intents, KindOf, ScopeOf, PreviousOf, DeviceOf
<1>3. intents' = [intents EXCEPT ![o] = rec]
  BY <1>1 DEF StateTypes
<1> HIDE DEF rec
<1> QED
  BY <1>2, <1>3, UpdatesRecord

\* The phase after a reconciliation fits the kind and the store.
LEMMA ReconciledPhase ==
    ASSUME StateTypes, Journal, NEW o \in KnownOps, NEW stored
    PROVE  LET phase == Reconciled(o, stored)
           IN  /\ phase \in {"disconnected", "active", "erase_pending", "unknown"}
               /\ phase = "active" => stored = o /\ KindOf(o) \in Granting
               /\ phase = "disconnected" =>
                     /\ KindOf(o) \in {"logout", "local_disconnect"}
                     /\ Phase(o) = "disconnected" \/ stored = NoOp
               /\ phase = "erase_pending" => Phase(o) = "erase_pending"
BY DEF Reconciled, Journal, WellFormed, KindOf, Granting

\* Two devices of one scope's current operation are one.
LEMMA SameDevice ==
    ASSUME Journal, NEW o \in KnownOps, NEW x \in KnownOps,
           DeviceOf(o) = DeviceOf(x), DeviceOf(o) # NoOp, IsCurrent(o), IsCurrent(x)
    PROVE  o = x
<1>1. ScopeOf(o) = ScopeOf(DeviceOf(o)) /\ ScopeOf(x) = ScopeOf(DeviceOf(x))
  BY DEF Journal, WellFormed
<1> QED
  BY <1>1 DEF IsCurrent

-----------------------------------------------------------------------------
(* The journal and the sessions through the steps that change them. *)

\* No operation becomes granted, or is sent, unnoticed.
ServerKeeps ==
    \A x \in Ops : /\ server'[x] = "granted" <=> server[x] = "granted"
                   /\ server'[x] = "none" <=> server[x] = "none"

\* What an update leaves as it was.
LEMMA UpdatesKeeps ==
    ASSUME NEW o \in KnownOps, NEW device, NEW phase, Updates(o, device, phase),
           UNCHANGED current
    PROVE  \A x \in KnownOps :
              /\ KindOf(x)' = KindOf(x) /\ ScopeOf(x)' = ScopeOf(x)
              /\ PreviousOf(x)' = PreviousOf(x)
              /\ DeviceOf(x)' = IF x = o THEN device ELSE DeviceOf(x)
              /\ Phase(x)' = IF x = o THEN phase ELSE Phase(x)
              /\ IsCurrent(x)' <=> IsCurrent(x)
<1> TAKE x \in KnownOps
<1>1. o \in Ops /\ KnownOps \subseteq Ops
  BY DEF KnownOps
<1>2. CASE x = o
  BY <1>1, <1>2 DEF Updates, KindOf, IsCurrent
<1>3. CASE x # o
  BY <1>1, <1>3 DEF Updates, KindOf, ScopeOf, PreviousOf, DeviceOf, Phase, IsCurrent
<1> QED
  BY <1>2, <1>3

\* Only the phase of an operation changes: the journal.
LEMMA PhaseJournal ==
    ASSUME StateTypes, Journal, NEW o \in KnownOps, NEW phase,
           Updates(o, DeviceOf(o), phase),
           UNCHANGED <<current, selected, posts>>, ServerKeeps,
           phase \notin {"login_pending", "refresh_pending"},
           phase \in {"active", "store_pending"} => KindOf(o) \in Granting,
           phase \in {"erase_pending", "disconnected"} =>
              KindOf(o) \in {"logout", "local_disconnect"}
    PROVE  Journal'
<1>a. o \in Ops /\ KnownOps \subseteq Ops
  BY DEF KnownOps
<1>b. \A x \in KnownOps :
         /\ KindOf(x)' = KindOf(x) /\ ScopeOf(x)' = ScopeOf(x)
         /\ PreviousOf(x)' = PreviousOf(x) /\ DeviceOf(x)' = DeviceOf(x)
         /\ Phase(x)' = IF x = o THEN phase ELSE Phase(x)
         /\ IsCurrent(x)' <=> IsCurrent(x)
  BY UpdatesKeeps
<1>c. KnownOps' = KnownOps /\ \A x \in Ops : Known(x)' <=> Known(x)
  BY DEF Updates
<1>1. ASSUME NEW x \in KnownOps
      PROVE  WellFormed(x)'
  <2>1. WellFormed(x)
    BY DEF Journal
  <2>2. CASE x = o
    BY <1>a, <1>b, <1>c, <2>1, <2>2 DEF WellFormed, ServerKeeps
  <2>3. CASE x # o
    BY <1>a, <1>b, <1>c, <2>1, <2>3 DEF WellFormed, ServerKeeps
  <2> QED
    BY <2>2, <2>3
<1>2. /\ \A s \in Scopes : current'[s] # NoOp => Known(current[s])' /\ ScopeOf(current[s])' = s
      /\ selected.op # NoOp => IsCurrent(selected.op)'
  <2>1. \A s \in Scopes : current[s] # NoOp => current[s] \in KnownOps /\ ScopeOf(current[s]) = s
    BY DEF Journal, StateTypes, KnownOps, Optional
  <2>2. selected.op # NoOp => selected.op \in KnownOps
    <3>1. selected.op \in Optional
      BY DEF StateTypes
    <3> QED
      BY <3>1 DEF Journal, KnownOps, IsCurrent, Optional
  <2> QED
    BY <1>a, <1>b, <1>c, <2>1, <2>2 DEF Journal
<1> QED
  BY <1>1, <1>2, <1>c DEF Journal, ServerKeeps

\* Only the phase of an operation changes.
LEMMA PhaseMoves ==
    ASSUME StateTypes, Journal, Sessions, NEW o \in KnownOps, NEW phase,
           Updates(o, DeviceOf(o), phase),
           UNCHANGED <<current, selected, secrets, live, posts>>, ServerKeeps,
           phase \notin {"login_pending", "refresh_pending"},
           phase \in {"active", "store_pending"} => KindOf(o) \in Granting,
           phase = "active" => DeviceOf(o) # NoOp /\ secrets[DeviceOf(o)] = o,
           phase \in {"erase_pending", "disconnected"} =>
              KindOf(o) \in {"logout", "local_disconnect"},
           phase = "disconnected" => IsCurrent(o) /\ Stored(o) = NoOp
    PROVE  Journal' /\ Sessions'
<1>a. o \in Ops /\ KnownOps \subseteq Ops
  BY DEF KnownOps
<1>b. \A x \in KnownOps :
         /\ KindOf(x)' = KindOf(x) /\ ScopeOf(x)' = ScopeOf(x)
         /\ PreviousOf(x)' = PreviousOf(x) /\ DeviceOf(x)' = DeviceOf(x)
         /\ Phase(x)' = IF x = o THEN phase ELSE Phase(x)
         /\ IsCurrent(x)' <=> IsCurrent(x)
         /\ Device(x)' = Device(x) /\ Stored(x)' = Stored(x)
  BY UpdatesKeeps DEF Device, Stored, KindOf
<1>c. KnownOps' = KnownOps /\ \A x \in Ops : Known(x)' <=> Known(x)
  BY DEF Updates
<1>3. Journal'
  BY PhaseJournal
<1>4. \A d \in Ops : secrets'[d] # NoOp =>
         /\ secrets'[d] \in KnownOps' /\ server'[secrets'[d]] = "granted"
         /\ KindOf(secrets[d])' \in Granting /\ DeviceOf(secrets[d])' = d
  BY <1>a, <1>b, <1>c DEF Sessions, ServerKeeps
<1>5. \A x \in KnownOps : IsCurrent(x)' /\ server'[x] = "granted" /\ KindOf(x)' \in Granting =>
         live'[Device(x)'] = x
  BY <1>a, <1>b DEF Sessions, ServerKeeps
<1>6. \A x \in KnownOps : IsCurrent(x)' /\ Phase(x)' = "active" =>
         DeviceOf(x)' # NoOp /\ secrets'[DeviceOf(x)'] = x
  BY <1>b DEF Sessions
<1>7. ASSUME NEW x \in KnownOps
      PROVE  Disconnected(x)'
  <2>1. CASE x = o /\ phase = "disconnected"
    <3>1. ASSUME NEW c \in KnownOps, IsCurrent(c), KindOf(c) \in Granting
          PROVE  DeviceOf(c) # DeviceOf(o)
      <4>1. DeviceOf(o) # NoOp /\ KindOf(o) \notin Granting
        BY <2>1 DEF Journal, WellFormed, Granting
      <4> QED
        BY <2>1, <3>1, <4>1, SameDevice
    <3> QED
      BY <1>b, <1>c, <2>1, <3>1 DEF Disconnected
  <2>2. CASE x # o \/ phase # "disconnected"
    BY <1>b, <1>c, <2>2 DEF Disconnected, Sessions
  <2> QED
    BY <2>1, <2>2
<1> QED
  BY <1>3, <1>4, <1>5, <1>6, <1>7, <1>c DEF Sessions

\* A new operation becomes the current and the selected one of its scope.
LEMMA PrepareMoves ==
    ASSUME StateTypes, Journal, Sessions, NEW r, Asked(r), r.kind \in Kinds,
           ~Known(r.id), MayPrepare(r), Prepare(r), UNCHANGED <<secrets, live, server, posts>>
    PROVE  /\ Journal' /\ Sessions' /\ StateTypes'
           /\ \A x \in KnownOps : x \in KnownOps' /\ intents'[x] = intents[x]
           /\ r.id \in KnownOps' /\ KindOf(r.id)' = r.kind /\ server[r.id] = "none"
           /\ IsCurrent(r.id)' /\ selected'.op = r.id
<1> DEFINE o == r.id
           p == r.previous
           new == NewIntent(r)
<1>a. KnownOps \subseteq Ops /\ \A x \in KnownOps : Known(x)
  BY DEF KnownOps
<1>b. o \in Ops /\ o \notin KnownOps /\ r.scope \in Scopes /\ p \in Optional
  <2>1. o \in Ops /\ p \in Optional
    BY DEF Asked, Kinds, RequestTypes
  <2>2. r.scope \in Scopes
    <3>1. r.kind = "login" => r.scope \in Scopes
      BY DEF Asked
    <3>2. r.kind \in Existing => r.scope \in Scopes
      BY KnownIntent DEF Asked, ScopeOf, Intents
    <3> QED
      BY <3>1, <3>2 DEF Kinds
  <2> QED
    BY <1>a, <2>1, <2>2
\* What an operation on an existing session replaces.
<1>c. r.kind # "login" =>
         /\ p \in KnownOps /\ IsCurrent(p) /\ ScopeOf(p) = r.scope /\ DeviceOf(p) # NoOp
         /\ r.kind # "local_disconnect" => Phase(p) = "active"
  BY DEF MayPrepare, MayReplace, Asked, Kinds
<1>d. /\ new \in Intents /\ new.kind = r.kind /\ new.scope = r.scope /\ new.previous = p
      /\ new.device = IF r.kind = "login" THEN NoOp ELSE DeviceOf(p)
      /\ new.phase = FirstPhase(r.kind)
  <2>1. FirstPhase(r.kind) \in Phases
    BY DEF FirstPhase, Phases, Kinds, Existing
  <2>2. (IF r.kind = "login" THEN NoOp ELSE DeviceOf(p)) \in Optional
    BY <1>c, KnownIntent DEF DeviceOf, Intents, Optional
  <2> QED
    BY <1>b, <2>1, <2>2 DEF NewIntent, Intents
<1>e. intents'[o] = new /\ \A x \in Ops : x # o => intents'[x] = intents[x]
  BY <1>b DEF Prepare, StateTypes
<1> HIDE DEF new
<1>f. /\ KindOf(o)' = r.kind /\ ScopeOf(o)' = r.scope /\ PreviousOf(o)' = p
      /\ DeviceOf(o)' = IF r.kind = "login" THEN NoOp ELSE DeviceOf(p)
      /\ Phase(o)' = FirstPhase(r.kind)
  BY <1>d, <1>e DEF KindOf, ScopeOf, PreviousOf, DeviceOf, Phase
<1>g. KnownOps' = KnownOps \cup {o}
  BY <1>b, <1>d, <1>e DEF KnownOps, Known, Kinds, Existing
<1>h. /\ current' = [current EXCEPT ![r.scope] = o]
      /\ selected'.op = o /\ selected' \in [op: Optional, revision: Nat]
  BY <1>b DEF Prepare, Select, StateTypes, Optional
<1>i. ASSUME NEW x \in KnownOps
      PROVE  /\ KindOf(x)' = KindOf(x) /\ ScopeOf(x)' = ScopeOf(x)
             /\ PreviousOf(x)' = PreviousOf(x) /\ DeviceOf(x)' = DeviceOf(x)
             /\ Phase(x)' = Phase(x) /\ Device(x)' = Device(x) /\ Stored(x)' = Stored(x)
             /\ Known(x)' /\ Known(x) /\ x \in Ops /\ x # o
  <2>1. x # o /\ x \in Ops /\ intents'[x] = intents[x] /\ Known(x)
    BY <1>a, <1>b, <1>e
  <2> QED
    BY <2>1 DEF KindOf, ScopeOf, PreviousOf, DeviceOf, Phase, Device, Stored, Known
<1>j. ASSUME NEW x \in KnownOps
      PROVE  IsCurrent(x)' => IsCurrent(x) /\ ScopeOf(x) # r.scope
  <2>1. ScopeOf(x) \in Scopes
    BY KnownIntent DEF ScopeOf, Intents
  <2> QED
    BY <1>b, <1>h, <1>i, <2>1 DEF IsCurrent, StateTypes
<1>k. IsCurrent(o)' /\ server[o] = "none"
  <2>1. Known(o)'
    BY <1>g DEF KnownOps
  <2> QED
    BY <1>b, <1>f, <1>h, <2>1 DEF IsCurrent, StateTypes, Journal, KnownOps
<1>1. WellFormed(o)'
  <2>1. CASE r.kind = "login"
    BY <1>f, <2>1 DEF WellFormed, FirstPhase
  <2>2. CASE r.kind # "login"
    <3>1. WellFormed(p) /\ p \in KnownOps
      BY <1>c, <2>2 DEF Journal
    <3>2. ~IsCurrent(p)'
      BY <1>c, <1>j, <2>2
    <3>3. /\ DeviceOf(p) \in KnownOps /\ KindOf(DeviceOf(p)) = "login"
          /\ ScopeOf(DeviceOf(p)) = r.scope /\ DeviceOf(DeviceOf(p)) = DeviceOf(p)
          /\ server[DeviceOf(p)] = "granted"
      BY <1>c, <2>2, <3>1 DEF WellFormed
    <3>4. /\ FirstPhase(r.kind) \in {"refresh_pending", "logout_pending", "erase_pending"}
          /\ FirstPhase(r.kind) = "refresh_pending" => r.kind = "refresh"
          /\ FirstPhase(r.kind) = "erase_pending" => r.kind = "local_disconnect"
      BY <2>2 DEF FirstPhase, Kinds, Existing
    <3> QED
      BY <1>c, <1>f, <1>g, <1>i, <2>2, <3>1, <3>2, <3>3, <3>4 DEF WellFormed
  <2> QED
    BY <2>1, <2>2
<1>2. ASSUME NEW x \in KnownOps
      PROVE  WellFormed(x)'
  <2>1. WellFormed(x)
    BY DEF Journal
  <2>2. ASSUME KindOf(x) # "login"
        PROVE  PreviousOf(x) \in KnownOps /\ ~IsCurrent(PreviousOf(x))'
    <3>1. PICK q \in KnownOps : q = PreviousOf(x) /\ ~IsCurrent(q)
      BY <2>1, <2>2 DEF WellFormed
    <3>2. ~IsCurrent(q)'
      BY <1>j, <3>1
    <3> QED
      BY <1>i, <3>1, <3>2 DEF IsCurrent, ScopeOf, Known
  <2> QED
    BY <1>g, <1>i, <2>1, <2>2 DEF WellFormed
<1>3. \A s \in Scopes : current'[s] # NoOp => Known(current[s])' /\ ScopeOf(current[s])' = s
  <2>1. \A s \in Scopes : current[s] # NoOp => current[s] \in KnownOps /\ ScopeOf(current[s]) = s
    BY DEF Journal, StateTypes, KnownOps, Optional
  <2>2. Known(o)' /\ ScopeOf(o)' = r.scope
    BY <1>f, <1>k DEF IsCurrent
  <2>3. ASSUME NEW s \in Scopes, current'[s] # NoOp
        PROVE  Known(current[s])' /\ ScopeOf(current[s])' = s
    <3>1. CASE s = r.scope
      <4>1. current'[s] = o
        BY <1>h, <3>1 DEF StateTypes
      <4> QED
        BY <2>2, <3>1, <4>1 DEF Known, ScopeOf
    <3>2. CASE s # r.scope
      <4>1. current'[s] = current[s] /\ current[s] \in KnownOps /\ ScopeOf(current[s]) = s
        BY <1>h, <2>1, <2>3, <3>2 DEF StateTypes
      <4> QED
        BY <1>i, <4>1 DEF Known, ScopeOf
    <3> QED
      BY <3>1, <3>2
  <2> QED
    BY <2>3
<1>4. Journal'
  <2>1. \A x \in Ops : server'[x] # "none" => Known(x)'
    BY <1>i DEF Journal, KnownOps
  <2>2. \A x \in Ops : posts'[x] = IF server'[x] = "none" THEN 0 ELSE 1
    BY DEF Journal
  <2>3. IsCurrent(selected.op)'
    BY <1>h, <1>k DEF IsCurrent
  <2>4. \A x \in KnownOps' : WellFormed(x)'
    BY <1>1, <1>2, <1>g
  <2> QED
    BY <1>3, <2>1, <2>2, <2>3, <2>4 DEF Journal
<1>5. \A d \in Ops : secrets'[d] # NoOp =>
         /\ secrets'[d] \in KnownOps' /\ server'[secrets'[d]] = "granted"
         /\ KindOf(secrets[d])' \in Granting /\ DeviceOf(secrets[d])' = d
  <2> TAKE d \in Ops
  <2>1. secrets[d] # NoOp => /\ secrets[d] \in KnownOps /\ server[secrets[d]] = "granted"
                             /\ KindOf(secrets[d]) \in Granting /\ DeviceOf(secrets[d]) = d
    BY DEF Sessions
  <2>2. secrets[d] # NoOp => /\ KindOf(secrets[d])' = KindOf(secrets[d])
                             /\ DeviceOf(secrets[d])' = DeviceOf(secrets[d])
    BY <1>i, <2>1
  <2>3. secrets'[d] = secrets[d] /\ server' = server
    OBVIOUS
  <2> QED
    BY <1>g, <2>1, <2>2, <2>3
<1>6. \A x \in KnownOps' : IsCurrent(x)' /\ server'[x] = "granted" /\ KindOf(x)' \in Granting =>
         live'[Device(x)'] = x
  BY <1>g, <1>i, <1>j, <1>k DEF Sessions
<1>7. \A x \in KnownOps' : IsCurrent(x)' /\ Phase(x)' = "active" =>
         DeviceOf(x)' # NoOp /\ secrets'[DeviceOf(x)'] = x
  <2>1. Phase(o)' # "active"
    BY <1>f DEF FirstPhase, Kinds, Existing
  <2> QED
    BY <1>g, <1>i, <1>j, <2>1 DEF Sessions
<1>8. ASSUME NEW x \in KnownOps'
      PROVE  Disconnected(x)'
  <2>1. CASE x = o
    BY <1>f, <2>1 DEF Disconnected, FirstPhase, Kinds, Existing
  <2>2. CASE x \in KnownOps /\ Phase(x) = "disconnected"
    <3>1. Disconnected(x) /\ DeviceOf(x) # NoOp
      BY <2>2 DEF Sessions, Journal, WellFormed
    <3>2. KindOf(o)' \in Granting => DeviceOf(o)' # DeviceOf(x)
      <4>1. CASE r.kind = "login"
        BY <1>f, <3>1, <4>1
      <4>2. CASE r.kind = "refresh"
        <5>1. KindOf(p) \in Granting /\ IsCurrent(p) /\ p \in KnownOps
          BY <1>c, <4>2 DEF Journal, WellFormed
        <5> QED
          BY <1>f, <2>2, <3>1, <4>2, <5>1 DEF Disconnected
      <4> QED
        BY <1>f, <4>1, <4>2 DEF Granting
    <3>3. \A c \in KnownOps : IsCurrent(c)' /\ KindOf(c)' \in Granting => DeviceOf(c)' # DeviceOf(x)
      BY <1>i, <1>j, <2>2, <3>1 DEF Disconnected
    <3> QED
      BY <1>g, <1>i, <2>2, <3>1, <3>2, <3>3 DEF Disconnected
  <2>3. CASE x \in KnownOps /\ Phase(x) # "disconnected"
    BY <1>i, <2>3 DEF Disconnected
  <2> QED
    BY <1>g, <2>1, <2>2, <2>3
<1>9. Sessions'
  BY <1>5, <1>6, <1>7, <1>8 DEF Sessions
<1>10. StateTypes'
  <2>1. intents' \in [Ops -> {NoIntent} \cup Intents]
    BY <1>b, <1>d DEF Prepare, StateTypes, new
  <2>2. current' \in [Scopes -> Optional]
    BY <1>b, <1>h DEF StateTypes, Optional
  <2> QED
    BY <1>h, <2>1, <2>2 DEF StateTypes
<1> QED
  BY <1>4, <1>9, <1>10, <1>e, <1>f, <1>g, <1>h, <1>i, <1>k

\* The intent takes its device and the store its session, as far as the answer
\* of the server was applied.
LEMMA AcceptMoves ==
    ASSUME StateTypes, Journal, Sessions, AuthBounds, NEW o \in KnownOps, NEW reached,
           KindOf(o) \in Granting, server[o] = "granted", IsCurrent(o),
           Phase(o) \in {"login_pending", "refresh_pending"},
           Updates(o, Device(o), IF reached = "active" THEN "active" ELSE "store_pending"),
           secrets' = IF reached = "received" THEN secrets ELSE Put(Device(o), o),
           UNCHANGED <<current, selected, live, posts, server>>
    PROVE  Journal' /\ Sessions'
<1> DEFINE d == Device(o)
           phase == IF reached = "active" THEN "active" ELSE "store_pending"
<1>a. o \in Ops /\ KnownOps \subseteq Ops /\ NoOp \notin Ops /\ NoOp \notin KnownOps
  BY DEF KnownOps, AuthBounds
<1>b. \/ KindOf(o) = "login" /\ d = o /\ DeviceOf(o) = NoOp
      \/ KindOf(o) = "refresh" /\ d = DeviceOf(o) /\ d # NoOp
  BY DEF Journal, WellFormed, Granting, Device, KindOf
<1>c. d \in KnownOps /\ KindOf(d) = "login" /\ ScopeOf(d) = ScopeOf(o) /\ server[d] = "granted"
  BY <1>b DEF Journal, WellFormed
<1>d. ASSUME NEW x \in KnownOps
      PROVE  /\ KindOf(x)' = KindOf(x) /\ ScopeOf(x)' = ScopeOf(x)
             /\ PreviousOf(x)' = PreviousOf(x)
             /\ DeviceOf(x)' = IF x = o THEN d ELSE DeviceOf(x)
             /\ Phase(x)' = IF x = o THEN phase ELSE Phase(x)
             /\ IsCurrent(x)' <=> IsCurrent(x)
  BY UpdatesKeeps
<1>e. KnownOps' = KnownOps /\ \A x \in Ops : Known(x)' <=> Known(x)
  BY DEF Updates
\* Nobody else has the login for its device before it is accepted.
<1>f. \A x \in KnownOps : DeviceOf(x) # NoOp => DeviceOf(x) # o
  <2>1. ASSUME NEW x \in KnownOps, DeviceOf(x) = o
        PROVE  FALSE
    <3>1. KindOf(o) = "login" /\ DeviceOf(o) = o
      BY <1>a, <2>1 DEF Journal, WellFormed
    <3> QED
      BY <1>a, <1>b, <3>1
  <2> QED
    BY <2>1
<1>g. \A x \in KnownOps : x # o /\ IsCurrent(x) => DeviceOf(x) # d
  BY <1>a, <1>b, <1>f, SameDevice
<1>h. \A x \in KnownOps : Phase(x) = "disconnected" => DeviceOf(x) # d /\ DeviceOf(x) # NoOp
  <2>1. ASSUME NEW x \in KnownOps, Phase(x) = "disconnected"
        PROVE  DeviceOf(x) # d /\ DeviceOf(x) # NoOp
    <3>1. DeviceOf(x) # NoOp /\ Disconnected(x)
      BY <2>1 DEF Journal, WellFormed, Sessions
    <3> QED
      BY <1>b, <1>f, <2>1, <3>1 DEF Disconnected
  <2> QED
    BY <2>1
<1> HIDE DEF d, phase
<1>i. phase \in {"active", "store_pending"} /\ (phase = "active" => reached = "active")
  BY DEF phase
<1>j. \A x \in Ops : secrets'[x] = IF reached # "received" /\ x = d THEN o ELSE secrets[x]
  BY <1>a, <1>c DEF StateTypes, Put, d
<1>1. ASSUME NEW x \in KnownOps
      PROVE  WellFormed(x)'
  <2>1. WellFormed(x)
    BY DEF Journal
  <2>2. CASE x = o
    <3>0. DeviceOf(o)' = d /\ d' = d
      BY <1>d, <1>b DEF d, Device, KindOf
    <3>1. PICK q \in KnownOps : /\ q = d /\ KindOf(q)' = "login" /\ ScopeOf(q)' = ScopeOf(o)'
                                /\ DeviceOf(q)' = q /\ q \in KnownOps' /\ server'[q] = "granted"
      <4>1. PICK q \in KnownOps : /\ q = d /\ KindOf(q) = "login" /\ ScopeOf(q) = ScopeOf(o)
                                  /\ (q # o => DeviceOf(q) = q) /\ server[q] = "granted"
        BY <1>b, <1>c DEF Journal, WellFormed
      <4> QED
        BY <1>d, <1>e, <4>1
    <3>3. KindOf(o)' # "login" =>
             /\ PreviousOf(o)' \in KnownOps'
             /\ ScopeOf(PreviousOf(o))' = ScopeOf(o)' /\ ~IsCurrent(PreviousOf(o))'
      <4>1. ASSUME KindOf(o)' # "login"
            PROVE  /\ PreviousOf(o)' \in KnownOps'
                   /\ ScopeOf(PreviousOf(o))' = ScopeOf(o)' /\ ~IsCurrent(PreviousOf(o))'
        <5>1. PICK v \in KnownOps : /\ v = PreviousOf(o) /\ ~IsCurrent(v)
                                    /\ ScopeOf(v) = ScopeOf(o)
          BY <1>d, <2>1, <2>2, <4>1 DEF WellFormed
        <5>2. v = PreviousOf(o)' /\ ~IsCurrent(v)' /\ ScopeOf(v)' = ScopeOf(o)' /\ v \in KnownOps'
          BY <1>d, <1>e, <5>1
        <5> QED
          BY <5>2 DEF IsCurrent, ScopeOf, Known
      <4> QED
        BY <4>1
    <3>4. KindOf(o)' \in Granting /\ Phase(o)' = phase
          /\ DeviceOf(o)' # NoOp /\ (KindOf(o)' = "login" => d = o)
      BY <1>a, <1>b, <1>c, <1>d, <3>0
    <3>5. /\ ScopeOf(DeviceOf(o))' = ScopeOf(q)' /\ DeviceOf(DeviceOf(o))' = DeviceOf(q)'
          /\ KindOf(DeviceOf(o))' = KindOf(q)' /\ DeviceOf(o)' = q
      BY <3>0, <3>1 DEF ScopeOf, DeviceOf, KindOf
    <3> QED
      BY <1>i, <2>2, <3>1, <3>3, <3>4, <3>5 DEF WellFormed
  <2>3. CASE x # o
    <3>1. KindOf(x) # "login" => /\ PreviousOf(x)' \in KnownOps'
                                 /\ ScopeOf(PreviousOf(x))' = ScopeOf(x)'
                                 /\ ~IsCurrent(PreviousOf(x))'
      <4>1. ASSUME KindOf(x) # "login"
            PROVE  /\ PreviousOf(x)' \in KnownOps'
                   /\ ScopeOf(PreviousOf(x))' = ScopeOf(x)' /\ ~IsCurrent(PreviousOf(x))'
        <5>1. PICK q \in KnownOps : /\ q = PreviousOf(x) /\ ~IsCurrent(q)
                                    /\ ScopeOf(q) = ScopeOf(x)
          BY <2>1, <4>1 DEF WellFormed
        <5>2. q = PreviousOf(x)' /\ ~IsCurrent(q)' /\ ScopeOf(q)' = ScopeOf(x)' /\ q \in KnownOps'
          BY <1>d, <1>e, <5>1
        <5> QED
          BY <5>2 DEF IsCurrent, ScopeOf, Known
      <4> QED
        BY <4>1
    <3>2. DeviceOf(x) # NoOp =>
             /\ DeviceOf(x)' \in KnownOps' /\ KindOf(DeviceOf(x))' = "login"
             /\ ScopeOf(DeviceOf(x))' = ScopeOf(x)' /\ DeviceOf(DeviceOf(x))' = DeviceOf(x)'
             /\ server'[DeviceOf(x)'] = "granted"
      <4>1. ASSUME DeviceOf(x) # NoOp
            PROVE  /\ DeviceOf(x)' \in KnownOps' /\ KindOf(DeviceOf(x))' = "login"
                   /\ ScopeOf(DeviceOf(x))' = ScopeOf(x)' /\ DeviceOf(DeviceOf(x))' = DeviceOf(x)'
                   /\ server'[DeviceOf(x)'] = "granted"
        <5>1. PICK q \in KnownOps : /\ q = DeviceOf(x) /\ KindOf(q) = "login" /\ q # o
                                    /\ ScopeOf(q) = ScopeOf(x) /\ DeviceOf(q) = q
                                    /\ server[q] = "granted"
          BY <1>f, <2>1, <4>1 DEF WellFormed
        <5>2. /\ q = DeviceOf(x)' /\ KindOf(q)' = "login" /\ ScopeOf(q)' = ScopeOf(x)'
              /\ DeviceOf(q)' = q /\ q \in KnownOps' /\ server'[q] = "granted"
          BY <1>d, <1>e, <2>3, <5>1
        <5> QED
          BY <5>2 DEF KindOf, ScopeOf, DeviceOf
      <4> QED
        BY <4>1
    <3>3. /\ KindOf(x)' = KindOf(x) /\ DeviceOf(x)' = DeviceOf(x) /\ Phase(x)' = Phase(x)
          /\ ScopeOf(x)' = ScopeOf(x)
      BY <1>d, <2>3
    <3> QED
      BY <2>1, <3>1, <3>2, <3>3 DEF WellFormed
  <2> QED
    BY <2>2, <2>3
<1>2. /\ \A s \in Scopes : current'[s] # NoOp => Known(current[s])' /\ ScopeOf(current[s])' = s
      /\ selected'.op # NoOp => IsCurrent(selected.op)'
  <2>1. ASSUME NEW s \in Scopes, current[s] # NoOp
        PROVE  Known(current[s])' /\ ScopeOf(current[s])' = s
    <3>1. PICK c \in KnownOps : c = current[s] /\ ScopeOf(c) = s
      BY <2>1 DEF Journal, StateTypes, KnownOps, Optional
    <3>2. Known(c)' /\ ScopeOf(c)' = s /\ c = current'[s]
      BY <1>a, <1>d, <1>e, <3>1 DEF KnownOps
    <3> QED
      BY <3>2 DEF Known, ScopeOf
  <2>2. ASSUME selected.op # NoOp
        PROVE  IsCurrent(selected.op)'
    <3>1. PICK c \in KnownOps : c = selected.op /\ IsCurrent(c)
      <4>1. selected.op \in Optional
        BY DEF StateTypes
      <4> QED
        BY <2>2, <4>1 DEF Journal, KnownOps, IsCurrent, Optional
    <3>2. IsCurrent(c)' /\ c = selected'.op
      BY <1>d, <3>1
    <3> QED
      BY <3>2 DEF IsCurrent, Known, ScopeOf
  <2> QED
    BY <2>1, <2>2
<1>3. Journal'
  BY <1>1, <1>2, <1>e DEF Journal
<1>4. \A e \in Ops : secrets'[e] # NoOp =>
         /\ secrets'[e] \in KnownOps' /\ server'[secrets'[e]] = "granted"
         /\ KindOf(secrets[e])' \in Granting /\ DeviceOf(secrets[e])' = e
  <2>1. ASSUME NEW e \in Ops, secrets'[e] # NoOp
        PROVE  /\ secrets'[e] \in KnownOps' /\ server'[secrets'[e]] = "granted"
               /\ KindOf(secrets[e])' \in Granting /\ DeviceOf(secrets[e])' = e
    <3>1. PICK y \in KnownOps : /\ y = secrets'[e] /\ server[y] = "granted"
                                /\ KindOf(y) \in Granting
                                /\ IF y = o THEN d = e ELSE DeviceOf(y) = e
      <4>1. CASE reached # "received" /\ e = d
        BY <1>j, <4>1
      <4>2. CASE ~(reached # "received" /\ e = d)
        BY <1>a, <1>b, <1>j, <2>1, <4>2 DEF Sessions
      <4> QED
        BY <4>1, <4>2
    <3>2. /\ y \in KnownOps' /\ server'[y] = "granted" /\ KindOf(y)' \in Granting
          /\ DeviceOf(y)' = e
      BY <1>d, <1>e, <3>1
    <3> QED
      BY <3>1, <3>2 DEF KindOf, DeviceOf
  <2> QED
    BY <2>1
<1>5. \A x \in KnownOps : IsCurrent(x)' /\ server'[x] = "granted" /\ KindOf(x)' \in Granting =>
         live'[Device(x)'] = x
  <2>1. ASSUME NEW x \in KnownOps
        PROVE  Device(x)' = Device(x)
    BY <1>b, <1>d, <2>1 DEF Device, KindOf
  <2> QED
    BY <1>d, <2>1 DEF Sessions
<1>6. \A x \in KnownOps : IsCurrent(x)' /\ Phase(x)' = "active" =>
         DeviceOf(x)' # NoOp /\ secrets'[DeviceOf(x)'] = x
  <2>1. ASSUME NEW x \in KnownOps, IsCurrent(x)', Phase(x)' = "active"
        PROVE  DeviceOf(x)' # NoOp /\ secrets'[DeviceOf(x)'] = x
    <3>1. CASE x = o
      BY <1>a, <1>c, <1>d, <1>i, <1>j, <2>1, <3>1
    <3>2. CASE x # o
      <4>1. DeviceOf(x) # NoOp /\ secrets[DeviceOf(x)] = x /\ DeviceOf(x) # d
        BY <1>d, <1>g, <2>1, <3>2 DEF Sessions
      <4>2. DeviceOf(x) \in Ops
        BY <1>a, <4>1 DEF Journal, WellFormed
      <4> QED
        BY <1>d, <1>j, <3>2, <4>1, <4>2
    <3> QED
      BY <3>1, <3>2
  <2> QED
    BY <2>1
<1>7. ASSUME NEW x \in KnownOps
      PROVE  Disconnected(x)'
  <2>1. CASE x = o \/ Phase(x) # "disconnected"
    BY <1>d, <1>i, <2>1 DEF Disconnected
  <2>2. CASE x # o /\ Phase(x) = "disconnected"
    <3>1. DeviceOf(x) # d /\ DeviceOf(x) \in Ops /\ DeviceOf(x) # NoOp /\ DeviceOf(x)' = DeviceOf(x)
      BY <1>a, <1>d, <1>h, <2>2 DEF Journal, WellFormed
    <3>2. Stored(x)' = NoOp
      BY <1>j, <2>2, <3>1 DEF Sessions, Disconnected, Stored
    <3>3. \A c \in KnownOps : IsCurrent(c)' /\ KindOf(c)' \in Granting => DeviceOf(c)' # DeviceOf(x)'
      BY <1>d, <2>2, <3>1 DEF Sessions, Disconnected
    <3> QED
      BY <1>e, <3>2, <3>3 DEF Disconnected
  <2> QED
    BY <2>1, <2>2
<1> QED
  BY <1>3, <1>4, <1>5, <1>6, <1>7, <1>e DEF Sessions

\* The session of a profile that is being erased is removed from the store.
LEMMA EraseMoves ==
    ASSUME StateTypes, Journal, Sessions, AuthBounds, NEW o \in KnownOps, NEW phase,
           IsCurrent(o), Phase(o) = "erase_pending",
           phase \in {"erase_pending", "disconnected"},
           Updates(o, DeviceOf(o), phase), secrets' = Put(DeviceOf(o), NoOp),
           UNCHANGED <<current, selected, live, posts, server>>
    PROVE  Journal' /\ Sessions'
<1> DEFINE d == DeviceOf(o)
<1>a. KnownOps \subseteq Ops /\ NoOp \notin Ops
  BY DEF KnownOps, AuthBounds
<1>b. KindOf(o) \in {"logout", "local_disconnect"} /\ d \in Ops /\ d # NoOp
  BY <1>a DEF Journal, WellFormed
<1>c. \A x \in KnownOps :
         /\ KindOf(x)' = KindOf(x) /\ DeviceOf(x)' = DeviceOf(x)
         /\ Phase(x)' = IF x = o THEN phase ELSE Phase(x)
         /\ IsCurrent(x)' <=> IsCurrent(x)
         /\ Device(x)' = Device(x)
  BY UpdatesKeeps DEF Device, KindOf
<1>d. KnownOps' = KnownOps
  BY DEF Updates
<1>e. \A x \in Ops : secrets'[x] = IF x = d THEN NoOp ELSE secrets[x]
  BY <1>b DEF StateTypes, Put
\* No current session is kept under the device.
<1>f. \A x \in KnownOps : IsCurrent(x) /\ KindOf(x) \in Granting => DeviceOf(x) # d
  BY <1>b, SameDevice DEF Granting
<1>1. Journal'
  BY <1>b, PhaseJournal DEF ServerKeeps
<1> HIDE DEF d
<1>2. \A e \in Ops : secrets'[e] # NoOp =>
         /\ secrets'[e] \in KnownOps' /\ server'[secrets'[e]] = "granted"
         /\ KindOf(secrets[e])' \in Granting /\ DeviceOf(secrets[e])' = e
  <2>1. ASSUME NEW e \in Ops, secrets'[e] # NoOp
        PROVE  /\ secrets'[e] \in KnownOps' /\ server'[secrets'[e]] = "granted"
               /\ KindOf(secrets[e])' \in Granting /\ DeviceOf(secrets[e])' = e
    <3>1. PICK y \in KnownOps : /\ y = secrets'[e] /\ server[y] = "granted"
                                /\ KindOf(y) \in Granting /\ DeviceOf(y) = e
      BY <1>e, <2>1 DEF Sessions
    <3>2. /\ y \in KnownOps' /\ server'[y] = "granted" /\ KindOf(y)' \in Granting
          /\ DeviceOf(y)' = e
      BY <1>c, <1>d, <3>1
    <3> QED
      BY <3>1, <3>2 DEF KindOf, DeviceOf
  <2> QED
    BY <2>1
<1>3. \A x \in KnownOps : IsCurrent(x)' /\ server'[x] = "granted" /\ KindOf(x)' \in Granting =>
         live'[Device(x)'] = x
  BY <1>c DEF Sessions
<1>4. \A x \in KnownOps : IsCurrent(x)' /\ Phase(x)' = "active" =>
         DeviceOf(x)' # NoOp /\ secrets'[DeviceOf(x)'] = x
  <2>1. ASSUME NEW x \in KnownOps, IsCurrent(x)', Phase(x)' = "active"
        PROVE  DeviceOf(x)' # NoOp /\ secrets'[DeviceOf(x)'] = x
    <3>1. IsCurrent(x) /\ Phase(x) = "active"
      BY <1>c, <2>1
    <3>2. DeviceOf(x) \in Ops /\ DeviceOf(x) # NoOp /\ KindOf(x) \in Granting /\ secrets[DeviceOf(x)] = x
      BY <1>a, <3>1 DEF Journal, WellFormed, Sessions
    <3> QED
      BY <1>c, <1>e, <1>f, <3>1, <3>2
  <2> QED
    BY <2>1
<1>5. ASSUME NEW x \in KnownOps
      PROVE  Disconnected(x)'
  <2>1. Stored(x)' = IF DeviceOf(x) = d THEN NoOp ELSE Stored(x)
    <3>1. DeviceOf(x) = NoOp \/ DeviceOf(x) \in Ops
      BY <1>a DEF Journal, WellFormed
    <3> QED
      BY <1>b, <1>c, <1>e, <3>1 DEF Stored
  <2>2. CASE x = o
    BY <1>c, <1>d, <1>f, <2>1, <2>2 DEF Disconnected, d
  <2>3. CASE x # o
    BY <1>c, <1>d, <2>1, <2>3 DEF Disconnected, Sessions
  <2> QED
    BY <2>2, <2>3
<1> QED
  BY <1>1, <1>2, <1>3, <1>4, <1>5, <1>d DEF Sessions

\* The server grants what it was sent.
LEMMA GrantMoves ==
    ASSUME StateTypes, Journal, Sessions, AuthBounds, NEW o \in Ops, Grant(o)
    PROVE  o \in KnownOps /\ StateTypes' /\ Journal' /\ Sessions'
<1> DEFINE d == Device(o)
<1>a. KnownOps \subseteq Ops /\ NoOp \notin Ops
  BY DEF KnownOps, AuthBounds
<1>b. o \in KnownOps /\ server[o] = "sent"
  BY DEF Grant, Journal, KnownOps
<1>c. WellFormed(o) /\ d \in Ops
  BY <1>a, <1>b DEF Journal, WellFormed, Device, KindOf
<1>d. /\ KnownOps' = KnownOps
      /\ \A x : /\ Known(x)' <=> Known(x)
                /\ KindOf(x)' = KindOf(x) /\ ScopeOf(x)' = ScopeOf(x)
                /\ PreviousOf(x)' = PreviousOf(x) /\ DeviceOf(x)' = DeviceOf(x)
                /\ Phase(x)' = Phase(x) /\ Device(x)' = Device(x) /\ Stored(x)' = Stored(x)
                /\ IsCurrent(x)' <=> IsCurrent(x)
  BY DEF Grant, journal, KnownOps, Known, KindOf, ScopeOf, PreviousOf, DeviceOf, Phase, Device,
     Stored, IsCurrent
<1>e. \A x \in Ops : server'[x] = IF x = o THEN "granted" ELSE server[x]
  BY DEF Grant, StateTypes
<1>f. UNCHANGED <<intents, current, selected, secrets, posts>>
  BY DEF Grant, journal
<1>g. live' = [live EXCEPT ![d] = IF KindOf(o) = "logout" THEN NoOp ELSE o]
  BY DEF Grant, KindOf
<1>h. KindOf(o) # "login" => live[d] = PreviousOf(o)
  BY DEF Grant, KindOf, PreviousOf, Device
<1> HIDE DEF d
<1>1. StateTypes'
  <2>1. live' \in [Ops -> Optional]
    BY <1>c, <1>g DEF StateTypes, Optional
  <2>2. server' \in [Ops -> {"none", "sent", "granted", "refused"}]
    BY DEF StateTypes, Grant
  <2> QED
    BY <1>f, <2>1, <2>2 DEF StateTypes
<1>2. Journal'
  <2>1. ASSUME NEW x \in KnownOps
        PROVE  WellFormed(x)'
    <3>1. WellFormed(x)
      BY DEF Journal
    <3>2. DeviceOf(x) \in KnownOps => (server[DeviceOf(x)] = "granted" => server'[DeviceOf(x)] = "granted")
      BY <1>a, <1>e
    <3> QED
      BY <1>d, <1>f, <3>1, <3>2 DEF WellFormed, KindOf, ScopeOf, PreviousOf, DeviceOf, Phase,
         IsCurrent, Known
  <2>2. \A x \in Ops : server'[x] # "none" => Known(x)'
    BY <1>b, <1>d, <1>e DEF Journal, KnownOps
  <2>3. \A x \in Ops : posts'[x] = IF server'[x] = "none" THEN 0 ELSE 1
    BY <1>b, <1>e, <1>f DEF Journal
  <2>4. /\ \A s \in Scopes : current'[s] # NoOp => Known(current[s])' /\ ScopeOf(current[s])' = s
        /\ selected'.op # NoOp => IsCurrent(selected.op)'
    BY <1>d, <1>f DEF Journal, Known, ScopeOf, IsCurrent
  <2> QED
    BY <1>d, <2>1, <2>2, <2>3, <2>4 DEF Journal
<1>3. \A e \in Ops : secrets'[e] # NoOp =>
         /\ secrets'[e] \in KnownOps' /\ server'[secrets'[e]] = "granted"
         /\ KindOf(secrets[e])' \in Granting /\ DeviceOf(secrets[e])' = e
  <2>1. ASSUME NEW e \in Ops, secrets'[e] # NoOp
        PROVE  /\ secrets'[e] \in KnownOps' /\ server'[secrets'[e]] = "granted"
               /\ KindOf(secrets[e])' \in Granting /\ DeviceOf(secrets[e])' = e
    <3>1. PICK y \in KnownOps : /\ y = secrets'[e] /\ server[y] = "granted"
                                /\ KindOf(y) \in Granting /\ DeviceOf(y) = e
      BY <1>f, <2>1 DEF Sessions
    <3>2. /\ y \in KnownOps' /\ server'[y] = "granted" /\ KindOf(y)' \in Granting
          /\ DeviceOf(y)' = e
      BY <1>a, <1>d, <1>e, <3>1
    <3> QED
      BY <3>1, <3>2 DEF KindOf, DeviceOf
  <2> QED
    BY <2>1
<1>4. ASSUME NEW x \in KnownOps, IsCurrent(x), server'[x] = "granted", KindOf(x) \in Granting
      PROVE  live'[Device(x)] = x
  <2>1. CASE x = o
    BY <1>c, <1>g, <1>4, <2>1 DEF d, Granting, StateTypes
  <2>2. CASE x # o
    <3>1. live[Device(x)] = x /\ server[x] = "granted"
      BY <1>a, <1>e, <1>4, <2>2 DEF Sessions
    <3>2. ASSUME Device(x) = d
          PROVE  FALSE
      <4>1. CASE KindOf(o) = "login"
        <5>1. d = o /\ KindOf(x) # "login" /\ DeviceOf(x) = o
          BY <2>2, <3>2, <4>1 DEF d, Device, KindOf
        <5> QED
          BY <1>a, <1>b, <5>1 DEF Journal, WellFormed
      <4>2. CASE KindOf(o) # "login"
        <5>1. x = PreviousOf(o)
          BY <1>h, <3>1, <3>2, <4>2
        <5> QED
          BY <1>4, <1>c, <4>2, <5>1 DEF WellFormed
      <4> QED
        BY <4>1, <4>2
    <3> QED
      BY <1>g, <3>1, <3>2 DEF StateTypes
  <2> QED
    BY <2>1, <2>2
<1>5. \A x \in KnownOps : IsCurrent(x)' /\ Phase(x)' = "active" =>
         DeviceOf(x)' # NoOp /\ secrets'[DeviceOf(x)'] = x
  BY <1>d, <1>f DEF Sessions
<1>6. \A x \in KnownOps : Disconnected(x)'
  BY <1>d DEF Sessions, Disconnected
<1>7. Sessions'
  BY <1>3, <1>4, <1>5, <1>6, <1>d DEF Sessions
<1> QED
  BY <1>1, <1>2, <1>7, <1>b

\* What no step of the journal, the store or the server touches.
LEMMA NothingMoves ==
    ASSUME StateTypes, Journal, Sessions,
           UNCHANGED <<intents, current, selected, secrets, posts, server, live>>
    PROVE  StateTypes' /\ Journal' /\ Sessions'
<1>1. /\ KnownOps' = KnownOps
      /\ \A x : /\ Known(x)' <=> Known(x)
                /\ KindOf(x)' = KindOf(x) /\ ScopeOf(x)' = ScopeOf(x)
                /\ PreviousOf(x)' = PreviousOf(x) /\ DeviceOf(x)' = DeviceOf(x)
                /\ Phase(x)' = Phase(x) /\ Device(x)' = Device(x) /\ Stored(x)' = Stored(x)
                /\ IsCurrent(x)' <=> IsCurrent(x)
  BY DEF KnownOps, Known, KindOf, ScopeOf, PreviousOf, DeviceOf, Phase, Device, Stored, IsCurrent
<1>2. StateTypes'
  BY DEF StateTypes
<1>3. \A x : WellFormed(x)' <=> WellFormed(x)
  BY DEF WellFormed, KnownOps, Known, KindOf, ScopeOf, PreviousOf, DeviceOf, Phase, IsCurrent
<1>4. Journal'
  BY <1>1, <1>3 DEF Journal, Known, ScopeOf, IsCurrent
<1>5. \A x : Disconnected(x)' <=> Disconnected(x)
  BY <1>1 DEF Disconnected
<1>6. Sessions'
  BY <1>1, <1>5 DEF Sessions, KindOf, DeviceOf
<1> QED
  BY <1>2, <1>4, <1>6

-----------------------------------------------------------------------------
(* The requests: what they refer to stays known. *)

Grows == \A x \in KnownOps : /\ x \in KnownOps' /\ KindOf(x)' = KindOf(x)
                             /\ ScopeOf(x)' = ScopeOf(x)

LEMMA UpdatesGrow ==
    ASSUME NEW o \in KnownOps, NEW device, NEW phase, Updates(o, device, phase),
           UNCHANGED current
    PROVE  Grows
BY UpdatesKeeps DEF Grows, Updates

LEMMA SameGrows ==
    ASSUME UNCHANGED intents
    PROVE  Grows
BY DEF Grows, KnownOps, Known, KindOf, ScopeOf

LEMMA AskedKept ==
    ASSUME Grows, NEW r, Asked(r)
    PROVE  Asked(r)'
<1>1. r.previous \in KnownOps => /\ r.previous \in KnownOps'
                                 /\ ScopeOf(r.previous)' = ScopeOf(r.previous)
  BY DEF Grows
<1>2. r.id \in KnownOps => r.id \in KnownOps'
  BY DEF Grows
<1> QED
  BY <1>1, <1>2 DEF Asked

LEMMA ExecutedKept ==
    ASSUME Grows, NEW r, Executed(r), r.stage = "send" => server'[r.id] = server[r.id]
    PROVE  Executed(r)'
<1>1. Asked(r)'
  BY AskedKept DEF Executed
<1>2. r.id \in KnownOps => r.id \in KnownOps' /\ KindOf(r.id)' = KindOf(r.id)
  BY DEF Grows
<1> QED
  BY <1>1, <1>2 DEF Executed

\* The requests when none arrives and the gate is kept or freed.
LEMMA RequestsKept ==
    ASSUME Grows, Requests, waiting' \subseteq waiting, holder' \in {holder, NoRequest},
           holder' = holder /\ holder.kind # "none" /\ holder.stage = "send" =>
              server'[holder.id] = server[holder.id]
    PROVE  Requests'
<1>1. \A r \in waiting' : Asked(r)'
  BY AskedKept DEF Requests
<1>2. CASE holder' = NoRequest
  BY <1>1, <1>2 DEF Requests
<1>3. CASE holder' = holder /\ holder # NoRequest
  <2>1. PICK h : h = holder /\ Executed(h) /\ h.kind # "none"
    BY <1>3 DEF Requests, Executed, Asked, RequestTypes, RequestKinds, Kinds, Existing
  <2>2. Executed(h)' /\ h = holder'
    BY <1>3, <2>1, ExecutedKept
  <2> QED
    BY <1>1, <2>2 DEF Requests, Executed, Asked
<1> QED
  BY <1>2, <1>3

\* The lease of a request ends, or a newer one arrives.
Later(r, q) ==
    /\ q.kind = r.kind /\ q.id = r.id /\ q.scope = r.scope /\ q.previous = r.previous
    /\ q.stage = r.stage /\ q \in RequestTypes /\ (q.leased => q.newest)

LEMMA ExpireLater ==
    ASSUME NEW r, Asked(r)
    PROVE  Later(r, Expire(r)) /\ Later(r, Outdate(Expire(r)))
<1>1. r \in RequestTypes /\ r.kind # "none"
  BY DEF Asked, RequestTypes, RequestKinds, Kinds, Existing
<1>2. Expire(r) = [r EXCEPT !.leased = FALSE]
  BY <1>1 DEF Expire
<1>3. Outdate(Expire(r)) = [[r EXCEPT !.leased = FALSE] EXCEPT !.newest = FALSE]
  BY <1>1, <1>2 DEF Outdate, RequestTypes
<1> QED
  BY <1>1, <1>2, <1>3 DEF Later, RequestTypes

LEMMA LaterAsked ==
    ASSUME NEW r, NEW q, Later(r, q)
    PROVE  /\ Asked(r) => Asked(q)
           /\ Executed(r) => Executed(q)
BY DEF Later, Asked, Executed

\* What a view may ask for refers to what the journal has.
LEMMA WantedAsked ==
    ASSUME StateTypes, NEW r \in Wanted
    PROVE  Asked(r)
<1> DEFINE Seen == {e \in 0 .. selected.revision : e + 1 >= selected.revision}
<1>1. selected.revision \in Nat /\ Seen \subseteq Nat /\ 0 \in Nat
  BY DEF StateTypes
<1>2. \A p \in KnownOps : ScopeOf(p) \in Scopes /\ p \in Ops
  BY KnownIntent DEF ScopeOf, Intents
<1>3. \/ \E o \in Ops, s \in Scopes, e \in Seen : r = Request("login", o, s, NoOp, e)
      \/ \E k \in Existing, o \in Ops, p \in KnownOps, e \in Seen : r = Request(k, o, ScopeOf(p), p, e)
      \/ \E c \in ChoiceIds, p \in KnownOps, e \in Seen : r = Request("choose", c, ScopeOf(p), p, e)
      \/ \E p \in KnownOps, e \in Seen : r = Request("resume", p, ScopeOf(p), p, e)
      \/ \E p \in KnownOps : r = Request("use", p, ScopeOf(p), p, 0)
      \/ \E k \in {"current", "cancel"} : r = Request(k, NoOp, NoOp, NoOp, 0)
  BY DEF Wanted
<1> HIDE DEF Seen
<1>4. ASSUME NEW o \in Ops, NEW s \in Scopes, NEW e \in Seen, r = Request("login", o, s, NoOp, e)
      PROVE  Asked(r)
  BY <1>1, <1>4 DEF Asked, Request, RequestTypes, RequestKinds, Kinds, Existing, Optional
<1>5. ASSUME NEW k \in Existing, NEW o \in Ops, NEW p \in KnownOps, NEW e \in Seen,
             r = Request(k, o, ScopeOf(p), p, e)
      PROVE  Asked(r)
  BY <1>1, <1>2, <1>5 DEF Asked, Request, RequestTypes, RequestKinds, Kinds, Existing, Optional
<1>6. ASSUME NEW c \in ChoiceIds, NEW p \in KnownOps, NEW e \in Seen,
             r = Request("choose", c, ScopeOf(p), p, e)
      PROVE  Asked(r)
  BY <1>1, <1>2, <1>6 DEF Asked, Request, RequestTypes, RequestKinds, Kinds, Existing, Optional
<1>7. ASSUME NEW p \in KnownOps, NEW e \in Seen, r = Request("resume", p, ScopeOf(p), p, e)
      PROVE  Asked(r)
  BY <1>1, <1>2, <1>7 DEF Asked, Request, RequestTypes, RequestKinds, Kinds, Existing, Optional
<1>8. ASSUME NEW p \in KnownOps, r = Request("use", p, ScopeOf(p), p, 0)
      PROVE  Asked(r)
  BY <1>1, <1>2, <1>8 DEF Asked, Request, RequestTypes, RequestKinds, Kinds, Existing, Optional
<1>9. ASSUME NEW k \in {"current", "cancel"}, r = Request(k, NoOp, NoOp, NoOp, 0)
      PROVE  Asked(r)
  BY <1>1, <1>9 DEF Asked, Request, RequestTypes, RequestKinds, Kinds, Existing, Optional
<1> QED
  BY <1>3, <1>4, <1>5, <1>6, <1>7, <1>8, <1>9

-----------------------------------------------------------------------------
(* Every step. *)

Moves == StateTypes' /\ Journal' /\ Sessions'

LEMMA RecoverMoves ==
    ASSUME AuthBounds, AuthInv, NEW r \in waiting, Recover(r)
    PROVE  Moves /\ Grows
<1>0. StateTypes /\ Journal /\ Sessions
  BY DEF AuthInv
<1>1. UNCHANGED <<current, selected, secrets, posts, server, live>>
  BY DEF Recover
<1>2. CASE selected.op = NoOp
  <2>1. intents' = intents
    BY <1>2 DEF Recover
  <2> QED
    BY <1>0, <1>1, <2>1, NothingMoves, SameGrows DEF Moves
<1>3. CASE selected.op # NoOp
  <2>1. PICK o \in KnownOps : o = selected.op /\ IsCurrent(o)
    <3>1. selected.op \in Optional
      BY <1>0 DEF StateTypes
    <3> QED
      BY <1>0, <1>3, <3>1 DEF Journal, KnownOps, IsCurrent, Optional
  <2>2. PICK phase : phase = Reconciled(o, Stored(o))
    OBVIOUS
  <2>3. intents' = [intents EXCEPT ![o].phase = phase]
    BY <1>3, <2>1, <2>2 DEF Recover
  <2>4. /\ phase \in {"disconnected", "active", "erase_pending", "unknown"}
        /\ phase = "active" => Stored(o) = o /\ KindOf(o) \in Granting
        /\ phase = "disconnected" =>
              /\ KindOf(o) \in {"logout", "local_disconnect"}
              /\ Phase(o) = "disconnected" \/ Stored(o) = NoOp
        /\ phase = "erase_pending" => Phase(o) = "erase_pending"
    BY <1>0, <2>2, ReconciledPhase
  <2>5. Updates(o, DeviceOf(o), phase)
    BY <1>0, <2>3, <2>4, UpdatesPhase DEF Phases
  <2>6. phase = "active" => DeviceOf(o) # NoOp /\ secrets[DeviceOf(o)] = o
    <3>1. o # NoOp
      BY DEF AuthBounds, KnownOps
    <3> QED
      BY <2>4, <3>1 DEF Stored
  <2>7. phase = "disconnected" => Stored(o) = NoOp
    BY <1>0, <2>4 DEF Sessions, Disconnected
  <2>8. phase = "erase_pending" => KindOf(o) \in {"logout", "local_disconnect"}
    BY <1>0, <2>4 DEF Journal, WellFormed
  <2>9. Journal' /\ Sessions'
    BY <1>0, <1>1, <2>1, <2>4, <2>5, <2>6, <2>7, <2>8, PhaseMoves DEF ServerKeeps
  <2>10. StateTypes'
    BY <1>0, <1>1, <2>5 DEF StateTypes, Updates
  <2> QED
    BY <1>1, <2>5, <2>9, <2>10, UpdatesGrow DEF Moves
<1> QED
  BY <1>2, <1>3

LEMMA ChooseMoves ==
    ASSUME AuthBounds, AuthInv, NEW r \in waiting, Choose(r)
    PROVE  Moves /\ Grows
<1>0. StateTypes /\ Journal /\ Sessions
  BY DEF AuthInv
<1>1. UNCHANGED <<intents, current, secrets, posts, server, live>>
  BY DEF Choose, journal
<1>2. CASE selected' = selected
  BY <1>0, <1>1, <1>2, NothingMoves, SameGrows DEF Moves
<1>3. CASE selected' # selected
  <2>1. PICK o \in KnownOps : IsCurrent(o) /\ Select(o)
    <3>1. IsCurrent(r.previous) /\ Select(r.previous) /\ r.kind = "choose"
      BY <1>3 DEF Choose, journal, Enter
    <3>2. r.previous \in KnownOps
      BY <3>1 DEF AuthInv, Requests, Asked
    <3> QED
      BY <3>1, <3>2
  <2>2. StateTypes'
    BY <1>0, <1>1, <2>1 DEF StateTypes, Select, KnownOps, Optional
  <2>3. Journal'
    <3>1. \A x : IsCurrent(x)' <=> IsCurrent(x)
      BY <1>1 DEF IsCurrent, Known, ScopeOf
    <3>2. \A x \in KnownOps : WellFormed(x)'
      BY <1>0, <1>1 DEF Journal, WellFormed, KnownOps, Known, KindOf, ScopeOf, PreviousOf, DeviceOf,
         Phase, IsCurrent
    <3>3. IsCurrent(selected.op)'
      <4>1. selected'.op = o
        BY <2>1 DEF Select
      <4> QED
        BY <1>1, <2>1, <4>1 DEF IsCurrent, Known, ScopeOf
    <3> QED
      BY <1>0, <1>1, <3>2, <3>3 DEF Journal, Known, ScopeOf, KnownOps
  <2>4. Sessions'
    BY <1>0, <1>1 DEF Sessions, Disconnected, KnownOps, Known, KindOf, ScopeOf, DeviceOf, Phase,
       IsCurrent, Stored, Device
  <2> QED
    BY <1>1, <2>2, <2>3, <2>4, SameGrows DEF Moves
<1> QED
  BY <1>2, <1>3

LEMMA RejectedMoves ==
    ASSUME AuthBounds, AuthInv, Rejected
    PROVE  Moves /\ Grows
<1>0. StateTypes /\ Journal /\ Sessions
  BY DEF AuthInv
<1>1. UNCHANGED <<current, selected, secrets, posts, live>>
  BY DEF Rejected
<1>h. PICK o \in KnownOps : o = holder.id
  BY DEF Rejected, Holds, AuthInv, Requests, Executed, NoRequest
<1>2. /\ server[o] = "sent" /\ server' = [server EXCEPT ![o] = "refused"]
      /\ intents' = [intents EXCEPT ![o].phase = "unknown"]
  BY <1>h DEF Rejected
<1>3. Updates(o, DeviceOf(o), "unknown")
  BY <1>0, <1>2, UpdatesPhase DEF Phases
<1>4. ServerKeeps
  BY <1>0, <1>2 DEF ServerKeeps, StateTypes
<1>5. Journal' /\ Sessions'
  BY <1>0, <1>1, <1>3, <1>4, PhaseMoves
<1>6. StateTypes'
  BY <1>0, <1>1, <1>2, <1>3 DEF StateTypes, Updates
<1> QED
  BY <1>1, <1>3, <1>5, <1>6, UpdatesGrow DEF Moves

LEMMA LoggedOutMoves ==
    ASSUME AuthBounds, AuthInv, LoggedOut
    PROVE  Moves /\ Grows
<1>0. StateTypes /\ Journal /\ Sessions
  BY DEF AuthInv
<1>1. UNCHANGED <<current, selected, secrets, posts, server, live>>
  BY DEF LoggedOut
<1>h. PICK o \in KnownOps : o = holder.id /\ KindOf(o) = "logout"
  BY DEF LoggedOut, Holds, AuthInv, Requests, Executed, NoRequest
<1>2. KindOf(o) = "logout" /\ intents' = [intents EXCEPT ![o].phase = "erase_pending",
                                                        ![o].confirmed = TRUE]
  BY <1>h DEF LoggedOut
<1>3. Updates(o, DeviceOf(o), "erase_pending")
  BY <1>0, <1>2, UpdatesConfirmed DEF Phases
<1>5. Journal' /\ Sessions'
  BY <1>0, <1>1, <1>2, <1>3, PhaseMoves DEF ServerKeeps
<1>6. StateTypes'
  BY <1>0, <1>1, <1>2, <1>3 DEF StateTypes, Updates
<1> QED
  BY <1>1, <1>3, <1>5, <1>6, UpdatesGrow DEF Moves

LEMMA AcceptKeeps ==
    ASSUME AuthBounds, AuthInv, Accept
    PROVE  Moves /\ Grows
<1>0. StateTypes /\ Journal /\ Sessions
  BY DEF AuthInv
<1>1. UNCHANGED <<current, selected, posts, server, live>>
  BY DEF Accept
<1>2. PICK o \in KnownOps : /\ o = holder.id /\ KindOf(o) \in Granting
  BY DEF Accept, Holds, AuthInv, Requests, Executed, NoRequest, Granting
<1>3. /\ server[o] = "granted" /\ IsCurrent(o)
      /\ Phase(o) \in {"login_pending", "refresh_pending"}
  BY <1>2 DEF Accept
<1>4. PICK reached \in {"received", "stored", "active"} :
        /\ intents' = [intents EXCEPT ![o].device = Device(o),
                         ![o].phase = IF reached = "active" THEN "active" ELSE "store_pending"]
        /\ secrets' = IF reached = "received" THEN secrets ELSE Put(Device(o), o)
  BY <1>2 DEF Accept
<1>5. PICK phase \in Phases : phase = IF reached = "active" THEN "active" ELSE "store_pending"
  BY DEF Phases
<1>6. PICK device \in Optional : device = Device(o) /\ device \in Optional
  <2>1. Device(o) \in Optional
    BY <1>0, <1>2, KnownIntent DEF Device, DeviceOf, Intents, Optional
  <2> QED
    BY <2>1
<1>7. Updates(o, device, phase)
  BY <1>0, <1>4, <1>5, <1>6, UpdatesDevice
<1>8. Journal' /\ Sessions'
  BY <1>0, <1>1, <1>2, <1>3, <1>4, <1>5, <1>6, <1>7, AcceptMoves
<1>9. secrets' \in [Ops -> Optional]
  BY <1>0, <1>4 DEF StateTypes, Put, Optional, KnownOps
<1>10. StateTypes'
  BY <1>0, <1>1, <1>7, <1>9 DEF StateTypes, Updates
<1> QED
  BY <1>1, <1>7, <1>8, <1>10, UpdatesGrow DEF Moves

LEMMA EraseKeeps ==
    ASSUME AuthBounds, AuthInv, Erase
    PROVE  Moves /\ Grows
<1>0. StateTypes /\ Journal /\ Sessions
  BY DEF AuthInv
<1>1. UNCHANGED <<current, selected, posts, server, live>>
  BY DEF Erase
<1>2. PICK o \in KnownOps : o = holder.id
  BY DEF Erase, Holds, AuthInv, Requests, Executed, NoRequest
<1>3. IsCurrent(o) /\ Phase(o) \in {"erase_pending", "disconnected"}
  BY <1>2 DEF Erase
<1>4. PICK reached \in {"refused", "removed", "reconciled"} :
        /\ intents' = [intents EXCEPT ![o].phase = Erased(o, reached)]
        /\ secrets' = IF reached = "refused" \/ Phase(o) = "disconnected" THEN secrets
                      ELSE Put(DeviceOf(o), NoOp)
  BY <1>2 DEF Erase
<1>5. PICK phase : phase = Erased(o, reached)
  OBVIOUS
<1>6. /\ phase \in {"erase_pending", "disconnected"}
      /\ phase = "disconnected" => Phase(o) = "disconnected" \/ reached = "reconciled"
  BY <1>3, <1>5 DEF Erased, Reconciled
<1>7. Updates(o, DeviceOf(o), phase)
  BY <1>0, <1>4, <1>5, <1>6, UpdatesPhase DEF Phases
<1>8. Journal' /\ Sessions'
  <2>1. CASE secrets' = secrets /\ (phase = "disconnected" => Phase(o) = "disconnected")
    <3>1. KindOf(o) \in {"logout", "local_disconnect"}
      BY <1>0, <1>3 DEF Journal, WellFormed
    <3>2. phase = "disconnected" => Stored(o) = NoOp
      BY <1>0, <2>1 DEF Sessions, Disconnected
    <3> QED
      BY <1>0, <1>1, <1>3, <1>6, <1>7, <2>1, <3>1, <3>2, PhaseMoves DEF ServerKeeps
  <2>2. CASE secrets' = Put(DeviceOf(o), NoOp) /\ Phase(o) = "erase_pending"
    BY <1>0, <1>1, <1>3, <1>6, <1>7, <2>2, EraseMoves
  <2> QED
    BY <1>3, <1>4, <1>6, <2>1, <2>2
<1>9. secrets' \in [Ops -> Optional]
  BY <1>0, <1>4 DEF StateTypes, Put, Optional
<1>10. StateTypes'
  BY <1>0, <1>1, <1>7, <1>9 DEF StateTypes, Updates
<1> QED
  BY <1>1, <1>7, <1>8, <1>10, UpdatesGrow DEF Moves

LEMMA SendMoves ==
    ASSUME AuthBounds, AuthInv, Send
    PROVE  Moves /\ Grows
<1>0. StateTypes /\ Journal /\ Sessions
  BY DEF AuthInv
<1>1. UNCHANGED <<intents, current, selected, secrets, live>>
  BY DEF Send, journal
<1>h. PICK o \in KnownOps : o = holder.id /\ server[o] = "none"
  BY DEF Send, Holds, AuthInv, Requests, Executed, NoRequest
<1>2. /\ server[o] = "none" /\ server' = [server EXCEPT ![o] = "sent"]
      /\ posts' = [posts EXCEPT ![o] = @ + 1]
  BY <1>h DEF Send
<1>3. o \in Ops /\ Known(o) /\ KnownOps \subseteq Ops
  BY DEF KnownOps
<1>4. StateTypes'
  BY <1>0, <1>1, <1>2, <1>3 DEF StateTypes
<1>5. /\ KnownOps' = KnownOps
      /\ \A x : /\ Known(x)' <=> Known(x)
                /\ KindOf(x)' = KindOf(x) /\ ScopeOf(x)' = ScopeOf(x)
                /\ PreviousOf(x)' = PreviousOf(x) /\ DeviceOf(x)' = DeviceOf(x)
                /\ Phase(x)' = Phase(x) /\ Device(x)' = Device(x) /\ Stored(x)' = Stored(x)
                /\ IsCurrent(x)' <=> IsCurrent(x)
  BY <1>1 DEF KnownOps, Known, KindOf, ScopeOf, PreviousOf, DeviceOf, Phase, Device, Stored,
     IsCurrent
<1>6. \A x \in Ops : /\ server'[x] = IF x = o THEN "sent" ELSE server[x]
                     /\ posts'[x] = IF x = o THEN posts[x] + 1 ELSE posts[x]
  BY <1>0, <1>2 DEF StateTypes
<1>7. Journal'
  <2>1. ASSUME NEW x \in KnownOps
        PROVE  WellFormed(x)'
    <3>1. WellFormed(x)
      BY <1>0 DEF Journal
    <3>2. DeviceOf(x) \in KnownOps => (server[DeviceOf(x)] = "granted" => server'[DeviceOf(x)] = "granted")
      BY <1>2, <1>3, <1>6
    <3> QED
      BY <1>1, <1>5, <3>1, <3>2 DEF WellFormed, KindOf, ScopeOf, PreviousOf, DeviceOf, Phase,
         IsCurrent, Known
  <2>2. \A x \in Ops : server'[x] # "none" => Known(x)'
    BY <1>0, <1>3, <1>5, <1>6 DEF Journal
  <2>3. \A x \in Ops : posts'[x] = IF server'[x] = "none" THEN 0 ELSE 1
    BY <1>0, <1>2, <1>6 DEF Journal
  <2>4. /\ \A s \in Scopes : current'[s] # NoOp => Known(current[s])' /\ ScopeOf(current[s])' = s
        /\ selected'.op # NoOp => IsCurrent(selected.op)'
    BY <1>0, <1>1, <1>5 DEF Journal, Known, ScopeOf, IsCurrent
  <2> QED
    BY <1>5, <2>1, <2>2, <2>3, <2>4 DEF Journal
<1>8. Sessions'
  <2>1. \A x \in Ops : server'[x] = "granted" <=> server[x] = "granted"
    BY <1>2, <1>6
  <2>2. \A e \in Ops : secrets'[e] # NoOp =>
           /\ secrets'[e] \in KnownOps' /\ server'[secrets'[e]] = "granted"
           /\ KindOf(secrets[e])' \in Granting /\ DeviceOf(secrets[e])' = e
    BY <1>0, <1>1, <1>3, <1>5, <2>1 DEF Sessions, KindOf, DeviceOf
  <2>3. \A x \in KnownOps : IsCurrent(x)' /\ server'[x] = "granted" /\ KindOf(x)' \in Granting =>
           live'[Device(x)'] = x
    BY <1>0, <1>1, <1>3, <1>5, <2>1 DEF Sessions
  <2>4. \A x \in KnownOps : IsCurrent(x)' /\ Phase(x)' = "active" =>
           DeviceOf(x)' # NoOp /\ secrets'[DeviceOf(x)'] = x
    BY <1>0, <1>1, <1>5 DEF Sessions
  <2>5. \A x \in KnownOps : Disconnected(x)'
    BY <1>0, <1>5 DEF Sessions, Disconnected
  <2> QED
    BY <1>5, <2>2, <2>3, <2>4, <2>5 DEF Sessions
<1> QED
  BY <1>1, <1>4, <1>7, <1>8, SameGrows DEF Moves

LEMMA BeginMoves ==
    ASSUME AuthBounds, AuthInv, NEW r \in waiting, Begin(r)
    PROVE  Moves /\ Grows /\ holder' \in {holder} \cup {[r EXCEPT !.stage = s] : s \in {"send", "erase"}}
           /\ (holder' # holder => /\ r.id \in KnownOps' /\ KindOf(r.id)' = r.kind
                                   /\ server[r.id] = "none"
                                   /\ holder' = [r EXCEPT !.stage = "send"] => r.kind \in Sending)
<1>0. StateTypes /\ Journal /\ Sessions /\ Asked(r)
  BY DEF AuthInv, Requests
<1>1. r.kind \in Kinds /\ UNCHANGED <<secrets, posts, server, live>>
  BY DEF Begin, Enter, Kinds
<1>2. CASE Fresh(r) /\ MayPrepare(r)
  <2>1. Prepare(r) /\ ~Known(r.id)
    BY <1>2 DEF Begin, Fresh
  <2>2. /\ Moves
        /\ \A x \in KnownOps : x \in KnownOps' /\ intents'[x] = intents[x]
        /\ r.id \in KnownOps' /\ KindOf(r.id)' = r.kind /\ server[r.id] = "none"
    BY <1>0, <1>1, <1>2, <2>1, PrepareMoves DEF Moves
  <2>3. Grows
    BY <2>2 DEF Grows, KindOf, ScopeOf
  <2>4. \/ holder' = holder
        \/ holder' = [r EXCEPT !.stage = "send"] /\ r.kind \in Sending
        \/ holder' = [r EXCEPT !.stage = "erase"] /\ r.kind = "local_disconnect"
    BY <1>1, <1>2 DEF Begin, Step, Kinds, Existing, Sending
  <2>5. [r EXCEPT !.stage = "erase"].stage = "erase" /\ [r EXCEPT !.stage = "send"].stage = "send"
    BY <1>0 DEF Asked, RequestTypes
  <2> QED
    BY <2>2, <2>3, <2>4, <2>5
<1>3. CASE ~(Fresh(r) /\ MayPrepare(r))
  <2>1. UNCHANGED <<intents, current, selected, holder>>
    BY <1>3 DEF Begin, journal
  <2> QED
    BY <1>0, <1>1, <2>1, NothingMoves, SameGrows DEF Moves
<1> QED
  BY <1>2, <1>3

\* A request takes the gate.
LEMMA StepsIn ==
    ASSUME Grows, Requests, NEW r, Asked(r), NEW s \in {"send", "sent", "erase", "using"},
           holder' = [r EXCEPT !.stage = s], waiting' \subseteq waiting,
           s # "using" => r.id \in KnownOps',
           s \in {"send", "sent"} => r.kind \in Sending /\ KindOf(r.id)' = r.kind,
           s = "send" => server'[r.id] = "none"
    PROVE  Requests'
<1> DEFINE h == [r EXCEPT !.stage = s]
<1>1. /\ h.kind = r.kind /\ h.id = r.id /\ h.scope = r.scope /\ h.previous = r.previous
      /\ h.leased = r.leased /\ h.newest = r.newest /\ h.stage = s /\ h \in RequestTypes
  BY DEF Asked, RequestTypes
<1> HIDE DEF h
<1>2. Asked(h)
  BY <1>1 DEF Asked
<1>3. Asked(h)'
  <2>1. PICK q : q = h
    OBVIOUS
  <2>2. Asked(q)'
    BY <1>2, <2>1, AskedKept
  <2> QED
    BY <2>1, <2>2 DEF h
<1>4. Executed(holder)'
  <2>1. PICK q : /\ q = h /\ Asked(q)' /\ q.stage = s /\ q.kind = r.kind /\ q.id = r.id
                 /\ q = holder'
    BY <1>1, <1>3 DEF h
  <2>2. Executed(q)'
    BY <2>1 DEF Executed
  <2> QED
    BY <2>1, <2>2 DEF Executed, Asked
<1>5. \A q \in waiting' : Asked(q)'
  BY AskedKept DEF Requests
<1> QED
  BY <1>4, <1>5 DEF Requests

\* Every lease ends, or a newer request arrives.
LEMMA LeasesEnd ==
    ASSUME StateTypes, Requests, UNCHANGED <<intents, server>>, NEW arrived,
           arrived \subseteq Wanted,
           \/ holder' = Expire(holder) /\ waiting' = {Expire(q) : q \in waiting} \cup arrived
           \/ /\ holder' = Outdate(Expire(holder))
              /\ waiting' = {Outdate(Expire(q)) : q \in waiting} \cup arrived
    PROVE  Requests'
<1>1. Grows
  BY SameGrows
<1>2. \A q \in waiting' : Asked(q)'
  <2>1. ASSUME NEW q \in waiting'
        PROVE  Asked(q)'
    <3>1. CASE q \in arrived
      BY <1>1, <3>1, WantedAsked, AskedKept
    <3>2. CASE q \notin arrived
      <4>1. PICK p \in waiting : q \in {Expire(p), Outdate(Expire(p))}
        BY <3>2
      <4>2. Asked(p)
        BY DEF Requests
      <4>3. Asked(q)
        BY <4>1, <4>2, ExpireLater, LaterAsked
      <4> QED
        BY <1>1, <4>3, AskedKept
    <3> QED
      BY <3>1, <3>2
  <2> QED
    BY <2>1
<1>3. CASE holder = NoRequest
  <2>1. holder' = NoRequest
    BY <1>3 DEF Expire, Outdate, NoRequest
  <2> QED
    BY <1>2, <2>1 DEF Requests
<1>4. CASE holder # NoRequest
  <2>1. PICK h : h = holder /\ Executed(h)
    BY <1>4 DEF Requests
  <2>2. PICK q : q = holder' /\ q \in {Expire(h), Outdate(Expire(h))}
    BY <2>1
  <2>3. Executed(q)
    BY <2>1, <2>2, ExpireLater, LaterAsked DEF Executed
  <2>4. Executed(q)'
    BY <1>1, <2>3, ExecutedKept
  <2> QED
    BY <1>2, <2>2, <2>4 DEF Requests, Executed, Asked
<1> QED
  BY <1>3, <1>4

LEMMA AuthStep ==
    ASSUME AuthBounds, AuthInv, [Next]_vars
    PROVE  AuthInv'
<1>0. StateTypes /\ Journal /\ Sessions /\ Requests
  BY DEF AuthInv
<1> DEFINE Still == UNCHANGED <<intents, current, selected, secrets, posts, server, live>>
\* Nothing the invariant's other parts speak of changes.
<1>s. ASSUME Still
      PROVE  Moves /\ Grows
  BY <1>0, <1>s, NothingMoves, SameGrows DEF Moves
<1>1. ASSUME NEW r \in Wanted, Submit(r)
      PROVE  AuthInv'
  <2>1. Still
    BY <1>1 DEF Submit, journal
  <2>2. CASE r.kind \in InvalidatingKinds
    <3>1. PICK arrived : arrived \subseteq Wanted /\ waiting' = {Outdate(Expire(q)) : q \in waiting} \cup arrived
      <4>1. (IF active THEN {r} ELSE {}) \subseteq Wanted
        OBVIOUS
      <4> QED
        BY <1>1, <2>2, <4>1 DEF Submit
    <3>2. Requests'
      BY <1>0, <1>1, <2>1, <2>2, <3>1, LeasesEnd DEF Submit
    <3> QED
      BY <1>s, <2>1, <3>2 DEF AuthInv, Moves
  <2>3. CASE r.kind \notin InvalidatingKinds
    <3>1. waiting' = waiting \cup {r} /\ holder' = holder
      BY <1>1, <2>3 DEF Submit
    <3>2. \A q \in waiting' : Asked(q)'
      BY <1>0, <1>s, <2>1, <3>1, WantedAsked, AskedKept DEF Requests
    <3>3. holder' = NoRequest \/ Executed(holder)'
      BY <1>0, <2>1, <3>1 DEF Requests, Executed, Asked, KnownOps, Known, KindOf, ScopeOf
    <3> QED
      BY <1>s, <2>1, <3>2, <3>3 DEF AuthInv, Moves, Requests
  <2> QED
    BY <2>2, <2>3
<1>2. ASSUME NEW next \in BOOLEAN, Lifecycle(next)
      PROVE  AuthInv'
  <2>1. Still
    BY <1>2 DEF Lifecycle, journal
  <2>2. PICK arrived : /\ arrived \subseteq Wanted
                       /\ waiting' = {Expire(q) : q \in waiting} \cup arrived
    <3>1. waiting' = {Expire(q) : q \in waiting} \cup {}
      BY <1>2 DEF Lifecycle
    <3> QED
      BY <3>1
  <2>3. Requests'
    BY <1>0, <1>2, <2>1, <2>2, LeasesEnd DEF Lifecycle
  <2> QED
    BY <1>s, <2>1, <2>3 DEF AuthInv, Moves
\* The steps that leave the journal, the store and the server alone.
<1>3. ASSUME Drop \/ Abandon \/ Finish \/ TransportFails \/ Crash
      PROVE  AuthInv'
  <2>1. Still
    BY <1>3 DEF Drop, Abandon, Finish, TransportFails, Crash, journal
  <2>2. waiting' \subseteq waiting /\ holder' \in {holder, NoRequest}
    BY <1>3 DEF Drop, Abandon, Finish, TransportFails, Crash, Release
  <2>3. Requests'
    BY <1>0, <1>s, <2>1, <2>2, RequestsKept
  <2> QED
    BY <1>s, <2>1, <2>3 DEF AuthInv, Moves
<1>4. ASSUME NEW r \in waiting, Cancel(r)
      PROVE  AuthInv'
  <2>1. Still /\ waiting' \subseteq waiting /\ holder' \in {holder, NoRequest}
    BY <1>4 DEF Cancel, Enter, journal
  <2>2. Requests'
    BY <1>0, <1>s, <2>1, RequestsKept
  <2> QED
    BY <1>s, <2>1, <2>2 DEF AuthInv, Moves
<1>5. ASSUME NEW r \in waiting, Recover(r) \/ Choose(r)
      PROVE  AuthInv'
  <2>1. Moves /\ Grows
    BY <1>5, RecoverMoves, ChooseMoves
  <2>2. waiting' \subseteq waiting /\ holder' \in {holder, NoRequest} /\ server' = server
    BY <1>5 DEF Recover, Choose, Enter
  <2>3. Requests'
    BY <1>0, <2>1, <2>2, RequestsKept
  <2> QED
    BY <2>1, <2>3 DEF AuthInv, Moves
<1>6. ASSUME NEW r \in waiting, Begin(r)
      PROVE  AuthInv'
  <2>1. Moves /\ Grows /\ waiting' \subseteq waiting /\ server' = server /\ Asked(r)
    BY <1>0, <1>6, BeginMoves DEF Begin, Enter, Requests
  <2>2. CASE holder' = holder
    <3>1. Requests'
      BY <1>0, <2>1, <2>2, RequestsKept
    <3> QED
      BY <2>1, <3>1 DEF AuthInv, Moves
  <2>3. CASE holder' # holder
    <3>1. PICK s \in {"send", "erase"} : holder' = [r EXCEPT !.stage = s]
      BY <1>6, <2>3, BeginMoves
    <3>2. /\ r.id \in KnownOps' /\ KindOf(r.id)' = r.kind /\ server[r.id] = "none"
          /\ s = "send" => r.kind \in Sending
      BY <1>6, <2>3, <3>1, BeginMoves
    <3>3. Requests'
      BY <1>0, <2>1, <3>1, <3>2, StepsIn
    <3> QED
      BY <2>1, <3>3 DEF AuthInv, Moves
  <2> QED
    BY <2>2, <2>3
<1>7. ASSUME NEW r \in waiting, Resume(r) \/ Authorize(r)
      PROVE  AuthInv'
  <2>1. Still /\ waiting' \subseteq waiting /\ Asked(r)
    BY <1>0, <1>7 DEF Resume, Authorize, Enter, journal, Requests
  <2>2. CASE holder' = holder
    <3>1. Requests'
      BY <1>0, <1>s, <2>1, <2>2, RequestsKept
    <3> QED
      BY <1>s, <2>1, <3>1 DEF AuthInv, Moves
  <2>3. CASE holder' # holder
    <3>1. PICK s \in {"erase", "using"} : /\ holder' = [r EXCEPT !.stage = s]
                                          /\ s = "erase" => r.kind = "resume"
      BY <1>7, <2>3 DEF Resume, Authorize, Step, Enter
    <3>2. Grows
      BY <1>s, <2>1
    <3>3. s # "using" => r.id \in KnownOps'
      <4>1. r.kind = "resume" => r.id \in KnownOps
        BY <2>1 DEF Asked
      <4>2. s # "using" => r.kind = "resume"
        BY <3>1
      <4> QED
        BY <4>1, <4>2, <3>2 DEF Grows
    <3>4. s \notin {"send", "sent"} /\ s \in {"send", "sent", "erase", "using"}
      BY <3>1
    <3>5. Requests'
      BY <1>0, <2>1, <3>1, <3>2, <3>3, <3>4, StepsIn
    <3> QED
      BY <1>s, <2>1, <3>5 DEF AuthInv, Moves
  <2> QED
    BY <2>2, <2>3
<1>8. ASSUME Rejected \/ Accept \/ Erase
      PROVE  AuthInv'
  <2>1. Moves /\ Grows
    BY <1>8, RejectedMoves, AcceptKeeps, EraseKeeps
  <2>2. waiting' \subseteq waiting /\ holder' = NoRequest
    BY <1>8 DEF Rejected, Accept, Erase, Release
  <2>3. Requests'
    BY <1>0, <2>1, <2>2, RequestsKept DEF NoRequest
  <2> QED
    BY <2>1, <2>3 DEF AuthInv, Moves
\* The steps of the request at the gate that keep it.
<1>9. ASSUME Send \/ LoggedOut
      PROVE  AuthInv'
  <2>1. Moves /\ Grows
    BY <1>9, SendMoves, LoggedOutMoves
  <2>2. PICK s \in {"sent", "erase"} : holder' = [holder EXCEPT !.stage = s]
    BY <1>9 DEF Send, LoggedOut, Step
  <2>3. PICK h : /\ h = holder /\ Asked(h) /\ h.id \in KnownOps /\ h.kind \in Sending
                 /\ KindOf(h.id) = h.kind
    <3>1. Executed(holder) /\ holder.stage \in {"send", "sent"}
      BY <1>0, <1>9 DEF Requests, Send, LoggedOut, Holds, NoRequest
    <3> QED
      BY <3>1 DEF Executed
  <2>4. h.id \in KnownOps' /\ KindOf(h.id)' = h.kind
    BY <2>1, <2>3 DEF Grows
  <2>5. waiting' \subseteq waiting
    BY <1>9 DEF Send, LoggedOut
  <2>6. Requests'
    BY <1>0, <2>1, <2>2, <2>3, <2>4, <2>5, StepsIn
  <2> QED
    BY <2>1, <2>6 DEF AuthInv, Moves
<1>10. ASSUME NEW o \in Ops, Grant(o)
       PROVE  AuthInv'
  <2>1. Moves /\ Grows
    BY <1>0, <1>10, GrantMoves, SameGrows DEF Moves, Grant, journal
  <2>2. waiting' \subseteq waiting /\ holder' = holder
    BY <1>10 DEF Grant
  <2>3. holder.kind # "none" /\ holder.stage = "send" => server'[holder.id] = server[holder.id]
    <3>1. holder.kind # "none" /\ holder.stage = "send" =>
             server[holder.id] = "none" /\ holder.id \in KnownOps
      BY <1>0 DEF Requests, Executed, NoRequest
    <3> QED
      BY <1>0, <1>10, <3>1 DEF Grant, StateTypes, KnownOps
  <2>4. Requests'
    BY <1>0, <2>1, <2>2, <2>3, RequestsKept
  <2> QED
    BY <2>1, <2>4 DEF AuthInv, Moves
<1>11. ASSUME UNCHANGED vars
       PROVE  AuthInv'
  <2>1. Still /\ waiting' \subseteq waiting /\ holder' = holder
    BY <1>11 DEF vars, journal
  <2>2. Requests'
    BY <1>0, <1>s, <2>1, RequestsKept
  <2> QED
    BY <1>s, <2>1, <2>2 DEF AuthInv, Moves
<1> HIDE DEF Still
<1> QED
  BY <1>1, <1>2, <1>3, <1>4, <1>5, <1>6, <1>7, <1>8, <1>9, <1>10, <1>11 DEF Next

LEMMA AuthInit ==
    ASSUME AuthBounds, Init
    PROVE  AuthInv
<1>1. KnownOps = {}
  BY DEF Init, KnownOps, Known, NoIntent
<1>2. StateTypes
  BY DEF Init, StateTypes, Optional
<1>3. Journal
  BY <1>1 DEF Init, Journal
<1>4. Sessions
  BY <1>1 DEF Init, Sessions
<1> QED
  BY <1>2, <1>3, <1>4 DEF AuthInv, Requests, Init

-----------------------------------------------------------------------------
\* The rows of the journal, the secrets of the store, what the server honours
\* and the requests under way agree with one another, however the steps of
\* mobile_sync_auth.rs and mobile_sync_session.rs interleave with lifecycle
\* callbacks, late answers and the end of the process.
THEOREM AuthInvariant == Spec => []AuthInv
<1>1. Init => AuthInv
  BY AuthBounds, AuthInit
<1>2. AuthInv /\ [Next]_vars => AuthInv'
  BY AuthBounds, AuthStep
<1> QED
  BY <1>1, <1>2, PTL DEF Spec

\* A profile the host calls active has its own session in the store, the last
\* one the server issued for the device (accept, reconcile).
THEOREM ActiveIsLatestHolds == Spec => []ActiveIsLatest
<1>1. AuthInv => ActiveIsLatest
  <2> SUFFICES ASSUME AuthInv, NEW s \in Scopes, current[s] # NoOp, Phase(current[s]) = "active"
               PROVE  StoredMatches(current[s]) /\ live[DeviceOf(current[s])] = current[s]
    BY DEF ActiveIsLatest
  <2>1. PICK o \in KnownOps : o = current[s] /\ IsCurrent(o)
    BY DEF AuthInv, StateTypes, Journal, KnownOps, Optional, IsCurrent
  <2>2. KindOf(o) \in Granting /\ DeviceOf(o) # NoOp /\ secrets[DeviceOf(o)] = o
    BY <2>1 DEF AuthInv, Journal, WellFormed, Sessions
  <2>3. DeviceOf(o) \in Ops
    BY <2>2 DEF AuthInv, Journal, WellFormed, KnownOps
  <2>4. server[o] = "granted" /\ Device(o) = DeviceOf(o)
    <3>1. secrets[DeviceOf(o)] # NoOp
      BY <2>2, AuthBounds DEF AuthBounds, KnownOps
    <3>2. server[o] = "granted"
      BY <2>2, <2>3, <3>1 DEF AuthInv, Sessions
    <3>3. KindOf(o) = "login" => DeviceOf(o) = o
      BY <2>2 DEF AuthInv, Journal, WellFormed
    <3> QED
      BY <3>2, <3>3 DEF Device, KindOf
  <2> QED
    BY <2>1, <2>2, <2>4 DEF AuthInv, Sessions, StoredMatches, Stored
<1> QED
  BY <1>1, AuthInvariant, PTL

\* A disconnected profile has left no session in the store, and nothing that
\* arrives later puts one back (erase, reconcile).
THEOREM DisconnectedIsErasedHolds == Spec => []DisconnectedIsErased
<1>1. AuthInv => DisconnectedIsErased
  BY DEF AuthInv, Sessions, Disconnected, DisconnectedIsErased
<1> QED
  BY <1>1, AuthInvariant, PTL

\* An operation is sent at most once, and the selected profile is the current
\* intent of its scope (first_send, select_current).
THEOREM SentOnceHolds == Spec => [](NeverResent /\ SelectionIsCurrent)
<1>1. AuthInv => NeverResent /\ SelectionIsCurrent
  <2>1. AuthInv => NeverResent
    BY DEF AuthInv, Journal, NeverResent
  <2>2. AuthInv => SelectionIsCurrent
    BY DEF AuthInv, Journal, SelectionIsCurrent
  <2> QED
    BY <2>1, <2>2
<1> QED
  BY <1>1, AuthInvariant, PTL

\* The selection and the stored sessions are only changed for the newest
\* request that changes the identity (Permit, mobile_sync_foreground.rs).
THEOREM NewestRequestWinsHolds == Spec => NewestRequestWins
<1> DEFINE Allowed == \/ holder.kind # "none" /\ holder.newest
                      \/ holder.kind = "none" /\ \E r \in waiting \ waiting' : r.newest
           Same == UNCHANGED <<selected, secrets>>
<1>1. AuthInv /\ [Next]_vars => Same \/ Allowed
  <2> SUFFICES ASSUME AuthInv, [Next]_vars
               PROVE  Same \/ Allowed
    OBVIOUS
  <2>1. CASE \E r \in waiting : Choose(r) \/ Begin(r)
    <3>1. PICK r \in waiting : holder.kind = "none" /\ r.leased /\ r \notin waiting'
      BY <2>1 DEF Choose, Begin, Enter
    <3>2. r.newest
      BY <3>1 DEF AuthInv, Requests, Asked
    <3> QED
      BY <3>1, <3>2
  <2>2. CASE Accept \/ Erase
    <3>1. holder.leased /\ holder.kind # "none"
      BY <2>2 DEF Accept, Erase, Holds
    <3>2. holder.newest
      BY <3>1 DEF AuthInv, Requests, Executed, Asked, NoRequest
    <3> QED
      BY <3>1, <3>2
  <2>3. CASE ~(\E r \in waiting : Choose(r) \/ Begin(r)) /\ ~(Accept \/ Erase)
    <3>1. ASSUME NEW r \in Wanted, Submit(r)
          PROVE  Same
      BY <3>1 DEF Submit, journal
    <3>2. ASSUME NEW next \in BOOLEAN, Lifecycle(next)
          PROVE  Same
      BY <3>2 DEF Lifecycle, journal
    <3>3. ASSUME NEW r \in waiting, Recover(r) \/ Cancel(r) \/ Resume(r) \/ Authorize(r)
          PROVE  Same
      BY <3>3 DEF Recover, Cancel, Resume, Authorize, journal
    <3>4. ASSUME Drop \/ Abandon \/ Finish \/ Send \/ TransportFails \/ Rejected \/ LoggedOut \/ Crash
          PROVE  Same
      BY <3>4 DEF Drop, Abandon, Finish, Send, TransportFails, Rejected, LoggedOut, Crash, journal
    <3>5. ASSUME NEW o \in Ops, Grant(o)
          PROVE  Same
      BY <3>5 DEF Grant, journal
    <3>6. ASSUME UNCHANGED vars
          PROVE  Same
      BY <3>6 DEF vars, journal
    <3> HIDE DEF Same
    <3> QED
      BY <2>3, <3>1, <3>2, <3>3, <3>4, <3>5, <3>6 DEF Next
  <2> QED
    BY <2>1, <2>2, <2>3
<1>2. (Same \/ Allowed) => [<<selected, secrets>>' # <<selected, secrets>> => Allowed]_vars
  OBVIOUS
<1> QED
  BY <1>1, <1>2, AuthInvariant, PTL DEF Spec, NewestRequestWins

-----------------------------------------------------------------------------
(* The drafts: the types of the state, and the parts of the invariant. *)

Notes == [path : Paths \cup {None}, text : Nat, live : BOOLEAN]
Wishes ==
    [kind : {"none", "save", "rename", "delete", "image"},
     state : {"none", "prepared", "committed", "rejected", "cancelled"},
     draft : DraftIds \cup {None}, gen : Nat, file : FileIds \cup {None},
     path : Paths \cup {None}, dest : Paths \cup {None}, expected : Nat, text : Nat,
     image : Images \cup {None}]
Journalled == [state : {"none", "pending", "committed", "conflict"}, file : FileIds \cup {None}]
Editors == [draft : DraftIds \cup {None}, gen : Nat, text : Nat]

DraftTypes ==
    /\ \E n \in Nat : Texts = 1..n
    /\ vault \in [FileIds -> Notes]
    /\ operations \in [IntentIds -> Journalled] /\ frozen \in [IntentIds -> Wishes]
    /\ drafts \in [DraftIds -> Rows \cup {None}]
    /\ views \in [Views -> Editors]
    /\ mishaps \in Nat

\* u is t or was typed over it.
Follows(t, u) == t \in {u} \cup from[u]

\* The notes of the vault have texts that were written, and no path twice.
SoundNote(n) == n.live => n.path \in Paths /\ n.text \in Texts \cap written
NotesInv ==
    /\ \A f \in FileIds : SoundNote(vault[f])
    /\ \A f, g \in FileIds : vault[f].path = vault[g].path /\ f # g => vault[f].path = None

\* A draft was typed over its base, and is in the vault when it is clean.
SoundDraft(x) ==
    /\ x.text \in Texts /\ x.saved <= x.gen
    /\ x.base = 0 \/ Follows(x.base, x.text)
    /\ x.gen = x.saved => x.text \in written
DraftsInv == \A d \in DraftIds : Exists(d) => SoundDraft(drafts[d])

\* An intent is about texts that exist, and what it puts in the place of a text
\* was typed over it.
SoundIntent(i) ==
    /\ i.kind = "none" <=> i.state = "none"
    /\ i.kind \in {"save", "image"} => i.text \in Texts /\ i.draft \in DraftIds
    /\ i.kind = "save" => i.expected = 0 \/ Follows(i.expected, i.text)
    /\ i.kind = "save" => i.path \in Paths
    /\ i.kind = "image" => {i.expected} \cup from[i.expected] \subseteq from[i.text]
    /\ i.kind = "image" => i.expected \in Texts
    /\ i.kind \in {"rename", "delete"} => i.file \in FileIds
    /\ i.kind = "rename" => i.dest \in Paths
IntentsInv == \A op \in IntentIds : SoundIntent(frozen[op])

\* A save that is prepared belongs to a draft that still has its text, or text
\* typed over it.
SoundSave(i, x) ==
    /\ x.saved < i.gen /\ i.gen <= x.gen
    /\ x.gen = i.gen => x.text = i.text
    /\ Follows(i.text, x.text)
Saving(op) == frozen[op].kind = "save" /\ frozen[op].state = "prepared"
SavesInv == \A op \in IntentIds : Saving(op) =>
    Exists(frozen[op].draft) /\ SoundSave(frozen[op], drafts[frozen[op].draft])

\* The intents and the journal agree.
SoundOutcome(op) ==
    /\ operations[op].state = "committed" /\ frozen[op].kind = "save" =>
          frozen[op].text \in written
    /\ frozen[op].kind = "image" /\ "committed" \in {operations[op].state, frozen[op].state} =>
          frozen[op].image \in assets
    /\ frozen[op].kind # "image" /\ frozen[op].state # "prepared" =>
          operations[op].state = IF frozen[op].state = "committed" THEN "committed" ELSE "none"
    /\ frozen[op].kind = "image" /\ frozen[op].state = "committed" =>
          operations[op].state \in {"none", "committed"}
OutcomesInv == \A op \in IntentIds : SoundOutcome(op)

\* An editor with the lease has the text of the draft, or an older one.
SoundView(v, x) == /\ views[v].gen <= x.gen
                   /\ views[v].gen = x.gen => views[v].text = x.text
ViewsInv == \A v \in Views : Current(v) => SoundView(v, drafts[views[v].draft])

\* One save or image at a time of a draft, one mutation at a time of a file.
Clash(i, j) ==
    \/ {i.kind, j.kind} \subseteq {"save", "image"} /\ i.draft = j.draft
    \/ {i.kind, j.kind} \subseteq {"rename", "delete"} /\ i.file = j.file
OneAtATime == \A op, other \in IntentIds :
    op # other /\ frozen[op].state = "prepared" /\ frozen[other].state = "prepared" =>
        ~Clash(frozen[op], frozen[other])

DraftInv == DraftTypes /\ NotesInv /\ DraftsInv /\ IntentsInv /\ SavesInv /\ OutcomesInv
              /\ ViewsInv /\ OneAtATime /\ Unique(drafts)

-----------------------------------------------------------------------------
(* Texts are only ever added. *)

Adds == /\ Texts \subseteq Texts' /\ \A t \in Texts : from'[t] = from[t]
        /\ \E n \in Nat : Texts' = 1..n
TypesOver(b) == /\ from' = Typed(b)
                /\ NextText \in Texts' /\ NextText \notin Texts
                /\ from'[NextText] = IF b = 0 THEN {} ELSE {b} \cup from[b]
More == written \subseteq written' /\ dropped \subseteq dropped'

\* What is typed is a new text, over the texts it was typed over.
LEMMA TypedIs ==
    ASSUME DraftTypes, NEW b, from' = Typed(b)
    PROVE  Adds /\ TypesOver(b) /\ NextText \in Nat
<1>1. PICK n \in Nat : Texts = 1..n
  BY DEF DraftTypes
<1>2. NextText = n + 1
  <2>1. Cardinality(1..n) = n
    BY FS_Interval, 1 \in Int, n \in Int
  <2> QED
    BY <1>1, <2>1 DEF NextText
<1>3. Texts' = 1..(n + 1)
  BY <1>1, <1>2 DEF Typed, Texts
<1>4. \A t \in Texts : from'[t] = from[t]
  BY <1>1, <1>2 DEF Typed, Texts
<1>5. from'[NextText] = IF b = 0 THEN {} ELSE {b} \cup from[b]
  BY <1>2 DEF Typed
<1> QED
  BY <1>1, <1>2, <1>3, <1>4, <1>5 DEF Adds, TypesOver

\* No text is typed.
LEMMA SameTexts ==
    ASSUME DraftTypes, UNCHANGED from
    PROVE  Adds
  BY DEF DraftTypes, Adds, Texts

\* What was right about a note, a draft, an intent or a save stays right.
LEMMA StaysSound ==
    ASSUME Adds, More
    PROVE  /\ \A t, u : u \in Texts /\ Follows(t, u) => Follows(t, u)'
           /\ \A n : SoundNote(n) => SoundNote(n)'
           /\ \A x : SoundDraft(x) => SoundDraft(x)'
           /\ \A i : SoundIntent(i) => SoundIntent(i)'
           /\ \A i, x : SoundDraft(x) /\ SoundSave(i, x) => SoundSave(i, x)'
<1>1. ASSUME NEW t, NEW u, u \in Texts, Follows(t, u)
      PROVE  Follows(t, u)'
  BY <1>1 DEF Adds, Follows
<1>2. ASSUME NEW n, SoundNote(n) PROVE SoundNote(n)'
  BY <1>2 DEF SoundNote, Adds, More
<1>3. ASSUME NEW x, SoundDraft(x) PROVE SoundDraft(x)'
  BY <1>1, <1>3 DEF SoundDraft, Adds, More
<1>4. ASSUME NEW i, SoundIntent(i) PROVE SoundIntent(i)'
  BY <1>1, <1>4 DEF SoundIntent, Adds
<1>5. ASSUME NEW i, NEW x, SoundDraft(x), SoundSave(i, x) PROVE SoundSave(i, x)'
  BY <1>1, <1>5 DEF SoundDraft, SoundSave
<1> QED
  BY <1>1, <1>2, <1>3, <1>4, <1>5

-----------------------------------------------------------------------------
(* How a draft may change. *)

\* A clean draft goes away, or one that the user discards with its saves.
Clears(d) ==
    /\ drafts'[d] = None
    /\ Exists(d) => \/ ~Dirty(drafts[d])
                    \/ /\ drafts[d].text \in dropped'
                       /\ \A op \in IntentIds : Saving(op) /\ frozen[op].draft = d => ~Saving(op)'
\* It is renamed, or gets another lease.
Relabels(x, y) == y.base = x.base /\ y.gen = x.gen /\ y.saved = x.saved /\ y.text = x.text
\* It has no changes and is read again.
Rereads(x, y) == /\ ~Dirty(x) /\ y.gen = x.gen /\ y.saved = x.saved
                 /\ y.text = y.base /\ y.text \in Texts \cap written
\* A save is acknowledged.
Acks(d, x, y) == \E op \in IntentIds :
    /\ Saving(op) /\ frozen[op].draft = d /\ ~Saving(op)'
    /\ y.gen = x.gen /\ y.text = x.text
    /\ y.saved = frozen[op].gen /\ y.base = frozen[op].text /\ y.base \in written'
\* Text is typed, or an image inserted.
Types(x, y) ==
    /\ y.base = x.base /\ y.saved = x.saved /\ y.gen > x.gen
    /\ y.text \in Texts' /\ {x.text} \cup from[x.text] \subseteq from'[y.text]

Alters(d, x, y) == Relabels(x, y) \/ Rereads(x, y) \/ Acks(d, x, y) \/ Types(x, y)
DraftStep(d) ==
    \/ Clears(d)
    \/ \E y \in Rows : /\ drafts'[d] = y
                       /\ \/ ~Exists(d) /\ SoundDraft(y)'
                          \/ Exists(d) /\ Alters(d, drafts[d], y)
DraftsStep == drafts' = [d \in DraftIds |-> drafts'[d]] /\ \A d \in DraftIds : DraftStep(d)

(* How an intent and its operation may change. *)

Settles(op) == /\ operations'[op].state = "committed"
               /\ frozen[op].kind = "save" => frozen[op].text \in written'
               /\ frozen[op].kind = "image" => frozen[op].image \in assets'
\* The vault has the image already, and no operation.
Finds(op) == /\ frozen[op].kind = "image" /\ frozen[op].image \in assets'
             /\ operations[op].state = "none" /\ operations'[op] = operations[op]
Marks(op, s) == frozen[op].state = "prepared" /\ frozen'[op] = [frozen[op] EXCEPT !.state = s]
\* The journal goes on with an operation.
Journals(op) ==
    /\ frozen'[op] = frozen[op]
    /\ frozen[op].state = "prepared" \/ operations[op].state = "pending"
    /\ operations'[op].state \in {"pending", "conflict"} \/ Settles(op)
\* The intent ends without its operation.
GivesUp(op) ==
    /\ Marks(op, "cancelled") \/ Marks(op, "rejected")
    /\ operations'[op] = operations[op]
    /\ frozen[op].kind # "image" => operations[op].state = "none"
\* An intent is frozen that meets no other; a save is of the draft as it is.
Begins(op) == \E i \in Wishes :
    /\ frozen[op] = BlankIntent /\ frozen'[op] = i /\ operations'[op] = operations[op]
    /\ i.state = "prepared" /\ i.kind # "none" /\ SoundIntent(i)'
    /\ i.kind = "save" => /\ Exists(i.draft) /\ drafts' = drafts /\ Dirty(drafts[i.draft])
                          /\ i.gen = drafts[i.draft].gen /\ i.text = drafts[i.draft].text
    /\ \A other \in IntentIds \ {op} :
          /\ frozen'[other] = frozen[other]
          /\ frozen[other].state = "prepared" => ~Clash(i, frozen[other]) /\ ~Clash(frozen[other], i)
OperationStep(op) ==
    \/ UNCHANGED <<frozen[op], operations[op]>>
    \/ Journals(op) \/ GivesUp(op) \/ Begins(op)
    \/ Marks(op, "committed") /\ (Settles(op) \/ Finds(op))
OperationsStep ==
    /\ frozen' = [op \in IntentIds |-> frozen'[op]] /\ operations' \in [IntentIds -> Journalled]
    /\ assets \subseteq assets'
    /\ \A op \in IntentIds : OperationStep(op)

(* How an editor may change: it shows its draft, or an older text of it. *)
Newer(x, y) == y.gen > x.gen \/ (y.gen = x.gen /\ y.text = x.text)
ViewStep(v) == Current(v)' =>
    LET e == views'[v]
        y == drafts'[e.draft]
    IN \/ e.gen = y.gen /\ e.text = y.text
       \/ Current(v) /\ e = views[v] /\ Newer(drafts[e.draft], y)
ViewsStep == views' \in [Views -> Editors] /\ \A v \in Views : ViewStep(v)

(* How a note may change: what replaces a text was typed over it. *)
NoteStep(f) == vault[f].live /\ vault'[f].live =>
    vault[f].text \in {vault'[f].text} \cup from'[vault'[f].text]
NotesStep == vault' \in [FileIds -> Notes] /\ NotesInv' /\ \A f \in FileIds : NoteStep(f)

DraftMove == /\ Adds /\ More /\ DraftsStep /\ OperationsStep /\ ViewsStep /\ NotesStep
             /\ Unique(drafts') /\ mishaps' \in Nat

-----------------------------------------------------------------------------
(* A move keeps the invariant, part by part. *)

\* The columns of a draft.
LEMMA RowIs ==
    ASSUME DraftTypes, NEW d \in DraftIds, Exists(d)
    PROVE  /\ drafts[d] \in Rows
           /\ drafts[d].gen \in Nat /\ drafts[d].saved \in Nat /\ drafts[d].base \in Nat
           /\ drafts[d].text \in Nat /\ drafts[d].path \in Paths
           /\ drafts[d].file \in FileIds \cup {None} /\ drafts[d].session \in Views
<1>1. drafts[d] \in Rows
  BY DEF DraftTypes, Exists
<1> QED
  BY <1>1 DEF Rows

\* The columns of an intent.
LEMMA IntentIs ==
    ASSUME DraftTypes, NEW op \in IntentIds
    PROVE  /\ frozen[op] \in Wishes
           /\ frozen[op].kind \in {"none", "save", "rename", "delete", "image"}
           /\ frozen[op].state \in {"none", "prepared", "committed", "rejected", "cancelled"}
           /\ frozen[op].draft \in DraftIds \cup {None} /\ frozen[op].gen \in Nat
           /\ frozen[op].file \in FileIds \cup {None} /\ frozen[op].path \in Paths \cup {None}
           /\ frozen[op].expected \in Nat /\ frozen[op].text \in Nat
<1>1. frozen[op] \in Wishes
  BY DEF DraftTypes
<1> QED
  BY <1>1 DEF Wishes

\* A save that is prepared: its draft exists and has changes.
LEMMA SavingIs ==
    ASSUME DraftTypes, IntentsInv, SavesInv, NEW op \in IntentIds, Saving(op)
    PROVE  /\ frozen[op].draft \in DraftIds /\ Exists(frozen[op].draft)
           /\ SoundSave(frozen[op], drafts[frozen[op].draft])
           /\ Dirty(drafts[frozen[op].draft])
<1>1. frozen[op].draft \in DraftIds
  BY DEF IntentsInv, SoundIntent, Saving
<1>2. Exists(frozen[op].draft) /\ SoundSave(frozen[op], drafts[frozen[op].draft])
  BY DEF SavesInv
<1>3. Dirty(drafts[frozen[op].draft])
  BY <1>1, <1>2, RowIs, IntentIs DEF SoundSave, Dirty
<1> QED
  BY <1>1, <1>2, <1>3

\* What a move leaves in table drafts are rows.
LEMMA DraftsStayTyped ==
    ASSUME DraftsStep
    PROVE  drafts' \in [DraftIds -> Rows \cup {None}]
<1>1. ASSUME NEW d \in DraftIds PROVE drafts'[d] \in Rows \cup {None}
  BY DEF DraftsStep, DraftStep, Clears
<1> QED
  BY <1>1 DEF DraftsStep

\* A draft that changes as a move allows is typed over its base, and clean only
\* with what the vault has.
LEMMA DraftStaysSound ==
    ASSUME DraftTypes, DraftsInv, IntentsInv, SavesInv, Adds, More,
           NEW d \in DraftIds, Exists(d), NEW y \in Rows, Alters(d, drafts[d], y)
    PROVE  SoundDraft(y)'
<1> DEFINE x == drafts[d]
<1>1. /\ SoundDraft(x) /\ x.gen \in Nat /\ x.saved \in Nat
      /\ y.gen \in Nat /\ y.saved \in Nat
  BY RowIs DEF DraftsInv, Rows
<1>2. x.text \in Texts /\ Texts \subseteq Texts' /\ written \subseteq written'
         /\ \A t \in Texts : from'[t] = from[t]
  BY <1>1 DEF SoundDraft, Adds, More
<1> HIDE DEF x
<1>3. CASE Relabels(x, y)
  BY <1>1, <1>2, <1>3 DEF Relabels, SoundDraft, Follows
<1>4. CASE Rereads(x, y)
  BY <1>1, <1>2, <1>4 DEF Rereads, SoundDraft, Follows
<1>5. CASE Acks(d, x, y)
  <2>1. PICK op \in IntentIds :
            /\ Saving(op) /\ frozen[op].draft = d
            /\ y.gen = x.gen /\ y.text = x.text
            /\ y.saved = frozen[op].gen /\ y.base = frozen[op].text /\ y.base \in written'
    BY <1>5 DEF Acks
  <2>2. SoundSave(frozen[op], x) /\ frozen[op].gen \in Nat
    BY <2>1, SavingIs, IntentIs DEF x
  <2> QED
    BY <1>1, <1>2, <2>1, <2>2 DEF SoundSave, SoundDraft, Follows
<1>6. CASE Types(x, y)
  BY <1>1, <1>2, <1>6 DEF Types, SoundDraft, Follows
<1> QED
  BY <1>3, <1>4, <1>5, <1>6 DEF Alters, x

\* The same, for all drafts.
LEMMA DraftsKept ==
    ASSUME DraftTypes, DraftsInv, IntentsInv, SavesInv, Adds, More, DraftsStep, DraftsAssumption
    PROVE  DraftsInv'
<1> SUFFICES ASSUME NEW d \in DraftIds, drafts'[d] # None
             PROVE  \E y \in Rows : drafts'[d] = y /\ SoundDraft(y)'
  BY DEF DraftsInv, Exists, SoundDraft, Follows
<1>1. PICK y \in Rows : /\ drafts'[d] = y
                        /\ \/ ~Exists(d) /\ SoundDraft(y)'
                           \/ Exists(d) /\ Alters(d, drafts[d], y)
  BY DEF DraftsStep, DraftStep, Clears
<1> QED
  BY <1>1, DraftStaysSound

\* An operation keeps its intent, marks it, or freezes it.
LEMMA IntentMoves ==
    ASSUME DraftTypes, NEW op \in IntentIds, OperationStep(op)
    PROVE  \/ frozen'[op] = frozen[op]
           \/ \E s \in {"committed", "cancelled", "rejected"} : Marks(op, s)
           \/ Begins(op)
BY DEF OperationStep, Journals, GivesUp

\* An intent that is marked changes its state and nothing else.
LEMMA MarkedIs ==
    ASSUME DraftTypes, NEW op \in IntentIds, NEW s \in {"committed", "cancelled", "rejected"}, Marks(op, s)
    PROVE  /\ frozen'[op] \in Wishes /\ frozen[op].state = "prepared" /\ frozen'[op].state = s
           /\ frozen'[op].kind = frozen[op].kind /\ frozen'[op].draft = frozen[op].draft
           /\ frozen'[op].gen = frozen[op].gen /\ frozen'[op].file = frozen[op].file
           /\ frozen'[op].path = frozen[op].path /\ frozen'[op].dest = frozen[op].dest
           /\ frozen'[op].expected = frozen[op].expected /\ frozen'[op].text = frozen[op].text
           /\ frozen'[op].image = frozen[op].image
<1>1. ASSUME NEW i \in Wishes
      PROVE  /\ [i EXCEPT !.state = s] \in Wishes /\ [i EXCEPT !.state = s].state = s
             /\ [i EXCEPT !.state = s].kind = i.kind /\ [i EXCEPT !.state = s].draft = i.draft
             /\ [i EXCEPT !.state = s].gen = i.gen /\ [i EXCEPT !.state = s].file = i.file
             /\ [i EXCEPT !.state = s].path = i.path /\ [i EXCEPT !.state = s].dest = i.dest
             /\ [i EXCEPT !.state = s].expected = i.expected
             /\ [i EXCEPT !.state = s].text = i.text /\ [i EXCEPT !.state = s].image = i.image
  BY DEF Wishes
<1>2. frozen[op] \in Wishes /\ frozen'[op] = [frozen[op] EXCEPT !.state = s]
         /\ frozen[op].state = "prepared"
  BY IntentIs DEF Marks
<1> QED
  BY <1>1, <1>2

\* Intents stay about texts that exist.
LEMMA IntentsKept ==
    ASSUME DraftTypes, IntentsInv, Adds, More, OperationsStep
    PROVE  frozen' \in [IntentIds -> Wishes] /\ IntentsInv'
<1>1. ASSUME NEW op \in IntentIds
      PROVE  \E i \in Wishes : frozen'[op] = i /\ SoundIntent(i)'
  <2>1. frozen[op] \in Wishes /\ SoundIntent(frozen[op])
    BY IntentIs DEF IntentsInv
  <2>2. CASE frozen'[op] = frozen[op]
    <3>1. PICK i \in Wishes : i = frozen[op]
      BY <2>1
    <3>2. SoundIntent(i)'
      BY <2>1, <3>1, StaysSound
    <3> QED
      BY <2>2, <3>1, <3>2
  <2>3. ASSUME NEW s \in {"committed", "cancelled", "rejected"}, Marks(op, s)
        PROVE  \E i \in Wishes : frozen'[op] = i /\ SoundIntent(i)'
    <3>1. PICK i \in Wishes : i = frozen[op]
      BY <2>1
    <3>2. SoundIntent(i)'
      BY <2>1, <3>1, StaysSound
    <3>3. PICK j \in Wishes : j = frozen'[op]
      BY <2>3, MarkedIs
    <3>4. /\ i.state = "prepared" /\ j.state = s /\ j.kind = i.kind /\ j.draft = i.draft
          /\ j.gen = i.gen /\ j.file = i.file /\ j.path = i.path /\ j.dest = i.dest
          /\ j.expected = i.expected /\ j.text = i.text
      BY <2>3, <3>1, <3>3, MarkedIs
    <3>5. SoundIntent(j)'
      BY <3>2, <3>4 DEF SoundIntent, Follows
    <3> QED
      BY <3>3, <3>5
  <2>4. CASE Begins(op)
    BY <2>4 DEF Begins
  <2> QED
    BY <2>2, <2>3, <2>4, IntentMoves DEF OperationsStep
<1>2. frozen' \in [IntentIds -> Wishes]
  BY <1>1 DEF OperationsStep
<1>3. IntentsInv'
  BY <1>1 DEF IntentsInv, SoundIntent, Follows
<1> QED
  BY <1>2, <1>3

\* One prepared save or image for each draft, one mutation for each file.
LEMMA OneAtATimeKept ==
    ASSUME DraftTypes, OneAtATime, OperationsStep
    PROVE  OneAtATime'
<1> SUFFICES ASSUME NEW op \in IntentIds, NEW other \in IntentIds, op # other,
                    frozen'[op].state = "prepared", frozen'[other].state = "prepared"
             PROVE  ~Clash(frozen'[op], frozen'[other])
  BY DEF OneAtATime, Clash
<1>1. ASSUME NEW o \in IntentIds, frozen'[o].state = "prepared"
      PROVE  frozen'[o] = frozen[o] \/ Begins(o)
  <2>1. OperationStep(o)
    BY DEF OperationsStep
  <2> QED
    BY <1>1, <2>1, IntentMoves, MarkedIs
<1>2. CASE Begins(op)
  BY <1>2 DEF Begins
<1>3. CASE Begins(other)
  BY <1>3 DEF Begins
<1>4. CASE frozen'[op] = frozen[op] /\ frozen'[other] = frozen[other]
  BY <1>4 DEF OneAtATime
<1> QED
  BY <1>1, <1>2, <1>3, <1>4

\* The draft of a prepared save keeps its text, or is typed on.
LEMMA SavesKept ==
    ASSUME DraftTypes, DraftsInv, IntentsInv, SavesInv, OneAtATime, Adds, More, DraftsStep,
           OperationsStep, DraftsAssumption
    PROVE  SavesInv'
<1> SUFFICES ASSUME NEW op \in IntentIds, Saving(op)'
             PROVE  \E y \in Rows : \E i \in Wishes :
                       /\ frozen'[op] = i /\ drafts'[i.draft] = y /\ SoundSave(i, y)'
  BY DEF SavesInv, SoundSave, Saving, Exists, DraftsAssumption, Follows
<1>0. frozen'[op].kind = "save" /\ frozen'[op].state = "prepared" /\ OperationStep(op)
  BY DEF Saving, OperationsStep
<1>1. frozen'[op] = frozen[op] \/ Begins(op)
  BY <1>0, IntentMoves, MarkedIs
<1>2. CASE frozen'[op] = frozen[op]
  <2> DEFINE d == frozen[op].draft
  <2>1. Saving(op)
    BY <1>0, <1>2 DEF Saving
  <2>2. PICK x \in Rows : x = drafts[d]
    BY <2>1, SavingIs, RowIs
  <2>3. PICK i \in Wishes : i = frozen[op]
    BY IntentIs
  <2>4. /\ d \in DraftIds /\ Exists(d) /\ SoundSave(i, x) /\ Dirty(x) /\ SoundDraft(x)
        /\ i.draft = d
    BY <2>1, <2>2, <2>3, SavingIs DEF DraftsInv
  <2>5. ~Clears(d)
    BY <2>1, <2>2, <2>4 DEF Clears
  <2>6. PICK y \in Rows : drafts'[d] = y /\ Alters(d, x, y)
    BY <2>2, <2>4, <2>5 DEF DraftsStep, DraftStep
  <2>7. i.gen \in Nat /\ x.gen \in Nat /\ y.gen \in Nat /\ x.saved \in Nat /\ y.saved \in Nat
    BY DEF Wishes, Rows
  <2>8. ~Acks(d, x, y)
    <3> SUFFICES ASSUME NEW o \in IntentIds, Saving(o), frozen[o].draft = d, ~Saving(o)'
                 PROVE  FALSE
      BY DEF Acks
    <3>1. o # op
      BY <2>1
    <3> QED
      BY <2>1, <3>1 DEF OneAtATime, Saving, Clash
  <2>9. x.text \in Texts /\ \A t \in Texts : from'[t] = from[t]
    BY <2>4 DEF SoundDraft, Adds
  <2>10. ~Rereads(x, y)
    BY <2>4 DEF Rereads
  <2>11. CASE Relabels(x, y)
    <3>1. SoundSave(i, y)'
      BY <2>4, <2>9, <2>11 DEF Relabels, SoundSave, Follows
    <3> QED
      BY <1>2, <2>3, <2>4, <2>6, <3>1
  <2>12. CASE Types(x, y)
    <3>1. SoundSave(i, y)'
      BY <2>4, <2>7, <2>9, <2>12 DEF Types, SoundSave, Follows
    <3> QED
      BY <1>2, <2>3, <2>4, <2>6, <3>1
  <2> QED
    BY <2>6, <2>8, <2>10, <2>11, <2>12 DEF Alters
<1>3. CASE Begins(op)
  <2>1. PICK i \in Wishes :
            /\ frozen'[op] = i /\ SoundIntent(i)'
            /\ i.kind = "save" => /\ Exists(i.draft) /\ drafts' = drafts /\ Dirty(drafts[i.draft])
                                  /\ i.gen = drafts[i.draft].gen /\ i.text = drafts[i.draft].text
    BY <1>3 DEF Begins
  <2>2. /\ i.draft \in DraftIds /\ Exists(i.draft) /\ drafts' = drafts
        /\ Dirty(drafts[i.draft])
        /\ i.gen = drafts[i.draft].gen /\ i.text = drafts[i.draft].text
    BY <1>0, <2>1 DEF SoundIntent
  <2>3. PICK x \in Rows : x = drafts[i.draft]
    BY <2>2, RowIs
  <2>4. x.saved <= x.gen /\ x.saved \in Nat /\ x.gen \in Nat
    BY <2>2, <2>3 DEF DraftsInv, SoundDraft, Rows
  <2>5. SoundSave(i, x)'
    BY <2>2, <2>3, <2>4 DEF SoundSave, Follows, Dirty
  <2> QED
    BY <2>1, <2>2, <2>3, <2>5
<1> QED
  BY <1>1, <1>2, <1>3

\* Intents and journal keep agreeing.
LEMMA OutcomesKept ==
    ASSUME DraftTypes, OutcomesInv, More, OperationsStep
    PROVE  OutcomesInv'
<1> SUFFICES ASSUME NEW op \in IntentIds
             PROVE  SoundOutcome(op)'
  BY DEF OutcomesInv
<1>1. /\ OperationStep(op) /\ SoundOutcome(op) /\ written \subseteq written'
      /\ assets \subseteq assets'
  BY DEF OperationsStep, OutcomesInv, More
<1>2. CASE UNCHANGED <<frozen[op], operations[op]>>
  BY <1>1, <1>2 DEF SoundOutcome
<1>3. CASE Journals(op)
  <2>1. frozen[op].state # "committed"
    BY <1>1, <1>3 DEF SoundOutcome, Journals
  <2>2. frozen[op].kind # "image" => frozen[op].state = "prepared"
    BY <1>1, <1>3 DEF SoundOutcome, Journals
  <2> QED
    BY <1>1, <1>3, <2>1, <2>2 DEF SoundOutcome, Journals, Settles
<1>4. CASE GivesUp(op)
  <2>1. PICK s \in {"cancelled", "rejected"} : Marks(op, s)
    BY <1>4 DEF GivesUp
  <2>2. /\ frozen'[op].state = s /\ frozen'[op].kind = frozen[op].kind
        /\ frozen'[op].text = frozen[op].text /\ frozen'[op].image = frozen[op].image
    BY <2>1, MarkedIs
  <2> QED
    BY <1>1, <1>4, <2>2 DEF SoundOutcome, GivesUp
<1>5. CASE Begins(op)
  <2>1. PICK i \in Wishes : /\ frozen[op] = BlankIntent /\ frozen'[op] = i
                            /\ operations'[op] = operations[op] /\ i.state = "prepared"
    BY <1>5 DEF Begins
  <2>2. operations[op].state = "none"
    BY <1>1, <2>1 DEF SoundOutcome, BlankIntent
  <2> QED
    BY <2>1, <2>2 DEF SoundOutcome
<1>6. CASE Marks(op, "committed") /\ (Settles(op) \/ Finds(op))
  <2>1. /\ frozen'[op].state = "committed" /\ frozen'[op].kind = frozen[op].kind
        /\ frozen'[op].text = frozen[op].text /\ frozen'[op].image = frozen[op].image
    BY <1>6, MarkedIs
  <2> QED
    BY <1>6, <2>1 DEF SoundOutcome, Settles, Finds
<1> QED
  BY <1>1, <1>2, <1>3, <1>4, <1>5, <1>6 DEF OperationStep

\* The editor with the lease has not seen more than its draft.
LEMMA ViewsKept ==
    ASSUME DraftTypes, DraftsInv, ViewsInv, ViewsStep, DraftsStep
    PROVE  ViewsInv'
<1> SUFFICES ASSUME NEW v \in Views, Current(v)'
             PROVE  SoundView(v, drafts[views[v].draft])'
  BY DEF ViewsInv
<1>1. PICK d \in DraftIds \cup {None} : d = views'[v].draft
  BY DEF ViewsStep, Editors
<1>2. d \in DraftIds /\ drafts'[d] \in Rows
  <2>1. d # None /\ drafts'[d] # None
    BY <1>1 DEF Current, Exists
  <2> QED
    BY <2>1, DraftsStayTyped
<1>3. PICK y \in Rows : y = drafts'[d]
  BY <1>2
<1>4. PICK e \in Editors : e = views'[v]
  BY DEF ViewsStep
<1>5. y.gen \in Nat /\ e.gen \in Nat /\ e.draft = d
  BY <1>1, <1>4 DEF Rows, Editors
<1>6. \/ e.gen = y.gen /\ e.text = y.text
      \/ Current(v) /\ e = views[v] /\ Newer(drafts[d], y)
  BY <1>1, <1>3, <1>4 DEF ViewsStep, ViewStep
<1>7. CASE e.gen = y.gen /\ e.text = y.text
  BY <1>1, <1>3, <1>4, <1>5, <1>7 DEF SoundView
<1>8. CASE Current(v) /\ e = views[v] /\ Newer(drafts[d], y)
  <2>1. Exists(d)
    BY <1>5, <1>8 DEF Current
  <2>2. /\ e.gen <= drafts[d].gen
        /\ e.gen = drafts[d].gen => e.text = drafts[d].text
    BY <1>5, <1>8 DEF ViewsInv, SoundView
  <2>3. drafts[d].gen \in Nat
    BY <1>2, <2>1, RowIs
  <2> QED
    BY <1>1, <1>3, <1>4, <1>5, <1>8, <2>2, <2>3 DEF SoundView, Newer
<1> QED
  BY <1>6, <1>7, <1>8

\* The invariant is kept by every move; the rest shows that each action is one.
LEMMA MoveKeeps ==
    ASSUME DraftInv, DraftMove, DraftsAssumption
    PROVE  DraftInv'
<1>1. /\ DraftTypes /\ NotesInv /\ DraftsInv /\ IntentsInv /\ SavesInv /\ OutcomesInv
      /\ ViewsInv /\ OneAtATime
  BY DEF DraftInv
<1>2. Adds /\ More /\ DraftsStep /\ OperationsStep /\ ViewsStep /\ NotesStep
        /\ Unique(drafts') /\ mishaps' \in Nat
  BY DEF DraftMove
<1>3. frozen' \in [IntentIds -> Wishes] /\ IntentsInv'
  BY <1>1, <1>2, IntentsKept
<1>4. DraftTypes'
  BY <1>2, <1>3, DraftsStayTyped DEF DraftTypes, Adds, OperationsStep, ViewsStep, NotesStep
<1>5. NotesInv' /\ Unique(drafts)'
  BY <1>2 DEF NotesStep, Unique
<1>6. DraftsInv' /\ SavesInv'
  BY <1>1, <1>2, DraftsKept, SavesKept
<1>7. OutcomesInv' /\ ViewsInv' /\ OneAtATime'
  BY <1>1, <1>2, OutcomesKept, ViewsKept, OneAtATimeKept
<1> QED
  BY <1>3, <1>4, <1>5, <1>6, <1>7 DEF DraftInv

\* What a move does with the text of a draft.
LEMMA MoveSurvives ==
    ASSUME DraftInv, DraftMove, DraftsAssumption, NEW d \in DraftIds, Exists(d)
    PROVE  LET t == drafts[d].text IN
           \/ t \in written' \cup dropped'
           \/ IF drafts'[d] = None THEN FALSE
              ELSE t \in {drafts'[d].text} \cup from'[drafts'[d].text]
<1>1. DraftStep(d) /\ written \subseteq written'
  BY DEF DraftMove, DraftsStep, More
<1>2. SoundDraft(drafts[d])
  BY DEF DraftInv, DraftsInv
<1>3. CASE Clears(d)
  BY <1>1, <1>2, <1>3 DEF Clears, Dirty, SoundDraft
<1>4. CASE ~Clears(d)
  <2>1. PICK y \in Rows : drafts'[d] = y /\ Alters(d, drafts[d], y)
    BY <1>1, <1>4 DEF DraftStep
  <2>2. drafts'[d] # None
    BY <2>1 DEF DraftsAssumption
  <2>3. CASE Relabels(drafts[d], y) \/ Acks(d, drafts[d], y)
    BY <2>1, <2>2, <2>3 DEF Relabels, Acks
  <2>4. CASE Rereads(drafts[d], y)
    BY <1>1, <1>2, <2>4 DEF Rereads, SoundDraft, Dirty
  <2>5. CASE Types(drafts[d], y)
    BY <2>1, <2>2, <2>5 DEF Types
  <2> QED
    BY <2>1, <2>3, <2>4, <2>5 DEF Alters
<1> QED
  BY <1>3, <1>4

-----------------------------------------------------------------------------
(* What an action leaves alone moves on. *)

\* No draft moves.
LEMMA DraftsSame ==
    ASSUME DraftTypes, UNCHANGED drafts
    PROVE  DraftsStep /\ (Unique(drafts) => Unique(drafts'))
<1>1. ASSUME NEW d \in DraftIds PROVE DraftStep(d)
  <2>1. CASE Exists(d)
    <3>1. PICK y \in Rows : y = drafts[d]
      BY <2>1, RowIs
    <3> QED
      BY <2>1, <3>1 DEF DraftStep, Alters, Relabels
  <2>2. CASE ~Exists(d)
    BY <2>2 DEF DraftStep, Clears, Exists
  <2> QED
    BY <2>1, <2>2
<1>2. drafts' = [d \in DraftIds |-> drafts'[d]]
  BY DEF DraftTypes
<1> QED
  BY <1>1, <1>2 DEF DraftsStep

\* No note moves.
LEMMA NotesSame ==
    ASSUME DraftTypes, NotesInv, Adds, written \subseteq written', UNCHANGED vault
    PROVE  NotesStep
<1>1. NotesInv'
  BY DEF NotesInv, SoundNote, Adds
<1>2. vault' \in [FileIds -> Notes]
  BY DEF DraftTypes
<1> QED
  BY <1>1, <1>2 DEF NotesStep, NoteStep

\* One operation moves.
LEMMA OneMoves ==
    ASSUME DraftTypes, NEW op \in IntentIds, OperationStep(op),
           frozen' = [o \in IntentIds |-> frozen'[o]], operations' \in [IntentIds -> Journalled],
           assets \subseteq assets',
           \A o \in IntentIds \ {op} : UNCHANGED <<frozen[o], operations[o]>>
    PROVE  OperationsStep
<1>1. ASSUME NEW o \in IntentIds PROVE OperationStep(o)
  BY DEF OperationStep
<1> QED
  BY <1>1 DEF OperationsStep

\* No intent and no operation moves.
LEMMA OperationsSame ==
    ASSUME DraftTypes, UNCHANGED <<frozen, operations, assets>>
    PROVE  OperationsStep
<1>1. ASSUME NEW o \in IntentIds PROVE OperationStep(o)
  BY DEF OperationStep
<1>2. frozen' = [op \in IntentIds |-> frozen'[op]] /\ operations' \in [IntentIds -> Journalled]
  BY DEF DraftTypes
<1> QED
  BY <1>1, <1>2 DEF OperationsStep

\* The editors stay, and so do the leases.
LEMMA ViewsSame ==
    ASSUME DraftTypes, UNCHANGED views,
           \A d \in DraftIds : drafts'[d] # None =>
               /\ Exists(d) /\ drafts'[d].session = drafts[d].session
               /\ Newer(drafts[d], drafts'[d])
    PROVE  ViewsStep
<1>1. ASSUME NEW v \in Views, Current(v)' PROVE ViewStep(v)
  <2>1. PICK d \in DraftIds \cup {None} : d = views[v].draft
    BY DEF DraftTypes, Editors
  <2>2. d # None /\ drafts'[d] # None /\ drafts'[d].session = v
    BY <1>1, <2>1 DEF Current, Exists
  <2>3. Current(v) /\ Newer(drafts[d], drafts'[d])
    BY <2>1, <2>2 DEF Current
  <2> QED
    BY <2>1, <2>3 DEF ViewStep
<1>2. ASSUME NEW v \in Views, ~Current(v)' PROVE ViewStep(v)
  BY <1>2 DEF ViewStep
<1> QED
  BY <1>1, <1>2 DEF ViewsStep, DraftTypes

\* No editor and no draft moves.
LEMMA LeasesSame ==
    ASSUME DraftTypes, UNCHANGED <<views, drafts>>
    PROVE  ViewsStep
<1>1. ASSUME NEW d \in DraftIds, Exists(d) PROVE Newer(drafts[d], drafts[d])
  BY DEF Newer
<1> QED
  BY <1>1, ViewsSame DEF Exists

\* The count of mishaps
LEMMA CountedOn ==
    ASSUME DraftTypes, DraftsAssumption, Mishap \/ Calm
    PROVE  mishaps' \in Nat
BY DEF DraftTypes, DraftsAssumption, Mishap, Calm

\* A draft that is opened is shown to the view that has its lease; no other
\* draft changes.
LEMMA ShownIs ==
    ASSUME DraftTypes, DraftsAssumption, NEW v \in Views, NEW d \in DraftIds, NEW y \in Rows,
           y.session = v, Unopened(v), drafts' = [drafts EXCEPT ![d] = y],
           views' = Shown(v, d, y)
    PROVE  ViewsStep
<1>1. [draft |-> d, gen |-> y.gen, text |-> y.text] \in Editors
  BY DEF Editors, Rows
<1>2. views' \in [Views -> Editors]
         /\ views'[v] = [draft |-> d, gen |-> y.gen, text |-> y.text]
         /\ \A u \in Views \ {v} : views'[u] = views[u]
  BY <1>1 DEF Shown, DraftTypes
<1>3. drafts'[d] = y /\ \A e \in DraftIds \ {d} : drafts'[e] = drafts[e]
  BY DEF DraftTypes
<1>4. ViewStep(v)
  BY <1>2, <1>3 DEF ViewStep
<1>5. ASSUME NEW u \in Views \ {v}, Current(u)' PROVE ViewStep(u)
  <2>1. PICK e \in DraftIds \cup {None} : e = views[u].draft
    BY DEF DraftTypes, Editors
  <2>2. e # None /\ drafts'[e] # None /\ drafts'[e].session = u
    BY <1>2, <1>5, <2>1 DEF Current, Exists
  <2>3. e # d
    BY <1>3, <2>2
  <2>4. Current(u) /\ drafts'[e] = drafts[e]
    BY <1>3, <2>1, <2>2, <2>3 DEF Current, Exists
  <2> QED
    BY <1>2, <2>1, <2>4 DEF ViewStep, Newer
<1>6. ASSUME NEW u \in Views, ~Current(u)' PROVE ViewStep(u)
  BY <1>6 DEF ViewStep
<1> QED
  BY <1>2, <1>4, <1>5, <1>6 DEF ViewsStep

\* One draft moves.
LEMMA OneDraftMoves ==
    ASSUME DraftTypes, NEW d \in DraftIds, NEW y, drafts' = [drafts EXCEPT ![d] = y], DraftStep(d)
    PROVE  DraftsStep
<1>1. drafts' = [e \in DraftIds |-> drafts'[e]] /\ \A e \in DraftIds \ {d} : drafts'[e] = drafts[e]
  BY DEF DraftTypes
<1>2. ASSUME NEW e \in DraftIds \ {d} PROVE DraftStep(e)
  <2>1. CASE Exists(e)
    <3>1. PICK z \in Rows : z = drafts[e]
      BY <2>1, RowIs
    <3> QED
      BY <1>1, <2>1, <3>1 DEF DraftStep, Alters, Relabels
  <2>2. CASE ~Exists(e)
    BY <1>1, <2>2 DEF DraftStep, Clears, Exists
  <2> QED
    BY <2>1, <2>2
<1> QED
  BY <1>1, <1>2 DEF DraftsStep

-----------------------------------------------------------------------------
(* The world changes. *)

\* The sync replaces the text of a note.
LEMMA RemoteEditMoves ==
    ASSUME DraftInv, DraftsAssumption, NEW f \in FileIds, RemoteEdit(f)
    PROVE  DraftMove
<1>1. DraftTypes /\ NotesInv /\ Unique(drafts)
  BY DEF DraftInv
<1>2. /\ vault[f].live /\ vault' = [vault EXCEPT ![f].text = NextText] /\ from' = Typed(vault[f].text)
      /\ written' = written \cup {NextText}
      /\ UNCHANGED <<operations, assets, drafts, frozen, views, dropped>>
  BY DEF RemoteEdit
<1>3. Adds /\ TypesOver(vault[f].text) /\ NextText \in Nat /\ More
  BY <1>1, <1>2, TypedIs DEF More
<1>4. /\ vault[f].text \in Texts /\ vault[f].text # 0
  <2>1. SoundNote(vault[f])
    BY <1>1 DEF NotesInv
  <2>2. PICK n \in Nat : Texts = 1..n
    BY <1>1 DEF DraftTypes
  <2> QED
    BY <1>2, <2>1, <2>2 DEF SoundNote
<1>5. NotesStep
  <2>1. /\ vault' \in [FileIds -> Notes]
        /\ \A g \in FileIds : /\ vault'[g].path = vault[g].path /\ vault'[g].live = vault[g].live
                              /\ vault'[g].text = IF g = f THEN NextText ELSE vault[g].text
    <3>1. ASSUME NEW n \in Notes
          PROVE  /\ [n EXCEPT !.text = NextText] \in Notes
                 /\ [n EXCEPT !.text = NextText].path = n.path
                 /\ [n EXCEPT !.text = NextText].live = n.live
                 /\ [n EXCEPT !.text = NextText].text = NextText
      BY <1>3 DEF Notes
    <3>2. \A g \in FileIds : vault[g] \in Notes
      BY <1>1 DEF DraftTypes
    <3>3. /\ vault' = [vault EXCEPT ![f] = [vault[f] EXCEPT !.text = NextText]]
      BY <1>2
    <3>4. /\ vault'[f] = [vault[f] EXCEPT !.text = NextText]
          /\ \A g \in FileIds \ {f} : vault'[g] = vault[g]
      BY <1>1, <3>3 DEF DraftTypes
    <3>5. vault' \in [FileIds -> Notes]
      BY <1>1, <3>1, <3>2, <3>3 DEF DraftTypes
    <3>6. PICK n \in Notes : n = vault[f]
      BY <3>2
    <3>7. vault'[f].path = n.path /\ vault'[f].live = n.live /\ vault'[f].text = NextText
      BY <3>1, <3>4, <3>6
    <3> QED
      BY <3>4, <3>5, <3>6, <3>7
  <2>2. NotesInv'
    <3>1. ASSUME NEW g \in FileIds PROVE SoundNote(vault[g])'
      BY <1>1, <1>2, <1>3, <2>1 DEF NotesInv, SoundNote, Adds, TypesOver
    <3>2. ASSUME NEW g \in FileIds, NEW h \in FileIds, vault'[g].path = vault'[h].path, g # h
          PROVE  vault'[g].path = None
      BY <1>1, <2>1, <3>2 DEF NotesInv
    <3> QED
      BY <3>1, <3>2 DEF NotesInv
  <2>3. ASSUME NEW g \in FileIds PROVE NoteStep(g)
    BY <1>3, <1>4, <2>1 DEF NoteStep, TypesOver
  <2> QED
    BY <2>1, <2>2, <2>3 DEF NotesStep
<1>6. DraftsStep /\ Unique(drafts') /\ OperationsStep /\ ViewsStep /\ mishaps' \in Nat
  BY <1>1, <1>2, DraftsSame, OperationsSame, LeasesSame, CountedOn DEF RemoteEdit
<1> QED
  BY <1>3, <1>5, <1>6 DEF DraftMove

\* A note moves to a path where no note is.
LEMMA MovedKeeps ==
    ASSUME DraftTypes, NotesInv, Adds, written \subseteq written', NEW f \in FileIds,
           NEW p \in Paths,
           RowsAt(p) = {}, vault' = [vault EXCEPT ![f].path = p]
    PROVE  NotesStep
<1>1. ASSUME NEW n \in Notes
      PROVE  /\ [n EXCEPT !.path = p] \in Notes /\ [n EXCEPT !.path = p].path = p
             /\ [n EXCEPT !.path = p].text = n.text /\ [n EXCEPT !.path = p].live = n.live
  BY DEF Notes
<1>2. /\ vault' = [vault EXCEPT ![f] = [vault[f] EXCEPT !.path = p]]
      /\ \A g \in FileIds : vault[g] \in Notes
  BY DEF DraftTypes
<1>3. /\ vault'[f] = [vault[f] EXCEPT !.path = p]
      /\ \A g \in FileIds \ {f} : vault'[g] = vault[g]
  BY <1>2 DEF DraftTypes
<1>4. vault' \in [FileIds -> Notes]
  BY <1>1, <1>2 DEF DraftTypes
<1>5. \A g \in FileIds : /\ vault'[g].text = vault[g].text /\ vault'[g].live = vault[g].live
                         /\ vault'[g].path = IF g = f THEN p ELSE vault[g].path
  <2>1. PICK n \in Notes : n = vault[f]
    BY <1>2
  <2>2. vault'[f].text = n.text /\ vault'[f].live = n.live /\ vault'[f].path = p
    BY <1>1, <1>3, <2>1
  <2> QED
    BY <1>3, <2>1, <2>2
<1>6. ASSUME NEW g \in FileIds PROVE SoundNote(vault[g])'
  BY <1>5 DEF NotesInv, SoundNote, Adds, More
<1>7. ASSUME NEW g \in FileIds, NEW h \in FileIds, vault'[g].path = vault'[h].path, g # h
      PROVE  vault'[g].path = None
  <2>1. \A e \in FileIds : vault[e].path # p
    BY DEF RowsAt
  <2> QED
    BY <1>5, <1>7, <2>1 DEF NotesInv
<1>8. NotesInv'
  BY <1>6, <1>7 DEF NotesInv
<1> QED
  BY <1>4, <1>5, <1>8 DEF NotesStep, NoteStep

\* The sync renames a note.
LEMMA RemoteMoveMoves ==
    ASSUME DraftInv, DraftsAssumption, NEW f \in FileIds, NEW p \in Paths, RemoteMove(f, p)
    PROVE  DraftMove
<1>1. DraftTypes /\ NotesInv /\ Unique(drafts)
  BY DEF DraftInv
<1>2. /\ RowsAt(p) = {} /\ vault' = [vault EXCEPT ![f].path = p]
      /\ UNCHANGED <<operations, assets, written, drafts, frozen, views, from, dropped>>
  BY DEF RemoteMove
<1>3. Adds /\ More
  BY <1>1, <1>2, SameTexts DEF More
<1>4. NotesStep
  BY <1>1, <1>2, <1>3, MovedKeeps DEF More
<1>5. DraftsStep /\ Unique(drafts') /\ OperationsStep /\ ViewsStep /\ mishaps' \in Nat
  BY <1>1, <1>2, DraftsSame, OperationsSame, LeasesSame, CountedOn DEF RemoteMove
<1> QED
  BY <1>3, <1>4, <1>5 DEF DraftMove

\* The application starts again, without editors.
LEMMA RestartMoves ==
    ASSUME DraftInv, DraftsAssumption, Restart
    PROVE  DraftMove
<1>1. DraftTypes /\ NotesInv /\ Unique(drafts)
  BY DEF DraftInv
<1>2. /\ views' = [v \in Views |-> Closed]
      /\ UNCHANGED <<vault, operations, assets, written, drafts, frozen, from, dropped>>
  BY DEF Restart, InTheVault, vaultVars
<1>3. Adds /\ More
  BY <1>1, <1>2, SameTexts DEF More
<1>4. ViewsStep
  <2>1. Closed \in Editors
    BY DEF Closed, Editors
  <2>2. ASSUME NEW v \in Views PROVE ViewStep(v)
    BY <1>2 DEF ViewStep, Current, Closed
  <2> QED
    BY <1>2, <2>1, <2>2 DEF ViewsStep
<1>5. DraftsStep /\ Unique(drafts') /\ OperationsStep /\ NotesStep /\ mishaps' \in Nat
  BY <1>1, <1>2, <1>3, DraftsSame, OperationsSame, NotesSame, CountedOn DEF More, Restart
<1> QED
  BY <1>3, <1>4, <1>5 DEF DraftMove

-----------------------------------------------------------------------------
(* Drafts are opened and typed in. *)

\* The row of a new draft
LEMMA NewDraftIs ==
    ASSUME NEW p \in Paths, NEW v \in Views, NEW t \in Nat
    PROVE  /\ NewDraft(p, v, t) \in Rows /\ NewDraft(p, v, t).session = v
           /\ NewDraft(p, v, t).text = t /\ NewDraft(p, v, t).base = 0
           /\ NewDraft(p, v, t).gen = 1 /\ NewDraft(p, v, t).saved = 0
           /\ NewDraft(p, v, t).path = p /\ NewDraft(p, v, t).file = None
BY DEF NewDraft, Rows

\* A draft of a free path keeps the columns unique.
LEMMA NewStaysUnique ==
    ASSUME DraftTypes, DraftsAssumption, Unique(drafts), NEW d \in DraftIds, NEW y \in Rows,
           DraftAt(y.path) \subseteq {d}, y.file = None \/ DraftOf(y.file) \subseteq {d},
           drafts' = [drafts EXCEPT ![d] = y]
    PROVE  Unique(drafts')
<1>1. drafts'[d] = y /\ \A e \in DraftIds \ {d} : drafts'[e] = drafts[e]
  BY DEF DraftTypes
<1>2. \A e \in DraftIds \ {d} : drafts[e] # None =>
          drafts[e].path # y.path /\ (y.file = None \/ drafts[e].file # y.file)
  BY DEF DraftAt, DraftOf, Exists
<1>3. ASSUME NEW a \in DraftIds, NEW b \in DraftIds, a # b, drafts'[a] # None, drafts'[b] # None
      PROVE  /\ drafts'[a].path # drafts'[b].path
             /\ drafts'[a].file = None \/ drafts'[a].file # drafts'[b].file
  <2>1. CASE a = d
    BY <1>1, <1>2, <1>3, <2>1
  <2>2. CASE b = d
    BY <1>1, <1>2, <1>3, <2>2
  <2>3. CASE a # d /\ b # d
    BY <1>1, <1>3, <2>3 DEF Unique
  <2> QED
    BY <2>1, <2>2, <2>3
<1> QED
  BY <1>3 DEF Unique

\* A draft of a note that is not in the vault yet, with a text that exists
LEMMA CreateMoves ==
    ASSUME DraftInv, DraftsAssumption, NEW d \in DraftIds, NEW p \in Paths, NEW v \in Views,
           NEW t \in Nat, t \in Texts', Adds, More, ~Exists(d), Unopened(v), Free(p),
           drafts' = [drafts EXCEPT ![d] = NewDraft(p, v, t)], views' = Shown(v, d, drafts'[d]),
           UNCHANGED <<vault, operations, assets, frozen>>, Calm
    PROVE  DraftMove
<1>1. DraftTypes /\ NotesInv /\ Unique(drafts)
  BY DEF DraftInv
<1>2. PICK y \in Rows : y = NewDraft(p, v, t)
  BY NewDraftIs
<1>3. y.session = v /\ y.text = t /\ y.base = 0 /\ y.gen = 1 /\ y.saved = 0
         /\ y.path = p /\ y.file = None
  BY <1>2, NewDraftIs
<1>4. drafts' = [drafts EXCEPT ![d] = y] /\ drafts'[d] = y /\ views' = Shown(v, d, y)
  BY <1>1, <1>2 DEF DraftTypes
<1>5. SoundDraft(y)'
  BY <1>3 DEF SoundDraft
<1>6. DraftStep(d)
  BY <1>4, <1>5 DEF DraftStep
<1>7. DraftsStep
  BY <1>1, <1>4, <1>6, OneDraftMoves
<1>8. Unique(drafts')
  BY <1>1, <1>3, <1>4, NewStaysUnique DEF Free
<1>9. ViewsStep
  <2>1. y.session = v
    BY <1>3
  <2> QED
    BY <1>1, <1>4, <2>1, ShownIs
<1>10. OperationsStep /\ NotesStep /\ mishaps' \in Nat
  BY <1>1, OperationsSame, NotesSame, CountedOn DEF More
<1> QED
  BY <1>7, <1>8, <1>9, <1>10 DEF DraftMove

\* create_with_content
LEMMA CreateIsMove ==
    ASSUME DraftInv, DraftsAssumption, NEW d \in DraftIds, NEW p \in Paths, NEW v \in Views,
           Create(d, p, v)
    PROVE  DraftMove
<1>1. DraftTypes
  BY DEF DraftInv
<1>2. from' = Typed(0) /\ UNCHANGED <<vault, operations, assets, written, frozen, dropped>>
         /\ ~Exists(d) /\ Unopened(v) /\ Free(p) /\ Calm
         /\ drafts' = [drafts EXCEPT ![d] = NewDraft(p, v, NextText)]
         /\ views' = Shown(v, d, drafts'[d])
  BY DEF Create, InTheVault, vaultVars
<1>3. Adds /\ More /\ NextText \in Nat /\ NextText \in Texts'
  BY <1>1, <1>2, TypedIs DEF More, TypesOver
<1> QED
  BY <1>2, <1>3, CreateMoves

\* An editor with the lease has a draft.
LEMMA CurrentIs ==
    ASSUME DraftInv, NEW v \in Views, Current(v)
    PROVE  /\ views[v].draft \in DraftIds /\ Exists(views[v].draft)
           /\ drafts[views[v].draft] \in Rows /\ SoundDraft(drafts[views[v].draft])
           /\ drafts[views[v].draft].session = v /\ SoundView(v, drafts[views[v].draft])
           /\ views[v].gen \in Nat
<1>1. DraftTypes /\ DraftsInv /\ ViewsInv
  BY DEF DraftInv
<1>2. views[v].draft # None /\ Exists(views[v].draft) /\ drafts[views[v].draft].session = v
  BY DEF Current
<1>3. views[v].draft \in DraftIds /\ views[v].gen \in Nat
  BY <1>1, <1>2 DEF DraftTypes, Editors
<1> QED
  BY <1>1, <1>2, <1>3, RowIs DEF DraftsInv, ViewsInv

\* copy_as: the copy has the text of the draft it was made of.
LEMMA CopyAsIsMove ==
    ASSUME DraftInv, DraftsAssumption, NEW u \in Views, NEW d \in DraftIds, NEW p \in Paths,
           NEW v \in Views, CopyAs(u, d, p, v)
    PROVE  DraftMove
<1> DEFINE t == drafts[views[u].draft].text
<1>1. DraftTypes
  BY DEF DraftInv
<1>2. UNCHANGED <<vault, operations, assets, written, frozen, from, dropped>>
         /\ Current(u) /\ ~Exists(d) /\ Unopened(v) /\ Free(p) /\ Calm
         /\ drafts' = [drafts EXCEPT ![d] = NewDraft(p, v, t)]
         /\ views' = Shown(v, d, drafts'[d])
  BY DEF CopyAs, InTheVault, vaultVars
<1>3. Adds /\ More
  BY <1>1, <1>2, SameTexts DEF More
<1>4. t \in Nat /\ t \in Texts'
  BY <1>2, <1>3, CurrentIs DEF Rows, SoundDraft, Adds
<1> HIDE DEF t
<1> QED
  BY <1>2, <1>3, <1>4, CreateMoves

\* A draft gets another lease.
LEMMA LeaseMoves ==
    ASSUME DraftInv, DraftsAssumption, NEW d \in DraftIds, NEW v \in Views, Exists(d), Unopened(v),
           drafts' = [drafts EXCEPT ![d].session = v], views' = Shown(v, d, drafts'[d]),
           UNCHANGED <<vault, operations, assets, written, frozen, from, dropped>>, Calm
    PROVE  DraftMove
<1>1. DraftTypes /\ NotesInv /\ Unique(drafts)
  BY DEF DraftInv
<1>2. PICK x \in Rows : x = drafts[d]
  BY <1>1, RowIs
<1>3. PICK y \in Rows : y = [x EXCEPT !.session = v]
  BY DEF Rows
<1>4. /\ y.session = v /\ y.text = x.text /\ y.base = x.base /\ y.gen = x.gen /\ y.saved = x.saved
      /\ y.path = x.path /\ y.file = x.file
  BY <1>3 DEF Rows
<1>5. drafts' = [drafts EXCEPT ![d] = y] /\ drafts'[d] = y /\ views' = Shown(v, d, y)
  BY <1>1, <1>2, <1>3 DEF DraftTypes
<1>6. DraftStep(d)
  BY <1>2, <1>4, <1>5 DEF DraftStep, Alters, Relabels
<1>7. Unique(drafts')
  <2>1. DraftAt(y.path) \subseteq {d} /\ (y.file = None \/ DraftOf(y.file) \subseteq {d})
    BY <1>1, <1>2, <1>4 DEF DraftAt, DraftOf, Unique, Exists
  <2> QED
    BY <1>1, <1>5, <2>1, NewStaysUnique
<1>8. Adds /\ More
  BY <1>1, SameTexts DEF More
<1>9. DraftsStep
  BY <1>1, <1>5, <1>6, OneDraftMoves
<1>10. ViewsStep
  BY <1>1, <1>4, <1>5, <1>8, ShownIs
<1>11. OperationsStep /\ NotesStep /\ mishaps' \in Nat
  BY <1>1, <1>8, OperationsSame, NotesSame, CountedOn DEF More
<1> QED
  BY <1>7, <1>8, <1>9, <1>10, <1>11 DEF DraftMove

\* draft_view, when a draft is opened
LEMMA OpenDraftIsMove ==
    ASSUME DraftInv, DraftsAssumption, NEW d \in DraftIds, NEW v \in Views, OpenDraft(d, v)
    PROVE  DraftMove
BY LeaseMoves DEF OpenDraft, InTheVault, vaultVars

\* open_note: only a clean draft is read again from the disk.
LEMMA OpenNoteIsMove ==
    ASSUME DraftInv, DraftsAssumption, NEW f \in FileIds, NEW v \in Views, OpenNote(f, v)
    PROVE  DraftMove
<1>1. DraftTypes /\ NotesInv /\ DraftsInv /\ Unique(drafts)
  BY DEF DraftInv
<1>2. UNCHANGED <<vault, operations, assets, written, frozen, from, dropped>>
         /\ Unopened(v) /\ Calm
  BY DEF OpenNote, InTheVault, vaultVars
<1>3. Adds /\ More
  BY <1>1, <1>2, SameTexts DEF More
<1>4. OperationsStep /\ NotesStep /\ mishaps' \in Nat
  BY <1>1, <1>2, <1>3, OperationsSame, NotesSame, CountedOn DEF More
<1>5. PICK n \in Notes : n = vault[f] /\ SoundNote(n)
  BY <1>1 DEF DraftTypes, NotesInv
<1>6. ASSUME NEW d \in DraftOf(f), Kept(d, f, v) = drafts', views' = Shown(v, d, drafts'[d])
      PROVE  DraftMove
  <2>1. d \in DraftIds /\ Exists(d)
    BY DEF DraftOf
  <2> QED
    BY <1>2, <1>6, <2>1, LeaseMoves DEF Kept
<1>7. ASSUME NEW d \in DraftOf(f), ~Reusable(d), PathOf(f) # None, DraftAt(PathOf(f)) \subseteq {d},
             drafts' = [drafts EXCEPT ![d].path = vault[f].path, ![d].base = vault[f].text,
                                      ![d].text = vault[f].text, ![d].session = v],
             views' = Shown(v, d, drafts'[d])
      PROVE  DraftMove
  <2>1. d \in DraftIds /\ Exists(d) /\ drafts[d].file = f
    BY DEF DraftOf
  <2>2. n.live /\ n.path \in Paths /\ n.text \in Texts \cap written /\ n.text \in Nat
           /\ PathOf(f) = n.path
    BY <1>5, <1>7 DEF PathOf, SoundNote, Notes
  <2>3. PICK x \in Rows : x = drafts[d]
    BY <1>1, <2>1, RowIs
  <2>4. PICK y \in Rows : y = [x EXCEPT !.path = n.path, !.base = n.text, !.text = n.text,
                                        !.session = v]
    BY <2>2 DEF Rows
  <2>5. /\ y.session = v /\ y.text = n.text /\ y.base = n.text /\ y.gen = x.gen
        /\ y.saved = x.saved /\ y.path = n.path /\ y.file = x.file
    BY <2>4 DEF Rows
  <2>6. drafts' = [drafts EXCEPT ![d] = y] /\ drafts'[d] = y /\ views' = Shown(v, d, y)
    BY <1>1, <1>5, <1>7, <2>1, <2>3, <2>4 DEF DraftTypes
  <2>7. Rereads(x, y)
    BY <1>7, <2>2, <2>3, <2>5 DEF Rereads, Reusable
  <2>8. DraftStep(d)
    BY <2>1, <2>3, <2>6, <2>7 DEF DraftStep, Alters
  <2>9. Unique(drafts')
    <3>1. DraftAt(y.path) \subseteq {d} /\ DraftOf(y.file) \subseteq {d}
      BY <1>1, <1>7, <2>1, <2>2, <2>3, <2>5, DraftsAssumption DEF DraftOf, Unique, Exists, DraftsAssumption
    <3> QED
      BY <1>1, <2>1, <2>6, <3>1, NewStaysUnique
  <2>10. DraftsStep
    BY <1>1, <2>1, <2>6, <2>8, OneDraftMoves
  <2>11. ViewsStep
    <3>1. y.session = v
      BY <2>5
    <3> QED
      BY <1>1, <1>2, <2>1, <2>6, <3>1, ShownIs
  <2> QED
    BY <1>3, <1>4, <2>9, <2>10, <2>11 DEF DraftMove
<1>8. ASSUME NEW d \in DraftIds, ~Exists(d), DraftOf(f) = {}, PathOf(f) # None,
             DraftAt(PathOf(f)) = {}, drafts' = [drafts EXCEPT ![d] = FromDisk(f, v)],
             views' = Shown(v, d, drafts'[d])
      PROVE  DraftMove
  <2>1. n.live /\ n.path \in Paths /\ n.text \in Texts \cap written /\ n.text \in Nat
           /\ PathOf(f) = n.path
    BY <1>5, <1>8 DEF PathOf, SoundNote, Notes
  <2>2. PICK y \in Rows : y = FromDisk(f, v)
    BY <1>5, <2>1 DEF Rows, FromDisk
  <2>3. /\ y.session = v /\ y.text = n.text /\ y.base = n.text /\ y.gen = 0
        /\ y.saved = 0 /\ y.path = n.path /\ y.file = f
    BY <1>5, <2>2 DEF FromDisk
  <2>4. drafts' = [drafts EXCEPT ![d] = y] /\ drafts'[d] = y /\ views' = Shown(v, d, y)
    BY <1>1, <1>8, <2>2 DEF DraftTypes
  <2>5. SoundDraft(y)'
    BY <1>2, <1>3, <2>1, <2>3 DEF SoundDraft, Follows, Adds
  <2>6. DraftStep(d)
    BY <1>8, <2>4, <2>5 DEF DraftStep
  <2>7. Unique(drafts')
    <3>1. DraftAt(y.path) \subseteq {d} /\ DraftOf(y.file) \subseteq {d}
      BY <1>8, <2>1, <2>3
    <3> QED
      BY <1>1, <2>4, <3>1, NewStaysUnique
  <2>8. DraftsStep
    BY <1>1, <2>4, <2>6, OneDraftMoves
  <2>9. ViewsStep
    <3>1. y.session = v
      BY <2>3
    <3> QED
      BY <1>1, <1>2, <2>4, <3>1, ShownIs
  <2> QED
    BY <1>3, <1>4, <2>7, <2>8, <2>9 DEF DraftMove
<1> QED
  BY <1>6, <1>7, <1>8 DEF OpenNote

\* draft_view, when the editor asks
LEMMA DraftStatusIsMove ==
    ASSUME DraftInv, DraftsAssumption, NEW v \in Views, DraftStatus(v)
    PROVE  DraftMove
<1> DEFINE d == views[v].draft
<1>1. DraftTypes /\ NotesInv /\ Unique(drafts)
  BY DEF DraftInv
<1>2. UNCHANGED <<vault, operations, assets, written, drafts, frozen, from, dropped>>
         /\ Current(v) /\ Calm /\ views' = Shown(v, d, drafts[d])
  BY DEF DraftStatus, InTheVault, vaultVars
<1>3. d \in DraftIds /\ Exists(d)
  BY <1>2, CurrentIs
<1>4. PICK x \in Rows : x = drafts[d]
  BY <1>1, <1>3, RowIs
<1>5. Adds /\ More
  BY <1>1, <1>2, SameTexts DEF More
<1>6. ViewsStep
  <2>1. [draft |-> d, gen |-> x.gen, text |-> x.text] \in Editors
    BY <1>3 DEF Editors, Rows
  <2>2. views' \in [Views -> Editors]
           /\ views'[v] = [draft |-> d, gen |-> x.gen, text |-> x.text]
           /\ \A u \in Views \ {v} : views'[u] = views[u]
    BY <1>1, <1>2, <1>4, <2>1 DEF Shown, DraftTypes
  <2>3. ViewStep(v)
    BY <1>2, <1>4, <2>2 DEF ViewStep
  <2>4. ASSUME NEW u \in Views \ {v} PROVE ViewStep(u)
    BY <1>2, <2>2 DEF ViewStep, Newer, Current, Exists
  <2> QED
    BY <2>2, <2>3, <2>4 DEF ViewsStep
<1>7. DraftsStep /\ Unique(drafts') /\ OperationsStep /\ NotesStep /\ mishaps' \in Nat
  BY <1>1, <1>2, <1>5, DraftsSame, OperationsSame, NotesSame, CountedOn DEF More
<1> QED
  BY <1>5, <1>6, <1>7 DEF DraftMove

\* persist: a newer generation was typed over what the editor shows.
LEMMA PersistIsMove ==
    ASSUME DraftInv, DraftsAssumption, NEW v \in Views, Persist(v)
    PROVE  DraftMove
<1> DEFINE d == views[v].draft
           gen == views[v].gen + 1
<1>1. DraftTypes /\ NotesInv /\ Unique(drafts)
  BY DEF DraftInv
<1>2. UNCHANGED <<vault, operations, assets, written, frozen, dropped>> /\ Current(v)
         /\ gen > drafts[d].gen
         /\ drafts' = [drafts EXCEPT ![d].gen = gen, ![d].text = NextText]
         /\ from' = Typed(views[v].text)
         /\ \/ Calm /\ views' = [views EXCEPT ![v].gen = gen, ![v].text = NextText]
            \/ Mishap /\ UNCHANGED views
  BY DEF Persist, InTheVault, vaultVars
<1>3. d \in DraftIds /\ Exists(d) /\ views[v].gen \in Nat
  BY <1>2, CurrentIs
<1>4. PICK x \in Rows : x = drafts[d] /\ x.session = v /\ SoundView(v, x) /\ SoundDraft(x)
  BY <1>2, CurrentIs
<1>5. x.gen \in Nat
  BY DEF Rows
<1>6. gen = x.gen + 1 /\ views[v].text = x.text
  BY <1>2, <1>3, <1>4, <1>5 DEF SoundView
<1>7. Adds /\ More /\ TypesOver(x.text) /\ NextText \in Nat
  BY <1>1, <1>2, <1>6, TypedIs DEF More
<1>8. x.text # 0
  <2>1. PICK n \in Nat : Texts = 1..n
    BY <1>1 DEF DraftTypes
  <2> QED
    BY <1>4, <2>1 DEF SoundDraft
<1>9. PICK y \in Rows : y = [x EXCEPT !.gen = gen, !.text = NextText]
  <2>1. gen \in Nat
    BY <1>3
  <2>2. ASSUME NEW g \in Nat, NEW t \in Nat PROVE [x EXCEPT !.gen = g, !.text = t] \in Rows
    BY DEF Rows
  <2> QED
    BY <1>7, <2>1, <2>2
<1>10. /\ y.session = v /\ y.text = NextText /\ y.base = x.base /\ y.gen = gen
       /\ y.saved = x.saved /\ y.path = x.path /\ y.file = x.file
  <2>1. ASSUME NEW g, NEW t
        PROVE  LET z == [x EXCEPT !.gen = g, !.text = t] IN
               /\ z.session = x.session /\ z.text = t /\ z.base = x.base /\ z.gen = g
               /\ z.saved = x.saved /\ z.path = x.path /\ z.file = x.file
    BY DEF Rows
  <2> QED
    BY <1>4, <1>9, <2>1
<1>11. drafts' = [drafts EXCEPT ![d] = y] /\ drafts'[d] = y
          /\ \A e \in DraftIds \ {d} : drafts'[e] = drafts[e]
  BY <1>1, <1>2, <1>3, <1>4, <1>9 DEF DraftTypes
<1>12. Types(x, y)
  BY <1>5, <1>6, <1>7, <1>8, <1>10 DEF Types, TypesOver
<1>13. DraftStep(d)
  BY <1>3, <1>4, <1>11, <1>12 DEF DraftStep, Alters
<1>14. Unique(drafts')
  <2>1. DraftAt(y.path) \subseteq {d} /\ (y.file = None \/ DraftOf(y.file) \subseteq {d})
    BY <1>1, <1>3, <1>4, <1>10 DEF DraftAt, DraftOf, Unique, Exists
  <2> QED
    BY <1>1, <1>3, <1>11, <2>1, NewStaysUnique
<1>15. DraftsStep
  BY <1>1, <1>3, <1>11, <1>13, OneDraftMoves
<1>16. OperationsStep /\ NotesStep /\ mishaps' \in Nat
  BY <1>1, <1>2, <1>7, OperationsSame, NotesSame, CountedOn DEF More
<1>17. ViewsStep
  <2>1. CASE UNCHANGED views
    <3>1. ASSUME NEW e \in DraftIds, drafts'[e] # None
          PROVE  /\ Exists(e) /\ drafts'[e].session = drafts[e].session
                 /\ Newer(drafts[e], drafts'[e])
      BY <1>3, <1>4, <1>5, <1>6, <1>10, <1>11, <3>1 DEF Exists, Newer
    <3> QED
      BY <1>1, <2>1, <3>1, ViewsSame
  <2>2. CASE views' = [views EXCEPT ![v].gen = gen, ![v].text = NextText]
    <3>1. PICK w \in Editors : w = views[v]
      BY <1>1 DEF DraftTypes
    <3>2. PICK z \in Editors : z = [w EXCEPT !.gen = gen, !.text = NextText]
      <4>1. gen \in Nat
        BY <1>3
      <4>2. ASSUME NEW g \in Nat, NEW t \in Nat PROVE [w EXCEPT !.gen = g, !.text = t] \in Editors
        BY DEF Editors
      <4> QED
        BY <1>7, <4>1, <4>2
    <3>3. z.draft = d /\ z.gen = gen /\ z.text = NextText
      BY <3>1, <3>2 DEF Editors
    <3>4. views' = [views EXCEPT ![v] = z]
      BY <2>2, <3>1, <3>2
    <3>5. views' \in [Views -> Editors] /\ views'[v] = z
             /\ \A u \in Views \ {v} : views'[u] = views[u]
      BY <1>1, <3>4 DEF DraftTypes
    <3>6. ViewStep(v)
      BY <1>10, <1>11, <3>3, <3>5 DEF ViewStep
    <3>7. ASSUME NEW u \in Views \ {v}, Current(u)' PROVE ViewStep(u)
      <4>1. PICK e \in DraftIds \cup {None} : e = views[u].draft
        BY <1>1 DEF DraftTypes, Editors
      <4>2. e # None /\ drafts'[e] # None /\ drafts'[e].session = u
        BY <3>5, <3>7, <4>1 DEF Current, Exists
      <4>3. e # d
        BY <1>10, <1>11, <4>2
      <4>4. Current(u) /\ drafts'[e] = drafts[e]
        BY <1>11, <4>1, <4>2, <4>3 DEF Current, Exists
      <4> QED
        BY <3>5, <4>1, <4>4 DEF ViewStep, Newer
    <3>8. ASSUME NEW u \in Views, ~Current(u)' PROVE ViewStep(u)
      BY <3>8 DEF ViewStep
    <3> QED
      BY <3>5, <3>6, <3>7, <3>8 DEF ViewsStep
  <2> QED
    BY <1>2, <2>1, <2>2
<1> QED
  BY <1>7, <1>14, <1>15, <1>16, <1>17 DEF DraftMove

-----------------------------------------------------------------------------
(* The vault carries operations out. *)

\* The note that a path belongs to, or will.
LEMMA OwnerIs ==
    ASSUME DraftTypes, DraftsAssumption, NotesInv, NEW p \in Paths, HasOwner(p)
    PROVE  /\ Owner(p) \in FileIds /\ \A g \in FileIds \ {Owner(p)} : vault[g].path # p
           /\ vault[Owner(p)].live => TextAt(p) = vault[Owner(p)].text
<1>0. p # None
  BY DEF DraftsAssumption
<1>1. CASE RowsAt(p) = {}
  <2>1. \E f \in FileIds : vault[f] = NoFile
    BY <1>1 DEF HasOwner
  <2>2. Owner(p) \in FileIds /\ vault[Owner(p)] = NoFile
    BY <1>1, <2>1 DEF Owner
  <2>3. ~vault[Owner(p)].live
    BY <2>2 DEF NoFile
  <2> QED
    BY <1>1, <2>2, <2>3 DEF RowsAt
<1>2. CASE RowsAt(p) # {}
  <2>1. Owner(p) \in RowsAt(p)
    BY <1>2 DEF Owner
  <2>2. Owner(p) \in FileIds /\ vault[Owner(p)].path = p
    BY <2>1 DEF RowsAt
  <2>3. \A g \in FileIds \ {Owner(p)} : vault[g].path # p
    BY <1>0, <2>2 DEF NotesInv
  <2>4. ASSUME vault[Owner(p)].live PROVE TextAt(p) = vault[Owner(p)].text
    <3>1. LiveAt(p) = {Owner(p)}
      BY <2>1, <2>2, <2>3, <2>4 DEF LiveAt, RowsAt
    <3> QED
      BY <3>1 DEF TextAt
  <2> QED
    BY <2>2, <2>3, <2>4
<1> QED
  BY <1>1, <1>2

\* What a write, a rename or a deletion leaves: notes with texts of their own
\* paths, and no text replaced that the new one was not typed over.
LEMMA SavedKeeps ==
    ASSUME DraftTypes, DraftsAssumption, NotesInv, UNCHANGED from,
           NEW i \in Wishes, SoundIntent(i), i.kind = "save", StillFits(i),
           vault' = Applied(i), written' = written \cup {vault'[f].text : f \in FileIds}
    PROVE  NotesStep /\ i.text \in written'
<1> DEFINE o == Owner(i.path)
           n == [path |-> i.path, text |-> i.text, live |-> TRUE]
<1>1. /\ i.path \in Paths /\ i.text \in Texts /\ i.text \in Nat
      /\ i.expected = 0 \/ Follows(i.expected, i.text)
      /\ TextAt(i.path) \in {i.expected, i.text} /\ HasOwner(i.path)
  BY DEF SoundIntent, StillFits, Wishes
<1>2. /\ o \in FileIds /\ \A g \in FileIds \ {o} : vault[g].path # i.path
      /\ vault[o].live => TextAt(i.path) = vault[o].text
  BY <1>1, OwnerIs
<1>3. vault' = [vault EXCEPT ![o] = n]
  BY DEF Applied
<1>4. n \in Notes /\ n.path = i.path /\ n.text = i.text /\ n.live
  BY <1>1 DEF Notes
<1> HIDE DEF n
<1>5. vault' \in [FileIds -> Notes] /\ vault'[o] = n
         /\ \A g \in FileIds \ {o} : vault'[g] = vault[g]
  BY <1>2, <1>3, <1>4 DEF DraftTypes
<1> HIDE DEF o
<1>6. i.text \in written' /\ written \subseteq written' /\ Texts' = Texts
  BY <1>2, <1>4, <1>5 DEF Texts
<1>7. ASSUME NEW g \in FileIds PROVE SoundNote(vault[g])'
  <2>1. CASE g = o
    BY <1>1, <1>4, <1>5, <1>6, <2>1 DEF SoundNote
  <2>2. CASE g # o
    BY <1>5, <1>6, <2>2 DEF SoundNote, NotesInv
  <2> QED
    BY <2>1, <2>2
<1>8. ASSUME NEW g \in FileIds, NEW h \in FileIds, vault'[g].path = vault'[h].path, g # h
      PROVE  vault'[g].path = None
  <2>1. CASE g = o \/ h = o
    BY <1>2, <1>4, <1>5, <1>8, <2>1
  <2>2. CASE g # o /\ h # o
    BY <1>5, <1>8, <2>2 DEF NotesInv
  <2> QED
    BY <2>1, <2>2
<1>9. ASSUME NEW g \in FileIds PROVE NoteStep(g)
  <2>1. CASE g = o
    <3>1. SUFFICES ASSUME vault[o].live
                   PROVE  vault[o].text \in {i.text} \cup from[i.text]
      BY <1>4, <1>5, <2>1 DEF NoteStep
    <3>2. vault[o].text \in {i.expected, i.text}
      BY <1>1, <1>2, <3>1
    <3>3. vault[o].text # 0
      <4>1. PICK k \in Nat : Texts = 1..k
        BY DEF DraftTypes
      <4> QED
        BY <1>2, <3>1, <4>1 DEF NotesInv, SoundNote
    <3> QED
      BY <1>1, <3>2, <3>3 DEF Follows
  <2>2. CASE g # o
    BY <1>5, <2>2 DEF NoteStep
  <2> QED
    BY <2>1, <2>2
<1> QED
  BY <1>5, <1>6, <1>7, <1>8, <1>9 DEF NotesStep, NotesInv

\* A note is deleted.
LEMMA DeletedKeeps ==
    ASSUME DraftTypes, NotesInv, Adds, written \subseteq written', NEW f \in FileIds,
           vault' = [vault EXCEPT ![f].live = FALSE]
    PROVE  NotesStep
<1>1. ASSUME NEW n \in Notes
      PROVE  /\ [n EXCEPT !.live = FALSE] \in Notes /\ [n EXCEPT !.live = FALSE].path = n.path
             /\ [n EXCEPT !.live = FALSE].text = n.text /\ ~[n EXCEPT !.live = FALSE].live
  BY DEF Notes
<1>2. PICK n \in Notes : n = vault[f]
  BY DEF DraftTypes
<1>3. PICK m \in Notes : m = [n EXCEPT !.live = FALSE]
  BY <1>1
<1>4. m.path = n.path /\ m.text = n.text /\ ~m.live
  BY <1>1, <1>3
<1>5. vault' = [vault EXCEPT ![f] = m]
  BY <1>2, <1>3
<1>6. vault' \in [FileIds -> Notes] /\ vault'[f] = m
         /\ \A g \in FileIds \ {f} : vault'[g] = vault[g]
  BY <1>5 DEF DraftTypes
<1>7. ASSUME NEW g \in FileIds
      PROVE  /\ vault'[g].path = vault[g].path /\ vault'[g].text = vault[g].text
             /\ vault'[g].live => vault[g].live
  BY <1>2, <1>4, <1>6
<1>8. ASSUME NEW g \in FileIds PROVE SoundNote(vault[g])'
  BY <1>7 DEF NotesInv, SoundNote, Adds
<1>9. NotesInv'
  BY <1>7, <1>8 DEF NotesInv
<1> QED
  BY <1>6, <1>7, <1>9 DEF NotesStep, NoteStep

\* The vault carries out an operation that fits, or fits still.
LEMMA CommitIs ==
    ASSUME DraftTypes, DraftsAssumption, NotesInv, IntentsInv, UNCHANGED from, NEW op \in IntentIds,
           Commit(op), StillFits(frozen[op]),
           frozen[op].kind \in {"save", "rename", "delete", "image"}
    PROVE  /\ NotesStep /\ written \subseteq written' /\ assets \subseteq assets' /\ Settles(op)
           /\ operations' \in [IntentIds -> Journalled]
           /\ \A o \in IntentIds \ {op} : operations'[o] = operations[o]
<1>1. PICK i \in Wishes : i = frozen[op] /\ SoundIntent(i)
  BY IntentIs DEF IntentsInv
<1>2. /\ vault' = Applied(i) /\ StillFits(i)
      /\ operations' = [operations EXCEPT ![op] = [state |-> "committed", file |-> ResultFile(i)]]
      /\ assets' = IF i.kind = "image" THEN assets \cup {i.image} ELSE assets
      /\ written' = written \cup {vault'[f].text : f \in FileIds}
      /\ i.kind \in {"save", "rename", "delete", "image"}
  BY <1>1 DEF Commit
<1>3. ResultFile(i) \in FileIds \cup {None}
  <2>1. CASE i.kind = "save"
    <3>1. i.path \in Paths /\ HasOwner(i.path)
      BY <1>1, <1>2, <2>1 DEF SoundIntent, StillFits
    <3> QED
      BY <2>1, <3>1, OwnerIs DEF ResultFile
  <2>2. CASE i.kind # "save"
    BY <2>2 DEF ResultFile, Wishes
  <2> QED
    BY <2>1, <2>2
<1>4. /\ operations' \in [IntentIds -> Journalled] /\ operations'[op].state = "committed"
      /\ \A o \in IntentIds \ {op} : operations'[o] = operations[o]
  BY <1>2, <1>3 DEF DraftTypes, Journalled
<1>5. written \subseteq written' /\ assets \subseteq assets' /\ (i.kind = "image" => i.image \in assets')
  BY <1>2
<1>6. NotesStep /\ (i.kind = "save" => i.text \in written')
  <2>1. CASE i.kind = "save"
    BY <1>1, <1>2, <2>1, SavedKeeps
  <2>2. Adds
    BY SameTexts
  <2>3. CASE i.kind = "rename"
    <3>1. i.file \in FileIds /\ i.dest \in Paths /\ RowsAt(i.dest) = {}
      BY <1>1, <1>2, <2>3 DEF SoundIntent, StillFits, Accepts
    <3>2. vault' = [vault EXCEPT ![i.file].path = i.dest]
      BY <1>2, <2>3 DEF Applied
    <3> QED
      BY <1>5, <2>2, <2>3, <3>1, <3>2, MovedKeeps
  <2>4. CASE i.kind = "delete"
    <3>1. i.file \in FileIds
      BY <1>1, <2>4 DEF SoundIntent
    <3>2. vault' = [vault EXCEPT ![i.file].live = FALSE]
      BY <1>2, <2>4 DEF Applied
    <3> QED
      BY <1>5, <2>2, <2>4, <3>1, <3>2, DeletedKeeps
  <2>5. CASE i.kind = "image"
    <3>1. vault' = vault
      BY <1>2, <2>5 DEF Applied
    <3> QED
      BY <1>5, <2>2, <2>5, <3>1, NotesSame
  <2> QED
    BY <1>2, <2>1, <2>3, <2>4, <2>5
<1>7. Settles(op)
  BY <1>1, <1>4, <1>5, <1>6 DEF Settles
<1> QED
  BY <1>4, <1>5, <1>6, <1>7

-----------------------------------------------------------------------------
(* Receipts are acknowledged. *)

\* One intent is marked, and no other.
LEMMA MarkedMoves ==
    ASSUME DraftTypes, NEW op \in IntentIds, frozen[op].state = "prepared",
           NEW s \in {"committed", "cancelled", "rejected"}, frozen' = Marked(op, s)
    PROVE  /\ Marks(op, s) /\ frozen' = [o \in IntentIds |-> frozen'[o]]
           /\ \A o \in IntentIds \ {op} : frozen'[o] = frozen[o]
<1>1. frozen' = [frozen EXCEPT ![op] = [frozen[op] EXCEPT !.state = s]]
  BY DEF Marked
<1> QED
  BY <1>1 DEF DraftTypes, Marks

\* What a receipt does with a draft.
LEMMA AckedIs ==
    ASSUME DraftTypes, DraftsAssumption, IntentsInv, NEW op \in IntentIds, NEW f \in FileIds \cup {None},
           frozen[op].kind \in {"save", "rename", "delete"}, frozen[op].state = "prepared",
           drafts' = AckedAs(op, f), frozen'[op].state = "committed",
           frozen[op].kind = "save" => frozen[op].text \in written',
           NEW d \in DraftIds
    PROVE  /\ DraftStep(d)
           /\ drafts'[d] # None => /\ Exists(d) /\ drafts'[d].session = drafts[d].session
                                   /\ Newer(drafts[d], drafts'[d])
<1> DEFINE i == frozen[op]
<1>0. CASE ~Exists(d)
  <2>1. drafts'[d] = None
    BY <1>0 DEF AckedAs
  <2> QED
    BY <1>0, <2>1 DEF DraftStep, Clears
<1>1. CASE Exists(d)
  <2>1. PICK x \in Rows : x = drafts[d] /\ x # None
    BY <1>1, RowIs DEF Exists
  <2>2. drafts'[d] = CASE i.kind = "save" /\ d = i.draft /\ Acknowledges(x, i) ->
                             [x EXCEPT !.file = f, !.base = i.text, !.saved = SavedAs(x, i)]
                       [] i.kind = "rename" /\ x.file = f /\ x.path = i.path ->
                             [x EXCEPT !.path = i.dest]
                       [] i.kind = "delete" /\ x.file = f /\ Removable(x) -> None
                       [] OTHER -> x
    BY <1>1, <2>1 DEF AckedAs
  <2>3. CASE i.kind = "save" /\ d = i.draft /\ Acknowledges(x, i)
    <3>1. i.gen \in Nat /\ i.text \in Nat
      BY IntentIs
    <3>2. PICK g \in Nat, t \in Nat :
              /\ g = i.gen /\ t = i.text
              /\ drafts'[d] = [x EXCEPT !.file = f, !.base = t, !.saved = g]
      BY <2>2, <2>3, <3>1 DEF SavedAs
    <3>3. PICK z \in Rows : z = [x EXCEPT !.file = f, !.base = t, !.saved = g]
      BY DEF Rows
    <3>4. PICK y \in Rows : drafts'[d] = y /\ y.gen = x.gen /\ y.text = x.text /\ y.saved = i.gen
                               /\ y.base = i.text /\ y.session = x.session
      <4>1. /\ z.gen = x.gen /\ z.text = x.text /\ z.saved = g /\ z.base = t
            /\ z.session = x.session
        BY <3>3 DEF Rows
      <4> QED
        BY <3>3, <3>2, <4>1
    <3>5. Saving(op) /\ ~Saving(op)'
      BY <2>3 DEF Saving
    <3>6. Acks(d, x, y)
      BY <2>3, <3>4, <3>5 DEF Acks
    <3> QED
      BY <1>1, <2>1, <3>4, <3>6 DEF DraftStep, Alters, Newer
  <2>4. CASE i.kind = "rename" /\ x.file = f /\ x.path = i.path
    <3>1. i.dest \in Paths
      BY <2>4 DEF IntentsInv, SoundIntent
    <3>2. ASSUME NEW p \in Paths
          PROVE  LET y == [x EXCEPT !.path = p] IN
                 /\ y \in Rows /\ y.gen = x.gen /\ y.text = x.text /\ y.saved = x.saved
                 /\ y.base = x.base /\ y.session = x.session
      BY DEF Rows
    <3>3. PICK p \in Paths : drafts'[d] = [x EXCEPT !.path = p]
      BY <2>2, <2>4, <3>1
    <3>4. PICK y \in Rows : drafts'[d] = y /\ y.gen = x.gen /\ y.text = x.text /\ y.saved = x.saved
                               /\ y.base = x.base /\ y.session = x.session
      BY <3>2, <3>3
    <3> QED
      BY <1>1, <2>1, <3>4 DEF DraftStep, Alters, Relabels, Newer
  <2>5. CASE i.kind = "delete" /\ x.file = f /\ Removable(x)
    BY <2>1, <2>2, <2>5 DEF DraftStep, Clears, Removable
  <2>6. CASE /\ ~(i.kind = "save" /\ d = i.draft /\ Acknowledges(x, i))
             /\ ~(i.kind = "rename" /\ x.file = f /\ x.path = i.path)
             /\ ~(i.kind = "delete" /\ x.file = f /\ Removable(x))
    <3>1. drafts'[d] = x
      BY <2>2, <2>6
    <3> QED
      BY <1>1, <2>1, <3>1 DEF DraftStep, Alters, Relabels, Newer
  <2> QED
    BY <2>3, <2>4, <2>5, <2>6
<1> QED
  BY <1>0, <1>1

\* A receipt moves every draft as it may: a save is acknowledged only over its
\* own base, and a deletion takes only a clean draft.
LEMMA AckedMoves ==
    ASSUME DraftTypes, DraftsAssumption, IntentsInv, NEW op \in IntentIds, NEW f \in FileIds \cup {None},
           frozen[op].kind \in {"save", "rename", "delete"}, frozen[op].state = "prepared",
           drafts' = AckedAs(op, f), frozen'[op].state = "committed",
           frozen[op].kind = "save" => frozen[op].text \in written', UNCHANGED views
    PROVE  DraftsStep /\ ViewsStep
<1>1. drafts' = [d \in DraftIds |-> drafts'[d]]
  BY DEF AckedAs
<1>2. \A d \in DraftIds : DraftStep(d)
  BY AckedIs
<1>3. ViewsStep
  BY AckedIs, ViewsSame
<1> QED
  BY <1>1, <1>2, <1>3 DEF DraftsStep

\* A receipt that is not acknowledged yet is of a prepared intent.
LEMMA ReceiptIs ==
    ASSUME DraftInv, NEW op \in IntentIds, Receipt(op)
    PROVE  /\ frozen[op].state = "prepared" /\ frozen[op].kind \in {"save", "rename", "delete"}
           /\ operations[op].file \in FileIds \cup {None}
           /\ operations' = operations /\ written' = written => Settles(op)
<1>1. DraftTypes /\ OutcomesInv /\ IntentsInv
  BY DEF DraftInv
<1>2. SoundOutcome(op) /\ SoundIntent(frozen[op])
  BY <1>1 DEF OutcomesInv, IntentsInv
<1>3. frozen[op].state = "prepared" /\ frozen[op].kind # "image"
  BY <1>2 DEF Receipt, SoundOutcome
<1>4. frozen[op].kind # "none"
  BY <1>2, <1>3 DEF SoundIntent
<1>5. operations[op].file \in FileIds \cup {None}
  BY <1>1 DEF DraftTypes, Journalled
<1>6. ASSUME operations' = operations, written' = written PROVE Settles(op)
  BY <1>2, <1>3, <1>6 DEF Settles, SoundOutcome, Receipt
<1> QED
  BY <1>1, <1>3, <1>4, <1>5, <1>6, IntentIs

\* observe_save and observe_mutation
LEMMA ObserveIsMove ==
    ASSUME DraftInv, DraftsAssumption, NEW op \in IntentIds, Observe(op)
    PROVE  DraftMove
<1>1. DraftTypes /\ NotesInv /\ IntentsInv
  BY DEF DraftInv
<1>2. UNCHANGED <<vault, operations, assets, written, views, from, dropped>> /\ Calm
         /\ Receipt(op) /\ Unique(drafts') /\ drafts' = AckedAs(op, operations[op].file)
         /\ frozen' = Marked(op, "committed")
  BY DEF Observe, InTheVault, vaultVars, Acknowledge, Acked
<1>3. /\ frozen[op].state = "prepared" /\ frozen[op].kind \in {"save", "rename", "delete"}
      /\ operations[op].file \in FileIds \cup {None} /\ Settles(op)
  BY <1>2, ReceiptIs
<1>4. Adds /\ More
  BY <1>1, <1>2, SameTexts DEF More
<1>5. /\ Marks(op, "committed") /\ frozen' = [o \in IntentIds |-> frozen'[o]]
      /\ \A o \in IntentIds \ {op} : frozen'[o] = frozen[o]
  BY <1>1, <1>2, <1>3, MarkedMoves
<1>6. OperationsStep
  <2>1. OperationStep(op)
    BY <1>3, <1>5 DEF OperationStep
  <2>2. operations' \in [IntentIds -> Journalled]
    BY <1>1, <1>2 DEF DraftTypes
  <2> QED
    BY <1>1, <1>2, <1>5, <2>1, <2>2, OneMoves
<1>7. frozen'[op].state = "committed"
  BY <1>1, <1>5, MarkedIs
<1>8. DraftsStep /\ ViewsStep
  BY <1>1, <1>2, <1>3, <1>7, AckedMoves DEF Settles
<1>9. NotesStep /\ mishaps' \in Nat
  BY <1>1, <1>2, <1>4, NotesSame, CountedOn DEF More
<1> QED
  BY <1>2, <1>4, <1>6, <1>8, <1>9 DEF DraftMove

-----------------------------------------------------------------------------
(* Intents are carried out, or end. *)

\* Only the journal goes on.
LEMMA JournalMoves ==
    ASSUME DraftInv, DraftsAssumption, NEW op \in IntentIds, Mishap \/ Calm,
           frozen[op].state = "prepared" \/ operations[op].state = "pending",
           operations' \in [IntentIds -> Journalled],
           \A o \in IntentIds \ {op} : operations'[o] = operations[o],
           operations'[op].state \in {"pending", "conflict"} \/ Settles(op),
           NotesStep, written \subseteq written', assets \subseteq assets',
           UNCHANGED <<drafts, frozen, views, from, dropped>>
    PROVE  DraftMove
<1>1. DraftTypes /\ Unique(drafts)
  BY DEF DraftInv
<1>2. Adds /\ More
  BY <1>1, SameTexts DEF More
<1>3. OperationsStep
  <2>1. OperationStep(op)
    BY DEF OperationStep, Journals
  <2>2. frozen' = [o \in IntentIds |-> frozen'[o]]
    BY <1>1 DEF DraftTypes
  <2> QED
    BY <1>1, <2>1, <2>2, OneMoves
<1>4. DraftsStep /\ Unique(drafts') /\ ViewsStep /\ mishaps' \in Nat
  BY <1>1, DraftsSame, LeasesSame, CountedOn
<1> QED
  BY <1>2, <1>3, <1>4 DEF DraftMove

\* An operation that is carried out, or recovered, is one of a known kind.
LEMMA KindIs ==
    ASSUME DraftInv, NEW op \in IntentIds,
           frozen[op].state = "prepared" \/ operations[op].state = "pending"
    PROVE  frozen[op].kind \in {"save", "rename", "delete", "image"}
<1>1. SoundOutcome(op) /\ SoundIntent(frozen[op]) /\ DraftTypes
  BY DEF DraftInv, OutcomesInv, IntentsInv
<1>2. frozen[op].state # "none"
  BY <1>1 DEF SoundOutcome, SoundIntent
<1> QED
  BY <1>1, <1>2, IntentIs DEF SoundIntent

\* The vault carries the operation out, and no receipt is acknowledged.
LEMMA CommitMoves ==
    ASSUME DraftInv, DraftsAssumption, NEW op \in IntentIds, Mishap \/ Calm,
           frozen[op].state = "prepared" \/ operations[op].state = "pending",
           StillFits(frozen[op]), Commit(op), UNCHANGED <<drafts, frozen, views, from, dropped>>
    PROVE  DraftMove
<1>1. DraftTypes /\ NotesInv /\ IntentsInv
  BY DEF DraftInv
<1>2. frozen[op].kind \in {"save", "rename", "delete", "image"}
  BY KindIs
<1>3. /\ NotesStep /\ written \subseteq written' /\ assets \subseteq assets' /\ Settles(op)
      /\ operations' \in [IntentIds -> Journalled]
      /\ \A o \in IntentIds \ {op} : operations'[o] = operations[o]
  BY <1>1, <1>2, CommitIs
<1> QED
  BY <1>3, JournalMoves

\* An operation gets another state.
LEMMA StateMoves ==
    ASSUME DraftTypes, NEW op \in IntentIds, NEW s \in {"pending", "conflict"},
           operations' = [operations EXCEPT ![op].state = s]
    PROVE  /\ operations' \in [IntentIds -> Journalled] /\ operations'[op].state = s
           /\ \A o \in IntentIds \ {op} : operations'[o] = operations[o]
<1>1. PICK j \in Journalled : j = operations[op]
  BY DEF DraftTypes
<1>2. [j EXCEPT !.state = s] \in Journalled /\ [j EXCEPT !.state = s].state = s
  BY DEF Journalled
<1>3. operations' = [operations EXCEPT ![op] = [j EXCEPT !.state = s]]
  BY <1>1
<1> QED
  BY <1>2, <1>3 DEF DraftTypes

\* The operation is accepted and no more, or ends as a conflict.
LEMMA StopMoves ==
    ASSUME DraftInv, DraftsAssumption, NEW op \in IntentIds, NEW s \in {"pending", "conflict"},
           Mishap \/ Calm,
           frozen[op].state = "prepared" \/ operations[op].state = "pending",
           operations' = [operations EXCEPT ![op].state = s],
           UNCHANGED <<vault, assets, written, drafts, frozen, views, from, dropped>>
    PROVE  DraftMove
<1>1. DraftTypes /\ NotesInv
  BY DEF DraftInv
<1>2. /\ operations' \in [IntentIds -> Journalled] /\ operations'[op].state = s
      /\ \A o \in IntentIds \ {op} : operations'[o] = operations[o]
  BY <1>1, StateMoves
<1>3. Adds
  BY <1>1, SameTexts
<1>4. NotesStep
  BY <1>1, <1>3, NotesSame
<1> QED
  BY <1>2, <1>4, JournalMoves

\* recover, with the next call or the next start
LEMMA ResumeIsMove ==
    ASSUME DraftInv, DraftsAssumption, NEW op \in IntentIds, ResumeIntent(op)
    PROVE  DraftMove
<1>1. /\ operations[op].state = "pending" /\ RecoverIntent(op) /\ Calm
      /\ UNCHANGED <<drafts, frozen, views, from, dropped>>
  BY DEF ResumeIntent, Unsettled
<1>2. CASE StillFits(frozen[op])
  BY <1>1, <1>2, CommitMoves DEF RecoverIntent
<1>3. CASE ~StillFits(frozen[op])
  BY <1>1, <1>3, StopMoves DEF RecoverIntent
<1> QED
  BY <1>2, <1>3

\* An intent ends that the vault does not know.
LEMMA EndMoves ==
    ASSUME DraftInv, DraftsAssumption, NEW op \in IntentIds, NEW s \in {"cancelled", "rejected"},
           frozen[op].state = "prepared", Cancellable(op), frozen' = Marked(op, s), Calm,
           UNCHANGED <<vault, operations, assets, written, drafts, views, from, dropped>>
    PROVE  DraftMove
<1>1. DraftTypes /\ NotesInv /\ Unique(drafts)
  BY DEF DraftInv
<1>2. /\ Marks(op, s) /\ frozen' = [o \in IntentIds |-> frozen'[o]]
      /\ \A o \in IntentIds \ {op} : frozen'[o] = frozen[o]
  BY <1>1, MarkedMoves
<1>3. OperationsStep
  <2>1. OperationStep(op)
    BY <1>2 DEF OperationStep, GivesUp, Cancellable
  <2>2. operations' \in [IntentIds -> Journalled]
    BY <1>1 DEF DraftTypes
  <2> QED
    BY <1>1, <1>2, <2>1, <2>2, OneMoves
<1>4. Adds /\ More
  BY <1>1, SameTexts DEF More
<1>5. DraftsStep /\ Unique(drafts') /\ ViewsStep /\ NotesStep /\ mishaps' \in Nat
  BY <1>1, <1>4, DraftsSame, LeasesSame, NotesSame, CountedOn DEF More
<1> QED
  BY <1>3, <1>4, <1>5 DEF DraftMove

\* cancel_save, cancel_mutation and cancel_image
LEMMA CancelIsMove ==
    ASSUME DraftInv, DraftsAssumption, NEW op \in IntentIds, CancelIntent(op)
    PROVE  DraftMove
BY EndMoves DEF CancelIntent, InTheVault, vaultVars

\* The reply comes with the commit: the receipt is acknowledged, unless a column
\* refuses it.
LEMMA AcknowledgedMoves ==
    ASSUME DraftInv, DraftsAssumption, NEW op \in IntentIds, Calm, frozen[op].state = "prepared",
           frozen[op].kind \in {"save", "rename", "delete"}, StillFits(frozen[op]), Commit(op),
           drafts' = Acknowledged(op).drafts, frozen' = Acknowledged(op).frozen,
           UNCHANGED <<views, from, dropped>>
    PROVE  DraftMove
<1> DEFINE f == ResultFile(frozen[op])
<1>1. DraftTypes /\ NotesInv /\ IntentsInv
  BY DEF DraftInv
<1>2. /\ NotesStep /\ written \subseteq written' /\ assets \subseteq assets' /\ Settles(op)
      /\ operations' \in [IntentIds -> Journalled]
      /\ \A o \in IntentIds \ {op} : operations'[o] = operations[o]
  BY <1>1, CommitIs
<1>3. CASE Unique(AckedAs(op, f))
  <2>1. drafts' = AckedAs(op, f) /\ frozen' = Marked(op, "committed") /\ Unique(drafts')
    BY <1>3 DEF Acknowledged
  <2>2. f \in FileIds \cup {None}
    <3>1. operations'[op].file = f
      BY <1>1 DEF Commit, DraftTypes
    <3> QED
      BY <1>2, <3>1 DEF Journalled
  <2>3. /\ Marks(op, "committed") /\ frozen' = [o \in IntentIds |-> frozen'[o]]
        /\ \A o \in IntentIds \ {op} : frozen'[o] = frozen[o]
    BY <1>1, <2>1, MarkedMoves
  <2>4. frozen'[op].state = "committed"
    BY <1>1, <2>3, MarkedIs
  <2>5. DraftsStep /\ ViewsStep
    BY <1>1, <1>2, <2>1, <2>2, <2>4, AckedMoves DEF Settles
  <2>6. OperationsStep
    <3>1. OperationStep(op)
      BY <1>2, <2>3 DEF OperationStep
    <3> QED
      BY <1>1, <1>2, <2>3, <3>1, OneMoves
  <2>7. Adds /\ More /\ mishaps' \in Nat
    BY <1>1, <1>2, SameTexts, CountedOn DEF More
  <2> QED
    BY <1>2, <2>1, <2>5, <2>6, <2>7 DEF DraftMove
<1>4. CASE ~Unique(AckedAs(op, f))
  <2>1. drafts' = drafts /\ frozen' = frozen
    BY <1>4 DEF Acknowledged
  <2> QED
    BY <2>1, CommitMoves
<1> QED
  BY <1>3, <1>4

\* apply_save, and apply_mutation with it
LEMMA CarriedOut ==
    ASSUME DraftInv, DraftsAssumption, NEW op \in IntentIds, frozen[op].state = "prepared",
           frozen[op].kind \in {"save", "rename", "delete"}, operations[op].state = "none",
           UNCHANGED <<views, from, dropped>>,
           \/ Accepts(frozen[op]) /\ CarryOut(op, Acknowledged(op))
           \/ /\ Calm /\ frozen' = Marked(op, "rejected")
              /\ UNCHANGED <<drafts, vault, operations, assets, written>>
    PROVE  DraftMove
<1>1. CASE Accepts(frozen[op]) /\ CarryOut(op, Acknowledged(op))
  <2>1. StillFits(frozen[op])
    BY <1>1 DEF StillFits, Accepts
  <2>2. CASE Calm /\ Commit(op) /\ drafts' = Acknowledged(op).drafts
                /\ frozen' = Acknowledged(op).frozen
    BY <2>1, <2>2, AcknowledgedMoves
  <2>3. CASE Mishap /\ Commit(op) /\ UNCHANGED <<drafts, frozen>>
    BY <2>1, <2>3, CommitMoves
  <2>4. CASE Mishap /\ Admit(op) /\ UNCHANGED <<drafts, frozen>>
    BY <2>4, StopMoves DEF Admit
  <2> QED
    BY <1>1, <2>2, <2>3, <2>4 DEF CarryOut
<1>2. CASE /\ Calm /\ frozen' = Marked(op, "rejected")
           /\ UNCHANGED <<drafts, vault, operations, assets, written>>
  BY <1>2, EndMoves DEF Cancellable
<1> QED
  BY <1>1, <1>2

\* apply_save, the first attempt
LEMMA ApplySaveIsMove ==
    ASSUME DraftInv, DraftsAssumption, NEW op \in IntentIds, ApplySave(op)
    PROVE  DraftMove
<1>1. frozen[op].state = "prepared" /\ frozen[op].kind = "save" /\ operations[op].state = "none"
         /\ UNCHANGED <<views, from, dropped>>
  BY DEF ApplySave, Prepared
<1>2. \/ Accepts(frozen[op]) /\ CarryOut(op, Acknowledged(op))
      \/ /\ Calm /\ frozen' = Marked(op, "rejected")
         /\ UNCHANGED <<drafts, vault, operations, assets, written>>
  BY DEF ApplySave, vaultVars
<1> QED
  BY <1>1, <1>2, CarriedOut

\* apply_mutation, the first attempt
LEMMA ApplyMutationIsMove ==
    ASSUME DraftInv, DraftsAssumption, NEW op \in IntentIds, ApplyMutation(op)
    PROVE  DraftMove
<1>1. frozen[op].state = "prepared" /\ frozen[op].kind \in {"rename", "delete"}
         /\ operations[op].state = "none" /\ UNCHANGED <<views, from, dropped>>
  BY DEF ApplyMutation, Prepared
<1>2. \/ Accepts(frozen[op]) /\ CarryOut(op, Acknowledged(op))
      \/ /\ Calm /\ frozen' = Marked(op, "rejected")
         /\ UNCHANGED <<drafts, vault, operations, assets, written>>
  BY DEF ApplyMutation, vaultVars
<1> QED
  BY <1>1, <1>2, CarriedOut

\* The link of an image goes into the text it was frozen over.
LEMMA LinkMoves ==
    ASSUME DraftInv, DraftsAssumption, NEW op \in IntentIds, Calm, frozen[op].state = "prepared",
           frozen[op].kind = "image", Exists(frozen[op].draft),
           Untouched(drafts[frozen[op].draft], frozen[op]),
           drafts' = Linked(op).drafts, frozen' = Linked(op).frozen,
           NotesStep, written \subseteq written', assets \subseteq assets',
           Settles(op) \/ Finds(op), operations' \in [IntentIds -> Journalled],
           \A o \in IntentIds \ {op} : operations'[o] = operations[o],
           UNCHANGED <<views, from, dropped>>
    PROVE  DraftMove
<1> DEFINE d == frozen[op].draft
<1>1. DraftTypes /\ Unique(drafts) /\ DraftsInv
  BY DEF DraftInv
<1>2. SoundIntent(frozen[op]) /\ frozen[op].text \in Nat
  BY <1>1, IntentIs DEF DraftInv, IntentsInv
<1>3. d \in DraftIds
  BY <1>2 DEF SoundIntent
<1>4. PICK x \in Rows : x = drafts[d]
  BY <1>1, <1>3, RowIs
<1>5. PICK t \in Nat : t = frozen[op].text
  BY <1>2
<1>6. x.gen \in Nat
  BY DEF Rows
<1>7. drafts' = [drafts EXCEPT ![d] = [x EXCEPT !.text = t, !.gen = x.gen + 1]]
  BY <1>1, <1>3, <1>4, <1>5 DEF Linked, DraftTypes
<1>8. PICK g \in Nat : g = x.gen + 1
  BY <1>6
<1>9. PICK y \in Rows : y = [x EXCEPT !.text = t, !.gen = g]
  BY DEF Rows
<1>10. /\ y.session = x.session /\ y.text = t /\ y.base = x.base /\ y.gen = g
       /\ y.saved = x.saved /\ y.path = x.path /\ y.file = x.file
  BY <1>9 DEF Rows
<1>11. drafts' = [drafts EXCEPT ![d] = y] /\ drafts'[d] = y
          /\ \A e \in DraftIds \ {d} : drafts'[e] = drafts[e]
  BY <1>1, <1>3, <1>7, <1>8, <1>9 DEF DraftTypes
<1>12. Adds /\ More
  BY <1>1, SameTexts DEF More
<1>13. Types(x, y)
  <2>1. /\ x.text = frozen[op].expected
        /\ {frozen[op].expected} \cup from[frozen[op].expected] \subseteq from[frozen[op].text]
        /\ frozen[op].text \in Texts
    BY <1>2, <1>4 DEF Untouched, SoundIntent
  <2> QED
    BY <1>5, <1>6, <1>8, <1>10, <2>1 DEF Types, Texts
<1>14. DraftStep(d)
  BY <1>4, <1>11, <1>13 DEF DraftStep, Alters
<1>15. Unique(drafts')
  <2>1. DraftAt(y.path) \subseteq {d} /\ (y.file = None \/ DraftOf(y.file) \subseteq {d})
    BY <1>1, <1>3, <1>4, <1>10 DEF DraftAt, DraftOf, Unique, Exists
  <2> QED
    BY <1>1, <1>3, <1>11, <2>1, NewStaysUnique
<1>16. DraftsStep
  BY <1>1, <1>3, <1>11, <1>14, OneDraftMoves
<1>17. ViewsStep
  <2>1. ASSUME NEW e \in DraftIds, drafts'[e] # None
        PROVE  /\ Exists(e) /\ drafts'[e].session = drafts[e].session
               /\ Newer(drafts[e], drafts'[e])
    BY <1>4, <1>6, <1>8, <1>10, <1>11, <2>1 DEF Exists, Newer
  <2> QED
    BY <1>1, <2>1, ViewsSame
<1>18. OperationsStep
  <2>1. frozen' = Marked(op, "committed")
    BY DEF Linked
  <2>2. /\ Marks(op, "committed") /\ frozen' = [o \in IntentIds |-> frozen'[o]]
        /\ \A o \in IntentIds \ {op} : frozen'[o] = frozen[o]
    BY <1>1, <2>1, MarkedMoves
  <2>3. OperationStep(op)
    BY <2>2 DEF OperationStep
  <2> QED
    BY <1>1, <2>2, <2>3, OneMoves
<1> QED
  BY <1>1, <1>12, <1>15, <1>16, <1>17, <1>18, CountedOn DEF DraftMove

\* apply_image: the link goes into the draft as it was frozen.
LEMMA ApplyImageIsMove ==
    ASSUME DraftInv, DraftsAssumption, NEW op \in IntentIds, ApplyImage(op)
    PROVE  DraftMove
<1>1. /\ frozen[op].state = "prepared" /\ frozen[op].kind = "image" /\ Exists(frozen[op].draft)
      /\ Untouched(drafts[frozen[op].draft], frozen[op])
      /\ UNCHANGED <<views, from, dropped>>
  BY DEF ApplyImage, Prepared
<1>2. DraftTypes /\ NotesInv /\ IntentsInv /\ OutcomesInv
  BY DEF DraftInv
<1>3. StillFits(frozen[op])
  BY <1>1 DEF StillFits, Accepts
<1>4. ASSUME Calm, Commit(op), drafts' = Linked(op).drafts, frozen' = Linked(op).frozen
      PROVE  DraftMove
  <2>1. /\ NotesStep /\ written \subseteq written' /\ assets \subseteq assets' /\ Settles(op)
        /\ operations' \in [IntentIds -> Journalled]
        /\ \A o \in IntentIds \ {op} : operations'[o] = operations[o]
    BY <1>1, <1>2, <1>3, <1>4, CommitIs
  <2> QED
    BY <1>1, <1>4, <2>1, LinkMoves
<1>5. CASE CarryOut(op, Linked(op))
  <2>1. CASE Mishap /\ Commit(op) /\ UNCHANGED <<drafts, frozen>>
    BY <1>1, <1>3, <2>1, CommitMoves
  <2>2. CASE Mishap /\ Admit(op) /\ UNCHANGED <<drafts, frozen>>
    BY <1>1, <2>2, StopMoves DEF Admit
  <2> QED
    BY <1>4, <1>5, <2>1, <2>2 DEF CarryOut
<1>6. CASE operations[op].state = "pending" /\ Calm /\ Commit(op) /\ Link(op)
  BY <1>4, <1>6 DEF Link
<1>7. CASE operations[op].state = "committed" /\ Calm /\ Link(op) /\ UNCHANGED vaultVars
  <2>1. UNCHANGED <<vault, operations, assets, written>>
    BY <1>7 DEF vaultVars
  <2>2. Adds
    BY <1>1, <1>2, SameTexts
  <2>3. NotesStep
    BY <1>2, <2>1, <2>2, NotesSame
  <2>4. Settles(op)
    BY <1>1, <1>2, <1>7, <2>1 DEF Settles, OutcomesInv, SoundOutcome
  <2>5. operations' \in [IntentIds -> Journalled]
    BY <1>2, <2>1 DEF DraftTypes
  <2> QED
    BY <1>1, <1>7, <2>1, <2>3, <2>4, <2>5, LinkMoves DEF Link
<1>8. CASE operations[op].state = "none" /\ HasImage(op) /\ Calm /\ Link(op) /\ UNCHANGED vaultVars
  <2>1. UNCHANGED <<vault, operations, assets, written>>
    BY <1>8 DEF vaultVars
  <2>2. NotesStep
    BY <1>1, <1>2, <2>1, SameTexts, NotesSame
  <2>3. Finds(op)
    BY <1>1, <1>8, <2>1 DEF Finds, HasImage
  <2>4. operations' \in [IntentIds -> Journalled]
    BY <1>2, <2>1 DEF DraftTypes
  <2> QED
    BY <1>1, <1>8, <2>1, <2>2, <2>3, <2>4, LinkMoves DEF Link
<1> QED
  BY <1>5, <1>6, <1>7, <1>8 DEF ApplyImage

-----------------------------------------------------------------------------
(* Intents are frozen, or discarded with their draft. *)

\* An intent is frozen that clashes with none.
LEMMA FreezeMoves ==
    ASSUME DraftInv, DraftsAssumption, NEW op \in IntentIds, NEW i \in Wishes, frozen[op] = BlankIntent,
           Insert(op, i), i.state = "prepared", i.kind # "none", SoundIntent(i)',
           i.kind = "save" => /\ Exists(i.draft) /\ Dirty(drafts[i.draft])
                              /\ i.gen = drafts[i.draft].gen /\ i.text = drafts[i.draft].text,
           \A o \in IntentIds : frozen[o].state = "prepared" =>
               ~Clash(i, frozen[o]) /\ ~Clash(frozen[o], i),
           Adds, Calm, UNCHANGED <<vault, operations, assets, written, drafts, views, dropped>>
    PROVE  DraftMove
<1>1. DraftTypes /\ NotesInv /\ Unique(drafts)
  BY DEF DraftInv
<1>2. /\ frozen' = [o \in IntentIds |-> frozen'[o]] /\ frozen'[op] = i
      /\ \A o \in IntentIds \ {op} : frozen'[o] = frozen[o]
  BY <1>1 DEF Insert, DraftTypes
<1>3. Begins(op)
  BY <1>2 DEF Begins
<1>4. OperationsStep
  <2>1. OperationStep(op) /\ operations' \in [IntentIds -> Journalled]
    BY <1>1, <1>3 DEF OperationStep, DraftTypes
  <2> QED
    BY <1>1, <1>2, <2>1, OneMoves
<1>5. More
  BY DEF More
<1>6. DraftsStep /\ Unique(drafts') /\ ViewsStep /\ NotesStep /\ mishaps' \in Nat
  BY <1>1, <1>5, DraftsSame, LeasesSame, NotesSame, CountedOn DEF More
<1> QED
  BY <1>4, <1>5, <1>6 DEF DraftMove

\* No save and no image of the draft is prepared.
LEMMA FreeIs ==
    ASSUME DraftTypes, NEW i \in Wishes, i.kind \in {"save", "image"}, MayFreeze(i.draft),
           NEW o \in IntentIds, frozen[o].state = "prepared"
    PROVE  ~Clash(i, frozen[o]) /\ ~Clash(frozen[o], i)
BY DEF MayFreeze, PendingImage, PendingSave, Prepared, Clash

\* prepare_save freezes the text the editor shows.
LEMMA PrepareSaveIsMove ==
    ASSUME DraftInv, DraftsAssumption, NEW v \in Views, NEW op \in IntentIds, PrepareSave(v, op)
    PROVE  DraftMove
<1> DEFINE d == views[v].draft
<1>1. DraftTypes /\ NotesInv /\ Unique(drafts)
  BY DEF DraftInv
<1>2. /\ frozen[op] = BlankIntent /\ Current(v) /\ MayFreeze(d) /\ Dirty(drafts[d]) /\ Calm
      /\ UNCHANGED <<vault, operations, assets, written, drafts, views, from, dropped>>
  BY DEF PrepareSave, InTheVault, vaultVars
<1>3. PICK e \in DraftIds : e = d
  BY <1>2, CurrentIs
<1>4. PICK x \in Rows : x = drafts[e] /\ SoundDraft(x)
  BY <1>2, <1>3, CurrentIs
<1>5. PICK i \in Wishes : Insert(op, i) /\ i = [BlankIntent EXCEPT !.kind = "save",
                             !.state = "prepared", !.draft = e,
                             !.gen = x.gen, !.file = x.file, !.path = x.path, !.expected = x.base,
                             !.text = x.text]
  <2> DEFINE i == [BlankIntent EXCEPT !.kind = "save",
                             !.state = "prepared", !.draft = e,
                             !.gen = x.gen, !.file = x.file, !.path = x.path, !.expected = x.base,
                             !.text = x.text]
  <2>1. Insert(op, i)
    BY <1>3, <1>4 DEF PrepareSave
  <2>2. i \in Wishes
    BY DEF Wishes, BlankIntent, Rows
  <2> QED
    BY <2>1, <2>2
<1>6. /\ i.kind = "save" /\ i.state = "prepared" /\ i.draft = e /\ i.gen = x.gen
      /\ i.path = x.path /\ i.expected = x.base /\ i.text = x.text
  BY <1>5 DEF BlankIntent
<1>7. Adds
  BY <1>1, <1>2, SameTexts
<1>8. SoundIntent(i)'
  <2>1. x.path \in Paths
    BY DEF Rows
  <2>2. x.text \in Texts /\ (x.base = 0 \/ x.base \in {x.text} \cup from[x.text]) /\ from' = from
           /\ Texts' = Texts
    BY <1>2, <1>4 DEF SoundDraft, Follows, Texts
  <2> QED
    BY <1>6, <2>1, <2>2 DEF SoundIntent, Follows
<1>9. \A o \in IntentIds : frozen[o].state = "prepared" =>
          ~Clash(i, frozen[o]) /\ ~Clash(frozen[o], i)
  <2>1. MayFreeze(i.draft) /\ i.kind \in {"save", "image"}
    BY <1>2, <1>3, <1>6
  <2> QED
    BY <1>1, <2>1, FreeIs
<1>10. /\ Exists(i.draft) /\ Dirty(drafts[i.draft])
       /\ i.gen = drafts[i.draft].gen /\ i.text = drafts[i.draft].text
  BY <1>2, <1>3, <1>4, <1>6, CurrentIs
<1> QED
  BY <1>2, <1>5, <1>6, <1>7, <1>8, <1>9, <1>10, FreezeMoves

\* prepare_image freezes the text with the link.
LEMMA PrepareImageIsMove ==
    ASSUME DraftInv, DraftsAssumption, NEW v \in Views, NEW op \in IntentIds, NEW image \in Images,
           PrepareImage(v, op, image)
    PROVE  DraftMove
<1> DEFINE d == views[v].draft
<1>1. DraftTypes /\ NotesInv /\ Unique(drafts)
  BY DEF DraftInv
<1>2. /\ frozen[op] = BlankIntent /\ Current(v) /\ MayFreeze(d) /\ Calm
      /\ from' = Typed(drafts[d].text)
      /\ UNCHANGED <<vault, operations, assets, written, drafts, views, dropped>>
  BY DEF PrepareImage, InTheVault, vaultVars
<1>3. PICK e \in DraftIds : e = d
  BY <1>2, CurrentIs
<1>4. PICK x \in Rows : x = drafts[e] /\ SoundDraft(x)
  BY <1>2, <1>3, CurrentIs
<1>5. Adds /\ TypesOver(x.text) /\ NextText \in Nat
  BY <1>1, <1>2, <1>3, <1>4, TypedIs
<1>6. PICK t \in Nat : t = NextText
  BY <1>5
<1>7. PICK i \in Wishes : Insert(op, i) /\ i = [BlankIntent EXCEPT !.kind = "image",
                             !.state = "prepared", !.draft = e, !.gen = x.gen, !.path = x.path,
                             !.expected = x.text, !.text = t, !.image = image]
  <2> DEFINE i == [BlankIntent EXCEPT !.kind = "image", !.state = "prepared", !.draft = e,
                             !.gen = x.gen, !.path = x.path, !.expected = x.text, !.text = t,
                             !.image = image]
  <2>1. Insert(op, i)
    BY <1>3, <1>4, <1>6 DEF PrepareImage
  <2>2. i \in Wishes
    BY DEF Wishes, BlankIntent, Rows
  <2> QED
    BY <2>1, <2>2
<1>8. /\ i.kind = "image" /\ i.state = "prepared" /\ i.draft = e
      /\ i.expected = x.text /\ i.text = t
  BY <1>7 DEF BlankIntent
<1>9. SoundIntent(i)'
  <2>1. x.text # 0 /\ x.text \in Texts
    <3>1. PICK n \in Nat : Texts = 1..n
      BY <1>1 DEF DraftTypes
    <3> QED
      BY <1>4, <3>1 DEF SoundDraft
  <2>2. t \in Texts' /\ from'[t] = {x.text} \cup from[x.text] /\ from'[x.text] = from[x.text]
           /\ x.text \in Texts'
    BY <1>5, <1>6, <2>1 DEF TypesOver, Adds
  <2> QED
    BY <1>8, <2>2 DEF SoundIntent
<1>10. \A o \in IntentIds : frozen[o].state = "prepared" =>
          ~Clash(i, frozen[o]) /\ ~Clash(frozen[o], i)
  <2>1. MayFreeze(i.draft) /\ i.kind \in {"save", "image"}
    BY <1>2, <1>3, <1>8
  <2> QED
    BY <1>1, <2>1, FreeIs
<1> QED
  BY <1>2, <1>5, <1>7, <1>8, <1>9, <1>10, FreezeMoves

\* prepare_rename and prepare_delete
LEMMA PrepareMutationIsMove ==
    ASSUME DraftInv, DraftsAssumption, NEW kind \in {"rename", "delete"}, NEW f \in FileIds,
           NEW p \in Paths \cup {None}, NEW op \in IntentIds, kind = "rename" => p \in Paths,
           PrepareMutation(kind, f, p, op)
    PROVE  DraftMove
<1>1. DraftTypes /\ NotesInv /\ Unique(drafts)
  BY DEF DraftInv
<1>2. /\ frozen[op] = BlankIntent /\ PendingMutation(f) = {} /\ Calm
      /\ UNCHANGED <<vault, operations, assets, written, drafts, views, from, dropped>>
  BY DEF PrepareMutation, InTheVault, vaultVars
<1>3. PICK n \in Notes : n = vault[f]
  BY <1>1 DEF DraftTypes
<1>4. PICK i \in Wishes : Insert(op, i) /\ i = [BlankIntent EXCEPT !.kind = kind,
                             !.state = "prepared", !.file = f,
                             !.path = n.path, !.dest = p, !.expected = n.text]
  <2> DEFINE i == [BlankIntent EXCEPT !.kind = kind, !.state = "prepared", !.file = f,
                             !.path = n.path, !.dest = p, !.expected = n.text]
  <2>1. Insert(op, i)
    BY <1>3 DEF PrepareMutation
  <2>2. i \in Wishes
    BY DEF Wishes, BlankIntent, Notes
  <2> QED
    BY <2>1, <2>2
<1>5. i.kind = kind /\ i.state = "prepared" /\ i.file = f /\ i.dest = p
  BY <1>4 DEF BlankIntent
<1>6. Adds
  BY <1>1, <1>2, SameTexts
<1>7. SoundIntent(i)'
  BY <1>5 DEF SoundIntent
<1>8. \A o \in IntentIds : frozen[o].state = "prepared" =>
          ~Clash(i, frozen[o]) /\ ~Clash(frozen[o], i)
  BY <1>2, <1>5 DEF PendingMutation, Prepared, Clash
<1> QED
  BY <1>2, <1>4, <1>5, <1>6, <1>7, <1>8, FreezeMoves

\* discard: the draft goes, and its intents end with it.
LEMMA DiscardIsMove ==
    ASSUME DraftInv, DraftsAssumption, NEW v \in Views, Discard(v)
    PROVE  DraftMove
<1> DEFINE d == views[v].draft
           pending == PendingSave(d) \cup PendingImage(d)
<1>1. DraftTypes /\ NotesInv /\ Unique(drafts)
  BY DEF DraftInv
<1>2. /\ \A op \in pending : Cancellable(op) \/ Receipt(op)
      /\ frozen' = [op \in IntentIds |-> IF op \notin pending THEN frozen[op] ELSE
             [frozen[op] EXCEPT !.state = IF Receipt(op) THEN "committed" ELSE "cancelled"]]
      /\ drafts' = [drafts EXCEPT ![d] = None] /\ dropped' = dropped \cup {drafts[d].text}
      /\ Current(v) /\ Mishap
      /\ UNCHANGED <<vault, operations, assets, written, views, from>>
  BY DEF Discard, InTheVault, vaultVars
<1>3. d \in DraftIds /\ Exists(d)
  BY <1>2, CurrentIs
<1>4. Adds /\ More
  BY <1>1, <1>2, SameTexts DEF More
<1>5. \A op \in pending : op \in IntentIds /\ frozen[op].state = "prepared"
  BY DEF PendingSave, PendingImage, Prepared
<1>6. ASSUME NEW op \in IntentIds PROVE OperationStep(op)
  <2>1. CASE op \notin pending
    BY <1>2, <2>1 DEF OperationStep
  <2>2. CASE op \in pending /\ Receipt(op)
    <3>1. Marks(op, "committed")
      BY <1>2, <1>5, <2>2 DEF Marks
    <3> QED
      BY <1>2, <2>2, <3>1, ReceiptIs DEF OperationStep
  <2>3. CASE op \in pending /\ ~Receipt(op)
    <3>1. Marks(op, "cancelled")
      BY <1>2, <1>5, <2>3 DEF Marks
    <3> QED
      BY <1>2, <2>3, <3>1 DEF OperationStep, GivesUp, Cancellable
  <2> QED
    BY <2>1, <2>2, <2>3
<1>7. OperationsStep
  <2>1. frozen' = [op \in IntentIds |-> frozen'[op]] /\ operations' \in [IntentIds -> Journalled]
    BY <1>1, <1>2 DEF DraftTypes
  <2> QED
    BY <1>2, <1>6, <2>1 DEF OperationsStep
<1>8. drafts'[d] = None /\ \A e \in DraftIds \ {d} : drafts'[e] = drafts[e]
  BY <1>1, <1>2, <1>3 DEF DraftTypes
<1>9. Clears(d)
  <2>1. ASSUME NEW op \in IntentIds, Saving(op), frozen[op].draft = d PROVE ~Saving(op)'
    <3>1. op \in pending
      BY <2>1 DEF PendingSave, Prepared, Saving
    <3>2. Marks(op, "committed") \/ Marks(op, "cancelled")
      BY <1>2, <1>5, <3>1 DEF Marks
    <3> QED
      BY <1>1, <3>2, MarkedIs DEF Saving
  <2> QED
    BY <1>2, <1>8, <2>1 DEF Clears
<1>10. DraftsStep
  BY <1>1, <1>2, <1>3, <1>9, OneDraftMoves DEF DraftStep
<1>11. Unique(drafts')
  BY <1>1, <1>8 DEF Unique
<1>12. ViewsStep
  <2>1. ASSUME NEW e \in DraftIds, drafts'[e] # None
        PROVE  /\ Exists(e) /\ drafts'[e].session = drafts[e].session
               /\ Newer(drafts[e], drafts'[e])
    BY <1>8, <2>1 DEF Exists, Newer
  <2> QED
    BY <1>1, <1>2, <2>1, ViewsSame
<1>13. NotesStep /\ mishaps' \in Nat
  BY <1>1, <1>2, <1>4, NotesSame, CountedOn DEF More
<1> QED
  BY <1>4, <1>7, <1>10, <1>11, <1>12, <1>13 DEF DraftMove

-----------------------------------------------------------------------------
(* Every step is a move, and the invariant holds. *)

\* Every action is a move.
LEMMA NextMoves ==
    ASSUME DraftInv, DraftsAssumption, DraftingNext
    PROVE  DraftMove
<1>1. CASE Editing
  <2>1. ASSUME NEW d \in DraftIds, NEW v \in Views,
               \/ OpenDraft(d, v)
               \/ \E p \in Paths : Create(d, p, v) \/ \E u \in Views : CopyAs(u, d, p, v)
        PROVE  DraftMove
    BY <2>1, OpenDraftIsMove, CreateIsMove, CopyAsIsMove
  <2>2. ASSUME NEW v \in Views,
               \/ Persist(v) \/ DraftStatus(v) \/ Discard(v)
               \/ \E f \in FileIds : OpenNote(f, v)
        PROVE  DraftMove
    BY <2>2, PersistIsMove, DraftStatusIsMove, DiscardIsMove, OpenNoteIsMove
  <2> QED
    BY <1>1, <2>1, <2>2 DEF Editing
<1>2. CASE Intending
  <2>1. PICK op \in IntentIds :
          \/ Observe(op) \/ ApplySave(op) \/ ResumeIntent(op) \/ CancelIntent(op)
          \/ ApplyMutation(op) \/ ApplyImage(op)
          \/ \E v \in Views : PrepareSave(v, op) \/ \E image \in Images : PrepareImage(v, op, image)
          \/ \E f \in FileIds : PrepareMutation("delete", f, None, op)
                                \/ \E p \in Paths : PrepareMutation("rename", f, p, op)
    BY <1>2 DEF Intending
  <2>2. CASE Observe(op) \/ ApplySave(op) \/ ResumeIntent(op) \/ CancelIntent(op)
                \/ ApplyMutation(op) \/ ApplyImage(op)
    BY <2>2, ObserveIsMove, ApplySaveIsMove, ResumeIsMove, CancelIsMove, ApplyMutationIsMove,
       ApplyImageIsMove
  <2>3. CASE \E v \in Views : PrepareSave(v, op) \/ \E image \in Images : PrepareImage(v, op, image)
    BY <2>3, PrepareSaveIsMove, PrepareImageIsMove
  <2>4. ASSUME NEW f \in FileIds, PrepareMutation("delete", f, None, op)
        PROVE  DraftMove
    BY <2>4, PrepareMutationIsMove
  <2>5. ASSUME NEW f \in FileIds, NEW p \in Paths, PrepareMutation("rename", f, p, op)
        PROVE  DraftMove
    BY <2>5, PrepareMutationIsMove
  <2> QED
    BY <2>1, <2>2, <2>3, <2>4, <2>5
<1>3. CASE World
  BY <1>3, RemoteEditMoves, RemoteMoveMoves, RestartMoves DEF World
<1> QED
  BY <1>1, <1>2, <1>3 DEF DraftingNext

\* So is a step in which nothing changes.
LEMMA StutterMoves ==
    ASSUME DraftInv, DraftsAssumption, UNCHANGED draftingVars
    PROVE  DraftMove
<1>1. UNCHANGED <<vault, operations, assets, written, drafts, frozen, views, from, dropped, mishaps>>
  BY DEF draftingVars, vaultVars
<1>2. DraftTypes /\ NotesInv /\ Unique(drafts)
  BY DEF DraftInv
<1>3. Adds /\ More
  BY <1>1, <1>2, SameTexts DEF More
<1> QED
  BY <1>1, <1>2, <1>3, DraftsSame, OperationsSame, LeasesSame, NotesSame
     DEF DraftMove, More, DraftTypes

\* The invariant holds with an empty database of drafts.
LEMMA DraftsInit ==
    ASSUME DraftsAssumption, DraftingInit
    PROVE  DraftInv
<1>1. /\ \A f \in FileIds : vault[f] = IF f = First THEN [path |-> Home, text |-> 1, live |-> TRUE]
                                       ELSE NoFile
      /\ \A op \in IntentIds : operations[op] = NoOperation /\ frozen[op] = BlankIntent
      /\ \A d \in DraftIds : ~Exists(d)
      /\ \A v \in Views : views[v] = Closed
      /\ Texts = {1} /\ 1 \in written
  BY DEF DraftingInit, Exists, Texts
<1>2. DraftTypes
  <2>1. Texts = 1..1
    BY <1>1
  <2>2. vault \in [FileIds -> Notes]
    BY DEF DraftingInit, Notes, NoFile, DraftsAssumption
  <2>3. operations \in [IntentIds -> Journalled] /\ views \in [Views -> Editors]
    BY DEF DraftingInit, Journalled, NoOperation, Editors, Closed
  <2>4. frozen \in [IntentIds -> Wishes]
    <3>1. BlankIntent \in Wishes
      BY DEF BlankIntent, Wishes
    <3> QED
      BY <3>1 DEF DraftingInit
  <2>5. drafts \in [DraftIds -> Rows \cup {None}] /\ mishaps \in Nat
    BY DEF DraftingInit
  <2> QED
    BY <2>1, <2>2, <2>3, <2>4, <2>5 DEF DraftTypes
<1>3. NotesInv
  BY <1>1 DEF NotesInv, SoundNote, NoFile, DraftsAssumption
<1>4. DraftsInv /\ Unique(drafts)
  BY <1>1 DEF DraftsInv, Unique, Exists
<1>5. IntentsInv /\ SavesInv /\ OneAtATime
  BY <1>1 DEF IntentsInv, SoundIntent, SavesInv, Saving, OneAtATime, BlankIntent
<1>6. OutcomesInv
  BY <1>1 DEF OutcomesInv, SoundOutcome, BlankIntent, NoOperation
<1>7. ViewsInv
  BY <1>1 DEF ViewsInv, Current, Closed
<1> QED
  BY <1>2, <1>3, <1>4, <1>5, <1>6, <1>7 DEF DraftInv

\* The invariant from which the properties of the drafts follow: every draft was
\* typed over its base, every prepared save still stands for the draft's text or
\* for text it was typed over, and the intents agree with the journal of the vault.
THEOREM DraftsInvariant == DraftingSpec => []DraftInv
<1>1. DraftingInit => DraftInv
  BY DraftsInit, DraftsAssumption
<1>2. DraftInv /\ [DraftingNext]_draftingVars => DraftInv'
  BY NextMoves, StutterMoves, MoveKeeps, DraftsAssumption
<1> QED
  BY <1>1, <1>2, PTL DEF DraftingSpec

\* A draft that mobile_drafts.rs shows as saved has its text in the vault: a
\* receipt acknowledges the generation that was frozen, never what was typed since.
THEOREM SavedMeansStoredHolds == DraftingSpec => []SavedMeansStored
<1>1. DraftInv => SavedMeansStored
  BY DEF DraftInv, DraftsInv, SoundDraft, SavedMeansStored, Dirty
<1> QED
  BY <1>1, DraftsInvariant, PTL

\* No step takes the text of a draft away: what the draft holds was typed over it,
\* or it is in the vault, or the user discarded it, however late the receipts of
\* observe_save and observe_mutation come.
THEOREM TextsSurviveHolds == DraftingSpec => TextsSurvive
<1> DEFINE Survives == \A d \in DraftIds : Exists(d) =>
              LET t == drafts[d].text IN
              \/ t \in written' \cup dropped'
              \/ IF drafts'[d] = None THEN FALSE
                 ELSE t \in {drafts'[d].text} \cup from'[drafts'[d].text]
<1>1. DraftInv /\ [DraftingNext]_draftingVars => [Survives]_draftingVars
  BY NextMoves, StutterMoves, MoveSurvives, DraftsAssumption
<1> QED
  BY <1>1, DraftsInvariant, PTL DEF DraftingSpec, TextsSurvive

\* No step replaces the text of a note by one that was not typed over it: a save is
\* accepted, and recovered, only over the version its author had in the editor.
THEOREM NoSilentOverwriteHolds == DraftingSpec => NoSilentOverwrite
<1> DEFINE Knows == \A f \in FileIds : vault[f].live /\ vault'[f].live =>
              vault[f].text \in {vault'[f].text} \cup from'[vault'[f].text]
<1>1. DraftInv /\ [DraftingNext]_draftingVars => [Knows]_draftingVars
  BY NextMoves, StutterMoves, DraftsAssumption DEF DraftMove, NotesStep, NoteStep
<1> QED
  BY <1>1, DraftsInvariant, PTL DEF DraftingSpec, NoSilentOverwrite

\* An intent that is cancelled or rejected is never carried out; one that is
\* committed was, or is an image that the vault had already: whenever cancel_save,
\* apply_save, apply_image and recover meet.
THEOREM IntentsTellTheTruthHolds == DraftingSpec => []IntentsTellTheTruth
<1>1. DraftInv => IntentsTellTheTruth
  BY DEF DraftInv, OutcomesInv, IntentsTellTheTruth, SoundOutcome
<1> QED
  BY <1>1, DraftsInvariant, PTL

\* A set with at most one element
LEMMA AtMostOne ==
    ASSUME NEW S, \A a, b \in S : a = b
    PROVE  Cardinality(S) <= 1
<1>1. CASE S = {}
  BY <1>1, FS_EmptySet
<1>2. CASE S # {}
  <2>1. PICK a \in S : TRUE
    BY <1>2
  <2>2. S = {a}
    BY <2>1
  <2> QED
    BY <2>2, FS_Singleton
<1> QED
  BY <1>1, <1>2

\* The unique columns and the partial indexes of the database are kept: one draft
\* for each path and each file, one prepared intent for each draft and each file.
THEOREM DraftsTypeOK == DraftingSpec => []DraftTypeOK
<1>1. DraftInv => DraftTypeOK
  <2> SUFFICES ASSUME DraftInv PROVE DraftTypeOK
    OBVIOUS
  <2>1. DraftTypes /\ DraftsInv /\ OneAtATime /\ Unique(drafts)
    BY DEF DraftInv
  <2>2. ASSUME NEW d \in DraftIds, Exists(d)
        PROVE  /\ drafts[d].path \in Paths /\ drafts[d].file \in FileIds \cup {None}
               /\ drafts[d].saved <= drafts[d].gen /\ drafts[d].session \in Views
               /\ Cardinality(PendingSave(d) \cup PendingImage(d)) <= 1
    <3>1. \A a, b \in PendingSave(d) \cup PendingImage(d) : a = b
      BY <2>1 DEF OneAtATime, Clash, PendingSave, PendingImage, Prepared
    <3> QED
      BY <2>1, <2>2, <3>1, AtMostOne, RowIs DEF DraftsInv, SoundDraft
  <2>3. ASSUME NEW f \in FileIds PROVE Cardinality(PendingMutation(f)) <= 1
    <3>1. \A a, b \in PendingMutation(f) : a = b
      BY <2>1 DEF OneAtATime, Clash, PendingMutation, Prepared
    <3> QED
      BY <3>1, AtMostOne
  <2>4. ASSUME NEW op \in IntentIds
        PROVE  /\ frozen[op].state \in {"none", "prepared", "committed", "rejected", "cancelled"}
               /\ operations[op].state \in {"none", "pending", "committed", "conflict"}
    BY <2>1, IntentIs DEF DraftTypes, Journalled
  <2> QED
    BY <2>1, <2>2, <2>3, <2>4 DEF DraftTypeOK
<1> QED
  BY <1>1, DraftsInvariant, PTL
=============================================================================

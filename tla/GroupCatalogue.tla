--------------------------- MODULE GroupCatalogue ---------------------------
(***************************************************************************)
(* What the extension store promises about its pointers: the packages a    *)
(* vault uses change by whole offered groups, over the packages the offer  *)
(* was made for, each group at most once, or by removing one package.      *)
(* Nothing a health check, a failure or a restart does is visible here.    *)
(***************************************************************************)
CONSTANTS Slots, Packages, SlotOf, Ops, NoPackage, NoGroup

VARIABLES
    live,        \* the package every slot uses, or NoPackage
    group        \* the group offered under an operation id, and its fate

Targets == {to \in UNION {[D -> Packages] : D \in SUBSET Slots} :
              DOMAIN to # {} /\ \A s \in DOMAIN to : SlotOf[to[s]] = s}

\* An earlier session may have left any packages, each in its own slot.
Init ==
    /\ live \in [Slots -> Packages \cup {NoPackage}]
    /\ \A s \in Slots : live[s] = NoPackage \/ SlotOf[live[s]] = s
    /\ group = [op \in Ops |-> NoGroup]

Offer(op) ==
    /\ group[op] = NoGroup
    /\ \E to \in Targets :
         group' = [group EXCEPT ![op] =
                     [to |-> to, base |-> [s \in DOMAIN to |-> live[s]], state |-> "offered"]]
    /\ UNCHANGED live

Install(op) ==
    /\ group[op] # NoGroup /\ group[op].state = "offered"
    /\ \A s \in DOMAIN group[op].to : live[s] = group[op].base[s]
    /\ live' = [s \in Slots |-> IF s \in DOMAIN group[op].to THEN group[op].to[s] ELSE live[s]]
    /\ group' = [group EXCEPT ![op].state = "installed"]

Drop(ops) ==
    /\ \A op \in ops : group[op] # NoGroup /\ group[op].state = "offered"
    /\ group' = [op \in Ops |-> IF op \in ops THEN [group[op] EXCEPT !.state = "dropped"]
                                ELSE group[op]]
    /\ UNCHANGED live

Remove(s) ==
    /\ live[s] # NoPackage
    /\ live' = [live EXCEPT ![s] = NoPackage]
    /\ UNCHANGED group

Next ==
    \/ \E op \in Ops : Offer(op) \/ Install(op)
    \/ \E ops \in SUBSET Ops : Drop(ops)
    \/ \E s \in Slots : Remove(s)

Spec == Init /\ [][Next]_<<live, group>>
=============================================================================

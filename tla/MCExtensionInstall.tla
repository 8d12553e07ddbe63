------------------------ MODULE MCExtensionInstall ------------------------
(* One program with two releases; the newer one needs a declarative        *)
(* package of the other slot.                                              *)
EXTENDS ExtensionInstall, TLC

CONSTANTS s1, s2, a1, a2, b1

MCSlotOf == a1 :> s1 @@ a2 :> s1 @@ b1 :> s2
MCVersion == a1 :> 1 @@ a2 :> 2 @@ b1 :> 1
MCNeeds == a1 :> {} @@ a2 :> {s2} @@ b1 :> {}
MCAccepts == {<<a2, b1>>}
Symmetry == Permutations(Ids) \cup Permutations(Ops)
=============================================================================

---------------------------- MODULE MCSyncEngine ----------------------------
(* TLC instances of SyncEngine. *)
EXTENDS SyncEngine, TLC

SymmetricContents == Permutations(Contents)
=============================================================================

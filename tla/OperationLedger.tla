--------------------------- MODULE OperationLedger ---------------------------
(***************************************************************************)
(* What the journal promises its callers, without the vault, the database  *)
(* or the steps in between: an operation id is accepted once, is settled   *)
(* once, never changes after that, and is queued for upload at the moment  *)
(* it commits if and only if it is local.                                  *)
(***************************************************************************)
CONSTANT Ops

VARIABLES
    status,   \* state of each operation id
    origin,   \* origin of each accepted operation
    uploads   \* operations queued for upload

ledger == <<status, origin, uploads>>

LedgerInit ==
    /\ status = [op \in Ops |-> "none"]
    /\ origin = [op \in Ops |-> "local"]
    /\ uploads = {}

Accept(op, o) ==
    /\ status[op] = "none"
    /\ status' = [status EXCEPT ![op] = "pending"]
    /\ origin' = [origin EXCEPT ![op] = o]
    /\ UNCHANGED uploads

Commit(op) ==
    /\ status[op] = "pending"
    /\ status' = [status EXCEPT ![op] = "committed"]
    /\ uploads' = IF origin[op] = "local" THEN uploads \cup {op} ELSE uploads
    /\ UNCHANGED origin

Reject(op) ==
    /\ status[op] = "pending"
    /\ status' = [status EXCEPT ![op] = "conflict"]
    /\ UNCHANGED <<origin, uploads>>

LedgerNext ==
    \E op \in Ops :
        \/ \E o \in {"local", "remote"} : Accept(op, o)
        \/ Commit(op)
        \/ Reject(op)

LedgerSpec == LedgerInit /\ [][LedgerNext]_ledger
=============================================================================

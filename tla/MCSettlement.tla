---------------------------- MODULE MCSettlement ----------------------------
(* Instances of Settlement for TLC. *)
EXTENDS Settlement, TLC

CONSTANTS customer, operator

(* The customer daemon requests every job and the operator executes it. *)
MCRequester == [r \in Receipts |-> customer]
MCWorker    == [r \in Receipts |-> operator]

(* The receipts of one worker name the same wallet. *)
MCWallet    == MCWorker

(* All receipts have the same requester, worker and wallet. *)
Symmetry == Permutations(Hashes) \cup Permutations(Receipts)
=============================================================================

-------------------------- MODULE SettlementLedger --------------------------
(***************************************************************************)
(* What settlement promises, without the loop that does it: one account    *)
(* per payer and receipt.  An account is opened once, is ordered with a    *)
(* transaction, and is closed by the outcome of that transaction; a closed *)
(* account never changes again.  A payment that was not ordered            *)
(* successfully is simply still due.  The transaction is the account's own *)
(* unless the chain forgets transactions: then a payer may be handed, for  *)
(* another payment to the same payee, the order it still waits for.        *)
(***************************************************************************)
EXTENDS Naturals

CONSTANTS Payers, Items, Orders, NoOrder,
          Payee,     (* Payee[i]: to whom item i is paid                     *)
          Reissues   (* may a forgotten transaction be issued once more?     *)

VARIABLES account,   (* account[p][i] \in AccountState                       *)
          order      (* order[p][i]: the transaction ordered for the item    *)

ledgerVars == <<account, order>>

AccountState == {"none", "due", "ordered", "paid", "refused"}

LInit ==
    /\ account = [p \in Payers |-> [i \in Items |-> "none"]]
    /\ order = [p \in Payers |-> [i \in Items |-> NoOrder]]

(* One log append may open the accounts of several items of a payer. *)
Open(p) ==
    \E I \in SUBSET Items :
        /\ \A i \in I : account[p][i] = "none"
        /\ account' = [account EXCEPT ![p] =
                          [i \in Items |-> IF i \in I THEN "due" ELSE @[i]]]
        /\ UNCHANGED order

(* An account with the same transaction exists only if that was reissued,   *)
(* and it is one of the same payer for the same payee that is still open.   *)
Order(p, i, o) ==
    /\ account[p][i] = "due"
    /\ \A q \in Payers, k \in Items : order[q][k] = o =>
          Reissues /\ q = p /\ Payee[k] = Payee[i] /\ account[q][k] = "ordered"
    /\ account' = [account EXCEPT ![p][i] = "ordered"]
    /\ order' = [order EXCEPT ![p][i] = o]

(* Accounts with the same transaction are closed alike. *)
Close(p, i) ==
    /\ account[p][i] = "ordered"
    /\ \E outcome \in {"paid", "refused"} :
          /\ \A k \in Items : order[p][k] = order[p][i]
                => account[p][k] \in {"ordered", outcome}
          /\ account' = [account EXCEPT ![p][i] = outcome]
    /\ UNCHANGED order

LNext ==
    \E p \in Payers :
        \/ Open(p)
        \/ \E i \in Items : Close(p, i) \/ \E o \in Orders : Order(p, i, o)

LSpec == LInit /\ [][LNext]_ledgerVars
=============================================================================

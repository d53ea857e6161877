----------------------------- MODULE MCAxlNode -----------------------------
(* The instance of AxlNode for TLC: three messages for the queue, of which  *)
(* one may overflow it (the third is of a call that waits in vain), and one *)
(* for a stream that wants an answer.  Two applications poll the queue.     *)
(* The one slot makes every second connection find the limit reached; the   *)
(* theorems hold for any number of slots.                                   *)
EXTENDS AxlNode
=============================================================================

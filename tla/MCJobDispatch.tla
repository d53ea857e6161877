--------------------------- MODULE MCJobDispatch ---------------------------
(* Instances of JobDispatch for TLC. *)
EXTENDS JobDispatch

CONSTANTS alice, bob, a, b

(* Two daemons that work for each other. *)
MCRequester == [j \in Jobs |-> IF j = a THEN alice ELSE bob]
MCWorkers   == [j \in Jobs |-> Daemons \ {MCRequester[j]}]
=============================================================================

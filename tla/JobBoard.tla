------------------------------ MODULE JobBoard ------------------------------
(***************************************************************************)
(* What job dispatch promises, without the messages: a submitted job runs  *)
(* until it is completed or abandoned, and stays so.  The work is done at  *)
(* most once, only for a submitted job, and before the job is completed;   *)
(* the work for an abandoned job may still be done, in vain.               *)
(***************************************************************************)
EXTENDS Naturals

CONSTANT Jobs

VARIABLES status,  (* status[j] as the requester's client sees it           *)
          work     (* work[j]: how often the job was executed successfully  *)

boardVars == <<status, work>>

BInit ==
    /\ status = [j \in Jobs |-> "none"]
    /\ work = [j \in Jobs |-> 0]

Submit(j) ==
    /\ status[j] = "none"
    /\ status' = [status EXCEPT ![j] = "running"]
    /\ UNCHANGED work

Work(j) ==
    /\ status[j] # "none"
    /\ work[j] = 0
    /\ work' = [work EXCEPT ![j] = 1]
    /\ UNCHANGED status

Complete(j) ==
    /\ status[j] = "running"
    /\ work[j] = 1
    /\ status' = [status EXCEPT ![j] = "completed"]
    /\ UNCHANGED work

(* A crash of a requester abandons all its running jobs at once. *)
Abandon(J) ==
    /\ \A j \in J : status[j] = "running"
    /\ status' = [j \in Jobs |-> IF j \in J THEN "abandoned" ELSE status[j]]
    /\ UNCHANGED work

BNext ==
    \/ \E j \in Jobs : Submit(j) \/ Work(j) \/ Complete(j)
    \/ \E J \in SUBSET Jobs : Abandon(J)

BSpec == BInit /\ [][BNext]_boardVars
=============================================================================

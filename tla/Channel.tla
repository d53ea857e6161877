------------------------------ MODULE Channel ------------------------------
(***************************************************************************)
(* What the AXL node promises for POST /send and GET /recv: a message that *)
(* was sent is handed to the application at most once, and only if its     *)
(* sender finished writing it.  It may never be handed over, and nothing   *)
(* is said about the order of messages sent on different connections.      *)
(***************************************************************************)
EXTENDS Naturals

CONSTANT Messages

VARIABLES sent,   (* messages whose sender has finished writing them       *)
          handed  (* handed[m]: how often GET /recv returned m             *)

channelVars == <<sent, handed>>

CInit ==
    /\ sent = {}
    /\ handed = [m \in Messages |-> 0]

Send(m) ==
    /\ m \in Messages \ sent
    /\ sent' = sent \cup {m}
    /\ UNCHANGED handed

Hand(m) ==
    /\ m \in sent
    /\ handed[m] = 0
    /\ handed' = [handed EXCEPT ![m] = 1]
    /\ UNCHANGED sent

CNext == \E m \in Messages : Send(m) \/ Hand(m)

CSpec == CInit /\ [][CNext]_channelVars
=============================================================================

---------------------------- MODULE MCNodeNexus ----------------------------
(* The instance of NodeNexus for TLC. *)
EXTENDS NodeNexus
=============================================================================

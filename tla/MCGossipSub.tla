---------------------------- MODULE MCGossipSub ----------------------------
(* The instance of GossipSub for TLC: nodes differ in nothing but their name. *)
EXTENDS GossipSub, TLC

NodeSymmetry == Permutations(Nodes) \cup Permutations(Messages)
=============================================================================

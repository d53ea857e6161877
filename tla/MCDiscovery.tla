---------------------------- MODULE MCDiscovery ----------------------------
(* Instances of Discovery for TLC. *)
EXTENDS Discovery

CONSTANTS a, b, c

(* b stands between a and c. *)
MCPeers ==
    [d \in Daemons |-> (IF d = b THEN {a, c} ELSE {b}) \cap Daemons]
=============================================================================

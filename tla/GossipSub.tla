----------------------------- MODULE GossipSub -----------------------------
(***************************************************************************)
(* The GossipSub example (src/examples/python-client/gossipsub): nodes     *)
(* that keep a mesh per topic, push a new message to one member of it,     *)
(* announce it to the others with IHAVE and answer IWANT from a cache that *)
(* is never emptied.  One topic, to which every node subscribes; every     *)
(* node has every other as a peer.  net is what is in flight, in any       *)
(* order; equal messages in flight are one.                                *)
(***************************************************************************)
EXTENDS Integers, FiniteSets

CONSTANTS Nodes,             (* the nodes                                 *)
          Messages,          (* ids that can be published                 *)
          D, DLow, DHigh,    (* GossipConfig: target and bounds of a mesh *)
          DGossip,           (* peers outside the mesh told per heartbeat *)
          MaxWanted,         (* ids in one IWANT, 64 in the code          *)
          MaxInFlight,       (* bound: messages in flight when a node
                                publishes or its heartbeat runs           *)
          MaxBeats,          (* bound: heartbeats                         *)
          MaxLosses          (* bound: messages lost                      *)

ASSUME ConfigAssumption == /\ D \in Nat /\ DHigh \in Nat /\ DLow \in Nat
                           /\ DGossip \in Nat /\ MaxWanted \in Nat /\ MaxInFlight \in Nat
                           /\ DLow <= D /\ D <= DHigh
                           /\ IsFiniteSet(Nodes)

VARIABLES mesh,              (* mesh[n]: its mesh for the topic           *)
          seen,              (* seen[n]: seen_msgs, the keys of msg_cache *)
          pending,           (* pending[n]: _pending_iwant                *)
          publisher,         (* publisher[m]: {}, or the origin of m      *)
          net,               (* messages in flight                        *)
          lost,              (* <<n, m>>: m was lost on its way to n, or n's
                                request for it was                        *)
          cut,               (* <<n, m>>: m did not fit into n's IWANT    *)
          beats, losses      (* heartbeats, losses                        *)

vars == <<mesh, seen, pending, publisher, net, lost, cut, beats, losses>>
bounds == <<beats, losses>>

(* Mutant: every node of the list is added as a peer. *)
PeersAndItself(n) == Nodes

(* peers: every other node. *)
Peers(n) == Nodes \ {n}

Packet == [kind : {"MESSAGE", "IHAVE", "IWANT"}, from : Nodes, to : Nodes, ids : SUBSET Messages]
          \cup [kind : {"GRAFT", "PRUNE"}, from : Nodes, to : Nodes, ids : {{}}]

(* _send and _send_ihave. *)
ToAll(n, kind, peers, ids) == {[kind |-> kind, from |-> n, to |-> p, ids |-> ids] : p \in peers}

Init == /\ mesh = [n \in Nodes |-> {}]
        /\ seen = [n \in Nodes |-> {}]
        /\ pending = [n \in Nodes |-> {}]
        /\ publisher = [m \in Messages |-> {}]
        /\ net = {} /\ lost = {} /\ cut = {}
        /\ beats = 0 /\ losses = 0

(* publish: to the mesh, or to every peer while the mesh is empty. *)
Publish(n, m) ==
    /\ publisher[m] = {} /\ Cardinality(net) <= MaxInFlight
    /\ publisher' = [publisher EXCEPT ![m] = {n}]
    /\ seen' = [seen EXCEPT ![n] = @ \cup {m}]
    /\ net' = net \cup ToAll(n, "MESSAGE", IF mesh[n] = {} THEN Peers(n) ELSE mesh[n], {m})
    /\ UNCHANGED <<mesh, pending, lost, cut, bounds>>

(* _handle_message for a message that was seen before. *)
Duplicate(p) == /\ p.kind = "MESSAGE" /\ p.ids \subseteq seen[p.to]
                /\ net' = net \ {p}
                /\ UNCHANGED <<mesh, seen, pending, publisher, lost, cut, bounds>>

(* Lazy-first: one member of the mesh gets the message, the others IHAVE. *)
Forwards(n, ids, candidates) ==
    IF candidates = {} THEN {{}}
    ELSE {ToAll(n, "MESSAGE", {c}, ids) \cup ToAll(n, "IHAVE", candidates \ {c}, ids) : c \in candidates}

(* _handle_message for a new one; not back to its sender or origin. *)
Deliver(p) ==
    /\ p.kind = "MESSAGE" /\ ~(p.ids \subseteq seen[p.to])
    /\ seen' = [seen EXCEPT ![p.to] = @ \cup p.ids]
    /\ \E out \in Forwards(p.to, p.ids,
                           mesh[p.to] \ ({p.from} \cup UNION {publisher[m] : m \in p.ids})) :
           net' = (net \ {p}) \cup out
    /\ UNCHANGED <<mesh, pending, publisher, lost, cut, bounds>>

(* Mutant: the test against the lower bound is the one that protects a mesh. *)
HandleGraftAlways(p) ==
    /\ p.kind = "GRAFT"
    /\ mesh' = [mesh EXCEPT ![p.to] = @ \cup {p.from}]
    /\ net' = net \ {p}
    /\ UNCHANGED <<seen, pending, publisher, lost, cut, bounds>>

(* _handle_graft: a full mesh answers PRUNE, also to one of its members. *)
HandleGraft(p) ==
    /\ p.kind = "GRAFT"
    /\ IF Cardinality(mesh[p.to]) < DHigh
       THEN /\ mesh' = [mesh EXCEPT ![p.to] = @ \cup {p.from}]
            /\ net' = net \ {p}
       ELSE /\ mesh' = mesh
            /\ net' = (net \ {p}) \cup ToAll(p.to, "PRUNE", {p.from}, {})
    /\ UNCHANGED <<seen, pending, publisher, lost, cut, bounds>>

HandlePrune(p) == /\ p.kind = "PRUNE"
                  /\ mesh' = [mesh EXCEPT ![p.to] = @ \ {p.from}]
                  /\ net' = net \ {p}
                  /\ UNCHANGED <<seen, pending, publisher, lost, cut, bounds>>

(* Mutant: the announcer is asked for whatever is still missing. *)
HandleIHaveOfPending(p) ==
    LET wanted == (p.ids \cup pending[p.to]) \ seen[p.to]
    IN  /\ p.kind = "IHAVE"
        /\ pending' = [pending EXCEPT ![p.to] = @ \cup wanted]
        /\ net' = (net \ {p}) \cup (IF wanted = {} THEN {} ELSE ToAll(p.to, "IWANT", {p.from}, wanted))
        /\ UNCHANGED <<mesh, seen, publisher, lost, cut, bounds>>

(* _handle_ihave: whatever is wanted becomes pending, the first MaxWanted ids
   are requested. *)
HandleIHave(p) ==
    LET n == p.to
        wanted == p.ids \ (seen[n] \cup pending[n])
    IN  /\ p.kind = "IHAVE"
        /\ pending' = [pending EXCEPT ![n] = @ \cup wanted]
        /\ \E asked \in SUBSET wanted :
               /\ Cardinality(asked) = IF Cardinality(wanted) < MaxWanted
                                       THEN Cardinality(wanted) ELSE MaxWanted
               /\ net' = (net \ {p}) \cup (IF wanted = {} THEN {} ELSE ToAll(n, "IWANT", {p.from}, asked))
               /\ cut' = cut \cup ({n} \X (wanted \ asked))
        /\ UNCHANGED <<mesh, seen, publisher, lost, bounds>>

(* Mutant: only what the node has published itself is answered. *)
HandleIWantOfOwn(p) ==
    /\ p.kind = "IWANT"
    /\ net' = (net \ {p}) \cup UNION {ToAll(p.to, "MESSAGE", {p.from}, {m}) :
                                      m \in {i \in p.ids : publisher[i] = {p.to}}}
    /\ UNCHANGED <<mesh, seen, pending, publisher, lost, cut, bounds>>

(* _handle_iwant: what is in the cache. *)
HandleIWant(p) ==
    /\ p.kind = "IWANT"
    /\ net' = (net \ {p}) \cup UNION {ToAll(p.to, "MESSAGE", {p.from}, {m}) : m \in p.ids \cap seen[p.to]}
    /\ UNCHANGED <<mesh, seen, pending, publisher, lost, cut, bounds>>

(* _maintain_mesh: the meshes it may leave. *)
Maintained(n) ==
    LET size == Cardinality(mesh[n]) IN
    IF size < DLow
    THEN {mesh[n] \cup new : new \in
              {s \in SUBSET (Peers(n) \ mesh[n]) :
                   Cardinality(s) = IF Cardinality(Peers(n) \ mesh[n]) < D - size
                                    THEN Cardinality(Peers(n) \ mesh[n]) ELSE D - size}}
    ELSE IF size > DHigh THEN {s \in SUBSET mesh[n] : Cardinality(s) = D}
    ELSE {mesh[n]}

(* _emit_gossip: the sets of peers outside the mesh it may tell. *)
Told(n, members) ==
    IF seen[n] = {} THEN {{}}
    ELSE LET others == Peers(n) \ members IN
         {s \in SUBSET others :
              Cardinality(s) = IF Cardinality(others) < DGossip THEN Cardinality(others) ELSE DGossip}

(* _heartbeat. *)
Heartbeat(n) ==
    /\ beats < MaxBeats /\ Cardinality(net) <= MaxInFlight
    /\ beats' = beats + 1
    /\ \E members \in Maintained(n) : \E told \in Told(n, members) :
           /\ mesh' = [mesh EXCEPT ![n] = members]
           /\ net' = net \cup ToAll(n, "GRAFT", members \ mesh[n], {})
                         \cup ToAll(n, "PRUNE", mesh[n] \ members, {})
                         \cup ToAll(n, "IHAVE", told, seen[n])
    /\ UNCHANGED <<seen, pending, publisher, lost, cut, losses>>

(* _send fails, or the transport loses a packet. *)
Lose(p) == /\ losses < MaxLosses
           /\ losses' = losses + 1
           /\ net' = net \ {p}
           /\ lost' = lost \cup (IF p.kind = "MESSAGE" THEN {p.to} \X p.ids
                                 ELSE IF p.kind = "IWANT" THEN {p.from} \X p.ids ELSE {})
           /\ UNCHANGED <<mesh, seen, pending, publisher, cut, beats>>

Handle(p) == \/ Duplicate(p) \/ Deliver(p) \/ HandleGraft(p) \/ HandlePrune(p)
             \/ HandleIHave(p) \/ HandleIWant(p)

Next == \/ \E n \in Nodes, m \in Messages : Publish(n, m)
        \/ \E p \in net : Handle(p) \/ Lose(p)
        \/ \E n \in Nodes : Heartbeat(n)

Spec == Init /\ [][Next]_vars

(***************************************************************************)
(* Properties.                                                             *)
(***************************************************************************)

(* Every variable has its type; no node is in its own mesh or sends to
   itself. *)
TypeOK == /\ mesh \in [Nodes -> SUBSET Nodes]
          /\ \A n \in Nodes : n \notin mesh[n]
          /\ seen \in [Nodes -> SUBSET Messages]
          /\ pending \in [Nodes -> SUBSET Messages]
          /\ publisher \in [Messages -> SUBSET Nodes]
          /\ net \in SUBSET Packet
          /\ \A p \in net : p.from # p.to
          /\ lost \in SUBSET (Nodes \X Messages)
          /\ cut \in SUBSET (Nodes \X Messages)
          /\ beats \in Nat /\ losses \in Nat

(* Grafts of others and grafts of its own together never fill a mesh beyond
   DHigh, so the pruning branch of the heartbeat is never taken. *)
MeshBounded == \A n \in Nodes : Cardinality(mesh[n]) <= DHigh

(* What is announced, requested or sent is in the cache of the node that is
   to supply it. *)
SupplierHasIt ==
    \A p \in net : /\ p.kind \in {"MESSAGE", "IHAVE"} => p.ids \subseteq seen[p.from]
                   /\ p.kind = "IWANT" => p.ids \subseteq seen[p.to]

(* A message is requested once.  A node that waits for one it has asked for
   has its request or the answer in flight, unless one of them was lost or
   the id was cut off an IWANT that was full. *)
StuckOnlyAfterLoss ==
    \A n \in Nodes : \A m \in pending[n] \ seen[n] :
        \/ \E p \in net : \/ p.kind = "IWANT" /\ p.from = n /\ m \in p.ids
                          \/ p.kind = "MESSAGE" /\ p.to = n /\ m \in p.ids
        \/ <<n, m>> \in lost \cup cut
=============================================================================

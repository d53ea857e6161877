-------------------------- MODULE GossipSubProofs --------------------------
(***************************************************************************)
(* TLAPS proofs about GossipSub for any finite set of nodes, any set of    *)
(* messages and any configuration, and for any number of heartbeats and of *)
(* losses.  The inductive invariant is the conjunction of three of the     *)
(* properties: a message that is waited for is under way because an IWANT  *)
(* goes only to a node that has what is asked for.  The size of meshes is  *)
(* a matter of its own.                                                    *)
(***************************************************************************)
EXTENDS GossipSub, FiniteSetTheorems, TLAPS

Inv == TypeOK /\ SupplierHasIt /\ StuckOnlyAfterLoss

(* Packets of one kind to several peers. *)
LEMMA ToAllShape ==
    ASSUME NEW n, NEW kind, NEW peers, NEW ids
    PROVE  /\ \A q \in ToAll(n, kind, peers, ids) :
                  q.kind = kind /\ q.from = n /\ q.to \in peers /\ q.ids = ids
           /\ \A c \in peers : \E q \in ToAll(n, kind, peers, ids) :
                  q.kind = kind /\ q.from = n /\ q.to = c /\ q.ids = ids
<1> DEFINE Copy(c) == [kind |-> kind, from |-> n, to |-> c, ids |-> ids]
<1>1. \A c \in peers :
          Copy(c).kind = kind /\ Copy(c).from = n /\ Copy(c).to = c /\ Copy(c).ids = ids
  OBVIOUS
<1>2. ToAll(n, kind, peers, ids) = {Copy(c) : c \in peers} BY DEF ToAll
<1> HIDE DEF Copy
<1> QED BY <1>1, <1>2

LEMMA ToAllType ==
    ASSUME NEW n \in Nodes, NEW kind, NEW peers \in SUBSET (Nodes \ {n}), NEW ids \in SUBSET Messages,
           kind \in {"MESSAGE", "IHAVE", "IWANT"} \/ (kind \in {"GRAFT", "PRUNE"} /\ ids = {})
    PROVE  /\ ToAll(n, kind, peers, ids) \subseteq Packet
           /\ \A q \in ToAll(n, kind, peers, ids) : q.from # q.to
<1>1. ASSUME NEW c \in peers
      PROVE  [kind |-> kind, from |-> n, to |-> c, ids |-> ids] \in Packet
  BY DEF Packet
<1> QED BY <1>1 DEF ToAll

LEMMA PacketShape ==
    ASSUME NEW p \in Packet
    PROVE  p.from \in Nodes /\ p.to \in Nodes /\ p.ids \in SUBSET Messages
BY DEF Packet

LEMMA InitInv == Init => Inv
BY DEF Init, Inv, TypeOK, SupplierHasIt, StuckOnlyAfterLoss

(* What a packet may be for the invariant to hold once it is in flight. *)
Sound(q) == /\ q \in Packet /\ q.from # q.to
            /\ q.kind \in {"MESSAGE", "IHAVE"} => q.ids \subseteq seen[q.from]
            /\ q.kind = "IWANT" => q.ids \subseteq seen[q.to]

(* Packets are added that are sound after the step, at most one is taken out:
   the invariant holds if whoever waited for what it carried still does. *)
LEMMA NetInv ==
    ASSUME Inv, NEW gone \in SUBSET net, NEW new, net' = (net \ gone) \cup new,
           \A q \in new : Sound(q)',
           seen' \in [Nodes -> SUBSET Messages], \A n \in Nodes : seen[n] \subseteq seen'[n]
    PROVE  /\ net' \in SUBSET Packet /\ \A q \in net' : q.from # q.to
           /\ SupplierHasIt'
<1>1. ASSUME NEW q \in net' PROVE Sound(q)'
  <2>1. CASE q \in new BY <2>1
  <2>2. CASE q \in net
    BY <2>2, PacketShape DEF Sound, Inv, TypeOK, SupplierHasIt
  <2> QED BY <2>1, <2>2
<1> QED BY <1>1 DEF Sound, SupplierHasIt

LEMMA PublishInv ==
    ASSUME Inv, NEW n \in Nodes, NEW m \in Messages, Publish(n, m)
    PROVE  Inv'
<1> DEFINE peers == IF mesh[n] = {} THEN Peers(n) ELSE mesh[n]
           new == ToAll(n, "MESSAGE", peers, {m})
<1>0. TypeOK BY DEF Inv
<1>1. peers \in SUBSET (Nodes \ {n}) BY <1>0 DEF TypeOK, Peers
<1>2. net' = (net \ {}) \cup new BY DEF Publish
<1>3. /\ seen' \in [Nodes -> SUBSET Messages] /\ \A k \in Nodes : seen[k] \subseteq seen'[k]
      /\ m \in seen'[n]
  BY <1>0 DEF Publish, TypeOK
<1>4. \A q \in new : Sound(q)' BY <1>1, <1>3, ToAllShape, ToAllType DEF Sound
<1> HIDE DEF new
<1>5. net' \in SUBSET Packet /\ (\A q \in net' : q.from # q.to) /\ SupplierHasIt'
  BY <1>2, <1>3, <1>4, NetInv
<1>6. TypeOK' BY <1>0, <1>3, <1>5 DEF Publish, TypeOK, bounds
<1>7. StuckOnlyAfterLoss' BY <1>0, <1>2, <1>3 DEF Publish, TypeOK, Inv, StuckOnlyAfterLoss
<1> QED BY <1>5, <1>6, <1>7 DEF Inv

LEMMA DuplicateInv ==
    ASSUME Inv, NEW p \in net, Duplicate(p)
    PROVE  Inv'
<1>0. TypeOK /\ p \in Packet BY DEF Inv, TypeOK
<1>1. p.to \in Nodes BY <1>0, PacketShape
<1>2. TypeOK' /\ SupplierHasIt' BY <1>0 DEF Inv, Duplicate, TypeOK, SupplierHasIt, bounds
<1>3. StuckOnlyAfterLoss' BY <1>0, <1>1 DEF Inv, Duplicate, StuckOnlyAfterLoss
<1> QED BY <1>2, <1>3 DEF Inv

LEMMA DeliverInv ==
    ASSUME Inv, NEW p \in net, Deliver(p)
    PROVE  Inv'
<1> DEFINE n == p.to
           candidates == mesh[n] \ ({p.from} \cup UNION {publisher[m] : m \in p.ids})
<1>0. TypeOK /\ p \in Packet BY DEF Inv, TypeOK
<1>1. n \in Nodes /\ p.ids \in SUBSET Messages /\ p.kind = "MESSAGE" BY <1>0, PacketShape DEF Deliver
<1>2. candidates \in SUBSET (Nodes \ {n}) BY <1>0, <1>1 DEF TypeOK
<1>3. /\ seen' \in [Nodes -> SUBSET Messages] /\ \A k \in Nodes : seen[k] \subseteq seen'[k]
      /\ p.ids \subseteq seen'[n]
  BY <1>0, <1>1 DEF Deliver, TypeOK
<1>4. PICK out \in Forwards(n, p.ids, candidates) : net' = (net \ {p}) \cup out
  BY DEF Deliver
<1>5. \A q \in out : Sound(q)'
  <2>1. CASE out = {} BY <2>1
  <2>2. ASSUME NEW c \in candidates,
               out = ToAll(n, "MESSAGE", {c}, p.ids) \cup ToAll(n, "IHAVE", candidates \ {c}, p.ids)
        PROVE  \A q \in out : Sound(q)'
    <3>1. {c} \in SUBSET (Nodes \ {n}) /\ candidates \ {c} \in SUBSET (Nodes \ {n}) BY <1>2
    <3>2. \A q \in ToAll(n, "MESSAGE", {c}, p.ids) : Sound(q)'
      BY <1>1, <1>3, <3>1, ToAllShape, ToAllType DEF Sound
    <3>3. \A q \in ToAll(n, "IHAVE", candidates \ {c}, p.ids) : Sound(q)'
      BY <1>1, <1>3, <3>1, ToAllShape, ToAllType DEF Sound
    <3> QED BY <2>2, <3>2, <3>3
  <2> QED BY <1>4, <2>1, <2>2 DEF Forwards
<1>6. net' \in SUBSET Packet /\ (\A q \in net' : q.from # q.to) /\ SupplierHasIt'
  BY <1>3, <1>4, <1>5, NetInv
<1>7. TypeOK' BY <1>0, <1>3, <1>6 DEF Deliver, TypeOK, bounds
<1>8. StuckOnlyAfterLoss' BY <1>0, <1>1, <1>3, <1>4 DEF Deliver, Inv, StuckOnlyAfterLoss
<1> QED BY <1>6, <1>7, <1>8 DEF Inv

(* The messages about the mesh leave caches and requests alone. *)
LEMMA MeshHandlersInv ==
    ASSUME Inv, NEW p \in net, HandleGraft(p) \/ HandlePrune(p)
    PROVE  Inv'
<1>0. TypeOK /\ p \in Packet /\ p.from # p.to BY DEF Inv, TypeOK
<1>1. p.to \in Nodes /\ p.from \in Nodes /\ p.kind \in {"GRAFT", "PRUNE"}
  BY <1>0, PacketShape DEF HandleGraft, HandlePrune
<1>2. PICK new : net' = (net \ {p}) \cup new /\ new \in {{}, ToAll(p.to, "PRUNE", {p.from}, {})}
  BY DEF HandleGraft, HandlePrune
<1>3. \A q \in new : Sound(q)'
  <2>1. {p.from} \in SUBSET (Nodes \ {p.to}) /\ {} \in SUBSET Messages BY <1>0, <1>1
  <2> QED BY <1>1, <1>2, <2>1, ToAllShape, ToAllType DEF Sound
<1>4. /\ UNCHANGED <<seen, pending, publisher, lost, cut, beats, losses>>
      /\ mesh' \in [Nodes -> SUBSET Nodes] /\ \A n \in Nodes : n \notin mesh'[n]
  BY <1>0, <1>1 DEF HandleGraft, HandlePrune, TypeOK, bounds
<1>5. net' \in SUBSET Packet /\ (\A q \in net' : q.from # q.to) /\ SupplierHasIt'
  BY <1>0, <1>2, <1>3, <1>4, NetInv DEF TypeOK
<1>6. TypeOK' BY <1>0, <1>4, <1>5 DEF TypeOK
<1>7. StuckOnlyAfterLoss' BY <1>1, <1>2, <1>4 DEF Inv, StuckOnlyAfterLoss
<1> QED BY <1>5, <1>6, <1>7 DEF Inv

LEMMA IHaveInv ==
    ASSUME Inv, NEW p \in net, HandleIHave(p)
    PROVE  Inv'
<1> DEFINE n == p.to
           wanted == p.ids \ (seen[n] \cup pending[n])
<1>0. TypeOK /\ p \in Packet /\ p.from # p.to BY DEF Inv, TypeOK
<1>1. n \in Nodes /\ p.from \in Nodes /\ p.ids \in SUBSET Messages /\ p.kind = "IHAVE"
  BY <1>0, PacketShape DEF HandleIHave
<1>2. p.ids \subseteq seen[p.from] BY <1>1 DEF Inv, SupplierHasIt
<1>3. PICK asked \in SUBSET wanted :
          /\ net' = (net \ {p}) \cup (IF wanted = {} THEN {} ELSE ToAll(n, "IWANT", {p.from}, asked))
          /\ cut' = cut \cup ({n} \X (wanted \ asked))
  BY DEF HandleIHave
<1> DEFINE new == IF wanted = {} THEN {} ELSE ToAll(n, "IWANT", {p.from}, asked)
<1>4. seen' = seen /\ pending' = [pending EXCEPT ![n] = @ \cup wanted]
      /\ UNCHANGED <<mesh, publisher, lost, beats, losses>>
  BY DEF HandleIHave, bounds
<1>5. \A q \in new : Sound(q)'
  <2>1. {p.from} \in SUBSET (Nodes \ {n}) /\ asked \in SUBSET Messages BY <1>0, <1>1
  <2> QED BY <1>1, <1>2, <1>4, <2>1, ToAllShape, ToAllType DEF Sound
<1>6. wanted # {} => \E q \in net' : q.kind = "IWANT" /\ q.from = n /\ q.ids = asked
  BY <1>3, ToAllShape
<1>7. net \ {p} \subseteq net' /\ net' = (net \ {p}) \cup new BY <1>3
<1> HIDE DEF new, wanted
<1>8. net' \in SUBSET Packet /\ (\A q \in net' : q.from # q.to) /\ SupplierHasIt'
  BY <1>0, <1>4, <1>5, <1>7, NetInv DEF TypeOK
<1>9. TypeOK'
  <2>1. wanted \subseteq Messages BY <1>1 DEF wanted
  <2>2. cut' \in SUBSET (Nodes \X Messages) BY <1>0, <1>1, <1>3, <2>1 DEF TypeOK
  <2> QED BY <1>0, <1>1, <1>4, <1>8, <2>1, <2>2 DEF TypeOK
<1>10. ASSUME NEW k \in Nodes, NEW m \in pending'[k] \ seen'[k]
       PROVE  \/ \E q \in net' : \/ q.kind = "IWANT" /\ q.from = k /\ m \in q.ids
                                 \/ q.kind = "MESSAGE" /\ q.to = k /\ m \in q.ids
              \/ <<k, m>> \in lost' \cup cut'
  <2>1. CASE m \in pending[k] \ seen[k]
    BY <1>1, <1>3, <1>4, <1>7, <2>1 DEF Inv, StuckOnlyAfterLoss
  <2>2. CASE k = n /\ m \in wanted
    BY <1>3, <1>6, <2>2
  <2> QED BY <1>0, <1>1, <1>4, <1>10, <2>1, <2>2 DEF TypeOK
<1> QED BY <1>8, <1>9, <1>10 DEF Inv, StuckOnlyAfterLoss

LEMMA IWantInv ==
    ASSUME Inv, NEW p \in net, HandleIWant(p)
    PROVE  Inv'
<1> DEFINE n == p.to
           Answer(m) == ToAll(n, "MESSAGE", {p.from}, {m})
           new == UNION {Answer(m) : m \in p.ids \cap seen[n]}
<1>0. TypeOK /\ p \in Packet /\ p.from # p.to BY DEF Inv, TypeOK
<1>1. n \in Nodes /\ p.from \in Nodes /\ p.ids \in SUBSET Messages /\ p.kind = "IWANT"
  BY <1>0, PacketShape DEF HandleIWant
<1>2. p.ids \subseteq seen[n] BY <1>1 DEF Inv, SupplierHasIt
<1>3. net' = (net \ {p}) \cup new /\ UNCHANGED <<mesh, seen, pending, publisher, lost, cut, beats, losses>>
  BY DEF HandleIWant, bounds
<1>4. ASSUME NEW m \in p.ids \cap seen[n] PROVE \A q \in Answer(m) : Sound(q)'
  <2>1. {p.from} \in SUBSET (Nodes \ {n}) /\ {m} \in SUBSET Messages BY <1>0, <1>1
  <2> QED BY <1>1, <1>3, <2>1, ToAllShape, ToAllType DEF Sound
<1>5. \A q \in new : Sound(q)' BY <1>4
<1>6. \A m \in p.ids : \E q \in net' : q.kind = "MESSAGE" /\ q.to = p.from /\ m \in q.ids
  <2>1. ASSUME NEW m \in p.ids PROVE \E q \in Answer(m) : q.kind = "MESSAGE" /\ q.to = p.from /\ m \in q.ids
    BY ToAllShape
  <2>2. \A m \in p.ids : Answer(m) \subseteq net' BY <1>2, <1>3
  <2> QED BY <2>1, <2>2
<1> HIDE DEF new
<1>7. net' \in SUBSET Packet /\ (\A q \in net' : q.from # q.to) /\ SupplierHasIt'
  BY <1>0, <1>3, <1>5, NetInv DEF TypeOK
<1>8. TypeOK' BY <1>0, <1>3, <1>7 DEF TypeOK
<1>9. StuckOnlyAfterLoss' BY <1>1, <1>3, <1>6 DEF Inv, StuckOnlyAfterLoss
<1> QED BY <1>7, <1>8, <1>9 DEF Inv

LEMMA LoseInv ==
    ASSUME Inv, NEW p \in net, Lose(p)
    PROVE  Inv'
<1>0. TypeOK /\ p \in Packet BY DEF Inv, TypeOK
<1>1. p.from \in Nodes /\ p.to \in Nodes /\ p.ids \in SUBSET Messages BY <1>0, PacketShape
<1>2. TypeOK' /\ SupplierHasIt' BY <1>0, <1>1 DEF Inv, Lose, TypeOK, SupplierHasIt
<1>3. StuckOnlyAfterLoss' BY <1>0, <1>1 DEF Inv, Lose, StuckOnlyAfterLoss
<1> QED BY <1>2, <1>3 DEF Inv

LEMMA HeartbeatInv ==
    ASSUME Inv, NEW n \in Nodes, Heartbeat(n)
    PROVE  Inv'
<1>0. TypeOK BY DEF Inv
<1> DEFINE Out(members, told) == ToAll(n, "GRAFT", members \ mesh[n], {})
                                 \cup ToAll(n, "PRUNE", mesh[n] \ members, {})
                                 \cup ToAll(n, "IHAVE", told, seen[n])
<1>1. PICK members \in Maintained(n) : \E told \in Told(n, members) :
          mesh' = [mesh EXCEPT ![n] = members] /\ net' = net \cup Out(members, told)
  BY DEF Heartbeat
<1>a. PICK told \in Told(n, members) :
          mesh' = [mesh EXCEPT ![n] = members] /\ net' = net \cup Out(members, told)
  BY <1>1
<1>2. members \in SUBSET (Nodes \ {n}) BY <1>0 DEF Maintained, TypeOK, Peers
<1>3. told \in SUBSET (Nodes \ {n}) BY DEF Told, Peers
<1> DEFINE new == Out(members, told)
<1>4. UNCHANGED <<seen, pending, publisher, lost, cut, losses>> /\ beats' \in Nat
  BY <1>0 DEF Heartbeat, TypeOK
<1>5. seen[n] \in SUBSET Messages /\ mesh[n] \in SUBSET (Nodes \ {n}) BY <1>0 DEF TypeOK
<1>6. \A q \in ToAll(n, "GRAFT", members \ mesh[n], {}) : Sound(q)'
  BY <1>2, ToAllShape, ToAllType DEF Sound
<1>7. \A q \in ToAll(n, "PRUNE", mesh[n] \ members, {}) : Sound(q)'
  BY <1>5, ToAllShape, ToAllType DEF Sound
<1>8. \A q \in ToAll(n, "IHAVE", told, seen[n]) : Sound(q)'
  BY <1>3, <1>4, <1>5, ToAllShape, ToAllType DEF Sound
<1>9. net' = (net \ {}) \cup new /\ \A q \in new : Sound(q)' BY <1>a, <1>6, <1>7, <1>8
<1> HIDE DEF new
<1>10. net' \in SUBSET Packet /\ (\A q \in net' : q.from # q.to) /\ SupplierHasIt'
  BY <1>0, <1>4, <1>9, NetInv DEF TypeOK
<1>11. TypeOK' BY <1>0, <1>a, <1>2, <1>4, <1>10 DEF TypeOK
<1>12. StuckOnlyAfterLoss' BY <1>4, <1>9 DEF Inv, StuckOnlyAfterLoss
<1> QED BY <1>10, <1>11, <1>12 DEF Inv

LEMMA StepInv == Inv /\ [Next]_vars => Inv'
<1>1. ASSUME Inv, Next PROVE Inv'
  BY <1>1, PublishInv, DuplicateInv, DeliverInv, MeshHandlersInv, IHaveInv, IWantInv,
     LoseInv, HeartbeatInv DEF Next, Handle
<1>2. ASSUME Inv, UNCHANGED vars PROVE Inv'
  BY <1>2 DEF Inv, TypeOK, SupplierHasIt, StuckOnlyAfterLoss, vars
<1> QED BY <1>1, <1>2

LEMMA AlwaysInv == Spec => []Inv
BY InitInv, StepInv, PTL DEF Spec

(* Every variable keeps its type; no node takes itself into its mesh or sends
   itself a packet. *)
THEOREM TypeCorrect == Spec => []TypeOK
<1>1. Inv => TypeOK BY DEF Inv
<1> QED BY <1>1, AlwaysInv, PTL

(* _handle_ihave asks, and _send announces, only what the cache of the
   supplier holds. *)
THEOREM SuppliersHaveIt == Spec => []SupplierHasIt
<1>1. Inv => SupplierHasIt BY DEF Inv
<1> QED BY <1>1, AlwaysInv, PTL

(* A message that a node has asked for stays out of its cache only while the
   request or the answer is in flight, after a loss, or when it was cut off
   a full IWANT. *)
THEOREM StuckOnlyThen == Spec => []StuckOnlyAfterLoss
<1>1. Inv => StuckOnlyAfterLoss BY DEF Inv
<1> QED BY <1>1, AlwaysInv, PTL

-----------------------------------------------------------------------------
(* The size of a mesh. *)

LEMMA MeshFinite ==
    ASSUME TypeOK, NEW n \in Nodes
    PROVE  IsFiniteSet(mesh[n]) /\ IsFiniteSet(Peers(n) \ mesh[n]) /\ Cardinality(mesh[n]) \in Nat
<1>1. mesh[n] \subseteq Nodes /\ Peers(n) \ mesh[n] \subseteq Nodes BY DEF TypeOK, Peers
<1> QED BY <1>1, ConfigAssumption, FS_Subset, FS_CardinalityType

LEMMA MaintainedBounded ==
    ASSUME TypeOK, NEW n \in Nodes, Cardinality(mesh[n]) <= DHigh, NEW members \in Maintained(n)
    PROVE  Cardinality(members) <= DHigh
<1> USE ConfigAssumption
<1>0. IsFiniteSet(mesh[n]) /\ IsFiniteSet(Peers(n) \ mesh[n]) /\ Cardinality(mesh[n]) \in Nat
  BY MeshFinite
<1>1. CASE Cardinality(mesh[n]) < DLow
  <2>1. PICK new \in SUBSET (Peers(n) \ mesh[n]) :
            /\ members = mesh[n] \cup new
            /\ Cardinality(new) <= D - Cardinality(mesh[n])
    <3>1. Cardinality(Peers(n) \ mesh[n]) \in Nat BY <1>0, FS_CardinalityType
    <3> QED BY <1>0, <1>1, <3>1 DEF Maintained
  <2>2. IsFiniteSet(new) /\ mesh[n] \cap new = {} BY <1>0, <2>1, FS_Subset
  <2>3. Cardinality(new) \in Nat BY <2>2, FS_CardinalityType
  <2>4. Cardinality(members) = Cardinality(mesh[n]) + Cardinality(new) - Cardinality(mesh[n] \cap new)
    BY <1>0, <2>1, <2>2, FS_Union
  <2>5. Cardinality(mesh[n] \cap new) = 0 BY <2>2, FS_EmptySet
  <2> QED BY <1>0, <2>1, <2>3, <2>4, <2>5
<1>2. CASE ~(Cardinality(mesh[n]) < DLow)
  BY <1>0, <1>2 DEF Maintained
<1> QED BY <1>1, <1>2

LEMMA MeshBoundedStep == TypeOK /\ MeshBounded /\ [Next]_vars => MeshBounded'
<1> SUFFICES ASSUME TypeOK, MeshBounded, [Next]_vars, NEW k \in Nodes
             PROVE  Cardinality(mesh'[k]) <= DHigh
  BY DEF MeshBounded
<1> USE ConfigAssumption
<1>0. IsFiniteSet(mesh[k]) /\ Cardinality(mesh[k]) \in Nat /\ Cardinality(mesh[k]) <= DHigh
  BY MeshFinite DEF MeshBounded
<1>1. CASE mesh' = mesh BY <1>0, <1>1
<1>2. ASSUME NEW p \in net, HandleGraft(p) PROVE Cardinality(mesh'[k]) <= DHigh
  <2>1. CASE Cardinality(mesh[p.to]) < DHigh /\ p.to = k
    <3>1. mesh'[k] = mesh[k] \cup {p.from} BY <1>2, <2>1 DEF HandleGraft, TypeOK
    <3>2. Cardinality(mesh'[k]) \in {Cardinality(mesh[k]), Cardinality(mesh[k]) + 1}
      BY <1>0, <3>1, FS_AddElement
    <3> QED BY <1>0, <2>1, <3>2
  <2>2. CASE ~(Cardinality(mesh[p.to]) < DHigh) \/ p.to # k
    <3>1. mesh'[k] = mesh[k] BY <1>2, <2>2 DEF HandleGraft, TypeOK
    <3> QED BY <1>0, <3>1
  <2> QED BY <2>1, <2>2
<1>3. ASSUME NEW p \in net, HandlePrune(p) PROVE Cardinality(mesh'[k]) <= DHigh
  <2>1. mesh'[k] \subseteq mesh[k] BY <1>3 DEF HandlePrune, TypeOK
  <2>2. IsFiniteSet(mesh'[k]) /\ Cardinality(mesh'[k]) <= Cardinality(mesh[k])
    BY <1>0, <2>1, FS_Subset
  <2>3. Cardinality(mesh'[k]) \in Nat BY <2>2, FS_CardinalityType
  <2> QED BY <1>0, <2>2, <2>3
<1>4. ASSUME NEW n \in Nodes, Heartbeat(n) PROVE Cardinality(mesh'[k]) <= DHigh
  <2>1. PICK members \in Maintained(n) : mesh' = [mesh EXCEPT ![n] = members] BY <1>4 DEF Heartbeat
  <2>2. CASE n = k
    <3>1. mesh'[k] = members BY <2>1, <2>2 DEF TypeOK
    <3> QED BY <1>0, <2>2, <3>1, MaintainedBounded
  <2>3. CASE n # k
    <3>1. mesh'[k] = mesh[k] BY <2>1, <2>3 DEF TypeOK
    <3> QED BY <1>0, <3>1
  <2> QED BY <2>2, <2>3
<1>5. \/ mesh' = mesh
      \/ \E p \in net : HandleGraft(p) \/ HandlePrune(p)
      \/ \E n \in Nodes : Heartbeat(n)
  BY DEF Next, Handle, Publish, Duplicate, Deliver, HandleIHave, HandleIWant, Lose, vars
<1> QED BY <1>1, <1>2, <1>3, <1>4, <1>5

(* GRAFTs answered by _handle_graft and peers taken in by the heartbeat never
   carry a mesh over DHigh, in whatever order they come. *)
THEOREM MeshesBounded == Spec => []MeshBounded
<1>1. Init => MeshBounded BY ConfigAssumption, FS_EmptySet DEF Init, MeshBounded
<1> QED BY <1>1, MeshBoundedStep, TypeCorrect, PTL DEF Spec
=============================================================================

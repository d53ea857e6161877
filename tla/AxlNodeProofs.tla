--------------------------- MODULE AxlNodeProofs ---------------------------
(***************************************************************************)
(* TLAPS proofs about AxlNode for any finite set of calls, any pollers,    *)
(* any capacity, number of slots and number of restarts.  The arrivals     *)
(* that are no longer queued are a prefix of arrived that only grows       *)
(* (Gone): what was popped lies in it, what is queued behind it, and that  *)
(* keeps the order.                                                        *)
(***************************************************************************)
EXTENDS AxlNode, FiniteSetTheorems, TLAPS

(* receivedQueue.Push: the latest Capacity items, the new one at the end. *)
LEMMA PushShape ==
    ASSUME NEW q \in Seq(Calls), Len(q) <= Capacity, NEW m \in Calls
    PROVE  /\ Push(q, m) \in Seq(Calls) /\ Len(Push(q, m)) <= Capacity
           /\ Push(q, m)[Len(Push(q, m))] = m
           /\ Len(q) >= Capacity =>
                 /\ Len(Push(q, m)) = Len(q)
                 /\ \A i \in 1..(Len(q) - 1) : Push(q, m)[i] = q[i + 1]
           /\ Len(q) < Capacity =>
                 /\ Len(Push(q, m)) = Len(q) + 1
                 /\ \A i \in 1..Len(q) : Push(q, m)[i] = q[i]
<1> USE AxlNodeAssumption
<1>1. CASE Len(q) >= Capacity
  <2>1. q # <<>> BY <1>1
  <2>2. Tail(q) \in Seq(Calls) /\ Len(Tail(q)) = Len(q) - 1 /\ \A i \in 1..(Len(q) - 1) : Tail(q)[i] = q[i + 1]
    BY <2>1
  <2> DEFINE t == Tail(q)
  <2>3. Push(q, m) = Append(t, m) BY <1>1 DEF Push
  <2> HIDE DEF t
  <2>4. /\ Append(t, m) \in Seq(Calls) /\ Len(Append(t, m)) = Len(t) + 1
        /\ Append(t, m)[Len(t) + 1] = m /\ \A i \in 1..Len(t) : Append(t, m)[i] = t[i]
    BY <2>2 DEF t
  <2>5. Len(t) = Len(q) - 1 /\ \A i \in 1..(Len(q) - 1) : t[i] = q[i + 1] BY <2>2 DEF t
  <2> QED BY <1>1, <2>3, <2>4, <2>5
<1>2. CASE Len(q) < Capacity
  <2>1. Push(q, m) = Append(q, m) BY <1>2 DEF Push
  <2> QED BY <1>2, <2>1
<1> QED BY <1>1, <1>2

-----------------------------------------------------------------------------
(* Types and slots.  The number of slots is a type question too: it cannot
   become negative because it is exact. *)

Served == {c \in Calls : Serving(c)}

LEMMA ServedFinite == IsFiniteSet(Served) /\ Cardinality(Served) \in Nat
BY AxlNodeAssumption, FS_Subset, FS_CardinalityType DEF Served

LEMMA ServedSame ==
    ASSUME \A c \in Calls : Serving(c)' <=> Serving(c)
    PROVE  Served' = Served
BY DEF Served

LEMMA ServedMore ==
    ASSUME NEW c \in Calls, ~Serving(c), Serving(c)',
           \A k \in Calls \ {c} : Serving(k)' <=> Serving(k)
    PROVE  Cardinality(Served') = Cardinality(Served) + 1
<1>1. Served' = Served \cup {c} /\ c \notin Served BY DEF Served
<1> QED BY <1>1, ServedFinite, FS_AddElement

LEMMA ServedLess ==
    ASSUME NEW c \in Calls, Serving(c), ~Serving(c)',
           \A k \in Calls \ {c} : Serving(k)' <=> Serving(k)
    PROVE  Cardinality(Served') = Cardinality(Served) - 1
<1>1. Served' = Served \ {c} /\ c \in Served BY DEF Served
<1> QED BY <1>1, ServedFinite, FS_RemoveElement


Fresh == \A c \in Calls : caller[c] = "idle" => conn[c] = "none"
TypeInv == TypeOK /\ Fresh /\ slots = Cardinality(Served)

LEMMA InitTypeInv == Init => TypeInv
<1> SUFFICES ASSUME Init PROVE TypeInv OBVIOUS
<1> USE AxlNodeAssumption DEF Init
<1>1. Served = {} BY DEF Served, Serving
<1>2. TypeOK BY DEF TypeOK
<1>3. Fresh BY DEF Fresh
<1> QED BY <1>1, <1>2, <1>3, FS_EmptySet DEF TypeInv

LEMMA CallerTypeInv ==
    ASSUME TypeInv, NEW c \in Calls, CallerStep(c)
    PROVE  TypeInv'
<1>0. TypeOK /\ Fresh BY DEF TypeInv
<1>1. TypeOK'
  BY <1>0 DEF TypeOK, CallerStep, Dial, DialFails, WriteMessage, WriteFails, ReadAnswer, CallFails, recvVars
<1>2. (\A k \in Calls : Serving(k)' <=> Serving(k)) /\ Fresh'
  <2>1. CASE Dial(c)
    BY <1>0, <2>1 DEF Dial, Serving, TypeOK, Fresh
  <2> QED
    BY <1>0, <2>1 DEF CallerStep, DialFails, WriteMessage, WriteFails, ReadAnswer, CallFails, Serving,
       TypeOK, Fresh
<1>3. slots' = slots
  BY DEF CallerStep, Dial, DialFails, WriteMessage, WriteFails, ReadAnswer, CallFails
<1> QED BY <1>1, <1>2, <1>3, ServedSame DEF TypeInv

LEMMA ListenerTypeInv ==
    ASSUME TypeInv, NEW c \in Calls, ListenerStep(c)
    PROVE  TypeInv'
<1>0. TypeOK /\ Fresh /\ slots = Cardinality(Served) BY DEF TypeInv
<1> USE AxlNodeAssumption DEF callVars, recvVars
<1>1. CASE Accept(c)
  <2>1. TypeOK' /\ Fresh' BY <1>0, <1>1 DEF TypeOK, Fresh, Accept
  <2>2. ~Serving(c) /\ Serving(c)' /\ \A k \in Calls \ {c} : Serving(k)' <=> Serving(k)
    BY <1>0, <1>1 DEF TypeOK, Accept, Serving
  <2> QED BY <1>0, <1>1, <2>1, <2>2, ServedMore DEF TypeInv, Accept
<1>2. CASE Reject(c) \/ ReadForStream(c) \/ ForwardReturns(c) \/ AnswerWritten(c) \/ AnswerDropped(c)
  <2>1. TypeOK' /\ Fresh'
    <3>1. CASE Reject(c) BY <1>0, <3>1 DEF TypeOK, Fresh, Reject
    <3>2. CASE ReadForStream(c) BY <1>0, <3>2 DEF TypeOK, Fresh, ReadForStream, Readable
    <3>3. CASE ForwardReturns(c) BY <1>0, <3>3 DEF TypeOK, Fresh, ForwardReturns
    <3>4. CASE AnswerWritten(c)
      <4>1. reply' \subseteq Calls BY <1>0, <3>4 DEF TypeOK, AnswerWritten
      <4> QED BY <1>0, <3>4, <4>1 DEF TypeOK, Fresh, AnswerWritten
    <3>5. CASE AnswerDropped(c) BY <1>0, <3>5 DEF TypeOK, Fresh, AnswerDropped
    <3> QED BY <1>2, <3>1, <3>2, <3>3, <3>4, <3>5
  <2>2. \A k \in Calls : Serving(k)' <=> Serving(k)
    BY <1>0, <1>2 DEF TypeOK, Reject, ReadForStream, Readable, ForwardReturns, AnswerWritten,
       AnswerDropped, Serving
  <2>3. slots' = slots
    BY <1>2 DEF Reject, ReadForStream, ForwardReturns, AnswerWritten, AnswerDropped
  <2> QED BY <1>0, <2>1, <2>2, <2>3, ServedSame DEF TypeInv
<1>3. CASE ReadForQueue(c)
  <2>1. queue' \in Seq(Calls) /\ Len(queue') <= Capacity
    BY <1>0, <1>3, PushShape DEF TypeOK, ReadForQueue
  <2>2. TypeOK' /\ Fresh' BY <1>0, <1>3, <2>1 DEF TypeOK, Fresh, ReadForQueue
  <2>3. \A k \in Calls : Serving(k)' <=> Serving(k) BY <1>3 DEF ReadForQueue, Serving
  <2> QED BY <1>0, <1>3, <2>2, <2>3, ServedSame DEF TypeInv, ReadForQueue
<1>4. CASE CloseConn(c)
  <2>1. Serving(c) /\ ~Serving(c)' /\ \A k \in Calls \ {c} : Serving(k)' <=> Serving(k)
    BY <1>0, <1>4 DEF TypeOK, CloseConn, Serving
  <2>2. slots' = Cardinality(Served') BY <1>0, <1>4, <2>1, ServedLess DEF CloseConn
  <2>3. Cardinality(Served') \in Nat BY <2>2, <1>0, <1>4, ServedFinite, <2>1, ServedLess,
        FS_CardinalityType, FS_Subset DEF Served
  <2>4. slots' \in 0..MaxConns BY <1>0, <1>4, <2>2, <2>3 DEF TypeOK, CloseConn
  <2>5. TypeOK' /\ Fresh' BY <1>0, <1>4, <2>4 DEF TypeOK, Fresh, CloseConn
  <2> QED BY <2>2, <2>5 DEF TypeInv
<1> QED BY <1>1, <1>2, <1>3, <1>4 DEF ListenerStep

LEMMA PollerTypeInv ==
    ASSUME TypeInv, NEW p \in Pollers, PollerStep(p)
    PROVE  TypeInv'
<1>0. TypeOK /\ Fresh BY DEF TypeInv
<1> USE AxlNodeAssumption DEF callVars
<1>1. CASE Pop(p)
  <2>1. /\ Head(queue) \in Calls /\ Tail(queue) \in Seq(Calls)
        /\ Len(Tail(queue)) <= Capacity
    BY <1>0, <1>1 DEF TypeOK, Pop
  <2> QED BY <1>0, <1>1, <2>1, ServedSame DEF TypeInv, TypeOK, Fresh, Pop, Serving
<1>2. CASE HandOver(p)
  <2>1. inHand[p] \in Calls /\ got[p] \in Seq(Calls) BY <1>0, <1>2 DEF TypeOK, HandOver
  <2>2. Append(got[p], inHand[p]) \in Seq(Calls) BY <2>1
  <2>3. got' \in [Pollers -> Seq(Calls)] BY <1>0, <1>2, <2>2 DEF TypeOK, HandOver
  <2>4. TypeOK' BY <1>0, <1>2, <2>3 DEF TypeOK, HandOver
  <2> QED BY <1>2, <2>4, ServedSame DEF TypeInv, Fresh, HandOver, Serving
<1>3. CASE HandOverFails(p)
  BY <1>0, <1>3, ServedSame DEF TypeInv, TypeOK, Fresh, HandOverFails, Serving
<1> QED BY <1>1, <1>2, <1>3 DEF PollerStep

LEMMA RestartTypeInv ==
    ASSUME TypeInv, Restart
    PROVE  TypeInv'
<1> USE AxlNodeAssumption
<1>1. TypeOK' /\ Fresh' BY DEF TypeInv, TypeOK, Fresh, Restart
<1>2. Served' = {} BY DEF Served, Serving, Restart
<1> QED BY <1>1, <1>2, FS_EmptySet DEF TypeInv, Restart

LEMMA TypeInvStep == TypeInv /\ [Next]_vars => TypeInv'
<1>1. ASSUME TypeInv, UNCHANGED vars PROVE TypeInv'
  BY <1>1, ServedSame DEF TypeInv, TypeOK, Fresh, vars, callVars, recvVars, Serving
<1> QED BY <1>1, CallerTypeInv, ListenerTypeInv, PollerTypeInv, RestartTypeInv DEF Next

LEMMA AlwaysTypeInv == Spec => []TypeInv
BY InitTypeInv, TypeInvStep, PTL DEF Spec

(* Every variable keeps its type, and the queue its capacity. *)
THEOREM TypeCorrect == Spec => []TypeOK
<1>1. TypeInv => TypeOK BY DEF TypeInv
<1> QED BY <1>1, AlwaysTypeInv, PTL

(* connSem of startTCPListener: as many slots are taken as connections are
   served, on every path through handleTCPConn and after a restart. *)
THEOREM SlotsAreExact == Spec => []SlotsExact
<1>1. TypeInv => SlotsExact BY DEF TypeInv, SlotsExact, Served
<1> QED BY <1>1, AlwaysTypeInv, PTL

-----------------------------------------------------------------------------
(* The order of arrivals. *)

Gone == Len(arrived) - Len(queue)

(* A poller holds and was given only arrivals that are gone from the queue,
   each one in hand later than all it was given. *)
PollerInv(p) ==
    /\ inHand[p] # NoMsg => \E l \in 1..Gone : arrived[l] = inHand[p]
    /\ \A i \in 1..Len(got[p]) : \E l \in 1..Gone : arrived[l] = got[p][i]
    /\ inHand[p] # NoMsg => \A i \in 1..Len(got[p]) : ArrivedBefore(got[p][i], inHand[p])
    /\ \A i, j \in 1..Len(got[p]) : i < j => ArrivedBefore(got[p][i], got[p][j])
    /\ Len(got[p]) <= Gone
    /\ inHand[p] # NoMsg => Len(got[p]) < Gone

RecvInv == QueueHoldsLatest /\ \A p \in Pollers : PollerInv(p)

LEMMA LengthTypes ==
    ASSUME TypeOK
    PROVE  /\ Len(queue) \in Nat /\ Len(arrived) \in Nat
           /\ \A p \in Pollers : Len(got[p]) \in Nat
BY DEF TypeOK

(* What a step may do to the receive side. *)
LEMMA RecvSteps ==
    ASSUME [Next]_vars
    PROVE  \/ UNCHANGED recvVars
           \/ \E c \in Calls : ReadForQueue(c)
           \/ \E p \in Pollers : PollerStep(p)
           \/ Restart
BY DEF Next, CallerStep, Dial, DialFails, WriteMessage, WriteFails, ReadAnswer, CallFails,
   ListenerStep, Accept, Reject, ReadForStream, ForwardReturns, AnswerWritten, AnswerDropped,
   CloseConn, vars

(* As long as arrivals are only added and none comes back to the queue, what
   was gone is gone and the order of two arrivals stands. *)
Grows == /\ Gone <= Gone' /\ Len(arrived) <= Len(arrived')
         /\ \A l \in 1..Len(arrived) : arrived'[l] = arrived[l]

LEMMA GoneStays ==
    ASSUME TypeOK, TypeOK', QueueHoldsLatest, Grows
    PROVE  /\ \A l \in 1..Gone : l \in 1..Gone' /\ arrived'[l] = arrived[l]
           /\ \A l \in 1..Len(arrived) : l \in 1..Len(arrived') /\ arrived'[l] = arrived[l]
<1>1. Len(queue) \in Nat /\ Len(arrived) \in Nat /\ Len(queue') \in Nat /\ Len(arrived') \in Nat
  BY DEF TypeOK
<1> QED BY <1>1 DEF Gone, Grows

LEMMA PollerKeeps ==
    ASSUME TypeOK, TypeOK', QueueHoldsLatest, Grows,
           NEW p \in Pollers, PollerInv(p), inHand'[p] = inHand[p], got'[p] = got[p]
    PROVE  PollerInv(p)'
<1>1. Len(queue) \in Nat /\ Len(arrived) \in Nat /\ Len(queue') \in Nat /\ Len(arrived') \in Nat
      /\ Len(got[p]) \in Nat
  BY DEF TypeOK
<1>2. ASSUME NEW m, NEW l \in 1..Gone, arrived[l] = m PROVE \E k \in 1..Gone' : arrived'[k] = m
  BY <1>2, GoneStays
<1>3. ASSUME NEW x, NEW y, ArrivedBefore(x, y)
      PROVE  \E i, j \in 1..Len(arrived') : i < j /\ arrived'[i] = x /\ arrived'[j] = y
  <2>1. PICK i, j \in 1..Len(arrived) : i < j /\ arrived[i] = x /\ arrived[j] = y
    BY <1>3 DEF ArrivedBefore
  <2> QED BY <2>1, GoneStays
<1>4. inHand[p] # NoMsg => \E k \in 1..Gone' : arrived'[k] = inHand[p]
  BY <1>2 DEF PollerInv
<1>5. ASSUME NEW i \in 1..Len(got[p]) PROVE \E k \in 1..Gone' : arrived'[k] = got[p][i]
  BY <1>2 DEF PollerInv
<1>6. ASSUME inHand[p] # NoMsg, NEW i \in 1..Len(got[p])
      PROVE  \E a, b \in 1..Len(arrived') : a < b /\ arrived'[a] = got[p][i] /\ arrived'[b] = inHand[p]
  <2>1. ArrivedBefore(got[p][i], inHand[p]) BY <1>6 DEF PollerInv
  <2> QED BY <1>3, <2>1
<1>7. ASSUME NEW i \in 1..Len(got[p]), NEW j \in 1..Len(got[p]), i < j
      PROVE  \E a, b \in 1..Len(arrived') : a < b /\ arrived'[a] = got[p][i] /\ arrived'[b] = got[p][j]
  <2>1. ArrivedBefore(got[p][i], got[p][j]) BY <1>7 DEF PollerInv
  <2> QED BY <1>3, <2>1
<1>8. Len(got[p]) <= Gone' /\ (inHand[p] # NoMsg => Len(got[p]) < Gone')
  BY <1>1 DEF PollerInv, Grows, Gone
<1>9. (inHand[p] # NoMsg => \E l \in 1..Gone : arrived[l] = inHand[p])'
  BY <1>4
<1>10. (\A i \in 1..Len(got[p]) : \E l \in 1..Gone : arrived[l] = got[p][i])'
  BY <1>5
<1>11. (inHand[p] # NoMsg => \A i \in 1..Len(got[p]) : ArrivedBefore(got[p][i], inHand[p]))'
  <2>1. SUFFICES ASSUME inHand[p] # NoMsg, NEW i \in 1..Len(got[p])
                 PROVE  ArrivedBefore(got[p][i], inHand[p])'
    OBVIOUS
  <2>2. PICK a, b \in 1..Len(arrived') : a < b /\ arrived'[a] = got[p][i] /\ arrived'[b] = inHand[p]
    BY <1>6, <2>1
  <2> QED BY <2>2 DEF ArrivedBefore
<1>12. (\A i, j \in 1..Len(got[p]) : i < j => ArrivedBefore(got[p][i], got[p][j]))'
  <2>1. SUFFICES ASSUME NEW i \in 1..Len(got[p]), NEW j \in 1..Len(got[p]), i < j
                 PROVE  ArrivedBefore(got[p][i], got[p][j])'
    OBVIOUS
  <2>2. PICK a, b \in 1..Len(arrived') : a < b /\ arrived'[a] = got[p][i] /\ arrived'[b] = got[p][j]
    BY <1>7, <2>1
  <2> QED BY <2>2 DEF ArrivedBefore
<1>13. (Len(got[p]) <= Gone /\ (inHand[p] # NoMsg => Len(got[p]) < Gone))'
  BY <1>8
<1> QED BY <1>9, <1>10, <1>11, <1>12, <1>13 DEF PollerInv

LEMMA ArrivalInv ==
    ASSUME TypeOK, TypeOK', RecvInv, NEW c \in Calls, ReadForQueue(c)
    PROVE  RecvInv'
<1> DEFINE n == Len(arrived)
           k == Len(queue)
<1>0. n \in Nat /\ k \in Nat /\ k <= n BY LengthTypes DEF RecvInv, QueueHoldsLatest
<1>1. /\ arrived' = Append(arrived, c) /\ queue' = Push(queue, c) /\ inHand' = inHand /\ got' = got
  BY DEF ReadForQueue
<1>2. /\ Len(arrived') = n + 1 /\ arrived'[n + 1] = c
      /\ \A l \in 1..n : arrived'[l] = arrived[l]
  BY <1>1 DEF TypeOK
<1>3. queue \in Seq(Calls) /\ k <= Capacity /\ Capacity \in Nat \ {0} BY AxlNodeAssumption DEF TypeOK
<1>4. /\ queue'[Len(queue')] = c
      /\ k >= Capacity => Len(queue') = k /\ \A i \in 1..(k - 1) : queue'[i] = queue[i + 1]
      /\ k < Capacity => Len(queue') = k + 1 /\ \A i \in 1..k : queue'[i] = queue[i]
  BY <1>1, <1>3, PushShape
<1>5. \A i \in 1..k : queue[i] = arrived[n - k + i] BY DEF RecvInv, QueueHoldsLatest
<1>6. QueueHoldsLatest'
  <2>1. CASE k >= Capacity
    <3>1. Len(queue') = k BY <1>4, <2>1
    <3>2. ASSUME NEW i \in 1..k PROVE queue'[i] = arrived'[n + 1 - k + i]
      <4>1. CASE i = k BY <1>0, <1>2, <1>4, <3>1, <4>1
      <4>2. CASE i < k
        <5>1. queue'[i] = queue[i + 1] BY <1>0, <1>4, <2>1, <4>2
        <5>0. i + 1 \in 1..k BY <1>0, <4>2
        <5>2. queue[i + 1] = arrived[n - k + (i + 1)] BY <1>5, <5>0
        <5>3. n - k + (i + 1) = n + 1 - k + i /\ n + 1 - k + i \in 1..n BY <1>0, <4>2
        <5> QED BY <1>2, <5>1, <5>2, <5>3
      <4> QED BY <1>0, <4>1, <4>2
    <3> QED BY <1>0, <1>2, <3>1, <3>2 DEF QueueHoldsLatest
  <2>2. CASE k < Capacity
    <3>1. Len(queue') = k + 1 BY <1>4, <2>2
    <3>2. ASSUME NEW i \in 1..(k + 1) PROVE queue'[i] = arrived'[n + 1 - (k + 1) + i]
      <4>1. CASE i = k + 1
        <5>1. n + 1 - (k + 1) + i = n + 1 BY <1>0, <4>1
        <5> QED BY <1>2, <1>4, <3>1, <4>1, <5>1
      <4>2. CASE i <= k
        <5>1. queue'[i] = queue[i] /\ queue[i] = arrived[n - k + i] BY <1>0, <1>4, <1>5, <2>2, <4>2
        <5>2. n + 1 - (k + 1) + i = n - k + i /\ n - k + i \in 1..n BY <1>0, <4>2
        <5> QED BY <1>2, <5>1, <5>2
      <4> QED BY <1>0, <4>1, <4>2
    <3> QED BY <1>0, <1>2, <3>1, <3>2 DEF QueueHoldsLatest
  <2> QED BY <1>0, <1>3, <2>1, <2>2
<1>7. Gone <= Gone' BY <1>0, <1>2, <1>3, <1>4 DEF Gone
<1>8. Grows BY <1>0, <1>2, <1>7 DEF Grows
<1>9. ASSUME NEW p \in Pollers PROVE PollerInv(p)'
  BY <1>1, <1>8, PollerKeeps DEF RecvInv
<1> QED BY <1>6, <1>9 DEF RecvInv

LEMMA PopInv ==
    ASSUME TypeOK, TypeOK', RecvInv, NEW p \in Pollers, Pop(p)
    PROVE  RecvInv'
<1> DEFINE n == Len(arrived)
           k == Len(queue)
<1>0. n \in Nat /\ k \in Nat /\ k <= n BY LengthTypes DEF RecvInv, QueueHoldsLatest
<1>1. /\ queue \in Seq(Calls) /\ queue # <<>> /\ queue' = Tail(queue)
      /\ inHand' = [inHand EXCEPT ![p] = Head(queue)]
      /\ inHand[p] = NoMsg /\ got' = got /\ arrived' = arrived
  BY DEF Pop, TypeOK
<1>2. /\ k > 0 /\ Len(queue') = k - 1 /\ \A i \in 1..(k - 1) : queue'[i] = queue[i + 1]
      /\ Head(queue) = queue[1]
  BY <1>1
<1>3. \A i \in 1..k : queue[i] = arrived[n - k + i] BY DEF RecvInv, QueueHoldsLatest
<1>4. QueueHoldsLatest'
  <2>1. ASSUME NEW i \in 1..(k - 1) PROVE queue'[i] = arrived'[n - (k - 1) + i]
    <3>1. i + 1 \in 1..k /\ n - k + (i + 1) = n - (k - 1) + i BY <1>0
    <3>2. queue'[i] = queue[i + 1] BY <1>2
    <3>3. queue[i + 1] = arrived[n - k + (i + 1)] BY <1>3, <3>1
    <3> QED BY <1>1, <3>1, <3>2, <3>3
  <2> QED BY <1>0, <1>1, <1>2, <2>1 DEF QueueHoldsLatest
<1>5. Gone = n - k /\ Gone' = Gone + 1 /\ Gone \in Nat BY <1>0, <1>1, <1>2 DEF Gone
<1>6. Head(queue) = arrived[Gone'] /\ Gone' \in 1..n
  <2>1. 1 \in 1..k BY <1>0, <1>2
  <2>2. queue[1] = arrived[n - k + 1] BY <1>3, <2>1
  <2> QED BY <1>0, <1>2, <1>5, <2>2
<1>7. Grows BY <1>0, <1>1, <1>5 DEF Grows
<1>8. ASSUME NEW q \in Pollers, q # p PROVE PollerInv(q)'
  <2>1. inHand'[q] = inHand[q] /\ got'[q] = got[q] BY <1>1, <1>8 DEF TypeOK
  <2> QED BY <1>7, <2>1, PollerKeeps DEF RecvInv
<1>9. PollerInv(p)'
  <2>0. PollerInv(p) /\ Len(got[p]) \in Nat BY LengthTypes DEF RecvInv
  <2>1. inHand'[p] = arrived[Gone'] BY <1>1, <1>6 DEF TypeOK
  <2>2. ASSUME NEW i \in 1..Len(got[p])
        PROVE  /\ \E l \in 1..Gone' : arrived[l] = got[p][i]
               /\ \E a, b \in 1..n : a < b /\ arrived[a] = got[p][i] /\ arrived[b] = inHand'[p]
    <3>1. PICK l \in 1..Gone : arrived[l] = got[p][i] BY <2>0 DEF PollerInv
    <3>2. l < Gone' /\ l \in 1..Gone' /\ l \in 1..n BY <1>5, <1>6
    <3> QED BY <1>6, <2>1, <3>1, <3>2
  <2>3. \A i, j \in 1..Len(got[p]) : i < j => ArrivedBefore(got[p][i], got[p][j])
    BY <2>0 DEF PollerInv
  <2>4. Len(got[p]) <= Gone BY <2>0 DEF PollerInv
  <2>5. \E l \in 1..Gone' : arrived'[l] = inHand'[p] BY <1>1, <1>5, <2>1
  <2>6. Len(got[p]) < Gone' BY <1>5, <2>0, <2>4
  <2>7. Len(got[p]) <= Gone' BY <1>5, <2>0, <2>4
  <2> QED BY <1>1, <2>2, <2>3, <2>5, <2>6, <2>7 DEF PollerInv, ArrivedBefore
<1> QED BY <1>4, <1>8, <1>9 DEF RecvInv

LEMMA HandInv ==
    ASSUME TypeOK, TypeOK', RecvInv, NEW p \in Pollers, HandOver(p) \/ HandOverFails(p)
    PROVE  RecvInv'
<1>1. UNCHANGED <<queue, arrived>> /\ inHand' = [inHand EXCEPT ![p] = NoMsg] /\ inHand[p] # NoMsg
  BY DEF HandOver, HandOverFails
<1>2. QueueHoldsLatest' /\ Gone' = Gone /\ Gone \in Int
  BY <1>1, LengthTypes DEF RecvInv, QueueHoldsLatest, Gone
<1>3. Grows BY <1>1, <1>2, LengthTypes DEF Grows
<1>4. ASSUME NEW q \in Pollers, q # p PROVE PollerInv(q)'
  <2>1. inHand'[q] = inHand[q] /\ got'[q] = got[q]
    BY <1>1, <1>4 DEF TypeOK, HandOver, HandOverFails
  <2> QED BY <1>3, <2>1, PollerKeeps DEF RecvInv
<1>5. PollerInv(p)'
  <2>0. PollerInv(p) /\ Len(got[p]) \in Nat BY LengthTypes DEF RecvInv
  <2>1. inHand'[p] = NoMsg BY <1>1 DEF TypeOK
  <2>2. CASE HandOverFails(p)
    <3>1. got' = got BY <2>2 DEF HandOverFails
    <3> QED BY <1>1, <1>2, <2>0, <2>1, <3>1 DEF PollerInv, ArrivedBefore
  <2>3. CASE HandOver(p)
    <3> DEFINE k == Len(got[p])
    <3>1. got'[p] = Append(got[p], inHand[p]) /\ got[p] \in Seq(Calls) BY <2>3 DEF HandOver, TypeOK
    <3>2. /\ Len(got'[p]) = k + 1 /\ got'[p][k + 1] = inHand[p]
          /\ \A i \in 1..k : got'[p][i] = got[p][i]
      BY <3>1
    <3>3. \A i \in 1..(k + 1) : i \in 1..k \/ i = k + 1 BY <2>0
    <3>4. \A i \in 1..(k + 1) : \E l \in 1..Gone : arrived[l] = got'[p][i]
      BY <1>1, <2>0, <3>2, <3>3 DEF PollerInv
    <3>5. ASSUME NEW i \in 1..(k + 1), NEW j \in 1..(k + 1), i < j
          PROVE  ArrivedBefore(got'[p][i], got'[p][j])
      <4>1. i \in 1..k BY <2>0, <3>5
      <4>2. CASE j = k + 1
        <5>1. ArrivedBefore(got[p][i], inHand[p]) BY <1>1, <2>0, <4>1 DEF PollerInv
        <5> QED BY <3>2, <4>1, <4>2, <5>1
      <4>3. CASE j \in 1..k
        <5>1. ArrivedBefore(got[p][i], got[p][j]) BY <2>0, <3>5, <4>1, <4>3 DEF PollerInv
        <5> QED BY <3>2, <4>1, <4>3, <5>1
      <4> QED BY <3>3, <4>2, <4>3
    <3>6. Len(got'[p]) <= Gone BY <1>1, <1>2, <2>0, <3>2 DEF PollerInv
    <3> QED BY <1>1, <1>2, <2>1, <3>2, <3>4, <3>5, <3>6 DEF PollerInv, ArrivedBefore
  <2> QED BY <2>2, <2>3
<1> QED BY <1>2, <1>4, <1>5 DEF RecvInv

LEMMA RestartInv ==
    ASSUME TypeOK, TypeOK', RecvInv, Restart
    PROVE  RecvInv'
<1>0. Len(arrived) \in Nat /\ Len(queue) \in Nat /\ Len(queue) <= Len(arrived)
  BY LengthTypes DEF RecvInv, QueueHoldsLatest
<1>1. /\ queue' = <<>> /\ UNCHANGED <<got, arrived>>
      /\ \A p \in Pollers : inHand'[p] = NoMsg
  BY DEF Restart
<1>2. QueueHoldsLatest' BY <1>0, <1>1 DEF QueueHoldsLatest
<1>3. Gone' = Len(arrived) /\ Gone \in Nat /\ Gone <= Len(arrived) BY <1>0, <1>1 DEF Gone
<1>4. ASSUME NEW p \in Pollers PROVE PollerInv(p)'
  <2>1. PollerInv(p) /\ Len(got[p]) \in Nat BY LengthTypes DEF RecvInv
  <2>2. ASSUME NEW i \in 1..Len(got[p]) PROVE \E l \in 1..Gone' : arrived[l] = got[p][i]
    <3>1. PICK l \in 1..Gone : arrived[l] = got[p][i] BY <2>1 DEF PollerInv
    <3> QED BY <1>0, <1>3, <3>1
  <2>3. \A i, j \in 1..Len(got[p]) : i < j => ArrivedBefore(got[p][i], got[p][j])
    BY <2>1 DEF PollerInv
  <2>4. Len(got[p]) <= Gone' BY <1>3, <2>1 DEF PollerInv
  <2> QED BY <1>1, <2>2, <2>3, <2>4 DEF PollerInv, ArrivedBefore
<1> QED BY <1>2, <1>4 DEF RecvInv

LEMMA RecvInvStep == TypeOK /\ TypeOK' /\ RecvInv /\ [Next]_vars => RecvInv'
<1>1. ASSUME RecvInv, UNCHANGED recvVars PROVE RecvInv'
  <2>0. queue' = queue /\ inHand' = inHand /\ got' = got /\ arrived' = arrived BY <1>1 DEF recvVars
  <2>1. QueueHoldsLatest' BY <1>1, <2>0 DEF RecvInv, QueueHoldsLatest
  <2>2. ASSUME NEW p \in Pollers PROVE PollerInv(p)'
    <3>1. PollerInv(p) BY <1>1 DEF RecvInv
    <3>2. Gone' = Gone BY <2>0 DEF Gone
    <3>3. ASSUME NEW a, NEW b PROVE ArrivedBefore(a, b)' <=> ArrivedBefore(a, b)
      BY <2>0 DEF ArrivedBefore
    <3> QED BY <2>0, <3>1, <3>2, <3>3 DEF PollerInv
  <2> QED BY <2>1, <2>2 DEF RecvInv
<1> QED BY <1>1, RecvSteps, ArrivalInv, PopInv, HandInv, RestartInv DEF PollerStep

LEMMA AlwaysRecvInv == Spec => []RecvInv
<1>1. Init => RecvInv
  BY DEF Init, RecvInv, QueueHoldsLatest, PollerInv, Gone
<1> QED BY <1>1, RecvInvStep, TypeCorrect, PTL DEF Spec

(* The queue of api/recv.go holds the latest arrivals without a gap. *)
THEOREM HoldsLatest == Spec => []QueueHoldsLatest
<1>1. RecvInv => QueueHoldsLatest BY DEF RecvInv
<1> QED BY <1>1, AlwaysRecvInv, PTL

(* HandleRecv gives each of its pollers messages in the order in which they
   arrived, through overflows, other pollers and restarts. *)
THEOREM OrderKept == Spec => []ArrivalOrderKept
<1>1. RecvInv => ArrivalOrderKept BY DEF RecvInv, PollerInv, ArrivalOrderKept
<1> QED BY <1>1, AlwaysRecvInv, PTL

-----------------------------------------------------------------------------
(* Where a message can be, and how often. *)

Arrived(c) == \E l \in 1..Len(arrived) : arrived[l] = c

CallInv(c) ==
    /\ wire[c] = "all" \/ Arrived(c) => Written(c)
    /\ ~(wire[c] = "all" /\ Arrived(c))
    /\ caller[c] \in {"waiting", "answered"} => c \notin OneWay
    /\ caller[c] = "answered" => c \in reply
    /\ conn[c] \in {"forwarding", "answering"} \/ c \in reply => c \in ForStream
    /\ Arrived(c) => c \notin ForStream

WaysInv == /\ \A c \in Calls : CallInv(c)
           /\ \A k, l \in 1..Len(arrived) : arrived[k] = arrived[l] => k = l

LEMMA CallerWaysInv ==
    ASSUME TypeOK, WaysInv, NEW c \in Calls, CallerStep(c)
    PROVE  WaysInv'
<1>1. UNCHANGED <<arrived, reply>>
  BY DEF CallerStep, Dial, DialFails, WriteMessage, WriteFails, ReadAnswer, CallFails, recvVars
<1>2. ASSUME NEW d \in Calls PROVE Arrived(d)' <=> Arrived(d) BY <1>1 DEF Arrived
<1> USE DEF TypeOK, WaysInv, CallInv, Written
<1>3. CASE Dial(c) \/ DialFails(c) BY <1>1, <1>2, <1>3 DEF Dial, DialFails
<1>4. CASE WriteMessage(c)
  <2>1. ~Arrived(c) BY <1>4 DEF WriteMessage
  <2> QED BY <1>1, <1>2, <1>4, <2>1 DEF WriteMessage
<1>5. CASE WriteFails(c)
  <2>1. ~Arrived(c) BY <1>5 DEF WriteFails
  <2> QED BY <1>1, <1>2, <1>5, <2>1 DEF WriteFails
<1>6. CASE ReadAnswer(c) \/ CallFails(c) BY <1>1, <1>2, <1>6 DEF ReadAnswer, CallFails
<1> QED BY <1>3, <1>4, <1>5, <1>6 DEF CallerStep

LEMMA ListenerWaysInv ==
    ASSUME TypeOK, WaysInv, NEW c \in Calls, ListenerStep(c)
    PROVE  WaysInv'
<1> USE DEF TypeOK, WaysInv, CallInv, Written, callVars, recvVars
<1>1. CASE ReadForQueue(c)
  <2> DEFINE n == Len(arrived)
  <2>1. /\ n \in Nat /\ Len(arrived') = n + 1 /\ arrived'[n + 1] = c
        /\ \A l \in 1..n : arrived'[l] = arrived[l]
    BY <1>1 DEF ReadForQueue
  <2> HIDE DEF n
  <2>2. ASSUME NEW d \in Calls PROVE Arrived(d)' <=> Arrived(d) \/ d = c
    <3>1. n + 1 \in 1..Len(arrived') /\ \A l \in 1..n : l \in 1..Len(arrived') BY <2>1
    <3>2. \A l \in 1..Len(arrived') : l \in 1..n \/ l = n + 1 BY <2>1
    <3>3. Arrived(d) <=> \E l \in 1..n : arrived[l] = d BY DEF Arrived, n
    <3> QED BY <2>1, <3>1, <3>2, <3>3 DEF Arrived
  <2>3. wire[c] = "all" /\ c \notin ForStream /\ ~Arrived(c) /\ Written(c)
    BY <1>1 DEF ReadForQueue, Readable
  <2>4. ASSUME NEW d \in Calls PROVE CallInv(d)' BY <1>1, <2>2, <2>3 DEF ReadForQueue
  <2>5. ASSUME NEW k \in 1..(n + 1), NEW l \in 1..(n + 1), arrived'[k] = arrived'[l] PROVE k = l
    <3>1. \A i \in 1..(n + 1) : i \in 1..n \/ i = n + 1 BY <2>1
    <3>2. \A i \in 1..n : arrived'[i] # c BY <2>1, <2>3 DEF Arrived, n
    <3>3. \A i, j \in 1..n : arrived'[i] = arrived'[j] => i = j BY <2>1 DEF n
    <3> QED BY <2>1, <2>5, <3>1, <3>2, <3>3
  <2> QED BY <2>1, <2>4, <2>5
<1>2. CASE UNCHANGED arrived
  <2>1. ASSUME NEW d \in Calls PROVE Arrived(d)' <=> Arrived(d) BY <1>2 DEF Arrived
  <2>2. CASE Accept(c) \/ Reject(c) \/ CloseConn(c)
    BY <1>2, <2>1, <2>2 DEF Accept, Reject, CloseConn
  <2>3. CASE ReadForStream(c) BY <1>2, <2>1, <2>3 DEF ReadForStream
  <2>4. CASE ForwardReturns(c) \/ AnswerDropped(c)
    <3>1. c \in ForStream BY <2>4 DEF ForwardReturns, AnswerDropped
    <3> QED BY <1>2, <2>1, <2>4, <3>1 DEF ForwardReturns, AnswerDropped
  <2>5. CASE AnswerWritten(c)
    <3>1. c \in ForStream BY <2>5 DEF AnswerWritten
    <3> QED BY <1>2, <2>1, <2>5, <3>1 DEF AnswerWritten
  <2>6. CASE ReadForQueue(c) BY <1>1, <2>6
  <2> QED BY <2>2, <2>3, <2>4, <2>5, <2>6 DEF ListenerStep
<1> QED
  BY <1>1, <1>2 DEF ListenerStep, Accept, Reject, CloseConn, ReadForStream, ForwardReturns,
     AnswerWritten, AnswerDropped

LEMMA WaysInvStep == TypeOK /\ WaysInv /\ [Next]_vars => WaysInv'
<1>1. ASSUME TypeOK, WaysInv, UNCHANGED <<arrived, reply, caller>>,
             \A c \in Calls : wire'[c] \in {wire[c], "nothing"} /\ conn'[c] \in {conn[c], "closed", "none"}
      PROVE  WaysInv'
  <2>1. ASSUME NEW d \in Calls PROVE Arrived(d)' <=> Arrived(d) BY <1>1 DEF Arrived
  <2> QED BY <1>1, <2>1 DEF WaysInv, CallInv, Written
<1>2. ASSUME TypeOK, WaysInv, NEW p \in Pollers, PollerStep(p) PROVE WaysInv'
  BY <1>1, <1>2 DEF PollerStep, Pop, HandOver, HandOverFails, callVars
<1>3. ASSUME TypeOK, WaysInv, Restart PROVE WaysInv' BY <1>1, <1>3 DEF Restart
<1>4. ASSUME TypeOK, WaysInv, UNCHANGED vars PROVE WaysInv' BY <1>1, <1>4 DEF vars, callVars, recvVars
<1> QED BY <1>2, <1>3, <1>4, CallerWaysInv, ListenerWaysInv DEF Next

LEMMA AlwaysWaysInv == Spec => []WaysInv
<1>1. Init => WaysInv
  <2> SUFFICES ASSUME Init PROVE WaysInv OBVIOUS
  <2>1. \A c \in Calls : ~Arrived(c) BY DEF Init, Arrived
  <2> QED BY <2>1 DEF Init, WaysInv, CallInv
<1> QED BY <1>1, WaysInvStep, TypeCorrect, PTL DEF Spec

(* Only the stream that took its message answers a call; no message is both
   answered and left to the pollers. *)
THEOREM OnlyStreamsAnswer == Spec => []AnsweredByStream
<1>1. TypeOK /\ WaysInv => AnsweredByStream
  <2> SUFFICES ASSUME TypeOK, WaysInv, NEW c \in Calls, caller[c] = "answered"
               PROVE  c \in ForStream \ OneWay /\ c \notin Range(arrived)
    BY DEF AnsweredByStream
  <2>1. CallInv(c) BY DEF WaysInv
  <2>2. c \in ForStream \ OneWay /\ ~Arrived(c) BY <2>1 DEF CallInv
  <2>3. DOMAIN arrived = 1..Len(arrived) BY DEF TypeOK
  <2> QED BY <2>2, <2>3 DEF Range, Arrived
<1> QED BY <1>1, TypeCorrect, AlwaysWaysInv, PTL

-----------------------------------------------------------------------------
(* The refinement: every arrival is in one place at a time, so it is handed
   over at most once. *)

OnceInv ==
    /\ \A p, q \in Pollers : inHand[p] # NoMsg /\ inHand[p] = inHand[q] => p = q
    /\ \A p, q \in Pollers : \A i \in 1..Len(got[p]) : got[p][i] # inHand[q]
    /\ \A p, q \in Pollers : \A i \in 1..Len(got[p]), j \in 1..Len(got[q]) :
           got[p][i] = got[q][j] => p = q /\ i = j

(* What is popped was in nobody's hand and given to nobody. *)
LEMMA PoppedIsNew ==
    ASSUME TypeOK, RecvInv, WaysInv, queue # <<>>
    PROVE  /\ Head(queue) \in Calls
           /\ \A q \in Pollers : /\ inHand[q] # Head(queue)
                                 /\ \A i \in 1..Len(got[q]) : got[q][i] # Head(queue)
<1> DEFINE n == Len(arrived)
           k == Len(queue)
<1>1. /\ n \in Nat /\ k \in Nat /\ 0 < k /\ k <= n /\ Head(queue) = queue[1] /\ Head(queue) \in Calls
  BY DEF TypeOK, RecvInv, QueueHoldsLatest
<1>2. Head(queue) = arrived[n - k + 1] /\ n - k + 1 \in 1..n
  BY <1>1 DEF RecvInv, QueueHoldsLatest
<1>3. ASSUME NEW l \in 1..Gone PROVE arrived[l] # Head(queue)
  <2>1. l \in 1..n /\ l # n - k + 1 BY <1>1 DEF Gone
  <2> QED BY <1>2, <2>1 DEF WaysInv
<1>4. ASSUME NEW q \in Pollers PROVE inHand[q] # Head(queue)
  <2>1. inHand[q] = NoMsg \/ \E l \in 1..Gone : arrived[l] = inHand[q] BY DEF RecvInv, PollerInv
  <2> QED BY <1>1, <1>3, <2>1, AxlNodeAssumption
<1>5. ASSUME NEW q \in Pollers, NEW i \in 1..Len(got[q]) PROVE got[q][i] # Head(queue)
  <2>1. \E l \in 1..Gone : arrived[l] = got[q][i] BY DEF RecvInv, PollerInv
  <2> QED BY <1>3, <2>1
<1> QED BY <1>1, <1>4, <1>5

LEMMA HandOverOnceInv ==
    ASSUME TypeOK, OnceInv, NEW p \in Pollers, HandOver(p)
    PROVE  OnceInv'
<1> DEFINE k == Len(got[p])
           m == inHand[p]
<1>1. /\ m \in Calls /\ k \in Nat /\ got[p] \in Seq(Calls)
      /\ inHand' = [inHand EXCEPT ![p] = NoMsg] /\ got' = [got EXCEPT ![p] = Append(got[p], m)]
  BY DEF HandOver, TypeOK
<1>2. /\ Len(got'[p]) = k + 1 /\ got'[p][k + 1] = m
      /\ \A i \in 1..k : got'[p][i] = got[p][i]
  BY <1>1 DEF TypeOK
<1>3. \A q \in Pollers : q # p => got'[q] = got[q] /\ inHand'[q] = inHand[q]
  BY <1>1 DEF TypeOK
<1>4. inHand'[p] = NoMsg BY <1>1 DEF TypeOK
<1>5. \A q \in Pollers : \A i \in 1..Len(got'[q]) :
          \/ i \in 1..Len(got[q]) /\ got'[q][i] = got[q][i]
          \/ q = p /\ i = k + 1 /\ got'[q][i] = m
  BY <1>1, <1>2, <1>3
<1>6. \A q \in Pollers : \A i \in 1..Len(got[q]) : got[q][i] # m /\ got[q][i] # NoMsg
  <2>1. ASSUME NEW q \in Pollers, NEW i \in 1..Len(got[q]) PROVE got[q][i] \in Calls
    BY DEF TypeOK
  <2> QED BY <2>1, AxlNodeAssumption DEF OnceInv
<1>7. m # NoMsg /\ \A q \in Pollers : q # p => inHand[q] # m
  BY <1>1, AxlNodeAssumption DEF OnceInv
<1>8. \A q, r \in Pollers : inHand'[q] # NoMsg /\ inHand'[q] = inHand'[r] => q = r
  BY <1>3, <1>4 DEF OnceInv
<1>9. ASSUME NEW q \in Pollers, NEW r \in Pollers, NEW i \in 1..Len(got'[q])
      PROVE  got'[q][i] # inHand'[r]
  <2>1. CASE r = p BY <1>4, <1>5, <1>6, <1>7, <2>1
  <2>2. CASE r # p BY <1>3, <1>5, <1>7, <2>2 DEF OnceInv
  <2> QED BY <2>1, <2>2
<1>10. ASSUME NEW q \in Pollers, NEW r \in Pollers, NEW i \in 1..Len(got'[q]), NEW j \in 1..Len(got'[r]),
              got'[q][i] = got'[r][j]
       PROVE  q = r /\ i = j
  BY <1>5, <1>6, <1>10 DEF OnceInv
<1> QED BY <1>8, <1>9, <1>10 DEF OnceInv

LEMMA OnceInvStep == TypeOK /\ RecvInv /\ WaysInv /\ OnceInv /\ [Next]_vars => OnceInv'
<1> SUFFICES ASSUME TypeOK, RecvInv, WaysInv, OnceInv, [Next]_vars PROVE OnceInv'
  OBVIOUS
<1>1. CASE UNCHANGED <<inHand, got>> BY <1>1 DEF OnceInv
<1>2. ASSUME NEW p \in Pollers, Pop(p) PROVE OnceInv'
  <2>1. got' = got /\ inHand' = [inHand EXCEPT ![p] = Head(queue)] /\ queue # <<>>
    BY <1>2 DEF Pop
  <2>2. inHand'[p] = Head(queue) /\ \A q \in Pollers : q # p => inHand'[q] = inHand[q]
    BY <2>1 DEF TypeOK
  <2>3. \A q \in Pollers : inHand[q] # Head(queue) /\ \A i \in 1..Len(got[q]) : got[q][i] # Head(queue)
    BY <2>1, PoppedIsNew
  <2>4. \A q, r \in Pollers : inHand'[q] # NoMsg /\ inHand'[q] = inHand'[r] => q = r
    BY <2>2, <2>3 DEF OnceInv
  <2>5. \A q, r \in Pollers : \A i \in 1..Len(got[q]) : got[q][i] # inHand'[r]
    BY <2>2, <2>3 DEF OnceInv
  <2> QED BY <2>1, <2>4, <2>5 DEF OnceInv
<1>3. ASSUME NEW p \in Pollers, HandOver(p) PROVE OnceInv' BY <1>3, HandOverOnceInv
<1>4. ASSUME got' = got, \A p \in Pollers : inHand'[p] \in {inHand[p], NoMsg} PROVE OnceInv'
  <2>1. ASSUME NEW q \in Pollers, NEW i \in 1..Len(got[q]) PROVE got[q][i] # NoMsg
    BY <2>1, AxlNodeAssumption DEF TypeOK
  <2> QED BY <1>4, <2>1 DEF OnceInv
<1>5. ASSUME NEW p \in Pollers, HandOverFails(p) PROVE OnceInv'
  BY <1>4, <1>5 DEF HandOverFails, TypeOK
<1>6. CASE Restart BY <1>4, <1>6 DEF Restart
<1>7. CASE UNCHANGED recvVars \/ \E c \in Calls : ReadForQueue(c)
  BY <1>1, <1>7 DEF recvVars, ReadForQueue
<1> QED BY <1>2, <1>3, <1>5, <1>6, <1>7, RecvSteps DEF PollerStep

LEMMA AlwaysOnceInv == Spec => []OnceInv
<1>1. Init => OnceInv
  <2> SUFFICES ASSUME Init PROVE OnceInv OBVIOUS
  <2>1. \A p \in Pollers : inHand[p] = NoMsg /\ Len(got[p]) = 0 BY DEF Init
  <2> QED BY <2>1 DEF OnceInv
<1> QED BY <1>1, OnceInvStep, TypeCorrect, AlwaysRecvInv, AlwaysWaysInv, PTL DEF Spec

(* Where a message has been handed over, as long as arrivals only grow. *)
LEMMA PlacesShape ==
    ASSUME TypeOK, RecvInv, NEW c
    PROVE  \A at : at \in Places(c) <=>
               /\ at \in Pollers \X Nat /\ at[2] \in 1..Len(got[at[1]])
               /\ got[at[1]][at[2]] = c
<1>1. \A p \in Pollers : Len(got[p]) \in Nat /\ Len(got[p]) <= Len(arrived)
  BY LengthTypes DEF RecvInv, PollerInv, Gone, QueueHoldsLatest
<1>2. Len(arrived) \in Nat BY LengthTypes
<1> QED BY <1>1, <1>2 DEF Places

LEMMA PlacesSame ==
    ASSUME TypeOK, RecvInv, TypeOK', RecvInv', got' = got, NEW c \in Calls
    PROVE  Handed(c)' = Handed(c)
<1>1. Places(c)' = Places(c)
  <2>1. \A at : at \in Places(c) <=>
            at \in Pollers \X Nat /\ at[2] \in 1..Len(got[at[1]]) /\ got[at[1]][at[2]] = c
    BY PlacesShape
  <2>2. \A p \in Pollers : Len(got[p]) \in Nat /\ Len(got[p]) <= Len(arrived')
    BY LengthTypes DEF RecvInv, PollerInv, Gone, QueueHoldsLatest, TypeOK
  <2>3. Len(arrived') \in Nat BY DEF TypeOK
  <2>4. \A at : at \in Places(c)' <=>
            at \in Pollers \X Nat /\ at[2] \in 1..Len(got[at[1]]) /\ got[at[1]][at[2]] = c
    BY <2>2, <2>3 DEF Places
  <2> QED BY <2>1, <2>4
<1> QED BY <1>1 DEF Handed

LEMMA HandOverPlaces ==
    ASSUME TypeOK, RecvInv, OnceInv, TypeOK', RecvInv', NEW p \in Pollers, HandOver(p),
           NEW m, m = inHand[p]
    PROVE  /\ m \in Calls
           /\ Handed(m) = 0 /\ Handed(m)' = 1
           /\ \A c \in Calls : c # m => Handed(c)' = Handed(c)
<1> DEFINE k == Len(got[p])
           At(c, at) == at \in Pollers \X Nat /\ at[2] \in 1..Len(got'[at[1]]) /\ got'[at[1]][at[2]] = c
<1>1. /\ m \in Calls /\ k \in Nat /\ got[p] \in Seq(Calls)
      /\ got' = [got EXCEPT ![p] = Append(got[p], m)]
      /\ UNCHANGED <<arrived, queue>>
  BY DEF HandOver, TypeOK
<1>2. /\ Len(got'[p]) = k + 1 /\ got'[p][k + 1] = m
      /\ \A i \in 1..k : got'[p][i] = got[p][i]
      /\ \A q \in Pollers : q # p => got'[q] = got[q]
  BY <1>1 DEF TypeOK
<1>3. ASSUME NEW c PROVE \A at : at \in Places(c) <=>
          at \in Pollers \X Nat /\ at[2] \in 1..Len(got[at[1]]) /\ got[at[1]][at[2]] = c
  BY PlacesShape
<1>4. ASSUME NEW c PROVE \A at : at \in {x \in Pollers \X (1..Len(arrived)) :
                              x[2] <= Len(got'[x[1]]) /\ got'[x[1]][x[2]] = c} <=> At(c, at)
  <2>1. \A q \in Pollers : Len(got'[q]) \in Nat /\ Len(got'[q]) <= Len(arrived)
    BY <1>1, LengthTypes DEF RecvInv, PollerInv, Gone, QueueHoldsLatest, TypeOK
  <2>2. Len(arrived) \in Nat BY LengthTypes
  <2> QED BY <2>1, <2>2
<1>5. \A q \in Pollers : \A i : i \in 1..Len(got'[q]) <=> i \in 1..Len(got[q]) \/ (q = p /\ i = k + 1)
  BY <1>1, <1>2
<1>6. Places(m) = {}
  BY <1>3 DEF OnceInv
<1>7. Handed(m) = 0 BY <1>6, FS_EmptySet DEF Handed
<1>8. {x \in Pollers \X (1..Len(arrived)) : x[2] <= Len(got'[x[1]]) /\ got'[x[1]][x[2]] = m} = {<<p, k + 1>>}
  <2>1. At(m, <<p, k + 1>>) BY <1>1, <1>2
  <2>2. ASSUME NEW at, At(m, at) PROVE at = <<p, k + 1>>
    <3>1. at \in Pollers \X Nat /\ at = <<at[1], at[2]>> BY <2>2
    <3>2. CASE at[1] = p /\ at[2] = k + 1 BY <3>1, <3>2
    <3>3. CASE at[2] \in 1..Len(got[at[1]])
      <4>1. got'[at[1]][at[2]] = got[at[1]][at[2]] BY <1>2, <2>2, <3>3
      <4>2. got[at[1]][at[2]] = inHand[p] /\ at[1] \in Pollers BY <2>2, <3>3, <4>1
      <4> QED BY <3>3, <4>2 DEF OnceInv
    <3> QED BY <1>5, <2>2, <3>2, <3>3
  <2> HIDE DEF At
  <2> QED BY <1>4, <2>1, <2>2
<1>9. Handed(m)' = 1
  BY <1>1, <1>8, FS_Singleton DEF Handed, Places, HandOver
<1>10. ASSUME NEW c \in Calls, c # m PROVE Handed(c)' = Handed(c)
  <2>1. ASSUME NEW at PROVE At(c, at) <=> at \in Places(c)
    BY <1>2, <1>3, <1>5, <1>10
  <2> HIDE DEF At
  <2>2. {x \in Pollers \X (1..Len(arrived)) : x[2] <= Len(got'[x[1]]) /\ got'[x[1]][x[2]] = c} = Places(c)
    BY <1>4, <2>1
  <2> QED BY <1>1, <2>2 DEF Handed, Places
<1> QED BY <1>1, <1>7, <1>9, <1>10

Sent == {c \in Calls : Written(c)}
HandedBy == [c \in Calls |-> Handed(c)]

LEMMA HandedSame ==
    ASSUME TypeOK, RecvInv, TypeOK', RecvInv', got' = got
    PROVE  HandedBy' = HandedBy
<1>1. \A c \in Calls : Handed(c)' = Handed(c) BY PlacesSame
<1> QED BY <1>1 DEF HandedBy

LEMMA SentSame ==
    ASSUME TypeOK, NEW c \in Calls, \A d \in Calls \ {c} : caller'[d] = caller[d],
           Written(c)' <=> Written(c)
    PROVE  Sent' = Sent
<1>1. ASSUME NEW d \in Calls PROVE Written(d)' <=> Written(d) BY DEF Written
<1> QED BY <1>1 DEF Sent

LEMMA WriteMaps ==
    ASSUME TypeOK, RecvInv, TypeOK', RecvInv', NEW c \in Calls, WriteMessage(c)
    PROVE  Chan!Send(c)
<1>1. got' = got /\ caller[c] = "dialled" /\ caller'[c] \in {"ok", "waiting"}
      /\ \A d \in Calls : d # c => caller'[d] = caller[d]
  BY DEF WriteMessage, recvVars, TypeOK
<1>2. HandedBy' = HandedBy BY <1>1, HandedSame
<1>3. Sent' = Sent \cup {c} /\ c \in Calls \ Sent
  <2>1. ASSUME NEW d \in Calls PROVE Written(d)' <=> Written(d) \/ d = c BY <1>1 DEF Written
  <2>2. ~Written(c) BY <1>1 DEF Written
  <2> QED BY <2>1, <2>2 DEF Sent
<1> QED BY <1>2, <1>3 DEF Chan!Send, Sent, HandedBy

LEMMA HandMaps ==
    ASSUME TypeOK, RecvInv, WaysInv, OnceInv, TypeOK', RecvInv', NEW p \in Pollers, HandOver(p)
    PROVE  \E m \in Calls : Chan!Hand(m)
<1> PICK m : m = inHand[p] OBVIOUS
<1>1. /\ m \in Calls /\ Handed(m) = 0 /\ Handed(m)' = 1
      /\ \A c \in Calls : c # m => Handed(c)' = Handed(c)
  BY HandOverPlaces
<1>2. HandedBy' = [HandedBy EXCEPT ![m] = 1] /\ HandedBy[m] = 0 BY <1>1 DEF HandedBy
<1>3. m \in Sent
  <2>1. inHand[p] # NoMsg /\ Len(queue) \in Nat /\ Len(arrived) \in Nat BY DEF HandOver, TypeOK
  <2>2. \E l \in 1..Gone : arrived[l] = m BY <2>1 DEF RecvInv, PollerInv
  <2>3. Gone <= Len(arrived) /\ Gone \in Int BY <2>1 DEF Gone
  <2>4. Arrived(m) BY <2>1, <2>2, <2>3 DEF Arrived
  <2> QED BY <1>1, <2>4 DEF WaysInv, CallInv, Sent
<1>4. Sent' = Sent BY DEF HandOver, callVars, Sent, Written
<1> QED BY <1>1, <1>2, <1>3, <1>4 DEF Chan!Hand, Sent, HandedBy

(* Every other step leaves both sides of the channel as they are. *)
LEMMA OtherSteps ==
    ASSUME TypeOK, [Next]_vars
    PROVE  \/ \E c \in Calls : WriteMessage(c)
           \/ \E p \in Pollers : HandOver(p)
           \/ got' = got /\ Sent' = Sent
<1>1. ASSUME UNCHANGED caller PROVE Sent' = Sent BY <1>1 DEF Sent, Written
<1>2. ASSUME NEW c \in Calls, Dial(c) \/ DialFails(c) \/ WriteFails(c) \/ ReadAnswer(c) \/ CallFails(c)
      PROVE  got' = got /\ Sent' = Sent
  <2>1. got' = got BY <1>2 DEF Dial, DialFails, WriteFails, ReadAnswer, CallFails, recvVars
  <2>2. /\ \A d \in Calls \ {c} : caller'[d] = caller[d]
        /\ Written(c)' <=> Written(c)
    BY <1>2 DEF Dial, DialFails, WriteFails, ReadAnswer, CallFails, TypeOK, Written
  <2> QED BY <2>1, <2>2, SentSame
<1>3. ASSUME NEW c \in Calls, ListenerStep(c) PROVE UNCHANGED <<got, caller>>
  BY <1>3 DEF ListenerStep, Accept, Reject, ReadForStream, ReadForQueue, ForwardReturns,
     AnswerWritten, AnswerDropped, CloseConn, callVars, recvVars
<1>4. ASSUME NEW p \in Pollers, Pop(p) \/ HandOverFails(p) PROVE UNCHANGED <<got, caller>>
  BY <1>4 DEF Pop, HandOverFails, callVars
<1>5. ASSUME Restart \/ UNCHANGED vars PROVE UNCHANGED <<got, caller>>
  BY <1>5 DEF Restart, vars, callVars, recvVars
<1> QED BY <1>1, <1>2, <1>3, <1>4, <1>5 DEF Next, CallerStep, PollerStep

LEMMA NextMaps ==
    ASSUME TypeOK, RecvInv, WaysInv, OnceInv, TypeOK', RecvInv', [Next]_vars
    PROVE  [Chan!CNext]_Chan!channelVars
<1>1. CASE \E c \in Calls : WriteMessage(c) BY <1>1, WriteMaps DEF Chan!CNext
<1>2. CASE \E p \in Pollers : HandOver(p) BY <1>2, HandMaps DEF Chan!CNext
<1>3. CASE got' = got /\ Sent' = Sent
  BY <1>3, HandedSame DEF Chan!channelVars, Sent, HandedBy
<1> QED BY <1>1, <1>2, <1>3, OtherSteps

LEMMA InitMaps == Init => Chan!CInit
<1> SUFFICES ASSUME Init PROVE Chan!CInit OBVIOUS
<1>1. Sent = {} BY DEF Init, Sent, Written
<1>2. ASSUME NEW c \in Calls PROVE Handed(c) = 0
  <2>1. Places(c) = {} BY DEF Init, Places
  <2> QED BY <2>1, FS_EmptySet DEF Handed
<1> QED BY <1>1, <1>2 DEF Chan!CInit, Sent

(* The node is a Channel: /send and /recv together hand a message over at most
   once and only after its sender has written it, whatever is dropped, polled
   concurrently or lost in a restart. *)
THEOREM NodeIsChannel == Spec => ChannelSpec
BY InitMaps, NextMaps, TypeCorrect, AlwaysRecvInv, AlwaysWaysInv, AlwaysOnceInv, PTL
   DEF Spec, ChannelSpec, Chan!CSpec
=============================================================================

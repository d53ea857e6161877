-------------------------- MODULE SettlementProofs --------------------------
(***************************************************************************)
(* Proofs about Settlement for every set of daemons, receipts and hashes,  *)
(* every number of crashes and every choice of faults.                     *)
(***************************************************************************)
EXTENDS Settlement, FiniteSetTheorems, TLAPS

(* A record that was only requested has no hash. *)
RecordShape ==
    \A d \in Daemons, r \in Receipts :
        record[d][r].status \in {"NONE", "PENDING"} => record[d][r].tx = NoTx

(* Where the loop is suspended tells what it is doing: a receipt is being   *)
(* settled exactly at the awaits, the branch taken still fits the record,   *)
(* and an answer under way belongs to the transaction just sent, which no   *)
(* record is closed by yet.                                                 *)
LoopShapeOf(d) ==
    /\ pc[d] \in {"preflight", "sending", "polling"} => cur[d] \in Receipts
    /\ pc[d] \notin {"preflight", "sending", "polling"} => cur[d] = NoReceipt
    /\ pc[d] \in {"preflight", "sending"} => NeedsBroadcast(snapshot[d][cur[d]])
    /\ pc[d] = "polling" => NeedsPoll(snapshot[d][cur[d]])
    /\ pc[d] \in {"idle", "down"} => todo[d] = {}
    /\ cur[d] \notin todo[d]
    /\ \A r \in todo[d] : record[d][r].status # "NONE"
    /\ reply[d] # NoTx =>
          /\ pc[d] = "sending"
          /\ <<d, cur[d]>> \in txFor[reply[d]]
          /\ \A r \in Receipts :
                record[d][r].tx = reply[d] => record[d][r].status = "TRIGGERED"

LoopShape == \A d \in Daemons : LoopShapeOf(d)

(* What was sent under one hash was sent by one payer to one wallet, and    *)
(* for a single receipt where nothing is evicted.                           *)
TransferShape ==
    \A h \in Hashes :
        /\ txState[h] = "unused" <=> txFor[h] = {}
        /\ \A p, q \in txFor[h] : p[1] = q[1] /\ Wallet[p[2]] = Wallet[q[2]]
        /\ "evicted" \notin Faults =>
              txState[h] # "evicted" /\ \A p, q \in txFor[h] : p = q

(* The inductive invariant. *)
IInv ==
    /\ TypeOK
    /\ TransferShape
    /\ RecordShape
    /\ LoopShape
    /\ SnapshotIsCurrent
    /\ RecordAgreesWithChain

-----------------------------------------------------------------------------
LEMMA InitIInv == Init => IInv
  BY SettlementAssumption
     DEF Init, IInv, TypeOK, TransferShape, RecordShape, LoopShape, LoopShapeOf, SnapshotIsCurrent,
         RecordAgreesWithChain, RecordAgrees, Record, NoRecord, Status

(* Requesting settlements touches only receipts without a record. *)
LEMMA RequestedFacts ==
  ASSUME TypeOK, RecordShape, NEW d \in Daemons, NEW S \in SUBSET Receipts
  PROVE  /\ Requested(d, S) \in [Receipts -> Record]
         /\ \A r \in Receipts :
              \/ Requested(d, S)[r] = record[d][r]
              \/ /\ record[d][r].status = "NONE"
                 /\ Requested(d, S)[r] = Pending
  BY DEF TypeOK, Requested, RequestSettlement, Pending, Record, Status

(* The same, for the records of every daemon once d has requested some. *)
LEMMA RequestedRecords ==
  ASSUME TypeOK, RecordShape, NEW d \in Daemons, NEW S \in SUBSET Receipts,
         record' = [record EXCEPT ![d] = Requested(d, S)]
  PROVE  /\ record' \in [Daemons -> [Receipts -> Record]]
         /\ \A e \in Daemons, r \in Receipts :
              \/ record'[e][r] = record[e][r]
              \/ /\ record[e][r].status = "NONE"
                 /\ record'[e][r] = Pending
  <1>1. /\ Requested(d, S) \in [Receipts -> Record]
        /\ \A r \in Receipts :
              \/ Requested(d, S)[r] = record[d][r]
              \/ record[d][r].status = "NONE" /\ Requested(d, S)[r] = Pending
    BY RequestedFacts
  <1> DEFINE new == Requested(d, S)
  <1> HIDE DEF new
  <1>2. record' = [record EXCEPT ![d] = new] /\ record \in [Daemons -> [Receipts -> Record]]
    BY DEF new, TypeOK
  <1>3. record' \in [Daemons -> [Receipts -> Record]]
    BY <1>1, <1>2 DEF new
  <1>4. ASSUME NEW e \in Daemons, NEW r \in Receipts
        PROVE  \/ record'[e][r] = record[e][r]
               \/ record[e][r].status = "NONE" /\ record'[e][r] = Pending
    <2>1. CASE e = d
      BY <1>1, <1>2, <2>1 DEF new
    <2>2. CASE e # d
      BY <1>2, <2>2
    <2>3. QED
      BY <2>1, <2>2
  <1>5. QED
    BY <1>3, <1>4

(* The two parts about records survive any such change of the records. *)
LEMMA RequestedKeepsRecordParts ==
  ASSUME TypeOK, RecordShape, RecordAgreesWithChain, UNCHANGED chainVars,
         \A e \in Daemons, r \in Receipts :
            \/ record'[e][r] = record[e][r]
            \/ record[e][r].status = "NONE" /\ record'[e][r] = Pending
  PROVE  RecordShape' /\ RecordAgreesWithChain' /\ (TransferShape => TransferShape')
  <1>1. RecordShape'
    BY DEF RecordShape, Pending
  <1>0. TransferShape => TransferShape'
    BY DEF TransferShape, chainVars
  <1>2. RecordAgreesWithChain'
    <2> SUFFICES ASSUME NEW e \in Daemons, NEW r \in Receipts
                 PROVE  RecordAgrees(e, r)'
      BY DEF RecordAgreesWithChain
    <2>1. CASE record'[e][r] = record[e][r]
      BY <2>1 DEF RecordAgreesWithChain, RecordAgrees, chainVars
    <2>2. CASE record'[e][r] = Pending
      BY <2>2 DEF RecordAgrees, Pending
    <2>3. QED
      BY <2>1, <2>2
  <1>3. QED
    BY <1>0, <1>1, <1>2

-----------------------------------------------------------------------------
(* One lemma per group of steps that disturb the invariant alike. *)

(* Steps on jobs that leave the records and the loop alone. *)
LEMMA JobSteps ==
  ASSUME IInv, NEW r \in Receipts,
         RequestJob(r) \/ IssueReceipt(r) \/ RequestTimeout(r)
  PROVE  IInv'
  <1>1. UNCHANGED <<record, loopVars, chainVars, crashes>>
    BY DEF RequestJob, IssueReceipt, RequestTimeout, logVars
  <1>2. TypeOK'
    <2>1. CASE RequestJob(r)
      BY <2>1 DEF IInv, TypeOK, RequestJob, logVars, loopVars, chainVars
    <2>2. CASE IssueReceipt(r)
      BY <2>2, SettlementAssumption DEF IInv, TypeOK, IssueReceipt, loopVars, chainVars
    <2>3. CASE RequestTimeout(r)
      BY <2>3 DEF IInv, TypeOK, RequestTimeout, logVars, loopVars, chainVars
    <2>4. QED
      BY <2>1, <2>2, <2>3
  <1>3. RecordShape'
    BY <1>1 DEF IInv, RecordShape
  <1>4. LoopShape'
    BY <1>1 DEF IInv, LoopShape, LoopShapeOf, NeedsBroadcast, NeedsPoll, loopVars, chainVars
  <1>5. SnapshotIsCurrent'
    BY <1>1 DEF IInv, SnapshotIsCurrent, loopVars
  <1>6. RecordAgreesWithChain' /\ TransferShape'
    BY <1>1 DEF IInv, RecordAgreesWithChain, RecordAgrees, TransferShape, chainVars
  <1>7. QED
    BY <1>2, <1>3, <1>4, <1>5, <1>6 DEF IInv

(* Requesting settlements of d while its loop stays where it is. *)
LEMMA RequestKeepsInvariant ==
  ASSUME IInv, NEW d \in Daemons, NEW S \in SUBSET Receipts,
         record' = [record EXCEPT ![d] = Requested(d, S)],
         UNCHANGED <<loopVars, chainVars>>, TypeOK'
  PROVE  IInv'
  <1>1. \A e \in Daemons, r \in Receipts :
           \/ record'[e][r] = record[e][r]
           \/ record[e][r].status = "NONE" /\ record'[e][r] = Pending
    BY RequestedRecords DEF IInv
  <1>2. RecordShape' /\ RecordAgreesWithChain' /\ TransferShape'
    BY <1>1, RequestedKeepsRecordParts DEF IInv
  <1>3. LoopShape'
    <2> SUFFICES ASSUME NEW e \in Daemons
                 PROVE  LoopShapeOf(e)'
      BY DEF LoopShape
    <2>1. LoopShapeOf(e) /\ todo[e] \subseteq Receipts
      BY DEF IInv, LoopShape, TypeOK
    <2>2. \A r \in todo[e] : record'[e][r].status # "NONE"
      BY <1>1, <2>1 DEF LoopShapeOf, Pending
    <2>3. \A r \in Receipts : record'[e][r].tx = reply[e] /\ reply[e] # NoTx
                             => record'[e][r].status = "TRIGGERED"
      BY <1>1, <2>1 DEF LoopShapeOf, Pending
    <2>4. QED
      BY <2>1, <2>2, <2>3 DEF LoopShapeOf, NeedsBroadcast, NeedsPoll, loopVars, chainVars
  <1>4. SnapshotIsCurrent'
    <2> SUFFICES ASSUME NEW e \in Daemons,
                        NEW r \in todo[e] \cup ({cur[e]} \ {NoReceipt})
                 PROVE  snapshot[e][r] = record'[e][r]
      BY DEF SnapshotIsCurrent, loopVars
    <2>1. r \in Receipts /\ snapshot[e][r] = record[e][r]
      BY DEF IInv, TypeOK, SnapshotIsCurrent
    <2>2. record[e][r].status # "NONE"
      <3>1. LoopShapeOf(e)
        BY DEF IInv, LoopShape
      <3>2. CASE r \in todo[e]
        BY <3>1, <3>2 DEF LoopShapeOf
      <3>3. CASE r = cur[e] /\ cur[e] # NoReceipt
        <4>1. NeedsBroadcast(snapshot[e][r]) \/ NeedsPoll(snapshot[e][r])
          BY <3>1, <3>3 DEF LoopShapeOf
        <4>2. QED
          BY <2>1, <4>1 DEF NeedsBroadcast, NeedsPoll
      <3>4. QED
        BY <3>2, <3>3
    <2>3. QED
      BY <1>1, <2>1, <2>2
  <1>5. QED
    BY <1>2, <1>3, <1>4 DEF IInv

LEMMA AcceptStep ==
  ASSUME IInv, NEW r \in Receipts, AcceptReceipt(r)
  PROVE  IInv'
  <1>1. Requester[r] \in Daemons
    BY SettlementAssumption
  <1>2. Requested(Requester[r], {r}) \in [Receipts -> Record]
    BY <1>1, RequestedFacts DEF IInv
  <1>3. TypeOK'
    BY <1>1, <1>2 DEF IInv, TypeOK, AcceptReceipt, loopVars, chainVars
  <1>4. /\ record' = [record EXCEPT ![Requester[r]] = Requested(Requester[r], {r})]
        /\ UNCHANGED <<loopVars, chainVars>>
        /\ {r} \in SUBSET Receipts
    BY DEF AcceptReceipt
  <1>5. QED
    BY <1>1, <1>3, <1>4, RequestKeepsInvariant

(* A crash resets the loop of d and may leave some settlements requested. *)
LEMMA LoseMemoryKeepsInvariant ==
  ASSUME IInv, NEW d \in Daemons, NEW S \in SUBSET Receipts, LoseMemory(d),
         record' = [record EXCEPT ![d] = Requested(d, S)],
         received' \in [Daemons -> SUBSET Receipts],
         UNCHANGED chainVars
  PROVE  IInv'
  <1>1. \A e \in Daemons, r \in Receipts :
           \/ record'[e][r] = record[e][r]
           \/ record[e][r].status = "NONE" /\ record'[e][r] = Pending
    BY RequestedRecords DEF IInv
  <1>2. TypeOK'
    <2>1. record' \in [Daemons -> [Receipts -> Record]]
      BY RequestedRecords DEF IInv
    <2>2. NoRecord \in Record /\ crashes' \in 0..MaxCrashes
      BY SettlementAssumption
         DEF NoRecord, Record, Status, IInv, TypeOK, LoseMemory
    <2>3. QED
      BY <2>1, <2>2 DEF IInv, TypeOK, LoseMemory, chainVars
  <1>3. RecordShape' /\ RecordAgreesWithChain' /\ TransferShape'
    BY <1>1, RequestedKeepsRecordParts DEF IInv
  <1>4. \A e \in Daemons : e # d =>
           /\ \A r \in Receipts : record'[e][r] = record[e][r]
           /\ pc'[e] = pc[e] /\ todo'[e] = todo[e] /\ snapshot'[e] = snapshot[e]
           /\ cur'[e] = cur[e] /\ reply'[e] = reply[e]
    BY DEF IInv, TypeOK, LoseMemory
  <1>5. /\ pc'[d] = "down" /\ todo'[d] = {} /\ cur'[d] = NoReceipt /\ reply'[d] = NoTx
    BY DEF IInv, TypeOK, LoseMemory
  <1>6. LoopShape'
    <2> SUFFICES ASSUME NEW e \in Daemons
                 PROVE  LoopShapeOf(e)'
      BY DEF LoopShape
    <2>1. CASE e = d
      BY <2>1, <1>5, SettlementAssumption DEF LoopShapeOf
    <2>2. CASE e # d
      BY <2>2, <1>4 DEF IInv, TypeOK, LoopShape, LoopShapeOf, NeedsBroadcast, NeedsPoll, chainVars
    <2>3. QED
      BY <2>1, <2>2
  <1>7. SnapshotIsCurrent'
    BY <1>4, <1>5 DEF IInv, TypeOK, SnapshotIsCurrent
  <1>8. QED
    BY <1>2, <1>3, <1>6, <1>7 DEF IInv

LEMMA CrashStep ==
  ASSUME IInv, NEW d \in Daemons, Crash(d)
  PROVE  IInv'
  <1>1. PICK S \in SUBSET received[d] :
           record' = [record EXCEPT ![d] = Requested(d, S)]
    BY DEF Crash
  <1>2. S \in SUBSET Receipts /\ received' \in [Daemons -> SUBSET Receipts]
    BY DEF Crash, IInv, TypeOK
  <1>3. QED
    BY <1>1, <1>2, LoseMemoryKeepsInvariant DEF Crash

LEMMA CrashAfterReceiptStep ==
  ASSUME IInv, NEW r \in Receipts, CrashAfterReceipt(r)
  PROVE  IInv'
  <1>1. Requester[r] \in Daemons
    BY SettlementAssumption
  <1>2. record' = [record EXCEPT ![Requester[r]] = Requested(Requester[r], {})]
    BY <1>1 DEF CrashAfterReceipt, Requested, IInv, TypeOK
  <1>3. received' \in [Daemons -> SUBSET Receipts]
    BY <1>1 DEF CrashAfterReceipt, IInv, TypeOK
  <1>4. LoseMemory(Requester[r]) /\ UNCHANGED chainVars /\ {} \in SUBSET Receipts
    BY DEF CrashAfterReceipt
  <1>5. QED
    BY <1>1, <1>2, <1>3, <1>4, LoseMemoryKeepsInvariant

-----------------------------------------------------------------------------
(* reconcile_pending_settlements *)

(* The loop variables of the other daemons, and what hangs on them. *)
LEMMA OthersKeepShape ==
  ASSUME IInv, NEW e \in Daemons,
         pc'[e] = pc[e], todo'[e] = todo[e], snapshot'[e] = snapshot[e],
         cur'[e] = cur[e], reply'[e] = reply[e], record'[e] = record[e],
         \A h \in Hashes : txFor[h] \subseteq txFor'[h]
  PROVE  LoopShapeOf(e)'
  <1>1. LoopShapeOf(e) /\ reply[e] \in Hashes \cup {NoTx}
    BY DEF IInv, LoopShape, TypeOK
  <1>2. QED
    BY <1>1 DEF LoopShapeOf, NeedsBroadcast, NeedsPoll

LEMMA StartReconcileStep ==
  ASSUME IInv, NEW d \in Daemons, StartReconcile(d)
  PROVE  IInv'
  <1> DEFINE rec == Requested(d, received[d])
  <1>1. /\ record' = [record EXCEPT ![d] = rec]
        /\ snapshot' = [snapshot EXCEPT ![d] = rec]
        /\ todo' = [todo EXCEPT ![d] = {r \in Receipts : rec[r].status # "NONE"}]
        /\ pc' = [pc EXCEPT ![d] = "scan"]
        /\ pc[d] \in {"idle", "down"}
        /\ UNCHANGED <<job, received, cur, reply, chainVars, crashes>>
    BY DEF StartReconcile
  <1>2. received[d] \in SUBSET Receipts
    BY DEF IInv, TypeOK
  <1>3. rec \in [Receipts -> Record]
    BY <1>2, RequestedFacts DEF IInv
  <1>4. /\ record' \in [Daemons -> [Receipts -> Record]]
        /\ \A e \in Daemons, r \in Receipts :
              \/ record'[e][r] = record[e][r]
              \/ record[e][r].status = "NONE" /\ record'[e][r] = Pending
    BY <1>1, <1>2, RequestedRecords DEF IInv
  <1> HIDE DEF rec
  <1>5. TypeOK'
    BY <1>1, <1>3, <1>4 DEF IInv, TypeOK, chainVars
  <1>6. RecordShape' /\ RecordAgreesWithChain' /\ TransferShape'
    BY <1>1, <1>4, RequestedKeepsRecordParts DEF IInv
  <1>7. LoopShape'
    <2> SUFFICES ASSUME NEW e \in Daemons
                 PROVE  LoopShapeOf(e)'
      BY DEF LoopShape
    <2>1. CASE e = d
      <3>1. cur[d] = NoReceipt /\ reply[d] = NoTx
        BY <1>1 DEF IInv, LoopShape, LoopShapeOf
      <3>2. /\ pc'[d] = "scan" /\ cur'[d] = NoReceipt /\ reply'[d] = NoTx
            /\ todo'[d] = {r \in Receipts : rec[r].status # "NONE"}
            /\ record'[d] = rec
        BY <1>1, <3>1 DEF IInv, TypeOK
      <3>3. QED
        BY <2>1, <3>2, SettlementAssumption DEF LoopShapeOf
    <2>2. CASE e # d
      BY <1>1, <2>2, OthersKeepShape DEF IInv, TypeOK, chainVars
    <2>3. QED
      BY <2>1, <2>2
  <1>8. SnapshotIsCurrent'
    <2> SUFFICES ASSUME NEW e \in Daemons,
                        NEW r \in todo'[e] \cup ({cur'[e]} \ {NoReceipt})
                 PROVE  snapshot'[e][r] = record'[e][r]
      BY DEF SnapshotIsCurrent
    <2>1. CASE e = d
      BY <1>1, <2>1 DEF IInv, TypeOK
    <2>2. CASE e # d
      BY <1>1, <2>2 DEF IInv, TypeOK, SnapshotIsCurrent
    <2>3. QED
      BY <2>1, <2>2
  <1>9. QED
    BY <1>5, <1>6, <1>7, <1>8 DEF IInv

(* Steps of the loop that store nothing. *)
LEMMA ScanSteps ==
  ASSUME IInv, NEW d \in Daemons, NEW r \in Receipts,
         SkipSettled(d, r) \/ BeginBroadcast(d, r) \/ BeginPoll(d, r)
  PROVE  IInv'
  <1>1. /\ UNCHANGED <<job, received, record, snapshot, reply, chainVars, crashes>>
        /\ todo' = [todo EXCEPT ![d] = @ \ {r}]
        /\ pc[d] = "scan" /\ r \in todo[d]
    BY DEF SkipSettled, BeginBroadcast, BeginPoll, logVars
  <1>2. \/ /\ pc' = pc /\ cur' = cur
        \/ /\ pc' = [pc EXCEPT ![d] = "preflight"] /\ cur' = [cur EXCEPT ![d] = r]
           /\ NeedsBroadcast(snapshot[d][r])
        \/ /\ pc' = [pc EXCEPT ![d] = "polling"] /\ cur' = [cur EXCEPT ![d] = r]
           /\ NeedsPoll(snapshot[d][r])
    BY DEF SkipSettled, BeginBroadcast, BeginPoll
  <1>3. TypeOK'
    <2>1. /\ pc' \in [Daemons -> {"down", "idle", "scan", "preflight", "sending", "polling"}]
          /\ cur' \in [Daemons -> Receipts \cup {NoReceipt}]
      BY <1>2 DEF IInv, TypeOK
    <2>2. QED
      BY <1>1, <2>1 DEF IInv, TypeOK, chainVars
  <1>4. RecordShape' /\ RecordAgreesWithChain' /\ TransferShape'
    <2>1. RecordShape'
      BY <1>1 DEF IInv, RecordShape
    <2>2. RecordAgreesWithChain' /\ TransferShape'
      BY <1>1 DEF IInv, RecordAgreesWithChain, RecordAgrees, TransferShape, chainVars
    <2>3. QED
      BY <2>1, <2>2
  <1>5. LoopShape'
    <2> SUFFICES ASSUME NEW e \in Daemons
                 PROVE  LoopShapeOf(e)'
      BY DEF LoopShape
    <2>1. CASE e = d
      <3>1. LoopShapeOf(d) /\ cur[d] = NoReceipt /\ reply[d] = NoTx
        BY <1>1 DEF IInv, LoopShape, LoopShapeOf
      <3>2. todo'[d] = todo[d] \ {r} /\ reply'[d] = NoTx
        BY <1>1, <3>1 DEF IInv, TypeOK
      <3>3. \/ pc'[d] = "scan" /\ cur'[d] = NoReceipt
            \/ pc'[d] = "preflight" /\ cur'[d] = r /\ NeedsBroadcast(snapshot[d][r])
            \/ pc'[d] = "polling" /\ cur'[d] = r /\ NeedsPoll(snapshot[d][r])
        BY <1>1, <1>2, <3>1 DEF IInv, TypeOK
      <3>4. NoReceipt \notin todo'[d]
        BY <3>2, SettlementAssumption DEF IInv, TypeOK
      <3>5. QED
        BY <1>1, <2>1, <3>1, <3>2, <3>3, <3>4
           DEF LoopShapeOf, NeedsBroadcast, NeedsPoll
    <2>2. CASE e # d
      BY <1>1, <1>2, <2>2, OthersKeepShape DEF IInv, TypeOK, chainVars
    <2>3. QED
      BY <2>1, <2>2
  <1>6. SnapshotIsCurrent'
    BY <1>1, <1>2 DEF IInv, TypeOK, SnapshotIsCurrent
  <1>7. QED
    BY <1>3, <1>4, <1>5, <1>6 DEF IInv

LEMMA OtherLoopSteps ==
  ASSUME IInv, NEW d \in Daemons,
         SendTransaction(d) \/ PollUndecided(d) \/ EndReconcile(d)
  PROVE  IInv'
  <1>1. UNCHANGED <<job, received, record, todo, snapshot, reply, chainVars, crashes>>
    BY DEF SendTransaction, PollUndecided, EndReconcile, logVars
  <1>2. \/ /\ pc[d] = "preflight" /\ cur' = cur
           /\ pc' = [pc EXCEPT ![d] = "sending"]
        \/ /\ pc[d] = "polling" /\ cur' = [cur EXCEPT ![d] = NoReceipt]
           /\ pc' = [pc EXCEPT ![d] = "scan"]
        \/ /\ pc[d] = "scan" /\ todo[d] = {} /\ cur' = cur
           /\ pc' = [pc EXCEPT ![d] = "idle"]
    BY DEF SendTransaction, PollUndecided, EndReconcile
  <1>3. TypeOK'
    <2>1. /\ pc' \in [Daemons -> {"down", "idle", "scan", "preflight", "sending", "polling"}]
          /\ cur' \in [Daemons -> Receipts \cup {NoReceipt}]
      BY <1>2 DEF IInv, TypeOK
    <2>2. QED
      BY <1>1, <2>1 DEF IInv, TypeOK, chainVars
  <1>4. RecordShape'
    BY <1>1 DEF IInv, RecordShape
  <1>5. RecordAgreesWithChain' /\ TransferShape'
    BY <1>1 DEF IInv, RecordAgreesWithChain, RecordAgrees, TransferShape, chainVars
  <1>6. LoopShape'
    <2> SUFFICES ASSUME NEW e \in Daemons
                 PROVE  LoopShapeOf(e)'
      BY DEF LoopShape
    <2>1. CASE e = d
      <3>1. LoopShapeOf(d) /\ NoReceipt \notin todo[d]
        BY SettlementAssumption DEF IInv, LoopShape, TypeOK
      <3>2. \/ pc[d] = "preflight" /\ pc'[d] = "sending" /\ cur'[d] = cur[d]
            \/ pc[d] = "polling" /\ pc'[d] = "scan" /\ cur'[d] = NoReceipt
            \/ pc[d] = "scan" /\ pc'[d] = "idle" /\ todo[d] = {} /\ cur'[d] = cur[d]
        BY <1>2 DEF IInv, TypeOK
      <3>3. QED
        BY <1>1, <2>1, <3>1, <3>2
           DEF LoopShapeOf, NeedsBroadcast, NeedsPoll, chainVars
    <2>2. CASE e # d
      BY <1>1, <1>2, <2>2, OthersKeepShape DEF IInv, TypeOK, chainVars
    <2>3. QED
      BY <2>1, <2>2
  <1>7. SnapshotIsCurrent'
    BY <1>1, <1>2 DEF IInv, TypeOK, SnapshotIsCurrent
  <1>8. QED
    BY <1>3, <1>4, <1>5, <1>6, <1>7 DEF IInv

(* Storing a record that agrees with the chain and keeps a hash it has. *)
LEMMA StoreKeepsInvariant ==
  ASSUME IInv, NEW d \in Daemons, NEW status \in {"TRIGGERED", "CONFIRMED", "FAILED"},
         NEW tx \in Hashes \cup {NoTx}, cur[d] \in Receipts, Store(d, status, tx),
         tx # NoTx => <<d, cur[d]>> \in txFor[tx],
         status \in {"TRIGGERED", "CONFIRMED"} => tx # NoTx,
         status = "CONFIRMED" => txState[tx] = "success",
         status = "FAILED" /\ tx # NoTx => txState[tx] = "reverted"
  PROVE  IInv'
  <1> DEFINE new == [status |-> status, tx |-> tx]
  <1>1. new \in Record /\ new.status = status /\ new.tx = tx
    BY DEF Record, Status
  <1>2. /\ record' = [record EXCEPT ![d][cur[d]] = new]
        /\ cur' = [cur EXCEPT ![d] = NoReceipt]
        /\ reply' = [reply EXCEPT ![d] = NoTx]
        /\ pc' = [pc EXCEPT ![d] = "scan"]
        /\ UNCHANGED <<job, received, todo, snapshot, chainVars, crashes>>
    BY DEF Store
  <1>3. cur[d] \notin todo[d] /\ NoReceipt \notin todo[d] /\ LoopShapeOf(d)
    BY SettlementAssumption DEF IInv, LoopShape, LoopShapeOf, TypeOK
  <1> HIDE DEF new
  <1>4. /\ record'[d][cur[d]] = new
        /\ \A e \in Daemons, r \in Receipts :
              <<e, r>> # <<d, cur[d]>> => record'[e][r] = record[e][r]
    BY <1>2 DEF IInv, TypeOK
  <1>5. TypeOK'
    BY <1>1, <1>2 DEF IInv, TypeOK, chainVars
  <1>6. RecordShape'
    BY <1>1, <1>4 DEF IInv, RecordShape
  <1>7. RecordAgreesWithChain'
    <2> SUFFICES ASSUME NEW e \in Daemons, NEW r \in Receipts
                 PROVE  RecordAgrees(e, r)'
      BY DEF RecordAgreesWithChain
    <2>1. CASE <<e, r>> = <<d, cur[d]>>
      <3>1. e = d /\ r = cur[d] /\ UNCHANGED <<txState, txFor>>
        BY <1>2, <2>1 DEF chainVars
      <3>2. tx # NoTx => \A p \in txFor[tx] : p[1] = d /\ Wallet[p[2]] = Wallet[r]
        <4> SUFFICES ASSUME tx # NoTx, NEW p \in txFor[tx]
                     PROVE  p[1] = d /\ Wallet[p[2]] = Wallet[r]
          OBVIOUS
        <4>1. <<d, r>> \in txFor[tx] /\ tx \in Hashes
          BY <3>1
        <4>2. p[1] = <<d, r>>[1] /\ Wallet[p[2]] = Wallet[<<d, r>>[2]]
          BY <4>1 DEF IInv, TransferShape
        <4>3. QED
          BY <4>2
      <3>3. record'[e][r] = new
        BY <1>4, <3>1
      <3>4. QED
        BY <1>1, <3>1, <3>2, <3>3 DEF RecordAgrees
    <2>2. CASE <<e, r>> # <<d, cur[d]>>
      <3>1. record'[e][r] = record[e][r]
        BY <1>4, <2>2
      <3>2. txState' = txState /\ txFor' = txFor
        BY <1>2 DEF chainVars
      <3>3. RecordAgrees(e, r)
        BY DEF IInv, RecordAgreesWithChain
      <3>4. QED
        BY <3>1, <3>2, <3>3 DEF RecordAgrees
    <2>3. QED
      BY <2>1, <2>2
  <1>8. LoopShape'
    <2> SUFFICES ASSUME NEW e \in Daemons
                 PROVE  LoopShapeOf(e)'
      BY DEF LoopShape
    <2>1. CASE e = d
      <3>1. pc'[d] = "scan" /\ cur'[d] = NoReceipt /\ reply'[d] = NoTx /\ todo'[d] = todo[d]
        BY <1>2 DEF IInv, TypeOK
      <3>2. \A r \in todo[d] : record'[d][r].status # "NONE"
        BY <1>3, <1>4 DEF IInv, TypeOK, LoopShapeOf
      <3>3. QED
        BY <1>3, <2>1, <3>1, <3>2 DEF LoopShapeOf
    <2>2. CASE e # d
      BY <1>2, <2>2, OthersKeepShape DEF IInv, TypeOK, chainVars
    <2>3. QED
      BY <2>1, <2>2
  <1>9. SnapshotIsCurrent'
    <2> SUFFICES ASSUME NEW e \in Daemons,
                        NEW r \in todo[e] \cup ({cur'[e]} \ {NoReceipt})
                 PROVE  snapshot[e][r] = record'[e][r]
      BY <1>2 DEF SnapshotIsCurrent
    <2>1. r \in Receipts /\ snapshot[e][r] = record[e][r] /\ <<e, r>> # <<d, cur[d]>>
      BY <1>2, <1>3 DEF IInv, TypeOK, SnapshotIsCurrent
    <2>2. QED
      BY <1>4, <2>1
  <1>10. TransferShape'
    BY <1>2 DEF IInv, TransferShape, chainVars
  <1>11. QED
    BY <1>5, <1>6, <1>7, <1>8, <1>9, <1>10 DEF IInv

(* What the loop knows of the record it is settling. *)
LEMMA CurrentRecord ==
  ASSUME IInv, NEW d \in Daemons, pc[d] \in {"preflight", "sending", "polling"}
  PROVE  /\ cur[d] \in Receipts
         /\ snapshot[d][cur[d]] = record[d][cur[d]]
         /\ record[d][cur[d]] \in Record
         /\ RecordAgrees(d, cur[d])
         /\ pc[d] # "polling" =>
               /\ record[d][cur[d]].status \in {"PENDING", "FAILED"}
               /\ record[d][cur[d]].tx = NoTx
         /\ pc[d] = "polling" =>
               /\ record[d][cur[d]].status = "TRIGGERED"
               /\ record[d][cur[d]].tx \in Hashes
         /\ reply[d] # NoTx =>
               /\ reply[d] \in Hashes
               /\ <<d, cur[d]>> \in txFor[reply[d]]
  <1>1. LoopShapeOf(d) /\ cur[d] \in Receipts
    BY DEF IInv, LoopShape, LoopShapeOf
  <1>2. snapshot[d][cur[d]] = record[d][cur[d]]
    BY <1>1, SettlementAssumption DEF IInv, SnapshotIsCurrent
  <1>3. record[d][cur[d]] \in Record /\ RecordAgrees(d, cur[d])
    BY <1>1 DEF IInv, TypeOK, RecordAgreesWithChain
  <1>4. /\ pc[d] # "polling" => NeedsBroadcast(record[d][cur[d]])
        /\ pc[d] = "polling" => NeedsPoll(record[d][cur[d]])
    BY <1>1, <1>2 DEF LoopShapeOf
  <1>5. record[d][cur[d]].status = "PENDING" => record[d][cur[d]].tx = NoTx
    BY <1>1 DEF IInv, RecordShape
  <1>6. /\ pc[d] # "polling" =>
               /\ record[d][cur[d]].status \in {"PENDING", "FAILED"}
               /\ record[d][cur[d]].tx = NoTx
        /\ pc[d] = "polling" =>
               /\ record[d][cur[d]].status = "TRIGGERED"
               /\ record[d][cur[d]].tx \in Hashes
    BY <1>3, <1>4, <1>5 DEF NeedsBroadcast, NeedsPoll, Record
  <1>7. reply[d] # NoTx =>
               /\ reply[d] \in Hashes
               /\ <<d, cur[d]>> \in txFor[reply[d]]
    BY <1>1 DEF LoopShapeOf, IInv, TypeOK
  <1>8. QED
    BY <1>1, <1>2, <1>3, <1>6, <1>7

LEMMA StoreSteps ==
  ASSUME IInv, NEW d \in Daemons,
         \/ BroadcastFails(d) \/ SendReplyLost(d) \/ SendReplied(d)
         \/ PollSuccess(d) \/ PollReverted(d)
  PROVE  IInv'
  <1> DEFINE rec == record[d][cur[d]]
  <1>1. pc[d] \in {"preflight", "sending", "polling"}
    BY DEF BroadcastFails, SendReplyLost, SendReplied, PollSuccess, PollReverted
  <1>2. /\ cur[d] \in Receipts
        /\ snapshot[d][cur[d]] = rec
        /\ rec \in Record
        /\ RecordAgrees(d, cur[d])
        /\ pc[d] # "polling" => rec.status \in {"PENDING", "FAILED"} /\ rec.tx = NoTx
        /\ pc[d] = "polling" => rec.status = "TRIGGERED" /\ rec.tx \in Hashes
        /\ reply[d] # NoTx =>
               /\ reply[d] \in Hashes
               /\ <<d, cur[d]>> \in txFor[reply[d]]
    BY <1>1, CurrentRecord
  <1> HIDE DEF rec
  <1>3. CASE BroadcastFails(d) \/ SendReplyLost(d)
    <2>1. Store(d, "FAILED", NoTx)
      BY <1>2, <1>3 DEF BroadcastFails, SendReplyLost
    <2>2. QED
      BY <1>2, <2>1, StoreKeepsInvariant
  <1>4. CASE SendReplied(d)
    <2>1. Store(d, "TRIGGERED", reply[d]) /\ reply[d] # NoTx
      BY <1>4 DEF SendReplied
    <2>2. QED
      BY <1>2, <2>1, StoreKeepsInvariant
  <1>5. CASE PollSuccess(d)
    <2>1. Store(d, "CONFIRMED", rec.tx) /\ pc[d] = "polling" /\ txState[rec.tx] = "success"
      BY <1>2, <1>5 DEF PollSuccess
    <2>2. rec.tx # NoTx /\ <<d, cur[d]>> \in txFor[rec.tx]
      BY <1>2, <2>1, SettlementAssumption DEF RecordAgrees, rec
    <2>3. QED
      BY <1>2, <2>1, <2>2, StoreKeepsInvariant
  <1>6. CASE PollReverted(d)
    <2>1. Store(d, "FAILED", rec.tx) /\ pc[d] = "polling" /\ txState[rec.tx] = "reverted"
      BY <1>2, <1>6 DEF PollReverted
    <2>2. rec.tx # NoTx /\ <<d, cur[d]>> \in txFor[rec.tx]
      BY <1>2, <2>1, SettlementAssumption DEF RecordAgrees, rec
    <2>3. QED
      BY <1>2, <2>1, <2>2, StoreKeepsInvariant
  <1>7. QED
    BY <1>3, <1>4, <1>5, <1>6

-----------------------------------------------------------------------------
(* The chain *)

(* What was sent stays sent, and no final record has a transaction that     *)
(* may still change its state.                                              *)
LEMMA ChainKeepsInvariant ==
  ASSUME IInv, TypeOK', TransferShape', UNCHANGED <<record, pc, todo, snapshot, cur>>,
         \A h \in Hashes :
             /\ txFor[h] \subseteq txFor'[h]
             /\ txState[h] \in {"success", "reverted"} => txState'[h] = txState[h],
         \A e \in Daemons : reply'[e] = reply[e] \/ LoopShapeOf(e)'
  PROVE  IInv'
  <1>1. RecordShape'
    BY DEF IInv, RecordShape
  <1>2. SnapshotIsCurrent'
    BY DEF IInv, SnapshotIsCurrent
  <1>3. LoopShape'
    <2> SUFFICES ASSUME NEW e \in Daemons, reply'[e] = reply[e]
                 PROVE  LoopShapeOf(e)'
      BY DEF LoopShape
    <2>1. QED
      BY OthersKeepShape
  <1>4. RecordAgreesWithChain'
    <2> SUFFICES ASSUME NEW e \in Daemons, NEW r \in Receipts
                 PROVE  RecordAgrees(e, r)'
      BY DEF RecordAgreesWithChain
    <2> DEFINE tx == record[e][r].tx
    <2>1. RecordAgrees(e, r) /\ tx \in Hashes \cup {NoTx}
      BY DEF IInv, RecordAgreesWithChain, TypeOK, Record
    <2>2. tx # NoTx => /\ <<e, r>> \in txFor'[tx]
                       /\ \A p \in txFor'[tx] : p[1] = e /\ Wallet[p[2]] = Wallet[r]
      <3> SUFFICES ASSUME tx # NoTx
                   PROVE  /\ <<e, r>> \in txFor'[tx]
                          /\ \A p \in txFor'[tx] : p[1] = e /\ Wallet[p[2]] = Wallet[r]
        OBVIOUS
      <3>1. tx \in Hashes /\ <<e, r>> \in txFor'[tx]
        BY <2>1 DEF RecordAgrees
      <3>2. ASSUME NEW p \in txFor'[tx]
            PROVE  p[1] = e /\ Wallet[p[2]] = Wallet[r]
        <4>1. p[1] = <<e, r>>[1] /\ Wallet[p[2]] = Wallet[<<e, r>>[2]]
          BY <3>1 DEF TransferShape
        <4>2. QED
          BY <4>1
      <3>3. QED
        BY <3>1, <3>2
    <2>3. QED
      BY <2>1, <2>2 DEF RecordAgrees
  <1>5. QED
    BY <1>1, <1>2, <1>3, <1>4 DEF IInv

(* The hash of a transfer that the node accepts closes no record.           *)
LEMMA AcceptedIsOpen ==
  ASSUME IInv, NEW d \in Daemons, NEW r \in Receipts, NEW h \in Hashes,
         txState[h] \in {"unused", "evicted"}, record[d][r].tx = h
  PROVE  record[d][r].status = "TRIGGERED"
  <1>1. record[d][r] \in Record /\ RecordAgrees(d, r) /\ h # NoTx
    BY SettlementAssumption DEF IInv, TypeOK, RecordAgreesWithChain
  <1>2. record[d][r].status \notin {"NONE", "PENDING"}
    BY <1>1 DEF IInv, RecordShape
  <1>3. QED
    BY <1>1, <1>2 DEF RecordAgrees, Record, Status

LEMMA AcceptsStep ==
  ASSUME IInv, NEW h \in Hashes, NEW d \in Daemons, NodeAccepts(d, h)
  PROVE  IInv'
  <1>1. /\ pc[d] = "sending" /\ reply[d] = NoTx
        /\ txState[h] \in {"unused", "evicted"}
        /\ \A p \in txFor[h] : p[1] = d /\ Wallet[p[2]] = Wallet[cur[d]]
        /\ txState' = [txState EXCEPT ![h] = "mempool"]
        /\ txFor' = [txFor EXCEPT ![h] = @ \cup {<<d, cur[d]>>}]
        /\ reply' = [reply EXCEPT ![d] = h]
        /\ UNCHANGED <<job, received, record, pc, todo, snapshot, cur, crashes>>
    BY DEF NodeAccepts, SignsAs, logVars
  <1>2. LoopShapeOf(d) /\ cur[d] \in Receipts
    BY <1>1 DEF IInv, LoopShape, LoopShapeOf
  <1>3. TypeOK'
    BY <1>1, <1>2 DEF IInv, TypeOK
  <1>4. /\ reply'[d] = h /\ txState'[h] = "mempool"
        /\ txFor'[h] = txFor[h] \cup {<<d, cur[d]>>}
        /\ \A g \in Hashes : g # h => txFor'[g] = txFor[g] /\ txState'[g] = txState[g]
        /\ \A e \in Daemons : e # d => reply'[e] = reply[e]
    BY <1>1 DEF IInv, TypeOK
  <1>5. LoopShapeOf(d)'
    <2>1. \A r \in Receipts : record[d][r].tx = h => record[d][r].status = "TRIGGERED"
      BY <1>1, AcceptedIsOpen
    <2>2. QED
      BY <1>1, <1>2, <1>4, <2>1 DEF LoopShapeOf, NeedsBroadcast, NeedsPoll
  <1>6. TransferShape'
    <2> SUFFICES ASSUME NEW g \in Hashes
                 PROVE  /\ txState'[g] = "unused" <=> txFor'[g] = {}
                        /\ \A p, q \in txFor'[g] :
                              p[1] = q[1] /\ Wallet[p[2]] = Wallet[q[2]]
                        /\ "evicted" \notin Faults =>
                              txState'[g] # "evicted" /\ \A p, q \in txFor'[g] : p = q
      BY DEF TransferShape
    <2>1. CASE g # h
      BY <1>4, <2>1 DEF IInv, TransferShape
    <2>2. CASE g = h
      <3>1. ASSUME NEW p \in txFor'[g]
            PROVE  p[1] = d /\ Wallet[p[2]] = Wallet[cur[d]]
        BY <1>1, <1>4, <2>2, <3>1
      <3>2. "evicted" \notin Faults => txFor[h] = {}
        BY <1>1 DEF IInv, TransferShape
      <3>3. QED
        BY <1>4, <2>2, <3>1, <3>2
    <2>3. QED
      BY <2>1, <2>2
  <1>7. QED
    BY <1>1, <1>3, <1>4, <1>5, <1>6, ChainKeepsInvariant

LEMMA ChainSteps ==
  ASSUME IInv, NEW h \in Hashes, ChainStep(h)
  PROVE  IInv'
  <1>1. CASE Mine(h) \/ Evict(h)
    <2>1. /\ txState[h] = "mempool" /\ UNCHANGED <<job, logVars, loopVars, txFor, crashes>>
          /\ \E s \in {"success", "reverted", "evicted"} :
                /\ txState' = [txState EXCEPT ![h] = s]
                /\ s = "evicted" => "evicted" \in Faults
      BY <1>1 DEF Mine, Evict
    <2>2. TypeOK'
      BY <2>1 DEF IInv, TypeOK, logVars, loopVars
    <2>3. TransferShape'
      BY <2>1 DEF IInv, TypeOK, TransferShape
    <2>4. QED
      BY <2>1, <2>2, <2>3, ChainKeepsInvariant DEF IInv, TypeOK, logVars, loopVars
  <1>2. QED
    BY <1>1, AcceptsStep DEF ChainStep

-----------------------------------------------------------------------------
LEMMA NextIInv == IInv /\ [Next]_vars => IInv'
  <1> SUFFICES ASSUME IInv, [Next]_vars
               PROVE  IInv'
    OBVIOUS
  <1>1. ASSUME NEW r \in Receipts, JobStep(r)
        PROVE  IInv'
    BY <1>1, JobSteps, AcceptStep, CrashAfterReceiptStep DEF JobStep
  <1>2. ASSUME NEW d \in Daemons, LoopStep(d) \/ Crash(d)
        PROVE  IInv'
    <2>1. CASE Crash(d)
      BY <2>1, CrashStep
    <2>2. CASE Restart(d) \/ NextRound(d)
      BY <2>2, StartReconcileStep DEF Restart, NextRound
    <2>3. ASSUME NEW r \in Receipts,
                 SkipSettled(d, r) \/ BeginBroadcast(d, r) \/ BeginPoll(d, r)
          PROVE  IInv'
      BY <2>3, ScanSteps
    <2>4. CASE SendTransaction(d) \/ PollUndecided(d) \/ EndReconcile(d)
      BY <2>4, OtherLoopSteps
    <2>5. CASE \/ BroadcastFails(d) \/ SendReplyLost(d) \/ SendReplied(d)
               \/ PollSuccess(d) \/ PollReverted(d)
      BY <2>5, StoreSteps
    <2>6. QED
      BY <1>2, <2>1, <2>2, <2>3, <2>4, <2>5 DEF LoopStep
  <1>3. ASSUME NEW h \in Hashes, ChainStep(h)
        PROVE  IInv'
    BY <1>3, ChainSteps
  <1>4. CASE UNCHANGED vars
    <2>1. UNCHANGED <<job, received, record, loopVars, chainVars, crashes>>
      BY <1>4 DEF vars, logVars
    <2>2. TypeOK'
      BY <2>1 DEF IInv, TypeOK, loopVars, chainVars
    <2>3. TransferShape'
      BY <2>1 DEF IInv, TransferShape, chainVars
    <2>4. QED
      BY <2>1, <2>2, <2>3, ChainKeepsInvariant DEF loopVars, chainVars
  <1>5. QED
    BY <1>1, <1>2, <1>3, <1>4 DEF Next

(* The inductive invariant holds of every reachable state. *)
THEOREM Invariant == Spec => []IInv
  <1>1. Init => IInv
    BY InitIInv
  <1>2. IInv /\ [Next]_vars => IInv'
    BY NextIInv
  <1>3. QED
    BY <1>1, <1>2, PTL DEF Spec

(* Every variable of the daemon and of the chain keeps its type. *)
THEOREM TypeCorrect == Spec => []TypeOK
  <1>1. IInv => TypeOK
    BY DEF IInv
  <1>2. QED
    BY <1>1, Invariant, PTL

(* The reconcile loop never acts on a stale copy of a settlement record,    *)
(* although it awaits RPC calls between taking the copies and using them    *)
(* (service.py:775-834).                                                    *)
THEOREM SnapshotStaysCurrent == Spec => []SnapshotIsCurrent
  <1>1. IInv => SnapshotIsCurrent
    BY DEF IInv
  <1>2. QED
    BY <1>1, Invariant, PTL

(* What the event log says of a payment is what the chain did with it.      *)
THEOREM RecordsAgree == Spec => []RecordAgreesWithChain
  <1>1. IInv => RecordAgreesWithChain
    BY DEF IInv
  <1>2. QED
    BY <1>1, Invariant, PTL

-----------------------------------------------------------------------------
(* A step of the chain that puts a transaction on it acts for a daemon      *)
(* whose record has no hash.                                                *)
LEMMA BroadcastStep ==
  ASSUME IInv, [Next]_vars, NEW h \in Hashes
  PROVE  BroadcastsFor(h)
  <1> SUFFICES ASSUME txState[h] # "mempool", txState'[h] = "mempool"
               PROVE  \E d \in Daemons : /\ <<d, cur[d]>> \in txFor'[h]
                                         /\ record[d][cur[d]].tx = NoTx
    BY DEF BroadcastsFor
  <1>1. txState \in [Hashes -> {"unused", "mempool", "success", "reverted", "evicted"}]
    BY DEF IInv, TypeOK
  <1>2. PICK g \in Hashes : ChainStep(g)
    <2>1. ASSUME NEW r \in Receipts, JobStep(r) PROVE txState' = txState
      BY <2>1 DEF JobStep, RequestJob, IssueReceipt, AcceptReceipt, RequestTimeout,
                  CrashAfterReceipt, chainVars
    <2>2. ASSUME NEW d \in Daemons, LoopStep(d) \/ Crash(d) PROVE txState' = txState
      BY <2>2 DEF LoopStep, Crash, Restart, NextRound, StartReconcile, SkipSettled,
                  BeginBroadcast, BeginPoll, SendTransaction, BroadcastFails,
                  SendReplyLost, SendReplied, PollSuccess, PollReverted,
                  PollUndecided, EndReconcile, Store, chainVars
    <2>3. QED
      BY <2>1, <2>2 DEF Next, vars, chainVars
  <1>3. PICK d \in Daemons : NodeAccepts(d, g)
    BY <1>1, <1>2 DEF ChainStep, Mine, Evict
  <1>4. g = h /\ pc[d] = "sending"
    BY <1>1, <1>3 DEF NodeAccepts
  <1>5. <<d, cur[d]>> \in txFor'[h]
    BY <1>3, <1>4 DEF NodeAccepts, IInv, TypeOK
  <1>6. record[d][cur[d]].tx = NoTx
    BY <1>4, CurrentRecord
  <1>7. QED
    BY <1>5, <1>6

(* Once a daemon has learnt the hash of a transfer for a receipt it never   *)
(* has another one accepted for it, however often it crashes and whatever   *)
(* replies are lost.                                                        *)
THEOREM NeverSentTwice == Spec => NeverSentTwiceKnowingly
  <1>1. IInv /\ [Next]_vars => [\A h \in Hashes : BroadcastsFor(h)]_vars
    BY BroadcastStep
  <1>2. QED
    BY <1>1, Invariant, PTL DEF Spec, NeverSentTwiceKnowingly

-----------------------------------------------------------------------------
(* How the records change in one step. *)
RecordsChange ==
    \/ record' = record
    \/ \E d \in Daemons, S \in SUBSET Receipts :
          S \subseteq received'[d] /\ record' = [record EXCEPT ![d] = Requested(d, S)]
    \/ \E d \in Daemons, status \in {"TRIGGERED", "CONFIRMED", "FAILED"},
          tx \in Hashes \cup {NoTx} :
          /\ pc[d] \in {"preflight", "sending", "polling"}
          /\ record' = [record EXCEPT ![d][cur[d]] = [status |-> status, tx |-> tx]]
          /\ \/ pc[d] # "polling" /\ status = "FAILED" /\ tx = NoTx
             \/ pc[d] # "polling" /\ status = "TRIGGERED" /\ reply[d] # NoTx /\ tx = reply[d]
             \/ pc[d] = "polling" /\ status # "TRIGGERED" /\ tx = record[d][cur[d]].tx

LEMMA NextChangesRecords == IInv /\ [Next]_vars => RecordsChange
  <1> SUFFICES ASSUME IInv, [Next]_vars
               PROVE  RecordsChange
    OBVIOUS
  <1>1. ASSUME NEW r \in Receipts, JobStep(r)
        PROVE  RecordsChange
    <2>1. CASE AcceptReceipt(r)
      <3>1. Requester[r] \in Daemons /\ {r} \in SUBSET Receipts
        BY SettlementAssumption
      <3>2. {r} \subseteq received'[Requester[r]]
        BY <2>1, <3>1 DEF AcceptReceipt, IInv, TypeOK
      <3>3. QED
        BY <2>1, <3>1, <3>2 DEF AcceptReceipt, RecordsChange
    <2>2. CASE ~AcceptReceipt(r)
      BY <1>1, <2>2 DEF JobStep, RequestJob, IssueReceipt, RequestTimeout,
                        CrashAfterReceipt, RecordsChange, logVars
    <2>3. QED
      BY <2>1, <2>2
  <1>2. ASSUME NEW d \in Daemons, LoopStep(d) \/ Crash(d)
        PROVE  RecordsChange
    <2>1. received[d] \in SUBSET Receipts
      BY DEF IInv, TypeOK
    <2>2. CASE Crash(d) \/ Restart(d) \/ NextRound(d)
      <3>1. PICK S \in SUBSET received[d] :
               record' = [record EXCEPT ![d] = Requested(d, S)]
        BY <2>2 DEF Crash, Restart, NextRound, StartReconcile
      <3>2. received' = received
        BY <2>2 DEF Crash, Restart, NextRound, StartReconcile
      <3>3. QED
        BY <2>1, <3>1, <3>2 DEF RecordsChange
    <2>3. CASE \E r \in Receipts :
                  SkipSettled(d, r) \/ BeginBroadcast(d, r) \/ BeginPoll(d, r)
      BY <2>3 DEF SkipSettled, BeginBroadcast, BeginPoll, RecordsChange, logVars
    <2>4. CASE SendTransaction(d) \/ PollUndecided(d) \/ EndReconcile(d)
      BY <2>4 DEF SendTransaction, PollUndecided, EndReconcile, RecordsChange, logVars
    <2>5. CASE \/ BroadcastFails(d) \/ SendReplyLost(d) \/ SendReplied(d)
               \/ PollSuccess(d) \/ PollReverted(d)
      <3>1. pc[d] \in {"preflight", "sending", "polling"}
        BY <2>5 DEF BroadcastFails, SendReplyLost, SendReplied, PollSuccess, PollReverted
      <3>2. /\ snapshot[d][cur[d]] = record[d][cur[d]]
            /\ pc[d] # "polling" => record[d][cur[d]].tx = NoTx
            /\ pc[d] = "polling" => record[d][cur[d]].tx \in Hashes
            /\ reply[d] # NoTx => reply[d] \in Hashes
        BY <3>1, CurrentRecord
      <3>3. PICK status \in {"TRIGGERED", "CONFIRMED", "FAILED"},
                 tx \in Hashes \cup {NoTx} :
               /\ Store(d, status, tx)
               /\ \/ pc[d] # "polling" /\ status = "FAILED" /\ tx = NoTx
                  \/ pc[d] # "polling" /\ status = "TRIGGERED" /\ reply[d] # NoTx /\ tx = reply[d]
                  \/ pc[d] = "polling" /\ status # "TRIGGERED" /\ tx = record[d][cur[d]].tx
        <4>1. CASE BroadcastFails(d) \/ SendReplyLost(d)
          <5>1. Store(d, "FAILED", NoTx) /\ pc[d] # "polling"
            BY <3>2, <4>1 DEF BroadcastFails, SendReplyLost
          <5>2. QED
            BY <5>1
        <4>2. CASE SendReplied(d)
          <5>1. Store(d, "TRIGGERED", reply[d]) /\ pc[d] # "polling" /\ reply[d] \in Hashes
                /\ reply[d] # NoTx
            BY <3>2, <4>2 DEF SendReplied
          <5>2. QED
            BY <5>1
        <4>3. CASE PollSuccess(d) \/ PollReverted(d)
          <5>1. /\ pc[d] = "polling" /\ record[d][cur[d]].tx \in Hashes
                /\ \/ Store(d, "CONFIRMED", record[d][cur[d]].tx)
                   \/ Store(d, "FAILED", record[d][cur[d]].tx)
            BY <3>2, <4>3 DEF PollSuccess, PollReverted
          <5>2. QED
            BY <5>1
        <4>4. QED
          BY <2>5, <4>1, <4>2, <4>3
      <3>4. QED
        BY <3>1, <3>3 DEF Store, RecordsChange
    <2>6. QED
      BY <1>2, <2>2, <2>3, <2>4, <2>5 DEF LoopStep
  <1>3. ASSUME NEW h \in Hashes, ChainStep(h)
        PROVE  RecordsChange
    BY <1>3 DEF ChainStep, NodeAccepts, Mine, Evict, RecordsChange, logVars
  <1>4. CASE UNCHANGED vars
    BY <1>4 DEF vars, logVars, RecordsChange
  <1>5. QED
    BY <1>1, <1>2, <1>3, <1>4 DEF Next

LEMMA WalkStep ==
  ASSUME IInv, [Next]_vars, NEW d \in Daemons, NEW r \in Receipts
  PROVE  Walk(record[d][r], record'[d][r])
  <1>1. RecordsChange
    BY NextChangesRecords
  <1>2. CASE record' = record
    BY <1>2 DEF Walk
  <1>3. ASSUME NEW e \in Daemons, NEW S \in SUBSET Receipts,
               record' = [record EXCEPT ![e] = Requested(e, S)]
        PROVE  Walk(record[d][r], record'[d][r])
    <2>1. \/ record'[d][r] = record[d][r]
          \/ record[d][r].status = "NONE" /\ record'[d][r] = Pending
      BY <1>3, RequestedRecords DEF IInv
    <2>2. QED
      BY <2>1 DEF Walk
  <1>4. ASSUME NEW e \in Daemons, NEW status \in {"TRIGGERED", "CONFIRMED", "FAILED"},
               NEW tx \in Hashes \cup {NoTx},
               pc[e] \in {"preflight", "sending", "polling"},
               record' = [record EXCEPT ![e][cur[e]] = [status |-> status, tx |-> tx]],
               \/ pc[e] # "polling" /\ status = "FAILED" /\ tx = NoTx
               \/ pc[e] # "polling" /\ status = "TRIGGERED" /\ reply[e] # NoTx /\ tx = reply[e]
               \/ pc[e] = "polling" /\ status # "TRIGGERED" /\ tx = record[e][cur[e]].tx
        PROVE  Walk(record[d][r], record'[d][r])
    <2>1. /\ cur[e] \in Receipts
          /\ pc[e] # "polling" =>
               /\ record[e][cur[e]].status \in {"PENDING", "FAILED"}
               /\ record[e][cur[e]].tx = NoTx
          /\ pc[e] = "polling" => record[e][cur[e]].status = "TRIGGERED"
      BY <1>4, CurrentRecord
    <2>2. CASE d = e /\ r = cur[e]
      <3>1. record'[d][r] = [status |-> status, tx |-> tx]
        BY <1>4, <2>1, <2>2 DEF IInv, TypeOK
      <3>2. QED
        BY <1>4, <2>1, <2>2, <3>1 DEF Walk
    <2>3. CASE ~(d = e /\ r = cur[e])
      <3>1. record'[d][r] = record[d][r]
        BY <1>4, <2>1, <2>3 DEF IInv, TypeOK
      <3>2. QED
        BY <3>1 DEF Walk
    <2>4. QED
      BY <2>2, <2>3
  <1>5. QED
    BY <1>1, <1>2, <1>3, <1>4 DEF RecordsChange

(* Settlement records only ever move forward along                          *)
(* NONE, PENDING, TRIGGERED, CONFIRMED or FAILED, and final ones are frozen. *)
THEOREM RecordsWalk == Spec => SettlementWalk
  <1>1. IInv /\ [Next]_vars =>
           [\A d \in Daemons, r \in Receipts : Walk(record[d][r], record'[d][r])]_vars
    BY WalkStep
  <1>2. QED
    BY <1>1, Invariant, PTL DEF Spec, SettlementWalk

-----------------------------------------------------------------------------
(* Refinement of SettlementLedger *)

LEMMA LedgerInit == Init => Ledger!LInit
  BY DEF Init, Ledger!LInit, account, order, AccountOf, NoRecord, NeedsBroadcast

(* Changing one point of a function of functions. *)
LEMMA PointUpdate ==
  ASSUME NEW A, NEW B, NEW V, NEW f \in [A -> [B -> V]], NEW g \in [A -> [B -> V]],
         NEW a \in A, NEW b \in B,
         \A x \in A, y \in B : x # a \/ y # b => g[x][y] = f[x][y]
  PROVE  g = [f EXCEPT ![a][b] = g[a][b]]
  <1>1. \A x \in A : x # a => g[x] = f[x]
    OBVIOUS
  <1>2. g[a] = [f[a] EXCEPT ![b] = g[a][b]]
    OBVIOUS
  <1>3. QED
    BY <1>1, <1>2

(* The mapped variables, point by point, before and after a step. *)
LEMMA AccountFacts ==
  ASSUME TypeOK
  PROVE  /\ account \in [Daemons -> [Receipts -> Ledger!AccountState]]
         /\ order \in [Daemons -> [Receipts -> Hashes \cup {NoTx}]]
         /\ \A d \in Daemons, r \in Receipts :
               account[d][r] = AccountOf(record[d][r]) /\ order[d][r] = record[d][r].tx
  <1>1. account \in [Daemons -> [Receipts -> Ledger!AccountState]]
    BY DEF account, Ledger!AccountState, AccountOf
  <1>2. order \in [Daemons -> [Receipts -> Hashes \cup {NoTx}]]
    BY DEF TypeOK, Record, order
  <1>3. QED
    BY <1>1, <1>2 DEF account, order

LEMMA AccountFactsPrimed ==
  ASSUME TypeOK'
  PROVE  /\ account' \in [Daemons -> [Receipts -> Ledger!AccountState]]
         /\ order' \in [Daemons -> [Receipts -> Hashes \cup {NoTx}]]
         /\ \A d \in Daemons, r \in Receipts :
               account'[d][r] = AccountOf(record'[d][r]) /\ order'[d][r] = record'[d][r].tx
  <1>1. account' \in [Daemons -> [Receipts -> Ledger!AccountState]]
    BY DEF account, Ledger!AccountState, AccountOf
  <1>2. order' \in [Daemons -> [Receipts -> Hashes \cup {NoTx}]]
    BY DEF TypeOK, Record, order
  <1>3. QED
    BY <1>1, <1>2 DEF account, order, AccountOf

(* When only one record changes, only its account and order can. *)
LEMMA OneAccountChanges ==
  ASSUME IInv, IInv', NEW d \in Daemons, NEW r \in Receipts, NEW new \in Record,
         record' = [record EXCEPT ![d][r] = new]
  PROVE  /\ account' = [account EXCEPT ![d][r] = AccountOf(new)]
         /\ order' = [order EXCEPT ![d][r] = new.tx]
  <1>1. /\ record'[d][r] = new
        /\ \A e \in Daemons, k \in Receipts :
              e # d \/ k # r => record'[e][k] = record[e][k]
    BY DEF IInv, TypeOK
  <1>2. /\ account \in [Daemons -> [Receipts -> Ledger!AccountState]]
        /\ order \in [Daemons -> [Receipts -> Hashes \cup {NoTx}]]
        /\ account' \in [Daemons -> [Receipts -> Ledger!AccountState]]
        /\ order' \in [Daemons -> [Receipts -> Hashes \cup {NoTx}]]
    BY AccountFacts, AccountFactsPrimed DEF IInv
  <1>3. /\ account'[d][r] = AccountOf(new) /\ order'[d][r] = new.tx
        /\ \A e \in Daemons, k \in Receipts :
              e # d \/ k # r => account'[e][k] = account[e][k] /\ order'[e][k] = order[e][k]
    <2>1. /\ \A e \in Daemons, k \in Receipts :
                account[e][k] = AccountOf(record[e][k]) /\ order[e][k] = record[e][k].tx
          /\ \A e \in Daemons, k \in Receipts :
                account'[e][k] = AccountOf(record'[e][k]) /\ order'[e][k] = record'[e][k].tx
      BY AccountFacts, AccountFactsPrimed DEF IInv
    <2>2. account'[d][r] = AccountOf(new) /\ order'[d][r] = new.tx
      BY <1>1, <2>1
    <2>3. ASSUME NEW e \in Daemons, NEW k \in Receipts, e # d \/ k # r
          PROVE  account'[e][k] = account[e][k] /\ order'[e][k] = order[e][k]
      <3>1. record'[e][k] = record[e][k]
        BY <1>1, <2>3
      <3>2. QED
        BY <2>1, <3>1
    <2>4. QED
      BY <2>2, <2>3
  <1>4. account' = [account EXCEPT ![d][r] = account'[d][r]]
    BY <1>2, <1>3, PointUpdate
  <1>5. order' = [order EXCEPT ![d][r] = order'[d][r]]
    BY <1>2, <1>3, PointUpdate
  <1>6. QED
    BY <1>3, <1>4, <1>5

LEMMA LedgerStep ==
  ASSUME IInv, IInv', [Next]_vars
  PROVE  [Ledger!LNext]_(Ledger!ledgerVars)
  <1>1. RecordsChange
    BY NextChangesRecords
  <1>2. CASE record' = record
    BY <1>2 DEF Ledger!ledgerVars, account, order
  <1>3. ASSUME NEW d \in Daemons, NEW S \in SUBSET Receipts,
               record' = [record EXCEPT ![d] = Requested(d, S)]
        PROVE  Ledger!Open(d)
    <2> DEFINE I == {r \in Receipts : record'[d][r] # record[d][r]}
    <2>1. \A e \in Daemons, r \in Receipts :
             \/ record'[e][r] = record[e][r]
             \/ record[e][r].status = "NONE" /\ record'[e][r] = Pending
      BY <1>3, RequestedRecords DEF IInv
    <2>2. \A e \in Daemons : e # d => record'[e] = record[e]
      BY <1>3 DEF IInv, TypeOK
    <2>3. ASSUME NEW i \in I
          PROVE  account[d][i] = "none" /\ account'[d][i] = "due" /\ order'[d][i] = order[d][i]
      <3>1. /\ record[d][i].status = "NONE" /\ record'[d][i] = Pending
            /\ record[d][i].tx = NoTx
        BY <2>1 DEF IInv, RecordShape
      <3>2. QED
        BY <3>1 DEF account, order, AccountOf, NeedsBroadcast, Pending
    <2>4. ASSUME NEW e \in Daemons, NEW i \in Receipts, e # d \/ i \notin I
          PROVE  account'[e][i] = account[e][i] /\ order'[e][i] = order[e][i]
      <3>1. record'[e][i] = record[e][i]
        BY <2>2, <2>4
      <3>2. QED
        BY <3>1 DEF account, order
    <2>5. order' = order
      <3>1. \A e \in Daemons, i \in Receipts : order'[e][i] = order[e][i]
        BY <2>3, <2>4
      <3>2. QED
        BY <3>1 DEF order
    <2>6. account' = [account EXCEPT ![d] = [i \in Receipts |-> IF i \in I THEN "due" ELSE @[i]]]
      <3>1. \A e \in Daemons, i \in Receipts :
               account'[e][i] = IF e = d /\ i \in I THEN "due" ELSE account[e][i]
        BY <2>3, <2>4
      <3>2. QED
        BY <3>1 DEF account
    <2>7. I \in SUBSET Receipts
      OBVIOUS
    <2> HIDE DEF I
    <2>8. QED
      BY <2>3, <2>5, <2>6, <2>7 DEF Ledger!Open
  <1>4. ASSUME NEW d \in Daemons, NEW status \in {"TRIGGERED", "CONFIRMED", "FAILED"},
               NEW tx \in Hashes \cup {NoTx},
               pc[d] \in {"preflight", "sending", "polling"},
               record' = [record EXCEPT ![d][cur[d]] = [status |-> status, tx |-> tx]],
               \/ pc[d] # "polling" /\ status = "FAILED" /\ tx = NoTx
               \/ pc[d] # "polling" /\ status = "TRIGGERED" /\ reply[d] # NoTx /\ tx = reply[d]
               \/ pc[d] = "polling" /\ status # "TRIGGERED" /\ tx = record[d][cur[d]].tx
        PROVE  [Ledger!LNext]_(Ledger!ledgerVars)
    <2>1. PICK r \in Receipts :
          /\ r = cur[d]
          /\ record[d][r] \in Record
          /\ pc[d] # "polling" =>
               record[d][r].status \in {"PENDING", "FAILED"} /\ record[d][r].tx = NoTx
          /\ pc[d] = "polling" =>
               record[d][r].status = "TRIGGERED" /\ record[d][r].tx \in Hashes
          /\ reply[d] # NoTx =>
               /\ reply[d] \in Hashes
               /\ <<d, r>> \in txFor[reply[d]]
      BY <1>4, CurrentRecord
    <2>2. PICK new \in Record :
          /\ new = [status |-> status, tx |-> tx]
          /\ new.status = status /\ new.tx = tx
      <3>1. [status |-> status, tx |-> tx] \in Record
        BY DEF Record, Status
      <3>2. QED
        BY <3>1
    <2>3. record' = [record EXCEPT ![d][r] = new]
      BY <1>4, <2>1, <2>2
    <2>4. /\ account' = [account EXCEPT ![d][r] = AccountOf(new)]
          /\ order' = [order EXCEPT ![d][r] = new.tx]
      <3>1. account' = [account EXCEPT ![d][r] = AccountOf(new)]
        BY <2>3, OneAccountChanges
      <3>2. order' = [order EXCEPT ![d][r] = new.tx]
        BY <2>3, OneAccountChanges
      <3>3. QED
        BY <3>1, <3>2
    <2>5. account[d][r] = AccountOf(record[d][r]) /\ order[d][r] = record[d][r].tx
      BY <2>1, AccountFacts DEF IInv
    <2>6. CASE pc[d] # "polling" /\ status = "FAILED" /\ tx = NoTx
      <3>1. /\ AccountOf(new) = account[d][r]
            /\ new.tx = order[d][r]
        BY <2>1, <2>2, <2>5, <2>6 DEF AccountOf, NeedsBroadcast
      <3>2. account' = account
        BY <2>1, <2>4, <3>1, AccountFacts DEF IInv
      <3>3. order' = order
        BY <2>1, <2>4, <3>1, AccountFacts DEF IInv
      <3>4. QED
        BY <3>2, <3>3 DEF Ledger!ledgerVars
    <2>7. CASE pc[d] # "polling" /\ status = "TRIGGERED" /\ reply[d] # NoTx /\ tx = reply[d]
      <3>1. account[d][r] = "due" /\ AccountOf(new) = "ordered"
        BY <2>1, <2>2, <2>5, <2>7 DEF AccountOf, NeedsBroadcast
      <3>2. ASSUME NEW q \in Daemons, NEW k \in Receipts, order[q][k] = tx
            PROVE  /\ "evicted" \in Faults /\ q = d /\ Wallet[k] = Wallet[r]
                   /\ account[q][k] = "ordered"
        <4>1. record[q][k].tx = tx /\ RecordAgrees(q, k) /\ tx \in Hashes /\ tx # NoTx
          BY <2>1, <2>7, <3>2 DEF order, IInv, RecordAgreesWithChain
        <4>2. <<d, r>> \in txFor[tx] /\ <<q, k>> \in txFor[tx]
          BY <2>1, <2>7, <4>1 DEF RecordAgrees
        <4>3. <<d, r>>[1] = <<q, k>>[1] /\ Wallet[<<d, r>>[2]] = Wallet[<<q, k>>[2]]
          BY <4>1, <4>2 DEF IInv, TransferShape
        <4>4. "evicted" \in Faults
          <5> SUFFICES ASSUME "evicted" \notin Faults
                       PROVE  FALSE
            OBVIOUS
          <5>1. <<d, r>> = <<q, k>>
            BY <4>1, <4>2 DEF IInv, TransferShape
          <5>2. record[d][r].tx = NoTx /\ q = d /\ k = r
            BY <2>1, <2>7, <5>1
          <5>3. QED
            BY <4>1, <5>2
        <4>5. record[q][k].status = "TRIGGERED"
          <5>1. q = d /\ LoopShapeOf(d)
            BY <4>3 DEF IInv, LoopShape
          <5>2. QED
            BY <2>7, <4>1, <5>1 DEF LoopShapeOf
        <4>6. account[q][k] = "ordered"
          <5>1. account[q][k] = AccountOf(record[q][k])
            BY AccountFacts DEF IInv
          <5>2. QED
            BY <4>5, <5>1 DEF AccountOf, NeedsBroadcast
        <4>7. QED
          BY <4>3, <4>4, <4>6
      <3>3. Ledger!Order(d, r, tx)
        BY <2>2, <2>4, <3>1, <3>2 DEF Ledger!Order
      <3>4. QED
        BY <2>1, <2>7, <3>3 DEF Ledger!LNext
    <2>8. CASE pc[d] = "polling" /\ status # "TRIGGERED" /\ tx = record[d][cur[d]].tx
      <3>1. /\ account[d][r] = "ordered" /\ AccountOf(new) \in {"paid", "refused"}
            /\ new.tx = order[d][r]
        BY <2>1, <2>2, <2>5, <2>8, SettlementAssumption DEF AccountOf, NeedsBroadcast
      <3>2. order' = order
        BY <2>1, <2>4, <3>1, AccountFacts DEF IInv
      <3>21. ASSUME NEW k \in Receipts, order[d][k] = order[d][r]
            PROVE  account[d][k] \in {"ordered", AccountOf(new)}
        <4>1. /\ record[d][k].tx = tx /\ tx # NoTx /\ new.tx = tx
              /\ account[d][k] = AccountOf(record[d][k])
          BY <2>1, <2>2, <2>5, <2>8, <3>21, AccountFacts, SettlementAssumption DEF IInv
        <4>2. /\ record[d][k] \in Record
              /\ record[d][k].status \notin {"NONE", "PENDING"}
          BY <4>1 DEF IInv, TypeOK, RecordShape
        <4>3. k # r => /\ record[d][k].status = "CONFIRMED" => txState'[tx] = "success"
                       /\ record[d][k].status = "FAILED" => txState'[tx] = "reverted"
          <5>1. RecordAgrees(d, k)' /\ (k # r => record'[d][k] = record[d][k])
            BY <2>3 DEF IInv, RecordAgreesWithChain, TypeOK
          <5>2. QED
            BY <4>1, <5>1 DEF RecordAgrees
        <4>4. /\ new.status = "CONFIRMED" => txState'[tx] = "success"
              /\ new.status = "FAILED" => txState'[tx] = "reverted"
          <5>1. RecordAgrees(d, r)' /\ record'[d][r] = new
            BY <2>1, <2>3 DEF IInv, RecordAgreesWithChain, TypeOK
          <5>2. QED
            BY <4>1, <5>1 DEF RecordAgrees
        <4>5. new.status \in {"CONFIRMED", "FAILED"}
          BY <2>2, <2>8
        <4>6. record[d][k].status \in {"TRIGGERED", "CONFIRMED", "FAILED"}
          BY <4>2 DEF Record, Status
        <4>7. CASE record[d][k].status = "TRIGGERED"
          BY <4>1, <4>7 DEF AccountOf, NeedsBroadcast
        <4>8. CASE k # r /\ record[d][k].status = "CONFIRMED"
          BY <4>1, <4>3, <4>4, <4>5, <4>8 DEF AccountOf, NeedsBroadcast
        <4>9. CASE k # r /\ record[d][k].status = "FAILED"
          BY <4>1, <4>3, <4>4, <4>5, <4>9 DEF AccountOf, NeedsBroadcast
        <4>10. QED
          BY <3>1, <4>6, <4>7, <4>8, <4>9
      <3>3. Ledger!Close(d, r)
        BY <2>4, <3>1, <3>2, <3>21 DEF Ledger!Close
      <3>4. QED
        BY <2>1, <3>3 DEF Ledger!LNext
    <2>9. QED
      BY <1>4, <2>6, <2>7, <2>8
  <1>5. QED
    BY <1>1, <1>2, <1>3, <1>4 DEF RecordsChange, Ledger!LNext

(* The daemon's settlement implements the ledger: a record without a hash   *)
(* is due, and an ordered payment has a transaction of its own, or, where   *)
(* transactions are evicted, one that its payer ordered for the same wallet *)
(* and that is closed alike for all its receipts.                           *)
THEOREM Refinement == Spec => LedgerSpec
  <1>1. Init => Ledger!LInit
    BY LedgerInit
  <1>2. IInv /\ IInv' /\ [Next]_vars => [Ledger!LNext]_(Ledger!ledgerVars)
    BY LedgerStep
  <1>3. QED
    BY <1>1, <1>2, Invariant, PTL DEF Spec, LedgerSpec, Ledger!LSpec

-----------------------------------------------------------------------------
(* Where no transaction is evicted every record has a transaction of its    *)
(* own.  Otherwise the code may pay two jobs of a worker with one transfer. *)
THEOREM OwnTransferWithoutEvictions ==
  ASSUME "evicted" \notin Faults
  PROVE  Spec => [](\A d, e \in Daemons : \A r, k \in Receipts :
                      record[d][r].tx = record[e][k].tx /\ record[d][r].tx # NoTx
                        => d = e /\ r = k)
  <1> DEFINE Own == \A d, e \in Daemons : \A r, k \in Receipts :
                       record[d][r].tx = record[e][k].tx /\ record[d][r].tx # NoTx
                         => d = e /\ r = k
  <1>1. IInv => Own
    <2> SUFFICES ASSUME IInv, NEW d \in Daemons, NEW e \in Daemons,
                        NEW r \in Receipts, NEW k \in Receipts,
                        record[d][r].tx = record[e][k].tx, record[d][r].tx # NoTx
                 PROVE  d = e /\ r = k
      OBVIOUS
    <2>1. /\ <<d, r>> \in txFor[record[d][r].tx] /\ <<e, k>> \in txFor[record[d][r].tx]
          /\ record[d][r].tx \in Hashes
      BY DEF IInv, TypeOK, Record, RecordAgreesWithChain, RecordAgrees
    <2>2. <<d, r>> = <<e, k>>
      BY <2>1 DEF IInv, TransferShape
    <2>3. QED
      BY <2>2
  <1> HIDE DEF Own
  <1>2. Spec => []Own
    BY <1>1, Invariant, PTL
  <1>3. QED
    BY <1>2 DEF Own

-----------------------------------------------------------------------------
(* A transfer for a receipt is known to its payer if its hash is in the     *)
(* record, or in the answer under way; the others are orphans.              *)
AccountedFor(h, d, r) == record[d][r].tx = h \/ (reply[d] = h /\ cur[d] = r)

Orphans(d, r) == {h \in TransfersFor(<<d, r>>) : ~AccountedFor(h, d, r)}

(* A crash makes at most one orphan: a daemon has one send under way.       *)
OrphanInv ==
    \A d \in Daemons, r \in Receipts :
        IsFiniteSet(Orphans(d, r)) /\ Cardinality(Orphans(d, r)) <= crashes

LEMMA AddOne ==
  ASSUME NEW S, NEW x, IsFiniteSet(S)
  PROVE  /\ IsFiniteSet(S \cup {x})
         /\ Cardinality(S) \in Nat /\ Cardinality(S \cup {x}) \in Nat
         /\ Cardinality(S \cup {x}) <= Cardinality(S) + 1
  <1>1. /\ IsFiniteSet(S \cup {x})
        /\ Cardinality(S \cup {x}) = IF x \in S THEN Cardinality(S) ELSE Cardinality(S) + 1
    BY FS_AddElement
  <1>2. Cardinality(S) \in Nat
    BY FS_CardinalityType
  <1>3. QED
    BY <1>1, <1>2

(* Of the transfers for one receipt at most one is not an orphan. *)
LEMMA OneKnown ==
  ASSUME IInv, NEW d \in Daemons, NEW r \in Receipts
  PROVE  \E x : TransfersFor(<<d, r>>) \subseteq Orphans(d, r) \cup {x}
  <1>1. ASSUME NEW h \in TransfersFor(<<d, r>>), h \notin Orphans(d, r)
        PROVE  record[d][r].tx = h \/ (reply[d] = h /\ cur[d] = r)
    BY <1>1 DEF Orphans, AccountedFor
  <1>2. reply[d] # NoTx /\ cur[d] = r => record[d][r].tx = NoTx
    <2>1. reply[d] # NoTx => pc[d] = "sending"
      BY DEF IInv, LoopShape, LoopShapeOf
    <2>2. QED
      BY <2>1, CurrentRecord
  <1>3. \A h \in TransfersFor(<<d, r>>) : h # NoTx
    BY SettlementAssumption DEF TransfersFor
  <1>4. CASE record[d][r].tx = NoTx
    BY <1>1, <1>3, <1>4
  <1>5. CASE record[d][r].tx # NoTx
    BY <1>1, <1>2, <1>3, <1>5
  <1>6. QED
    BY <1>4, <1>5

LEMMA FewOrphans == IInv /\ OrphanInv => CrashCostsOneTransfer
  <1> SUFFICES ASSUME IInv, OrphanInv, NEW d \in Daemons, NEW r \in Receipts
               PROVE  Cardinality(TransfersFor(<<d, r>>)) <= 1 + crashes
    BY DEF CrashCostsOneTransfer
  <1>0. IsFiniteSet(Orphans(d, r)) /\ Cardinality(Orphans(d, r)) <= crashes
    BY DEF OrphanInv
  <1>1. PICK x : TransfersFor(<<d, r>>) \subseteq Orphans(d, r) \cup {x}
    BY OneKnown
  <1>2. /\ IsFiniteSet(Orphans(d, r) \cup {x})
        /\ Cardinality(Orphans(d, r) \cup {x}) <= Cardinality(Orphans(d, r)) + 1
    BY <1>0, AddOne
  <1>3. /\ IsFiniteSet(TransfersFor(<<d, r>>))
        /\ Cardinality(TransfersFor(<<d, r>>)) <= Cardinality(Orphans(d, r) \cup {x})
    BY <1>1, <1>2, FS_Subset
  <1>4. /\ Cardinality(TransfersFor(<<d, r>>)) \in Nat
        /\ Cardinality(Orphans(d, r) \cup {x}) \in Nat /\ Cardinality(Orphans(d, r)) \in Nat
    BY <1>0, <1>2, <1>3, FS_CardinalityType
  <1>5. crashes \in Nat
    BY DEF IInv, TypeOK
  <1>6. QED
    BY <1>0, <1>2, <1>3, <1>4, <1>5

(* Only a crash counts as a crash, and it is never taken back. *)
LEMMA CrashesGrow == IInv /\ [Next]_vars => crashes' = crashes \/ crashes' = crashes + 1
  <1> SUFFICES ASSUME IInv, [Next]_vars
               PROVE  crashes' = crashes \/ crashes' = crashes + 1
    OBVIOUS
  <1>1. ASSUME NEW r \in Receipts, JobStep(r)
        PROVE  crashes' = crashes \/ crashes' = crashes + 1
    BY <1>1 DEF JobStep, RequestJob, IssueReceipt, AcceptReceipt, RequestTimeout,
                CrashAfterReceipt, LoseMemory
  <1>2. ASSUME NEW d \in Daemons, LoopStep(d)
        PROVE  crashes' = crashes
    BY <1>2 DEF LoopStep, Restart, NextRound, StartReconcile, SkipSettled, BeginBroadcast,
                BeginPoll, SendTransaction, BroadcastFails, SendReplyLost, SendReplied,
                PollSuccess, PollReverted, PollUndecided, EndReconcile, Store
  <1>3. ASSUME NEW d \in Daemons, Crash(d)
        PROVE  crashes' = crashes + 1
    BY <1>3 DEF Crash, LoseMemory
  <1>4. ASSUME NEW h \in Hashes, ChainStep(h)
        PROVE  crashes' = crashes
    BY <1>4 DEF ChainStep, NodeAccepts, Mine, Evict
  <1>5. CASE UNCHANGED vars
    BY <1>5 DEF vars
  <1>6. QED
    BY <1>1, <1>2, <1>3, <1>4, <1>5 DEF Next

FewerOrphans == \A d \in Daemons, r \in Receipts : Orphans(d, r)' \subseteq Orphans(d, r)

(* Any other step makes no orphan, if no answer is lost. *)
LEMMA NoNewOrphan ==
  ASSUME "lost" \notin Faults, IInv, [Next]_vars, crashes' = crashes
  PROVE  FewerOrphans
  <1>1. crashes' # crashes + 1
    BY DEF IInv, TypeOK
  <1>2. (\A d \in Daemons : ~Crash(d)) /\ (\A r \in Receipts : ~CrashAfterReceipt(r))
    BY <1>1 DEF Crash, CrashAfterReceipt, LoseMemory
  <1>3. ASSUME UNCHANGED <<txState, txFor>>,
               \A d \in Daemons, r \in Receipts, h \in Hashes :
                  (record[d][r].tx = h \/ (reply[d] = h /\ cur[d] = r)) =>
                     (record'[d][r].tx = h \/ (reply'[d] = h /\ cur'[d] = r))
        PROVE  FewerOrphans
    BY <1>3 DEF FewerOrphans, Orphans, AccountedFor, TransfersFor
  <1>4. ASSUME NEW d \in Daemons, NEW S \in SUBSET Receipts,
               record' = [record EXCEPT ![d] = Requested(d, S)],
               UNCHANGED <<cur, reply, txState, txFor>>
        PROVE  FewerOrphans
    <2>1. \A e \in Daemons, r \in Receipts :
             \/ record'[e][r] = record[e][r]
             \/ record[e][r].status = "NONE" /\ record'[e][r] = Pending
      BY <1>4, RequestedRecords DEF IInv
    <2>2. \A e \in Daemons, r \in Receipts, h \in Hashes :
             record[e][r].tx = h => record'[e][r].tx = h
      BY <2>1, SettlementAssumption DEF IInv, RecordShape
    <2>3. QED
      BY <1>3, <1>4, <2>2
  <1>5. ASSUME NEW r \in Receipts, JobStep(r)
        PROVE  FewerOrphans
    <2>1. CASE AcceptReceipt(r)
      <3>1. Requester[r] \in Daemons /\ {r} \in SUBSET Receipts
        BY SettlementAssumption
      <3>2. QED
        BY <1>4, <2>1, <3>1 DEF AcceptReceipt, loopVars, chainVars
    <2>2. CASE ~AcceptReceipt(r)
      <3>1. RequestJob(r) \/ IssueReceipt(r) \/ RequestTimeout(r)
        BY <1>2, <1>5, <2>2, SettlementAssumption DEF JobStep
      <3>2. UNCHANGED <<record, cur, reply, txState, txFor>>
        BY <3>1 DEF RequestJob, IssueReceipt, RequestTimeout, logVars, loopVars, chainVars
      <3>3. QED
        BY <1>3, <3>2
    <2>3. QED
      BY <2>1, <2>2
  <1>6. ASSUME NEW d \in Daemons, LoopStep(d)
        PROVE  FewerOrphans
    <2>1. CASE Restart(d) \/ NextRound(d)
      <3>1. received[d] \in SUBSET Receipts
        BY DEF IInv, TypeOK
      <3>2. QED
        BY <1>4, <2>1, <3>1 DEF Restart, NextRound, StartReconcile, chainVars
    <2>2. CASE \/ SendTransaction(d) \/ PollUndecided(d) \/ EndReconcile(d)
               \/ \E r \in Receipts :
                     SkipSettled(d, r) \/ BeginBroadcast(d, r) \/ BeginPoll(d, r)
      <3>1. UNCHANGED <<record, reply, txState, txFor>>
        BY <2>2 DEF SendTransaction, PollUndecided, EndReconcile, SkipSettled,
                    BeginBroadcast, BeginPoll, logVars, chainVars
      <3>2. \A e \in Daemons : cur'[e] = cur[e] \/ (e = d /\ pc[d] # "sending")
        BY <2>2 DEF SendTransaction, PollUndecided, EndReconcile, SkipSettled,
                    BeginBroadcast, BeginPoll, IInv, TypeOK
      <3>3. reply[d] # NoTx => pc[d] = "sending"
        BY DEF IInv, LoopShape, LoopShapeOf
      <3>4. \A e \in Daemons, r \in Receipts, h \in Hashes :
               reply[e] = h /\ cur[e] = r => reply'[e] = h /\ cur'[e] = r
        BY <3>1, <3>2, <3>3, SettlementAssumption
      <3>5. QED
        BY <1>3, <3>1, <3>4
    <2>3. CASE \/ BroadcastFails(d) \/ SendReplied(d) \/ PollSuccess(d) \/ PollReverted(d)
      <3>1. pc[d] \in {"preflight", "sending", "polling"}
        BY <2>3 DEF BroadcastFails, SendReplied, PollSuccess, PollReverted
      <3>2. /\ cur[d] \in Receipts
            /\ snapshot[d][cur[d]] = record[d][cur[d]]
            /\ pc[d] # "polling" => record[d][cur[d]].tx = NoTx
            /\ reply[d] # NoTx => pc[d] = "sending"
        BY <3>1, CurrentRecord DEF IInv, LoopShape, LoopShapeOf
      <3>21. record[d][cur[d]].tx \in Hashes \cup {NoTx} /\ reply[d] \in Hashes \cup {NoTx}
        BY <3>2 DEF IInv, TypeOK, Record
      <3>3. PICK status \in {"TRIGGERED", "CONFIRMED", "FAILED"},
                 tx \in Hashes \cup {NoTx} :
               /\ Store(d, status, tx)
               /\ \/ tx = record[d][cur[d]].tx /\ reply[d] = NoTx
                  \/ record[d][cur[d]].tx = NoTx /\ tx = reply[d]
        <4>1. CASE BroadcastFails(d)
          <5>1. reply[d] = NoTx /\ Store(d, "FAILED", record[d][cur[d]].tx)
            BY <3>2, <4>1 DEF BroadcastFails
          <5>2. QED
            BY <3>21, <5>1
        <4>4. CASE PollSuccess(d)
          <5>1. pc[d] = "polling" /\ Store(d, "CONFIRMED", record[d][cur[d]].tx)
            BY <3>2, <4>4 DEF PollSuccess
          <5>2. reply[d] = NoTx
            BY <3>2, <5>1
          <5>3. QED
            BY <3>21, <5>1, <5>2
        <4>5. CASE PollReverted(d)
          <5>1. pc[d] = "polling" /\ Store(d, "FAILED", record[d][cur[d]].tx)
            BY <3>2, <4>5 DEF PollReverted
          <5>2. reply[d] = NoTx
            BY <3>2, <5>1
          <5>3. QED
            BY <3>21, <5>1, <5>2
        <4>2. CASE SendReplied(d)
          <5>1. Store(d, "TRIGGERED", reply[d]) /\ record[d][cur[d]].tx = NoTx
            BY <3>2, <4>2 DEF SendReplied
          <5>2. QED
            BY <3>21, <5>1
        <4>3. QED
          BY <2>3, <4>1, <4>2, <4>4, <4>5
      <3>4. /\ UNCHANGED <<txState, txFor>>
            /\ record'[d][cur[d]].tx = tx
            /\ \A e \in Daemons, r \in Receipts :
                  e # d \/ r # cur[d] => record'[e][r] = record[e][r]
            /\ \A e \in Daemons : e # d => reply'[e] = reply[e] /\ cur'[e] = cur[e]
        BY <3>2, <3>3 DEF Store, chainVars, IInv, TypeOK
      <3>5. ASSUME NEW e \in Daemons, NEW r \in Receipts, NEW h \in Hashes,
                   record[e][r].tx = h \/ (reply[e] = h /\ cur[e] = r)
            PROVE  record'[e][r].tx = h \/ (reply'[e] = h /\ cur'[e] = r)
        BY <3>2, <3>3, <3>4, <3>5, SettlementAssumption
      <3>6. QED
        BY <1>3, <3>4, <3>5
    <2>4. ~SendReplyLost(d)
      BY DEF SendReplyLost
    <2>5. QED
      BY <1>6, <2>1, <2>2, <2>3, <2>4 DEF LoopStep
  <1>7. ASSUME NEW g \in Hashes, ChainStep(g)
        PROVE  FewerOrphans
    <2>1. CASE Mine(g) \/ Evict(g)
      <3>1. UNCHANGED <<record, cur, reply, txFor>>
        BY <2>1 DEF Mine, Evict, logVars, loopVars
      <3>2. QED
        BY <3>1 DEF FewerOrphans, Orphans, AccountedFor, TransfersFor
    <2>2. ASSUME NEW d \in Daemons, NodeAccepts(d, g)
          PROVE  FewerOrphans
      <3>1. /\ reply[d] = NoTx /\ UNCHANGED <<record, cur>>
            /\ reply'[d] = g /\ txFor'[g] = txFor[g] \cup {<<d, cur[d]>>}
            /\ \A e \in Daemons : e # d => reply'[e] = reply[e]
            /\ \A h \in Hashes : h # g => txFor'[h] = txFor[h]
        BY <2>2 DEF NodeAccepts, logVars, IInv, TypeOK
      <3>2. ASSUME NEW e \in Daemons, NEW r \in Receipts, NEW h \in Hashes,
                   <<e, r>> \in txFor'[h], ~AccountedFor(h, e, r)'
            PROVE  <<e, r>> \in txFor[h] /\ ~AccountedFor(h, e, r)
        <4>1. ~(record[e][r].tx = h) /\ ~(reply'[e] = h /\ cur[e] = r)
          BY <3>1, <3>2 DEF AccountedFor
        <4>2. <<e, r>> \in txFor[h]
          <5>1. CASE h # g
            BY <3>1, <3>2, <5>1
          <5>2. CASE h = g
            <6>1. ~(e = d /\ r = cur[d])
              BY <3>1, <4>1, <5>2
            <6>2. <<e, r>> # <<d, cur[d]>>
              BY <6>1
            <6>3. QED
              BY <3>1, <3>2, <5>2, <6>2
          <5>3. QED
            BY <5>1, <5>2
        <4>3. ~(reply[e] = h /\ cur[e] = r)
          BY <3>1, <4>1, SettlementAssumption
        <4>4. QED
          BY <4>1, <4>2, <4>3 DEF AccountedFor
      <3>3. QED
        BY <3>2 DEF FewerOrphans, Orphans, TransfersFor
    <2>3. QED
      BY <1>7, <2>1, <2>2 DEF ChainStep
  <1>8. CASE UNCHANGED vars
    <2>1. UNCHANGED <<record, cur, reply, txState, txFor>>
      BY <1>8 DEF vars, logVars, loopVars, chainVars
    <2>2. QED
      BY <1>3, <2>1
  <1>9. CASE Next
    <2>1. \/ \E r \in Receipts : JobStep(r)
          \/ \E d \in Daemons : LoopStep(d)
          \/ \E g \in Hashes : ChainStep(g)
      BY <1>2, <1>9 DEF Next
    <2>2. QED
      BY <1>5, <1>6, <1>7, <2>1
  <1>10. QED
    BY <1>8, <1>9

(* A crash loses the answer its daemon was waiting for, and no other. *)
LEMMA OrphanOfACrash ==
  ASSUME IInv, NEW d \in Daemons, LoseMemory(d), UNCHANGED chainVars,
         NEW S \in SUBSET Receipts,
         record' = [record EXCEPT ![d] = Requested(d, S)] \/ record' = record
  PROVE  \A e \in Daemons, r \in Receipts :
            Orphans(e, r)' \subseteq Orphans(e, r) \cup {reply[d]}
  <1>1. \A e \in Daemons : e # d => reply'[e] = reply[e] /\ cur'[e] = cur[e]
    BY DEF LoseMemory, IInv, TypeOK
  <1>2. \A e \in Daemons, r \in Receipts :
           \/ record'[e][r] = record[e][r]
           \/ record[e][r].status = "NONE" /\ record'[e][r] = Pending
    BY RequestedRecords DEF IInv
  <1>3. \A e \in Daemons, r \in Receipts, h \in Hashes :
           record[e][r].tx = h => record'[e][r].tx = h
    BY <1>2, SettlementAssumption DEF IInv, RecordShape
  <1>4. ASSUME NEW e \in Daemons, NEW r \in Receipts, NEW h \in Hashes,
               AccountedFor(h, e, r), h # reply[d]
        PROVE  AccountedFor(h, e, r)'
    BY <1>1, <1>3, <1>4 DEF AccountedFor
  <1>5. QED
    BY <1>4 DEF Orphans, TransfersFor, chainVars

LEMMA OneMoreOrphan ==
  ASSUME IInv, OrphanInv, crashes' = crashes + 1, NEW x,
         \A d \in Daemons, r \in Receipts : Orphans(d, r)' \subseteq Orphans(d, r) \cup {x}
  PROVE  OrphanInv'
  <1> SUFFICES ASSUME NEW d \in Daemons, NEW r \in Receipts
               PROVE  IsFiniteSet(Orphans(d, r)') /\ Cardinality(Orphans(d, r)') <= crashes'
    BY DEF OrphanInv
  <1>1. /\ IsFiniteSet(Orphans(d, r)) /\ Cardinality(Orphans(d, r)) <= crashes
        /\ Orphans(d, r)' \subseteq Orphans(d, r) \cup {x}
    BY DEF OrphanInv
  <1>2. /\ IsFiniteSet(Orphans(d, r) \cup {x})
        /\ Cardinality(Orphans(d, r) \cup {x}) <= Cardinality(Orphans(d, r)) + 1
    BY <1>1, AddOne
  <1>3. /\ IsFiniteSet(Orphans(d, r)')
        /\ Cardinality(Orphans(d, r)') <= Cardinality(Orphans(d, r) \cup {x})
    BY <1>1, <1>2, FS_Subset
  <1>4. /\ Cardinality(Orphans(d, r)') \in Nat /\ Cardinality(Orphans(d, r)) \in Nat
        /\ Cardinality(Orphans(d, r) \cup {x}) \in Nat
    BY <1>1, <1>2, <1>3, FS_CardinalityType
  <1>5. crashes \in Nat
    BY DEF IInv, TypeOK
  <1>6. QED
    BY <1>1, <1>2, <1>3, <1>4, <1>5

LEMMA CrashOrphans ==
  ASSUME IInv, OrphanInv, [Next]_vars, crashes' = crashes + 1
  PROVE  OrphanInv'
  <1>1. crashes' # crashes
    BY DEF IInv, TypeOK
  <1>2. CASE \E d \in Daemons : Crash(d)
    <2>1. PICK d \in Daemons : Crash(d)
      BY <1>2
    <2>2. PICK S \in SUBSET received[d] : record' = [record EXCEPT ![d] = Requested(d, S)]
      BY <2>1 DEF Crash
    <2>3. S \in SUBSET Receipts
      BY <2>2 DEF IInv, TypeOK
    <2>4. \A e \in Daemons, r \in Receipts :
             Orphans(e, r)' \subseteq Orphans(e, r) \cup {reply[d]}
      BY <2>1, <2>2, <2>3, OrphanOfACrash DEF Crash
    <2>5. QED
      BY <2>4, OneMoreOrphan
  <1>3. CASE \E r \in Receipts : CrashAfterReceipt(r)
    <2>1. PICK r \in Receipts : CrashAfterReceipt(r)
      BY <1>3
    <2>2. Requester[r] \in Daemons
      BY SettlementAssumption
    <2>3. LoseMemory(Requester[r]) /\ UNCHANGED chainVars /\ record' = record
      BY <2>1 DEF CrashAfterReceipt
    <2>4. {} \in SUBSET Receipts
      OBVIOUS
    <2>5. \A e \in Daemons, k \in Receipts :
             Orphans(e, k)' \subseteq Orphans(e, k) \cup {reply[Requester[r]]}
      BY <2>2, <2>3, <2>4, OrphanOfACrash
    <2>6. QED
      BY <2>5, OneMoreOrphan
  <1>4. ASSUME NEW r \in Receipts, JobStep(r), ~CrashAfterReceipt(r)
        PROVE  FALSE
    BY <1>1, <1>4 DEF JobStep, RequestJob, IssueReceipt, AcceptReceipt, RequestTimeout
  <1>5. ASSUME NEW d \in Daemons, LoopStep(d)
        PROVE  FALSE
    BY <1>1, <1>5 DEF LoopStep, Restart, NextRound, StartReconcile, SkipSettled,
                BeginBroadcast, BeginPoll, SendTransaction, BroadcastFails, SendReplyLost,
                SendReplied, PollSuccess, PollReverted, PollUndecided, EndReconcile, Store
  <1>6. ASSUME NEW h \in Hashes, ChainStep(h)
        PROVE  FALSE
    BY <1>1, <1>6 DEF ChainStep, NodeAccepts, Mine, Evict
  <1>7. ~UNCHANGED vars
    BY <1>1 DEF vars
  <1>8. (\E d \in Daemons : Crash(d)) \/ (\E r \in Receipts : CrashAfterReceipt(r))
    <2>1. CASE Next
      BY <1>4, <1>5, <1>6, <2>1 DEF Next
    <2>2. QED
      BY <1>7, <2>1
  <1>9. QED
    BY <1>2, <1>3, <1>8

LEMMA OrphanStep ==
  ASSUME "lost" \notin Faults, IInv, OrphanInv, [Next]_vars
  PROVE  OrphanInv'
  <1>1. CASE crashes' = crashes
    <2> SUFFICES ASSUME NEW d \in Daemons, NEW r \in Receipts
                 PROVE  IsFiniteSet(Orphans(d, r)') /\ Cardinality(Orphans(d, r)') <= crashes'
      BY DEF OrphanInv
    <2>1. /\ Orphans(d, r)' \in SUBSET Orphans(d, r)
          /\ IsFiniteSet(Orphans(d, r)) /\ Cardinality(Orphans(d, r)) <= crashes
      BY <1>1, NoNewOrphan DEF FewerOrphans, OrphanInv
    <2>2. /\ IsFiniteSet(Orphans(d, r)')
          /\ Cardinality(Orphans(d, r)') <= Cardinality(Orphans(d, r))
      BY <2>1, FS_Subset
    <2>3. Cardinality(Orphans(d, r)') \in Nat /\ Cardinality(Orphans(d, r)) \in Nat
      BY <2>1, <2>2, FS_CardinalityType
    <2>4. QED
      BY <1>1, <2>1, <2>2, <2>3 DEF IInv, TypeOK
  <1>2. CASE crashes' = crashes + 1
    BY <1>2, CrashOrphans
  <1>3. QED
    BY <1>1, <1>2, CrashesGrow

LEMMA InitOrphans == Init => OrphanInv
  <1>1. Init => crashes = 0 /\ \A d \in Daemons, r \in Receipts : Orphans(d, r) = {}
    BY DEF Init, Orphans, TransfersFor
  <1>2. QED
    BY <1>1, FS_EmptySet DEF OrphanInv

(* When no answer of the node is lost, a payer has at most one transfer for *)
(* a receipt and one more for every crash.  The code sends again whatever   *)
(* has no hash, so a lost answer can cost a transfer as well.               *)
THEOREM PaidOnceButForCrashes ==
  ASSUME "lost" \notin Faults
  PROVE  Spec => []CrashCostsOneTransfer
  <1>1. Init => OrphanInv
    BY InitOrphans
  <1>2. IInv /\ OrphanInv /\ [Next]_vars => OrphanInv'
    BY OrphanStep
  <1>3. QED
    BY <1>1, <1>2, FewOrphans, Invariant, PTL DEF Spec

(* A daemon that loses neither an answer nor, in a crash, the send it waits *)
(* for may send a FAILED settlement without a hash again: nothing of it is  *)
(* in the mempool or on the chain.                                          *)
THEOREM FailedIsNotSentWithoutFaults ==
  ASSUME "lost" \notin Faults
  PROVE  Spec => [](crashes = 0 => FailedMeansNotSent)
  <1>1. Init => OrphanInv
    BY InitOrphans
  <1>2. IInv /\ OrphanInv /\ [Next]_vars => OrphanInv'
    BY OrphanStep
  <1>3. IInv /\ OrphanInv => (crashes = 0 => FailedMeansNotSent)
    <2> SUFFICES ASSUME IInv, OrphanInv, crashes = 0, NEW d \in Daemons, NEW r \in Receipts,
                        record[d][r].tx = NoTx,
                        NEW h \in TransfersFor(<<d, r>>), h # reply[d]
                 PROVE  FALSE
      BY DEF FailedMeansNotSent
    <2>1. Orphans(d, r) = {}
      BY FS_EmptySet, FS_CardinalityType DEF OrphanInv
    <2>2. record[d][r].tx = h \/ reply[d] = h
      BY <2>1 DEF Orphans, AccountedFor
    <2>3. h # NoTx
      BY SettlementAssumption DEF TransfersFor
    <2>4. QED
      BY <2>2, <2>3
  <1>4. QED
    BY <1>1, <1>2, <1>3, Invariant, PTL DEF Spec

-----------------------------------------------------------------------------
(* Who pays.  Only the two parties of a job learn its receipt, both of them *)
(* request its settlement, and only a daemon configured for it pays.        *)
Parties(r) == {Requester[r], Worker[r]}

OnlyParties ==
    \A d \in Daemons, r \in Receipts :
        /\ r \in received[d] => d \in Parties(r)
        /\ record[d][r].status # "NONE" => r \in Payable /\ d \in Parties(r)

OnlyConfigured ==
    /\ \A d \in Daemons : pc[d] = "sending" => d \in Configured
    /\ \A h \in Hashes : \A p \in txFor[h] :
          p[1] \in Configured /\ p[2] \in Payable /\ p[1] \in Parties(p[2])

LEMMA ReceiptsArrive ==
  ASSUME [Next]_vars, received' # received
  PROVE  \E k \in Receipts : IssueReceipt(k) \/ AcceptReceipt(k) \/ CrashAfterReceipt(k)
  <1>1. ASSUME NEW e \in Daemons, LoopStep(e) \/ Crash(e)
        PROVE  received' = received
    BY <1>1 DEF Crash, LoopStep, Restart, NextRound, StartReconcile, SkipSettled,
                BeginBroadcast, BeginPoll, SendTransaction, BroadcastFails,
                SendReplyLost, SendReplied, PollSuccess, PollReverted, PollUndecided,
                EndReconcile, Store, logVars
  <1>2. ASSUME NEW h \in Hashes, ChainStep(h)
        PROVE  received' = received
    BY <1>2 DEF ChainStep, NodeAccepts, Mine, Evict, logVars
  <1>3. ASSUME NEW k \in Receipts, RequestJob(k) \/ RequestTimeout(k)
        PROVE  received' = received
    BY <1>3 DEF RequestJob, RequestTimeout, logVars
  <1>4. UNCHANGED vars => received' = received
    BY DEF vars, logVars
  <1>5. QED
    BY <1>1, <1>2, <1>3, <1>4 DEF Next, JobStep

LEMMA PartiesStep ==
  ASSUME IInv, OnlyParties, [Next]_vars
  PROVE  OnlyParties'
  <1>1. ASSUME NEW d \in Daemons, NEW r \in Receipts, r \in received'[d]
        PROVE  d \in Parties(r)
    <2>1. CASE r \in received[d]
      BY <2>1 DEF OnlyParties
    <2>2. CASE r \notin received[d]
      <3>1. \E k \in Receipts : IssueReceipt(k) \/ AcceptReceipt(k) \/ CrashAfterReceipt(k)
        BY <1>1, <2>2, ReceiptsArrive
      <3>2. PICK k \in Receipts : IssueReceipt(k) \/ AcceptReceipt(k) \/ CrashAfterReceipt(k)
        BY <3>1
      <3>3. k = r /\ d \in Parties(k)
        BY <1>1, <2>2, <3>2, SettlementAssumption
           DEF IssueReceipt, AcceptReceipt, CrashAfterReceipt, Parties, IInv, TypeOK
      <3>4. QED
        BY <3>3
    <2>3. QED
      BY <2>1, <2>2
  <1>2. ASSUME NEW d \in Daemons, NEW r \in Receipts, record'[d][r].status # "NONE"
        PROVE  r \in Payable /\ d \in Parties(r)
    <2>1. CASE record[d][r].status # "NONE"
      BY <2>1 DEF OnlyParties
    <2>2. CASE record[d][r].status = "NONE"
      <3>1. CASE \E e \in Daemons, S \in SUBSET Receipts :
                    S \subseteq received'[e] /\ record' = [record EXCEPT ![e] = Requested(e, S)]
        <4>1. PICK e \in Daemons, S \in SUBSET Receipts :
                 S \subseteq received'[e] /\ record' = [record EXCEPT ![e] = Requested(e, S)]
          BY <3>1
        <4>2. d = e /\ record'[d][r] = Requested(e, S)[r]
          BY <1>2, <2>2, <4>1 DEF IInv, TypeOK
        <4>3. r \in S /\ r \in Payable
          BY <1>2, <2>2, <4>2 DEF Requested, RequestSettlement
        <4>4. QED
          BY <1>1, <4>1, <4>2, <4>3
      <3>2. CASE ~\E e \in Daemons, S \in SUBSET Receipts :
                    S \subseteq received'[e] /\ record' = [record EXCEPT ![e] = Requested(e, S)]
        <4>1. CASE record' = record
          BY <1>2, <2>2, <4>1
        <4>2. CASE record' # record
          <5>1. PICK e \in Daemons, status \in {"TRIGGERED", "CONFIRMED", "FAILED"},
                     tx \in Hashes \cup {NoTx} :
                   /\ pc[e] \in {"preflight", "sending", "polling"}
                   /\ record' = [record EXCEPT ![e][cur[e]] = [status |-> status, tx |-> tx]]
            BY <3>2, <4>2, NextChangesRecords DEF RecordsChange
          <5>2. record[e][cur[e]].status # "NONE" /\ cur[e] \in Receipts
            BY <5>1, CurrentRecord
          <5>3. ~(d = e /\ r = cur[e])
            BY <2>2, <5>2
          <5>4. record'[d][r] = record[d][r]
            BY <5>1, <5>3 DEF IInv, TypeOK
          <5>5. QED
            BY <1>2, <2>2, <5>4
        <4>3. QED
          BY <4>1, <4>2
      <3>3. QED
        BY <3>1, <3>2
    <2>3. QED
      BY <2>1, <2>2
  <1>3. QED
    BY <1>1, <1>2 DEF OnlyParties, Parties

LEMMA ConfiguredStep ==
  ASSUME IInv, OnlyParties, OnlyConfigured, [Next]_vars
  PROVE  OnlyConfigured'
  <1>1. ASSUME NEW d \in Daemons, pc'[d] = "sending", pc[d] # "sending"
        PROVE  d \in Configured
    <2>1. ASSUME NEW r \in Receipts, JobStep(r)
          PROVE  pc'[d] = pc[d] \/ pc'[d] = "down"
      BY <2>1 DEF JobStep, RequestJob, IssueReceipt, AcceptReceipt, RequestTimeout,
                  CrashAfterReceipt, LoseMemory, loopVars, IInv, TypeOK
    <2>2. ASSUME NEW e \in Daemons, LoopStep(e) \/ Crash(e), ~SendTransaction(e)
          PROVE  pc'[d] # "sending"
      BY <1>1, <2>2 DEF LoopStep, Restart, NextRound, StartReconcile, SkipSettled,
                  BeginBroadcast, BeginPoll, BroadcastFails, SendReplyLost, SendReplied,
                  PollSuccess, PollReverted, PollUndecided, EndReconcile, Store,
                  Crash, LoseMemory, IInv, TypeOK
    <2>3. ASSUME NEW e \in Daemons, SendTransaction(e)
          PROVE  d = e /\ e \in Configured
      BY <1>1, <2>3 DEF SendTransaction, IInv, TypeOK
    <2>4. ASSUME NEW h \in Hashes, ChainStep(h)
          PROVE  pc' = pc
      BY <2>4 DEF ChainStep, NodeAccepts, Mine, Evict, loopVars
    <2>5. UNCHANGED vars => pc' = pc
      BY DEF vars, loopVars
    <2>6. QED
      BY <1>1, <2>1, <2>2, <2>3, <2>4, <2>5 DEF Next
  <1>2. ASSUME NEW h \in Hashes, NEW p \in txFor'[h]
        PROVE  p[1] \in Configured /\ p[2] \in Payable /\ p[1] \in Parties(p[2])
    <2>1. CASE p \in txFor[h]
      BY <2>1 DEF OnlyConfigured
    <2>2. CASE p \notin txFor[h]
      <3>1. PICK d \in Daemons : NodeAccepts(d, h)
        <4>1. ASSUME NEW g \in Hashes, ChainStep(g)
              PROVE  \E d \in Daemons : NodeAccepts(d, h)
          <5>1. ~(Mine(g) \/ Evict(g))
            BY <1>2, <2>2 DEF Mine, Evict
          <5>2. PICK d \in Daemons : NodeAccepts(d, g)
            BY <4>1, <5>1 DEF ChainStep
          <5>3. txFor' = [txFor EXCEPT ![g] = @ \cup {<<d, cur[d]>>}]
            BY <5>2 DEF NodeAccepts
          <5>4. g = h
            BY <1>2, <2>2, <5>3 DEF IInv, TypeOK
          <5>5. QED
            BY <5>2, <5>4
        <4>2. ASSUME NEW r \in Receipts, JobStep(r)
              PROVE  FALSE
          BY <1>2, <2>2, <4>2 DEF JobStep, RequestJob, IssueReceipt, AcceptReceipt,
                      RequestTimeout, CrashAfterReceipt, chainVars
        <4>3. ASSUME NEW e \in Daemons, LoopStep(e) \/ Crash(e)
              PROVE  FALSE
          BY <1>2, <2>2, <4>3 DEF LoopStep, Restart, NextRound, StartReconcile, SkipSettled,
                      BeginBroadcast, BeginPoll, SendTransaction, BroadcastFails,
                      SendReplyLost, SendReplied, PollSuccess, PollReverted, PollUndecided,
                      EndReconcile, Store, Crash, chainVars
        <4>4. UNCHANGED vars => txFor' = txFor
          BY DEF vars, chainVars
        <4>5. QED
          BY <1>2, <2>2, <4>1, <4>2, <4>3, <4>4 DEF Next
      <3>2. pc[d] = "sending" /\ p = <<d, cur[d]>>
        BY <1>2, <2>2, <3>1 DEF NodeAccepts, IInv, TypeOK
      <3>3. cur[d] \in Receipts /\ record[d][cur[d]].status # "NONE"
        BY <3>2, CurrentRecord
      <3>4. d \in Configured /\ cur[d] \in Payable /\ d \in Parties(cur[d])
        BY <3>2, <3>3 DEF OnlyParties, OnlyConfigured
      <3>5. QED
        BY <3>2, <3>4
    <2>3. QED
      BY <2>1, <2>2
  <1>3. ASSUME NEW d \in Daemons, pc'[d] = "sending"
        PROVE  d \in Configured
    BY <1>1, <1>3 DEF OnlyConfigured
  <1>4. QED
    BY <1>2, <1>3 DEF OnlyConfigured, Parties

(* The requester pays its receipts wherever no worker of a payable receipt, *)
(* other than the requester itself, is configured to pay: the daemon of the *)
(* worker requests the settlement as well and would send a second transfer. *)
THEOREM RequesterPaysIfOnlyItCan ==
  ASSUME \A r \in Payable : Worker[r] \in Configured => Worker[r] = Requester[r]
  PROVE  Spec => []RequesterPays
  <1>1. Init => OnlyParties /\ OnlyConfigured
    BY DEF Init, OnlyParties, OnlyConfigured, NoRecord
  <1>2. IInv /\ OnlyParties /\ OnlyConfigured /\ [Next]_vars
           => OnlyParties' /\ OnlyConfigured'
    BY PartiesStep, ConfiguredStep
  <1>3. OnlyConfigured => RequesterPays
    BY SettlementAssumption DEF OnlyConfigured, RequesterPays, Parties
  <1>4. QED
    BY <1>1, <1>2, <1>3, Invariant, PTL DEF Spec

-----------------------------------------------------------------------------
(* What is owed is on record.  Whenever a daemon runs, every payable receipt *)
(* that it got as a requester has its settlement record, from which the      *)
(* loop pays: only a crash can come in between, and the restart catches up.  *)
OwedIsOnRecord ==
    \A d \in Daemons, r \in Payable :
        r \in received[d] /\ d # Worker[r] /\ Up(d) => record[d][r].status # "NONE"

LEMMA OwedStep ==
  ASSUME IInv, OwedIsOnRecord, [Next]_vars
  PROVE  OwedIsOnRecord'
  <1> SUFFICES ASSUME NEW d \in Daemons, NEW r \in Payable,
                      r \in received'[d], d # Worker[r], pc'[d] # "down",
                      record'[d][r].status = "NONE"
               PROVE  FALSE
    BY DEF OwedIsOnRecord, Up
  <1>1. r \in Receipts
    BY SettlementAssumption
  <1>2. record[d][r].status = "NONE"
    BY <1>1, WalkStep DEF Walk, Pending
  <1>3. ASSUME NEW S \in SUBSET Receipts, r \in S,
               record' = [record EXCEPT ![d] = Requested(d, S)]
        PROVE  FALSE
    <2>1. record'[d][r] = Requested(d, S)[r]
      BY <1>3 DEF IInv, TypeOK
    <2>2. Requested(d, S)[r] = Pending
      BY <1>1, <1>2, <1>3 DEF Requested, RequestSettlement
    <2>3. QED
      BY <2>1, <2>2 DEF Pending
  <1>4. CASE r \in received[d]
    <2>1. pc[d] = "down"
      BY <1>2, <1>4 DEF OwedIsOnRecord, Up
    <2>2. Restart(d)
      <3>1. ASSUME NEW k \in Receipts, JobStep(k)
            PROVE  FALSE
        BY <2>1, <3>1 DEF JobStep, RequestJob, IssueReceipt, AcceptReceipt, RequestTimeout,
                          CrashAfterReceipt, LoseMemory, loopVars, IInv, TypeOK
      <3>2. ASSUME NEW e \in Daemons, LoopStep(e) \/ Crash(e), ~(e = d /\ Restart(e))
            PROVE  FALSE
        BY <2>1, <3>2 DEF LoopStep, Restart, NextRound, StartReconcile, SkipSettled,
                          BeginBroadcast, BeginPoll, SendTransaction, BroadcastFails,
                          SendReplyLost, SendReplied, PollSuccess, PollReverted,
                          PollUndecided, EndReconcile, Store, Crash, LoseMemory, IInv, TypeOK
      <3>3. ASSUME NEW h \in Hashes, ChainStep(h)
            PROVE  FALSE
        BY <2>1, <3>3 DEF ChainStep, NodeAccepts, Mine, Evict, loopVars
      <3>4. ~UNCHANGED vars
        BY <2>1 DEF vars, loopVars
      <3>5. QED
        BY <3>1, <3>2, <3>3, <3>4 DEF Next
    <2>3. /\ received[d] \in SUBSET Receipts
          /\ record' = [record EXCEPT ![d] = Requested(d, received[d])]
      BY <2>2 DEF Restart, StartReconcile, IInv, TypeOK
    <2>4. QED
      BY <1>3, <1>4, <2>3
  <1>5. CASE r \notin received[d]
    <2>1. PICK k \in Receipts : IssueReceipt(k) \/ AcceptReceipt(k) \/ CrashAfterReceipt(k)
      BY <1>5, ReceiptsArrive
    <2>2. CASE IssueReceipt(k)
      BY <1>5, <2>2, SettlementAssumption DEF IssueReceipt, IInv, TypeOK
    <2>3. CASE AcceptReceipt(k)
      <3>1. k = r /\ d = Requester[k]
        BY <1>5, <2>3, SettlementAssumption DEF AcceptReceipt, IInv, TypeOK
      <3>2. record' = [record EXCEPT ![d] = Requested(d, {r})]
        BY <2>3, <3>1 DEF AcceptReceipt
      <3>3. QED
        BY <1>1, <1>3, <3>2
    <2>4. CASE CrashAfterReceipt(k)
      <3>1. d = Requester[k]
        BY <1>5, <2>4, SettlementAssumption DEF CrashAfterReceipt, IInv, TypeOK
      <3>2. QED
        BY <2>4, <3>1 DEF CrashAfterReceipt, LoseMemory, IInv, TypeOK
    <2>5. QED
      BY <2>1, <2>2, <2>3, <2>4
  <1>6. QED
    BY <1>4, <1>5

(* A crash between a receipt and its settlement request does not leave the  *)
(* worker unpaid: the restart makes the request before anything else runs.  *)
(* EventuallySettled adds that the loop gets on with it.                    *)
THEOREM OwedStaysOnRecord == Spec => []OwedIsOnRecord
  <1>1. Init => OwedIsOnRecord
    BY DEF Init, OwedIsOnRecord
  <1>2. IInv /\ OwedIsOnRecord /\ [Next]_vars => OwedIsOnRecord'
    BY OwedStep
  <1>3. QED
    BY <1>1, <1>2, Invariant, PTL DEF Spec
=============================================================================

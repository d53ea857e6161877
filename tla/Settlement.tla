----------------------------- MODULE Settlement -----------------------------
(***************************************************************************)
(* The payment side of the NodeHub daemon (platform/daemon/service.py):    *)
(* how a successful execution receipt becomes a settlement record, and how *)
(* the reconcile loop turns that record into a native transfer on chain.   *)
(*                                                                         *)
(* Every daemon, requester or worker, runs the same loop over its own      *)
(* event log.  Receipts and records are durable (events.jsonl); the        *)
(* loop's position, its snapshot of the records and the coroutine that     *)
(* waits for a receipt are lost by a crash.  Every await of an RPC call is *)
(* a point where the chain, the other daemons and a crash may interleave.  *)
(*                                                                         *)
(* The log is seen here through LocalEventStore.settlements(): the latest  *)
(* record of each receipt.  A transfer is signed from the payer's key, its *)
(* nonce (read with "pending"), the wallet, the gas price and one amount   *)
(* for every job: nothing in it names the receipt.  Its hash is new while  *)
(* its nonce is; but an eviction frees the nonce, and the next transfer of *)
(* that payer to that wallet may then be the evicted one, bit by bit.      *)
(***************************************************************************)
EXTENDS Naturals, FiniteSets

CONSTANTS
    Daemons,     (* peer ids of the daemons                                  *)
    Receipts,    (* receipt ids of execution receipts, one per job           *)
    Hashes,      (* transaction hashes; bounds the number of transactions    *)
    Requester,   (* Requester[r]: the daemon whose request_job waits for r   *)
    Worker,      (* Worker[r]: the daemon that executes the job and signs r  *)
    Wallet,      (* Wallet[r]: the wallet r asks to be paid to               *)
    Payable,     (* receipts with success, a positive price and a wallet     *)
    Configured,  (* daemons whose RPC url, key and network allow a transfer  *)
    Faults,      (* which of "lost" (reply of a send) and "evicted" happen   *)
    MaxCrashes,  (* bound on the number of crashes                           *)
    NoTx, NoReceipt

ASSUME SettlementAssumption ==
    /\ Requester \in [Receipts -> Daemons]
    /\ Worker \in [Receipts -> Daemons]
    /\ Payable \subseteq Receipts
    /\ Configured \subseteq Daemons
    /\ Faults \subseteq {"lost", "evicted"}
    /\ MaxCrashes \in Nat
    /\ NoTx \notin Hashes
    /\ NoReceipt \notin Receipts

VARIABLES
    job,       (* job[r]: is a request_job coroutine waiting for receipt r?  *)
    received,  (* received[d]: the execution receipts in d's event log       *)
    record,    (* record[d][r]: the latest settlement record in d's log      *)
    pc,        (* pc[d]: where d's reconcile coroutine is suspended          *)
    todo,      (* todo[d]: records of the snapshot not yet looked at         *)
    snapshot,  (* snapshot[d]: the records settlements() returned            *)
    cur,       (* cur[d]: the receipt whose record the loop is settling      *)
    reply,     (* reply[d]: hash the node is returning for d's transaction   *)
    txState,   (* txState[h]: what the chain did with transaction h          *)
    txFor,     (* txFor[h]: payers and receipts that h was sent for          *)
    crashes    (* crashes so far                                             *)

logVars   == <<received, record>>
loopVars  == <<pc, todo, snapshot, cur, reply>>
chainVars == <<txState, txFor>>
vars      == <<job, logVars, loopVars, chainVars, crashes>>

(* SettlementStatus; "NONE" stands for a receipt without any record. *)
Status == {"NONE", "PENDING", "TRIGGERED", "CONFIRMED", "FAILED"}
Record == [status : Status, tx : Hashes \cup {NoTx}]
NoRecord == [status |-> "NONE", tx |-> NoTx]
Pending  == [status |-> "PENDING", tx |-> NoTx]

Up(d) == pc[d] # "down"

(* Mutant: request_settlement without its look-up of an existing record.   *)
RequestSettlementAnew(rec, r) ==
    IF r \in Payable THEN Pending ELSE rec

(* build_execution_settlement followed by request_settlement: a payable    *)
(* receipt gets a PENDING record unless a record already exists for it.    *)
RequestSettlement(rec, r) ==
    IF r \in Payable /\ rec.status = "NONE" THEN Pending ELSE rec

(* The records of d once settlement has been requested for the receipts S. *)
Requested(d, S) ==
    [r \in Receipts |->
        IF r \in S THEN RequestSettlement(record[d][r], r) ELSE record[d][r]]

-----------------------------------------------------------------------------
Init ==
    /\ job = [r \in Receipts |-> "idle"]
    /\ received = [d \in Daemons |-> {}]
    /\ record = [d \in Daemons |-> [r \in Receipts |-> NoRecord]]
    /\ pc = [d \in Daemons |-> "idle"]
    /\ todo = [d \in Daemons |-> {}]
    /\ snapshot = [d \in Daemons |-> [r \in Receipts |-> NoRecord]]
    /\ cur = [d \in Daemons |-> NoReceipt]
    /\ reply = [d \in Daemons |-> NoTx]
    /\ txState = [h \in Hashes |-> "unused"]
    /\ txFor = [h \in Hashes |-> {}]
    /\ crashes = 0

-----------------------------------------------------------------------------
(* Jobs and receipts *)

(* request_job sends its execution_request and waits for the receipt. *)
RequestJob(r) ==
    /\ Up(Requester[r])
    /\ job[r] = "idle"
    /\ job' = [job EXCEPT ![r] = "waiting"]
    /\ UNCHANGED <<logVars, loopVars, chainVars, crashes>>

(* handle_execution_request on the worker: the receipt it signs is          *)
(* appended to the worker's own log before the reply is sent.               *)
IssueReceipt(r) ==
    /\ Up(Worker[r])
    /\ job[r] # "idle"
    /\ r \notin received[Worker[r]]
    /\ received' = [received EXCEPT ![Worker[r]] = @ \cup {r}]
    /\ UNCHANGED <<job, record, loopVars, chainVars, crashes>>

(* The reply reaches the waiting request_job: the receipt is appended and,  *)
(* with no suspension in between, its settlement requested.                 *)
AcceptReceipt(r) ==
    LET d == Requester[r] IN
    /\ Up(d)
    /\ job[r] = "waiting"
    /\ r \in received[Worker[r]]
    /\ job' = [job EXCEPT ![r] = "closed"]
    /\ received' = [received EXCEPT ![d] = @ \cup {r}]
    /\ record' = [record EXCEPT ![d] = Requested(d, {r})]
    /\ UNCHANGED <<loopVars, chainVars, crashes>>

(* wait_for gives up after 900 s; the future is dropped and with it any     *)
(* receipt that arrives later.                                              *)
RequestTimeout(r) ==
    /\ Up(Requester[r])
    /\ job[r] = "waiting"
    /\ job' = [job EXCEPT ![r] = "closed"]
    /\ UNCHANGED <<logVars, loopVars, chainVars, crashes>>

-----------------------------------------------------------------------------
(* Crash and restart *)

(* What a crash of d leaves of d's memory: nothing. *)
LoseMemory(d) ==
    /\ crashes < MaxCrashes
    /\ crashes' = crashes + 1
    /\ job' = [r \in Receipts |->
                 IF Requester[r] = d /\ job[r] = "waiting"
                 THEN "closed" ELSE job[r]]
    /\ pc' = [pc EXCEPT ![d] = "down"]
    /\ todo' = [todo EXCEPT ![d] = {}]
    /\ snapshot' = [snapshot EXCEPT ![d] = [r \in Receipts |-> NoRecord]]
    /\ cur' = [cur EXCEPT ![d] = NoReceipt]
    /\ reply' = [reply EXCEPT ![d] = NoTx]

(* A crash at an await, or between two appends of an uninterrupted stretch: *)
(* only some of the receipts in the log have had their settlement requested.*)
Crash(d) ==
    /\ Up(d)
    /\ LoseMemory(d)
    /\ \E S \in SUBSET received[d] :
          /\ pc[d] = "idle" \/ S = {}
          /\ record' = [record EXCEPT ![d] = Requested(d, S)]
    /\ UNCHANGED <<received, chainVars>>

(* A crash in request_job after the receipt was appended and before its     *)
(* settlement was requested.                                                *)
CrashAfterReceipt(r) ==
    LET d == Requester[r] IN
    /\ Up(d)
    /\ job[r] = "waiting"
    /\ r \in received[Worker[r]]
    /\ LoseMemory(d)
    /\ received' = [received EXCEPT ![d] = @ \cup {r}]
    /\ UNCHANGED <<record, chainVars>>

-----------------------------------------------------------------------------
(* reconcile_pending_settlements *)

(* Mutant: the log's receipts are not looked at, only its records.          *)
StartReconcileRecordsOnly(d) ==
    /\ pc[d] \in {"idle", "down"}
    /\ snapshot' = [snapshot EXCEPT ![d] = record[d]]
    /\ todo' = [todo EXCEPT ![d] = {r \in Receipts : record[d][r].status # "NONE"}]
    /\ pc' = [pc EXCEPT ![d] = "scan"]
    /\ UNCHANGED <<job, logVars, cur, reply, chainVars, crashes>>

(* The first part, without a suspension: request the settlement of every    *)
(* payable receipt that has no record, then take the snapshot.  It runs at  *)
(* startup and in every round of settlement_loop.                           *)
StartReconcile(d) ==
    /\ pc[d] \in {"idle", "down"}
    /\ LET rec == Requested(d, received[d]) IN
       /\ record' = [record EXCEPT ![d] = rec]
       /\ snapshot' = [snapshot EXCEPT ![d] = rec]
       /\ todo' = [todo EXCEPT ![d] = {r \in Receipts : rec[r].status # "NONE"}]
    /\ pc' = [pc EXCEPT ![d] = "scan"]
    /\ UNCHANGED <<job, received, cur, reply, chainVars, crashes>>

Restart(d)   == pc[d] = "down" /\ StartReconcile(d)
NextRound(d) == pc[d] = "idle" /\ StartReconcile(d)

(* CONFIRMED, and FAILED with a hash, are final. *)
Final(rec) ==
    \/ rec.status = "CONFIRMED"
    \/ rec.status = "FAILED" /\ rec.tx # NoTx

(* Mutant: the test that keeps a FAILED record with a hash from a resend is *)
(* forgotten.                                                               *)
NeedsBroadcastEvenIfReverted(rec) == rec.status \in {"PENDING", "FAILED"}

(* PENDING, and FAILED without a hash, are broadcast. *)
NeedsBroadcast(rec) ==
    \/ rec.status = "PENDING"
    \/ rec.status = "FAILED" /\ rec.tx = NoTx

NeedsPoll(rec) == rec.status = "TRIGGERED" /\ rec.tx # NoTx

SkipSettled(d, r) ==
    /\ pc[d] = "scan" /\ r \in todo[d]
    /\ Final(snapshot[d][r])
    /\ todo' = [todo EXCEPT ![d] = @ \ {r}]
    /\ UNCHANGED <<job, logVars, pc, snapshot, cur, reply, chainVars, crashes>>

(* Mutant: settlements() also lists the superseded copy of the record.      *)
BeginBroadcastOfOldCopies(d, r) ==
    /\ pc[d] = "scan" /\ r \in todo[d]
    /\ NeedsBroadcast(snapshot[d][r])
    /\ cur' = [cur EXCEPT ![d] = r]
    /\ pc' = [pc EXCEPT ![d] = "preflight"]
    /\ UNCHANGED <<job, logVars, todo, snapshot, reply, chainVars, crashes>>

(* _broadcast_native_payment up to its first RPC call. *)
BeginBroadcast(d, r) ==
    /\ pc[d] = "scan" /\ r \in todo[d]
    /\ NeedsBroadcast(snapshot[d][r])
    /\ todo' = [todo EXCEPT ![d] = @ \ {r}]
    /\ cur' = [cur EXCEPT ![d] = r]
    /\ pc' = [pc EXCEPT ![d] = "preflight"]
    /\ UNCHANGED <<job, logVars, snapshot, reply, chainVars, crashes>>

(* Nonce and gas price are known, the transaction is signed and sent. *)
SendTransaction(d) ==
    /\ pc[d] = "preflight"
    /\ d \in Configured
    /\ pc' = [pc EXCEPT ![d] = "sending"]
    /\ UNCHANGED <<job, logVars, todo, snapshot, cur, reply, chainVars, crashes>>

(* store_settlement of the copy with a new status and hash; the loop then   *)
(* goes on with the next record.                                            *)
Store(d, status, tx) ==
    /\ record' = [record EXCEPT ![d][cur[d]] = [status |-> status, tx |-> tx]]
    /\ cur' = [cur EXCEPT ![d] = NoReceipt]
    /\ reply' = [reply EXCEPT ![d] = NoTx]
    /\ pc' = [pc EXCEPT ![d] = "scan"]
    /\ UNCHANGED <<job, received, todo, snapshot, chainVars, crashes>>

(* Mutant: whatever the node answers is taken for a hash. *)
BroadcastStoresTheError(d) ==
    /\ pc[d] \in {"preflight", "sending"}
    /\ reply[d] = NoTx
    /\ Store(d, "TRIGGERED", NoReceipt)

(* Bad configuration, a failed preflight call, a node that was not reached  *)
(* or that rejected the transaction: FAILED, no hash.                       *)
BroadcastFails(d) ==
    /\ pc[d] \in {"preflight", "sending"}
    /\ reply[d] = NoTx
    /\ Store(d, "FAILED", snapshot[d][cur[d]].tx)

(* The node accepted the transaction but the call timed out or its answer   *)
(* was unusable: the daemon takes the same path.                            *)
SendReplyLost(d) ==
    /\ "lost" \in Faults
    /\ pc[d] = "sending"
    /\ reply[d] # NoTx
    /\ Store(d, "FAILED", snapshot[d][cur[d]].tx)

(* Mutant: a sent transfer is taken for a mined one. *)
SendConfirmsAtOnce(d) ==
    /\ pc[d] = "sending"
    /\ reply[d] # NoTx
    /\ Store(d, "CONFIRMED", reply[d])

SendReplied(d) ==
    /\ pc[d] = "sending"
    /\ reply[d] # NoTx
    /\ Store(d, "TRIGGERED", reply[d])

(* _check_tx_receipt is called for a TRIGGERED record. *)
BeginPoll(d, r) ==
    /\ pc[d] = "scan" /\ r \in todo[d]
    /\ NeedsPoll(snapshot[d][r])
    /\ todo' = [todo EXCEPT ![d] = @ \ {r}]
    /\ cur' = [cur EXCEPT ![d] = r]
    /\ pc' = [pc EXCEPT ![d] = "polling"]
    /\ UNCHANGED <<job, logVars, snapshot, reply, chainVars, crashes>>

PollSuccess(d) ==
    /\ pc[d] = "polling"
    /\ txState[snapshot[d][cur[d]].tx] = "success"
    /\ Store(d, "CONFIRMED", snapshot[d][cur[d]].tx)

(* Mutant: any receipt of the chain is taken for success. *)
PollRevertedTakenForSuccess(d) ==
    /\ pc[d] = "polling"
    /\ txState[snapshot[d][cur[d]].tx] = "reverted"
    /\ Store(d, "CONFIRMED", snapshot[d][cur[d]].tx)

PollReverted(d) ==
    /\ pc[d] = "polling"
    /\ txState[snapshot[d][cur[d]].tx] = "reverted"
    /\ Store(d, "FAILED", snapshot[d][cur[d]].tx)

(* Mutant: a transfer without a receipt is given up and sent again. *)
PollUndecidedGivesUp(d) ==
    /\ pc[d] = "polling"
    /\ Store(d, "FAILED", NoTx)

(* No receipt yet, or the poll itself failed: the record stays as it is. *)
PollUndecided(d) ==
    /\ pc[d] = "polling"
    /\ cur' = [cur EXCEPT ![d] = NoReceipt]
    /\ pc' = [pc EXCEPT ![d] = "scan"]
    /\ UNCHANGED <<job, logVars, todo, snapshot, reply, chainVars, crashes>>

(* settlement_loop sleeps until the next round. *)
EndReconcile(d) ==
    /\ pc[d] = "scan" /\ todo[d] = {}
    /\ pc' = [pc EXCEPT ![d] = "idle"]
    /\ UNCHANGED <<job, logVars, todo, snapshot, cur, reply, chainVars, crashes>>

-----------------------------------------------------------------------------
(* The chain (external): what eth_sendRawTransaction and                    *)
(* eth_getTransactionReceipt let the daemon observe.                        *)

(* The transfer that d signs now can have the hash h: a new one, or that of *)
(* an evicted transfer of the same payer to the same wallet.                *)
SignsAs(d, h) ==
    /\ txState[h] \in {"unused", "evicted"}
    /\ \A p \in txFor[h] : p[1] = d /\ Wallet[p[2]] = Wallet[cur[d]]

NodeAccepts(d, h) ==
    /\ pc[d] = "sending"
    /\ reply[d] = NoTx
    /\ SignsAs(d, h)
    /\ txState' = [txState EXCEPT ![h] = "mempool"]
    /\ txFor' = [txFor EXCEPT ![h] = @ \cup {<<d, cur[d]>>}]
    /\ reply' = [reply EXCEPT ![d] = h]
    /\ UNCHANGED <<job, logVars, pc, todo, snapshot, cur, crashes>>

Mine(h) ==
    /\ txState[h] = "mempool"
    /\ \E outcome \in {"success", "reverted"} :
          txState' = [txState EXCEPT ![h] = outcome]
    /\ UNCHANGED <<job, logVars, loopVars, txFor, crashes>>

Evict(h) ==
    /\ "evicted" \in Faults
    /\ txState[h] = "mempool"
    /\ txState' = [txState EXCEPT ![h] = "evicted"]
    /\ UNCHANGED <<job, logVars, loopVars, txFor, crashes>>

-----------------------------------------------------------------------------
JobStep(r) ==
    \/ RequestJob(r) \/ IssueReceipt(r) \/ AcceptReceipt(r)
    \/ RequestTimeout(r) \/ CrashAfterReceipt(r)

LoopStep(d) ==
    \/ Restart(d) \/ NextRound(d)
    \/ \E r \in Receipts : SkipSettled(d, r) \/ BeginBroadcast(d, r) \/ BeginPoll(d, r)
    \/ SendTransaction(d) \/ BroadcastFails(d) \/ SendReplyLost(d) \/ SendReplied(d)
    \/ PollSuccess(d) \/ PollReverted(d) \/ PollUndecided(d) \/ EndReconcile(d)

ChainStep(h) == (\E d \in Daemons : NodeAccepts(d, h)) \/ Mine(h) \/ Evict(h)

Next ==
    \/ \E r \in Receipts : JobStep(r)
    \/ \E d \in Daemons : LoopStep(d) \/ Crash(d)
    \/ \E h \in Hashes : ChainStep(h)

Spec == Init /\ [][Next]_vars

(* The event loop keeps running a coroutine whose await has returned, the   *)
(* operator restarts a daemon that is down, and the chain mines what it     *)
(* accepted.  An RPC call may fail any number of times, but not always: the *)
(* send and the poll are retried in every round.                            *)
Fairness ==
    /\ \A d \in Daemons :
          /\ WF_vars(LoopStep(d))
          /\ SF_vars(SendTransaction(d))
          /\ SF_vars(\E h \in Hashes : NodeAccepts(d, h))
          /\ SF_vars(PollSuccess(d) \/ PollReverted(d))
    /\ \A h \in Hashes : WF_vars(Mine(h))

FairSpec == Spec /\ Fairness
-----------------------------------------------------------------------------
(* Properties *)

(* Every variable keeps its type. *)
TypeOK ==
    /\ job \in [Receipts -> {"idle", "waiting", "closed"}]
    /\ received \in [Daemons -> SUBSET Receipts]
    /\ record \in [Daemons -> [Receipts -> Record]]
    /\ pc \in [Daemons -> {"down", "idle", "scan", "preflight", "sending", "polling"}]
    /\ todo \in [Daemons -> SUBSET Receipts]
    /\ snapshot \in [Daemons -> [Receipts -> Record]]
    /\ cur \in [Daemons -> Receipts \cup {NoReceipt}]
    /\ reply \in [Daemons -> Hashes \cup {NoTx}]
    /\ txState \in [Hashes -> {"unused", "mempool", "success", "reverted", "evicted"}]
    /\ txFor \in [Hashes -> SUBSET (Daemons \X Receipts)]
    /\ crashes \in 0..MaxCrashes

(* The copies the loop still has to act on, or is acting on across an      *)
(* await, are the records in the log: request_job storing settlements of   *)
(* other receipts in between never makes a copy stale, so a stored copy    *)
(* never undoes a newer record.                                            *)
SnapshotIsCurrent ==
    \A d \in Daemons : \A r \in todo[d] \cup ({cur[d]} \ {NoReceipt}) :
        snapshot[d][r] = record[d][r]

(* What a record says of its transaction is what the chain did: a hash in  *)
(* a record is that of a transfer which this payer sent for this receipt,  *)
(* and for no receipt of another wallet; CONFIRMED means it succeeded,     *)
(* FAILED with a hash that it was reverted, and a TRIGGERED record always  *)
(* has a hash to poll.  Another receipt of the same wallet may name the    *)
(* same transfer, but only after an eviction: see SettlementLedger.        *)
RecordAgrees(d, r) ==
    LET rec == record[d][r] IN
    /\ rec.tx # NoTx =>
          /\ <<d, r>> \in txFor[rec.tx]
          /\ \A p \in txFor[rec.tx] : p[1] = d /\ Wallet[p[2]] = Wallet[r]
    /\ rec.status \in {"TRIGGERED", "CONFIRMED"} => rec.tx # NoTx
    /\ rec.status = "CONFIRMED" => txState[rec.tx] = "success"
    /\ rec.status = "FAILED" /\ rec.tx # NoTx => txState[rec.tx] = "reverted"

RecordAgreesWithChain ==
    \A d \in Daemons, r \in Receipts : RecordAgrees(d, r)

(* A transaction enters the mempool only for a record that has no hash     *)
(* yet: once the daemon has learnt the hash of a transfer, whatever crashes*)
(* or rounds follow, it never sends another one for that receipt.          *)
BroadcastsFor(h) ==
    txState[h] # "mempool" /\ txState'[h] = "mempool"
        => \E d \in Daemons : /\ <<d, cur[d]>> \in txFor'[h]
                              /\ record[d][cur[d]].tx = NoTx
NeverSentTwiceKnowingly == [][\A h \in Hashes : BroadcastsFor(h)]_vars

(* A record walks NONE -> PENDING -> TRIGGERED -> CONFIRMED, may fail and  *)
(* be retried while it has no hash, and is frozen once it is final.        *)
Walk(old, new) ==
    \/ new = old
    \/ old.status = "NONE" /\ new = Pending
    \/ old.tx = NoTx /\ old.status \in {"PENDING", "FAILED"}
          /\ \/ new = [status |-> "FAILED", tx |-> NoTx]
             \/ new.status = "TRIGGERED" /\ new.tx # NoTx
    \/ old.status = "TRIGGERED"
          /\ new.status \in {"CONFIRMED", "FAILED"} /\ new.tx = old.tx
SettlementWalk ==
    [][\A d \in Daemons, r \in Receipts : Walk(record[d][r], record'[d][r])]_vars

(* The transactions the node has accepted from payer p[1] for receipt p[2]. *)
TransfersFor(p) == {h \in Hashes : p \in txFor[h]}

(* A receipt is paid once, and a crash costs at most one transfer more:    *)
(* whatever calls fail, a payer sends another transfer for a receipt only  *)
(* if a crash took the answer to the one before.  It needs a node whose    *)
(* answers are not lost on the way: see FailedMeansNotSent.                *)
CrashCostsOneTransfer ==
    \A p \in Daemons \X Receipts : Cardinality(TransfersFor(p)) <= 1 + crashes

(* service.py:779 says a FAILED settlement without a hash means that the   *)
(* broadcast itself failed, which is why it may be sent again: no transfer *)
(* of it should be in the mempool or on the chain, but for the one that is *)
(* being sent again and whose answer is under way.                         *)
FailedMeansNotSent ==
    \A d \in Daemons, r \in Receipts :
        record[d][r] = [status |-> "FAILED", tx |-> NoTx]
            => \A h \in TransfersFor(<<d, r>>) \ {reply[d]} :
                  txState[h] \notin {"mempool", "success"}

(* README.md:29: the requester's customer daemon pays for the receipt.     *)
RequesterPays ==
    \A h \in Hashes : \A p \in txFor[h] : p[1] = Requester[p[2]]

(* Every payable receipt in the log of a daemon that can pay ends CONFIRMED *)
(* or FAILED with the hash of a reverted transaction, over crashes too.     *)
EventuallySettled ==
    \A d \in Configured, r \in Payable :
        r \in received[d] ~> Final(record[d][r])

-----------------------------------------------------------------------------
(* Refinement: a record without a hash is a payment that is due. *)
AccountOf(rec) ==
    CASE rec.status = "NONE"      -> "none"
      [] NeedsBroadcast(rec)      -> "due"
      [] rec.status = "TRIGGERED" -> "ordered"
      [] rec.status = "CONFIRMED" -> "paid"
      [] OTHER                    -> "refused"

account == [d \in Daemons |-> [r \in Receipts |-> AccountOf(record[d][r])]]
order   == [d \in Daemons |-> [r \in Receipts |-> record[d][r].tx]]

Ledger == INSTANCE SettlementLedger
            WITH Payers <- Daemons, Items <- Receipts, Payee <- Wallet,
                 Orders <- Hashes, NoOrder <- NoTx, Reissues <- "evicted" \in Faults

(* Settlement implements the ledger. *)
LedgerSpec == Ledger!LSpec
=============================================================================

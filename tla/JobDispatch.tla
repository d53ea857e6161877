---------------------------- MODULE JobDispatch ----------------------------
(***************************************************************************)
(* How a job travels between daemons (platform/daemon/service.py): the     *)
(* request_job coroutine of the requester, the send_demo_request calls it  *)
(* makes and the futures they wait on, and the recv_loop of every daemon,  *)
(* which takes one message after the other from its AXL node and finishes  *)
(* handling it, the execution of a task included, before the next; and the *)
(* event logs (state.py) from which jobs, reports and reputations are      *)
(* read: which events of a job, and which attestations, each log has.      *)
(*                                                                         *)
(* The AXL nodes are a Channel (see AxlNode).  The event logs survive a    *)
(* crash of the daemon; coroutines, futures and the message being handled  *)
(* do not.  The node's queue belongs to another process and survives.  A   *)
(* daemon can be killed between two appends, so every append is a step of  *)
(* its own; that other coroutines of the daemon may then run in between,   *)
(* which they cannot, changes nothing, as no other one touches the job.    *)
(***************************************************************************)
EXTENDS Naturals

CONSTANTS
    Daemons,
    Jobs,
    Requester,   (* Requester[j]: the daemon whose client submits j         *)
    Workers,     (* Workers[j]: the daemons that offer the capability of j  *)
                 (* in its region, never the requester, which offers none   *)
    MaxFaults,   (* bound on failing calls, replies, executions, summaries  *)
                 (* and on lost messages                                    *)
    MaxCrashes,  (* bound on the number of crashes                          *)
    NoMsg, NoDaemon

ASSUME JobDispatchAssumption ==
    /\ Requester \in [Jobs -> Daemons]
    /\ Workers \in [Jobs -> SUBSET Daemons]
    /\ \A j \in Jobs : Requester[j] \notin Workers[j]
    /\ NoDaemon \notin Daemons
    /\ MaxFaults \in Nat /\ MaxCrashes \in Nat

(* DemoTransportMessage: kind and request_id; every job makes two requests. *)
ExecutionRequest(j) == <<"execution_request", j>>
ExecutionReceipt(j) == <<"execution_receipt", j>>
AttestationOf(j)    == <<"attestation", j>>
AttestationAck(j)   == <<"attestation_ack", j>>

Requests == {"execution_request", "attestation"} \X Jobs
Replies  == {"execution_receipt", "attestation_ack"} \X Jobs
Messages == Requests \cup Replies
ReplyTo(m) ==
    IF m[1] = "execution_request" THEN ExecutionReceipt(m[2]) ELSE AttestationAck(m[2])

ASSUME NoMsgAssumption == NoMsg \notin Messages

(* The other events request_job and a worker append for a job. *)
JobPlan(j)       == <<"job_plan", j>>
Diagnosis(j)     == <<"diagnosis_generated", j>>
ReportSummary(j) == <<"report_summary_generated", j>>
Events ==
    {"job_plan", "execution_request", "execution_receipt",
     "diagnosis_generated", "report_summary_generated"} \X Jobs

(* Attestation events of the receipt of a job: who issued it, and whether   *)
(* request_job or the startup of the issuer did.                            *)
Attestations == [job : Jobs, issuer : Daemons, by : {"request_job", "startup"}]
Attest(j, d, how) == [job |-> j, issuer |-> d, by |-> how]

VARIABLES
    up,         (* up[d]: is the daemon running?                            *)
    stage,      (* stage[j]: where request_job of j is suspended            *)
    worker,     (* worker[j]: the worker selected by the plan of j          *)
    answered,   (* requests whose future has a result                       *)
    handling,   (* handling[d]: the message recv_loop is busy with          *)
    doing,      (* doing[d]: what it does for it                            *)
    log,        (* log[d]: the Events in d's event log                      *)
    signed,     (* signed[j]: receipts the worker has signed for j          *)
    outcome,    (* outcome[j]: the result in the receipt                    *)
    attests,    (* attests[d]: the Attestations in d's event log            *)
    posted,     (* messages for which POST /send was called on the own node *)
    sent, handed,   (* the channel between the nodes                        *)
    faults, crashes (* how many there were                                  *)

loopVars == <<handling, doing>>
memVars  == <<up, stage, answered, loopVars>>
workVars == <<worker, signed, outcome>>
diskVars == <<log, attests, workVars>>
netVars  == <<posted, sent, handed>>
troubles == <<faults, crashes>>
vars     == <<memVars, diskVars, netVars, troubles>>

Net == INSTANCE Channel

Stages == {"idle", "planned", "sendRequest", "awaitReceipt", "mirroring", "reporting",
           "attesting", "sendAttestation", "awaitAck", "done", "failed", "unreported"}
Final  == {"done", "failed", "unreported"}

(* The request whose send_demo_request call job j is in. *)
Call(j) ==
    IF stage[j] \in {"sendRequest", "awaitReceipt"} THEN ExecutionRequest(j)
    ELSE AttestationOf(j)

Sending(j) == stage[j] \in {"sendRequest", "sendAttestation"}
Waiting(j) == stage[j] \in {"awaitReceipt", "awaitAck"}

(* Mutant: the future is registered when the send has returned. *)
PendingOnceSent(m) ==
    Waiting(m[2]) /\ Call(m[2]) = m /\ m \notin answered

(* _pending_demo_requests has a future for request m that is not done. *)
Pending(m) ==
    (Sending(m[2]) \/ Waiting(m[2])) /\ Call(m[2]) = m /\ m \notin answered

-----------------------------------------------------------------------------
Init ==
    /\ up = [d \in Daemons |-> TRUE]
    /\ stage = [j \in Jobs |-> "idle"]
    /\ worker = [j \in Jobs |-> NoDaemon]
    /\ answered = {}
    /\ handling = [d \in Daemons |-> NoMsg]
    /\ doing = [d \in Daemons |-> "nothing"]
    /\ log = [d \in Daemons |-> {}]
    /\ signed = [j \in Jobs |-> 0]
    /\ outcome = [j \in Jobs |-> "none"]
    /\ attests = [d \in Daemons |-> {}]
    /\ posted = {}
    /\ Net!CInit
    /\ faults = 0 /\ crashes = 0

Append(d, events) == log' = [log EXCEPT ![d] = @ \cup events]
Post(m) == posted' = posted \cup {m}

(* existing_attestation_ids: the id names the receipt, not the issuer. *)
Attested(d, j) == \E a \in attests[d] : a.job = j
-----------------------------------------------------------------------------
(* request_job on the requester *)

Step(j, from, to) ==
    /\ stage[j] = from
    /\ stage' = [stage EXCEPT ![j] = to]

(* The plan selects a worker and is appended.  (If no worker is known the   *)
(* answer is 404 and nothing is appended: the job never begins.)            *)
RequestJob(j, w) ==
    /\ up[Requester[j]]
    /\ Step(j, "idle", "planned")
    /\ worker' = [worker EXCEPT ![j] = w]
    /\ Append(Requester[j], {JobPlan(j)})
    /\ UNCHANGED <<up, answered, loopVars, signed, outcome, attests, netVars, troubles>>

(* The request is appended; send_demo_request registers a future and posts  *)
(* the message.                                                             *)
SendRequest(j) ==
    /\ Step(j, "planned", "sendRequest")
    /\ Append(Requester[j], {ExecutionRequest(j)})
    /\ Post(ExecutionRequest(j))
    /\ UNCHANGED <<up, answered, loopVars, attests, workVars, sent, handed, troubles>>

(* send_raw_message returns; wait_for begins. *)
SendReturns(j) ==
    /\ Call(j) \in sent
    /\ \/ Step(j, "sendRequest", "awaitReceipt")
       \/ Step(j, "sendAttestation", "awaitAck")
    /\ UNCHANGED <<up, answered, loopVars, diskVars, netVars, troubles>>

(* The receipt is verified and appended. *)
AcceptReceipt(j) ==
    /\ ExecutionRequest(j) \in answered
    /\ Step(j, "awaitReceipt", "mirroring")
    /\ Append(Requester[j], {ExecutionReceipt(j)})
    /\ UNCHANGED <<up, answered, loopVars, attests, workVars, netVars, troubles>>

(* A copy of the diagnosis of a failed result is appended. *)
MirrorDiagnosis(j) ==
    /\ Step(j, "mirroring", "reporting")
    /\ Append(Requester[j], {e \in {Diagnosis(j)} : outcome[j] = "failure"})
    /\ UNCHANGED <<up, answered, loopVars, attests, workVars, netVars, troubles>>

(* The summary, the model's or the deterministic one, is appended. *)
Summarize(j) ==
    /\ Step(j, "reporting", "attesting")
    /\ Append(Requester[j], {ReportSummary(j)})
    /\ UNCHANGED <<up, answered, loopVars, attests, workVars, netVars, troubles>>

(* store_attestation appends an attestation unless the log has one of this  *)
(* receipt, and submits it to the worker.                                   *)
StoreAttestation(j) ==
    LET d == Requester[j] IN
    /\ IF Attested(d, j)
       THEN /\ Step(j, "attesting", "done")
            /\ UNCHANGED <<attests, posted>>
       ELSE /\ Step(j, "attesting", "sendAttestation")
            /\ attests' = [attests EXCEPT ![d] = @ \cup {Attest(j, d, "request_job")}]
            /\ Post(AttestationOf(j))
    /\ UNCHANGED <<up, answered, loopVars, log, workVars, sent, handed, troubles>>

AttestationAcked(j) ==
    /\ AttestationOf(j) \in answered
    /\ Step(j, "awaitAck", "done")
    /\ UNCHANGED <<up, answered, loopVars, diskVars, netVars, troubles>>

Proceed(j) ==
    \/ SendRequest(j) \/ SendReturns(j) \/ AcceptReceipt(j) \/ MirrorDiagnosis(j)
    \/ Summarize(j) \/ StoreAttestation(j) \/ AttestationAcked(j)

-----------------------------------------------------------------------------
(* recv_loop and handle_demo_message *)

Idle(d) == up[d] /\ handling[d] = NoMsg

Busy(d, m, what) ==
    /\ handling' = [handling EXCEPT ![d] = m]
    /\ doing' = [doing EXCEPT ![d] = what]

Turn(d, from, to) ==
    /\ doing[d] = from
    /\ doing' = [doing EXCEPT ![d] = to]
    /\ UNCHANGED handling

(* handle_execution_request up to the await of execute_local_task. *)
TakeRequest(d, j) ==
    /\ Idle(d) /\ d = worker[j]
    /\ Net!Hand(ExecutionRequest(j))
    /\ Append(d, {ExecutionRequest(j)})
    /\ Busy(d, ExecutionRequest(j), "executing")
    /\ UNCHANGED <<up, stage, answered, attests, workVars, posted, troubles>>

(* The plugin reports a failure: generate_diagnosis awaits the model. *)
TaskFails(d) ==
    /\ Turn(d, "executing", "diagnosing")
    /\ UNCHANGED <<up, stage, answered, diskVars, netVars, troubles>>

(* A receipt of the result is signed, appended and posted. *)
Sign(d, result, events) ==
    LET j == handling[d][2] IN
    /\ signed' = [signed EXCEPT ![j] = @ + 1]
    /\ outcome' = [outcome EXCEPT ![j] = result]
    /\ Append(d, events)
    /\ Post(ReplyTo(handling[d]))
    /\ UNCHANGED <<up, stage, answered, worker, attests, sent, handed, troubles>>

(* Mutant: the reply is sent without the receipt being appended first. *)
TaskSucceedsUnlogged(d) ==
    /\ Turn(d, "executing", "replying")
    /\ Sign(d, "success", {})

TaskSucceeds(d) ==
    /\ Turn(d, "executing", "replying")
    /\ Sign(d, "success", {ExecutionReceipt(handling[d][2])})

(* The diagnosis is an event of its own, appended before the receipt. *)
Diagnosed(d) ==
    /\ Turn(d, "diagnosing", "signing")
    /\ Append(d, {Diagnosis(handling[d][2])})
    /\ UNCHANGED <<up, stage, answered, attests, workVars, netVars, troubles>>

SignFailure(d) ==
    /\ Turn(d, "signing", "replying")
    /\ Sign(d, "failure", {ExecutionReceipt(handling[d][2])})

(* handle_attestation: the event is appended, whatever the log has already. *)
TakeAttestation(d, j) ==
    /\ Idle(d) /\ d = worker[j]
    /\ Net!Hand(AttestationOf(j))
    /\ attests' = [attests EXCEPT ![d] = @ \cup {Attest(j, Requester[j], "request_job")}]
    /\ Busy(d, AttestationOf(j), "replying")
    /\ Post(AttestationAck(j))
    /\ UNCHANGED <<up, stage, answered, log, workVars, troubles>>

(* send_raw_message of the reply returns; the loop goes on. *)
ReplyReturns(d) ==
    /\ doing[d] = "replying"
    /\ ReplyTo(handling[d]) \in sent
    /\ Busy(d, NoMsg, "nothing")
    /\ UNCHANGED <<up, stage, answered, diskVars, netVars, troubles>>

(* Mutant: a receipt that nobody waits for is appended all the same. *)
TakeReplyEvenIfLate(d, m) ==
    /\ Idle(d) /\ d = Requester[m[2]]
    /\ Net!Hand(ReplyTo(m))
    /\ answered' = IF Pending(m) THEN answered \cup {m} ELSE answered
    /\ Append(d, {ReplyTo(m)} \cap Events)
    /\ UNCHANGED <<up, stage, loopVars, attests, workVars, posted, troubles>>

(* Mutant: the reply does not carry the id of its request. *)
TakeReplyUnderItsOwnId(d, m) ==
    /\ Idle(d) /\ d = Requester[m[2]]
    /\ Net!Hand(ReplyTo(m))
    /\ answered' = IF Pending(m) THEN answered \cup {ReplyTo(m)} ELSE answered
    /\ UNCHANGED <<up, stage, loopVars, diskVars, posted, troubles>>

(* A reply sets the result of its future, or is dropped if there is none.   *)
TakeReply(d, m) ==
    /\ Idle(d) /\ d = Requester[m[2]]
    /\ Net!Hand(ReplyTo(m))
    /\ answered' = IF Pending(m) THEN answered \cup {m} ELSE answered
    /\ UNCHANGED <<up, stage, loopVars, diskVars, posted, troubles>>

LoopStep(d) ==
    \/ \E j \in Jobs :
          \/ TakeRequest(d, j) \/ TakeAttestation(d, j)
          \/ TakeReply(d, ExecutionRequest(j)) \/ TakeReply(d, AttestationOf(j))
    \/ TaskSucceeds(d) \/ TaskFails(d) \/ Diagnosed(d) \/ SignFailure(d) \/ ReplyReturns(d)

(* The AXL node of the sender writes a posted message to the peer.  It does *)
(* so even when the daemon has given up waiting, or is down.  (A daemon     *)
(* killed between an append and its POST /send leaves a message for which   *)
(* this never happens.)                                                     *)
Transmit(m) ==
    /\ m \in posted
    /\ Net!Send(m)
    /\ UNCHANGED <<memVars, diskVars, posted, troubles>>

(* POST /attestations/import at d, of an event from the log of another.     *)
ImportAttestation(d) ==
    /\ up[d]
    /\ \E a \in UNION {attests[o] : o \in Daemons} :
          attests' = [attests EXCEPT ![d] = @ \cup {a}]
    /\ UNCHANGED <<memVars, log, workVars, netVars, troubles>>

-----------------------------------------------------------------------------
(* Failures *)

Fault ==
    /\ faults < MaxFaults
    /\ faults' = faults + 1
    /\ UNCHANGED <<up, answered, diskVars, posted, sent, crashes>>

(* A message is in the peer's hands and never reaches its daemon: the full  *)
(* queue drops its oldest, which happens while recv_loop is busy with a     *)
(* task; the listener is at its limit and closes the connection after the   *)
(* sender's 200; or /recv popped it for a poll that did not read it.        *)
Lose(m) ==
    /\ m \in sent
    /\ Net!Hand(m)
    /\ UNCHANGED <<stage, loopVars>>
    /\ Fault

(* The send raises, although the node may still deliver it, or the wait     *)
(* times out (900 s, 60 s).  The future is dropped.  request_job fails with *)
(* its execution request, but store_attestation ignores the exception.      *)
CallFails(j) ==
    /\ \/ Sending(j)
       \/ Waiting(j) /\ Call(j) \notin answered
    /\ stage' = [stage EXCEPT ![j] =
                   IF Call(j) = ExecutionRequest(j) THEN "failed" ELSE "done"]
    /\ UNCHANGED <<loopVars, handed>>
    /\ Fault

(* A summary that is no ReportSummary ends request_job with an exception,   *)
(* after the receipt was appended and before it is attested.                *)
SummaryFails(j) ==
    /\ Step(j, "reporting", "unreported")
    /\ UNCHANGED <<loopVars, handed>>
    /\ Fault

(* A task or diagnosis that raises is logged and nothing is replied; if the *)
(* send of a reply raises, the loop goes on too.                            *)
HandlingFails(d) ==
    /\ doing[d] # "nothing"
    /\ Busy(d, NoMsg, "nothing")
    /\ UNCHANGED <<stage, handed>>
    /\ Fault

Crash(d) ==
    /\ up[d]
    /\ crashes < MaxCrashes
    /\ crashes' = crashes + 1
    /\ up' = [up EXCEPT ![d] = FALSE]
    /\ stage' = [j \in Jobs |->
                   IF Requester[j] = d /\ stage[j] \notin {"idle"} \cup Final
                   THEN "failed" ELSE stage[j]]
    /\ Busy(d, NoMsg, "nothing")
    /\ UNCHANGED <<answered, diskVars, netVars, faults>>

Started(d) ==
    /\ ~up[d]
    /\ up' = [up EXCEPT ![d] = TRUE]
    /\ UNCHANGED <<stage, answered, loopVars, log, workVars, netVars, troubles>>

Backfill(d, J) ==
    attests' = [attests EXCEPT ![d] = @ \cup {Attest(j, d, "startup") : j \in J}]

(* Mutants: startup without the backfill, and a backfill that does not look *)
(* at what the log has.                                                     *)
RestartWithoutBackfill(d) == Started(d) /\ UNCHANGED attests

RestartBackfillsAll(d) ==
    Started(d) /\ Backfill(d, {j \in Jobs : ExecutionReceipt(j) \in log[d]})

(* startup: backfill_attestations appends an attestation, signed by this    *)
(* daemon, for every receipt in the log that has none, the receipts it has  *)
(* signed as a worker included.  It is not sent.                            *)
Restart(d) ==
    Started(d) /\ Backfill(d, {j \in Jobs : ExecutionReceipt(j) \in log[d] /\ ~Attested(d, j)})

Next ==
    \/ \E j \in Jobs :
          \/ \E w \in Workers[j] : RequestJob(j, w)
          \/ Proceed(j) \/ CallFails(j) \/ SummaryFails(j)
    \/ \E d \in Daemons :
          \/ LoopStep(d) \/ ImportAttestation(d)
          \/ HandlingFails(d) \/ Crash(d) \/ Restart(d)
    \/ \E m \in Messages : Transmit(m) \/ Lose(m)

(* Coroutines whose await is over go on, recv_loop polls for ever, and the  *)
(* operator restarts a daemon that is down.  Clients need not submit jobs,  *)
(* and no timeout has to expire.  Nodes transmit what is posted, and hand   *)
(* it over unless it is lost, which is a fault.                             *)
Fairness ==
    /\ \A j \in Jobs : WF_vars(Proceed(j))
    /\ \A d \in Daemons : WF_vars(LoopStep(d)) /\ WF_vars(Restart(d))
    /\ \A m \in Messages : WF_vars(Transmit(m))

Spec == Init /\ [][Next]_vars /\ Fairness
-----------------------------------------------------------------------------
(* Properties *)

(* Every variable keeps its type. *)
TypeOK ==
    /\ up \in [Daemons -> BOOLEAN]
    /\ stage \in [Jobs -> Stages]
    /\ worker \in [Jobs -> Daemons \cup {NoDaemon}]
    /\ answered \subseteq Requests
    /\ handling \in [Daemons -> Requests \cup {NoMsg}]
    /\ doing \in [Daemons -> {"nothing", "executing", "diagnosing", "signing", "replying"}]
    /\ log \in [Daemons -> SUBSET Events]
    /\ signed \in [Jobs -> Nat]
    /\ outcome \in [Jobs -> {"none", "success", "failure"}]
    /\ attests \in [Daemons -> SUBSET Attestations]
    /\ posted \subseteq Messages
    /\ sent \subseteq posted
    /\ handed \in [Messages -> {0, 1}]
    /\ faults \in 0..MaxFaults /\ crashes \in 0..MaxCrashes

(* A receipt in the requester's log is in the worker's log too, with the    *)
(* request it answers and the diagnosis of a failed result: the worker can  *)
(* always show what it is paid for, whatever crashed since.  (The copy of   *)
(* the diagnosis in the requester's log is not promised: it is appended     *)
(* after the receipt, and no startup makes up for it.)                      *)
ReceiptIsShared ==
    \A j \in Jobs : ExecutionReceipt(j) \in log[Requester[j]] =>
        /\ {JobPlan(j), ExecutionRequest(j)} \subseteq log[Requester[j]]
        /\ worker[j] \in Daemons
        /\ {ExecutionRequest(j), ExecutionReceipt(j)} \subseteq log[worker[j]]
        /\ outcome[j] = "failure" => Diagnosis(j) \in log[worker[j]]

(* No log counts two attestations of one receipt by one issuer in the       *)
(* reputation of the worker, whatever daemons restarted, whatever was sent  *)
(* and whatever was imported in between.                                    *)
CountedOncePerIssuer ==
    \A d \in Daemons : \A a, b \in attests[d] :
        a.job = b.job /\ a.issuer = b.issuer => a = b

(* As long as nothing has failed and no message was lost, what a            *)
(* request_job waits for is on its way: a reply does not come before there  *)
(* is a future for it, and a recv_loop that has the request is busy with it *)
(* or has posted the reply.                                                 *)
NobodyWaitsInVain ==
    faults + crashes = 0 =>
        \A m \in Requests : Pending(m) =>
            \/ m \in posted /\ handed[m] = 0
            \/ handling[worker[m[2]]] = m /\ doing[worker[m[2]]] # "replying"
            \/ ReplyTo(m) \in posted /\ handed[ReplyTo(m)] = 0

(* As long as no call, task or daemon fails and the nodes lose no message,  *)
(* every job comes to its end with its receipt attested and acknowledged,   *)
(* and no timeout has to help: daemons that work for each other at the same *)
(* time do not wait for one another.                                        *)
EveryJobDone ==
    \A j \in Jobs : stage[j] = "planned" /\ faults + crashes = 0
                      ~> stage[j] = "done" \/ faults + crashes > 0

(* A receipt the requester has accepted is attested in its log in the end,  *)
(* even if it crashes before it has attested it; only when the summary of   *)
(* the report raised may it have to wait for the next startup.              *)
EventuallyAttested ==
    \A j \in Jobs : ExecutionReceipt(j) \in log[Requester[j]]
                      ~> Attested(Requester[j], j) \/ stage[j] = "unreported"

-----------------------------------------------------------------------------
(* Refinement: the log decides whether a job is completed (state.py). *)
status ==
    [j \in Jobs |->
        IF ExecutionReceipt(j) \in log[Requester[j]] THEN "completed"
        ELSE IF stage[j] = "idle" THEN "none"
        ELSE IF stage[j] = "failed" THEN "abandoned"
        ELSE "running"]

Board == INSTANCE JobBoard WITH work <- signed

(* Job dispatch implements the board: work is done once, and a job that was *)
(* given up is never completed by a late receipt.                           *)
BoardSpec == Board!BSpec
=============================================================================

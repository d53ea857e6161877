------------------------- MODULE JobDispatchProofs -------------------------
(***************************************************************************)
(* TLAPS proofs about JobDispatch for any daemons, jobs and workers and    *)
(* any number of faults and crashes.  JobInv follows one job from its      *)
(* submission through the channel, the loop of its worker and the two      *)
(* event logs; LogInv is about who has which attestation.                  *)
(***************************************************************************)
EXTENDS JobDispatch, TLAPS

(* Messages and events are told apart by their kind and their job. *)
LEMMA Names ==
    /\ \A j, k : /\ ExecutionRequest(j) = ExecutionRequest(k) => j = k
                 /\ ExecutionReceipt(j) = ExecutionReceipt(k) => j = k
                 /\ AttestationOf(j) = AttestationOf(k) => j = k
                 /\ AttestationAck(j) = AttestationAck(k) => j = k
                 /\ JobPlan(j) = JobPlan(k) => j = k
                 /\ Diagnosis(j) = Diagnosis(k) => j = k
    /\ \A j, k : /\ ExecutionRequest(j) # ExecutionReceipt(k) /\ ExecutionRequest(j) # AttestationOf(k)
                 /\ ExecutionRequest(j) # AttestationAck(k) /\ ExecutionRequest(j) # JobPlan(k)
                 /\ ExecutionRequest(j) # Diagnosis(k) /\ ExecutionRequest(j) # ReportSummary(k)
                 /\ ExecutionReceipt(j) # AttestationOf(k) /\ ExecutionReceipt(j) # AttestationAck(k)
                 /\ ExecutionReceipt(j) # JobPlan(k) /\ ExecutionReceipt(j) # Diagnosis(k)
                 /\ ExecutionReceipt(j) # ReportSummary(k) /\ AttestationOf(j) # AttestationAck(k)
                 /\ JobPlan(j) # Diagnosis(k) /\ JobPlan(j) # ReportSummary(k)
                 /\ Diagnosis(j) # ReportSummary(k)
BY DEF ExecutionRequest, ExecutionReceipt, AttestationOf, AttestationAck, JobPlan, Diagnosis, ReportSummary

LEMMA NameTypes ==
    ASSUME NEW j \in Jobs
    PROVE  /\ ExecutionRequest(j) \in Requests /\ AttestationOf(j) \in Requests
           /\ ExecutionReceipt(j) \in Messages /\ AttestationAck(j) \in Messages
           /\ ExecutionRequest(j) \in Messages /\ AttestationOf(j) \in Messages
           /\ {ExecutionRequest(j), ExecutionReceipt(j), JobPlan(j), Diagnosis(j), ReportSummary(j)}
                  \subseteq Events
           /\ ExecutionRequest(j)[2] = j /\ AttestationOf(j)[2] = j
           /\ ReplyTo(ExecutionRequest(j)) = ExecutionReceipt(j)
           /\ ReplyTo(AttestationOf(j)) = AttestationAck(j)
BY DEF ExecutionRequest, ExecutionReceipt, AttestationOf, AttestationAck, JobPlan, Diagnosis,
   ReportSummary, Requests, Replies, Messages, Events, ReplyTo

LEMMA RequestsAre ==
    ASSUME NEW m \in Requests
    PROVE  /\ \E j \in Jobs : m = ExecutionRequest(j) \/ m = AttestationOf(j)
           /\ m \in Messages /\ m # NoMsg /\ ReplyTo(m) \in Messages
BY NoMsgAssumption DEF Requests, Replies, Messages, ReplyTo, ExecutionRequest, AttestationOf,
   ExecutionReceipt, AttestationAck

-----------------------------------------------------------------------------
(* Types, and what recv_loop has in its hands. *)

LoopInv(d) ==
    /\ doing[d] = "nothing" <=> handling[d] = NoMsg
    /\ doing[d] \in {"executing", "diagnosing", "signing"} => \E j \in Jobs : handling[d] = ExecutionRequest(j)

TypeInv == TypeOK /\ \A d \in Daemons : LoopInv(d)

LEMMA InitTypeInv == Init => TypeInv
<1> USE JobDispatchAssumption DEF Init
<1>1. Init => TypeOK BY DEF TypeOK, Stages, Net!CInit
<1> QED BY <1>1 DEF TypeInv, LoopInv

LEMMA RequesterTypeInv ==
    ASSUME TypeInv, NEW j \in Jobs,
           (\E w \in Workers[j] : RequestJob(j, w)) \/ Proceed(j) \/ CallFails(j) \/ SummaryFails(j)
    PROVE  TypeInv'
<1>0. TypeOK /\ Requester[j] \in Daemons BY JobDispatchAssumption DEF TypeInv
<1> USE NameTypes
<1>1. UNCHANGED loopVars
  BY DEF RequestJob, Proceed, SendRequest, SendReturns, AcceptReceipt, MirrorDiagnosis, Summarize,
     StoreAttestation, AttestationAcked, CallFails, SummaryFails
<1>2. TypeOK'
  <2>1. ASSUME NEW w \in Workers[j], RequestJob(j, w) PROVE TypeOK'
    <3>1. w \in Daemons BY JobDispatchAssumption
    <3> QED BY <1>0, <2>1, <3>1 DEF TypeOK, RequestJob, Step, Append, loopVars, netVars, troubles, Stages
  <2>2. CASE SendReturns(j) \/ AttestationAcked(j)
    BY <1>0, <2>2 DEF TypeOK, SendReturns, AttestationAcked, Step, loopVars, diskVars, workVars, netVars,
       troubles, Stages
  <2>3. CASE AcceptReceipt(j) \/ MirrorDiagnosis(j) \/ Summarize(j)
    <3>1. \E events \in SUBSET Events : Append(Requester[j], events)
      BY <2>3 DEF AcceptReceipt, MirrorDiagnosis, Summarize
    <3>2. log' \in [Daemons -> SUBSET Events] BY <1>0, <3>1 DEF TypeOK, Append
    <3> QED BY <1>0, <2>3, <3>2 DEF TypeOK, AcceptReceipt, MirrorDiagnosis, Summarize, Step, loopVars,
               workVars, netVars, troubles, Stages
  <2>6. CASE SendRequest(j)
    BY <1>0, <2>6 DEF TypeOK, SendRequest, Step, Append, Post, loopVars, workVars, troubles, Stages
  <2>4. CASE StoreAttestation(j)
    <3>1. Attest(j, Requester[j], "request_job") \in Attestations BY <1>0 DEF Attest, Attestations
    <3>2. log' \in [Daemons -> SUBSET Events] BY <1>0, <2>4 DEF TypeOK, StoreAttestation
    <3>3. /\ stage' \in [Jobs -> Stages] /\ attests' \in [Daemons -> SUBSET Attestations]
          /\ posted' \subseteq Messages /\ posted \subseteq posted'
      <4>1. CASE Attested(Requester[j], j)
        BY <1>0, <2>4, <4>1 DEF TypeOK, StoreAttestation, Step, Stages
      <4>2. CASE ~Attested(Requester[j], j)
        <5>1. /\ stage' = [stage EXCEPT ![j] = "sendAttestation"]
              /\ attests' = [attests EXCEPT ![Requester[j]] =
                                @ \cup {Attest(j, Requester[j], "request_job")}]
              /\ posted' = posted \cup {AttestationOf(j)}
          BY <2>4, <4>2 DEF StoreAttestation, Step, Post
        <5>2. stage' \in [Jobs -> Stages] BY <1>0, <5>1 DEF TypeOK, Stages
        <5>3. attests' \in [Daemons -> SUBSET Attestations] BY <1>0, <3>1, <5>1 DEF TypeOK
        <5>4. posted' \subseteq Messages /\ posted \subseteq posted'
          BY <1>0, <5>1 DEF TypeOK
        <5> QED BY <5>2, <5>3, <5>4
      <4> QED BY <4>1, <4>2
    <3> QED BY <1>0, <2>4, <3>2, <3>3 DEF TypeOK, StoreAttestation, loopVars, workVars, troubles
  <2>5. CASE CallFails(j) \/ SummaryFails(j)
    <3>1. faults' \in 0..MaxFaults
      BY <1>0, <2>5, JobDispatchAssumption DEF TypeOK, CallFails, SummaryFails, Fault
    <3> QED BY <1>0, <2>5, <3>1 DEF TypeOK, CallFails, SummaryFails, Step, Fault, loopVars, diskVars,
               workVars, Stages
  <2> QED BY <2>1, <2>2, <2>3, <2>4, <2>5, <2>6 DEF Proceed
<1> QED BY <1>1, <1>2 DEF TypeInv, LoopInv, loopVars

(* The loop takes up m, or puts it down. *)
LEMMA BusyInv ==
    ASSUME TypeInv, NEW d \in Daemons, NEW m, NEW what, Busy(d, m, what),
           \/ m = NoMsg /\ what = "nothing"
           \/ m \in Requests /\ what = "replying"
           \/ what = "executing" /\ \E j \in Jobs : m = ExecutionRequest(j)
    PROVE  /\ handling' \in [Daemons -> Requests \cup {NoMsg}]
           /\ doing' \in [Daemons -> {"nothing", "executing", "diagnosing", "signing", "replying"}]
           /\ \A x \in Daemons : LoopInv(x)'
<1>1. /\ m \in Requests \cup {NoMsg} /\ what \in {"nothing", "executing", "diagnosing", "signing", "replying"}
      /\ what = "nothing" <=> m = NoMsg
      /\ what \in {"executing", "diagnosing", "signing"} => \E j \in Jobs : m = ExecutionRequest(j)
  BY RequestsAre, NameTypes
<1> QED BY <1>1 DEF TypeInv, TypeOK, LoopInv, Busy

LEMMA LoopTypeInv ==
    ASSUME TypeInv, NEW d \in Daemons, LoopStep(d)
    PROVE  TypeInv'
<1>0. TypeOK /\ LoopInv(d) BY DEF TypeInv
<1> USE NameTypes
<1>1. ASSUME NEW j \in Jobs, TakeRequest(d, j) PROVE TypeInv'
  <2>1. \A x \in Daemons : LoopInv(x)' BY <1>1, BusyInv DEF TakeRequest
  <2>2. TypeOK'
    BY <1>0, <1>1, BusyInv DEF TakeRequest, TypeOK, Append, Net!Hand, workVars, troubles
  <2> QED BY <2>1, <2>2 DEF TypeInv
<1>2. ASSUME NEW j \in Jobs, TakeAttestation(d, j) PROVE TypeInv'
  <2>1. \A x \in Daemons : LoopInv(x)' BY <1>2, BusyInv DEF TakeAttestation
  <2>2. Attest(j, Requester[j], "request_job") \in Attestations
    BY JobDispatchAssumption DEF Attest, Attestations
  <2>3. TypeOK'
    BY <1>0, <1>2, <2>2, BusyInv DEF TakeAttestation, TypeOK, Post, Net!Hand, workVars, troubles
  <2> QED BY <2>1, <2>3 DEF TypeInv
<1>3. ASSUME NEW m \in Requests, TakeReply(d, m) PROVE TypeInv'
  BY <1>0, <1>3, RequestsAre DEF TakeReply, TypeInv, TypeOK, LoopInv, Net!Hand, loopVars, diskVars, workVars, troubles
<1>4. CASE TaskFails(d)
  BY <1>0, <1>4 DEF TaskFails, Turn, TypeInv, TypeOK, LoopInv, diskVars, workVars, netVars, troubles
<1>5. CASE TaskSucceeds(d) \/ SignFailure(d)
  <2>1. PICK j \in Jobs : handling[d] = ExecutionRequest(j)
    BY <1>0, <1>5 DEF TaskSucceeds, SignFailure, Turn, LoopInv
  <2>2. \A x \in Daemons : LoopInv(x)' BY <1>5 DEF TaskSucceeds, SignFailure, Turn, TypeInv, TypeOK, LoopInv
  <2>3. PICK result \in {"success", "failure"} : Sign(d, result, {ExecutionReceipt(handling[d][2])})
    BY <1>5 DEF TaskSucceeds, SignFailure
  <2>4. TypeOK'
    BY <1>0, <1>5, <2>1, <2>3 DEF TaskSucceeds, SignFailure, Sign, Turn, TypeOK, Append, Post, troubles
  <2> QED BY <2>2, <2>4 DEF TypeInv
<1>7. CASE Diagnosed(d)
  <2>1. PICK j \in Jobs : handling[d] = ExecutionRequest(j) BY <1>0, <1>7 DEF Diagnosed, Turn, LoopInv
  <2>2. log' \in [Daemons -> SUBSET Events] BY <1>0, <1>7, <2>1 DEF Diagnosed, Append, TypeOK
  <2> QED BY <1>0, <1>7, <2>2 DEF Diagnosed, Turn, TypeInv, TypeOK, LoopInv, workVars, netVars, troubles
<1>6. CASE ReplyReturns(d)
  BY <1>0, <1>6, BusyInv DEF ReplyReturns, TypeInv, TypeOK, diskVars, workVars, netVars, troubles
<1> QED BY <1>1, <1>2, <1>3, <1>4, <1>5, <1>6, <1>7 DEF LoopStep

LEMMA OtherTypeInv ==
    ASSUME TypeInv,
           \/ \E m \in Messages : Transmit(m) \/ Lose(m)
           \/ \E d \in Daemons : ImportAttestation(d) \/ HandlingFails(d) \/ Crash(d) \/ Restart(d)
    PROVE  TypeInv'
<1>0. TypeOK BY DEF TypeInv
<1> USE JobDispatchAssumption
<1>1. ASSUME NEW m \in Messages, Transmit(m) PROVE TypeInv'
  BY <1>1 DEF Transmit, TypeInv, TypeOK, LoopInv, Net!Send, memVars, loopVars, diskVars, workVars, troubles
<1>2. ASSUME NEW d \in Daemons, ImportAttestation(d) PROVE TypeInv'
  <2>1. attests' \in [Daemons -> SUBSET Attestations] BY <1>0, <1>2 DEF ImportAttestation, TypeOK
  <2> QED BY <1>2, <2>1 DEF ImportAttestation, TypeInv, TypeOK, LoopInv, memVars,
     loopVars, workVars, netVars, troubles
<1>3. ASSUME NEW d \in Daemons, HandlingFails(d) PROVE TypeInv'
  <2>1. faults' \in 0..MaxFaults BY <1>0, <1>3 DEF HandlingFails, Fault, TypeOK
  <2> QED BY <1>0, <1>3, <2>1, BusyInv DEF HandlingFails, Fault, TypeInv, TypeOK, diskVars, workVars
<1>4. ASSUME NEW d \in Daemons, Crash(d) PROVE TypeInv'
  <2>1. crashes' \in 0..MaxCrashes BY <1>0, <1>4 DEF Crash, TypeOK
  <2>2. stage' \in [Jobs -> Stages] BY <1>0, <1>4 DEF Crash, TypeOK, Stages
  <2> QED BY <1>0, <1>4, <2>1, <2>2, BusyInv DEF Crash, TypeInv, TypeOK, diskVars, workVars, netVars
<1>5. ASSUME NEW d \in Daemons, Restart(d) PROVE TypeInv'
  <2>1. PICK J \in SUBSET Jobs : Backfill(d, J) BY <1>5 DEF Restart
  <2>2. {Attest(j, d, "startup") : j \in J} \subseteq Attestations BY DEF Attest, Attestations
  <2>3. attests' \in [Daemons -> SUBSET Attestations] BY <1>0, <2>1, <2>2 DEF Backfill, TypeOK
  <2> QED BY <1>5, <2>3 DEF Restart, Started, TypeInv, TypeOK, LoopInv, loopVars, workVars, netVars, troubles
<1>6. ASSUME NEW m \in Messages, Lose(m) PROVE TypeInv'
  <2>1. faults' \in 0..MaxFaults BY <1>0, <1>6 DEF Lose, Fault, TypeOK
  <2> QED BY <1>6, <2>1 DEF Lose, Fault, TypeInv, TypeOK, LoopInv, Net!Hand, loopVars, diskVars, workVars
<1> QED BY <1>1, <1>2, <1>3, <1>4, <1>5, <1>6

LEMMA TypeInvStep == TypeInv /\ [Next]_vars => TypeInv'
<1>1. ASSUME TypeInv, UNCHANGED vars PROVE TypeInv'
  BY <1>1 DEF TypeInv, TypeOK, LoopInv, vars, memVars, loopVars, diskVars, workVars, netVars, troubles
<1> QED BY <1>1, RequesterTypeInv, LoopTypeInv, OtherTypeInv DEF Next

LEMMA AlwaysTypeInv == Spec => []TypeInv
BY InitTypeInv, TypeInvStep, PTL DEF Spec

(* Every variable keeps its type; in particular every message is handed to its
   daemon at most once, and only when it was posted. *)
THEOREM TypeCorrect == Spec => []TypeOK
<1>1. TypeInv => TypeOK BY DEF TypeInv
<1> QED BY <1>1, AlwaysTypeInv, PTL

-----------------------------------------------------------------------------
(* Attestations. *)

(* An attestation that is anywhere is in the log of its issuer, which has one
   per job at most; one that is posted was appended first. *)
LogInv ==
    /\ \A d \in Daemons : \A a \in attests[d] : a \in attests[a.issuer]
    /\ \A d \in Daemons : \A a, b \in attests[d] :
           a.issuer = d /\ b.issuer = d /\ a.job = b.job => a = b
    /\ \A j \in Jobs : AttestationOf(j) \in posted =>
           Attest(j, Requester[j], "request_job") \in attests[Requester[j]]

LEMMA AttestShape ==
    ASSUME NEW j \in Jobs, NEW d \in Daemons, NEW how \in {"request_job", "startup"}
    PROVE  /\ Attest(j, d, how) \in Attestations /\ Attest(j, d, how).job = j
           /\ Attest(j, d, how).issuer = d
BY DEF Attest, Attestations

(* A log takes up attestations that are its own and new, or that their issuer
   has already; nothing is posted that is not appended. *)
LEMMA LogTakes ==
    ASSUME TypeOK, LogInv, NEW d \in Daemons, NEW new \in SUBSET Attestations,
           attests' = [attests EXCEPT ![d] = @ \cup new],
           \/ \A a \in new : a \in attests[a.issuer]
           \/ /\ \A a \in new : a.issuer = d /\ ~Attested(d, a.job)
              /\ \A a, b \in new : a.job = b.job => a = b,
           \A j \in Jobs : AttestationOf(j) \in posted' =>
               AttestationOf(j) \in posted \/ Attest(j, Requester[j], "request_job") \in attests'[Requester[j]]
    PROVE  LogInv'
<1>1. /\ attests'[d] = attests[d] \cup new /\ \A x \in Daemons : attests[x] \subseteq attests'[x]
      /\ \A x \in Daemons : x # d => attests'[x] = attests[x]
  BY DEF TypeOK
<1>2. \A x \in Daemons : \A a \in attests[x] : a.issuer \in Daemons BY DEF TypeOK, Attestations
<1>3. \A x \in Daemons : \A a \in attests'[x] : a \in attests'[a.issuer]
  BY <1>1, <1>2 DEF LogInv, Attestations
<1>4. ASSUME NEW x \in Daemons, NEW a \in attests'[x], NEW b \in attests'[x],
             a.issuer = x, b.issuer = x, a.job = b.job
      PROVE  a = b
  <2>1. CASE x # d BY <1>1, <1>4, <2>1 DEF LogInv
  <2>2. CASE x = d /\ \A n \in new : n \in attests[n.issuer]
    BY <1>1, <1>4, <2>2 DEF LogInv
  <2>3. CASE x = d /\ (\A n \in new : n.issuer = d /\ ~Attested(d, n.job))
             /\ \A n, o \in new : n.job = o.job => n = o
    BY <1>1, <1>4, <2>3 DEF LogInv, Attested
  <2> QED BY <2>1, <2>2, <2>3
<1>5. \A j \in Jobs : AttestationOf(j) \in posted' =>
          Attest(j, Requester[j], "request_job") \in attests'[Requester[j]]
  BY <1>1, JobDispatchAssumption DEF LogInv
<1> QED BY <1>3, <1>4, <1>5 DEF LogInv

LEMMA LogInvStep == TypeInv /\ LogInv /\ [Next]_vars => LogInv'
<1> SUFFICES ASSUME TypeInv, LogInv, [Next]_vars PROVE LogInv'
  OBVIOUS
<1>0. TypeOK BY DEF TypeInv
<1> USE JobDispatchAssumption
<1>1. CASE attests' = attests /\ \A j \in Jobs : AttestationOf(j) \in posted' => AttestationOf(j) \in posted
  BY <1>1 DEF LogInv
<1>2. ASSUME NEW j \in Jobs, StoreAttestation(j) PROVE LogInv'
  <2>1. CASE Attested(Requester[j], j) BY <1>1, <1>2, <2>1 DEF StoreAttestation
  <2>2. CASE ~Attested(Requester[j], j)
    <3> DEFINE a == Attest(j, Requester[j], "request_job")
    <3>1. /\ a \in Attestations /\ a.issuer = Requester[j] /\ a.job = j BY AttestShape
    <3>2. attests' = [attests EXCEPT ![Requester[j]] = @ \cup {a}] /\ posted' = posted \cup {AttestationOf(j)}
      BY <1>2, <2>2 DEF StoreAttestation, Post
    <3>3. \A k \in Jobs : AttestationOf(k) \in posted' =>
              AttestationOf(k) \in posted \/ Attest(k, Requester[k], "request_job") \in attests'[Requester[k]]
      BY <1>0, <3>2, Names DEF TypeOK
    <3> HIDE DEF a
    <3>4. /\ {a} \in SUBSET Attestations
          /\ \A x \in {a} : x.issuer = Requester[j] /\ ~Attested(Requester[j], x.job)
          /\ \A x, y \in {a} : x.job = y.job => x = y
      BY <2>2, <3>1
    <3>5. Requester[j] \in Daemons OBVIOUS
    <3> QED BY <1>0, <3>2, <3>3, <3>4, <3>5, LogTakes
  <2> QED BY <2>1, <2>2
<1>3. ASSUME NEW d \in Daemons, NEW j \in Jobs, TakeAttestation(d, j) PROVE LogInv'
  <2> DEFINE a == Attest(j, Requester[j], "request_job")
  <2>1. AttestationOf(j) \in posted BY <1>0, <1>3 DEF TakeAttestation, Net!Hand, TypeOK
  <2>2. a \in Attestations /\ a.issuer = Requester[j] BY AttestShape
  <2>3. attests' = [attests EXCEPT ![d] = @ \cup {a}] /\ posted' = posted \cup {AttestationAck(j)}
    BY <1>3 DEF TakeAttestation, Post
  <2>4. \A k \in Jobs : AttestationOf(k) \in posted' => AttestationOf(k) \in posted BY <2>3, Names
  <2>5. a \in attests[a.issuer] BY <2>1, <2>2 DEF LogInv
  <2> HIDE DEF a
  <2>6. {a} \in SUBSET Attestations /\ \A x \in {a} : x \in attests[x.issuer] BY <2>2, <2>5
  <2> QED BY <1>0, <2>3, <2>4, <2>6, LogTakes
<1>4. ASSUME NEW d \in Daemons, ImportAttestation(d) PROVE LogInv'
  <2>1. PICK a : /\ \E o \in Daemons : a \in attests[o]
                 /\ attests' = [attests EXCEPT ![d] = @ \cup {a}]
    BY <1>4 DEF ImportAttestation
  <2>2. posted' = posted BY <1>4 DEF ImportAttestation, netVars
  <2>3. {a} \in SUBSET Attestations /\ a \in attests[a.issuer] BY <1>0, <2>1 DEF TypeOK, LogInv
  <2> QED BY <1>0, <2>1, <2>2, <2>3, LogTakes
<1>5. ASSUME NEW d \in Daemons, Restart(d) PROVE LogInv'
  <2> DEFINE J == {j \in Jobs : ExecutionReceipt(j) \in log[d] /\ ~Attested(d, j)}
             new == {Attest(j, d, "startup") : j \in J}
  <2>1. attests' = [attests EXCEPT ![d] = @ \cup new] /\ posted' = posted
    BY <1>5 DEF Restart, Started, Backfill, netVars
  <2>2. /\ new \in SUBSET Attestations /\ \A a \in new : a.issuer = d /\ ~Attested(d, a.job)
        /\ \A a, b \in new : a.job = b.job => a = b
    BY AttestShape
  <2> HIDE DEF new
  <2> QED BY <1>0, <2>1, <2>2, LogTakes
<1>6. ASSUME NEW j \in Jobs,
             \/ \E w \in Workers[j] : RequestJob(j, w)
             \/ SendRequest(j) \/ SendReturns(j) \/ AcceptReceipt(j) \/ MirrorDiagnosis(j) \/ Summarize(j)
             \/ AttestationAcked(j) \/ CallFails(j) \/ SummaryFails(j)
      PROVE  LogInv'
  BY <1>1, <1>6, Names DEF RequestJob, SendRequest, SendReturns, AcceptReceipt, MirrorDiagnosis, Summarize,
     AttestationAcked, CallFails, SummaryFails, Fault, Post, diskVars, netVars
<1>7. ASSUME NEW d \in Daemons, LoopStep(d), ~\E j \in Jobs : TakeAttestation(d, j) PROVE LogInv'
  <2>1. CASE TaskSucceeds(d) \/ SignFailure(d)
    <3>1. PICK j \in Jobs : handling[d] = ExecutionRequest(j)
      BY <2>1 DEF TypeInv, LoopInv, TaskSucceeds, SignFailure, Turn
    <3>2. attests' = attests /\ posted' = posted \cup {ExecutionReceipt(j)}
      BY <2>1, <3>1, NameTypes DEF TaskSucceeds, SignFailure, Sign, Post
    <3> QED BY <1>1, <3>2, Names
  <2> QED BY <1>1, <1>7, <2>1 DEF LoopStep, TakeRequest, TakeReply, TaskFails, Diagnosed, ReplyReturns,
             diskVars, netVars
<1>8. CASE UNCHANGED vars \/ \E m \in Messages : Transmit(m) \/ Lose(m)
  BY <1>1, <1>8 DEF vars, Transmit, Lose, Fault, diskVars, netVars
<1>9. ASSUME NEW d \in Daemons, HandlingFails(d) \/ Crash(d) PROVE LogInv'
  BY <1>1, <1>9 DEF HandlingFails, Crash, Fault, diskVars, netVars
<1> QED BY <1>2, <1>3, <1>4, <1>5, <1>6, <1>7, <1>8, <1>9 DEF Next, Proceed

(* No event log of the daemons counts two attestations of one receipt by one
   issuer: store_attestation and the backfill at startup look at their own
   log, and whatever others have comes from there. *)
THEOREM OncePerIssuer == Spec => []CountedOncePerIssuer
<1>1. Init => LogInv BY DEF Init, LogInv
<1>2. TypeOK /\ LogInv => CountedOncePerIssuer
  BY DEF TypeOK, LogInv, CountedOncePerIssuer, Attestations
<1> QED BY <1>1, <1>2, LogInvStep, AlwaysTypeInv, TypeCorrect, PTL DEF Spec

-----------------------------------------------------------------------------
(* One job. *)

Early == {"idle", "planned", "sendRequest", "awaitReceipt"}
Late  == {"mirroring", "reporting", "attesting", "sendAttestation", "awaitAck", "done", "unreported"}

(* The requester's side of a job before there is a receipt. *)
Begun(j) ==
    /\ stage[j] = "idle" => worker[j] = NoDaemon
    /\ stage[j] # "idle" => worker[j] \in Workers[j] /\ JobPlan(j) \in log[Requester[j]]
    /\ stage[j] \in {"idle", "planned"} => ExecutionRequest(j) \notin posted
    /\ ExecutionRequest(j) \in posted => ExecutionRequest(j) \in log[Requester[j]]

(* The worker takes the request up once and signs once, what it has appended;
   a reply, and a result of the future, exist only then. *)
Worked(j) ==
    /\ signed[j] \in {0, 1}
    /\ handed[ExecutionRequest(j)] = 1 => ExecutionRequest(j) \in posted
    /\ signed[j] = 1 =>
           /\ handed[ExecutionRequest(j)] = 1
           /\ {ExecutionRequest(j), ExecutionReceipt(j)} \subseteq log[worker[j]]
           /\ outcome[j] = "failure" => Diagnosis(j) \in log[worker[j]]
    /\ \A x \in Daemons : handling[x] = ExecutionRequest(j) =>
           /\ x = worker[j] /\ handed[ExecutionRequest(j)] = 1
           /\ ExecutionRequest(j) \in log[x]
           /\ doing[x] \in {"executing", "diagnosing", "signing"} => signed[j] = 0
           /\ doing[x] = "signing" => Diagnosis(j) \in log[x]
    /\ ExecutionReceipt(j) \in posted => signed[j] = 1
    /\ ExecutionRequest(j) \in answered => signed[j] = 1

(* The receipt is in the requester's log from AcceptReceipt on. *)
Received(j) ==
    /\ ExecutionReceipt(j) \in log[Requester[j]] => signed[j] = 1 /\ stage[j] # "idle"
    /\ stage[j] \in Early => ExecutionReceipt(j) \notin log[Requester[j]]
    /\ stage[j] \in Late => ExecutionReceipt(j) \in log[Requester[j]]

JobInv == \A j \in Jobs : Begun(j) /\ Worked(j) /\ Received(j)

(* What leaves the invariant of a job alone: its stage may move within the
   early or the late ones, or fail; logs grow, but not by its receipt. *)
Aside(j) ==
    /\ (stage'[j] = "idle") = (stage[j] = "idle")
    /\ stage'[j] = "planned" => stage[j] = "planned"
    /\ stage'[j] \in Early => stage[j] \in Early
    /\ stage'[j] \in Late => stage[j] \in Late
    /\ worker'[j] = worker[j] /\ signed'[j] = signed[j] /\ outcome'[j] = outcome[j]
    /\ handed[ExecutionRequest(j)] = 1 => handed'[ExecutionRequest(j)] = 1
    /\ handed'[ExecutionRequest(j)] = 1 => ExecutionRequest(j) \in posted
    /\ (ExecutionRequest(j) \in posted') = (ExecutionRequest(j) \in posted)
    /\ ExecutionReceipt(j) \in posted' => ExecutionReceipt(j) \in posted
    /\ ExecutionRequest(j) \in answered' => ExecutionRequest(j) \in answered
    /\ \A x \in Daemons : log[x] \subseteq log'[x]
    /\ ExecutionReceipt(j) \in log'[Requester[j]] => ExecutionReceipt(j) \in log[Requester[j]]
    /\ \A x \in Daemons : handling'[x] = ExecutionRequest(j) =>
           /\ handling[x] = ExecutionRequest(j)
           /\ doing'[x] \in {"executing", "diagnosing", "signing"} =>
                  doing[x] \in {"executing", "diagnosing", "signing"}
           /\ doing'[x] = "signing" => doing[x] = "signing" \/ Diagnosis(j) \in log'[x]

LEMMA Frame ==
    ASSUME TypeOK, NEW j \in Jobs, Aside(j), Begun(j), Worked(j), Received(j)
    PROVE  Begun(j)' /\ Worked(j)' /\ Received(j)'
<1> USE JobDispatchAssumption
<1>1. Begun(j)' BY DEF Aside, Begun
<1>2. handed[ExecutionRequest(j)] = 1 => worker[j] \in Daemons BY DEF Begun, Worked
<1>3. Worked(j)'
  <2>1. \A x \in Daemons : handling'[x] = ExecutionRequest(j) =>
            /\ x = worker'[j] /\ handed'[ExecutionRequest(j)] = 1
            /\ ExecutionRequest(j) \in log'[x]
            /\ doing'[x] \in {"executing", "diagnosing", "signing"} => signed'[j] = 0
            /\ doing'[x] = "signing" => Diagnosis(j) \in log'[x]
    BY DEF Aside, Worked
  <2>2. signed'[j] = 1 =>
            /\ handed'[ExecutionRequest(j)] = 1
            /\ {ExecutionRequest(j), ExecutionReceipt(j)} \subseteq log'[worker'[j]]
            /\ outcome'[j] = "failure" => Diagnosis(j) \in log'[worker'[j]]
    BY <1>2 DEF Aside, Worked
  <2> QED BY <2>1, <2>2 DEF Aside, Worked
<1>4. Received(j)' BY DEF Aside, Received
<1> QED BY <1>1, <1>3, <1>4

(* Steps of request_job. *)
LEMMA RequesterJobInv ==
    ASSUME TypeInv, JobInv, NEW k \in Jobs,
           (\E w \in Workers[k] : RequestJob(k, w)) \/ Proceed(k) \/ CallFails(k) \/ SummaryFails(k)
    PROVE  JobInv'
<1>0. TypeOK /\ Requester[k] \in Daemons BY JobDispatchAssumption DEF TypeInv
<1> USE JobDispatchAssumption
<1> SUFFICES ASSUME NEW j \in Jobs PROVE Begun(j)' /\ Worked(j)' /\ Received(j)'
  BY DEF JobInv
<1>i. Begun(j) /\ Worked(j) /\ Received(j) BY DEF JobInv
<1>1. ASSUME NEW w \in Workers[k], RequestJob(k, w) PROVE Begun(j)' /\ Worked(j)' /\ Received(j)'
  <2>1. CASE j # k
    <3>0. ExecutionReceipt(j) # JobPlan(k) BY Names
    <3>1. Aside(j)
      BY <1>0, <1>1, <1>i, <2>1, <3>0 DEF Aside, RequestJob, Step, Append, TypeOK, loopVars, netVars, Worked
    <3> QED BY <1>0, <1>i, <3>1, Frame
  <2>2. CASE j = k
    <3>1. handed[ExecutionRequest(j)] # 1 /\ ExecutionRequest(j) \notin posted
      BY <1>1, <1>i, <2>2 DEF RequestJob, Step, Begun, Worked
    <3>2. Begun(j)' BY <1>0, <1>1, <2>2, <3>1 DEF RequestJob, Step, Append, TypeOK, Begun, netVars
    <3>3. Worked(j)'
      BY <1>0, <1>1, <1>i, <2>2, <3>1 DEF RequestJob, Worked, loopVars, netVars
    <3>4. Received(j)'
      BY <1>0, <1>1, <1>i, <2>2, Names DEF RequestJob, Step, Append, TypeOK, Received, Early, Late
    <3> QED BY <3>2, <3>3, <3>4
  <2> QED BY <2>1, <2>2
<1>6. CASE SendRequest(k)
  <2>0. ExecutionReceipt(j) # ExecutionRequest(k) BY Names
  <2>1. CASE j # k
    <3>0. ExecutionRequest(j) # ExecutionRequest(k) BY <2>1, Names
    <3>1. Aside(j)
      BY <1>0, <1>6, <1>i, <2>0, <2>1, <3>0
      DEF Aside, SendRequest, Step, Append, Post, TypeOK, loopVars, workVars, Worked
    <3> QED BY <1>0, <1>i, <3>1, Frame
  <2>2. CASE j = k
    <3>1. /\ stage[j] = "planned" /\ stage'[j] = "sendRequest"
          /\ posted' = posted \cup {ExecutionRequest(j)}
          /\ log'[Requester[j]] = log[Requester[j]] \cup {ExecutionRequest(j)}
          /\ \A x \in Daemons : log[x] \subseteq log'[x]
          /\ UNCHANGED <<answered, handling, doing, worker, signed, outcome, handed>>
      BY <1>0, <1>6, <2>2 DEF SendRequest, Step, Append, Post, TypeOK, loopVars, workVars
    <3>2. worker[j] \in Daemons BY <1>i, <3>1 DEF Begun
    <3>3. Begun(j)' BY <1>i, <3>1 DEF Begun
    <3>4. Worked(j)' BY <1>i, <2>0, <2>2, <3>1, <3>2 DEF Worked
    <3>5. Received(j)' BY <1>i, <2>0, <2>2, <3>1 DEF Received, Early, Late
    <3> QED BY <3>3, <3>4, <3>5
  <2> QED BY <2>1, <2>2
<1>2. CASE AcceptReceipt(k)
  <2>1. CASE j # k
    <3>1. Aside(j)
      BY <1>0, <1>2, <1>i, <2>1, Names
      DEF Aside, AcceptReceipt, Step, Append, TypeOK, loopVars, workVars, netVars, Worked
    <3> QED BY <1>0, <1>i, <3>1, Frame
  <2>2. CASE j = k
    <3>1. signed[j] = 1 BY <1>2, <1>i, <2>2 DEF AcceptReceipt, Worked
    <3>2. /\ log'[Requester[j]] = log[Requester[j]] \cup {ExecutionReceipt(j)}
          /\ \A x \in Daemons : log[x] \subseteq log'[x]
          /\ stage'[j] = "mirroring" /\ stage[j] = "awaitReceipt"
      BY <1>0, <1>2, <2>2 DEF AcceptReceipt, Step, Append, TypeOK
    <3>3. Begun(j)' BY <1>2, <1>i, <3>2 DEF AcceptReceipt, Begun, workVars, netVars
    <3>4. worker[j] \in Daemons BY <1>i, <3>2 DEF Begun
    <3>5. Worked(j)' BY <1>2, <1>i, <3>2, <3>4 DEF AcceptReceipt, Worked, workVars, netVars, loopVars
    <3>6. Received(j)' BY <1>2, <3>1, <3>2 DEF AcceptReceipt, Received, workVars, Early
    <3> QED BY <3>3, <3>5, <3>6
  <2> QED BY <2>1, <2>2
<1>3. CASE SendReturns(k) \/ AttestationAcked(k)
  <2>1. Aside(j)
    BY <1>0, <1>3, <1>i DEF Aside, SendReturns, AttestationAcked, Step, TypeOK, Early, Late, loopVars, diskVars,
       workVars, netVars, Worked
  <2> QED BY <1>0, <1>i, <2>1, Frame
<1>7. CASE MirrorDiagnosis(k) \/ Summarize(k)
  <2>1. /\ \E e \in SUBSET {Diagnosis(k), ReportSummary(k)} : log' = [log EXCEPT ![Requester[k]] = @ \cup e]
        /\ \/ stage[k] = "mirroring" /\ stage' = [stage EXCEPT ![k] = "reporting"]
           \/ stage[k] = "reporting" /\ stage' = [stage EXCEPT ![k] = "attesting"]
        /\ UNCHANGED <<answered, handling, doing, worker, signed, outcome, posted, handed>>
    BY <1>7 DEF MirrorDiagnosis, Summarize, Step, Append, loopVars, workVars, netVars
  <2>2. ExecutionReceipt(j) # Diagnosis(k) /\ ExecutionReceipt(j) # ReportSummary(k) BY Names
  <2>3. Aside(j) BY <1>0, <1>i, <2>1, <2>2 DEF Aside, TypeOK, Early, Late, Worked
  <2> QED BY <1>0, <1>i, <2>3, Frame
<1>4. CASE StoreAttestation(k)
  <2>1. /\ posted' = posted \/ posted' = posted \cup {AttestationOf(k)}
        /\ stage[k] = "attesting"
        /\ \E s \in {"done", "sendAttestation"} : stage' = [stage EXCEPT ![k] = s]
        /\ log' = log
    BY <1>4 DEF StoreAttestation, Step, Post
  <2>2. ExecutionRequest(j) # AttestationOf(k) /\ ExecutionReceipt(j) # AttestationOf(k)
    BY Names
  <2>3. /\ (stage'[j] = "idle") = (stage[j] = "idle")
        /\ stage'[j] = "planned" => stage[j] = "planned"
        /\ stage'[j] \in Early => stage[j] \in Early
        /\ stage'[j] \in Late => stage[j] \in Late
    BY <1>0, <2>1 DEF TypeOK, Early, Late
  <2>4. Aside(j)
    BY <1>0, <1>4, <1>i, <2>1, <2>2, <2>3 DEF Aside, StoreAttestation, TypeOK, loopVars, workVars, Worked
  <2> QED BY <1>0, <1>i, <2>4, Frame
<1>5. CASE CallFails(k) \/ SummaryFails(k)
  <2>1. \/ stage' = [stage EXCEPT ![k] = "failed"] /\ stage[k] \in {"sendRequest", "awaitReceipt"}
        \/ stage' = [stage EXCEPT ![k] = "done"] /\ stage[k] \in Late
        \/ stage' = [stage EXCEPT ![k] = "unreported"] /\ stage[k] \in Late
    BY <1>5, Names DEF CallFails, SummaryFails, Step, Call, Sending, Waiting, Late
  <2>2. Aside(j)
    BY <1>0, <1>5, <1>i, <2>1 DEF Aside, CallFails, SummaryFails, Fault, TypeOK, Early, Late, loopVars, diskVars,
       workVars, Worked
  <2> QED BY <1>0, <1>i, <2>2, Frame
<1> QED BY <1>1, <1>2, <1>3, <1>4, <1>5, <1>6, <1>7 DEF Proceed

(* Steps of recv_loop. *)
LEMMA LoopJobInv ==
    ASSUME TypeInv, JobInv, NEW d \in Daemons, LoopStep(d)
    PROVE  JobInv'
<1>0. TypeOK /\ LoopInv(d) BY DEF TypeInv
<1> USE JobDispatchAssumption
<1> SUFFICES ASSUME NEW j \in Jobs PROVE Begun(j)' /\ Worked(j)' /\ Received(j)'
  BY DEF JobInv
<1>i. Begun(j) /\ Worked(j) /\ Received(j) BY DEF JobInv
<1>n. ExecutionRequest(j) \in Messages /\ ExecutionReceipt(j) \in Messages /\ ExecutionRequest(j) # NoMsg
  BY NameTypes, NoMsgAssumption
<1>1. ASSUME NEW k \in Jobs, TakeRequest(d, k) PROVE Begun(j)' /\ Worked(j)' /\ Received(j)'
  <2>0. ExecutionReceipt(j) # ExecutionRequest(k) BY Names
  <2>1. CASE j # k
    <3>0. ExecutionRequest(j) # ExecutionRequest(k) BY <2>1, Names
    <3>1. Aside(j)
      BY <1>0, <1>1, <1>n, <1>i, <2>0, <3>0
      DEF Aside, TakeRequest, Net!Hand, Append, Busy, TypeOK, workVars, Worked
    <3> QED BY <1>0, <1>i, <3>1, Frame
  <2>2. CASE j = k
    <3>1. /\ handed[ExecutionRequest(j)] = 0 /\ handed'[ExecutionRequest(j)] = 1
          /\ ExecutionRequest(j) \in posted /\ d = worker[j] /\ signed[j] = 0
      BY <1>0, <1>1, <1>i, <1>n, <2>2 DEF TakeRequest, Net!Hand, TypeOK, Worked
    <3>2. /\ \A x \in Daemons : log[x] \subseteq log'[x]
          /\ log'[d] = log[d] \cup {ExecutionRequest(j)}
          /\ \A x \in Daemons : x # d => log'[x] = log[x]
      BY <1>0, <1>1, <2>2 DEF TakeRequest, Append, TypeOK
    <3>3. Begun(j)' BY <1>1, <1>i, <3>2 DEF TakeRequest, Begun, workVars
    <3>4. \A x \in Daemons : handling'[x] = ExecutionRequest(j) => x = d
      BY <1>0, <1>1, <1>i, <3>1 DEF TakeRequest, Busy, TypeOK, Worked
    <3>5. \A x \in Daemons : handling'[x] = ExecutionRequest(j) => doing'[x] = "executing"
      BY <1>0, <1>1, <3>4 DEF TakeRequest, Busy, TypeOK
    <3>7. Worked(j)'
      BY <1>1, <1>i, <3>1, <3>2, <3>4, <3>5 DEF TakeRequest, Worked, workVars
    <3>6. Received(j)' BY <1>1, <1>i, <2>0, <2>2, <3>2 DEF TakeRequest, Received, workVars
    <3> QED BY <3>3, <3>7, <3>6
  <2> QED BY <2>1, <2>2
<1>2. ASSUME NEW k \in Jobs, TakeAttestation(d, k) PROVE Begun(j)' /\ Worked(j)' /\ Received(j)'
  <2>1. /\ ExecutionRequest(j) # AttestationOf(k) /\ ExecutionRequest(j) # AttestationAck(k)
        /\ ExecutionReceipt(j) # AttestationAck(k)
    BY Names
  <2>2. Aside(j)
    BY <1>0, <1>2, <1>n, <1>i, <2>1 DEF Aside, TakeAttestation, Net!Hand, Busy, Post, TypeOK, workVars, Worked
  <2> QED BY <1>0, <1>i, <2>2, Frame
<1>3. ASSUME NEW k \in Jobs, TakeReply(d, ExecutionRequest(k)) PROVE Begun(j)' /\ Worked(j)' /\ Received(j)'
  <2>0. /\ ReplyTo(ExecutionRequest(k)) = ExecutionReceipt(k)
        /\ ExecutionRequest(j) # ExecutionReceipt(k)
    BY NameTypes, Names
  <2>1. CASE j # k
    <3>0. ExecutionRequest(j) # ExecutionRequest(k) BY <2>1, Names
    <3>1. Aside(j)
      BY <1>0, <1>3, <1>n, <1>i, <2>0, <3>0
      DEF Aside, TakeReply, Net!Hand, TypeOK, loopVars, diskVars, workVars, Worked
    <3> QED BY <1>0, <1>i, <3>1, Frame
  <2>2. CASE j = k
    <3>1. signed[j] = 1
      BY <1>0, <1>3, <1>i, <2>0, <2>2 DEF TakeReply, Net!Hand, TypeOK, Worked
    <3>2. handed'[ExecutionRequest(j)] = handed[ExecutionRequest(j)]
      BY <1>0, <1>3, <1>n, <2>0 DEF TakeReply, Net!Hand, TypeOK
    <3>3. Begun(j)' BY <1>3, <1>i DEF TakeReply, Begun, diskVars, workVars
    <3>4. Worked(j)' BY <1>3, <1>i, <3>1, <3>2 DEF TakeReply, Worked, diskVars, workVars, loopVars
    <3>5. Received(j)' BY <1>3, <1>i DEF TakeReply, Received, diskVars, workVars
    <3> QED BY <3>3, <3>4, <3>5
  <2> QED BY <2>1, <2>2
<1>4. ASSUME NEW k \in Jobs, TakeReply(d, AttestationOf(k)) PROVE Begun(j)' /\ Worked(j)' /\ Received(j)'
  <2>1. /\ ReplyTo(AttestationOf(k)) = AttestationAck(k)
        /\ ExecutionRequest(j) # AttestationAck(k) /\ ExecutionRequest(j) # AttestationOf(k)
    BY NameTypes, Names
  <2>2. Aside(j)
    BY <1>0, <1>4, <1>n, <1>i, <2>1
    DEF Aside, TakeReply, Net!Hand, TypeOK, loopVars, diskVars, workVars, Worked
  <2> QED BY <1>0, <1>i, <2>2, Frame
<1>5. CASE TaskFails(d)
  <2>1. Aside(j)
    BY <1>0, <1>5, <1>i DEF Aside, TaskFails, Turn, TypeOK, diskVars, workVars, netVars, Worked
  <2> QED BY <1>0, <1>i, <2>1, Frame
<1>8. CASE Diagnosed(d)
  <2>1. PICK k \in Jobs : handling[d] = ExecutionRequest(k) /\ handling[d][2] = k
    BY <1>0, <1>8, NameTypes DEF Diagnosed, Turn, LoopInv
  <2>2. /\ log' = [log EXCEPT ![d] = @ \cup {Diagnosis(k)}]
        /\ doing[d] = "diagnosing" /\ doing' = [doing EXCEPT ![d] = "signing"]
        /\ UNCHANGED <<stage, answered, handling, worker, signed, outcome, posted, handed>>
    BY <1>8, <2>1 DEF Diagnosed, Turn, Append, workVars, netVars
  <2>3. ExecutionReceipt(j) # Diagnosis(k) BY Names
  <2>4. handling[d] = ExecutionRequest(j) => Diagnosis(j) \in log'[d]
    BY <1>0, <2>1, <2>2, Names DEF TypeOK
  <2>5. Aside(j) BY <1>0, <1>i, <2>2, <2>3, <2>4 DEF Aside, TypeOK, Worked
  <2> QED BY <1>0, <1>i, <2>5, Frame
<1>6. CASE TaskSucceeds(d) \/ SignFailure(d)
  <2>1. PICK k \in Jobs : handling[d] = ExecutionRequest(k)
    BY <1>0, <1>6 DEF TaskSucceeds, SignFailure, Turn, LoopInv
  <2>2. handling[d][2] = k /\ ReplyTo(handling[d]) = ExecutionReceipt(k) BY <2>1, NameTypes
  <2>3. PICK result \in {"success", "failure"} :
            /\ log' = [log EXCEPT ![d] = @ \cup {ExecutionReceipt(k)}]
            /\ outcome' = [outcome EXCEPT ![k] = result]
            /\ result = "failure" => doing[d] = "signing"
    BY <1>6, <2>2 DEF TaskSucceeds, SignFailure, Sign, Append, Turn
  <2>4. /\ signed' = [signed EXCEPT ![k] = @ + 1] /\ posted' = posted \cup {ExecutionReceipt(k)}
        /\ UNCHANGED <<stage, answered, worker, handed, handling>>
        /\ doing[d] \in {"executing", "diagnosing", "signing"} /\ doing' = [doing EXCEPT ![d] = "replying"]
    BY <1>6, <2>2 DEF TaskSucceeds, SignFailure, Sign, Post, Turn
  <2>5. ExecutionReceipt(k) # ExecutionRequest(j) BY Names
  <2>6. CASE j # k
    <3>0. ExecutionReceipt(j) # ExecutionReceipt(k) BY <2>6, Names
    <3>1. Aside(j) BY <1>0, <1>i, <2>3, <2>4, <2>5, <2>6, <3>0 DEF Aside, TypeOK, Worked
    <3> QED BY <1>0, <1>i, <3>1, Frame
  <2>7. CASE j = k
    <3>1. d = worker[j] /\ handed[ExecutionRequest(j)] = 1 /\ signed[j] = 0
      BY <1>i, <2>1, <2>4, <2>7 DEF Worked
    <3>2. stage[j] # "idle" /\ worker[j] \in Workers[j] /\ d # Requester[j]
      BY <1>i, <3>1 DEF Begun, Worked
    <3>3. /\ \A x \in Daemons : log[x] \subseteq log'[x]
          /\ {ExecutionRequest(j), ExecutionReceipt(j)} \subseteq log'[d]
          /\ outcome'[j] = "failure" => Diagnosis(j) \in log'[d]
          /\ \A x \in Daemons : x # d => log'[x] = log[x]
          /\ signed'[j] = 1
      BY <1>0, <1>i, <2>1, <2>3, <2>4, <2>7, <3>1 DEF TypeOK, Worked
    <3>4. Begun(j)' BY <1>i, <2>4, <2>5, <2>7, <3>2, <3>3 DEF Begun
    <3>5. \A x \in Daemons : handling'[x] = ExecutionRequest(j) => x = d /\ doing'[x] = "replying"
      BY <1>0, <1>i, <2>4, <3>1 DEF Worked, TypeOK
    <3>6. Worked(j)' BY <1>i, <2>4, <2>5, <3>1, <3>3, <3>5 DEF Worked
    <3>7. ExecutionReceipt(j) \notin log[Requester[j]] BY <1>i, <3>1 DEF Received
    <3>8. Received(j)' BY <1>i, <2>4, <3>2, <3>3, <3>7 DEF Received
    <3> QED BY <3>4, <3>6, <3>8
  <2> QED BY <2>6, <2>7
<1>7. CASE ReplyReturns(d)
  <2>1. Aside(j)
    BY <1>0, <1>7, <1>n, <1>i DEF Aside, ReplyReturns, Busy, TypeOK, diskVars, workVars, netVars, Worked
  <2> QED BY <1>0, <1>i, <2>1, Frame
<1> QED BY <1>1, <1>2, <1>3, <1>4, <1>5, <1>6, <1>7, <1>8 DEF LoopStep

LEMMA OtherJobInv ==
    ASSUME TypeInv, JobInv,
           \/ \E m \in Messages : Transmit(m) \/ Lose(m)
           \/ \E d \in Daemons : ImportAttestation(d) \/ HandlingFails(d) \/ Crash(d) \/ Restart(d)
    PROVE  JobInv'
<1>0. TypeOK BY DEF TypeInv
<1> USE JobDispatchAssumption
<1> SUFFICES ASSUME NEW j \in Jobs PROVE Aside(j)
  BY <1>0, Frame DEF JobInv
<1>n. ExecutionRequest(j) # NoMsg /\ ExecutionRequest(j) \in Messages BY NameTypes, NoMsgAssumption
<1>i. handed[ExecutionRequest(j)] = 1 => ExecutionRequest(j) \in posted BY DEF JobInv, Worked
<1>1. ASSUME NEW m \in Messages, Transmit(m) PROVE Aside(j)
  BY <1>1, <1>i DEF Transmit, Net!Send, Aside, memVars, loopVars, diskVars, workVars
<1>2. ASSUME NEW d \in Daemons, ImportAttestation(d) \/ Restart(d) PROVE Aside(j)
  BY <1>2, <1>i DEF ImportAttestation, Restart, Started, Aside, memVars, loopVars, workVars, netVars
<1>3. ASSUME NEW d \in Daemons, HandlingFails(d) PROVE Aside(j)
  BY <1>0, <1>3, <1>n, <1>i DEF HandlingFails, Busy, Fault, Aside, TypeOK, diskVars, workVars
<1>4. ASSUME NEW d \in Daemons, Crash(d) PROVE Aside(j)
  <2>1. \/ stage'[j] = stage[j]
        \/ stage'[j] = "failed" /\ stage[j] # "idle"
    BY <1>4 DEF Crash, Final
  <2> QED BY <1>0, <1>4, <1>n, <1>i, <2>1 DEF Crash, Busy, Aside, TypeOK, Early, Late, diskVars, workVars, netVars
<1>5. ASSUME NEW m \in Messages, Lose(m) PROVE Aside(j)
  BY <1>0, <1>5, <1>n, <1>i DEF Lose, Net!Hand, Fault, Aside, TypeOK, loopVars, diskVars, workVars
<1> QED BY <1>1, <1>2, <1>3, <1>4, <1>5

LEMMA JobInvStep == TypeInv /\ JobInv /\ [Next]_vars => JobInv'
<1>1. ASSUME JobInv, UNCHANGED vars PROVE JobInv'
  BY <1>1 DEF JobInv, Begun, Worked, Received, vars, memVars, loopVars, diskVars, workVars, netVars
<1> QED BY <1>1, RequesterJobInv, LoopJobInv, OtherJobInv DEF Next

LEMMA InitJobInv == Init => JobInv
<1> SUFFICES ASSUME Init, NEW j \in Jobs PROVE Begun(j) /\ Worked(j) /\ Received(j)
  BY DEF JobInv
<1>1. ExecutionRequest(j) \in Messages /\ ExecutionRequest(j) # NoMsg BY NameTypes, NoMsgAssumption
<1> QED BY <1>1, JobDispatchAssumption DEF Init, Net!CInit, Begun, Worked, Received, Late

LEMMA AlwaysJobInv == Spec => []JobInv
BY InitJobInv, JobInvStep, AlwaysTypeInv, PTL DEF Spec

(* Whatever crashed or failed, the worker can show the evidence behind every
   receipt the requester has: the request, the receipt and the diagnosis of a
   failed result, each appended before the next thing is done. *)
THEOREM EvidenceShared == Spec => []ReceiptIsShared
<1>1. JobInv => ReceiptIsShared
  BY JobDispatchAssumption DEF JobInv, Begun, Worked, Received, ReceiptIsShared
<1> QED BY <1>1, AlwaysJobInv, PTL

-----------------------------------------------------------------------------
(* Refinement. *)

(* Nothing of the board moves. *)
Still == UNCHANGED <<status, signed>>

LEMMA StillIf ==
    ASSUME signed' = signed,
           \A j \in Jobs : /\ (ExecutionReceipt(j) \in log'[Requester[j]]) = (ExecutionReceipt(j) \in log[Requester[j]])
                           /\ \/ ExecutionReceipt(j) \in log[Requester[j]]
                              \/ /\ (stage'[j] = "idle") = (stage[j] = "idle")
                                 /\ (stage'[j] = "failed") = (stage[j] = "failed")
    PROVE  Still
<1>1. ASSUME NEW j \in Jobs PROVE status'[j] = status[j] BY DEF status
<1>2. status' = status BY <1>1 DEF status
<1> QED BY <1>2 DEF Still

LEMMA RequesterBoard ==
    ASSUME TypeInv, JobInv, NEW k \in Jobs,
           (\E w \in Workers[k] : RequestJob(k, w)) \/ Proceed(k) \/ CallFails(k) \/ SummaryFails(k)
    PROVE  Still \/ Board!BNext
<1>0. TypeOK /\ Requester[k] \in Daemons /\ Begun(k) /\ Worked(k) /\ Received(k)
  BY JobDispatchAssumption DEF TypeInv, JobInv
<1> USE JobDispatchAssumption
<1>1. ASSUME NEW w \in Workers[k], RequestJob(k, w) PROVE Board!Submit(k)
  <2>1. /\ stage[k] = "idle" /\ stage' = [stage EXCEPT ![k] = "planned"] /\ signed' = signed
        /\ log' = [log EXCEPT ![Requester[k]] = @ \cup {JobPlan(k)}]
    BY <1>1 DEF RequestJob, Step, Append
  <2>2. ASSUME NEW j \in Jobs
        PROVE  (ExecutionReceipt(j) \in log'[Requester[j]]) = (ExecutionReceipt(j) \in log[Requester[j]])
    <3>1. ExecutionReceipt(j) # JobPlan(k) BY Names
    <3> QED BY <1>0, <2>1, <3>1 DEF TypeOK
  <2>3. ExecutionReceipt(k) \notin log[Requester[k]] BY <1>0, <2>1 DEF Received, Early
  <2>4. status[k] = "none" /\ status'[k] = "running"
    BY <1>0, <2>1, <2>2, <2>3 DEF status, TypeOK
  <2>5. \A j \in Jobs : j # k => status'[j] = status[j] BY <1>0, <2>1, <2>2 DEF status, TypeOK
  <2>6. status' = [status EXCEPT ![k] = "running"] BY <2>4, <2>5 DEF status
  <2> QED BY <2>1, <2>4, <2>6 DEF Board!Submit
<1>2. CASE AcceptReceipt(k)
  <2>1. /\ stage[k] = "awaitReceipt" /\ stage' = [stage EXCEPT ![k] = "mirroring"] /\ signed' = signed
        /\ log' = [log EXCEPT ![Requester[k]] = @ \cup {ExecutionReceipt(k)}]
    BY <1>2 DEF AcceptReceipt, Step, Append, workVars
  <2>2. ASSUME NEW j \in Jobs, j # k
        PROVE  (ExecutionReceipt(j) \in log'[Requester[j]]) = (ExecutionReceipt(j) \in log[Requester[j]])
    <3>1. ExecutionReceipt(j) # ExecutionReceipt(k) BY <2>2, Names
    <3> QED BY <1>0, <2>1, <3>1 DEF TypeOK
  <2>3. ExecutionReceipt(k) \notin log[Requester[k]] BY <1>0, <2>1 DEF Received, Early
  <2>4. ExecutionReceipt(k) \in log'[Requester[k]] BY <1>0, <2>1 DEF TypeOK
  <2>5. status[k] = "running" /\ status'[k] = "completed" BY <2>1, <2>3, <2>4 DEF status
  <2>6. \A j \in Jobs : j # k => status'[j] = status[j] BY <1>0, <2>1, <2>2 DEF status, TypeOK
  <2>7. status' = [status EXCEPT ![k] = "completed"] BY <2>5, <2>6 DEF status
  <2>8. signed[k] = 1 BY <1>0, <1>2 DEF AcceptReceipt, Worked
  <2>9. Board!Complete(k) BY <2>1, <2>5, <2>7, <2>8 DEF Board!Complete
  <2> QED BY <2>9 DEF Board!BNext
<1>3. CASE SendReturns(k) \/ AttestationAcked(k) \/ StoreAttestation(k)
  <2>1. /\ \E s \in {"awaitReceipt", "awaitAck", "sendAttestation", "done"} : stage' = [stage EXCEPT ![k] = s]
        /\ stage[k] \notin {"idle", "failed"} /\ log' = log /\ signed' = signed
    BY <1>3 DEF SendReturns, AttestationAcked, StoreAttestation, Step, diskVars, workVars
  <2> QED BY <1>0, <2>1, StillIf DEF TypeOK
<1>4. CASE SendRequest(k) \/ MirrorDiagnosis(k) \/ Summarize(k)
  <2>1. /\ \E s \in {"sendRequest", "reporting", "attesting"} : stage' = [stage EXCEPT ![k] = s]
        /\ stage[k] \in {"planned", "mirroring", "reporting"} /\ signed' = signed
        /\ \E e \in SUBSET {ExecutionRequest(k), Diagnosis(k), ReportSummary(k)} :
              log' = [log EXCEPT ![Requester[k]] = @ \cup e]
    BY <1>4 DEF SendRequest, MirrorDiagnosis, Summarize, Step, Append, workVars
  <2>2. ASSUME NEW j \in Jobs
        PROVE  (ExecutionReceipt(j) \in log'[Requester[j]]) = (ExecutionReceipt(j) \in log[Requester[j]])
    <3>1. ExecutionReceipt(j) \notin {ExecutionRequest(k), Diagnosis(k), ReportSummary(k)} BY Names
    <3> QED BY <1>0, <2>1, <3>1 DEF TypeOK
  <2>3. \A j \in Jobs : /\ (stage'[j] = "idle") = (stage[j] = "idle")
                        /\ (stage'[j] = "failed") = (stage[j] = "failed")
    BY <1>0, <2>1 DEF TypeOK
  <2> QED BY <2>1, <2>2, <2>3, StillIf
<1>5. CASE CallFails(k) \/ SummaryFails(k)
  <2>1. /\ log' = log /\ signed' = signed
        /\ \/ stage' = [stage EXCEPT ![k] = "failed"] /\ stage[k] \in {"sendRequest", "awaitReceipt"}
           \/ \E s \in {"done", "unreported"} : stage' = [stage EXCEPT ![k] = s] /\ stage[k] \in Late
    BY <1>5, Names DEF CallFails, SummaryFails, Step, Call, Sending, Waiting, Late, Fault, diskVars, workVars
  <2>2. CASE stage' = [stage EXCEPT ![k] = "failed"] /\ stage[k] \in {"sendRequest", "awaitReceipt"}
    <3>1. ExecutionReceipt(k) \notin log[Requester[k]] BY <1>0, <2>2 DEF Received, Early
    <3>2. status[k] = "running" /\ status'[k] = "abandoned" BY <1>0, <2>1, <2>2, <3>1 DEF status, TypeOK
    <3>3. \A j \in Jobs : j # k => status'[j] = status[j] BY <1>0, <2>1, <2>2 DEF status, TypeOK
    <3>4. status' = [j \in Jobs |-> IF j \in {k} THEN "abandoned" ELSE status[j]]
      BY <3>2, <3>3 DEF status
    <3>5. Board!Abandon({k}) BY <2>1, <3>2, <3>4 DEF Board!Abandon
    <3> QED BY <3>5 DEF Board!BNext
  <2>3. CASE \E s \in {"done", "unreported"} : stage' = [stage EXCEPT ![k] = s] /\ stage[k] \in Late
    <3>1. \A j \in Jobs : (stage'[j] = "idle") = (stage[j] = "idle") /\ (stage'[j] = "failed") = (stage[j] = "failed")
      BY <1>0, <2>3 DEF TypeOK, Late
    <3> QED BY <2>1, <3>1, StillIf
  <2> QED BY <2>1, <2>2, <2>3
<1> QED BY <1>1, <1>2, <1>3, <1>4, <1>5 DEF Proceed, Board!BNext

LEMMA LoopBoard ==
    ASSUME TypeInv, JobInv, NEW d \in Daemons, LoopStep(d)
    PROVE  Still \/ Board!BNext
<1>0. TypeOK /\ LoopInv(d) BY DEF TypeInv
<1> USE JobDispatchAssumption
<1>1. CASE TaskSucceeds(d) \/ SignFailure(d)
  <2>1. PICK k \in Jobs : handling[d] = ExecutionRequest(k)
    BY <1>0, <1>1 DEF TaskSucceeds, SignFailure, Turn, LoopInv
  <2>2. handling[d][2] = k BY <2>1, NameTypes
  <2>3. /\ log' = [log EXCEPT ![d] = @ \cup {ExecutionReceipt(k)}] /\ signed' = [signed EXCEPT ![k] = @ + 1]
        /\ doing[d] \in {"executing", "signing"} /\ stage' = stage
    BY <1>0, <1>1, <2>2 DEF TaskSucceeds, SignFailure, Sign, Turn, Append
  <2>4. Begun(k) /\ Worked(k) BY DEF JobInv
  <2>5. signed[k] = 0 /\ d = worker[k] /\ handed[ExecutionRequest(k)] = 1
    BY <2>1, <2>3, <2>4 DEF Worked
  <2>6. stage[k] # "idle" /\ d # Requester[k] BY <2>4, <2>5 DEF Begun, Worked
  <2>7. ASSUME NEW j \in Jobs
        PROVE  (ExecutionReceipt(j) \in log'[Requester[j]]) = (ExecutionReceipt(j) \in log[Requester[j]])
    <3>1. j # k => ExecutionReceipt(j) # ExecutionReceipt(k) BY Names
    <3> QED BY <1>0, <2>3, <2>6, <3>1 DEF TypeOK
  <2>8. status' = status BY <2>3, <2>7 DEF status
  <2>9. status[k] # "none" BY <2>6 DEF status
  <2>10. signed' = [signed EXCEPT ![k] = 1] BY <1>0, <2>3, <2>5 DEF TypeOK
  <2>11. Board!Work(k) BY <2>5, <2>8, <2>9, <2>10 DEF Board!Work
  <2> QED BY <2>11 DEF Board!BNext
<1>2. CASE Diagnosed(d) \/ \E k \in Jobs : TakeRequest(d, k)
  <2>1. PICK e : /\ log' = [log EXCEPT ![d] = @ \cup {e}] /\ stage' = stage /\ signed' = signed
                 /\ \E k : e = ExecutionRequest(k) \/ e = Diagnosis(k)
    BY <1>2 DEF TakeRequest, Diagnosed, Append, workVars
  <2>2. ASSUME NEW j \in Jobs
        PROVE  (ExecutionReceipt(j) \in log'[Requester[j]]) = (ExecutionReceipt(j) \in log[Requester[j]])
    <3>1. ExecutionReceipt(j) # e BY <2>1, Names
    <3> QED BY <1>0, <2>1, <3>1 DEF TypeOK
  <2> QED BY <2>1, <2>2, StillIf
<1>3. CASE \/ TaskFails(d) \/ ReplyReturns(d)
           \/ \E k \in Jobs : \/ TakeAttestation(d, k)
                              \/ TakeReply(d, ExecutionRequest(k)) \/ TakeReply(d, AttestationOf(k))
  <2>1. log' = log /\ stage' = stage /\ signed' = signed
    BY <1>3 DEF TaskFails, ReplyReturns, TakeAttestation, TakeReply, diskVars, workVars
  <2> QED BY <2>1, StillIf
<1> QED BY <1>1, <1>2, <1>3 DEF LoopStep

LEMMA OtherBoard ==
    ASSUME TypeInv, JobInv,
           \/ \E m \in Messages : Transmit(m) \/ Lose(m)
           \/ \E d \in Daemons : ImportAttestation(d) \/ HandlingFails(d) \/ Crash(d) \/ Restart(d)
    PROVE  Still \/ Board!BNext
<1>0. TypeOK BY DEF TypeInv
<1>1. CASE \/ \E m \in Messages : Transmit(m) \/ Lose(m)
           \/ \E d \in Daemons : ImportAttestation(d) \/ HandlingFails(d) \/ Restart(d)
  <2>1. log' = log /\ stage' = stage /\ signed' = signed
    BY <1>1 DEF Transmit, Lose, ImportAttestation, HandlingFails, Restart, Started, Fault, memVars, diskVars,
       workVars
  <2> QED BY <2>1, StillIf
<1>2. ASSUME NEW d \in Daemons, Crash(d) PROVE Board!BNext
  <2> DEFINE J == {j \in Jobs : Requester[j] = d /\ stage[j] \in {"planned", "sendRequest", "awaitReceipt"}}
  <2>1. /\ stage' = [j \in Jobs |-> IF Requester[j] = d /\ stage[j] \notin {"idle"} \cup Final
                                    THEN "failed" ELSE stage[j]]
        /\ log' = log /\ signed' = signed
    BY <1>2 DEF Crash, diskVars, workVars
  <2>2. ASSUME NEW j \in J PROVE status[j] = "running" /\ status'[j] = "abandoned"
    <3>1. ExecutionReceipt(j) \notin log[Requester[j]] BY DEF JobInv, Received, Early
    <3> QED BY <2>1, <3>1 DEF status, Final
  <2>3. ASSUME NEW j \in Jobs \ J PROVE status'[j] = status[j]
    <3>1. CASE stage'[j] = stage[j] BY <2>1, <3>1 DEF status
    <3>2. CASE stage'[j] # stage[j]
      <4>1. stage[j] \in Late BY <1>0, <2>1, <3>2 DEF TypeOK, Stages, Final, Late
      <4>2. ExecutionReceipt(j) \in log[Requester[j]] BY <4>1 DEF JobInv, Received
      <4> QED BY <2>1, <4>2 DEF status
    <3> QED BY <3>1, <3>2
  <2>4. status' = [j \in Jobs |-> IF j \in J THEN "abandoned" ELSE status[j]]
    BY <2>2, <2>3 DEF status
  <2>5. J \in SUBSET Jobs OBVIOUS
  <2> HIDE DEF J
  <2>6. Board!Abandon(J) BY <2>1, <2>2, <2>4 DEF Board!Abandon
  <2> QED BY <2>5, <2>6 DEF Board!BNext
<1> QED BY <1>1, <1>2

(* The messages, crashes and logs of job dispatch do what the board promises:
   the work for a job is done once and before it is completed, and a job that
   was given up is never completed by a late receipt. *)
THEOREM DispatchIsBoard == Spec => BoardSpec
<1>1. Init => Board!BInit BY JobDispatchAssumption DEF Init, Board!BInit, status
<1>2. TypeInv /\ JobInv /\ [Next]_vars => [Board!BNext]_(Board!boardVars)
  <2>1. UNCHANGED vars => Still BY StillIf DEF vars, memVars, diskVars, workVars
  <2>2. Still => UNCHANGED Board!boardVars BY DEF Still, Board!boardVars
  <2> QED BY <2>1, <2>2, RequesterBoard, LoopBoard, OtherBoard DEF Next
<1> QED BY <1>1, <1>2, AlwaysTypeInv, AlwaysJobInv, PTL DEF Spec, BoardSpec, Board!BSpec

-----------------------------------------------------------------------------
(* Nobody waits in vain. *)

LEMMA ReplyNames ==
    ASSUME NEW m \in Requests, NEW n \in Requests
    PROVE  /\ ReplyTo(m) # n /\ ReplyTo(m) \in Messages /\ m \in Messages /\ m[2] \in Jobs /\ m # NoMsg
           /\ ReplyTo(m) = ReplyTo(n) => m = n
BY NoMsgAssumption DEF Requests, Replies, Messages, ReplyTo, ExecutionReceipt, AttestationAck

(* request_job of its job is in the call of m. *)
InCall(m) == (Sending(m[2]) \/ Waiting(m[2])) /\ Call(m[2]) = m

LEMMA InCallIs ==
    ASSUME NEW m \in Requests
    PROVE  /\ Pending(m) <=> InCall(m) /\ m \notin answered
           /\ InCall(m) <=>
                  \/ m = ExecutionRequest(m[2]) /\ stage[m[2]] \in {"sendRequest", "awaitReceipt"}
                  \/ m = AttestationOf(m[2]) /\ stage[m[2]] \in {"sendAttestation", "awaitAck"}
           /\ m = ExecutionRequest(m[2]) \/ m = AttestationOf(m[2])
           /\ ExecutionRequest(m[2]) # AttestationOf(m[2])
BY DEF Pending, InCall, Sending, Waiting, Call, Requests, ExecutionRequest, AttestationOf

(* The job has not posted its attestation. *)
BeforeAttest == {"idle", "planned", "sendRequest", "awaitReceipt", "mirroring", "reporting", "attesting"}

(* Where m is: from its post to its result somebody has it. *)
Traced(m) ==
    /\ handed[m] = 1 => m \in posted /\ (handling[worker[m[2]]] = m \/ ReplyTo(m) \in posted)
    /\ ReplyTo(m) \in posted => m \in posted
    /\ handed[ReplyTo(m)] = 1 => m \in answered
    /\ m \in answered => m \in posted
    /\ m \in posted /\ m \notin answered => InCall(m)
    /\ InCall(m) => m \in posted
    /\ m = AttestationOf(m[2]) /\ stage[m[2]] \in BeforeAttest
           => m \notin posted

(* A loop that replies has posted its reply. *)
Replying(d) == doing[d] = "replying" => ReplyTo(handling[d]) \in posted

TraceInv ==
    /\ faults \in Nat /\ crashes \in Nat
    /\ \A d \in Daemons : Replying(d)
    /\ faults + crashes = 0 => \A m \in Requests : Traced(m)

(* What a step about another message may do. *)
Besides(m) ==
    /\ (InCall(m)' <=> InCall(m)) /\ worker'[m[2]] = worker[m[2]]
    /\ handed'[m] = handed[m] /\ handed'[ReplyTo(m)] = handed[ReplyTo(m)]
    /\ (m \in posted') = (m \in posted) /\ (ReplyTo(m) \in posted') = (ReplyTo(m) \in posted)
    /\ (m \in answered') = (m \in answered)
    /\ handling[worker[m[2]]] = m => handling'[worker[m[2]]] = m \/ ReplyTo(m) \in posted'
    /\ stage'[m[2]] \in BeforeAttest =>
           stage[m[2]] \in BeforeAttest

LEMMA TracedBesides ==
    ASSUME NEW m \in Requests, Traced(m), Besides(m)
    PROVE  Traced(m)'
BY DEF Traced, Besides

LEMMA RequesterTraced ==
    ASSUME TypeInv, JobInv, NEW m \in Requests, Traced(m), NEW k \in Jobs,
           (\E w \in Workers[k] : RequestJob(k, w)) \/ Proceed(k)
    PROVE  Traced(m)'
<1>0. TypeOK /\ Begun(m[2]) /\ m[2] \in Jobs BY ReplyNames DEF TypeInv, JobInv
<1>i. /\ InCall(m) <=>
             \/ m = ExecutionRequest(m[2]) /\ stage[m[2]] \in {"sendRequest", "awaitReceipt"}
             \/ m = AttestationOf(m[2]) /\ stage[m[2]] \in {"sendAttestation", "awaitAck"}
      /\ InCall(m)' <=>
             \/ m = ExecutionRequest(m[2]) /\ stage'[m[2]] \in {"sendRequest", "awaitReceipt"}
             \/ m = AttestationOf(m[2]) /\ stage'[m[2]] \in {"sendAttestation", "awaitAck"}
      /\ m = ExecutionRequest(m[2]) \/ m = AttestationOf(m[2])
      /\ ExecutionRequest(m[2]) # AttestationOf(m[2])
  <2>1. (InCall(m) <=>
             \/ m = ExecutionRequest(m[2]) /\ stage[m[2]] \in {"sendRequest", "awaitReceipt"}
             \/ m = AttestationOf(m[2]) /\ stage[m[2]] \in {"sendAttestation", "awaitAck"})
        /\ (m = ExecutionRequest(m[2]) \/ m = AttestationOf(m[2]))
        /\ ExecutionRequest(m[2]) # AttestationOf(m[2])
    BY InCallIs
  <2>2. InCall(m)' <=>
             \/ m = ExecutionRequest(m[2]) /\ stage'[m[2]] \in {"sendRequest", "awaitReceipt"}
             \/ m = AttestationOf(m[2]) /\ stage'[m[2]] \in {"sendAttestation", "awaitAck"}
    BY DEF InCall, Sending, Waiting, Call, Requests, ExecutionRequest, AttestationOf
  <2> QED BY <2>1, <2>2
<1>h. handed[m] = 1 => m \in posted BY DEF Traced
<1>n. /\ ExecutionRequest(k) \in Requests /\ AttestationOf(k) \in Requests
      /\ ExecutionRequest(k)[2] = k /\ AttestationOf(k)[2] = k
  BY NameTypes
<1>r. ReplyTo(m) # ExecutionRequest(k) /\ ReplyTo(m) # AttestationOf(k) BY <1>n, ReplyNames
<1>o. m[2] # k => m # ExecutionRequest(k) /\ m # AttestationOf(k) BY <1>n
<1>1. ASSUME NEW w \in Workers[k], RequestJob(k, w) PROVE Traced(m)'
  <2>1. /\ stage[k] = "idle" /\ stage' = [stage EXCEPT ![k] = "planned"]
        /\ worker' = [worker EXCEPT ![k] = w]
        /\ UNCHANGED <<answered, handling, handed, posted>>
    BY <1>1 DEF RequestJob, Step, loopVars, netVars
  <2>2. CASE m[2] # k
    <3>1. Besides(m) BY <1>0, <1>i, <2>1, <2>2 DEF Besides, BeforeAttest, TypeOK
    <3> QED BY <3>1, TracedBesides
  <2>3. CASE m[2] = k
    <3>1. m \notin posted /\ handed[m] # 1 /\ m \notin answered /\ ReplyTo(m) \notin posted
          /\ handed[ReplyTo(m)] # 1
      BY <1>0, <1>i, <1>h, <2>1, <2>3 DEF Begun, Traced, BeforeAttest
    <3>2. stage'[k] = "planned" BY <1>0, <2>1 DEF TypeOK
    <3> QED BY <1>i, <2>1, <2>3, <3>1, <3>2 DEF Traced
  <2> QED BY <2>2, <2>3
<1>6. CASE SendRequest(k)
  <2>1. /\ stage[k] = "planned" /\ stage' = [stage EXCEPT ![k] = "sendRequest"]
        /\ posted' = posted \cup {ExecutionRequest(k)}
        /\ UNCHANGED <<answered, handling, handed, worker>>
    BY <1>6 DEF SendRequest, Step, Post, loopVars, workVars
  <2>2. CASE m[2] # k
    <3>1. Besides(m) BY <1>0, <1>i, <1>r, <1>o, <2>1, <2>2 DEF Besides, BeforeAttest, TypeOK
    <3> QED BY <3>1, TracedBesides
  <2>3. CASE m[2] = k
    <3>1. m \notin posted /\ handed[m] # 1 /\ m \notin answered /\ ReplyTo(m) \notin posted
          /\ handed[ReplyTo(m)] # 1
      BY <1>0, <1>i, <1>h, <2>1, <2>3 DEF Begun, Traced, BeforeAttest
    <3>2. stage'[k] = "sendRequest" BY <1>0, <2>1 DEF TypeOK
    <3> QED BY <1>i, <1>r, <2>1, <2>3, <3>1, <3>2 DEF Traced
  <2> QED BY <2>2, <2>3
<1>7. CASE MirrorDiagnosis(k) \/ Summarize(k)
  <2>1. /\ UNCHANGED <<answered, handling, handed, worker, posted>>
        /\ \/ stage[k] = "mirroring" /\ stage' = [stage EXCEPT ![k] = "reporting"]
           \/ stage[k] = "reporting" /\ stage' = [stage EXCEPT ![k] = "attesting"]
    BY <1>7 DEF MirrorDiagnosis, Summarize, Step, loopVars, workVars, netVars
  <2>2. Besides(m) BY <1>0, <1>i, <2>1 DEF Besides, BeforeAttest, TypeOK
  <2> QED BY <2>2, TracedBesides
<1>2. CASE SendReturns(k)
  <2>1. /\ UNCHANGED <<answered, handling, handed, worker, posted>>
        /\ \/ stage[k] = "sendRequest" /\ stage' = [stage EXCEPT ![k] = "awaitReceipt"]
           \/ stage[k] = "sendAttestation" /\ stage' = [stage EXCEPT ![k] = "awaitAck"]
    BY <1>2 DEF SendReturns, Step, loopVars, diskVars, workVars, netVars
  <2>2. Besides(m) BY <1>0, <1>i, <2>1 DEF Besides, BeforeAttest, TypeOK
  <2> QED BY <2>2, TracedBesides
<1>3. CASE AcceptReceipt(k)
  <2>1. /\ UNCHANGED <<answered, handling, handed, worker, posted>>
        /\ stage[k] = "awaitReceipt" /\ stage' = [stage EXCEPT ![k] = "mirroring"]
        /\ ExecutionRequest(k) \in answered
    BY <1>3 DEF AcceptReceipt, Step, loopVars, workVars, netVars
  <2>2. CASE m = ExecutionRequest(k)
    BY <1>0, <1>i, <1>n, <2>1, <2>2 DEF Traced, BeforeAttest, TypeOK
  <2>3. CASE m # ExecutionRequest(k)
    <3>1. Besides(m) BY <1>0, <1>i, <2>1, <2>3 DEF Besides, BeforeAttest, TypeOK
    <3> QED BY <3>1, TracedBesides
  <2> QED BY <2>2, <2>3
<1>4. CASE StoreAttestation(k)
  <2>1. /\ UNCHANGED <<answered, handling, handed, worker>> /\ stage[k] = "attesting"
        /\ \/ stage' = [stage EXCEPT ![k] = "done"] /\ posted' = posted
           \/ stage' = [stage EXCEPT ![k] = "sendAttestation"] /\ posted' = posted \cup {AttestationOf(k)}
    BY <1>4 DEF StoreAttestation, Step, Post, loopVars, workVars
  <2>2. CASE m = AttestationOf(k)
    <3>1. m[2] = k /\ stage'[k] \in {"done", "sendAttestation"} BY <1>0, <1>n, <2>1, <2>2 DEF TypeOK
    <3>2. m \notin posted /\ handed[m] # 1 /\ m \notin answered /\ ReplyTo(m) \notin posted
          /\ handed[ReplyTo(m)] # 1
      BY <1>h, <2>1, <2>2, <3>1 DEF Traced, BeforeAttest
    <3> QED BY <1>0, <1>i, <1>r, <2>1, <2>2, <3>1, <3>2 DEF Traced, BeforeAttest, TypeOK
  <2>3. CASE m # AttestationOf(k)
    <3>1. Besides(m) BY <1>0, <1>i, <1>r, <2>1, <2>3 DEF Besides, BeforeAttest, TypeOK
    <3> QED BY <3>1, TracedBesides
  <2> QED BY <2>2, <2>3
<1>5. CASE AttestationAcked(k)
  <2>1. /\ UNCHANGED <<answered, handling, handed, worker, posted>>
        /\ stage[k] = "awaitAck" /\ stage' = [stage EXCEPT ![k] = "done"]
        /\ AttestationOf(k) \in answered
    BY <1>5 DEF AttestationAcked, Step, loopVars, diskVars, workVars, netVars
  <2>2. CASE m = AttestationOf(k)
    BY <1>0, <1>i, <1>n, <2>1, <2>2 DEF Traced, BeforeAttest, TypeOK
  <2>3. CASE m # AttestationOf(k)
    <3>1. Besides(m) BY <1>0, <1>i, <2>1, <2>3 DEF Besides, BeforeAttest, TypeOK
    <3> QED BY <3>1, TracedBesides
  <2> QED BY <2>2, <2>3
<1> QED BY <1>1, <1>2, <1>3, <1>4, <1>5, <1>6, <1>7 DEF Proceed

LEMMA LoopTraced ==
    ASSUME TypeInv, JobInv, NEW m \in Requests, Traced(m), NEW d \in Daemons, LoopStep(d)
    PROVE  Traced(m)'
<1>0. TypeOK /\ LoopInv(d) /\ Worked(m[2]) /\ m[2] \in Jobs BY ReplyNames DEF TypeInv, JobInv
<1>m. m \in Messages /\ ReplyTo(m) \in Messages /\ m # NoMsg BY ReplyNames
<1>s. stage' = stage /\ worker' = worker
  BY DEF LoopStep, TakeRequest, TakeAttestation, TakeReply, TaskFails, TaskSucceeds, Diagnosed,
     SignFailure, Sign,
     ReplyReturns, diskVars, workVars
<1>i. InCall(m)' <=> InCall(m) BY <1>s DEF InCall, Sending, Waiting, Call
<1>1. ASSUME NEW k \in Jobs, TakeRequest(d, k) PROVE Traced(m)'
  <2>0. PICK n \in Requests : n = ExecutionRequest(k) /\ n[2] = k BY NameTypes
  <2>1. /\ d = worker[k] /\ handling[d] = NoMsg /\ n \in posted /\ UNCHANGED <<answered, posted>>
        /\ handling' = [handling EXCEPT ![d] = n] /\ handed' = [handed EXCEPT ![n] = 1]
    BY <1>0, <1>1, <2>0 DEF TakeRequest, Idle, Busy, Net!Hand, TypeOK
  <2>2. CASE m = n
    BY <1>0, <1>m, <1>s, <1>i, <2>0, <2>1, <2>2, ReplyNames DEF Traced, TypeOK
  <2>3. CASE m # n
    <3>1. ReplyTo(m) # n BY ReplyNames
    <3>2. Besides(m) BY <1>0, <1>m, <1>s, <1>i, <2>1, <2>3, <3>1 DEF Besides, TypeOK
    <3> QED BY <3>2, TracedBesides
  <2> QED BY <2>2, <2>3
<1>2. ASSUME NEW k \in Jobs, TakeAttestation(d, k) PROVE Traced(m)'
  <2>0. PICK n \in Requests : n = AttestationOf(k) /\ n[2] = k /\ ReplyTo(n) = AttestationAck(k) BY NameTypes
  <2>1. /\ d = worker[k] /\ handling[d] = NoMsg /\ n \in posted /\ UNCHANGED answered
        /\ handling' = [handling EXCEPT ![d] = n] /\ handed' = [handed EXCEPT ![n] = 1]
        /\ posted' = posted \cup {ReplyTo(n)}
    BY <1>0, <1>2, <2>0 DEF TakeAttestation, Idle, Busy, Net!Hand, Post, TypeOK
  <2>r. ReplyTo(m) # n /\ ReplyTo(n) # m /\ (ReplyTo(m) = ReplyTo(n) => m = n) BY ReplyNames
  <2>2. CASE m = n
    BY <1>0, <1>m, <1>s, <1>i, <2>0, <2>1, <2>r, <2>2 DEF Traced, TypeOK
  <2>3. CASE m # n
    <3>2. Besides(m) BY <1>0, <1>m, <1>s, <1>i, <2>1, <2>r, <2>3 DEF Besides, TypeOK
    <3> QED BY <3>2, TracedBesides
  <2> QED BY <2>2, <2>3
<1>3. ASSUME NEW n \in Requests, TakeReply(d, n) PROVE Traced(m)'
  <2>1. /\ ReplyTo(n) \in posted /\ UNCHANGED <<handling, posted>>
        /\ handed' = [handed EXCEPT ![ReplyTo(n)] = 1]
        /\ answered' = IF Pending(n) THEN answered \cup {n} ELSE answered
    BY <1>0, <1>3 DEF TakeReply, Net!Hand, TypeOK, loopVars, diskVars
  <2>r. ReplyTo(n) # m /\ (ReplyTo(m) = ReplyTo(n) => m = n) /\ ReplyTo(n) \in Messages BY ReplyNames
  <2>2. CASE m = n
    <3>1. m \in posted /\ (m \in answered \/ Pending(m)) BY <2>1, <2>2, InCallIs DEF Traced
    <3>2. m \in answered' BY <2>1, <2>2, <3>1
    <3> QED BY <1>0, <1>m, <1>s, <1>i, <2>1, <2>r, <2>2, <3>1, <3>2 DEF Traced, TypeOK
  <2>3. CASE m # n
    <3>2. Besides(m) BY <1>0, <1>m, <1>s, <1>i, <2>1, <2>r, <2>3 DEF Besides, TypeOK
    <3> QED BY <3>2, TracedBesides
  <2> QED BY <2>2, <2>3
<1>4. CASE TaskSucceeds(d) \/ SignFailure(d)
  <2>0. PICK k \in Jobs : handling[d] = ExecutionRequest(k)
    BY <1>0, <1>4 DEF TaskSucceeds, SignFailure, Turn, LoopInv
  <2>n. PICK n \in Requests : n = handling[d] BY <2>0, NameTypes
  <2>1. posted' = posted \cup {ReplyTo(n)} /\ UNCHANGED <<answered, handed, handling>>
    BY <1>4, <2>n DEF TaskSucceeds, SignFailure, Sign, Post, Turn
  <2>r. ReplyTo(n) # m /\ (ReplyTo(m) = ReplyTo(n) => m = n) BY ReplyNames
  <2>2. CASE m = n
    <3>1. m[2] = k BY <2>0, <2>n, <2>2, NameTypes
    <3>2. m \in posted BY <1>0, <2>0, <2>n, <2>2, <3>1 DEF Worked
    <3> QED BY <1>s, <1>i, <2>1, <2>r, <2>2, <3>2 DEF Traced
  <2>3. CASE m # n
    <3>2. Besides(m) BY <1>s, <1>i, <2>1, <2>r, <2>3 DEF Besides
    <3> QED BY <3>2, TracedBesides
  <2> QED BY <2>2, <2>3
<1>5. CASE TaskFails(d) \/ Diagnosed(d)
  <2>1. UNCHANGED <<answered, posted, handed, handling>> BY <1>5 DEF TaskFails, Diagnosed, Turn, netVars
  <2>2. Besides(m) BY <1>s, <1>i, <2>1 DEF Besides
  <2> QED BY <2>2, TracedBesides
<1>6. CASE ReplyReturns(d)
  <2>1. /\ UNCHANGED <<answered, posted, handed>> /\ handling' = [handling EXCEPT ![d] = NoMsg]
        /\ handling[d] = m => ReplyTo(m) \in posted
    BY <1>0, <1>6 DEF ReplyReturns, Busy, netVars, TypeOK
  <2>2. Besides(m) BY <1>0, <1>s, <1>i, <2>1 DEF Besides, TypeOK
  <2> QED BY <2>2, TracedBesides
<1> QED BY <1>1, <1>2, <1>3, <1>4, <1>5, <1>6, NameTypes DEF LoopStep

(* Nothing posted is taken back, and a loop that begins to reply posts. *)
LEMMA ReplyingStep ==
    ASSUME TypeInv, \A d \in Daemons : Replying(d), [Next]_vars
    PROVE  \A d \in Daemons : Replying(d)'
<1>0. TypeOK BY DEF TypeInv
<1>1. CASE UNCHANGED loopVars /\ posted \subseteq posted'
  BY <1>1 DEF Replying, loopVars
<1>2. ASSUME NEW d \in Daemons, NEW n, NEW what, Busy(d, n, what), posted \subseteq posted',
             what = "replying" => ReplyTo(n) \in posted'
      PROVE  \A x \in Daemons : Replying(x)'
  BY <1>0, <1>2 DEF Busy, Replying, TypeOK
<1>3. ASSUME NEW k \in Jobs,
             (\E w \in Workers[k] : RequestJob(k, w)) \/ Proceed(k) \/ CallFails(k) \/ SummaryFails(k)
      PROVE  UNCHANGED loopVars /\ posted \subseteq posted'
  BY <1>3 DEF RequestJob, Proceed, SendRequest, SendReturns, AcceptReceipt, MirrorDiagnosis, Summarize,
     StoreAttestation, AttestationAcked, CallFails, SummaryFails, Post, Fault, diskVars, netVars
<1>4. ASSUME NEW d \in Daemons, NEW k \in Jobs, TakeRequest(d, k) \/ TakeAttestation(d, k)
      PROVE  \A x \in Daemons : Replying(x)'
  <2>1. CASE TakeRequest(d, k)
    BY <1>2, <2>1 DEF TakeRequest
  <2>2. CASE TakeAttestation(d, k)
    <3>1. ReplyTo(AttestationOf(k)) \in posted' /\ posted \subseteq posted' /\ Busy(d, AttestationOf(k), "replying")
      BY <2>2, NameTypes DEF TakeAttestation, Post
    <3> QED BY <1>2, <3>1
  <2> QED BY <1>4, <2>1, <2>2
<1>5. ASSUME NEW d \in Daemons, TaskSucceeds(d) \/ SignFailure(d) \/ Diagnosed(d) \/ TaskFails(d)
      PROVE  \A x \in Daemons : Replying(x)'
  <2>1. /\ handling' = handling /\ posted \subseteq posted'
        /\ \/ doing' = [doing EXCEPT ![d] = "replying"] /\ ReplyTo(handling[d]) \in posted'
           \/ \E what \in {"diagnosing", "signing"} : doing' = [doing EXCEPT ![d] = what]
    BY <1>5 DEF TaskSucceeds, SignFailure, Diagnosed, TaskFails, Turn, Sign, Post, netVars
  <2> QED BY <1>0, <2>1 DEF Replying, TypeOK
<1>6. ASSUME NEW d \in Daemons, ReplyReturns(d) \/ HandlingFails(d) \/ Crash(d)
      PROVE  \A x \in Daemons : Replying(x)'
  <2>1. Busy(d, NoMsg, "nothing") /\ posted' = posted
    BY <1>6 DEF ReplyReturns, HandlingFails, Crash, Fault, diskVars, netVars
  <2> QED BY <1>2, <2>1
<1>7. ASSUME NEW d \in Daemons, ImportAttestation(d) \/ Restart(d) \/ \E n : TakeReply(d, n)
      PROVE  UNCHANGED loopVars /\ posted \subseteq posted'
  BY <1>7 DEF ImportAttestation, Restart, Started, TakeReply, memVars, netVars
<1>8. ASSUME UNCHANGED vars \/ \E n \in Messages : Transmit(n) \/ Lose(n)
      PROVE  UNCHANGED loopVars /\ posted \subseteq posted'
  BY <1>8 DEF vars, Transmit, Lose, Fault, memVars, netVars
<1> QED BY <1>1, <1>3, <1>4, <1>5, <1>6, <1>7, <1>8 DEF Next, LoopStep

LEMMA TraceInvStep == TypeInv /\ JobInv /\ TraceInv /\ [Next]_vars => TraceInv'
<1> SUFFICES ASSUME TypeInv, JobInv, TraceInv, [Next]_vars PROVE TraceInv'
  OBVIOUS
<1>1. faults \in Nat /\ crashes \in Nat /\ \A d \in Daemons : Replying(d) BY DEF TraceInv
<1>2. \A d \in Daemons : Replying(d)' BY <1>1, ReplyingStep
<1>3. CASE UNCHANGED <<faults, crashes>>
  <2> SUFFICES ASSUME faults + crashes = 0, NEW m \in Requests PROVE Traced(m)'
    BY <1>1, <1>2, <1>3 DEF TraceInv
  <2>1. Traced(m) BY DEF TraceInv
  <2>2. ASSUME NEW k \in Jobs, CallFails(k) \/ SummaryFails(k) PROVE FALSE
    BY <1>1, <1>3, <2>2 DEF CallFails, SummaryFails, Fault
  <2>3. ASSUME NEW d \in Daemons, HandlingFails(d) \/ Crash(d) PROVE FALSE
    BY <1>1, <1>3, <2>3 DEF HandlingFails, Crash, Fault
  <2>5. ASSUME NEW n \in Messages, Lose(n) PROVE FALSE
    BY <1>1, <1>3, <2>5 DEF Lose, Fault
  <2>4. CASE \/ UNCHANGED vars \/ \E n \in Messages : Transmit(n)
             \/ \E d \in Daemons : ImportAttestation(d) \/ Restart(d)
    <3>1. UNCHANGED <<stage, worker, answered, handling, posted, handed>>
      BY <2>4 DEF vars, Transmit, Net!Send, ImportAttestation, Restart, Started, memVars, loopVars, diskVars,
         workVars, netVars
    <3>2. InCall(m)' <=> InCall(m) BY <3>1 DEF InCall, Sending, Waiting, Call
    <3> QED BY <2>1, <3>1, <3>2 DEF Traced
  <2> QED BY <2>1, <2>2, <2>3, <2>4, <2>5, RequesterTraced, LoopTraced DEF Next
<1>4. CASE ~UNCHANGED <<faults, crashes>>
  <2>1. \/ faults' = faults + 1 /\ crashes' = crashes
        \/ crashes' = crashes + 1 /\ faults' = faults
    BY <1>4 DEF Next, RequestJob, Proceed, SendRequest, SendReturns, AcceptReceipt, MirrorDiagnosis, Summarize,
       StoreAttestation, AttestationAcked, CallFails, SummaryFails, LoopStep, TakeRequest, TakeAttestation,
       TakeReply, TaskFails, TaskSucceeds, Diagnosed, SignFailure, Sign, ReplyReturns, ImportAttestation,
       HandlingFails, Crash, Restart, Started, Transmit, Lose, Fault, vars, troubles
  <2> QED BY <1>1, <1>2, <2>1 DEF TraceInv
<1> QED BY <1>3, <1>4

(* For any daemons that work for one another in any number of jobs: as long as
   no call, task or daemon failed and no message was lost, the message or the
   result that a request_job waits for exists. *)
THEOREM NobodyWaits == Spec => []NobodyWaitsInVain
<1>1. Init => TraceInv
  <2> SUFFICES ASSUME Init PROVE TraceInv
    OBVIOUS
  <2>1. ASSUME NEW m \in Requests PROVE Traced(m)
    BY ReplyNames, InCallIs DEF Init, Net!CInit, Traced
  <2> QED BY <2>1 DEF Init, TraceInv, Replying
<1>2. TypeInv /\ JobInv /\ TraceInv => NobodyWaitsInVain
  <2> SUFFICES ASSUME TypeInv, JobInv, TraceInv, faults + crashes = 0, NEW m \in Requests, Pending(m)
               PROVE  \/ m \in posted /\ handed[m] = 0
                      \/ handling[worker[m[2]]] = m /\ doing[worker[m[2]]] # "replying"
                      \/ ReplyTo(m) \in posted /\ handed[ReplyTo(m)] = 0
    BY DEF NobodyWaitsInVain
  <2>1. Traced(m) /\ InCall(m) /\ m \notin answered BY InCallIs DEF TraceInv
  <2>2. handed[m] \in {0, 1} /\ handed[ReplyTo(m)] \in {0, 1} BY ReplyNames DEF TypeInv, TypeOK
  <2>3. m \in posted /\ handed[ReplyTo(m)] = 0 BY <2>1, <2>2 DEF Traced
  <2>4. worker[m[2]] \in Daemons
    <3>1. m[2] \in Jobs /\ stage[m[2]] # "idle" BY <2>1, ReplyNames, InCallIs
    <3> QED BY <3>1, JobDispatchAssumption DEF JobInv, Begun
  <2>5. Replying(worker[m[2]]) BY <2>4 DEF TraceInv
  <2> QED BY <2>1, <2>2, <2>3, <2>5 DEF Traced, Replying
<1> QED BY <1>1, <1>2, TraceInvStep, AlwaysTypeInv, AlwaysJobInv, PTL DEF Spec

-----------------------------------------------------------------------------
(* No receipt is forgotten. *)

(* request_job has the receipt and has not come to store_attestation. *)
ToAttest == {"mirroring", "reporting", "attesting"}

(* A receipt in the log of a running requester is attested there, unless its
   request_job is about to do so or its summary raised: a crash in between is
   made up for by the startup. *)
NoReceiptForgotten ==
    \A j \in Jobs :
        ExecutionReceipt(j) \in log[Requester[j]] /\ up[Requester[j]]
            => Attested(Requester[j], j) \/ stage[j] \in ToAttest \cup {"unreported"}

(* Attestations stay. *)
LEMMA AttestsGrow ==
    ASSUME TypeInv, [Next]_vars, NEW d \in Daemons
    PROVE  attests[d] \subseteq attests'[d]
<1>1. attests' = attests \/ \E x \in Daemons : \E new : attests' = [attests EXCEPT ![x] = @ \cup new]
  <2>1. ASSUME NEW j \in Jobs,
               \/ \E w \in Workers[j] : RequestJob(j, w)
               \/ Proceed(j) \/ CallFails(j) \/ SummaryFails(j)
        PROVE  attests' = attests \/ \E new : attests' = [attests EXCEPT ![Requester[j]] = @ \cup new]
    BY <2>1 DEF RequestJob, Proceed, SendRequest, SendReturns, AcceptReceipt, MirrorDiagnosis, Summarize,
       StoreAttestation, AttestationAcked, CallFails, SummaryFails, Fault, diskVars
  <2>2. ASSUME NEW x \in Daemons, LoopStep(x)
        PROVE  attests' = attests \/ \E new : attests' = [attests EXCEPT ![x] = @ \cup new]
    BY <2>2 DEF LoopStep, TakeRequest, TakeAttestation, TakeReply, TaskFails, TaskSucceeds,
       Diagnosed, SignFailure, Sign,
       ReplyReturns, diskVars
  <2>3. ASSUME NEW x \in Daemons, ImportAttestation(x) \/ HandlingFails(x) \/ Crash(x) \/ Restart(x)
        PROVE  attests' = attests \/ \E new : attests' = [attests EXCEPT ![x] = @ \cup new]
    BY <2>3 DEF ImportAttestation, HandlingFails, Fault, Crash, Restart, Backfill, diskVars
  <2>4. ASSUME NEW m \in Messages, Transmit(m) \/ Lose(m) PROVE attests' = attests
    BY <2>4 DEF Transmit, Lose, Fault, diskVars
  <2>5. UNCHANGED vars => attests' = attests BY DEF vars, diskVars
  <2> QED BY <2>1, <2>2, <2>3, <2>4, <2>5, JobDispatchAssumption DEF Next
<1> QED BY <1>1 DEF TypeInv, TypeOK

(* Only request_job brings a receipt into the log of its requester. *)
LEMMA ReceiptIsAccepted ==
    ASSUME TypeInv, JobInv, [Next]_vars, NEW j \in Jobs,
           ExecutionReceipt(j) \notin log[Requester[j]], ExecutionReceipt(j) \in log'[Requester[j]]
    PROVE  stage'[j] = "mirroring"
<1>0. TypeOK /\ Requester[j] \in Daemons BY JobDispatchAssumption DEF TypeInv
<1>1. ASSUME NEW k \in Jobs, AcceptReceipt(k) PROVE stage'[j] = "mirroring"
  <2>1. k = j BY <1>0, <1>1, Names, JobDispatchAssumption DEF AcceptReceipt, Append, TypeOK
  <2> QED BY <1>0, <1>1, <2>1 DEF AcceptReceipt, Step, TypeOK
<1>2. ASSUME NEW k \in Jobs, NEW w \in Workers[k], RequestJob(k, w) PROVE FALSE
  BY <1>0, <1>2, Names DEF RequestJob, Append, TypeOK
<1>3. ASSUME NEW k \in Jobs, SendRequest(k) \/ MirrorDiagnosis(k) \/ Summarize(k) PROVE FALSE
  <2>1. \E e \in SUBSET {ExecutionRequest(k), Diagnosis(k), ReportSummary(k)} :
            log' = [log EXCEPT ![Requester[k]] = @ \cup e]
    BY <1>3 DEF SendRequest, MirrorDiagnosis, Summarize, Append
  <2>2. ExecutionReceipt(j) \notin {ExecutionRequest(k), Diagnosis(k), ReportSummary(k)} BY Names
  <2> QED BY <1>0, <2>1, <2>2 DEF TypeOK
<1>4. ASSUME NEW k \in Jobs,
             \/ SendReturns(k) \/ StoreAttestation(k) \/ AttestationAcked(k)
             \/ CallFails(k) \/ SummaryFails(k)
      PROVE  FALSE
  BY <1>4 DEF SendReturns, StoreAttestation, AttestationAcked, CallFails, SummaryFails, Fault, diskVars
<1>5. ASSUME NEW d \in Daemons, TaskSucceeds(d) \/ Diagnosed(d) \/ SignFailure(d) PROVE FALSE
  <2>1. PICK k \in Jobs : handling[d] = ExecutionRequest(k)
    BY <1>5 DEF TaskSucceeds, Diagnosed, SignFailure, Turn, TypeInv, LoopInv
  <2>2. d = worker[k] /\ handed[ExecutionRequest(k)] = 1 BY <2>1 DEF JobInv, Worked
  <2>3. d # Requester[k]
    <3>1. stage[k] # "idle" BY <2>2 DEF JobInv, Begun, Worked
    <3> QED BY <2>2, <3>1, JobDispatchAssumption DEF JobInv, Begun
  <2>4. handling[d][2] = k BY <2>1, NameTypes
  <2>5. \E e \in SUBSET {Diagnosis(k), ExecutionReceipt(k)} : log' = [log EXCEPT ![d] = @ \cup e]
    BY <1>5, <2>4 DEF TaskSucceeds, Diagnosed, SignFailure, Sign, Append
  <2>6. ExecutionReceipt(j) \in {Diagnosis(k), ExecutionReceipt(k)} /\ d = Requester[j]
    BY <1>0, <2>5 DEF TypeOK
  <2> QED BY <2>3, <2>6, Names
<1>6. ASSUME NEW d \in Daemons, NEW k \in Jobs, TakeRequest(d, k) PROVE FALSE
  BY <1>0, <1>6, Names DEF TakeRequest, Append, TypeOK
<1>7. ASSUME NEW d \in Daemons,
             \/ \E k \in Jobs : \/ TakeAttestation(d, k) \/ TakeReply(d, ExecutionRequest(k))
                                \/ TakeReply(d, AttestationOf(k))
             \/ TaskFails(d) \/ ReplyReturns(d)
             \/ ImportAttestation(d) \/ HandlingFails(d) \/ Crash(d) \/ Restart(d)
      PROVE  FALSE
  BY <1>7 DEF TakeAttestation, TakeReply, TaskFails, ReplyReturns, ImportAttestation, HandlingFails, Fault,
     Crash, Restart, Started, diskVars
<1>8. ASSUME NEW m \in Messages, Transmit(m) \/ Lose(m) PROVE FALSE
  BY <1>8 DEF Transmit, Lose, Fault, diskVars
<1>9. ~UNCHANGED vars BY DEF vars, diskVars
<1> QED BY <1>1, <1>2, <1>3, <1>4, <1>5, <1>6, <1>7, <1>8, <1>9 DEF Next, Proceed, LoopStep

(* The requester's request_job ends only by attesting, by an exception or by
   a crash, and a startup attests what it finds. *)
LEMMA StaysRemembered ==
    ASSUME TypeInv, NoReceiptForgotten, [Next]_vars, NEW j \in Jobs,
           ExecutionReceipt(j) \in log[Requester[j]], up'[Requester[j]]
    PROVE  Attested(Requester[j], j)' \/ stage'[j] \in ToAttest \cup {"unreported"}
<1> DEFINE d == Requester[j]
<1>0. TypeOK /\ d \in Daemons BY JobDispatchAssumption DEF TypeInv
<1>1. CASE Attested(d, j)
  BY <1>0, <1>1, AttestsGrow DEF Attested
<1>2. CASE /\ up[d] /\ stage[j] \in ToAttest \cup {"unreported"}
           /\ stage'[j] \notin ToAttest \cup {"unreported"}
  <2>1. ASSUME NEW k \in Jobs, StoreAttestation(k) PROVE Attested(d, j)'
    <3>1. k = j BY <1>0, <1>2, <2>1 DEF StoreAttestation, Step, TypeOK
    <3>2. CASE Attested(d, j) BY <1>0, <3>2, AttestsGrow DEF Attested
    <3>3. CASE ~Attested(d, j)
      <4>1. Attest(j, d, "request_job") \in attests'[d]
        BY <1>0, <2>1, <3>1, <3>3 DEF StoreAttestation, TypeOK
      <4> QED BY <4>1 DEF Attested, Attest
    <3> QED BY <3>2, <3>3
  <2>2. ASSUME NEW k \in Jobs,
               \/ \E w \in Workers[k] : RequestJob(k, w)
               \/ SendRequest(k) \/ SendReturns(k) \/ AcceptReceipt(k) \/ MirrorDiagnosis(k) \/ Summarize(k)
               \/ AttestationAcked(k) \/ CallFails(k) \/ SummaryFails(k)
        PROVE  FALSE
    BY <1>0, <1>2, <2>2 DEF RequestJob, SendRequest, SendReturns, AcceptReceipt, MirrorDiagnosis, Summarize,
       AttestationAcked, CallFails, SummaryFails, Step, Sending, Waiting, ToAttest, TypeOK
  <2>3. ASSUME NEW x \in Daemons, LoopStep(x) \/ ImportAttestation(x) \/ HandlingFails(x) \/ Restart(x)
        PROVE  FALSE
    BY <1>2, <2>3 DEF LoopStep, TakeRequest, TakeAttestation, TakeReply, TaskFails, TaskSucceeds, Diagnosed,
       SignFailure, Sign, ReplyReturns, ImportAttestation, HandlingFails, Restart, Started, memVars
  <2>4. ASSUME NEW x \in Daemons, Crash(x) PROVE FALSE
    BY <1>0, <1>2, <2>4 DEF Crash, TypeOK
  <2>5. ASSUME NEW m \in Messages, Transmit(m) \/ Lose(m) PROVE FALSE
    BY <1>2, <2>5 DEF Transmit, Lose, memVars
  <2>6. ~UNCHANGED vars BY <1>2 DEF vars, memVars
  <2> QED BY <2>1, <2>2, <2>3, <2>4, <2>5, <2>6 DEF Next, Proceed
<1>3. CASE ~up[d]
  <2>1. PICK x \in Daemons : Restart(x) /\ x = d
    <3>1. ASSUME NEW x \in Daemons, Restart(x) PROVE x = d
      BY <1>0, <1>3, <3>1 DEF Restart, Started, TypeOK
    <3>2. ASSUME NEW x \in Daemons, Crash(x) PROVE FALSE
      BY <1>0, <1>3, <3>2 DEF Crash, TypeOK
    <3>3. \/ up' = up \/ \E x \in Daemons : Restart(x) \/ Crash(x)
      BY DEF Next, RequestJob, Proceed, SendRequest, SendReturns, AcceptReceipt, MirrorDiagnosis, Summarize,
         StoreAttestation, AttestationAcked, CallFails, SummaryFails, LoopStep, TakeRequest, TakeAttestation,
         TakeReply, TaskFails, TaskSucceeds, Diagnosed, SignFailure, Sign, ReplyReturns, ImportAttestation,
         HandlingFails, Transmit, Lose, Fault, vars, memVars
    <3> QED BY <1>3, <3>1, <3>2, <3>3
  <2>2. CASE Attested(d, j) BY <1>1, <2>2
  <2>3. CASE ~Attested(d, j)
    <3>1. Attest(j, d, "startup") \in attests'[d]
      BY <1>0, <2>1, <2>3 DEF Restart, Backfill, TypeOK
    <3> QED BY <3>1 DEF Attested, Attest
  <2> QED BY <2>2, <2>3
<1> QED BY <1>1, <1>2, <1>3 DEF NoReceiptForgotten

(* In every state a receipt that a requester has accepted is attested, or its
   attestation is the next step of request_job or of the startup, except where
   the summary raised.  EventuallyAttested adds that this step is taken. *)
THEOREM NothingForgotten == Spec => []NoReceiptForgotten
<1>1. Init => NoReceiptForgotten
  BY JobDispatchAssumption DEF Init, NoReceiptForgotten
<1>2. TypeInv /\ JobInv /\ NoReceiptForgotten /\ [Next]_vars => NoReceiptForgotten'
  <2> SUFFICES ASSUME TypeInv, JobInv, NoReceiptForgotten, [Next]_vars, NEW j \in Jobs,
                      ExecutionReceipt(j) \in log'[Requester[j]], up'[Requester[j]]
               PROVE  Attested(Requester[j], j)' \/ stage'[j] \in ToAttest \cup {"unreported"}
    BY DEF NoReceiptForgotten, Attested
  <2> QED BY ReceiptIsAccepted, StaysRemembered DEF ToAttest
<1> QED BY <1>1, <1>2, AlwaysTypeInv, AlwaysJobInv, PTL DEF Spec
=============================================================================

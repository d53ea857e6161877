-------------------------- MODULE NodeNexusProofs --------------------------
(***************************************************************************)
(* TLAPS proofs about NodeNexus, for any set of requests and any limits.   *)
(* Inv says, request by request, which states of the handler, of the       *)
(* process and of the storage go together; every action touches one        *)
(* request, so each lemma is about one request and the others keep Inv.    *)
(***************************************************************************)
EXTENDS NodeNexus, TLAPS

(* Nothing of a request has happened before its process is started. *)
Untouched(r) == agent[r] = "off" =>
    /\ server[r] \in {"idle", "failed"}
    /\ exit[r] = "none" /\ done[r] = "no" /\ step[r] = 0 /\ misses[r] = 0
    /\ r \notin uploaded

(* The loop runs only below its limits; what it leaves behind when it ends. *)
InTheLoop(r) == agent[r] = "steps" => step[r] < MaxSteps /\ misses[r] < MaxFailures
AtWork(r) == /\ agent[r] \in {"steps", "evidence"} => exit[r] = "none"
             /\ agent[r] = "evidence" => Succeeds(done[r])
             /\ exit[r] = "good" => Succeeds(done[r])

(* The handler waits for the process, and only a good one leads on. *)
HandlerWaits(r) == /\ server[r] = "idle" => agent[r] = "off"
                   /\ server[r] = "failed" => agent[r] \in {"off", "exited"}
                   /\ server[r] \in {"uploading", "ok"} \/ r \in uploaded
                         => agent[r] = "exited" /\ exit[r] = "good"

Coherent(r) == Untouched(r) /\ InTheLoop(r) /\ AtWork(r) /\ HandlerWaits(r)
Inv == TypeOK /\ \A r \in Requests : Coherent(r)

(* What the action A of a request does to the variables of the others. *)
OthersKeep(r) == \A q \in Requests \ {r} :
    /\ server'[q] = server[q] /\ agent'[q] = agent[q] /\ exit'[q] = exit[q]
    /\ step'[q] = step[q] /\ misses'[q] = misses[q] /\ done'[q] = done[q]
    /\ (q \in uploaded' <=> q \in uploaded)

LEMMA OthersCoherent ==
    ASSUME Inv, NEW r \in Requests, OthersKeep(r), TypeOK', Coherent(r)'
    PROVE  Inv'
<1>1. ASSUME NEW q \in Requests PROVE Coherent(q)'
  <2>1. CASE q = r BY <2>1
  <2>2. CASE q # r
    <3>1. Coherent(q) BY DEF Inv
    <3> QED BY <2>2, <3>1 DEF OthersKeep, Coherent, Untouched, InTheLoop, AtWork, HandlerWaits, Succeeds
  <2> QED BY <2>1, <2>2
<1> QED BY <1>1 DEF Inv

LEMMA InitInv == Init => Inv
BY LimitsAssumption DEF Init, Inv, TypeOK, Coherent, Untouched, InTheLoop, AtWork, HandlerWaits, Succeeds

LEMMA OutcomeType ==
    ASSUME NEW r \in Requests, NEW reply \in Replies
    PROVE  Outcome(r, reply) \in {"no", "success", "rewritten", "failure"}
BY DEF Outcome

(* One step of the loop, whatever it did: the variables ReplyRead and the
   website have a say in do not occur in Coherent. *)
LEMMA PageType ==
    ASSUME TypeOK, NEW r \in Requests, PageChanges(r)
    PROVE  onResults' \in [Requests -> BOOLEAN]
BY DEF TypeOK, PageChanges

LEMMA StepTakenInv ==
    ASSUME Inv, NEW r \in Requests,
           NEW outcome \in {"no", "success", "rewritten", "failure"},
           NEW failures \in 0..MaxFailures, StepTaken(r, outcome, failures),
           drifts' \in [Requests -> 0..(MaxDrifts - 1)],
           seen' \in [Requests -> BOOLEAN]
    PROVE  Inv'
<1> USE LimitsAssumption
<1>0. TypeOK /\ Coherent(r) BY DEF Inv
<1>1. step[r] < MaxSteps /\ step[r] \in Nat /\ exit[r] = "none"
  BY <1>0 DEF Coherent, InTheLoop, AtWork, StepTaken, TypeOK
<1>2. step' \in [Requests -> 0..MaxSteps] BY <1>0, <1>1 DEF StepTaken, TypeOK
<1>3. misses' \in [Requests -> 0..MaxFailures] BY <1>0 DEF StepTaken, TypeOK
<1>3a. onResults' \in [Requests -> BOOLEAN] BY <1>0, PageType DEF StepTaken
<1>4. TypeOK' /\ OthersKeep(r)
  <2>1. CASE LoopEnds(r, outcome, failures)
    BY <1>0, <1>2, <1>3, <1>3a, <2>1 DEF LoopEnds, StepTaken, TypeOK, OthersKeep, Succeeds
  <2>2. CASE LoopGoesOn(r, outcome, failures)
    BY <1>0, <1>2, <1>3, <1>3a, <2>2 DEF LoopGoesOn, StepTaken, TypeOK, OthersKeep
  <2> QED BY <2>1, <2>2 DEF StepTaken
<1>5. Coherent(r)'
  <2>1. CASE LoopEnds(r, outcome, failures)
    BY <1>0, <1>1, <2>1 DEF LoopEnds, StepTaken, TypeOK, Succeeds,
       Coherent, Untouched, InTheLoop, AtWork, HandlerWaits
  <2>2. CASE LoopGoesOn(r, outcome, failures)
    BY <1>0, <1>1, <2>2 DEF LoopGoesOn, StepTaken, TypeOK, Succeeds,
       Coherent, Untouched, InTheLoop, AtWork, HandlerWaits
  <2> QED BY <2>1, <2>2 DEF StepTaken
<1> QED BY <1>4, <1>5, OthersCoherent

LEMMA ReplyReadType ==
    ASSUME TypeOK, NEW r \in Requests, NEW reply \in Replies, ReplyRead(r, reply)
    PROVE  /\ drifts' \in [Requests -> 0..(MaxDrifts - 1)]
           /\ seen' \in [Requests -> BOOLEAN]
<1>1. \A d \in Nat : d % MaxDrifts \in 0..(MaxDrifts - 1) BY LimitsAssumption
<1>2. drifts[r] + 1 \in Nat BY LimitsAssumption DEF TypeOK
<1>3. (drifts[r] + 1) % MaxDrifts \in 0..(MaxDrifts - 1) BY <1>1, <1>2
<1>4. 0 \in 0..(MaxDrifts - 1) BY LimitsAssumption
<1>5. drifts' \in [Requests -> 0..(MaxDrifts - 1)] BY <1>3, <1>4 DEF ReplyRead, TypeOK
<1>6. seen' \in [Requests -> BOOLEAN] BY DEF ReplyRead, TypeOK
<1> QED BY <1>5, <1>6

LEMMA LoopInv ==
    ASSUME Inv, NEW r \in Requests,
           \/ \E reply \in Replies : AgentStep(r, reply) \/ ActionFails(r, reply)
           \/ ModelFails(r)
    PROVE  Inv'
<1>0. TypeOK /\ Coherent(r) BY DEF Inv
<1>1. ASSUME NEW reply \in Replies, AgentStep(r, reply) PROVE Inv'
  <2>1. StepTaken(r, Outcome(r, reply), 0) /\ ReplyRead(r, reply) BY <1>1 DEF AgentStep
  <2>2. 0 \in 0..MaxFailures BY LimitsAssumption
  <2> QED BY <1>0, <2>1, <2>2, ReplyReadType, OutcomeType, StepTakenInv
<1>2. StepTaken(r, "no", misses[r] + 1) => misses[r] + 1 \in 0..MaxFailures
  BY <1>0, LimitsAssumption DEF StepTaken, Coherent, InTheLoop, TypeOK
<1>3. ASSUME NEW reply \in Replies, ActionFails(r, reply) PROVE Inv'
  <2>1. StepTaken(r, "no", misses[r] + 1) /\ ReplyRead(r, reply) BY <1>3 DEF ActionFails
  <2> QED BY <1>0, <1>2, <2>1, ReplyReadType, StepTakenInv
<1>4. CASE ModelFails(r)
  <2>1. StepTaken(r, "no", misses[r] + 1) BY <1>4 DEF ModelFails
  <2>2. /\ drifts' \in [Requests -> 0..(MaxDrifts - 1)]
        /\ seen' \in [Requests -> BOOLEAN]
    BY <1>0, <1>4 DEF ModelFails, TypeOK
  <2> QED BY <1>2, <2>1, <2>2, StepTakenInv
<1> QED BY <1>1, <1>3, <1>4

(* The end of the process: evidence, report, session, or a kill. *)
LEMMA EndInv ==
    ASSUME Inv, NEW r \in Requests,
           \/ RunAborts(r) \/ ReportRendered(r) \/ SessionStops(r)
           \/ StopFails(r) \/ AgentKilled(r)
    PROVE  Inv'
<1>0. TypeOK /\ Coherent(r) BY DEF Inv
<1> USE DEF TypeOK, OthersKeep, Succeeds, Coherent, Untouched, InTheLoop, AtWork, HandlerWaits
<1>1. CASE RunAborts(r)
  <2>1. TypeOK' /\ OthersKeep(r) /\ Coherent(r)' BY <1>0, <1>1 DEF RunAborts
  <2> QED BY <2>1, OthersCoherent
<1>2. CASE ReportRendered(r)
  <2>1. TypeOK' /\ OthersKeep(r) /\ Coherent(r)' BY <1>0, <1>2 DEF ReportRendered
  <2> QED BY <2>1, OthersCoherent
<1>3. CASE SessionStops(r)
  <2>1. TypeOK' /\ OthersKeep(r) /\ Coherent(r)' BY <1>0, <1>3 DEF SessionStops, agentVars
  <2> QED BY <2>1, OthersCoherent
<1>4. CASE StopFails(r)
  <2>1. TypeOK' /\ OthersKeep(r) /\ Coherent(r)' BY <1>0, <1>4 DEF StopFails
  <2> QED BY <2>1, OthersCoherent
<1>5. CASE AgentKilled(r)
  <2>1. TypeOK' /\ OthersKeep(r) /\ Coherent(r)' BY <1>0, <1>5 DEF AgentKilled
  <2> QED BY <2>1, OthersCoherent
<1> QED BY <1>1, <1>2, <1>3, <1>4, <1>5

LEMMA ServerInv ==
    ASSUME Inv, NEW r \in Requests,
           Server(r) \/ AgentCollected(r)
    PROVE  Inv'
<1>0. TypeOK /\ Coherent(r) BY DEF Inv
<1> USE LimitsAssumption DEF TypeOK, OthersKeep, Succeeds, Coherent, Untouched, InTheLoop, AtWork,
       HandlerWaits, agentVars
<1>1. CASE Execute(r)
  <2>0. onResults' \in [Requests -> BOOLEAN] BY <1>0, <1>1, PageType DEF Execute
  <2>1. TypeOK' /\ OthersKeep(r) BY <1>0, <1>1, <2>0 DEF Execute
  <2>2. Coherent(r)' BY <1>0, <1>1 DEF Execute
  <2> QED BY <2>1, <2>2, OthersCoherent
<1>2. CASE Refuse(r)
  <2>1. TypeOK' /\ OthersKeep(r) /\ Coherent(r)' BY <1>0, <1>2 DEF Refuse
  <2> QED BY <2>1, OthersCoherent
<1>3. CASE AgentCollected(r)
  <2>1. TypeOK' /\ OthersKeep(r) /\ Coherent(r)' BY <1>0, <1>3 DEF AgentCollected
  <2> QED BY <2>1, OthersCoherent
<1>4. CASE UploadDone(r)
  <2>1. TypeOK' /\ OthersKeep(r) /\ Coherent(r)' BY <1>0, <1>4 DEF UploadDone
  <2> QED BY <2>1, OthersCoherent
<1>5. CASE UploadFails(r)
  <2>1. TypeOK' /\ OthersKeep(r) /\ Coherent(r)' BY <1>0, <1>5 DEF UploadFails
  <2> QED BY <2>1, OthersCoherent
<1> QED BY <1>1, <1>2, <1>3, <1>4, <1>5 DEF Server

LEMMA StepInv == Inv /\ [Next]_vars => Inv'
<1>1. ASSUME Inv, NEW r \in Requests, Agent(r) \/ Server(r) \/ ExecFile(r) PROVE Inv'
  BY <1>1, LoopInv, EndInv, ServerInv DEF Agent, ExecFile
<1>2. ASSUME Inv, UNCHANGED vars PROVE Inv'
  BY <1>2 DEF Inv, TypeOK, Coherent, Untouched, InTheLoop, AtWork, HandlerWaits, vars, agentVars, Succeeds
<1> QED BY <1>1, <1>2 DEF Next

LEMMA AlwaysInv == Spec => []Inv
BY InitInv, StepInv, PTL DEF Spec

(* Every variable keeps its type: in particular the counters of the loop,
   of replies off schema and of failures stay within their limits. *)
THEOREM TypeCorrect == Spec => []TypeOK
<1>1. Inv => TypeOK BY DEF Inv
<1> QED BY <1>1, AlwaysInv, PTL

(* server.js does not answer while agent.py is at work, and a report reaches
   0G Storage only after a run that was not killed and has a successful done. *)
THEOREM ReportEarned == Spec => []ReportIsEarned
<1>1. Inv => ReportIsEarned
  BY DEF Inv, TypeOK, ReportIsEarned, Coherent, Untouched, AtWork, HandlerWaits, Succeeds
<1> QED BY <1>1, AlwaysInv, PTL

-----------------------------------------------------------------------------
(* The refinement: what an action does to the run of its own request is all
   that the abstract specification sees of the process. *)

RunOf == [r \in Requests |-> Run(r)]

LEMMA RunOfOne ==
    ASSUME Inv, NEW r \in Requests,
           \A q \in Requests \ {r} : agent'[q] = agent[q] /\ exit'[q] = exit[q]
    PROVE  RunOf' = [RunOf EXCEPT ![r] = Run(r)']
<1>1. ASSUME NEW q \in Requests \ {r} PROVE Run(q)' = Run(q) BY DEF Run
<1> QED BY <1>1 DEF RunOf

LEMMA RunOfSame ==
    ASSUME Inv, NEW r \in Requests, Run(r)' = Run(r),
           \A q \in Requests \ {r} : agent'[q] = agent[q] /\ exit'[q] = exit[q]
    PROVE  RunOf' = RunOf
<1>1. ASSUME NEW q \in Requests PROVE Run(q)' = Run(q) BY DEF Run
<1> QED BY <1>1 DEF RunOf

LEMMA InitMaps == Init => Promise!RunInit
BY DEF Init, Promise!RunInit, Run

(* The steps of the loop, the report and an aborted run are stutters: the
   process was running and still is. *)
LEMMA WorkMaps ==
    ASSUME Inv, NEW r \in Requests,
           \/ \E reply \in Replies : AgentStep(r, reply) \/ ActionFails(r, reply)
           \/ ModelFails(r) \/ RunAborts(r) \/ ReportRendered(r)
    PROVE  UNCHANGED Promise!runVars
<1>0. TypeOK BY DEF Inv
<1>1. ASSUME NEW outcome, NEW failures, StepTaken(r, outcome, failures)
      PROVE  /\ UNCHANGED <<server, uploaded>>
             /\ agent[r] = "steps" /\ agent'[r] \in {"steps", "evidence", "stopping"}
             /\ \A q \in Requests \ {r} : agent'[q] = agent[q] /\ exit'[q] = exit[q]
  BY <1>0, <1>1 DEF StepTaken, LoopEnds, LoopGoesOn, TypeOK
<1>2. CASE RunAborts(r) \/ ReportRendered(r)
  <2>1. /\ UNCHANGED <<server, uploaded>>
        /\ agent[r] \in {"steps", "evidence"} /\ agent'[r] = "stopping"
        /\ \A q \in Requests \ {r} : agent'[q] = agent[q] /\ exit'[q] = exit[q]
    BY <1>0, <1>2 DEF RunAborts, ReportRendered, TypeOK
  <2>2. Run(r)' = Run(r) BY <2>1 DEF Run
  <2> QED BY <2>1, <2>2, RunOfSame DEF Promise!runVars, RunOf
<1>3. ASSUME NEW outcome, NEW failures, StepTaken(r, outcome, failures)
      PROVE  UNCHANGED Promise!runVars
  <2>1. Run(r)' = Run(r) BY <1>1, <1>3 DEF Run
  <2> QED BY <1>1, <1>3, <2>1, RunOfSame DEF Promise!runVars, RunOf
<1> QED BY <1>2, <1>3 DEF AgentStep, ActionFails, ModelFails

(* The process ends: with SUCCESS, or in any other way. *)
LEMMA EndMaps ==
    ASSUME Inv, NEW r \in Requests,
           SessionStops(r) \/ StopFails(r) \/ AgentKilled(r)
    PROVE  Promise!RunSucceeds(r) \/ Promise!RunFails(r)
<1>0. TypeOK BY DEF Inv
<1>1. /\ agent[r] \in {"steps", "evidence", "stopping"} /\ agent'[r] = "exited"
      /\ \A q \in Requests \ {r} : agent'[q] = agent[q] /\ exit'[q] = exit[q]
      /\ UNCHANGED <<server, uploaded>>
  BY <1>0 DEF SessionStops, StopFails, AgentKilled, agentVars, TypeOK
<1>2. RunOf[r] = "running" /\ RunOf' = [RunOf EXCEPT ![r] = Run(r)']
  BY <1>1, RunOfOne DEF RunOf, Run
<1>3. Run(r)' = IF exit'[r] = "good" THEN "good" ELSE "bad" BY <1>1 DEF Run
<1>4. CASE SessionStops(r)
  BY <1>1, <1>2, <1>3, <1>4 DEF SessionStops, RunOf, Promise!RunSucceeds, Promise!RunFails
<1>5. CASE StopFails(r) \/ AgentKilled(r)
  <2>1. exit'[r] # "good" BY <1>0, <1>5 DEF StopFails, AgentKilled, TypeOK
  <2> QED BY <1>1, <1>2, <1>3, <2>1 DEF RunOf, Promise!RunFails
<1> QED BY <1>4, <1>5

LEMMA HandlerMaps ==
    ASSUME Inv, NEW r \in Requests, Server(r) \/ AgentCollected(r)
    PROVE  \/ Promise!Execute(r) \/ Promise!Refuse(r) \/ Promise!Collected(r)
           \/ Promise!Uploaded(r) \/ Promise!UploadLost(r)
<1>0. TypeOK /\ Coherent(r) BY DEF Inv
<1>1. CASE Execute(r)
  <2>1. /\ agent' = [agent EXCEPT ![r] = "steps"] /\ exit' = exit
        /\ server[r] = "idle" /\ agent[r] = "off"
    BY <1>0, <1>1 DEF Execute, agentVars, Coherent, HandlerWaits
  <2>2. Run(r)' = "running" BY <1>0, <2>1 DEF Run, TypeOK
  <2>3. RunOf' = [RunOf EXCEPT ![r] = "running"] BY <1>0, <2>1, <2>2, RunOfOne DEF TypeOK
  <2> QED BY <1>1, <2>3 DEF Execute, Promise!Execute, RunOf
<1>2. CASE Refuse(r)
  <2>1. RunOf' = RunOf BY <1>2 DEF Refuse, RunOf, Run, agentVars
  <2> QED BY <1>2, <2>1 DEF Refuse, Promise!Refuse, RunOf
<1>3. CASE AgentCollected(r)
  <2>1. RunOf' = RunOf BY <1>3 DEF AgentCollected, RunOf, Run, agentVars
  <2>2. RunOf[r] = IF exit[r] = "good" THEN "good" ELSE "bad"
    BY <1>3 DEF AgentCollected, RunOf, Run
  <2> QED BY <1>3, <2>1, <2>2 DEF AgentCollected, Promise!Collected, RunOf
<1>4. CASE UploadDone(r)
  <2>1. RunOf' = RunOf BY <1>4 DEF UploadDone, RunOf, Run, agentVars
  <2> QED BY <1>4, <2>1 DEF UploadDone, Promise!Uploaded, RunOf
<1>5. CASE UploadFails(r)
  <2>1. RunOf' = RunOf BY <1>5 DEF UploadFails, RunOf, Run, agentVars
  <2> QED BY <1>5, <2>1 DEF UploadFails, Promise!UploadLost, RunOf
<1> QED BY <1>1, <1>2, <1>3, <1>4, <1>5 DEF Server

LEMMA NextMaps == Inv /\ [Next]_vars => [Promise!RunNext]_Promise!runVars
<1>1. ASSUME Inv, NEW r \in Requests, Agent(r) \/ Server(r) \/ ExecFile(r)
      PROVE  Promise!RunNext \/ UNCHANGED Promise!runVars
  <2>1. CASE \/ \E reply \in Replies : AgentStep(r, reply) \/ ActionFails(r, reply)
             \/ ModelFails(r) \/ RunAborts(r) \/ ReportRendered(r)
    BY <1>1, <2>1, WorkMaps
  <2>2. CASE SessionStops(r) \/ StopFails(r) \/ AgentKilled(r)
    BY <1>1, <2>2, EndMaps DEF Promise!RunNext
  <2>3. CASE Server(r) \/ AgentCollected(r)
    BY <1>1, <2>3, HandlerMaps DEF Promise!RunNext
  <2> QED BY <1>1, <2>1, <2>2, <2>3 DEF Agent, ExecFile
<1>2. ASSUME UNCHANGED vars PROVE UNCHANGED Promise!runVars
  BY <1>2 DEF vars, agentVars, Promise!runVars, Run
<1> QED BY <1>1, <1>2 DEF Next

(* The orchestrator keeps the promise of BrowserRun: whatever the model
   replies and whatever fails, "ok" is answered only for an uploaded report of
   a run that ended well. *)
THEOREM KeepsItsPromise == Spec => BrowserRunSpec
BY InitMaps, NextMaps, AlwaysInv, PTL DEF Spec, BrowserRunSpec, Promise!RunSpec
=============================================================================

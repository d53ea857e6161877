-------------------------- MODULE ToolCallsProofs --------------------------
(***************************************************************************)
(* TLAPS proofs about ToolCalls for any set of calls, services and         *)
(* requests and any number of starts and kills.  A step of the composition *)
(* is a step, or a stutter, of the router and of the orchestrator alone,   *)
(* so what is invariant of those is proved from their own actions; the     *)
(* sessions, the tasks and the spans of time follow from the rest.         *)
(***************************************************************************)
EXTENDS ToolCalls, TLAPS

LEMMA EventListsDiffer ==
    /\ << >> # Started /\ << >> # Completed /\ << >> # Failed
    /\ Started # Completed /\ Started # Failed /\ Completed # Failed
<1>1. Len(Started) = 2 /\ Len(Completed) = 4 /\ Len(Failed) = 3 /\ Len(<< >>) = 0
  BY DEF Started, Completed, Failed
<1>2. 2 # 4 /\ 2 # 3 /\ 3 # 4 /\ 0 # 2 /\ 0 # 3 /\ 0 # 4 OBVIOUS
<1> QED BY <1>1, <1>2, Zenon

-----------------------------------------------------------------------------
(* The orchestrator. *)

RunInv == \A r \in Requests : /\ server[r] = "idle" => run[r] = "off"
                              /\ server[r] \in {"uploading", "ok"} => run[r] = "good"
                              /\ server[r] = "ok" => r \in uploaded

LEMMA RunStep == RunTypeOK /\ RunInv /\ [RunNext]_runVars => RunTypeOK' /\ RunInv'
<1> SUFFICES ASSUME RunTypeOK, RunInv, [RunNext]_runVars PROVE RunTypeOK' /\ RunInv'
  OBVIOUS
<1> USE DEF RunTypeOK, RunInv
<1>1. CASE UNCHANGED runVars BY <1>1 DEF runVars
<1>2. ASSUME NEW r \in Requests, Execute(r) \/ Refuse(r) PROVE RunTypeOK' /\ RunInv'
  BY <1>2 DEF Execute, Refuse
<1>3. ASSUME NEW r \in Requests, RunSucceeds(r) \/ RunFails(r) PROVE RunTypeOK' /\ RunInv'
  BY <1>3 DEF RunSucceeds, RunFails
<1>4. ASSUME NEW r \in Requests, Collected(r) PROVE RunTypeOK' /\ RunInv'
  BY <1>4 DEF Collected
<1>5. ASSUME NEW r \in Requests, Uploaded(r) \/ UploadLost(r) PROVE RunTypeOK' /\ RunInv'
  BY <1>5 DEF Uploaded, UploadLost
<1> QED BY <1>1, <1>2, <1>3, <1>4, <1>5 DEF RunNext

-----------------------------------------------------------------------------
(* The router. *)

RouterNext == \/ \E c \in Calls : \/ Forward(c) \/ NotFound(c) \/ NoContent(c)
                                  \/ Answered(c) \/ ServiceFails(c) \/ TimesOut(c)
              \/ \E s \in Services : Register(s) \/ Deregister(s)

RouteInv == \A c \in Calls :
    /\ sawChange[c] <= changes[target[c]]
    /\ route[c] = "crashed" \/ (route[c] = "awaiting" /\ target[c] \notin registered)
           => sawChange[c] < changes[target[c]]

LEMMA RouterStep == RouterTypeOK /\ RouteInv /\ [RouterNext]_routerVars => RouterTypeOK' /\ RouteInv'
<1> SUFFICES ASSUME RouterTypeOK, RouteInv, [RouterNext]_routerVars
             PROVE  RouterTypeOK' /\ RouteInv'
  OBVIOUS
<1> USE DEF RouterTypeOK, RouteInv, Answers
<1>1. CASE UNCHANGED routerVars BY <1>1 DEF routerVars
<1>2. ASSUME NEW c \in Calls, Forward(c) PROVE RouterTypeOK' /\ RouteInv'
  BY <1>2 DEF Forward
<1>3. ASSUME NEW c \in Calls, NotFound(c) \/ NoContent(c) PROVE RouterTypeOK' /\ RouteInv'
  BY <1>3 DEF NotFound, NoContent
<1>4. ASSUME NEW c \in Calls, NEW well \in BOOLEAN, NEW answer \in {"ok", "badService", "timeout"},
             Conclude(c, well, answer)
      PROVE  RouterTypeOK' /\ RouteInv'
  <2>1. CASE target[c] \in registered BY <1>4, <2>1 DEF Conclude
  <2>2. CASE target[c] \notin registered BY <1>4, <2>2 DEF Conclude
  <2> QED BY <2>1, <2>2
<1>5. ASSUME NEW s \in Services, Register(s) PROVE RouterTypeOK' /\ RouteInv'
  BY <1>5 DEF Register
<1>6. ASSUME NEW s \in Services, Deregister(s) PROVE RouterTypeOK' /\ RouteInv'
  BY <1>6 DEF Deregister
<1> QED BY <1>1, <1>2, <1>3, <1>4, <1>5, <1>6 DEF RouterNext, Answered, ServiceFails, TimesOut

-----------------------------------------------------------------------------
(* The composition makes steps of its parts. *)

LEMMA RunPart == [Next]_vars => [RunNext]_runVars
<1>1. ASSUME NEW c \in Calls, ClientNode(c) \/ PeerNode(c) \/ A2AServer(c) \/ Router(c) \/ SpanEnds(c)
      PROVE  UNCHANGED runVars
  BY <1>1 DEF ClientNode, PeerNode, A2AServer, Router, SpanEnds, InitializeSession,
     PostInSession, PostWithoutSession, PostTask, PeerReached, RequestWritten, SendFails,
     ClientDeadline, ClientAnswered,
     PeerForwards, PeerAnswers, PeerFindsNobody, PeerDeadline, Lookup, Outside, TaskSubmitted,
     TaskUnreadable, TaskForwards, TaskConcludes, TaskDeadline, TaskAnswers, EventsAre,
     RouterReads, RouterLosesService, RouterDeadline, RouterOnly
<1>2. ASSUME NEW c \in Calls, Endpoint(c) PROVE RunNext \/ UNCHANGED runVars
  BY <1>2 DEF Endpoint, ServiceRefuses, ServiceAnswers, BrowserTaskStarts, PluginReads,
     PluginLosesServer, PluginDeadline, RunNext
<1>3. ASSUME NEW s \in Services, Service(s) PROVE UNCHANGED runVars
  BY <1>3 DEF Service, ServiceStarts, ServiceStops, ServiceLeaves, ServiceKilled, ServiceOnly
<1>4. ASSUME NEW s, EndSession(s) PROVE UNCHANGED runVars BY <1>4 DEF EndSession, Outside
<1>5. ASSUME NEW r \in Requests, Orchestrator(r) PROVE RunNext BY <1>5 DEF Orchestrator, RunNext
<1>6. ASSUME UNCHANGED vars PROVE UNCHANGED runVars BY <1>6 DEF vars
<1> QED BY <1>1, <1>2, <1>3, <1>4, <1>5, <1>6 DEF Next

LEMMA RouterPart == [Next]_vars => [RouterNext]_routerVars
<1>1. ASSUME NEW c \in Calls, ClientNode(c) \/ PeerNode(c) \/ A2AServer(c)
      PROVE  RouterNext \/ UNCHANGED routerVars
  BY <1>1 DEF ClientNode, PeerNode, A2AServer, InitializeSession,
     PostInSession, PostWithoutSession, PostTask, PeerReached, RequestWritten, SendFails,
     ClientDeadline, ClientAnswered,
     PeerForwards, PeerAnswers, PeerFindsNobody, PeerDeadline, Lookup, Outside, TaskSubmitted,
     TaskUnreadable, TaskForwards, TaskConcludes, TaskDeadline, TaskAnswers, EventsAre, RouterNext
<1>2. ASSUME NEW c \in Calls, Router(c) PROVE RouterNext
  BY <1>2 DEF Router, RouterReads, RouterLosesService, RouterDeadline, RouterNext
<1>3. ASSUME NEW c \in Calls, Endpoint(c) \/ SpanEnds(c) PROVE UNCHANGED routerVars
  BY <1>3 DEF Endpoint, SpanEnds, Outside, ServiceRefuses, ServiceAnswers, BrowserTaskStarts, PluginReads,
     PluginLosesServer, PluginDeadline, TaskIs
<1>4. ASSUME NEW s \in Services, Service(s) PROVE RouterNext \/ UNCHANGED routerVars
  BY <1>4 DEF Service, ServiceStarts, ServiceStops, ServiceLeaves, ServiceKilled, RouterNext
<1>5. ASSUME NEW s, EndSession(s) PROVE UNCHANGED routerVars BY <1>5 DEF EndSession, Outside
<1>6. ASSUME NEW r \in Requests, Orchestrator(r) PROVE UNCHANGED routerVars BY <1>6 DEF Orchestrator
<1>7. ASSUME UNCHANGED vars PROVE UNCHANGED routerVars BY <1>7 DEF vars
<1> QED BY <1>1, <1>2, <1>3, <1>4, <1>5, <1>6, <1>7 DEF Next

(* What the composition is to its router and its orchestrator. *)
LEMMA PartsInvariant ==
    Spec => [](RunTypeOK /\ RunInv /\ RouterTypeOK /\ RouteInv)
<1>1. Init => RunTypeOK /\ RunInv BY DEF Init, RunInit, RunTypeOK, RunInv
<1>2. Init => RouterTypeOK /\ RouteInv BY DEF Init, RouterInit, RouterTypeOK, RouteInv, Answers
<1>3. /\ RunTypeOK /\ RunInv /\ RouterTypeOK /\ RouteInv /\ [Next]_vars
      => (RunTypeOK /\ RunInv /\ RouterTypeOK /\ RouteInv)'
  BY RunStep, RouterStep, RunPart, RouterPart
<1> QED BY <1>1, <1>2, <1>3, PTL DEF Spec

(* The orchestrator inside the composition is a BrowserRun: nothing on the
   way to it, no deadline and no lost service, makes it do anything else. *)
THEOREM OrchestratorInPlace == Spec => RunSpec
<1>1. Init => RunInit BY DEF Init
<1> QED BY <1>1, RunPart, PTL DEF Spec, RunSpec

(* mcp_router.py answers 500 for its own KeyError only to a call whose service
   left the registry while handle_route was awaiting it. *)
THEOREM CrashNeedsRemoval == Spec => []CrashOnlyAfterRemoval
<1>1. RouterTypeOK /\ RouteInv => CrashOnlyAfterRemoval
  BY DEF RouterTypeOK, RouteInv, CrashOnlyAfterRemoval
<1> QED BY <1>1, PartsInvariant, PTL

-----------------------------------------------------------------------------
(* The calls: client, task, sessions and spans. *)

CallTypeOK == /\ client \in [Calls -> {"idle", "dialling", "writing", "waiting", "result"} \cup Failures]
              /\ viaA2A \in SUBSET Calls
              /\ span \in [Calls -> 0..3]
              /\ sessions \in SUBSET Initialize
              /\ given \in SUBSET Initialize
              /\ ended \in SUBSET given
              /\ events \in [Calls -> {<< >>, Started, Completed, Failed}]
              /\ task \in [Calls -> {"none", "running", "ok", "failed", "timedOut",
                                     "error", "empty", "lost"}]
              /\ up \in SUBSET Services
              /\ leaving \in SUBSET Services
              /\ starts \in Nat /\ kills \in Nat

(* A handler at the client's node moves on, a session with it. *)
SessionStep(c) == \/ InitializeSession(c) \/ PostWithoutSession(c) \/ PostTask(c)
                  \/ PeerReached(c) \/ RequestWritten(c) \/ SendFails(c) \/ ClientDeadline(c)
                  \/ \E s \in given : PostInSession(c, s)
                  \/ \E answer \in {"result", "rpcError", "unreachable", "badGateway"} :
                         ClientAnswered(c, answer)

(* Every step is of one of these kinds; each leaves the variables of the
   others alone. *)
LEMMA KindsOfSteps ==
    ASSUME RunTypeOK, [Next]_vars
    PROVE  \/ /\ \E c \in Calls : SessionStep(c)
              /\ UNCHANGED <<span, events, task, serviceVars, runVars>>
           \/ /\ \E s \in given : EndSession(s)
              /\ UNCHANGED <<callVars, serviceVars, runVars, routerVars>>
           \/ /\ \E c \in Calls : A2AServer(c) \/ Router(c) \/ PeerForwards(c)
              /\ UNCHANGED <<client, viaA2A, span, task, sessionVars, serviceVars, runVars>>
           \/ /\ \E c \in Calls : SpanEnds(c)
              /\ UNCHANGED <<client, viaA2A, events, task, sessionVars, serviceVars, runVars, routerVars>>
           \/ /\ \E c \in Calls : Endpoint(c)
              /\ UNCHANGED <<client, viaA2A, span, events, sessionVars, serviceVars, routerVars>>
           \/ /\ \E s \in Services : Service(s)
              /\ UNCHANGED <<client, viaA2A, span, events, sessionVars, runVars, route>>
           \/ /\ UNCHANGED <<callVars, sessionVars, serviceVars, routerVars>>
              /\ \A r \in Requests : run'[r] = "running" => run[r] = "running"
<1> USE DEF callVars, sessionVars, serviceVars
<1>1. ASSUME NEW c \in Calls, ClientNode(c) \/ PeerAnswers(c) \/ PeerFindsNobody(c) \/ PeerDeadline(c)
                                 \/ TaskAnswers(c)
      PROVE  SessionStep(c) /\ UNCHANGED <<span, events, task, serviceVars, runVars>>
  <2>1. UNCHANGED <<span, events, task, serviceVars, runVars>>
    BY <1>1 DEF ClientNode, PeerAnswers, PeerFindsNobody, PeerDeadline, TaskAnswers,
       InitializeSession, PostInSession, PostWithoutSession, PostTask, PeerReached, RequestWritten, SendFails,
       ClientDeadline,
       ClientAnswered, ClientIs, Outside
  <2>2. SessionStep(c)
    BY <1>1 DEF ClientNode, PeerAnswers, PeerFindsNobody, PeerDeadline, TaskAnswers, SessionStep
  <2> QED BY <2>1, <2>2
<1>2. ASSUME NEW c \in Calls, PeerForwards(c) \/ Router(c) \/ (A2AServer(c) /\ ~TaskAnswers(c))
      PROVE  UNCHANGED <<client, viaA2A, span, task, sessionVars, serviceVars, runVars>>
  BY <1>2 DEF PeerForwards, Router, A2AServer, Lookup, RouterReads, RouterLosesService,
     RouterDeadline, RouterOnly, TaskSubmitted, TaskUnreadable, TaskForwards, TaskConcludes,
     TaskDeadline, EventsAre, Outside
<1>3. ASSUME NEW c \in Calls, SpanEnds(c)
      PROVE  UNCHANGED <<client, viaA2A, events, task, sessionVars, serviceVars, runVars, routerVars>>
  BY <1>3 DEF SpanEnds, Outside
<1>4. ASSUME NEW c \in Calls, Endpoint(c)
      PROVE  UNCHANGED <<client, viaA2A, span, events, sessionVars, serviceVars, routerVars>>
  BY <1>4 DEF Endpoint, ServiceRefuses, ServiceAnswers, BrowserTaskStarts, PluginReads,
     PluginLosesServer, PluginDeadline, TaskIs
<1>5. ASSUME NEW s \in Services, Service(s)
      PROVE  UNCHANGED <<client, viaA2A, span, events, sessionVars, runVars, route>>
  BY <1>5 DEF Service, ServiceStarts, ServiceStops, ServiceLeaves, ServiceKilled, ServiceOnly,
     Register, Deregister, routerVars
<1>6. ASSUME NEW s \in given, EndSession(s)
      PROVE  UNCHANGED <<callVars, serviceVars, runVars, routerVars>>
  BY <1>6 DEF EndSession, Outside
<1>7. ASSUME NEW r \in Requests, Orchestrator(r)
      PROVE  /\ UNCHANGED <<callVars, sessionVars, serviceVars, routerVars>>
             /\ \A q \in Requests : run'[q] = "running" => run[q] = "running"
  BY <1>7 DEF RunTypeOK, Orchestrator, RunSucceeds, RunFails, Collected, Uploaded, UploadLost
<1>8. ASSUME UNCHANGED vars
      PROVE  /\ UNCHANGED <<callVars, sessionVars, serviceVars, routerVars>>
             /\ \A q \in Requests : run'[q] = "running" => run[q] = "running"
  BY <1>8 DEF vars, runVars
<1>9. CASE Next
  BY <1>1, <1>2, <1>3, <1>4, <1>5, <1>6, <1>7, <1>9 DEF Next, PeerNode
<1> QED BY <1>8, <1>9

(* Types. *)
LEMMA CallTypeStep == RunTypeOK /\ CallTypeOK /\ [Next]_vars => CallTypeOK'
<1> SUFFICES ASSUME RunTypeOK, CallTypeOK, [Next]_vars PROVE CallTypeOK'
  OBVIOUS
<1> USE CallsAssumption DEF CallTypeOK, Failures
<1>1. ASSUME NEW c \in Calls, SessionStep(c), UNCHANGED <<span, events, task, serviceVars>>
      PROVE  CallTypeOK'
  BY <1>1 DEF SessionStep, InitializeSession, PostInSession, PostWithoutSession, PostTask,
     PeerReached, RequestWritten, SendFails, ClientDeadline, ClientAnswered, ClientIs, sessionVars, serviceVars
<1>2. ASSUME NEW s \in given, EndSession(s), UNCHANGED <<callVars, serviceVars>> PROVE CallTypeOK'
  BY <1>2 DEF EndSession, callVars, serviceVars
<1>3. ASSUME NEW c \in Calls, A2AServer(c) \/ Router(c) \/ PeerForwards(c),
             UNCHANGED <<client, viaA2A, span, task, sessionVars, serviceVars>>
      PROVE  CallTypeOK'
  <2>1. events' \in [Calls -> {<< >>, Started, Completed, Failed}]
    BY <1>3 DEF A2AServer, Router, PeerForwards, TaskSubmitted, TaskUnreadable, TaskForwards,
       TaskConcludes, TaskDeadline, TaskAnswers, ClientAnswered, ClientIs, EventsAre, Lookup,
       RouterReads, RouterLosesService, RouterDeadline, RouterOnly, callVars
  <2> QED BY <1>3, <2>1 DEF sessionVars, serviceVars
<1>4. ASSUME NEW c \in Calls, SpanEnds(c),
             UNCHANGED <<client, viaA2A, events, task, sessionVars, serviceVars>>
      PROVE  CallTypeOK'
  <2>1. span' \in [Calls -> 0..3] BY <1>4 DEF SpanEnds
  <2> QED BY <1>4, <2>1 DEF sessionVars, serviceVars
<1>5. ASSUME NEW c \in Calls, Endpoint(c),
             UNCHANGED <<client, viaA2A, span, events, sessionVars, serviceVars>>
      PROVE  CallTypeOK'
  <2>1. task' \in [Calls -> {"none", "running", "ok", "failed", "timedOut", "error", "empty", "lost"}]
    BY <1>5 DEF Endpoint, ServiceRefuses, ServiceAnswers, BrowserTaskStarts, PluginReads,
       PluginLosesServer, PluginDeadline, TaskIs
  <2> QED BY <1>5, <2>1 DEF sessionVars, serviceVars
<1>6. ASSUME NEW s \in Services, Service(s), UNCHANGED <<client, viaA2A, span, events, sessionVars>>
      PROVE  CallTypeOK'
  BY <1>6 DEF Service, ServiceStarts, ServiceStops, ServiceLeaves, ServiceKilled, sessionVars
<1>7. ASSUME UNCHANGED <<callVars, sessionVars, serviceVars>> PROVE CallTypeOK'
  BY <1>7 DEF callVars, sessionVars, serviceVars
<1> QED BY <1>1, <1>2, <1>3, <1>4, <1>5, <1>6, <1>7, KindsOfSteps

(* Sessions: the id is with the client exactly when the initialize request
   was answered, and only what was given can be ended. *)
SessionInv == /\ SessionsAccounted
              /\ \A c \in Initialize : /\ client[c] \in {"dialling", "writing", "waiting"} => c \in sessions \ given
                                       /\ c \in given => client[c] # "idle"

LEMMA SessionInvStep ==
    ASSUME RunTypeOK, CallTypeOK, SessionInv, [Next]_vars
    PROVE  SessionInv'
<1> USE CallsAssumption DEF CallTypeOK, SessionInv, SessionsAccounted
<1>1. ASSUME NEW c \in Calls, SessionStep(c) PROVE SessionInv'
  <2>1. CASE InitializeSession(c) BY <2>1 DEF InitializeSession, ClientIs
  <2>2. CASE PostWithoutSession(c) \/ PostTask(c) \/ \E s \in given : PostInSession(c, s)
    BY <2>2 DEF PostWithoutSession, PostTask, PostInSession, ClientIs, sessionVars
  <2>3. CASE PeerReached(c) \/ RequestWritten(c) \/ SendFails(c) \/ ClientDeadline(c)
    BY <2>3 DEF PeerReached, RequestWritten, SendFails, ClientDeadline, ClientIs, sessionVars
  <2>4. ASSUME NEW answer \in {"result", "rpcError", "unreachable", "badGateway"},
               ClientAnswered(c, answer)
        PROVE  SessionInv'
    BY <2>4 DEF ClientAnswered, ClientIs
  <2> QED BY <1>1, <2>1, <2>2, <2>3, <2>4 DEF SessionStep
<1>2. ASSUME NEW s \in given, EndSession(s) PROVE SessionInv'
  BY <1>2 DEF EndSession, callVars
<1>3. CASE UNCHANGED <<client, sessionVars>> BY <1>3 DEF sessionVars
<1> QED BY <1>1, <1>2, <1>3, KindsOfSteps DEF callVars

(* Tasks: a terminal verdict and what it was read from. *)
TaskInv == /\ CompletedTaskWasAnswered
           /\ \A r \in Requests : task[r] = "ok" => server[r] = "ok"

LEMMA RouteVerdictStays ==
    ASSUME RouterTypeOK, [Next]_vars, NEW c \in Calls, route[c] \in {"ok", "empty"}
    PROVE  route'[c] = route[c]
<1>1. CASE UNCHANGED routerVars BY <1>1 DEF routerVars
<1>2. CASE RouterNext
  BY <1>2 DEF RouterNext, RouterTypeOK, Forward, NotFound, NoContent, Answered, ServiceFails,
     TimesOut, Conclude, Register, Deregister
<1> QED BY <1>1, <1>2, RouterPart

LEMMA ServerVerdictStays ==
    ASSUME RunTypeOK, [Next]_vars, NEW r \in Requests, server[r] = "ok"
    PROVE  server'[r] = "ok"
<1>1. CASE UNCHANGED runVars BY <1>1 DEF runVars
<1>2. CASE RunNext
  BY <1>2 DEF RunNext, RunTypeOK, Execute, Refuse, RunSucceeds, RunFails, Collected, Uploaded, UploadLost
<1> QED BY <1>1, <1>2, RunPart

LEMMA TaskInvStep ==
    ASSUME RunTypeOK, RouterTypeOK, CallTypeOK, TaskInv, [Next]_vars
    PROVE  TaskInv'
<1> USE CallsAssumption DEF TaskInv, CompletedTaskWasAnswered
<1>1. CASE UNCHANGED <<events, task>>
  BY <1>1, RouteVerdictStays, ServerVerdictStays
<1>2. ASSUME NEW c \in Calls, A2AServer(c) \/ Router(c) \/ PeerForwards(c), UNCHANGED task
      PROVE  TaskInv'
  <2>1. CASE UNCHANGED events BY <1>1, <1>2, <2>1
  <2>2. CASE TaskConcludes(c) /\ route[c] \in {"ok", "empty"}
    BY <1>2, <2>2, RouteVerdictStays, ServerVerdictStays DEF TaskConcludes, EventsAre, CallTypeOK
  <2>3. ASSUME NEW list \in {Started, Failed}, EventsAre(c, list) PROVE TaskInv'
    BY <1>2, <2>3, EventListsDiffer, RouteVerdictStays, ServerVerdictStays DEF EventsAre, CallTypeOK
  <2> QED
    BY <1>2, <2>1, <2>2, <2>3 DEF A2AServer, Router, PeerForwards, TaskSubmitted, TaskUnreadable,
       TaskForwards, TaskConcludes, TaskDeadline, TaskAnswers, ClientAnswered, ClientIs, Lookup,
       RouterReads, RouterLosesService, RouterDeadline, RouterOnly, callVars
<1>3. ASSUME NEW c \in Calls, Endpoint(c), UNCHANGED events PROVE TaskInv'
  <2>1. ASSUME NEW r \in Requests, task'[r] = "ok" PROVE task[r] = "ok" \/ server[r] = "ok"
    BY <1>3, <2>1 DEF Endpoint, ServiceRefuses, ServiceAnswers, BrowserTaskStarts, PluginReads,
       PluginLosesServer, PluginDeadline, TaskIs, CallTypeOK
  <2> QED BY <1>3, <2>1, RouteVerdictStays, ServerVerdictStays
<1>4. ASSUME NEW s \in Services, Service(s), UNCHANGED events PROVE TaskInv'
  <2>1. ASSUME NEW r \in Requests, task'[r] = "ok" PROVE task[r] = "ok"
    BY <1>4, <2>1 DEF Service, ServiceStarts, ServiceStops, ServiceLeaves, ServiceKilled, CallTypeOK
  <2> QED BY <1>4, <2>1, RouteVerdictStays, ServerVerdictStays
<1> QED BY <1>1, <1>2, <1>3, <1>4, KindsOfSteps DEF callVars

(* Spans: a request that starts late cannot be, and the plugin gives up only
   when the agent has ended. *)
SpanInv == /\ \A c \in Calls : span[c] >= 2 => route[c] # "awaiting"
           /\ \A r \in Requests : span[r] = 3 \/ task[r] = "timedOut" => run[r] # "running"

LEMMA SpanInvStep ==
    ASSUME RunTypeOK, RouterTypeOK, CallTypeOK, SpanInv, [Next]_vars
    PROVE  SpanInv'
<1> USE CallsAssumption DEF SpanInv, CallTypeOK
<1>1. CASE UNCHANGED <<span, route, task, run>> BY <1>1
<1>2. ASSUME NEW c \in Calls, SessionStep(c), UNCHANGED <<span, events, task, serviceVars, runVars>>
      PROVE  SpanInv'
  <2>1. UNCHANGED route
    BY <1>2 DEF SessionStep, InitializeSession, PostInSession, PostWithoutSession, PostTask,
       PeerReached, RequestWritten, SendFails, ClientDeadline, ClientAnswered, Outside, routerVars
  <2> QED BY <1>1, <1>2, <2>1 DEF runVars
<1>3. ASSUME NEW c \in Calls, A2AServer(c) \/ Router(c) \/ PeerForwards(c), UNCHANGED <<span, task, runVars>>
      PROVE  SpanInv'
  <2>1. ASSUME NEW k \in Calls, route'[k] = "awaiting" PROVE route[k] = "awaiting" \/ span[k] <= 1
    BY <1>3, <2>1 DEF A2AServer, Router, PeerForwards, TaskSubmitted, TaskUnreadable, TaskForwards,
       TaskConcludes, TaskDeadline, TaskAnswers, ClientAnswered, Lookup, RouterReads,
       RouterLosesService, RouterDeadline, Reached, EventsAre, Outside, routerVars, RouterTypeOK,
       Forward, NotFound, NoContent, Answered, ServiceFails, TimesOut, Conclude
  <2> QED BY <1>3, <2>1 DEF runVars
<1>4. ASSUME NEW c \in Calls, SpanEnds(c), UNCHANGED <<task, runVars, routerVars>> PROVE SpanInv'
  BY <1>4 DEF SpanEnds, AgentRuns, runVars, routerVars
<1>5. ASSUME NEW c \in Calls, Endpoint(c), UNCHANGED <<span, routerVars>> PROVE SpanInv'
  <2>1. CASE BrowserTaskStarts(c)
    BY <1>5, <2>1 DEF BrowserTaskStarts, Delivered, TaskIs, Execute, Refuse, RunTypeOK, routerVars
  <2>2. CASE PluginDeadline(c)
    BY <1>5, <2>2 DEF PluginDeadline, TaskIs, runVars, routerVars
  <2>3. ASSUME NEW state \in {"error", "ok", "failed", "empty"}, TaskIs(c, state), UNCHANGED runVars
        PROVE  SpanInv'
    BY <1>5, <2>3 DEF TaskIs, runVars, routerVars
  <2>4. ASSUME PluginReads(c) PROVE server[c] \in {"ok", "failed"} BY <2>4 DEF PluginReads
  <2> QED BY <1>5, <2>1, <2>2, <2>3, <2>4 DEF Endpoint, ServiceRefuses, ServiceAnswers, PluginReads,
             PluginLosesServer
<1>6. ASSUME NEW s \in Services, Service(s), UNCHANGED <<span, runVars, route>> PROVE SpanInv'
  <2>1. ASSUME NEW r \in Requests, task'[r] = "timedOut" PROVE task[r] = "timedOut"
    BY <1>6, <2>1 DEF Service, ServiceStarts, ServiceStops, ServiceLeaves, ServiceKilled
  <2> QED BY <1>6, <2>1 DEF runVars
<1>7. ASSUME UNCHANGED <<callVars, routerVars>>,
             \A r \in Requests : run'[r] = "running" => run[r] = "running"
      PROVE  SpanInv'
  BY <1>7 DEF callVars, routerVars
<1>8. ASSUME UNCHANGED <<callVars, runVars, routerVars>> PROVE SpanInv'
  BY <1>1, <1>8 DEF callVars, runVars, routerVars
<1> QED BY <1>2, <1>3, <1>4, <1>5, <1>6, <1>7, <1>8, KindsOfSteps

-----------------------------------------------------------------------------
CallsInv == CallTypeOK /\ SessionInv /\ TaskInv /\ SpanInv

LEMMA AlwaysCallsInv == Spec => []CallsInv
<1>1. Init => CallsInv
  <2> SUFFICES ASSUME Init PROVE CallsInv OBVIOUS
  <2> USE CallsAssumption DEF Init
  <2>1. CallTypeOK BY DEF CallTypeOK, Failures
  <2>2. SessionInv BY DEF SessionInv, SessionsAccounted
  <2>3. TaskInv
    <3>1. \A c \in Calls : events[c] # Completed BY EventListsDiffer
    <3> QED BY <3>1 DEF TaskInv, CompletedTaskWasAnswered
  <2>4. SpanInv BY DEF SpanInv, RouterInit, RunInit
  <2> QED BY <2>1, <2>2, <2>3, <2>4 DEF CallsInv
<1>2. RunTypeOK /\ RouterTypeOK /\ CallsInv /\ [Next]_vars => CallsInv'
  BY CallTypeStep, SessionInvStep, TaskInvStep, SpanInvStep DEF CallsInv
<1> QED BY <1>1, <1>2, PartsInvariant, PTL DEF Spec

(* Every variable of the call path, the router and the orchestrator keeps its
   type. *)
THEOREM TypeCorrect == Spec => []TypeOK
<1>1. RunTypeOK /\ RouterTypeOK /\ CallsInv => TypeOK BY DEF CallsInv, CallTypeOK, TypeOK
<1> QED BY <1>1, PartsInvariant, AlwaysCallsInv, PTL

(* BrowserTaskPlugin.execute reports success only for an uploaded report of a
   run that ended well. *)
THEOREM SuccessEarned == Spec => []SuccessIsEarned
<1>1. RunInv /\ CallsInv => SuccessIsEarned BY DEF CallsInv, RunInv, TaskInv, SuccessIsEarned
<1> QED BY <1>1, PartsInvariant, AlwaysCallsInv, PTL

(* The 660 s of browser_task.py outlast the 600 s of pythonAgent.js: its
   timeout never leaves an agent at work. *)
THEOREM PluginWaitsLongEnough == Spec => []PluginOutlivesAgent
<1>1. CallsInv => PluginOutlivesAgent BY DEF CallsInv, SpanInv, PluginOutlivesAgent, AgentRuns
<1> QED BY <1>1, AlwaysCallsInv, PTL

(* mcpSessions of api/mcp.go: a session a client was given is there until a
   DELETE, and the ones nobody was given are of requests that were not
   answered. *)
THEOREM SessionsAreAccounted == Spec => []SessionsAccounted
<1>1. CallsInv => SessionsAccounted BY DEF CallsInv, SessionInv
<1> QED BY <1>1, AlwaysCallsInv, PTL

(* a2a_server.py completes a task only on an answer of the router; a task
   that failed at the deadline is not completed by a late one. *)
THEOREM CompletedOnlyAnswered == Spec => []CompletedTaskWasAnswered
<1>1. CallsInv => CompletedTaskWasAnswered BY DEF CallsInv, TaskInv
<1> QED BY <1>1, AlwaysCallsInv, PTL
=============================================================================

----------------------------- MODULE ToolCalls -----------------------------
(***************************************************************************)
(* A call of a remote tool, through every process it passes: the AXL node  *)
(* of the client (api/mcp.go or api/a2a.go), the node of the peer          *)
(* (internal/mcp, internal/a2a), the A2A server for a call made as an A2A  *)
(* task (a2a_server.py), the MCP router (McpRouter), the MCP endpoint of a *)
(* daemon (service.py), its browser plugin (browser_task.py) and the       *)
(* orchestrator (BrowserRun, which NodeNexus implements).  Every hop waits *)
(* for the next with a deadline of its own, and none cancels the work      *)
(* behind it; only dialling the peer and writing the request have none.    *)
(*                                                                         *)
(* The time since the peer was reached is measured in spans: span 0 lasts  *)
(* 30 s, the deadline of both nodes, of the A2A server and of the router;  *)
(* span 1 ends at 600 s, the timeout of the agent process; span 2 ends at  *)
(* 660 s, the timeout of the browser plugin.  Where a hop waits for longer *)
(* than its deadline has run, the spans of the hops behind it stretch.     *)
(***************************************************************************)
EXTENDS McpRouter, BrowserRun, Sequences

CONSTANTS Initialize,        (* the calls whose method is "initialize"    *)
          MaxStarts,         (* bound: starts of services                 *)
          MaxKills           (* bound: services killed                    *)

(* The calls in Requests are of the tool browser_task. *)
ASSUME CallsAssumption == /\ Initialize \subseteq Calls
                          /\ Requests \subseteq Calls
                          /\ Requests \cap Initialize = {}

VARIABLES client,            (* the handler at the node of the client     *)
          viaA2A,            (* the calls made as A2A tasks               *)
          span,              (* the span of time the call is in           *)
          sessions,          (* mcpSessions, named by their initialize    *)
          given,             (* sessions whose id a client was given      *)
          ended,             (* sessions ended by DELETE                  *)
          events,            (* what the A2A server enqueued for the task *)
          task,              (* the call at the endpoint of its service   *)
          up,                (* services that accept requests             *)
          leaving,           (* services shutting down, not deregistered  *)
          starts, kills      (* how often services started, were killed   *)

sessionVars == <<sessions, given, ended>>
serviceVars == <<up, leaving, starts, kills>>
callVars == <<client, viaA2A, span, events, task>>
vars == <<routerVars, runVars, callVars, sessionVars, serviceVars>>

Failures == {"badSession", "unreachable", "badGateway", "rpcError"}
Started == <<"submitted", "working">>
Completed == Started \o <<"artifact", "completed">>
Failed == Started \o <<"failed">>

Init == /\ RouterInit /\ RunInit
        /\ client = [c \in Calls |-> "idle"]
        /\ viaA2A = {}
        /\ span = [c \in Calls |-> 0]
        /\ sessions = {} /\ given = {} /\ ended = {}
        /\ events = [c \in Calls |-> << >>]
        /\ task = [c \in Calls |-> "none"]
        /\ up = {} /\ leaving = {}
        /\ starts = 0 /\ kills = 0

(***************************************************************************)
(* The node of the client: handleMCPPost and HandleA2A.                    *)
(***************************************************************************)
ClientIs(c, state) == /\ client' = [client EXCEPT ![c] = state]
                      /\ UNCHANGED <<viaA2A, span, events, task>>
Outside == UNCHANGED <<routerVars, runVars, serviceVars>>

(* The session is entered before the peer is dialled. *)
InitializeSession(c) == /\ client[c] = "idle" /\ c \in Initialize
                        /\ ClientIs(c, "dialling")
                        /\ sessions' = sessions \cup {c}
                        /\ UNCHANGED <<given, ended>> /\ Outside

(* Mutant: a session serves one request. *)
PostInSessionOnce(c, s) == /\ client[c] = "idle" /\ c \notin Initialize
                           /\ s \in given
                           /\ ClientIs(c, IF s \in sessions THEN "dialling" ELSE "badSession")
                           /\ sessions' = sessions \ {s}
                           /\ UNCHANGED <<given, ended>> /\ Outside

PostInSession(c, s) == /\ client[c] = "idle" /\ c \notin Initialize
                       /\ s \in given
                       /\ ClientIs(c, IF s \in sessions THEN "dialling" ELSE "badSession")
                       /\ UNCHANGED sessionVars /\ Outside

PostWithoutSession(c) == /\ client[c] = "idle" /\ c \notin Initialize
                         /\ ClientIs(c, "dialling")
                         /\ UNCHANGED sessionVars /\ Outside

PostTask(c) == /\ client[c] = "idle" /\ c \notin Initialize
               /\ client' = [client EXCEPT ![c] = "dialling"]
               /\ viaA2A' = viaA2A \cup {c}
               /\ UNCHANGED <<span, events, task, sessionVars>> /\ Outside

EndSession(s) == /\ s \in given \ ended
                 /\ sessions' = sessions \ {s}
                 /\ ended' = ended \cup {s}
                 /\ UNCHANGED <<given, callVars>> /\ Outside

(* The dial returns, and the 30 s of the connection's read deadline begin. *)
PeerReached(c) == /\ client[c] = "dialling"
                  /\ ClientIs(c, "writing")
                  /\ UNCHANGED sessionVars /\ Outside

RequestWritten(c) == /\ client[c] = "writing"
                     /\ ClientIs(c, "waiting")
                     /\ UNCHANGED sessionVars /\ Outside

(* The peer cannot be dialled or the request cannot be written: the session
   of an initialize stays, and no client knows its id. *)
SendFails(c) == /\ client[c] \in {"dialling", "writing"}
                /\ ClientIs(c, "unreachable")
                /\ UNCHANGED sessionVars /\ Outside

(* Mutant: a write deadline in place of the read deadline. *)
WriteDeadline(c) == /\ client[c] = "writing" /\ span[c] = 1
                    /\ ClientIs(c, "badGateway")
                    /\ UNCHANGED sessionVars /\ Outside

(* The read deadline of the connection: it ends no dial and no write. *)
ClientDeadline(c) == /\ client[c] = "waiting" /\ span[c] = 1
                     /\ ClientIs(c, "badGateway")
                     /\ UNCHANGED sessionVars /\ Outside

(* Mutant: the header is sent with every answer. *)
ClientAnsweredWithId(c, answer) == /\ client[c] = "waiting"
                                   /\ ClientIs(c, answer)
                                   /\ given' = given \cup {c}
                                   /\ UNCHANGED <<sessions, ended>> /\ Outside

(* A result or a JSON-RPC error: both carry the session id. *)
ClientAnswered(c, answer) == /\ client[c] = "waiting"
                             /\ ClientIs(c, answer)
                             /\ given' = IF c \in Initialize THEN given \cup {c} ELSE given
                             /\ UNCHANGED <<sessions, ended>> /\ Outside

(***************************************************************************)
(* The node of the peer and the A2A server.                                *)
(***************************************************************************)
Reached(c) == client[c] \in {"waiting", "badGateway"} /\ span[c] <= 1

Lookup(c) == /\ Forward(c) \/ NotFound(c)
             /\ UNCHANGED <<runVars, callVars, sessionVars, serviceVars>>

(* MCPStream.Forward posts to the router. *)
PeerForwards(c) == c \notin viaA2A /\ Reached(c) /\ Lookup(c)

(* ForwardToRouter returns: an error of the router, or a body that is not its
   JSON, is an error for the client. *)
PeerAnswers(c) ==
    /\ c \notin viaA2A /\ route[c] \in Answers
    /\ ClientAnswered(c, IF route[c] \in {"ok", "empty"} THEN "result" ELSE "rpcError")

(* The router or the A2A server cannot be reached. *)
PeerFindsNobody(c) ==
    /\ route[c] = "none" /\ events[c] = << >>
    /\ ClientAnswered(c, IF c \in viaA2A THEN "unreachable" ELSE "rpcError")

(* The timeout of the peer's HTTP client, to the router or the A2A server. *)
PeerDeadline(c) ==
    /\ span[c] = 1
    /\ IF c \in viaA2A THEN events[c] = Started ELSE route[c] = "awaiting"
    /\ ClientAnswered(c, IF c \in viaA2A THEN "badGateway" ELSE "rpcError")

EventsAre(c, list) == /\ events' = [events EXCEPT ![c] = list]
                      /\ UNCHANGED <<client, viaA2A, span, task, sessionVars>> /\ Outside

(* execute() of the A2A server: the task and its status working. *)
TaskSubmitted(c) == c \in viaA2A /\ Reached(c) /\ events[c] = << >> /\ EventsAre(c, Started)

(* The message is not an MCP request, it names no service, or the router
   cannot be reached. *)
TaskUnreadable(c) == events[c] = Started /\ route[c] = "none" /\ EventsAre(c, Failed)

TaskForwards(c) == events[c] = Started /\ span[c] <= 1 /\ Lookup(c)

(* Mutant: the status of the router is not looked at. *)
TaskConcludesAnyway(c) == /\ events[c] = Started /\ route[c] \in Answers
                          /\ EventsAre(c, Completed)

TaskConcludes(c) ==
    /\ events[c] = Started /\ route[c] \in Answers
    /\ EventsAre(c, IF route[c] \in {"ok", "empty"} THEN Completed ELSE Failed)

(* The timeout of its HTTP client. *)
TaskDeadline(c) == /\ events[c] = Started /\ span[c] = 1 /\ route[c] \notin Answers
                   /\ EventsAre(c, Failed)

TaskAnswers(c) == events[c] \in {Completed, Failed} /\ ClientAnswered(c, "result")

(***************************************************************************)
(* The router and the services behind it.                                  *)
(***************************************************************************)
RouterOnly == UNCHANGED <<runVars, callVars, sessionVars, serviceVars>>

(* A daemon answers 200 also for a task that failed. *)
RouterReads(c) == /\ \/ task[c] \in {"ok", "failed", "timedOut"} /\ Answered(c)
                     \/ task[c] = "error" /\ ServiceFails(c)
                     \/ task[c] = "empty" /\ NoContent(c)
                  /\ RouterOnly

RouterLosesService(c) == /\ task[c] = "lost" \/ (task[c] = "none" /\ target[c] \notin up)
                         /\ ServiceFails(c) /\ RouterOnly

RouterDeadline(c) == span[c] = 1 /\ TimesOut(c) /\ RouterOnly

TaskIs(c, state) == /\ task' = [task EXCEPT ![c] = state]
                    /\ UNCHANGED <<routerVars, client, viaA2A, span, events, sessionVars, serviceVars>>

Delivered(c) == route[c] = "awaiting" /\ task[c] = "none" /\ target[c] \in up

(* The endpoint refuses: no such tool, or it is disabled. *)
ServiceRefuses(c) == Delivered(c) /\ TaskIs(c, "error") /\ UNCHANGED runVars

(* Any tool but browser_task, or a server that is not a daemon. *)
ServiceAnswers(c) == /\ c \notin Requests /\ Delivered(c)
                     /\ \E answer \in {"ok", "failed", "empty"} : TaskIs(c, answer)
                     /\ UNCHANGED runVars

(* BrowserTaskPlugin.execute posts to the orchestrator. *)
BrowserTaskStarts(c) == /\ c \in Requests /\ Delivered(c)
                        /\ Execute(c) \/ Refuse(c)
                        /\ TaskIs(c, "running")

(* Mutant: any answer of the orchestrator is a success. *)
PluginReadsAnything(c) == /\ c \in Requests /\ task[c] = "running"
                          /\ server[c] \in {"ok", "failed"}
                          /\ TaskIs(c, "ok") /\ UNCHANGED runVars

PluginReads(c) == /\ c \in Requests /\ task[c] = "running"
                  /\ server[c] \in {"ok", "failed"}
                  /\ TaskIs(c, server[c]) /\ UNCHANGED runVars

(* The connection to the orchestrator breaks. *)
PluginLosesServer(c) == task[c] = "running" /\ TaskIs(c, "failed") /\ UNCHANGED runVars

(* Mutant: a timeout shorter than the one of the agent. *)
PluginDeadlineEarly(c) == /\ task[c] = "running" /\ span[c] >= 1
                          /\ TaskIs(c, "timedOut") /\ UNCHANGED runVars

PluginDeadline(c) == /\ task[c] = "running" /\ span[c] = 3
                     /\ TaskIs(c, "timedOut") /\ UNCHANGED runVars

ServiceOnly == UNCHANGED <<runVars, client, viaA2A, span, events, sessionVars>>

(* startup: the service registers, then it accepts requests. *)
ServiceStarts(s) == /\ s \notin up \cup leaving /\ starts < MaxStarts
                    /\ Register(s)
                    /\ up' = up \cup {s} /\ starts' = starts + 1
                    /\ UNCHANGED <<task, leaving, kills>> /\ ServiceOnly

(* shutdown: it stops accepting requests, ends those it has, deregisters. *)
ServiceStops(s) == /\ s \in up
                   /\ up' = up \ {s} /\ leaving' = leaving \cup {s}
                   /\ UNCHANGED <<routerVars, task, starts, kills>> /\ ServiceOnly

ServiceLeaves(s) == /\ s \in leaving
                    /\ \A c \in Calls : target[c] = s => task[c] # "running"
                    /\ Deregister(s)
                    /\ leaving' = leaving \ {s}
                    /\ UNCHANGED <<task, up, starts, kills>> /\ ServiceOnly

(* It is killed: its entry stays, and so does the work of the orchestrator. *)
ServiceKilled(s) == /\ s \in up /\ kills < MaxKills
                    /\ up' = up \ {s} /\ kills' = kills + 1
                    /\ task' = [c \in Calls |-> IF target[c] = s /\ task[c] = "running"
                                                THEN "lost" ELSE task[c]]
                    /\ UNCHANGED <<routerVars, leaving, starts>> /\ ServiceOnly

(***************************************************************************)
(* Time, and the steps of the orchestrator.                                *)
(***************************************************************************)
AgentRuns(c) == c \in Requests /\ run[c] = "running"

(* A span ends when the deadlines in it have expired.  Where a request takes
   longer to be written, the agent behind it starts and ends later. *)
SpanEnds(c) == /\ client[c] \notin {"idle", "dialling"}
               /\ \/ span[c] = 0
                  \/ /\ span[c] = 1 /\ c \in Requests
                     /\ client[c] \notin {"writing", "waiting"} /\ route[c] # "awaiting" /\ events[c] # Started
                  \/ span[c] = 2 /\ ~AgentRuns(c)
               /\ span' = [span EXCEPT ![c] = @ + 1]
               /\ UNCHANGED <<client, viaA2A, events, task, sessionVars>> /\ Outside

Orchestrator(r) == /\ \/ RunSucceeds(r) \/ RunFails(r) \/ Collected(r)
                      \/ Uploaded(r) \/ UploadLost(r)
                   /\ UNCHANGED <<routerVars, callVars, sessionVars, serviceVars>>

(* Mutant: execFile without a timeout. *)
AgentDeadlineMissing(r) == /\ Collected(r)
                           /\ UNCHANGED <<routerVars, callVars, sessionVars, serviceVars>>

(* execFile: its timeout ends span 1. *)
AgentDeadline(r) == /\ Collected(r) \/ (span[r] = 2 /\ RunFails(r))
                    /\ UNCHANGED <<routerVars, callVars, sessionVars, serviceVars>>

ClientNode(c) == \/ InitializeSession(c) \/ PostWithoutSession(c) \/ PostTask(c)
                 \/ \E s \in given : PostInSession(c, s)
                 \/ PeerReached(c) \/ RequestWritten(c) \/ SendFails(c) \/ ClientDeadline(c)
PeerNode(c) == PeerForwards(c) \/ PeerAnswers(c) \/ PeerFindsNobody(c) \/ PeerDeadline(c)
A2AServer(c) == \/ TaskSubmitted(c) \/ TaskUnreadable(c) \/ TaskForwards(c)
                \/ TaskConcludes(c) \/ TaskDeadline(c) \/ TaskAnswers(c)
Router(c) == RouterReads(c) \/ RouterLosesService(c) \/ RouterDeadline(c)
Endpoint(c) == \/ ServiceRefuses(c) \/ ServiceAnswers(c) \/ BrowserTaskStarts(c)
               \/ PluginReads(c) \/ PluginLosesServer(c) \/ PluginDeadline(c)
Service(s) == ServiceStarts(s) \/ ServiceStops(s) \/ ServiceLeaves(s) \/ ServiceKilled(s)

Next == \/ \E c \in Calls : \/ ClientNode(c) \/ PeerNode(c) \/ A2AServer(c)
                            \/ Router(c) \/ Endpoint(c) \/ SpanEnds(c)
        \/ \E s \in given : EndSession(s)
        \/ \E s \in Services : Service(s)
        \/ \E r \in Requests : Orchestrator(r)

(* Timers expire.  Nothing is assumed of the network between the nodes, nor
   of the tools, the model or the storage. *)
Fairness == /\ \A c \in Calls : /\ WF_vars(SpanEnds(c))
                                /\ WF_vars(ClientDeadline(c))
                                /\ WF_vars(RouterDeadline(c))
                                /\ WF_vars(TaskDeadline(c) \/ TaskConcludes(c))
            /\ \A r \in Requests : WF_vars(AgentDeadline(r))

Spec == Init /\ [][Next]_vars /\ Fairness

(***************************************************************************)
(* Properties.                                                             *)
(***************************************************************************)

(* Every variable has its type. *)
TypeOK == /\ RouterTypeOK /\ RunTypeOK
          /\ client \in [Calls -> {"idle", "dialling", "writing", "waiting", "result"} \cup Failures]
          /\ viaA2A \in SUBSET Calls
          /\ span \in [Calls -> 0..3]
          /\ sessions \in SUBSET Initialize
          /\ given \in SUBSET Initialize
          /\ ended \in SUBSET given
          /\ events \in [Calls -> {<< >>, Started, Completed, Failed}]
          /\ task \in [Calls -> {"none", "running", "ok", "failed", "timedOut",
                                 "error", "empty", "lost"}]
          /\ up \in SUBSET Services
          /\ leaving \in SUBSET Services
          /\ starts \in Nat
          /\ kills \in Nat

(* A browser task that is answered as successful has its report in the
   storage, and its agent ended well. *)
SuccessIsEarned ==
    \A r \in Requests : task[r] = "ok" => r \in uploaded /\ run[r] = "good"

(* When the plugin reports browser_task_timeout, the agent is no longer at
   work: only an upload can still be under way.  The order of the two timeouts,
   600 s and 660 s, is an assumption of SpanEnds; the property adds that no
   agent starts after its plugin's request or outlives its own timeout. *)
PluginOutlivesAgent == \A r \in Requests : task[r] = "timedOut" => ~AgentRuns(r)

(* The router answers 500, whatever the service said, only to a call whose
   service left the registry after the lookup. *)
CrashOnlyAfterRemoval ==
    \A c \in Calls : route[c] = "crashed" => changes[target[c]] > sawChange[c]

(* A session a client was given stays valid until a DELETE; the ones no
   client knows are those of initialize requests that are in flight, failed
   to reach the peer or timed out. *)
SessionsAccounted ==
    /\ given \ ended \subseteq sessions
    /\ \A s \in sessions \ given :
           client[s] \in {"dialling", "writing", "waiting", "unreachable", "badGateway"}

(* A task of the A2A server is completed only if the router passed an answer
   on; a task that failed by the deadline stays failed when it comes. *)
CompletedTaskWasAnswered ==
    \A c \in Calls : events[c] = Completed => route[c] \in {"ok", "empty"}

(* Every call whose request has been written is answered, by a deadline if by
   nothing else: a peer that takes the request and says nothing does not keep
   the client. *)
EveryCallAnswered == \A c \in Calls : client[c] = "waiting" ~> client[c] # "waiting"

(* An agent does not run for ever, also when everyone who waited for it has
   given up. *)
EveryAgentEnds == \A r \in Requests : server[r] = "agent" ~> server[r] # "agent"
=============================================================================

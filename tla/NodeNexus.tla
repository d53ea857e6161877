----------------------------- MODULE NodeNexus -----------------------------
(***************************************************************************)
(* The browser orchestrator (src/node-nexus-agent): POST /mcp/execute of   *)
(* server.js runs one python process per request (pythonAgent.js), which   *)
(* drives a browser with a language model for at most MaxSteps steps       *)
(* (agent.py), and then uploads the report.                                *)
(*                                                                         *)
(* A model reply is abstracted to its kind: "act" (click, input, scroll,   *)
(* wait), "look" (navigate, find_text, extract), "results" (an action that *)
(* mentions a search results page), "done" and "giveUp" (the action done   *)
(* with success true or false), "quit" (a field done with success false)   *)
(* and "offSchema".  The task is one that asks for a screenshot, the kind  *)
(* whose replies the code rewrites.                                        *)
(***************************************************************************)
EXTENDS Naturals

CONSTANTS Requests,          (* requests to /mcp/execute                  *)
          MaxSteps,          (* BROWSER_AGENT_MAX_STEPS, 8 by default     *)
          MaxFailures,       (* max_failures of the Agent: 3              *)
          MaxDrifts          (* replies off schema in a row: 3            *)

ASSUME LimitsAssumption == /\ MaxSteps \in Nat \ {0}
                           /\ MaxFailures \in Nat \ {0}
                           /\ MaxDrifts \in Nat \ {0}

VARIABLES server,            (* where the handler of server.js stands     *)
          agent,             (* where the process of agent.py stands      *)
          exit,              (* how the process is going to exit          *)
          step,              (* steps taken                               *)
          drifts,            (* _consecutive_drifts                       *)
          misses,            (* consecutive failures of the Agent         *)
          seen,              (* RESULT_PAGE_NAVIGATION_SEEN               *)
          onResults,         (* the page state mentions a results page    *)
          done,              (* the done action of the run, if any        *)
          uploaded           (* requests whose report is in 0G Storage    *)

agentVars == <<exit, step, drifts, misses, seen, onResults, done>>
vars == <<server, agent, agentVars, uploaded>>

Replies == {"act", "look", "results", "done", "giveUp", "quit", "offSchema"}

Init == /\ server = [r \in Requests |-> "idle"]
        /\ agent = [r \in Requests |-> "off"]
        /\ exit = [r \in Requests |-> "none"]
        /\ step = [r \in Requests |-> 0]
        /\ drifts = [r \in Requests |-> 0]
        /\ misses = [r \in Requests |-> 0]
        /\ seen = [r \in Requests |-> FALSE]
        /\ onResults = [r \in Requests |-> FALSE]
        /\ done = [r \in Requests |-> "no"]
        /\ uploaded = {}

(***************************************************************************)
(* agent.py: the run of the browser agent.                                 *)
(***************************************************************************)

(* should_complete_visible_results: once a results page was asked for or is
   shown, these actions become done with success, a giveUp included; the field
   done is taken as it is. *)
Completes(r, reply) == /\ onResults[r] \/ seen[r]
                       /\ reply \in {"look", "results", "done", "giveUp"}

(* What the reply makes of the run.  Off schema: the third in a row is a done
   without success, the others a wait. *)
Outcome(r, reply) ==
    IF Completes(r, reply) THEN "rewritten"
    ELSE IF reply = "done" THEN "success"
    ELSE IF \/ reply \in {"giveUp", "quit"}
            \/ reply = "offSchema" /\ drifts[r] + 1 >= MaxDrifts THEN "failure"
    ELSE "no"

Succeeds(outcome) == outcome \in {"success", "rewritten"}

(* Mutant: is_successful() is not looked at. *)
LoopEndsDone(r, outcome, failures) ==
    /\ outcome # "no" \/ step[r] + 1 = MaxSteps \/ failures = MaxFailures
    /\ done' = [done EXCEPT ![r] = outcome]
    /\ agent' = [agent EXCEPT ![r] = IF outcome # "no" THEN "evidence" ELSE "stopping"]
    /\ exit' = [exit EXCEPT ![r] = IF outcome # "no" THEN "none" ELSE "bad"]

(* The loop of agent.run ends or goes on; main() demands a done that is a
   success, anything else is fail(), which reaches the finally clause. *)
LoopEnds(r, outcome, failures) ==
    /\ outcome # "no" \/ step[r] + 1 = MaxSteps \/ failures = MaxFailures
    /\ done' = [done EXCEPT ![r] = outcome]
    /\ agent' = [agent EXCEPT ![r] = IF Succeeds(outcome) THEN "evidence" ELSE "stopping"]
    /\ exit' = [exit EXCEPT ![r] = IF Succeeds(outcome) THEN "none" ELSE "bad"]

LoopGoesOn(r, outcome, failures) ==
    /\ outcome = "no" /\ step[r] + 1 < MaxSteps /\ failures < MaxFailures
    /\ UNCHANGED <<agent, exit, done>>

(* What the browser shows is up to the website. *)
PageChanges(r) == \E page \in BOOLEAN : onResults' = [onResults EXCEPT ![r] = page]

StepTaken(r, outcome, failures) ==
    /\ agent[r] = "steps"
    /\ PageChanges(r)
    /\ step' = [step EXCEPT ![r] = @ + 1]
    /\ misses' = [misses EXCEPT ![r] = failures]
    /\ LoopEnds(r, outcome, failures) \/ LoopGoesOn(r, outcome, failures)
    /\ UNCHANGED <<server, uploaded>>

(* Mutant: the counter is not reset when the run is stopped. *)
ReplyReadAndCounted(r, reply) ==
    /\ drifts' = [drifts EXCEPT ![r] = IF reply = "offSchema" THEN @ + 1 ELSE 0]
    /\ seen' = [seen EXCEPT ![r] = @ \/ (reply = "results" /\ ~onResults[r])]

(* ainvoke: the counter of replies off schema, and the flag, which is set when
   a results page is asked for, before anything has been navigated. *)
ReplyRead(r, reply) ==
    /\ drifts' = [drifts EXCEPT ![r] = IF reply = "offSchema" THEN (@ + 1) % MaxDrifts ELSE 0]
    /\ seen' = [seen EXCEPT ![r] = @ \/ (reply = "results" /\ ~onResults[r])]

Acts(r, reply) == reply \in {"act", "look", "results"} /\ ~Completes(r, reply)

(* A step whose action works. *)
AgentStep(r, reply) ==
    /\ StepTaken(r, Outcome(r, reply), 0)
    /\ ReplyRead(r, reply)

(* A step whose action fails: browser-use counts it and goes on, unless it is
   the last of MaxFailures in a row. *)
ActionFails(r, reply) == /\ Acts(r, reply)
                         /\ StepTaken(r, "no", misses[r] + 1)
                         /\ ReplyRead(r, reply)

(* The model cannot be reached, or its reply has no content. *)
ModelFails(r) == /\ StepTaken(r, "no", misses[r] + 1)
                 /\ UNCHANGED <<drifts, seen>>

(* fail() inside the run, when a screenshot was not written, or an exception
   in capture_final_screenshot, analyze_task_report or render_pdf_report. *)
RunAborts(r) ==
    /\ agent[r] \in {"steps", "evidence"}
    /\ agent' = [agent EXCEPT ![r] = "stopping"]
    /\ exit' = [exit EXCEPT ![r] = "bad"]
    /\ UNCHANGED <<server, step, drifts, misses, seen, onResults, done, uploaded>>

(* The final screenshot, the report and its PDF. *)
ReportRendered(r) ==
    /\ agent[r] = "evidence"
    /\ agent' = [agent EXCEPT ![r] = "stopping"]
    /\ exit' = [exit EXCEPT ![r] = "good"]
    /\ UNCHANGED <<server, step, drifts, misses, seen, onResults, done, uploaded>>

(* finally: browser_session.stop(), which leaves a browser with keep_alive
   open; only then is SUCCESS printed. *)
SessionStops(r) ==
    /\ agent[r] = "stopping"
    /\ agent' = [agent EXCEPT ![r] = "exited"]
    /\ UNCHANGED <<server, agentVars, uploaded>>

(* browser_session.stop() raises: the process ends without SUCCESS. *)
StopFails(r) ==
    /\ agent[r] = "stopping"
    /\ agent' = [agent EXCEPT ![r] = "exited"]
    /\ exit' = [exit EXCEPT ![r] = "bad"]
    /\ UNCHANGED <<server, step, drifts, misses, seen, onResults, done, uploaded>>

(***************************************************************************)
(* server.js and pythonAgent.js.                                           *)
(***************************************************************************)

(* The body and the configuration are in order and the interpreter is there:
   execFile.  The run begins at the submitted URL, a results page perhaps. *)
Execute(r) == /\ server[r] = "idle"
              /\ server' = [server EXCEPT ![r] = "agent"]
              /\ agent' = [agent EXCEPT ![r] = "steps"]
              /\ PageChanges(r)
              /\ UNCHANGED <<exit, step, drifts, misses, seen, done, uploaded>>

(* 400 or 500 before anything is started. *)
Refuse(r) == /\ server[r] = "idle"
             /\ server' = [server EXCEPT ![r] = "failed"]
             /\ UNCHANGED <<agent, agentVars, uploaded>>

(* execFile kills the process, at its timeout of 600 s or because it printed
   more than maxBuffer: SIGTERM skips the finally clause of agent.py. *)
AgentKilled(r) == /\ agent[r] \in {"steps", "evidence", "stopping"}
                  /\ agent' = [agent EXCEPT ![r] = "exited"]
                  /\ exit' = [exit EXCEPT ![r] = "killed"]
                  /\ UNCHANGED <<server, step, drifts, misses, seen, onResults, done, uploaded>>

(* Mutant: the report is taken as soon as it is rendered. *)
AgentCollectedAtOnce(r) ==
    /\ server[r] = "agent"
    /\ agent[r] = "exited" \/ exit[r] = "good"
    /\ server' = [server EXCEPT ![r] = IF exit[r] = "good" THEN "uploading" ELSE "failed"]
    /\ UNCHANGED <<agent, agentVars, uploaded>>

(* The callback of execFile: an exit code or a missing SUCCESS line rejects. *)
AgentCollected(r) == /\ server[r] = "agent"
                     /\ agent[r] = "exited"
                     /\ server' = [server EXCEPT ![r] = IF exit[r] = "good" THEN "uploading" ELSE "failed"]
                     /\ UNCHANGED <<agent, agentVars, uploaded>>

(* uploadReportToZeroGStorage, which has no timeout, then applyArtifactRetention
   and the answer. *)
UploadDone(r) == /\ server[r] = "uploading"
                 /\ uploaded' = uploaded \cup {r}
                 /\ server' = [server EXCEPT ![r] = "ok"]
                 /\ UNCHANGED <<agent, agentVars>>

(* The upload fails, before or after the storage has the report, or a
   screenshot cannot be deleted: 500 either way. *)
UploadFails(r) == /\ server[r] = "uploading"
                  /\ uploaded' \in {uploaded, uploaded \cup {r}}
                  /\ server' = [server EXCEPT ![r] = "failed"]
                  /\ UNCHANGED <<agent, agentVars>>

Agent(r) == \/ \E reply \in Replies : AgentStep(r, reply) \/ ActionFails(r, reply)
            \/ ModelFails(r) \/ RunAborts(r) \/ ReportRendered(r)
            \/ SessionStops(r) \/ StopFails(r)
Server(r) == Execute(r) \/ Refuse(r) \/ UploadDone(r) \/ UploadFails(r)
ExecFile(r) == AgentKilled(r) \/ AgentCollected(r)

Next == \E r \in Requests : Agent(r) \/ Server(r) \/ ExecFile(r)

Spec == Init /\ [][Next]_vars

(***************************************************************************)
(* Properties.                                                             *)
(***************************************************************************)

(* Every variable has its type. *)
TypeOK == /\ server \in [Requests -> {"idle", "agent", "uploading", "ok", "failed"}]
          /\ agent \in [Requests -> {"off", "steps", "evidence", "stopping", "exited"}]
          /\ exit \in [Requests -> {"none", "good", "bad", "killed"}]
          /\ step \in [Requests -> 0..MaxSteps]
          /\ drifts \in [Requests -> 0..(MaxDrifts - 1)]
          /\ misses \in [Requests -> 0..MaxFailures]
          /\ seen \in [Requests -> BOOLEAN]
          /\ onResults \in [Requests -> BOOLEAN]
          /\ done \in [Requests -> {"no", "success", "rewritten", "failure"}]
          /\ uploaded \in SUBSET Requests

(* The handler does not answer while the agent is at work; a report in the
   storage is of a process that was not killed and whose run ended with a
   done that is a success, be it one that the code rewrote. *)
ReportIsEarned == \A r \in Requests :
    /\ server[r] \in {"uploading", "ok", "failed"} => agent[r] \in {"off", "exited"}
    /\ r \in uploaded => exit[r] = "good" /\ Succeeds(done[r])

(* The orchestrator does what its caller is promised. *)
Run(r) == IF agent[r] = "off" THEN "off"
          ELSE IF agent[r] # "exited" THEN "running"
          ELSE IF exit[r] = "good" THEN "good" ELSE "bad"
Promise == INSTANCE BrowserRun WITH run <- [r \in Requests |-> Run(r)]
BrowserRunSpec == Promise!RunSpec
=============================================================================

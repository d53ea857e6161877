----------------------------- MODULE BrowserRun -----------------------------
(***************************************************************************)
(* What the orchestrator of src/node-nexus-agent promises its caller: a    *)
(* request is answered as successful only after a run that ended well and  *)
(* an upload of its report.  NodeNexus implements it; ToolCalls puts it    *)
(* behind the browser plugin.  Nothing is promised of the browser: its     *)
(* profile says keep_alive, so stop() leaves it open after a good run too. *)
(***************************************************************************)
CONSTANTS Requests           (* requests to /mcp/execute                  *)

VARIABLES server,            (* where the handler of server.js stands     *)
          run,               (* the process of agent.py                   *)
          uploaded           (* requests whose report is in 0G Storage    *)

runVars == <<server, run, uploaded>>

RunInit == /\ server = [r \in Requests |-> "idle"]
           /\ run = [r \in Requests |-> "off"]
           /\ uploaded = {}

(* The request is in order: execFile. *)
Execute(r) == /\ server[r] = "idle"
              /\ server' = [server EXCEPT ![r] = "agent"]
              /\ run' = [run EXCEPT ![r] = "running"]
              /\ UNCHANGED uploaded

(* 400 or 500 before anything is started. *)
Refuse(r) == /\ server[r] = "idle"
             /\ server' = [server EXCEPT ![r] = "failed"]
             /\ UNCHANGED <<run, uploaded>>

(* The process prints SUCCESS, which it does after its finally clause. *)
RunSucceeds(r) == /\ run[r] = "running"
                  /\ run' = [run EXCEPT ![r] = "good"]
                  /\ UNCHANGED <<server, uploaded>>

(* It fails or is killed. *)
RunFails(r) == /\ run[r] = "running"
               /\ run' = [run EXCEPT ![r] = "bad"]
               /\ UNCHANGED <<server, uploaded>>

Collected(r) == /\ server[r] = "agent" /\ run[r] \in {"good", "bad"}
                /\ server' = [server EXCEPT ![r] = IF run[r] = "good" THEN "uploading" ELSE "failed"]
                /\ UNCHANGED <<run, uploaded>>

Uploaded(r) == /\ server[r] = "uploading"
               /\ uploaded' = uploaded \cup {r}
               /\ server' = [server EXCEPT ![r] = "ok"]
               /\ UNCHANGED run

UploadLost(r) == /\ server[r] = "uploading"
                 /\ uploaded' \in {uploaded, uploaded \cup {r}}
                 /\ server' = [server EXCEPT ![r] = "failed"]
                 /\ UNCHANGED run

RunNext == \E r \in Requests : \/ Execute(r) \/ Refuse(r) \/ RunSucceeds(r) \/ RunFails(r)
                               \/ Collected(r) \/ Uploaded(r) \/ UploadLost(r)

RunSpec == RunInit /\ [][RunNext]_runVars

RunTypeOK == /\ server \in [Requests -> {"idle", "agent", "uploading", "ok", "failed"}]
             /\ run \in [Requests -> {"off", "running", "good", "bad"}]
             /\ uploaded \in SUBSET Requests
=============================================================================

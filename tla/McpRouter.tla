----------------------------- MODULE McpRouter -----------------------------
(***************************************************************************)
(* The MCP router (src/integrations/mcp_routing/mcp_router.py): one        *)
(* asyncio process with a registry in memory, behind which MCP servers     *)
(* register, and a handler, handle_route, that looks a service up, posts   *)
(* the request to its endpoint and, after the await, writes the verdict    *)
(* into the registry.  Between the lookup and the verdict the entry may be *)
(* replaced or removed by /register: services[name]["healthy"] = ... then  *)
(* raises KeyError, in the except clause too, and aiohttp answers 500.     *)
(*                                                                         *)
(* An entry is its presence in registered and its flag (healthy).  changes *)
(* and sawChange are history: how often the entry of a service came or     *)
(* went, and that count when a call looked it up.                          *)
(***************************************************************************)
EXTENDS Naturals

CONSTANTS Calls,             (* the calls to /route                       *)
          Services           (* names under which MCP servers register    *)

VARIABLES registered,        (* the keys of services                      *)
          healthy,           (* the entries with "healthy": True          *)
          changes,           (* how often the entry came or went          *)
          route,             (* the call's handler, or what it answered   *)
          target,            (* the service a call was posted to          *)
          sawChange          (* changes of that service at its lookup     *)

routerVars == <<registered, healthy, changes, route, target, sawChange>>

Answers == {"ok", "empty", "notFound", "badService", "timeout", "crashed"}

RouterInit == /\ registered = {}
              /\ healthy = {}
              /\ changes = [s \in Services |-> 0]
              /\ route = [c \in Calls |-> "none"]
              /\ target \in [Calls -> Services]
              /\ sawChange = [c \in Calls |-> 0]

(* handle_register: a new entry, healthy whatever the old one was. *)
Register(s) == /\ registered' = registered \cup {s}
               /\ healthy' = healthy \cup {s}
               /\ changes' = [changes EXCEPT ![s] = @ + 1]
               /\ UNCHANGED <<route, target, sawChange>>

(* handle_deregister; 404 for a name that is not registered. *)
Deregister(s) == /\ s \in registered
                 /\ registered' = registered \ {s}
                 /\ healthy' = healthy \ {s}
                 /\ changes' = [changes EXCEPT ![s] = @ + 1]
                 /\ UNCHANGED <<route, target, sawChange>>

(* handle_route up to the post; the flag of an entry is not consulted. *)
Forward(c) == /\ route[c] = "none"
              /\ target[c] \in registered
              /\ route' = [route EXCEPT ![c] = "awaiting"]
              /\ sawChange' = [sawChange EXCEPT ![c] = changes[target[c]]]
              /\ UNCHANGED <<registered, healthy, changes, target>>

(* handle_route for a name that is not registered: 404. *)
NotFound(c) == /\ route[c] = "none"
               /\ target[c] \notin registered
               /\ route' = [route EXCEPT ![c] = "notFound"]
               /\ UNCHANGED <<registered, healthy, changes, target, sawChange>>

(* Mutant: the entry of a service that failed is deleted. *)
ConcludeAndEvict(c, well, answer) ==
    /\ route[c] = "awaiting"
    /\ route' = [route EXCEPT ![c] = IF target[c] \in registered THEN answer ELSE "crashed"]
    /\ registered' = IF well THEN registered ELSE registered \ {target[c]}
    /\ healthy' = healthy \cap registered'
    /\ UNCHANGED <<changes, target, sawChange>>

(* The rest of handle_route, once the service has answered or failed: the
   flag is written if the entry is there, otherwise KeyError is answered
   500 by aiohttp, whatever the service said. *)
Conclude(c, well, answer) ==
    /\ route[c] = "awaiting"
    /\ IF target[c] \in registered
       THEN /\ healthy' = IF well THEN healthy \cup {target[c]} ELSE healthy \ {target[c]}
            /\ route' = [route EXCEPT ![c] = answer]
       ELSE /\ healthy' = healthy
            /\ route' = [route EXCEPT ![c] = "crashed"]
    /\ UNCHANGED <<registered, changes, target, sawChange>>

Answered(c)     == Conclude(c, TRUE, "ok")
(* A status other than 200 and 204, an undecodable body, a lost connection. *)
ServiceFails(c) == Conclude(c, FALSE, "badService")
TimesOut(c)     == Conclude(c, FALSE, "timeout")
(* 204: the registry is not touched. *)
NoContent(c)    == /\ route[c] = "awaiting"
                   /\ route' = [route EXCEPT ![c] = "empty"]
                   /\ UNCHANGED <<registered, healthy, changes, target, sawChange>>

RouterTypeOK == /\ registered \in SUBSET Services
                /\ healthy \in SUBSET registered
                /\ changes \in [Services -> Nat]
                /\ route \in [Calls -> {"none", "awaiting"} \cup Answers]
                /\ target \in [Calls -> Services]
                /\ sawChange \in [Calls -> Nat]
=============================================================================

----------------------------- MODULE Discovery -----------------------------
(***************************************************************************)
(* How daemons learn of one another (platform/daemon/service.py and        *)
(* state.py).  Every 45 s a daemon pushes a signed advertisement to its    *)
(* peers, who relay it once, and asks its peers for the latest             *)
(* advertisements they know.  live_nodes shows a worker as long as its     *)
(* latest advertisement is not older than its TTL.                         *)
(*                                                                         *)
(* Time is a count of periods: in each of them every running daemon runs   *)
(* announce_loop and discovery_loop once, in any order, and a message      *)
(* reaches a daemon whose recv_loop is not blocked before the period ends, *)
(* unless it is lost.  So an advertisement of period t is, in period now,  *)
(* less than now - t + 1 and more than now - t - 1 periods old.            *)
(***************************************************************************)
EXTENDS Naturals

CONSTANTS
    Daemons,
    Workers,     (* daemons that offer a capability and execute tasks       *)
    Watched,     (* the workers whose advertisements are followed: those of *)
                 (* others do not bear on them and are left out             *)
    Peers,       (* Peers[d]: seed_peer_ids of d, from its AXL node         *)
    Period, TTL, (* in seconds: 45 and 120                                  *)
    MaxPeriods,  (* bound on now                                            *)
    MaxLost,     (* bound on the number of messages lost                    *)
    MaxCrashes   (* bound on the number of crashes                          *)

ASSUME DiscoveryAssumption ==
    /\ Workers \subseteq Daemons /\ Watched \subseteq Workers
    /\ Peers \in [Daemons -> SUBSET Daemons]
    /\ \A d \in Daemons : d \notin Peers[d]
    /\ {Period, TTL, MaxPeriods, MaxLost, MaxCrashes} \subseteq Nat

(* An advertisement is an event of its own each time it is signed: only an  *)
(* "announced" one is pushed, an "unpublished" one travels in responses.    *)
Ads == [by : Watched, at : 0..MaxPeriods, how : {"announced", "unpublished"}]

Messages ==
    [kind : {"node_advertisement"}, from : Daemons, to : Daemons, ad : Ads]
    \cup [kind : {"discover_request"}, from : Daemons, to : Daemons, at : 0..MaxPeriods]
    \cup [kind : {"discover_response"}, to : Daemons, ads : SUBSET Ads]

VARIABLES
    now,         (* the current period                                      *)
    up,          (* up[d]: is the daemon running?                           *)
    since,       (* since[d]: the period of its last start                  *)
    announced,   (* daemons that have announced in this period              *)
    asked,       (* daemons that have sent their requests in this period    *)
    busy,        (* busy[d]: recv_loop is blocked by the execution of a task *)
    lag,         (* lag[d]: it was blocked when a period ended and has not   *)
                 (* caught up by the end of a later one                     *)
    log,         (* log[d]: advertisements in the event log of d            *)
    net,         (* messages under way or in the queue of an AXL node       *)
    lost, crashes

procVars == <<up, since, busy>>
loopVars == <<announced, asked>>
vars     == <<now, procVars, loopVars, lag, log, net, lost, crashes>>

-----------------------------------------------------------------------------
(* Mutant: an advertisement is dated by the end of its period. *)
OwnDatedAhead(d, how) ==
    IF d \in Watched THEN {[by |-> d, at |-> now + 1, how |-> how]} ELSE {}

(* current_advertisement_envelope, as something to add to a log. *)
Own(d, how) ==
    IF d \in Watched THEN {[by |-> d, at |-> now, how |-> how]} ELSE {}

(* publish_advertisement to each of peers. *)
Publish(d, ads, peers) ==
    [kind : {"node_advertisement"}, from : {d}, to : peers, ad : ads]

(* The choices latest_node_advertisement_envelopes has in log L: for each   *)
(* signer an advertisement of the latest period.                            *)
LatestOf(L) ==
    {R \in SUBSET L :
        /\ \A a \in R : \A b \in L : b.by = a.by => b.at <= a.at
        /\ \A b \in L : \E a \in R : a.by = b.by
        /\ \A a, b \in R : a.by = b.by => a = b}

(* d takes message m out of the queue of its node. *)
Take(d, m) ==
    /\ up[d] /\ ~busy[d]
    /\ m \in net /\ m.to = d

-----------------------------------------------------------------------------
Init ==
    /\ now = 0
    /\ up = [d \in Daemons |-> TRUE]
    /\ since = [d \in Daemons |-> 0]
    /\ announced = {} /\ asked = {}
    /\ busy = [d \in Daemons |-> FALSE]
    /\ lag = [d \in Daemons |-> FALSE]
    /\ log = [d \in Daemons |-> Own(d, "unpublished")]
    /\ net = {}
    /\ lost = 0 /\ crashes = 0

(* announce_loop: announce_current_advertisement. *)
Announce(d) ==
    /\ up[d] /\ d \notin announced
    /\ announced' = announced \cup {d}
    /\ log' = [log EXCEPT ![d] = @ \cup Own(d, "announced")]
    /\ net' = net \cup Publish(d, Own(d, "announced"), Peers[d])
    /\ UNCHANGED <<now, procVars, asked, lag, lost, crashes>>

(* discovery_loop: discover_remote_nodes with depth 1.  The appends of      *)
(* advertisement_loop and of GET /nodes tell no one and add nothing to what *)
(* is appended here and by HandleRequest.                                   *)
Discover(d) ==
    /\ up[d] /\ d \notin asked
    /\ asked' = asked \cup {d}
    /\ log' = [log EXCEPT ![d] = @ \cup Own(d, "unpublished")]
    /\ net' = net \cup [kind : {"discover_request"}, from : {d}, to : Peers[d], at : {now}]
    /\ UNCHANGED <<now, procVars, announced, lag, lost, crashes>>

-----------------------------------------------------------------------------
(* handle_demo_message *)

(* Mutant: advertisements are stored but not relayed. *)
HandleAdWithoutRelay(d, m) ==
    /\ Take(d, m) /\ m.kind = "node_advertisement"
    /\ log' = [log EXCEPT ![d] = @ \cup {m.ad}]
    /\ net' = net \ {m}
    /\ UNCHANGED <<now, procVars, loopVars, lag, lost, crashes>>

(* store_and_relay_advertisement: one that the log has is not relayed. *)
HandleAd(d, m) ==
    /\ Take(d, m) /\ m.kind = "node_advertisement"
    /\ log' = [log EXCEPT ![d] = @ \cup {m.ad}]
    /\ net' = (net \ {m}) \cup
                 IF m.ad \in log[d] THEN {}
                 ELSE Publish(d, {m.ad}, Peers[d] \ {m.ad.by, m.from})
    /\ UNCHANGED <<now, procVars, loopVars, lag, lost, crashes>>

(* Mutant: the answer holds what the log has, nothing is appended. *)
HandleRequestFromLog(d, m) ==
    /\ Take(d, m) /\ m.kind = "discover_request"
    /\ \E R \in LatestOf(log[d]) :
          net' = (net \ {m}) \cup
                    {[kind |-> "discover_response", to |-> m.from, ads |-> R]}
    /\ UNCHANGED <<now, procVars, loopVars, lag, log, lost, crashes>>

(* discover_request: a fresh own advertisement is appended; being the       *)
(* latest of d, it is in the answer, with the latest ones of the others.    *)
HandleRequest(d, m) ==
    /\ Take(d, m) /\ m.kind = "discover_request"
    /\ log' = [log EXCEPT ![d] = @ \cup Own(d, "unpublished")]
    /\ \E R \in LatestOf({ad \in log[d] : ad.by # d}) :
          net' = (net \ {m}) \cup
                    {[kind |-> "discover_response", to |-> m.from,
                      ads |-> R \cup Own(d, "unpublished")]}
    /\ UNCHANGED <<now, procVars, loopVars, lag, lost, crashes>>

(* discover_response: import_many, without a relay. *)
HandleResponse(d, m) ==
    /\ Take(d, m) /\ m.kind = "discover_response"
    /\ log' = [log EXCEPT ![d] = @ \cup m.ads]
    /\ net' = net \ {m}
    /\ UNCHANGED <<now, procVars, loopVars, lag, lost, crashes>>

(* recv_loop awaits the execution of a task: up to 660 s for browser_task.  *)
StartTask(d) ==
    /\ d \in Workers /\ up[d] /\ ~busy[d]
    /\ busy' = [busy EXCEPT ![d] = TRUE]
    /\ UNCHANGED <<now, up, since, loopVars, lag, log, net, lost, crashes>>

EndTask(d) ==
    /\ busy[d]
    /\ busy' = [busy EXCEPT ![d] = FALSE]
    /\ UNCHANGED <<now, up, since, loopVars, lag, log, net, lost, crashes>>

-----------------------------------------------------------------------------
(* The surroundings *)

(* A send raises, or the message is dropped on its way. *)
Lose(m) ==
    /\ m \in net /\ lost < MaxLost
    /\ net' = net \ {m}
    /\ lost' = lost + 1
    /\ UNCHANGED <<now, procVars, loopVars, lag, log, crashes>>

Crash(d) ==
    /\ up[d] /\ crashes < MaxCrashes
    /\ crashes' = crashes + 1
    /\ up' = [up EXCEPT ![d] = FALSE]
    /\ busy' = [busy EXCEPT ![d] = FALSE]
    /\ UNCHANGED <<now, since, loopVars, lag, log, net, lost>>

(* startup appends an advertisement; the loops begin anew. *)
Restart(d) ==
    /\ ~up[d]
    /\ up' = [up EXCEPT ![d] = TRUE]
    /\ since' = [since EXCEPT ![d] = now]
    /\ announced' = announced \ {d}
    /\ asked' = asked \ {d}
    /\ lag' = [lag EXCEPT ![d] = FALSE]
    /\ log' = [log EXCEPT ![d] = @ \cup Own(d, "unpublished")]
    /\ UNCHANGED <<now, busy, net, lost, crashes>>

(* A period ends when every running daemon has done its rounds and every    *)
(* recv_loop that is not blocked has handled what was sent to it.           *)
Tick ==
    /\ now < MaxPeriods
    /\ \A d \in Daemons : up[d] => d \in announced \cap asked
    /\ \A m \in net : up[m.to] => busy[m.to]
    /\ now' = now + 1
    /\ announced' = {} /\ asked' = {}
    /\ lag' = busy
    /\ UNCHANGED <<procVars, log, net, lost, crashes>>

DaemonStep(d) ==
    \/ Announce(d) \/ Discover(d)
    \/ \E m \in net : HandleAd(d, m) \/ HandleRequest(d, m) \/ HandleResponse(d, m)
    \/ StartTask(d) \/ EndTask(d) \/ Crash(d) \/ Restart(d)

Next ==
    \/ \E d \in Daemons : DaemonStep(d)
    \/ \E m \in net : Lose(m)
    \/ Tick

Spec == Init /\ [][Next]_vars
-----------------------------------------------------------------------------
(* Properties *)

(* Every variable keeps its type. *)
TypeOK ==
    /\ now \in 0..MaxPeriods
    /\ up \in [Daemons -> BOOLEAN]
    /\ since \in [Daemons -> 0..now]
    /\ announced \subseteq Daemons /\ asked \subseteq Daemons
    /\ busy \in [Daemons -> BOOLEAN]
    /\ lag \in [Daemons -> BOOLEAN]
    /\ log \in [Daemons -> SUBSET Ads]
    /\ \A d \in Daemons : \A a \in log[d] : a.at <= now
    /\ net \subseteq Messages
    /\ lost \in 0..MaxLost /\ crashes \in 0..MaxCrashes

(* d shows w, wherever in their periods the two moments lie. *)
Shows(d, w) == \E a \in log[d] : a.by = w /\ (now - a.at + 1) * Period <= TTL

(* d knows w but cannot show it, wherever in their periods the moments lie. *)
Hides(d, w) ==
    /\ \E a \in log[d] : a.by = w
    /\ \A a \in log[d] : a.by = w => now > a.at /\ (now - a.at - 1) * Period > TTL

(* All daemons run and have completed a period since they started. *)
Running == \A d \in Daemons : up[d] /\ since[d] < now

(* Those d may get a message from or ask. *)
Neighbours(d) == {e \in Daemons : e \in Peers[d] \/ d \in Peers[e]}

(* d is w, or w pushes to it, or to a daemon e that pushes to d, and all     *)
(* others e deals with (B) can hear of w only through e or d.               *)
Near(d, w) ==
    \/ d = w \/ d \in Peers[w]
    \/ \E e \in Peers[w], B \in SUBSET (Daemons \ {w}) :
          /\ d \in Peers[e]
          /\ Neighbours(e) \subseteq B \cup {w, d}
          /\ \A x \in B : Neighbours(x) \subseteq B \cup {e, d}

(* As long as nothing is lost, live_nodes of a daemon shows a running       *)
(* worker, even while the worker itself is busy with a task, provided that  *)
(* the other recv_loops keep up and the worker is near.  (Otherwise a       *)
(* daemon on the way may have imported the advertisement from a response    *)
(* before it is pushed there; it is then not new, and not relayed.)         *)
WorkersStayVisible ==
    \A w \in Watched, d \in Daemons :
        /\ Near(d, w) /\ Running /\ lost = 0
        /\ \A e \in Daemons \ {w} : ~lag[e]
        => Shows(d, w)

(* Pushing and asking back one another up: one lost message does not hide   *)
(* a worker from its direct peers.                                          *)
OneLossIsTolerated ==
    \A w \in Watched, d \in Daemons :
        /\ Running /\ lost <= 1
        /\ w \in Peers[d] /\ d \in Peers[w]
        /\ \A e \in Daemons : ~lag[e]
        => Shows(d, w)

(* What service.py:837-842 says of live_nodes: with advertisements that are *)
(* refreshed every 45 s, the TTL is a sufficient sign of a live worker.  It *)
(* fails for a daemon that executes a long task: its recv_loop does not     *)
(* handle the advertisements that arrive meanwhile.                         *)
LiveNodesAreShown ==
    \A w \in Watched, d \in Daemons : Running => ~Hides(d, w)
=============================================================================

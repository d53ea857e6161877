-------------------------- MODULE DiscoveryProofs --------------------------
(***************************************************************************)
(* TLAPS proofs about Discovery for any daemons, peers and periods, and    *)
(* any number of crashes and losses: types; that one loss does not hide a  *)
(* worker from its direct peers; that without a loss a worker is shown at  *)
(* every daemon within two hops; and that a worker that is gone is hidden. *)
(*                                                                         *)
(* For two direct peers, Paths follows the advertisement that is pushed    *)
(* and the one that is asked for through the current period, and Seen says *)
(* what the last one has left.  ReachInv does so for the way over a relay. *)
(***************************************************************************)
EXTENDS Discovery, Integers, TLAPS

(* What is under way was signed before. *)
Dated(m) ==
    /\ m.kind = "node_advertisement" => m.ad.at <= now
    /\ m.kind = "discover_response" => \A a \in m.ads : a.at <= now

TypeInv == TypeOK /\ \A m \in net : Dated(m)

LEMMA MessageKinds ==
    ASSUME NEW m \in Messages
    PROVE  /\ m.kind \in {"node_advertisement", "discover_request", "discover_response"}
           /\ m.to \in Daemons
           /\ m.kind = "node_advertisement" => m.ad \in Ads /\ m.from \in Daemons
           /\ m.kind = "discover_request" => m.from \in Daemons
           /\ m.kind = "discover_response" => m.ads \in SUBSET Ads
BY DEF Messages

LEMMA OwnIs ==
    ASSUME TypeOK, NEW d \in Daemons, NEW how \in {"announced", "unpublished"}
    PROVE  /\ Own(d, how) \in SUBSET Ads
           /\ \A a \in Own(d, how) : a.at = now /\ a.by = d
           /\ d \in Watched => [by |-> d, at |-> now, how |-> how] \in Own(d, how)
BY DEF TypeOK, Own, Ads

LEMMA PublishIs ==
    ASSUME NEW d \in Daemons, NEW ads \in SUBSET Ads, NEW peers \in SUBSET Daemons
    PROVE  /\ Publish(d, ads, peers) \subseteq Messages
           /\ \A m \in Publish(d, ads, peers) : m.kind = "node_advertisement" /\ m.ad \in ads
           /\ \A a \in ads, e \in peers :
                  [kind |-> "node_advertisement", from |-> d, to |-> e, ad |-> a] \in Publish(d, ads, peers)
BY DEF Publish, Messages

LEMMA InitTypeInv == Init => TypeInv
<1> SUFFICES ASSUME Init PROVE TypeInv
  OBVIOUS
<1>0. MaxPeriods \in Nat /\ MaxLost \in Nat /\ MaxCrashes \in Nat BY DiscoveryAssumption
<1>1. ASSUME NEW d \in Daemons
      PROVE  Own(d, "unpublished") \in SUBSET Ads /\ \A a \in Own(d, "unpublished") : a.at = 0
  <2>1. now = 0 /\ 0 \in 0..MaxPeriods BY <1>0 DEF Init
  <2> QED BY <2>1 DEF Own, Ads
<1>2. TypeOK BY <1>0, <1>1 DEF Init, TypeOK
<1> QED BY <1>2 DEF TypeInv, Init

(* What a log or the network takes up is dated. *)
LEMMA Appends ==
    ASSUME TypeInv, NEW d \in Daemons, NEW ads \in SUBSET Ads, \A a \in ads : a.at <= now,
           log' = [log EXCEPT ![d] = @ \cup ads], now' = now
    PROVE  /\ log' \in [Daemons -> SUBSET Ads]
           /\ \A e \in Daemons : \A a \in log'[e] : a.at <= now'
           /\ \A e \in Daemons : log[e] \subseteq log'[e]
           /\ ads \subseteq log'[d]
<1>1. log'[d] = log[d] \cup ads /\ \A e \in Daemons : e # d => log'[e] = log[e]
  BY DEF TypeInv, TypeOK
<1> QED BY <1>1 DEF TypeInv, TypeOK

LEMMA Sends ==
    ASSUME TypeInv, NEW new \in SUBSET Messages, \A m \in new : Dated(m), net' \subseteq net \cup new, now' = now
    PROVE  net' \subseteq Messages /\ \A m \in net' : Dated(m)'
BY DEF TypeInv, TypeOK, Dated

(* Every step of a daemon only adds to its log and takes at most one message,
   its own, from the network; it adds what it publishes, asks or answers. *)
LEMMA DaemonTypeInv ==
    ASSUME TypeInv, NEW d \in Daemons, DaemonStep(d)
    PROVE  TypeInv'
<1>0. TypeOK BY DEF TypeInv
<1> USE DiscoveryAssumption
<1>p. Peers[d] \in SUBSET Daemons OBVIOUS
<1>n. now \in Nat /\ now <= now
  <2>1. MaxPeriods \in Nat OBVIOUS
  <2> QED BY <1>0, <2>1 DEF TypeOK
<1>u. Own(d, "unpublished") \in SUBSET Ads /\ \A a \in Own(d, "unpublished") : a.at <= now
  <2>1. "unpublished" \in {"announced", "unpublished"} OBVIOUS
  <2>2. Own(d, "unpublished") \in SUBSET Ads /\ \A a \in Own(d, "unpublished") : a.at = now
    BY <1>0, <2>1, OwnIs
  <2> QED BY <1>n, <2>2
<1>1. CASE Announce(d)
  <2>1. Own(d, "announced") \in SUBSET Ads /\ \A a \in Own(d, "announced") : a.at <= now
    <3>1. Own(d, "announced") \in SUBSET Ads /\ \A a \in Own(d, "announced") : a.at = now
      BY <1>0, OwnIs
    <3> QED BY <1>n, <3>1
  <2>2. /\ log' \in [Daemons -> SUBSET Ads] /\ \A e \in Daemons : \A a \in log'[e] : a.at <= now'
    BY <1>1, <2>1, Appends DEF Announce
  <2> DEFINE new == Publish(d, Own(d, "announced"), Peers[d])
  <2>3. new \in SUBSET Messages /\ \A m \in new : Dated(m)
    BY <1>p, <2>1, PublishIs DEF Dated
  <2>4. net' = net \cup new /\ now' = now BY <1>1 DEF Announce
  <2> HIDE DEF new
  <2>5. net' \subseteq Messages /\ \A m \in net' : Dated(m)' BY <2>3, <2>4, Sends
  <2> QED BY <1>0, <1>1, <2>2, <2>5 DEF Announce, TypeInv, TypeOK, procVars
<1>2. CASE Discover(d)
  <2>1. /\ log' \in [Daemons -> SUBSET Ads] /\ \A e \in Daemons : \A a \in log'[e] : a.at <= now'
    BY <1>2, <1>u, Appends DEF Discover
  <2> DEFINE new == [kind : {"discover_request"}, from : {d}, to : Peers[d], at : {now}]
  <2>2. new \in SUBSET Messages /\ \A m \in new : m.kind = "discover_request"
    BY <1>0, <1>p DEF TypeOK, Messages
  <2>3. net' = net \cup new /\ now' = now BY <1>2 DEF Discover
  <2> HIDE DEF new
  <2>4. net' \subseteq Messages /\ \A m \in net' : Dated(m)' BY <2>2, <2>3, Sends DEF Dated
  <2> QED BY <1>0, <1>2, <2>1, <2>4 DEF Discover, TypeInv, TypeOK, procVars
<1>3. ASSUME NEW m \in net, HandleAd(d, m) PROVE TypeInv'
  <2>1. m.ad \in Ads /\ m.ad.at <= now
    BY <1>0, <1>3, MessageKinds DEF HandleAd, TypeInv, TypeOK, Dated
  <2>2. /\ log' \in [Daemons -> SUBSET Ads] /\ \A e \in Daemons : \A a \in log'[e] : a.at <= now'
    <3>1. {m.ad} \in SUBSET Ads /\ \A a \in {m.ad} : a.at <= now BY <2>1
    <3> QED BY <1>3, <3>1, Appends DEF HandleAd
  <2> DEFINE new == Publish(d, {m.ad}, Peers[d] \ {m.ad.by, m.from})
  <2>3. new \in SUBSET Messages /\ \A n \in new : Dated(n)
    <3>1. {m.ad} \in SUBSET Ads /\ Peers[d] \ {m.ad.by, m.from} \in SUBSET Daemons BY <1>p, <2>1
    <3> QED BY <2>1, <3>1, PublishIs DEF Dated
  <2>4. net' \subseteq net \cup new /\ now' = now BY <1>3 DEF HandleAd
  <2> HIDE DEF new
  <2>5. net' \subseteq Messages /\ \A n \in net' : Dated(n)' BY <2>3, <2>4, Sends
  <2> QED BY <1>0, <1>3, <2>2, <2>5 DEF HandleAd, TypeInv, TypeOK, procVars, loopVars
<1>4. ASSUME NEW m \in net, HandleRequest(d, m) PROVE TypeInv'
  <2>1. /\ log' \in [Daemons -> SUBSET Ads] /\ \A e \in Daemons : \A a \in log'[e] : a.at <= now'
    BY <1>4, <1>u, Appends DEF HandleRequest
  <2>2. PICK R \in LatestOf({ad \in log[d] : ad.by # d}) :
            net' = (net \ {m}) \cup
                       {[kind |-> "discover_response", to |-> m.from, ads |-> R \cup Own(d, "unpublished")]}
    BY <1>4 DEF HandleRequest
  <2>3. R \subseteq log[d] BY DEF LatestOf
  <2> DEFINE answer == [kind |-> "discover_response", to |-> m.from, ads |-> R \cup Own(d, "unpublished")]
  <2>4. m.from \in Daemons BY <1>0, <1>4, MessageKinds DEF HandleRequest, TypeOK
  <2>5. R \cup Own(d, "unpublished") \in SUBSET Ads /\ \A a \in R \cup Own(d, "unpublished") : a.at <= now
    BY <1>0, <1>u, <2>3 DEF TypeOK
  <2>6. answer \in Messages /\ Dated(answer) BY <2>4, <2>5 DEF Messages, Dated
  <2>7. net' \subseteq net \cup {answer} /\ now' = now BY <1>4, <2>2 DEF HandleRequest
  <2> HIDE DEF answer
  <2>8. {answer} \in SUBSET Messages /\ \A n \in {answer} : Dated(n) BY <2>6
  <2>9. net' \subseteq Messages /\ \A n \in net' : Dated(n)' BY <2>7, <2>8, Sends
  <2> QED BY <1>0, <1>4, <2>1, <2>9 DEF HandleRequest, TypeInv, TypeOK, procVars, loopVars
<1>5. ASSUME NEW m \in net, HandleResponse(d, m) PROVE TypeInv'
  <2>1. m.ads \in SUBSET Ads /\ \A a \in m.ads : a.at <= now
    BY <1>0, <1>5, MessageKinds DEF HandleResponse, TypeInv, TypeOK, Dated
  <2>2. /\ log' \in [Daemons -> SUBSET Ads] /\ \A e \in Daemons : \A a \in log'[e] : a.at <= now'
    BY <1>5, <2>1, Appends DEF HandleResponse
  <2>3. net' \subseteq net /\ now' = now BY <1>5 DEF HandleResponse
  <2>4. net' \subseteq Messages /\ \A n \in net' : Dated(n)' BY <1>0, <2>3 DEF TypeInv, TypeOK, Dated
  <2> QED BY <1>0, <1>5, <2>2, <2>4 DEF HandleResponse, TypeInv, TypeOK, procVars, loopVars
<1>6. CASE StartTask(d) \/ EndTask(d)
  <2>1. /\ UNCHANGED <<now, up, since, loopVars, lag, log, net, lost, crashes>>
        /\ busy' \in [Daemons -> BOOLEAN]
    BY <1>0, <1>6 DEF StartTask, EndTask, TypeOK
  <2> QED BY <1>0, <2>1 DEF TypeInv, TypeOK, Dated, loopVars
<1>7. CASE Crash(d)
  <2>1. crashes' \in 0..MaxCrashes BY <1>0, <1>7 DEF Crash, TypeOK
  <2> QED BY <1>0, <1>7, <2>1 DEF Crash, TypeInv, TypeOK, Dated, loopVars
<1>8. CASE Restart(d)
  <2>1. /\ log' \in [Daemons -> SUBSET Ads] /\ \A e \in Daemons : \A a \in log'[e] : a.at <= now'
    BY <1>8, <1>u, Appends DEF Restart
  <2>2. since' \in [Daemons -> 0..now'] BY <1>0, <1>8 DEF Restart, TypeOK
  <2> QED BY <1>0, <1>8, <2>1, <2>2 DEF Restart, TypeInv, TypeOK, Dated
<1> QED BY <1>1, <1>2, <1>3, <1>4, <1>5, <1>6, <1>7, <1>8 DEF DaemonStep

LEMMA TypeInvStep == TypeInv /\ [Next]_vars => TypeInv'
<1> SUFFICES ASSUME TypeInv, [Next]_vars PROVE TypeInv'
  OBVIOUS
<1>0. TypeOK BY DEF TypeInv
<1>1. ASSUME NEW m \in net, Lose(m) PROVE TypeInv'
  <2>1. lost' \in 0..MaxLost BY <1>0, <1>1, DiscoveryAssumption DEF Lose, TypeOK
  <2> QED BY <1>0, <1>1, <2>1 DEF Lose, TypeInv, TypeOK, Dated, procVars, loopVars
<1>2. CASE Tick
  <2>1. now \in Nat /\ now' = now + 1 /\ now' \in 0..MaxPeriods
    BY <1>0, <1>2, DiscoveryAssumption DEF Tick, TypeOK
  <2>2. \A d \in Daemons : \A a \in log'[d] : a.at <= now'
    BY <1>0, <1>2, <2>1 DEF Tick, TypeOK, Ads
  <2>3. since' \in [Daemons -> 0..now'] BY <1>0, <1>2, <2>1 DEF Tick, TypeOK, procVars
  <2>4. \A m \in net' : Dated(m)'
    <3> SUFFICES ASSUME NEW m \in net PROVE Dated(m)'
      BY <1>2 DEF Tick
    <3>1. m \in Messages /\ Dated(m) BY <1>0 DEF TypeInv, TypeOK
    <3> QED BY <2>1, <3>1, MessageKinds DEF Dated, Ads
  <2> QED BY <1>0, <1>2, <2>1, <2>2, <2>3, <2>4 DEF Tick, TypeInv, TypeOK, procVars
<1>3. CASE UNCHANGED vars
  BY <1>0, <1>3 DEF vars, TypeInv, TypeOK, Dated, procVars, loopVars
<1> QED BY <1>1, <1>2, <1>3, DaemonTypeInv DEF Next

LEMMA AlwaysTypeInv == Spec => []TypeInv
BY InitTypeInv, TypeInvStep, PTL DEF Spec

(* Every variable keeps its type, and no advertisement in a log is dated ahead. *)
THEOREM TypeCorrect == Spec => []TypeOK
<1>1. TypeInv => TypeOK BY DEF TypeInv
<1> QED BY <1>1, AlwaysTypeInv, PTL

-----------------------------------------------------------------------------
(* One loss. *)

(* The log of d has an advertisement of w of period t or later. *)
Fresh(d, w, t) == \E a \in log[d] : a.by = w /\ a.at >= t

(* An advertisement of w of this period is on its way to d, by a push or in a
   response; a request of d is on its way to w. *)
Push(d, w, m) == m.kind = "node_advertisement" /\ m.to = d /\ m.ad.by = w /\ m.ad.at = now
Request(d, w, m) == m.kind = "discover_request" /\ m.to = w /\ m.from = d
Response(d, w, m) ==
    m.kind = "discover_response" /\ m.to = d /\ \E a \in m.ads : a.by = w /\ a.at = now

PushPath(d, w) ==
    w \in announced => Fresh(d, w, now) \/ \E m \in net : Push(d, w, m)
AskPath(d, w) ==
    d \in asked => Fresh(d, w, now) \/ \E m \in net : Request(d, w, m) \/ Response(d, w, m)

(* What d may still get in this period. *)
Paths(d, w) ==
    /\ lost = 0 => PushPath(d, w) /\ AskPath(d, w)
    /\ lost = 1 => PushPath(d, w) \/ AskPath(d, w)

(* What d got in the last one. *)
Seen(d, w) ==
    /\ up[d] /\ up[w] /\ since[d] < now /\ since[w] < now
    /\ ~lag[d] /\ ~lag[w] /\ lost <= 1
    => Fresh(d, w, now - 1)

Friends(d, w) == d \in Daemons /\ w \in Watched /\ w \in Peers[d] /\ d \in Peers[w]

(* Seen is not disturbed while logs grow, unless a daemon starts. *)
LEMMA SeenStays ==
    ASSUME NEW d \in Daemons, NEW w, Seen(d, w), now' = now, log[d] \subseteq log'[d],
           UNCHANGED <<since, lag>>, up'[d] => up[d], up'[w] => up[w], lost' <= 1 => lost <= 1
    PROVE  Seen(d, w)'
<1>1. Fresh(d, w, now - 1) => Fresh(d, w, now - 1)' BY DEF Fresh
<1> QED BY <1>1 DEF Seen

LEMMA DaemonPaths ==
    ASSUME TypeInv, NEW e \in Daemons, DaemonStep(e), NEW d \in Daemons, NEW w \in Watched,
           Friends(d, w), Paths(d, w), Seen(d, w)
    PROVE  Paths(d, w)' /\ Seen(d, w)'
<1>0. TypeOK /\ w \in Daemons /\ d # w BY DiscoveryAssumption DEF TypeInv, Friends
<1>g. \A x \in Daemons : log[x] \subseteq log'[x]
  <2>1. log' = log \/ \E ads : log' = [log EXCEPT ![e] = @ \cup ads]
    BY DEF DaemonStep, Announce, Discover, HandleAd, HandleRequest, HandleResponse, StartTask, EndTask,
       Crash, Restart
  <2> QED BY <1>0, <2>1 DEF TypeOK
<1>f. now' = now /\ (Fresh(d, w, now) => Fresh(d, w, now)')
  <2>1. now' = now
    BY DEF DaemonStep, Announce, Discover, HandleAd, HandleRequest, HandleResponse, StartTask, EndTask,
       Crash, Restart
  <2> QED BY <1>g, <2>1 DEF Fresh
<1>l. lost' = lost
  BY DEF DaemonStep, Announce, Discover, HandleAd, HandleRequest, HandleResponse, StartTask, EndTask, Crash, Restart
<1>s. Seen(d, w)'
  <2>1. CASE ~Restart(e)
    <3>1. UNCHANGED <<since, lag>> /\ (up'[d] => up[d]) /\ (up'[w] => up[w])
      BY <1>0, <2>1 DEF DaemonStep, Announce, Discover, HandleAd, HandleRequest, HandleResponse, StartTask,
         EndTask, Crash, procVars, TypeOK
    <3> QED BY <1>0, <1>g, <1>f, <1>l, <3>1, SeenStays
  <2>2. CASE Restart(e)
    <3>1. since' = [since EXCEPT ![e] = now] /\ lag' = [lag EXCEPT ![e] = FALSE] /\ up' = [up EXCEPT ![e] = TRUE]
      BY <2>2 DEF Restart
    <3>2. CASE e = d \/ e = w
      <4>1. since'[e] = now /\ now \in Nat
        <5>1. MaxPeriods \in Nat BY DiscoveryAssumption
        <5> QED BY <1>0, <3>1, <5>1 DEF TypeOK
      <4>2. ~(since'[e] < now') BY <1>f, <4>1
      <4> QED BY <3>2, <4>2 DEF Seen
    <3>3. CASE e # d /\ e # w
      <4>1. /\ since'[d] = since[d] /\ since'[w] = since[w] /\ lag'[d] = lag[d] /\ lag'[w] = lag[w]
            /\ up'[d] = up[d] /\ up'[w] = up[w]
        BY <1>0, <3>1, <3>3 DEF TypeOK
      <4>2. Fresh(d, w, now - 1) => Fresh(d, w, now - 1)' BY <1>f, <1>g DEF Fresh
      <4> QED BY <1>f, <1>l, <4>1, <4>2 DEF Seen
    <3> QED BY <3>2, <3>3
  <2> QED BY <2>1, <2>2
<1>p. ASSUME PushPath(d, w) PROVE PushPath(d, w)'
  <2>1. CASE Announce(e)
    <3>1. CASE e = w
      <4>0. PICK a, m : /\ a = [by |-> w, at |-> now, how |-> "announced"]
                        /\ m = [kind |-> "node_advertisement", from |-> w, to |-> d, ad |-> a]
        OBVIOUS
      <4>1. a \in Own(w, "announced") BY <4>0 DEF Own
      <4>2. m \in Publish(w, Own(w, "announced"), Peers[w]) BY <4>0, <4>1 DEF Publish, Friends
      <4>3. m \in net' BY <2>1, <3>1, <4>2 DEF Announce
      <4>4. Push(d, w, m)' BY <1>f, <4>0 DEF Push
      <4> QED BY <4>3, <4>4 DEF PushPath
    <3>2. CASE e # w
      <4>1. net \subseteq net' /\ (w \in announced' => w \in announced) BY <2>1, <3>2 DEF Announce
      <4> QED BY <1>p, <1>f, <4>1 DEF PushPath, Push
    <3> QED BY <3>1, <3>2
  <2>2. ASSUME NEW m \in net, HandleAd(e, m) PROVE PushPath(d, w)'
    <3>1. CASE Push(d, w, m)
      <4>1. e = d /\ m.ad \in log'[d] BY <1>0, <2>2, <3>1 DEF HandleAd, Take, Push, TypeOK
      <4>2. m.ad.by = w /\ m.ad.at >= now
        <5>1. MaxPeriods \in Nat BY DiscoveryAssumption
        <5> QED BY <1>0, <3>1, <5>1 DEF Push, TypeOK
      <4>3. Fresh(d, w, now)' BY <1>f, <4>1, <4>2 DEF Fresh
      <4> QED BY <1>f, <4>3 DEF PushPath
    <3>2. CASE ~Push(d, w, m)
      <4>1. net \ {m} \subseteq net' /\ announced' = announced BY <2>2 DEF HandleAd, loopVars
      <4> QED BY <1>p, <1>f, <3>2, <4>1 DEF PushPath, Push
    <3> QED BY <3>1, <3>2
  <2>3. ASSUME NEW m \in net, HandleRequest(e, m) \/ HandleResponse(e, m) PROVE PushPath(d, w)'
    <3>1. /\ net \ {m} \subseteq net' /\ announced' = announced
          /\ m.kind \in {"discover_request", "discover_response"}
      BY <2>3 DEF HandleRequest, HandleResponse, loopVars
    <3> QED BY <1>p, <1>f, <3>1 DEF PushPath, Push
  <2>4. CASE Discover(e) \/ StartTask(e) \/ EndTask(e) \/ Crash(e) \/ Restart(e)
    <3>1. net \subseteq net' /\ announced' \subseteq announced
      BY <2>4 DEF Discover, StartTask, EndTask, Crash, Restart, loopVars
    <3> QED BY <1>p, <1>f, <3>1 DEF PushPath, Push
  <2> QED BY <2>1, <2>2, <2>3, <2>4 DEF DaemonStep
<1>a. ASSUME AskPath(d, w) PROVE AskPath(d, w)'
  <2>1. CASE Discover(e)
    <3>1. CASE e = d
      <4>0. PICK m : m = [kind |-> "discover_request", from |-> d, to |-> w, at |-> now]
        OBVIOUS
      <4>1. m \in net' BY <2>1, <3>1, <4>0 DEF Discover, Friends
      <4>2. Request(d, w, m)' BY <4>0 DEF Request
      <4> QED BY <4>1, <4>2 DEF AskPath
    <3>2. CASE e # d
      <4>1. net \subseteq net' /\ (d \in asked' => d \in asked) BY <2>1, <3>2 DEF Discover
      <4> QED BY <1>a, <1>f, <4>1 DEF AskPath, Request, Response
    <3> QED BY <3>1, <3>2
  <2>2. ASSUME NEW m \in net, HandleRequest(e, m) PROVE AskPath(d, w)'
    <3>1. CASE Request(d, w, m)
      <4>1. e = w /\ m.from = d BY <2>2, <3>1 DEF HandleRequest, Take, Request
      <4>2. PICK R \in LatestOf({ad \in log[w] : ad.by # w}) :
                net' = (net \ {m}) \cup
                           {[kind |-> "discover_response", to |-> d, ads |-> R \cup Own(w, "unpublished")]}
        BY <2>2, <4>1 DEF HandleRequest
      <4>0. PICK r, a : /\ r = [kind |-> "discover_response", to |-> d, ads |-> R \cup Own(w, "unpublished")]
                        /\ a = [by |-> w, at |-> now, how |-> "unpublished"]
        OBVIOUS
      <4>3. a \in r.ads /\ a.by = w /\ a.at = now' BY <1>f, <4>0 DEF Own
      <4>4. r \in net' /\ r.kind = "discover_response" /\ r.to = d BY <4>0, <4>2
      <4>5. Response(d, w, r)' BY <4>3, <4>4 DEF Response
      <4> QED BY <4>4, <4>5 DEF AskPath
    <3>2. CASE ~Request(d, w, m)
      <4>1. net \ {m} \subseteq net' /\ asked' = asked /\ m.kind = "discover_request"
        BY <2>2 DEF HandleRequest, loopVars
      <4> QED BY <1>a, <1>f, <3>2, <4>1 DEF AskPath, Request, Response
    <3> QED BY <3>1, <3>2
  <2>3. ASSUME NEW m \in net, HandleResponse(e, m) PROVE AskPath(d, w)'
    <3>1. CASE Response(d, w, m)
      <4>1. e = d /\ m.ads \subseteq log'[d] BY <1>0, <2>3, <3>1 DEF HandleResponse, Take, Response, TypeOK
      <4>2. PICK a \in m.ads : a.by = w /\ a.at = now BY <3>1 DEF Response
      <4>3. now >= now
        <5>1. MaxPeriods \in Nat BY DiscoveryAssumption
        <5> QED BY <1>0, <5>1 DEF TypeOK
      <4>4. Fresh(d, w, now)' BY <1>f, <4>1, <4>2, <4>3 DEF Fresh
      <4> QED BY <1>f, <4>4 DEF AskPath
    <3>2. CASE ~Response(d, w, m)
      <4>1. net \ {m} \subseteq net' /\ asked' = asked /\ m.kind = "discover_response"
        BY <2>3 DEF HandleResponse, loopVars
      <4> QED BY <1>a, <1>f, <3>2, <4>1 DEF AskPath, Request, Response
    <3> QED BY <3>1, <3>2
  <2>4. ASSUME NEW m \in net, HandleAd(e, m) PROVE AskPath(d, w)'
    <3>1. net \ {m} \subseteq net' /\ asked' = asked /\ m.kind = "node_advertisement"
      BY <2>4 DEF HandleAd, loopVars
    <3> QED BY <1>a, <1>f, <3>1 DEF AskPath, Request, Response
  <2>5. CASE Announce(e) \/ StartTask(e) \/ EndTask(e) \/ Crash(e) \/ Restart(e)
    <3>1. net \subseteq net' /\ asked' \subseteq asked
      BY <2>5 DEF Announce, StartTask, EndTask, Crash, Restart, loopVars
    <3> QED BY <1>a, <1>f, <3>1 DEF AskPath, Request, Response
  <2> QED BY <2>1, <2>2, <2>3, <2>4, <2>5 DEF DaemonStep
<1> QED BY <1>l, <1>s, <1>p, <1>a DEF Paths

(* The loss of a message cuts one path at most. *)
LEMMA LosePaths ==
    ASSUME TypeInv, NEW m \in net, Lose(m), NEW d \in Daemons, NEW w \in Watched,
           Paths(d, w), Seen(d, w)
    PROVE  Paths(d, w)' /\ Seen(d, w)'
<1>0. TypeOK /\ w \in Daemons BY DiscoveryAssumption DEF TypeInv
<1>n. lost \in Nat /\ lost' = lost + 1 
  <2>1. MaxLost \in Nat BY DiscoveryAssumption
  <2> QED BY <1>0, <2>1 DEF Lose, TypeOK
<1>1. now' = now /\ log' = log /\ net' = net \ {m} /\ UNCHANGED <<announced, asked, since, lag, up>>
  BY DEF Lose, procVars, loopVars
<1>2. Seen(d, w)' BY <1>n, <1>1 DEF Seen, Fresh
<1>3. m.kind # "node_advertisement" => (PushPath(d, w) => PushPath(d, w)')
  BY <1>1 DEF PushPath, Push, Fresh
<1>4. m.kind = "node_advertisement" => (AskPath(d, w) => AskPath(d, w)')
  BY <1>1 DEF AskPath, Request, Response, Fresh
<1> QED BY <1>n, <1>2, <1>3, <1>4 DEF Paths

(* At the end of a period both paths have come to their end. *)
LEMMA TickPaths ==
    ASSUME TypeInv, Tick, NEW d \in Daemons, NEW w \in Watched, Paths(d, w)
    PROVE  Paths(d, w)' /\ Seen(d, w)'
<1>0. TypeOK /\ w \in Daemons BY DiscoveryAssumption DEF TypeInv
<1>n. now \in Nat /\ now' = now + 1 /\ lost \in Nat /\ lost' = lost /\ now' - 1 = now
  <2>1. MaxPeriods \in Nat /\ MaxLost \in Nat BY DiscoveryAssumption
  <2> QED BY <1>0, <2>1 DEF Tick, TypeOK
<1>1. Paths(d, w)' BY DEF Tick, Paths, PushPath, AskPath
<1>2. ASSUME up[d], up[w], ~busy[d], ~busy[w], lost <= 1 PROVE Fresh(d, w, now)
  <2>1. w \in announced /\ d \in asked BY <1>0, <1>2 DEF Tick
  <2>2. \A m \in net : m.to # d /\ m.to # w BY <1>2 DEF Tick
  <2>3. PushPath(d, w) \/ AskPath(d, w) BY <1>n, <1>2 DEF Paths
  <2> QED BY <2>1, <2>2, <2>3 DEF PushPath, AskPath, Push, Request, Response
<1>3. UNCHANGED <<up, log>> /\ lag' = busy BY DEF Tick, procVars
<1>4. ASSUME up'[d], up'[w], ~lag'[d], ~lag'[w], lost' <= 1 PROVE Fresh(d, w, now - 1)'
  <2>1. Fresh(d, w, now) BY <1>n, <1>2, <1>3, <1>4
  <2> QED BY <1>n, <1>3, <2>1 DEF Fresh
<1>5. Seen(d, w)' BY <1>4 DEF Seen
<1> QED BY <1>1, <1>5

PeersInv == \A d \in Daemons, w \in Watched : Friends(d, w) => Paths(d, w) /\ Seen(d, w)

LEMMA PeersInvStep == TypeInv /\ PeersInv /\ [Next]_vars => PeersInv'
<1> SUFFICES ASSUME TypeInv, PeersInv, [Next]_vars, NEW d \in Daemons, NEW w \in Watched, Friends(d, w)
             PROVE  Paths(d, w)' /\ Seen(d, w)'
  BY DEF PeersInv, Friends
<1>1. Paths(d, w) /\ Seen(d, w) BY DEF PeersInv
<1>2. CASE UNCHANGED vars
  BY <1>1, <1>2 DEF Paths, Seen, PushPath, AskPath, Push, Request, Response, Fresh, vars, procVars, loopVars
<1> QED BY <1>1, <1>2, DaemonPaths, LosePaths, TickPaths DEF Next

(* An advertisement of this period or the one before has not expired. *)
LEMMA FreshShows ==
    ASSUME 2 * Period <= TTL, TypeInv, NEW d \in Daemons, NEW w \in Watched, Fresh(d, w, now - 1)
    PROVE  Shows(d, w)
<1>1. PICK a \in log[d] : a.by = w /\ a.at >= now - 1 BY DEF Fresh
<1>2. a.at <= now /\ a.at \in Nat /\ now \in Nat /\ Period \in Nat /\ TTL \in Nat
  <2>1. MaxPeriods \in Nat /\ Period \in Nat /\ TTL \in Nat BY DiscoveryAssumption
  <2> QED BY <2>1 DEF TypeInv, TypeOK, Ads
<1>3. now - a.at + 1 = 1 \/ now - a.at + 1 = 2 BY <1>1, <1>2
<1>4. (now - a.at + 1) * Period <= TTL
  <2>1. CASE now - a.at + 1 = 1
    <3>1. 1 * Period <= TTL BY <1>2
    <3> QED BY <2>1, <3>1
  <2>2. CASE now - a.at + 1 = 2
    BY <2>2
  <2> QED BY <1>3, <2>1, <2>2
<1> QED BY <1>1, <1>4 DEF Shows

(* With advertisements that last two periods, as the 120 s do, a worker that
   runs is shown by every direct peer although a message was lost, whatever
   daemons crash and restart elsewhere or earlier. *)
THEOREM OneLossTolerated ==
    ASSUME 2 * Period <= TTL
    PROVE  Spec => []OneLossIsTolerated
<1>1. Init => PeersInv
  <2>1. MaxPeriods \in Nat /\ ~(0 < 0) BY DiscoveryAssumption
  <2> QED BY <2>1, DiscoveryAssumption DEF Init, PeersInv, Paths, Seen, PushPath, AskPath
<1>2. TypeInv /\ PeersInv => OneLossIsTolerated
  <2> SUFFICES ASSUME TypeInv, PeersInv, NEW w \in Watched, NEW d \in Daemons, Running, lost <= 1,
                      w \in Peers[d], d \in Peers[w], \A e \in Daemons : ~lag[e]
               PROVE  Shows(d, w)
    BY DEF OneLossIsTolerated
  <2>1. w \in Daemons BY DiscoveryAssumption
  <2>2. Friends(d, w) BY DEF Friends
  <2>3. Seen(d, w) BY <2>2 DEF PeersInv
  <2>4. Fresh(d, w, now - 1) BY <2>1, <2>3 DEF Seen, Running
  <2> QED BY <2>4, FreshShows
<1> QED BY <1>1, <1>2, PeersInvStep, AlwaysTypeInv, PTL DEF Spec

-----------------------------------------------------------------------------
(* Without a loss. *)

(* The advertisement that w pushes in this period. *)
News(w) == [by |-> w, at |-> now, how |-> "announced"]

(* It is in the log of d, or pushed to d. *)
Carries(m, a) == m.kind = "node_advertisement" /\ m.ad = a
Way(d, a) == a \in log[d] \/ \E m \in net : Carries(m, a) /\ m.to = d

(* A push or a request goes to a peer. *)
Linked(m) == m.kind \in {"node_advertisement", "discover_request"} => m.to \in Peers[m.from]

(* The message brings a. *)
Brings(m, a) == Carries(m, a) \/ (m.kind = "discover_response" /\ a \in m.ads)

(* Behind e there is d; B are the others e deals with, cut off by e and d. *)
Behind(d, e, w, B) ==
    /\ e \in Peers[w] /\ d \in Peers[e] /\ d # w /\ w \notin B
    /\ Neighbours(e) \subseteq B \cup {w, d}
    /\ \A x \in B : Neighbours(x) \subseteq B \cup {e, d}

(* Before e or d has the news, nobody in B has them, and only a push of w
   brings them there. *)
First(d, e, w, B) ==
    News(w) \notin log[e] /\ News(w) \notin log[d] =>
        /\ \A x \in B : News(w) \notin log[x]
        /\ \A m \in net : m.to \in B \cup {e} /\ Brings(m, News(w)) =>
               m.to = e /\ m.kind = "node_advertisement" /\ m.from = w

(* The way of the news to a peer, and from there to d. *)
PushedBy(w) == w \in announced => News(w) \in log[w] /\ \A e \in Peers[w] : Way(e, News(w))
Relayed(d, e, w) == News(w) \in log[e] => Way(d, News(w))

(* What the period before has left. *)
Heard(d, w) ==
    Running /\ lost = 0 /\ (\A e \in Daemons \ {w} : ~lag[e]) => Fresh(d, w, now - 1)

ReachInv ==
    /\ \A m \in net : Linked(m)
    /\ \A d, e \in Daemons, w \in Watched, B \in SUBSET Daemons :
           Behind(d, e, w, B) => First(d, e, w, B) /\ (lost = 0 => Relayed(d, e, w))
    /\ \A w \in Watched : lost = 0 => PushedBy(w)
    /\ \A d \in Daemons, w \in Watched : Near(d, w) => Heard(d, w)

(* How a step of x changes its log and the network: it takes one message at
   most, which it stores if it is an advertisement, and sends others. *)
StepOf(x, got, ads, new) ==
    /\ log' = [log EXCEPT ![x] = @ \cup ads]
    /\ net' = (net \ got) \cup new
    /\ got \subseteq net /\ \A m \in got : m.to = x
    /\ \A m \in got : m.kind = "node_advertisement" => m.ad \in ads

(* What there is to say of a step of x about the news a of w: they are sent to
   neighbours, by w, on their arrival or in an answer; they arrive by a message,
   and are relayed if they were pushed and new. *)
Reason(x, w, a, got, ads, new) ==
    /\ \A n \in new : Brings(n, a) =>
           /\ n.to \in Neighbours(x)
           /\ \/ n.kind = "node_advertisement" /\ n.from = x /\ (x = w \/ a \in ads)
              \/ x # w /\ a \in log[x]
    /\ a \in ads /\ x # w => \E m \in got : Brings(m, a)
    /\ \A m \in got : Carries(m, a) /\ a \notin log[x] =>
           \A e \in Peers[x] \ {w, m.from} : \E n \in new : Carries(n, a) /\ n.to = e
    /\ w \in announced' /\ w \notin announced =>
           x = w /\ a \in ads /\ \A e \in Peers[w] : \E n \in new : Carries(n, a) /\ n.to = e

LEMMA Steps ==
    ASSUME TypeInv, NEW x \in Daemons, DaemonStep(x), NEW w \in Watched, \A m \in net : Linked(m)
    PROVE  \E got, ads, new : StepOf(x, got, ads, new) /\ Reason(x, w, News(w), got, ads, new)
<1>0. TypeOK /\ Peers[x] \in SUBSET Daemons BY DiscoveryAssumption DEF TypeInv
<1> DEFINE a == News(w)
<1>1. CASE Announce(x)
  <2> DEFINE new == Publish(x, Own(x, "announced"), Peers[x])
  <2>1. StepOf(x, {}, Own(x, "announced"), new) BY <1>1 DEF Announce, StepOf
  <2>2. \A n \in new : /\ n.kind = "node_advertisement" /\ n.from = x /\ n.to \in Peers[x]
                       /\ n.ad \in Own(x, "announced")
    BY DEF Publish
  <2>3. a \in Own(x, "announced") <=> x = w BY DEF Own, News
  <2>4. ASSUME x = w, NEW e \in Peers[w] PROVE \E n \in new : Carries(n, a) /\ n.to = e
    <3>1. PICK n : n = [kind |-> "node_advertisement", from |-> x, to |-> e, ad |-> a] OBVIOUS
    <3>2. n \in new BY <2>3, <2>4, <3>1 DEF Publish
    <3> QED BY <3>1, <3>2 DEF Carries
  <2>5. announced' = announced \cup {x} BY <1>1 DEF Announce
  <2> HIDE DEF new, a
  <2>6. Reason(x, w, a, {}, Own(x, "announced"), new)
    BY <1>0, <2>2, <2>3, <2>4, <2>5 DEF Reason, Linked, Brings, Carries, Neighbours
  <2> QED BY <2>1, <2>6 DEF a
<1>2. CASE Discover(x)
  <2> DEFINE new == [kind : {"discover_request"}, from : {x}, to : Peers[x], at : {now}]
  <2>1. StepOf(x, {}, Own(x, "unpublished"), new) BY <1>2 DEF Discover, StepOf
  <2>2. \A n \in new : n.kind = "discover_request" /\ n.from = x /\ n.to \in Peers[x] OBVIOUS
  <2>3. a \notin Own(x, "unpublished") BY DEF Own, News
  <2>4. announced' = announced BY <1>2 DEF Discover
  <2> HIDE DEF new, a
  <2>5. Reason(x, w, a, {}, Own(x, "unpublished"), new)
    BY <2>2, <2>3, <2>4 DEF Reason, Linked, Brings, Carries
  <2> QED BY <2>1, <2>5 DEF a
<1>3. ASSUME NEW m \in net, HandleAd(x, m)
      PROVE  \E got, ads, new : StepOf(x, got, ads, new) /\ Reason(x, w, a, got, ads, new)
  <2> DEFINE new == IF m.ad \in log[x] THEN {} ELSE Publish(x, {m.ad}, Peers[x] \ {m.ad.by, m.from})
  <2>1. m.to = x /\ m.kind = "node_advertisement" /\ announced' = announced
    BY <1>3 DEF HandleAd, Take, loopVars
  <2>2. StepOf(x, {m}, {m.ad}, new) BY <1>3, <2>1 DEF HandleAd, StepOf
  <2>3. \A n \in new : n.kind = "node_advertisement" /\ n.from = x /\ n.to \in Peers[x] /\ n.ad = m.ad
    BY DEF Publish
  <2>4. ASSUME Carries(m, a), a \notin log[x], NEW e \in Peers[x] \ {w, m.from}
        PROVE  \E n \in new : Carries(n, a) /\ n.to = e
    <3>1. PICK n : n = [kind |-> "node_advertisement", from |-> x, to |-> e, ad |-> a] OBVIOUS
    <3>2. m.ad = a /\ a.by = w BY <2>4 DEF Carries, News
    <3>3. n \in new BY <2>4, <3>1, <3>2 DEF Publish
    <3> QED BY <3>1, <3>3 DEF Carries
  <2> HIDE DEF new, a
  <2>5. Reason(x, w, a, {m}, {m.ad}, new)
    BY <1>0, <2>1, <2>3, <2>4 DEF Reason, Linked, Brings, Carries, Neighbours
  <2> QED BY <2>2, <2>5
<1>4. ASSUME NEW m \in net, HandleRequest(x, m)
      PROVE  \E got, ads, new : StepOf(x, got, ads, new) /\ Reason(x, w, a, got, ads, new)
  <2>1. PICK R \in LatestOf({ad \in log[x] : ad.by # x}) :
            net' = (net \ {m}) \cup
                       {[kind |-> "discover_response", to |-> m.from, ads |-> R \cup Own(x, "unpublished")]}
    BY <1>4 DEF HandleRequest
  <2> DEFINE answer == [kind |-> "discover_response", to |-> m.from, ads |-> R \cup Own(x, "unpublished")]
  <2>2. m.to = x /\ m.kind = "discover_request" /\ announced' = announced /\ m.from \in Daemons
    BY <1>0, <1>4, MessageKinds DEF HandleRequest, Take, loopVars, TypeOK
  <2>3. StepOf(x, {m}, Own(x, "unpublished"), {answer}) BY <1>4, <2>1, <2>2 DEF HandleRequest, StepOf
  <2>4. answer.to \in Neighbours(x) BY <1>0, <2>2 DEF Linked, Neighbours
  <2>5. a \notin Own(x, "unpublished") BY DEF Own, News
  <2>6. a \in R => x # w /\ a \in log[x]
    <3>1. R \subseteq {ad \in log[x] : ad.by # x} BY DEF LatestOf
    <3> QED BY <3>1 DEF News
  <2>7. answer.kind = "discover_response" /\ (a \in answer.ads => x # w /\ a \in log[x]) BY <2>5, <2>6
  <2> HIDE DEF answer, a
  <2>8. Reason(x, w, a, {m}, Own(x, "unpublished"), {answer})
    BY <2>2, <2>4, <2>5, <2>7 DEF Reason, Linked, Brings, Carries
  <2> QED BY <2>3, <2>8
<1>5. ASSUME NEW m \in net, HandleResponse(x, m)
      PROVE  \E got, ads, new : StepOf(x, got, ads, new) /\ Reason(x, w, a, got, ads, new)
  <2>1. m.to = x /\ m.kind = "discover_response" /\ announced' = announced
    BY <1>5 DEF HandleResponse, Take, loopVars
  <2>2. StepOf(x, {m}, m.ads, {}) BY <1>5, <2>1 DEF HandleResponse, StepOf
  <2>3. Reason(x, w, a, {m}, m.ads, {}) BY <2>1 DEF Reason, Brings, Carries
  <2> QED BY <2>2, <2>3
<1>6. CASE StartTask(x) \/ EndTask(x) \/ Crash(x)
  <2>1. log' = log /\ net' = net /\ announced' = announced
    BY <1>6 DEF StartTask, EndTask, Crash, loopVars
  <2>2. StepOf(x, {}, {}, {}) BY <1>0, <2>1 DEF StepOf, TypeOK
  <2>3. Reason(x, w, a, {}, {}, {}) BY <2>1 DEF Reason
  <2> QED BY <2>2, <2>3
<1>7. CASE Restart(x)
  <2>1. StepOf(x, {}, Own(x, "unpublished"), {}) BY <1>7 DEF Restart, StepOf
  <2>2. a \notin Own(x, "unpublished") BY DEF Own, News
  <2>3. announced' \subseteq announced BY <1>7 DEF Restart
  <2> HIDE DEF a
  <2>4. Reason(x, w, a, {}, Own(x, "unpublished"), {}) BY <2>2, <2>3 DEF Reason
  <2> QED BY <2>1, <2>4 DEF a
<1> QED BY <1>1, <1>2, <1>3, <1>4, <1>5, <1>6, <1>7 DEF DaemonStep

(* A message on its way stays there or arrives. *)
LEMMA WayStays ==
    ASSUME TypeOK, NEW x \in Daemons, NEW got, NEW ads, NEW new, StepOf(x, got, ads, new),
           NEW d \in Daemons, NEW a, Way(d, a)
    PROVE  Way(d, a)'
<1>1. log'[x] = log[x] \cup ads /\ \A y \in Daemons : log[y] \subseteq log'[y] BY DEF StepOf, TypeOK
<1>2. CASE a \in log[d]
  BY <1>1, <1>2 DEF Way
<1>3. ASSUME NEW m \in net, Carries(m, a), m.to = d PROVE Way(d, a)'
  <2>1. CASE m \in got
    BY <1>1, <1>3, <2>1 DEF StepOf, Carries, Way
  <2>2. CASE m \notin got
    BY <1>3, <2>2 DEF StepOf, Carries, Way
  <2> QED BY <2>1, <2>2
<1> QED BY <1>2, <1>3 DEF Way

LEMMA FirstStays ==
    ASSUME TypeOK, NEW x \in Daemons, NEW d \in Daemons, NEW e \in Daemons, NEW w \in Watched,
           NEW B \in SUBSET Daemons, Behind(d, e, w, B), First(d, e, w, B), now' = now,
           NEW got, NEW ads, NEW new, StepOf(x, got, ads, new), Reason(x, w, News(w), got, ads, new)
    PROVE  First(d, e, w, B)'
<1> DEFINE a == News(w)
<1>0. a' = a BY DEF News
<1> HIDE DEF a
<1> SUFFICES ASSUME a \notin log'[e], a \notin log'[d]
             PROVE  /\ \A y \in B : a \notin log'[y]
                    /\ \A m \in net' : m.to \in B \cup {e} /\ Brings(m, a) =>
                           m.to = e /\ m.kind = "node_advertisement" /\ m.from = w
  BY <1>0 DEF First, a, Brings, Carries
<1>1. /\ log'[x] = log[x] \cup ads
      /\ \A y \in Daemons : log[y] \subseteq log'[y] /\ (y # x => log'[y] = log[y])
  BY DEF StepOf, TypeOK
<1>2. /\ \A y \in B : a \notin log[y]
      /\ \A m \in net : m.to \in B \cup {e} /\ Brings(m, a) =>
             m.to = e /\ m.kind = "node_advertisement" /\ m.from = w
  BY <1>1 DEF First, a
<1>3. w \in Daemons /\ e # w /\ e \notin B /\ d # w /\ w \notin B
  <2>1. w \in Daemons /\ e # w BY DiscoveryAssumption DEF Behind
  <2>2. w \in Neighbours(e) BY <2>1 DEF Behind, Neighbours
  <2>3. e \in B => w \in B \cup {e, d} BY <2>2 DEF Behind
  <2> QED BY <2>1, <2>3 DEF Behind
<1>4. ASSUME NEW y \in B PROVE a \notin log'[y]
  <2>1. CASE y # x
    BY <1>1, <1>2, <2>1
  <2>2. CASE y = x
    <3>1. x # w BY <1>3, <2>2
    <3>2. \A m \in got : ~Brings(m, a) BY <1>2, <1>3, <2>2 DEF StepOf
    <3>3. a \notin ads BY <3>1, <3>2 DEF Reason, a
    <3> QED BY <1>1, <1>2, <2>2, <3>3
  <2> QED BY <2>1, <2>2
<1>5. ASSUME NEW m \in new, m.to \in B \cup {e}, Brings(m, a)
      PROVE  m.to = e /\ m.kind = "node_advertisement" /\ m.from = w
  <2>1. /\ m.to \in Neighbours(x)
        /\ \/ m.kind = "node_advertisement" /\ m.from = x /\ (x = w \/ a \in ads)
           \/ x # w /\ a \in log[x]
    BY <1>5 DEF Reason, a
  <2>2. x \in Neighbours(m.to) BY <2>1 DEF Neighbours
  <2>3. x = w \/ x \in B \cup {e, d} BY <1>5, <2>2 DEF Behind
  <2>4. x \in B \cup {e, d} => a \notin log[x] /\ a \notin ads BY <1>1, <1>4
  <2>5. x = w BY <2>1, <2>3, <2>4
  <2>6. m.to = e BY <1>3, <1>5, <2>2, <2>5 DEF Behind
  <2> QED BY <2>1, <2>5, <2>6
<1> QED BY <1>2, <1>4, <1>5 DEF StepOf

(* The one behind gets what e gets: only w can have brought it to e, by a push. *)
LEMMA RelayedStays ==
    ASSUME TypeOK, NEW x \in Daemons, NEW d \in Daemons, NEW e \in Daemons, NEW w \in Watched,
           NEW B \in SUBSET Daemons, Behind(d, e, w, B), First(d, e, w, B), Relayed(d, e, w), now' = now,
           NEW got, NEW ads, NEW new, StepOf(x, got, ads, new), Reason(x, w, News(w), got, ads, new)
    PROVE  Relayed(d, e, w)'
<1>0. PICK a : a = News(w) OBVIOUS
<1>n. News(w)' = a BY <1>0 DEF News
<1> SUFFICES ASSUME a \in log'[e] PROVE Way(d, a)'
  BY <1>n DEF Relayed, Way, Carries
<1>1. CASE a \in log[e] \/ a \in log[d]
  <2>1. Way(d, a) BY <1>0, <1>1 DEF Relayed, Way
  <2> QED BY <2>1, WayStays
<1>2. CASE a \notin log[e] /\ a \notin log[d]
  <2>1. x = e /\ a \in ads BY <1>2 DEF StepOf, TypeOK
  <2>2. e # w BY DiscoveryAssumption DEF Behind
  <2>3. PICK m \in got : Brings(m, a) BY <1>0, <2>1, <2>2 DEF Reason
  <2>4. m \in net /\ m.to = e BY <2>1, <2>3 DEF StepOf
  <2>5. m.kind = "node_advertisement" /\ m.from = w BY <1>0, <1>2, <2>3, <2>4 DEF First
  <2>6. Carries(m, a) BY <2>3, <2>5 DEF Brings
  <2>7. d \in Peers[e] \ {w, m.from} BY <2>5 DEF Behind
  <2>8. PICK n \in new : Carries(n, a) /\ n.to = d BY <1>0, <1>2, <2>1, <2>6, <2>7 DEF Reason
  <2>9. n \in net' BY <2>8 DEF StepOf
  <2> QED BY <2>8, <2>9 DEF Way, Carries
<1> QED BY <1>1, <1>2

(* What a running daemon has heard, it keeps. *)
LEMMA HeardStays ==
    ASSUME TypeInv, NEW x \in Daemons, DaemonStep(x), NEW d \in Daemons, NEW w \in Watched, Heard(d, w)
    PROVE  Heard(d, w)'
<1>0. TypeOK BY DEF TypeInv
<1>1. now' = now /\ lost' = lost
  BY DEF DaemonStep, Announce, Discover, HandleAd, HandleRequest, HandleResponse, StartTask, EndTask, Crash, Restart
<1>2. log[d] \subseteq log'[d]
  <2>1. log' = log \/ \E ads : log' = [log EXCEPT ![x] = @ \cup ads]
    BY DEF DaemonStep, Announce, Discover, HandleAd, HandleRequest, HandleResponse, StartTask, EndTask,
       Crash, Restart
  <2> QED BY <1>0, <2>1 DEF TypeOK
<1>3. Fresh(d, w, now - 1) => Fresh(d, w, now - 1)' BY <1>1, <1>2 DEF Fresh
<1>4. CASE Restart(x)
  <2>1. since'[x] = now /\ now \in Nat
    <3>1. MaxPeriods \in Nat BY DiscoveryAssumption
    <3> QED BY <1>0, <1>4, <3>1 DEF Restart, TypeOK
  <2>2. ~Running' BY <1>1, <2>1 DEF Running
  <2> QED BY <2>2 DEF Heard
<1>5. CASE Crash(x)
  <2>1. ~up'[x] BY <1>0, <1>5 DEF Crash, TypeOK
  <2> QED BY <2>1 DEF Heard, Running
<1>6. CASE ~Restart(x) /\ ~Crash(x)
  <2>1. UNCHANGED <<up, since, lag>>
    BY <1>6 DEF DaemonStep, Announce, Discover, HandleAd, HandleRequest, HandleResponse, StartTask, EndTask, procVars
  <2> QED BY <1>1, <1>3, <2>1 DEF Heard, Running
<1> QED BY <1>4, <1>5, <1>6

LEMMA LinkedStays ==
    ASSUME NEW x \in Daemons, DaemonStep(x), \A m \in net : Linked(m)
    PROVE  \A m \in net' : Linked(m)
<1>1. CASE Announce(x)
  <2>1. \A n \in Publish(x, Own(x, "announced"), Peers[x]) : Linked(n) BY DEF Publish, Linked
  <2> QED BY <1>1, <2>1 DEF Announce
<1>2. CASE Discover(x)
  <2>1. \A n \in [kind : {"discover_request"}, from : {x}, to : Peers[x], at : {now}] : Linked(n) BY DEF Linked
  <2> QED BY <1>2, <2>1 DEF Discover
<1>3. ASSUME NEW m \in net, HandleAd(x, m) PROVE \A n \in net' : Linked(n)
  <2>1. \A n \in Publish(x, {m.ad}, Peers[x] \ {m.ad.by, m.from}) : Linked(n) BY DEF Publish, Linked
  <2> QED BY <1>3, <2>1 DEF HandleAd
<1>4. ASSUME NEW m \in net, HandleRequest(x, m) PROVE \A n \in net' : Linked(n)
  <2>1. \A n \in net' : n \in net \/ n.kind = "discover_response" BY <1>4 DEF HandleRequest
  <2> QED BY <2>1 DEF Linked
<1>5. ASSUME NEW m \in net, HandleResponse(x, m) PROVE \A n \in net' : Linked(n)
  BY <1>5 DEF HandleResponse
<1>6. CASE StartTask(x) \/ EndTask(x) \/ Crash(x) \/ Restart(x)
  BY <1>6 DEF StartTask, EndTask, Crash, Restart
<1> QED BY <1>1, <1>2, <1>3, <1>4, <1>5, <1>6 DEF DaemonStep

LEMMA DaemonReach ==
    ASSUME TypeInv, ReachInv, NEW x \in Daemons, DaemonStep(x)
    PROVE  ReachInv'
<1>0. TypeOK /\ \A m \in net : Linked(m) BY DEF TypeInv, ReachInv
<1>1. now' = now /\ lost' = lost
  BY DEF DaemonStep, Announce, Discover, HandleAd, HandleRequest, HandleResponse, StartTask, EndTask, Crash, Restart
<1>2. \A m \in net' : Linked(m)' BY <1>0, LinkedStays DEF Linked
<1>3. ASSUME NEW d \in Daemons, NEW e \in Daemons, NEW w \in Watched, NEW B \in SUBSET Daemons, Behind(d, e, w, B)
      PROVE  First(d, e, w, B)' /\ (lost' = 0 => Relayed(d, e, w)')
  <2>1. First(d, e, w, B) /\ (lost = 0 => Relayed(d, e, w)) BY <1>3 DEF ReachInv
  <2>2. PICK got, ads, new : StepOf(x, got, ads, new) /\ Reason(x, w, News(w), got, ads, new)
    BY <1>0, Steps
  <2>3. First(d, e, w, B)' BY <1>0, <1>1, <1>3, <2>1, <2>2, FirstStays
  <2>4. lost' = 0 => Relayed(d, e, w)' BY <1>0, <1>1, <1>3, <2>1, <2>2, RelayedStays
  <2> QED BY <2>3, <2>4
<1>4. ASSUME NEW w \in Watched, lost' = 0 PROVE PushedBy(w)'
  <2>0. PICK a : a = News(w) OBVIOUS
  <2>1. News(w)' = a BY <1>1, <2>0 DEF News
  <2>2. PICK got, ads, new : StepOf(x, got, ads, new) /\ Reason(x, w, a, got, ads, new)
    BY <1>0, <2>0, Steps
  <2> SUFFICES ASSUME w \in announced'
               PROVE  a \in log'[w] /\ \A e \in Peers[w] : Way(e, a)'
    BY <2>1 DEF PushedBy, Way, Carries
  <2>3. \A y \in Daemons : log[y] \subseteq log'[y] BY <1>0, <2>2 DEF StepOf, TypeOK
  <2>4. w \in Daemons /\ Peers[w] \subseteq Daemons BY DiscoveryAssumption
  <2>5. CASE w \in announced
    <3>1. a \in log[w] /\ \A e \in Peers[w] : Way(e, a) BY <1>1, <1>4, <2>0, <2>5 DEF ReachInv, PushedBy
    <3> QED BY <1>0, <2>2, <2>3, <2>4, <3>1, WayStays
  <2>6. CASE w \notin announced
    <3>1. x = w /\ a \in ads /\ \A e \in Peers[w] : \E n \in new : Carries(n, a) /\ n.to = e
      BY <2>2, <2>6 DEF Reason
    <3>2. a \in log'[w] BY <1>0, <2>2, <3>1 DEF StepOf, TypeOK
    <3>3. new \subseteq net' BY <2>2 DEF StepOf
    <3> QED BY <3>1, <3>2, <3>3 DEF Way, Carries
  <2> QED BY <2>5, <2>6
<1>5. ASSUME NEW d \in Daemons, NEW w \in Watched, Near(d, w) PROVE Heard(d, w)'
  BY <1>5, HeardStays DEF ReachInv
<1> QED BY <1>1, <1>2, <1>3, <1>4, <1>5 DEF ReachInv, Behind, Near

LEMMA LoseReach ==
    ASSUME TypeInv, ReachInv, NEW m \in net, Lose(m)
    PROVE  ReachInv'
<1>1. /\ UNCHANGED <<now, log, up, since, lag, announced>> /\ net' = net \ {m}
  BY DEF Lose, procVars, loopVars
<1>2. lost' # 0
  <2>1. MaxLost \in Nat BY DiscoveryAssumption
  <2> QED BY <2>1 DEF Lose, TypeInv, TypeOK
<1>3. \A n \in net' : Linked(n)' BY <1>1 DEF ReachInv, Linked
<1>4. ASSUME NEW d \in Daemons, NEW e \in Daemons, NEW w \in Watched, NEW B \in SUBSET Daemons, Behind(d, e, w, B)
      PROVE  First(d, e, w, B)'
  <2>1. First(d, e, w, B) BY <1>4 DEF ReachInv
  <2>2. News(w)' = News(w) BY <1>1 DEF News
  <2> QED BY <1>1, <2>1, <2>2 DEF First, Brings, Carries
<1> QED BY <1>2, <1>3, <1>4 DEF ReachInv, Heard, Behind

(* Nothing of the period that begins has been sent; what was sent in the one that
   ends has arrived wherever recv_loop was not blocked. *)
LEMMA TickReach ==
    ASSUME TypeInv, ReachInv, Tick
    PROVE  ReachInv'
<1>0. TypeOK BY DEF TypeInv
<1>n. now \in Nat /\ now' = now + 1 /\ now' - 1 = now
  <2>1. MaxPeriods \in Nat BY DiscoveryAssumption
  <2> QED BY <1>0, <2>1 DEF Tick, TypeOK
<1>u. UNCHANGED <<up, since, log, net, lost>> /\ lag' = busy /\ announced' = {} BY DEF Tick, procVars
<1>1. ASSUME NEW w \in Watched
      PROVE  /\ \A d \in Daemons : News(w)' \notin log'[d]
             /\ \A m \in net' : ~Brings(m, News(w))'
  <2>1. News(w)'.at = now' BY DEF News
  <2>2. \A d \in Daemons : \A a \in log[d] : a.at <= now /\ a.at \in Nat BY <1>0 DEF TypeOK, Ads
  <2>3. \A m \in net : /\ m.kind = "node_advertisement" => m.ad.at <= now /\ m.ad.at \in Nat
                       /\ m.kind = "discover_response" => \A a \in m.ads : a.at <= now /\ a.at \in Nat
    BY <1>0, MessageKinds DEF TypeInv, TypeOK, Dated, Ads
  <2>4. ~(now' <= now) BY <1>n
  <2> QED BY <1>u, <2>1, <2>2, <2>3, <2>4 DEF Brings, Carries
<1>2. \A m \in net' : Linked(m)' BY <1>u DEF ReachInv, Linked
<1>3. ASSUME NEW d \in Daemons, NEW e \in Daemons, NEW w \in Watched, NEW B \in SUBSET Daemons, Behind(d, e, w, B)
      PROVE  First(d, e, w, B)' /\ Relayed(d, e, w)'
  BY <1>1 DEF First, Relayed
<1>4. ASSUME NEW w \in Watched PROVE PushedBy(w)'
  BY <1>u DEF PushedBy
<1>5. ASSUME NEW d \in Daemons, NEW w \in Watched, Near(d, w),
             \A e \in Daemons : up[e], lost = 0, \A e \in Daemons \ {w} : ~busy[e]
      PROVE  News(w) \in log[d]
  <2>0. w \in Daemons /\ Peers[w] \subseteq Daemons BY DiscoveryAssumption
  <2>1. PushedBy(w) /\ w \in announced BY <1>5, <2>0 DEF Tick, ReachInv
  <2>2. \A m \in net : m.to = w \/ m.to \notin Daemons BY <1>5 DEF Tick
  <2>3. \A e \in Peers[w] : News(w) \in log[e]
    <3>1. \A e \in Peers[w] : e \in Daemons /\ e # w BY <2>0, DiscoveryAssumption
    <3> QED BY <2>1, <2>2, <3>1 DEF PushedBy, Way
  <2>4. CASE d = w \/ d \in Peers[w]
    BY <2>1, <2>3, <2>4 DEF PushedBy
  <2>5. CASE d # w /\ d \notin Peers[w]
    <3>1. PICK e \in Peers[w], B \in SUBSET (Daemons \ {w}) : Behind(d, e, w, B)
      BY <1>5, <2>5 DEF Near, Behind
    <3>2. e \in Daemons /\ B \in SUBSET Daemons BY <2>0
    <3>3. Relayed(d, e, w) BY <1>5, <3>1, <3>2 DEF ReachInv
    <3>4. Way(d, News(w)) BY <2>3, <3>3 DEF Relayed
    <3> QED BY <2>2, <2>5, <3>4 DEF Way
  <2> QED BY <2>4, <2>5
<1>6. ASSUME NEW d \in Daemons, NEW w \in Watched, Near(d, w) PROVE Heard(d, w)'
  <2> SUFFICES ASSUME Running', lost' = 0, \A e \in Daemons \ {w} : ~lag'[e]
               PROVE  Fresh(d, w, now - 1)'
    BY DEF Heard
  <2>1. (\A e \in Daemons : up[e]) /\ lost = 0 /\ \A e \in Daemons \ {w} : ~busy[e] BY <1>u DEF Running
  <2>2. News(w) \in log'[d] BY <1>5, <1>6, <1>u, <2>1
  <2>3. News(w).by = w /\ News(w).at >= now' - 1 BY <1>n DEF News
  <2> QED BY <2>2, <2>3 DEF Fresh
<1> QED BY <1>2, <1>3, <1>4, <1>6 DEF ReachInv, Behind, Near

LEMMA InitReach == Init => ReachInv
<1> SUFFICES ASSUME Init PROVE ReachInv
  OBVIOUS
<1>1. MaxPeriods \in Nat /\ ~(0 < 0) BY DiscoveryAssumption
<1>2. ASSUME NEW w \in Watched, NEW d \in Daemons PROVE News(w) \notin log[d]
  BY DEF Init, News, Own
<1>3. ASSUME NEW w \in Watched, NEW d \in Daemons PROVE Heard(d, w)
  BY <1>1 DEF Init, Heard, Running
<1> QED BY <1>2, <1>3 DEF Init, ReachInv, First, Relayed, PushedBy

LEMMA ReachInvStep == TypeInv /\ ReachInv /\ [Next]_vars => ReachInv'
<1> SUFFICES ASSUME TypeInv, ReachInv, [Next]_vars PROVE ReachInv'
  OBVIOUS
<1>1. CASE UNCHANGED vars
  <2>1. UNCHANGED <<now, up, since, announced, lag, log, net, lost>> BY <1>1 DEF vars, procVars, loopVars
  <2>2. \A d, e, w, B : First(d, e, w, B) => First(d, e, w, B)'
    BY <2>1 DEF First, Brings, Carries, News
  <2>3. \A d, e, w : Relayed(d, e, w) => Relayed(d, e, w)' BY <2>1 DEF Relayed, Way, Carries, News
  <2>4. \A w : PushedBy(w) => PushedBy(w)' BY <2>1 DEF PushedBy, Way, Carries, News
  <2>5. \A d, w : Heard(d, w) => Heard(d, w)' BY <2>1 DEF Heard, Running, Fresh
  <2> QED BY <2>1, <2>2, <2>3, <2>4, <2>5 DEF ReachInv, Linked, Behind, Near
<1> QED BY <1>1, DaemonReach, LoseReach, TickReach DEF Next

(* With advertisements that last two periods, a worker that runs is shown by
   every daemon near it, whatever the rest of the network looks like, as long as
   nothing was lost and recv_loops keep up. *)
THEOREM VisibleWhereNear ==
    ASSUME 2 * Period <= TTL
    PROVE  Spec => []WorkersStayVisible
<1>1. TypeInv /\ ReachInv => WorkersStayVisible
  <2> SUFFICES ASSUME TypeInv, ReachInv, NEW w \in Watched, NEW d \in Daemons, Near(d, w), Running, lost = 0,
                      \A e \in Daemons \ {w} : ~lag[e]
               PROVE  Shows(d, w)
    BY DEF WorkersStayVisible
  <2>1. Fresh(d, w, now - 1) BY DEF ReachInv, Heard
  <2> QED BY <2>1, FreshShows
<1> QED BY <1>1, InitReach, ReachInvStep, AlwaysTypeInv, PTL DEF Spec

-----------------------------------------------------------------------------
(* Expiry. *)

(* w does not run after period t. *)
LeftAt(w, t) == now > t => ~up[w]

(* Nothing that is known or said of w is later than t. *)
Told(w, t) ==
    /\ \A d \in Daemons : \A a \in log[d] : a.by = w => a.at <= t
    /\ \A m \in net :
          /\ m.kind = "node_advertisement" => (m.ad.by = w => m.ad.at <= t)
          /\ m.kind = "discover_response" => \A a \in m.ads : a.by = w => a.at <= t

(* The log of d has nothing of w that could be shown. *)
Hidden(d, w) == \A a \in log[d] : a.by = w => now > a.at /\ (now - a.at - 1) * Period > TTL

(* A worker that no longer runs disappears everywhere once its TTL has passed,
   whoever still relays, answers or imports its advertisements. *)
GoneExpire ==
    \A w \in Watched, t \in 0..MaxPeriods :
        []LeftAt(w, t) =>
            [](now > t /\ (now - t - 1) * Period > TTL => \A d \in Daemons : Hidden(d, w))

Takes(x, ads) == log' = [log EXCEPT ![x] = @ \cup ads]

(* A log takes up what is told already, or the own advertisement of a daemon
   that runs. *)
LEMMA ToldAppends ==
    ASSUME TypeOK, NEW x \in Daemons, NEW ads, Takes(x, ads),
           NEW w, NEW t, Told(w, t), \A a \in ads : a.by = w => a.at <= t
    PROVE  \A d \in Daemons : \A a \in log'[d] : a.by = w => a.at <= t
<1>1. log'[x] = log[x] \cup ads /\ \A d \in Daemons : d # x => log'[d] = log[d] BY DEF TypeOK, Takes
<1> QED BY <1>1 DEF Told

LEMMA ToldStays ==
    ASSUME TypeInv, NEW w \in Watched, NEW t \in Nat, Told(w, t), LeftAt(w, t), LeftAt(w, t)', [Next]_vars
    PROVE  Told(w, t)'
<1>0. TypeOK BY DEF TypeInv
<1>n. now \in Nat
  <2>1. MaxPeriods \in Nat BY DiscoveryAssumption
  <2> QED BY <1>0, <2>1 DEF TypeOK
<1>1. CASE UNCHANGED vars
  BY <1>1 DEF Told, vars
<1>2. CASE Tick
  BY <1>2 DEF Told, Tick
<1>3. ASSUME NEW m \in net, Lose(m) PROVE Told(w, t)'
  BY <1>3 DEF Told, Lose
<1>4. ASSUME NEW x \in Daemons, DaemonStep(x) PROVE Told(w, t)'
  <2>o. ASSUME up[x] \/ (up'[x] /\ now' = now), NEW how
        PROVE  \A a \in Own(x, how) : a.by = w => a.at <= t
    BY <1>n, <2>o DEF Own, LeftAt
  <2>1. CASE Announce(x)
    <3>1. \A a \in Own(x, "announced") : a.by = w => a.at <= t BY <2>1, <2>o DEF Announce
    <3>t. Takes(x, Own(x, "announced")) BY <2>1 DEF Announce, Takes
    <3>2. \A d \in Daemons : \A a \in log'[d] : a.by = w => a.at <= t
      BY <1>0, <3>1, <3>t, ToldAppends
    <3>3. \A m \in Publish(x, Own(x, "announced"), Peers[x]) :
              m.kind = "node_advertisement" /\ m.ad \in Own(x, "announced")
      BY DEF Publish
    <3>4. net' = net \cup Publish(x, Own(x, "announced"), Peers[x]) BY <2>1 DEF Announce
    <3> QED BY <3>1, <3>2, <3>3, <3>4 DEF Told
  <2>2. CASE Discover(x)
    <3>1. \A a \in Own(x, "unpublished") : a.by = w => a.at <= t BY <2>2, <2>o DEF Discover
    <3>t. Takes(x, Own(x, "unpublished")) BY <2>2 DEF Discover, Takes
    <3>2. \A d \in Daemons : \A a \in log'[d] : a.by = w => a.at <= t
      BY <1>0, <3>1, <3>t, ToldAppends
    <3>3. \A m \in net' : m \in net \/ m.kind = "discover_request" BY <2>2 DEF Discover
    <3> QED BY <3>2, <3>3 DEF Told
  <2>3. ASSUME NEW m \in net, HandleAd(x, m) PROVE Told(w, t)'
    <3>1. m.ad.by = w => m.ad.at <= t BY <2>3 DEF HandleAd, Told
    <3>t. Takes(x, {m.ad}) BY <2>3 DEF HandleAd, Takes
    <3>2. \A d \in Daemons : \A a \in log'[d] : a.by = w => a.at <= t
      BY <1>0, <3>1, <3>t, ToldAppends
    <3>3. \A n \in Publish(x, {m.ad}, Peers[x] \ {m.ad.by, m.from}) :
              n.kind = "node_advertisement" /\ n.ad = m.ad
      BY DEF Publish
    <3>4. \A n \in net' : n \in net \/ (n.kind = "node_advertisement" /\ n.ad = m.ad)
      BY <2>3, <3>3 DEF HandleAd
    <3> QED BY <3>1, <3>2, <3>4 DEF Told
  <2>4. ASSUME NEW m \in net, HandleRequest(x, m) PROVE Told(w, t)'
    <3>1. \A a \in Own(x, "unpublished") : a.by = w => a.at <= t BY <2>4, <2>o DEF HandleRequest, Take
    <3>t. Takes(x, Own(x, "unpublished")) BY <2>4 DEF HandleRequest, Takes
    <3>2. \A d \in Daemons : \A a \in log'[d] : a.by = w => a.at <= t
      BY <1>0, <3>1, <3>t, ToldAppends
    <3>3. PICK R \in LatestOf({ad \in log[x] : ad.by # x}) :
              net' = (net \ {m}) \cup
                         {[kind |-> "discover_response", to |-> m.from, ads |-> R \cup Own(x, "unpublished")]}
      BY <2>4 DEF HandleRequest
    <3>4. \A a \in R : a.by = w => a.at <= t
      <4>1. R \subseteq log[x] BY DEF LatestOf
      <4> QED BY <4>1 DEF Told
    <3>5. \A n \in net' : n \in net \/ (n.kind = "discover_response" /\ n.ads = R \cup Own(x, "unpublished"))
      BY <3>3
    <3> QED BY <3>1, <3>2, <3>4, <3>5 DEF Told
  <2>5. ASSUME NEW m \in net, HandleResponse(x, m) PROVE Told(w, t)'
    <3>1. \A a \in m.ads : a.by = w => a.at <= t BY <2>5 DEF HandleResponse, Told
    <3>t. Takes(x, m.ads) BY <2>5 DEF HandleResponse, Takes
    <3>2. \A d \in Daemons : \A a \in log'[d] : a.by = w => a.at <= t
      BY <1>0, <3>1, <3>t, ToldAppends
    <3> QED BY <2>5, <3>2 DEF HandleResponse, Told
  <2>6. CASE StartTask(x) \/ EndTask(x) \/ Crash(x)
    BY <2>6 DEF StartTask, EndTask, Crash, Told
  <2>7. CASE Restart(x)
    <3>1. up'[x] /\ now' = now BY <1>0, <2>7 DEF Restart, TypeOK
    <3>2. \A a \in Own(x, "unpublished") : a.by = w => a.at <= t BY <3>1, <2>o
    <3>t. Takes(x, Own(x, "unpublished")) BY <2>7 DEF Restart, Takes
    <3>3. \A d \in Daemons : \A a \in log'[d] : a.by = w => a.at <= t
      BY <1>0, <3>2, <3>t, ToldAppends
    <3> QED BY <2>7, <3>3 DEF Restart, Told
  <2> QED BY <1>4, <2>1, <2>2, <2>3, <2>4, <2>5, <2>6, <2>7 DEF DaemonStep
<1> QED BY <1>1, <1>2, <1>3, <1>4 DEF Next

(* For any daemons, peers and bounds: the signer's own time decides, so no
   daemon keeps another one alive for the rest. *)
THEOREM GoneAreHidden == Spec => GoneExpire
<1> SUFFICES ASSUME NEW w \in Watched, NEW t \in 0..MaxPeriods
             PROVE  Spec /\ []LeftAt(w, t) =>
                        [](now > t /\ (now - t - 1) * Period > TTL => \A d \in Daemons : Hidden(d, w))
  BY DEF GoneExpire
<1>0. t \in Nat /\ MaxPeriods \in Nat /\ Period \in Nat /\ TTL \in Nat BY DiscoveryAssumption
<1>1. Init => Told(w, t) BY <1>0 DEF Init, Told, Own
<1>2. TypeInv /\ Told(w, t) /\ LeftAt(w, t) /\ LeftAt(w, t)' /\ [Next]_vars => Told(w, t)'
  BY <1>0, ToldStays
<1>3. TypeInv /\ Told(w, t) =>
          (now > t /\ (now - t - 1) * Period > TTL => \A d \in Daemons : Hidden(d, w))
  <2> SUFFICES ASSUME TypeInv, Told(w, t), now > t, (now - t - 1) * Period > TTL, NEW d \in Daemons,
                      NEW a \in log[d], a.by = w
               PROVE  now > a.at /\ (now - a.at - 1) * Period > TTL
    BY DEF Hidden
  <2>1. now \in Nat /\ a.at \in Nat /\ a.at <= t BY <1>0 DEF TypeInv, TypeOK, Ads, Told
  <2>2. (now - a.at - 1) * Period = (now - t - 1) * Period + (t - a.at) * Period BY <1>0, <2>1
  <2>3. (t - a.at) * Period >= 0
    <3>1. t - a.at \in Nat BY <1>0, <2>1
    <3> QED BY <1>0, <3>1
  <2>4. (now - t - 1) * Period \in Int /\ (t - a.at) * Period \in Int BY <1>0, <2>1
  <2> QED BY <1>0, <2>1, <2>2, <2>3, <2>4
<1> QED BY <1>1, <1>2, <1>3, AlwaysTypeInv, PTL DEF Spec
=============================================================================

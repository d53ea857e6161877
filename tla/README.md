# Formal specifications of NodeHub on AXL

NodeHub is a market of small worker daemons: a customer's daemon finds workers,
sends them jobs, receives signed receipts and pays for them on the 0G chain.
Daemons talk to one another only through their AXL node, a Go process that
carries messages over a Yggdrasil mesh. The modules in this directory specify
those protocols in TLA+; TLC checks them on small instances, and TLAPS proves every
invariant, action property and refinement of the passing runs for every instance; only
liveness is left to TLC (section 4).

Paths below are relative to `src/`.

## 1. The system

| Part | State it keeps | Operations | Talks to |
|---|---|---|---|
| **Daemon: settlement** (`platform/daemon/service.py`) | settlement records in the event log; the snapshot of a reconcile round | `request_settlement`, `reconcile_pending_settlements`, `_broadcast_native_payment`, `_check_tx_receipt` | RPC node of the 0G chain |
| **Daemon: job dispatch** (`service.py`) | `_pending_demo_requests` (futures), suspended `request_job` coroutines, the message `recv_loop` handles, requests, receipts and attestations in the log | `request_job`, `send_demo_request`, `handle_execution_request`, `handle_attestation`, `store_attestation`, `backfill_attestations`, `recv_loop` | own AXL node (`POST /send`, `GET /recv`), model API, task plugins |
| **Daemon: discovery** (`service.py`, `state.py`) | advertisements in the log, `_seen_discover_requests` | `announce_current_advertisement`, `discover_remote_nodes`, `store_and_relay_advertisement`, `live_nodes` | own AXL node |
| **Event store** (`state.py`) | `events.jsonl`, append-only | `append`, `import_many`, the projections `settlements`, `known_nodes`, `leases`, `jobs`, `job_report` | the daemon |
| **AXL node: messages** (`api/`, `internal/tcp`, `internal/mcp`, `internal/a2a`) | slots of `connSem`, connections, `DefaultRecvQueue` | `HandleSend`, `HandleRecv`, `handleMCPPost`, `HandleA2A`, `handleTCPConn`, `Forward` | remote nodes, local applications, MCP router, A2A server |
| **AXL node: MCP sessions** (`api/mcp.go`) | the session table | POST, GET, DELETE on `/mcp/...` | remote nodes |
| **MCP router** (`integrations/mcp_routing`) | registry of services, their health | register, deregister, route, health | MCP services |
| **A2A server** (`integrations/a2a_serving`) | tasks of the A2A SDK | `execute`, agent card | MCP router |
| **GossipSub example** (`examples/python-client/gossipsub`) | mesh, seen messages, message cache, pending IWANTs | publish, heartbeat, handlers of GRAFT, PRUNE, IHAVE, IWANT | AXL node |
| **Node Nexus agent** (`node-nexus-agent`) | per request a child process with a browser and a loop of model calls | `/mcp/execute`, timeout, upload | browser, model API, 0G storage |
| **Agents, task plugins, identity, dashboard, scripts** | none of their own | pure functions, HTTP calls, rendering | |

How they interact. A daemon is one `asyncio` process. Its coroutines
(`recv_loop`, the loops of discovery, announcement and settlement, one `request_job`
per client call) share the event log and a few dictionaries and interleave at
every `await`. Daemons share nothing: what one knows of another arrived as a
message through two AXL nodes. Two AXL nodes share one TCP connection per
message. The AXL node is a process of its own: its queue survives a crash of the
daemon, and the daemon's log survives both.

What is hard, and where:

* *Awaits.* The reconcile loop works on a snapshot of the records across several
  RPC calls per record; `request_job` waits up to 900 s for a receipt; `recv_loop`
  waits for the task it executes, up to 660 s, and handles nothing meanwhile.
* *Crashes.* Between a send to the chain and the record of it; between a
  receipt and its attestation; between append and reply on the worker.
* *Messages.* The AXL node hands over at most once, without order, and drops the
  oldest message of a full queue; a reply may come when nobody waits for it.
* *Limits.* Slots of the listener, capacity of the queue, TTL of advertisements,
  size of a mesh, ids in an IWANT.
* *Deadlines in a row.* A tool call passes six processes that wait 30, 30, 30, 30, 660
  and 600 s for the next; none of them cancels what is behind it, and dialling the peer,
  writing a message and the final upload have no deadline at all.

What makes each part correct:

* settlement: a receipt is paid once, by the one who owes it, and a record says
  what the chain did; every receipt is settled in the end;
* dispatch: the work is done at most once, both sides can show the receipt, the
  client's view is final, the receipt is attested once, and daemons never wait for one another;
* AXL node: no slot is lost, messages are not doubled, mixed up or reordered in
  the queue, a part of a message is never a message;
* discovery: a running worker is shown; one that is gone expires, whoever relays its
  advertisements, because the signer's own timestamp decides;
* tool calls: an answer of one hop is true of the hops behind it, a call that the peer
  has taken is answered, and no agent runs for ever;
* Node Nexus: only the report of a run that ended well is stored;
* GossipSub: meshes stay within their size, and a message that is asked for comes
  unless something was lost.

`PROJECT.json` lists every component with its status, and every hazard with its
line and the properties that would catch it.

## 2. Modules

| Module | What it is |
|---|---|
| `Settlement` | receipts, settlement records, the reconcile loop and the chain |
| `SettlementLedger` | what settlement promises: an account per payer and receipt |
| `JobDispatch` | a job's way between two daemons: `request_job` and `recv_loop` |
| `JobBoard` | what dispatch promises: a job's status and its work |
| `AxlNode` | one AXL node: callers, listener, streams, queue, pollers |
| `Channel` | what the node promises: at-most-once hand-over of written messages |
| `Discovery` | advertisements: announcing, relaying, asking, expiring |
| `McpRouter` | the registry of the MCP router and `handle_route` |
| `BrowserRun` | what the browser orchestrator promises its caller |
| `NodeNexus` | the orchestrator in detail: handler, agent process, model replies, upload |
| `ToolCalls` | a tool call through all processes: composes `McpRouter` and `BrowserRun` |
| `GossipSub` | mesh, announcements and requests of the GossipSub example |
| `...Proofs` | theorems about `Settlement`, `AxlNode`, `JobDispatch`, `Discovery`, `ToolCalls`, `NodeNexus`, `GossipSub` |
| `MC...` | instances for TLC, each with its `.cfg` files |

`AxlNode` is shown to implement `Channel`, and `JobDispatch` is built on
`Channel`: that is where the Go and the Python half meet. `JobDispatch` ends
where `Settlement` begins: a receipt accepted there is `AcceptReceipt` here, and what
`Settlement` takes for granted of a job - signed by the worker before it is accepted,
accepted only while it is waited for, and in both logs then - is proved of `JobDispatch`
(`DispatchIsBoard`, `EvidenceShared`).
`ToolCalls` EXTENDS `McpRouter` and `BrowserRun` and puts them behind the nodes of a
client and of a peer; `NodeNexus` is shown to implement `BrowserRun`, so that the
composition needs to know nothing of models and steps.

### Settlement

One action per stretch of code between two awaits. `pc[d]` says where the reconcile
coroutine of daemon `d` is suspended: `scan` (between two records of its snapshot),
`preflight` (balance, nonce, gas price), `sending` (`eth_sendRawTransaction`),
`polling` (`eth_getTransactionReceipt`). `todo` and `snapshot` are the rest of the
`for` loop and its copies; `record` is what `settlements()` would return now. The
chain (`txState`, `txFor`, `reply`) is external: it accepts, mines with
success or revert, or evicts. A signed transfer consists of the payer's key, the
pending nonce, the wallet, the gas price and one amount for every job
(`service.py:694-717`); the receipt is not in it. While the nonce is new, so is the hash.
An eviction frees the nonce, and the next transfer of that payer to that wallet may then
be the evicted one again, sent for the same receipt or for another: `SignsAs` allows
every evicted hash of the payer and the wallet, whether or not nonce and gas price have
come out the same, and `txFor` collects for whom a hash was sent. Two receipts of
one worker may so be paid by one transfer; the ledger says when (`Reissues`). `reply[d]` separates "the node accepted" from "the
daemon knows", so that a lost reply and a crash in between are real behaviours.

Abstractions: `Payable` stands for the guards of `build_execution_settlement`
(success, price, wallet), `Configured` for those of `_broadcast_native_payment`
(URL, key, network). Verification receipts take the same path and are not told
apart. A `request_job` may run while the reconcile of `startup` is still awaiting,
which the web server excludes: the model allows more. Records are ordered by their
append; the code orders by `updated_at`, which is the same while the clock does not
step back.

### JobDispatch

`stage[j]` is the await at which `request_job` of `j` is suspended, `answered` the
futures with a result, `handling`/`doing` what each `recv_loop` is busy with. A
future is there from the moment `send_demo_request` begins, which is before the
message is posted. `posted` is `POST /send` on the own node: the node may transmit
even if the daemon has given up or crashed since. Every append to a log is a step of
its own - the plan and the request, the receipt, the copy of the diagnosis and the
summary, the diagnosis and the receipt of a worker - so a crash may fall between any two.
One between the receipt (`service.py:1408`) and the copy of its diagnosis (`:1136`)
leaves the requester without the copy for good.

`Fault` is common to failing calls and timeouts, raising tasks, unusable summaries and
lost messages, and `MaxFaults` bounds them. `Lose` stands for every way in which a
message that was sent never reaches its daemon: the queue of the peer's node is full and
drops its oldest (`api/recv.go:27`), which happens while `recv_loop` is busy with a task
for up to 660 s; the listener closes a connection beyond its limit although the sender
had its 200; `GET /recv` pops a message for a poll that does not read it. Other
coroutines of a daemon may run between two appends in the model, which they cannot in
the code; none of them touches the same job.
`attests` says for every log who issued which attestation: `request_job`, or the
backfill of a startup; `ImportAttestation` copies one from another log.

Abstractions: a worker selected for a job is not the requester itself (with a customer
daemon, which offers no capability, it cannot be; a worker's own client could select
it). Quotes and `fetch_receipt` use the same request/reply mechanism and are left out;
verification requests and leases have no caller in the repository. The A2A entry point
calls the same handlers outside of `recv_loop` and is left out; the MCP one is in
`ToolCalls`.

### AxlNode

`caller[c]` is the API handler of the remote node, `conn[c]` the goroutine of the
listener, `wire[c]` how much of the message can be read. A stream that takes a
message forwards it and answers on the connection, in a write without a deadline
(`listener.go:325-337`): `AnswerWritten` needs a remote side that reads, `AnswerDropped`
one that has closed the connection. Anything else goes to the queue. After a message the
handler reads again, with a new idle deadline (`listener.go:268-270`). `Restart` is the
end of the process: connections and queue are gone, callers remain.
`got` and `arrived` are history variables for the properties. One message per
connection, as every caller in the repository does; a peer with other software may send
more on one connection, which is like another call to queue and streams and like an
idle connection to the slots, neither of which has to end. The bytes of a message are
nothing, some or all.

### Discovery

Time is counted in periods of 45 s. In a period every running daemon announces and
asks once, in any order, and whatever is not lost reaches every `recv_loop` that is
not blocked by a task; `Tick` ends it. An advertisement of period `t` is therefore
more than `now - t - 1` and less than `now - t + 1` periods old, and the properties
use the bound that is safe: `Shows` holds wherever in the period the moments lie, and
so does `Hides`. `WorkersStayVisible` is about a daemon `Near` the worker: one the worker
pushes to, or one behind a single relay, whose other neighbours, if it has any, hear of the
worker only through the relay or that daemon. An advertisement is an event of its own each time it is signed;
only the announced ones are pushed and relayed. Relaying is decided by whether the log
has that very event.

Abstractions: only advertisements of `Watched` workers are in the logs. A handler's
append and its relays are one step (messages are delayed anyhow). Requests deeper
than one hop are never sent by the loops and are left out, with
`_seen_discover_requests`. All clocks agree. A peer that does not answer makes the
real loops slower than 45 s, up to 30 s per send; the model does not.

### McpRouter and ToolCalls

A call is made at the node of the client, as an MCP POST with or without a session or
as an A2A task, and passes the peer's node, the A2A server, the router, the `/mcp`
endpoint of a worker's daemon, the browser plugin and the orchestrator. `client`,
`events`, `route`, `task` and `server` are where the handler of each hop stands.
A client's handler dials, writes and waits; only the waiting has a deadline, the read
deadline that is set once the peer is reached (`dial.go:37-45`, `tcp_helpers.go:15-25`).
`span[c]` is the time since the peer was reached, cut at the deadlines: a deadline may
strike only in its span, and a span may end only when everyone who gives up in it has
done so; where a request takes longer to be written, the spans behind it stretch. That
is all that is kept of time: 30 s for both nodes, the A2A server and the router, 600 s
for the agent, 660 s for the plugin. That the agent's timeout comes before the plugin's
is so built in, and `PluginOutlivesAgent` rests on it: what it adds is that no agent
starts after its plugin's request and none outlives its own timeout. `sessions` is the
session table of `api/mcp.go`, `given` the ids a client has received.

In `McpRouter`, `Forward` is `handle_route` before its await and `Conclude` what it
does after it; between them an entry can be replaced or removed. `changes` and
`sawChange` are history.

Abstractions: only the worker service registers with the router in this repository,
so the other tools are not reachable through it, and a call whose method is
`initialize` stands for every call that is not a browser task. A call's four 30 s
deadlines are taken to expire in any order.

### NodeNexus and BrowserRun

`server` is the handler of `/mcp/execute`, `agent` the python process. Every step of
the agent asks the model; what a reply does to the run depends on its kind, on whether
a results page was asked for or is shown, and on how many replies in a row were off the
schema. The loop ends by a `done`, by its limits, by an abort, or because `execFile`
kills the process, at any moment and past its `finally` clause. What the browser shows is
up to the website: any step may bring a results page up or away (`PageChanges`), and the
submitted URL may be one. A `giveUp` that the code rewrites counts as a success, as it
does in the code. Nothing is said of the browser itself: its profile has
`keep_alive=True` (`agent.py:912`), so `browser_session.stop()` (`:982`) leaves it open,
after a good run too; no variable holds it. `BrowserRun` keeps of all this that the
process ends well or not.

Abstractions: one task, of the kind whose replies are rewritten. The list form of
actions in `agent.py:529-569` cannot be reached and is left out.

### GossipSub

One topic that all nodes subscribe to before they start. `net` is the set of packets
under way, delivered in any order; `seen` is also the cache, which is never pruned.
`cut` and `lost` are history: what was cut off an IWANT of more than `MaxWanted` ids (64
in the code) and what was lost. A heartbeat may choose any peers the sampling could.

## 3. Runs

| Run | Instance | States | What it shows |
|---|---|---|---|
| `settlement_safety` | customer, worker; 2 receipts, 2 hashes; 1 crash; replies lost, transfers evicted and issued again | 1.3 M | records follow their walk and agree with the chain, also when an evicted transfer is issued again; no copy of a round is stale when it is stored; nothing is sent for a record with a hash; the ledger is implemented |
| `settlement_live` | 1 receipt, 3 hashes, 1 crash | 11.6 k | every payable receipt is settled; a payer sends one transfer for it, and at most one more for every crash |
| `settlement_lost` (violated) | 1 receipt, replies lost | | see finding 1 |
| `settlement_payer` (violated) | 1 receipt, the worker can pay too | | see finding 2 |
| `axl` | 4 calls: two one-way, one that is answered by nobody, one for a stream; 2 pollers, 1 slot, capacity 2, 1 restart | 666 k | slots exact, queue holds the latest arrivals, order kept for both pollers, answers only from streams, channel implemented, a connection that the remote side has closed gives its slot back |
| `dispatch` | two daemons that work for each other, 2 jobs, 1 fault, 1 crash, imports | 240 k | the worker has the evidence of what it is paid for, no issuer counted twice, what a job waits for is under way unless something failed or was lost, board implemented, without faults and losses every job is done, an accepted receipt is attested |
| `discovery_line` | 3 daemons in a line, 2 periods | 2.9 M | a worker is shown at the other end, even while it is busy |
| `discovery_pair` | 2 daemons, 1 message lost, 1 crash | 2.2 M | one loss does not hide a worker |
| `discovery_busy` (violated) | 2 daemons, 4 periods, no fault | | see finding 3 |
| `toolcalls` | a browser task and an `initialize`, one service, a start, a kill | 514 k | what each hop answers is true of the hops behind it; every call whose request was written is answered and every agent ends by the timers alone |
| `nexus` | 1 request, the real limits: 8 steps, 3 failures, 3 replies off schema | 2.4 k | only the report of a run that ended well is stored; `BrowserRun` is implemented |
| `gossipsub` | 4 nodes, 2 messages, 2 heartbeats, 1 loss, 1 id per IWANT | 2.9 M | meshes within `DHigh`, only cached messages announced, nobody waits in vain unless something was lost |

Why the bounds are enough. Settlement of one receipt depends on another one only
through the snapshot and `todo` and, after an eviction, through the nonce, for which two
receipts of one wallet are needed and suffice; two hashes make a second payment possible,
and a third the one that a single crash does not excuse. Hashes and receipts are
symmetric in that run, as all receipts have the same parties. The proofs then cover every
number of receipts, daemons, wallets, hashes and crashes. Two daemons that
work for each other are the smallest cycle of `recv_loop`s, and every fault and crash
may hit either of them at any await. With one slot every second connection finds the limit
reached, and a capacity of two with three messages for the queue makes it overflow; two
pollers share it. The proofs are for any number of slots and pollers. Three daemons in a line have one relay, and any two
of them are `Near`; two periods are what an
advertisement must last (three would be past the TTL), four what it takes to expire
for sure. A browser task has no counterpart to interact with but its service, and an
`initialize` is what the session table needs; one start and one kill empty the registry
during an await. Requests to the orchestrator do not share anything, so one is enough.
Four nodes with `D = 2` are the fewest in which a mesh fills up by own and foreign GRAFTs
and somebody is left to be told by IHAVE; an IWANT of one id cuts off the second of two
messages. A heartbeat waits until at most `MaxInFlight` packets are under way, which
bounds the run and not the code; `MaxBeats`, `MaxStarts`, `MaxKills`, `MaxLosses`,
`MaxFaults`, `MaxCrashes`, `MaxRestarts`, `MaxLost` and `MaxPeriods` are bounds of the
models, everything else that is bounded is bounded in the code. No run checks
deadlock: clients need not submit jobs, callers need not call, and a model whose
bounds are used up may stop.

Fairness, only where liveness is checked:

* settlement: `asyncio` resumes a coroutine whose await is over (WF of the loop's
  steps); an RPC call fails any number of times but not always, and is retried each
  round (SF of send, acceptance and a decisive poll); accepted transfers are mined
  (WF). With evictions the property would be false: nothing leads out of TRIGGERED
  if a transfer vanishes, so that run excludes them.
* dispatch: coroutines whose await is over go on, the operator restarts a daemon, and
  the nodes transmit what was posted and hand it over unless it is lost, which is a
  fault. `EveryJobDone` is about behaviours without faults, losses and crashes: that a
  `recv_loop` is blocked by a task does not alone make two daemons wait for each other.
  Once a message is lost only the timeout of 900 s helps.
* AXL node: forwarding ends by the timeout of its HTTP client, and once the remote side
  has closed its connection every read and every write on it ends. While the remote
  side keeps it open nothing need end, and nothing is assumed of callers or pollers.
* tool calls: only timers are fair - the deadlines of the nodes, of the A2A server, the
  router and `execFile`, and time itself. Nothing is assumed of dialling and writing,
  which may hang, so `EveryCallAnswered` begins once the request is written; nor of tools, models or the
  storage, so a hanging upload may hang: `EveryAgentEnds` is about the agent.

### Findings

1. `FailedMeansNotSent`: a FAILED record without a hash is said to mean that the
   broadcast failed (`service.py:779`), and is sent again. When only the reply was
   lost, the transfer is under way and the worker is paid twice.
2. `RequesterPays`: README.md:29 has the requester's daemon pay. The loop looks at all
   receipts in the log (`service.py:759`), also those the daemon signed as a worker;
   a worker whose key can pay, pays.
3. `LiveNodesAreShown`: `service.py:839` calls the refresh every 45 s sufficient. A
   daemon that executes a task longer than the TTL of 120 s handles no
   advertisement meanwhile, and every other worker vanishes from its view.

Met on the way, without a run of its own: `docs/works.md:351` calls the receive queue
unbounded, while it drops the oldest of 100 (`api/recv.go:27`; `QueueHoldsLatest` is
what holds); the pruning branch of the GossipSub heartbeat is never taken, since a mesh
never outgrows `D_high`. An advertisement that a daemon has imported from a
`discover_response` is no longer new when it is pushed there, and is not relayed
(`service.py:929`, `:942`): in a line of four daemons the one at the far end can miss a
running worker, although nothing is lost and every `recv_loop` keeps up. That is why
`WorkersStayVisible` asks for `Near`. After an eviction one transfer may pay for two jobs
of one worker, each of whose records ends CONFIRMED. A requester that crashes between
`service.py:1408` and `:1136` never gets its copy of the diagnosis. The Node
Nexus agent never closes its browser itself (`keep_alive` and `stop()`). A peer that accepts a connection
and does not read keeps a caller of `POST /mcp/...` waiting beyond the 30 s of
`dial.go:45`.

## 4. Proofs

Every `Proofs` module proves its theorems for every value of the constants, from the
named ASSUMEs of the module it is about and nothing else. The pattern is the same in
each: an inductive invariant, a lemma per group of actions, one lemma that puts the
steps together, and theorems that follow from the invariant.

### Settlement

`SettlementProofs` proves, for every set of daemons, receipts and hashes, every
assignment of requesters and workers, any number of crashes and any choice of faults,
from `SettlementAssumption` alone:

| Theorem | Statement |
|---|---|
| `Invariant` | `Spec => []IInv` |
| `TypeCorrect`, `SnapshotStaysCurrent`, `RecordsAgree` | the invariants that `settlement_safety` checks |
| `NeverSentTwice` | a transfer is accepted only for a record without a hash |
| `RecordsWalk` | a record changes along its walk and is frozen once final |
| `Refinement` | `Spec => LedgerSpec`: accounts are ordered with a transaction of their own unless evicted ones may be issued again, then possibly with one that other open accounts of the same payer and payee wait for; those are closed alike |
| `OwnTransferWithoutEvictions` | without evictions no two records name one transfer |
| `PaidOnceButForCrashes` | without lost replies a payer has at most one transfer for a receipt, and one more for every crash, those evicted or reverted included |
| `FailedIsNotSentWithoutFaults` | without lost replies, and as long as nothing has crashed, nothing of a FAILED settlement without a hash is under way: nothing else causes the first finding |
| `RequesterPaysIfOnlyItCan` | if no worker of a payable receipt, other than its requester, is configured to pay, the requester pays, whatever fails: what excludes the second finding |
| `OwedStaysOnRecord` | while a daemon runs, every payable receipt it got as a requester has its settlement record, whatever crashed before |

The argument. "No copy is stale when stored" is not inductive: one has to know why the
branch taken for the copy still fits the record after the await. So `IInv` is the
conjunction of

* `TypeOK`;
* `TransferShape`: a hash was sent for one payer and one wallet only, and, without
  evictions, for one receipt;
* `RecordShape`: a record that was only requested has no hash;
* `LoopShape`: the place where the loop is suspended tells what it is doing - a receipt
  is being settled exactly at the awaits, it is no longer in `todo`, the copy at a
  send still needs a broadcast and the copy at a poll still has a hash, receipts in
  `todo` have a record, and an answer under way belongs to the transaction just sent, which no final record
  names;
* `SnapshotIsCurrent`, which holds because whatever runs during the loop's awaits
  (`request_settlement`) changes only receipts without a record, and those are not in
  the snapshot;
* `RecordAgreesWithChain`.

There is one lemma per group of actions that change the same variables
(`AcceptStep`, `CrashStep`, `StartReconcileStep`, `StoreSteps`, `ChainSteps`, ...),
and `NextIInv` puts them together. The action properties and the refinement use
`NextChangesRecords`, which says how a step changes records: requested by the log, or
stored by the loop at its current receipt.

How often a receipt is paid is a matter of counting. A transaction is an orphan if
its hash is neither in its payer's record nor in the answer under way. A crash makes at
most one orphan, because a daemon has one send under way, and no other step makes
any (`NoNewOrphan`, which needs that no reply is lost): there are at most
`crashes` of them (`OrphanInv`). Of the transfers for one receipt at most one is not an
orphan (`OneKnown`), because nothing is sent for a record with a hash. Who pays follows
from who learns of a receipt (`OnlyParties`) and whom the configuration lets send
(`OnlyConfigured`).

### AxlNode

For any finite set of calls, any pollers, slots, capacity and restarts: `TypeCorrect`,
`SlotsAreExact`, `HoldsLatest`, `OrderKept`, `OnlyStreamsAnswer`, and `NodeIsChannel`
(`Spec => ChannelSpec`). Slots need that a slot is held exactly by a connection being
served. For the queue, `RecvInv` says that the arrivals that are no longer queued are a
prefix of `arrived` that only grows: what was popped lies in it, what is queued
behind it. The refinement needs how often each call's message was handed over (`Places`,
a cardinality) and that the message of a stream never arrives in the queue.

### JobDispatch

For any daemons, jobs, workers, faults and crashes: `TypeCorrect`, `OncePerIssuer`,
`EvidenceShared`, `NobodyWaits`, `NothingForgotten`, and `DispatchIsBoard` (`Spec => BoardSpec`). `ReceiptIsShared` is not
inductive: that the requester's receipt is in the worker's log follows only from the
whole way of the job. `JobInv` follows it - `Begun`: before the request is posted
nothing is known of the job; `Worked`: the worker takes the request up once, because the
channel hands it over once, signs at most once, after appending, and a reply exists only
then; `Received`: the receipt is in the requester's log exactly from `AcceptReceipt`
on. `Aside` collects what a step about something else may do to a job, and `Frame` shows
that such a step keeps its invariant. `OncePerIssuer` has an invariant of its own,
`LogInv`: an attestation that is anywhere is in the log of its issuer. `NobodyWaits` is
the safety half of "every job is done": as long as nothing has failed, what a future waits
for is under way. Its invariant, `TraceInv`, follows each request of a job from the post
over the worker's `recv_loop` to the reply, and a `recv_loop` that has taken a request up
stays busy with it until the reply is posted; what liveness adds is only that everyone
goes on. `NothingForgotten` is the same half of `EventuallyAttested`: in the log of a
running requester a receipt is attested, unless `request_job` is about to do so or its
summary raised, because a startup attests what a crash has left.

### Discovery

For any daemons, peers and periods, losses and crashes: `TypeCorrect`,
`OneLossTolerated` and `VisibleWhereNear`, which assume `2 * Period <= TTL` (2 * 45 s
and 120 s in the code), and `GoneAreHidden`.

For `OneLossTolerated`, `Paths` says of two direct peers that in the current period the
pushed advertisement and the one that is asked for have each arrived or are under way,
both without a loss and one of them with one; `Seen` that the period before has left one
of them in the log. A loss cuts one path (`LosePaths`); at the end of a period nothing
is under way any more (`TickPaths`).

`VisibleWhereNear` is `Spec => []WorkersStayVisible`. Its difficulty is the relay: the
daemon in the middle passes a pushed advertisement on only if it does not have it yet, so
one has to show that nobody else can have brought it there. `ReachInv` does: before the
relay or the daemon behind it has the news, nobody they deal with has it, and only the
worker's own push brings it to the relay (`First`); once the relay has it, it is in
the log behind it or on its way there (`Relayed`).

`GoneAreHidden` says that a worker that has not run since period `t` is hidden at every
daemon once the TTL has passed, with any losses, crashes, relays and answers: no
step makes an advertisement younger than its signer made it (`Told`). No run checks it:
the instances of the passing runs are too short for the TTL.

### ToolCalls, NodeNexus, GossipSub

`ToolCallsProofs`, for any calls, services, requests, starts and kills, proves every
invariant of its run. A step of the composition is a step, or a stutter, of the router
and of the orchestrator alone (`OrchestratorInPlace`: `Spec => RunSpec`), so
`CrashNeedsRemoval` and the shape of a run are proved from the actions of `McpRouter`
and `BrowserRun`; sessions, tasks and spans are added on top.

`NodeNexusProofs`, for any requests and any limits, proves `TypeCorrect`, `ReportEarned`
and `KeepsItsPromise` (`Spec => BrowserRunSpec`), from which states of the handler, the
process and the storage go together. With `OrchestratorInPlace` this links the two: what
`ToolCalls` assumes of the orchestrator is what `NodeNexus` does.

`GossipSubProofs`, for any finite set of nodes, any messages and configuration, proves
every invariant of its run. `StuckOnlyThen` needs `SuppliersHaveIt`: an IWANT is
answered because it is sent only to a node that has what is asked for, and nothing is
taken out of a cache.

### Only model-checked

Liveness (`EventuallySettled`, `SlotsComeBack`, `EveryJobDone`, `EventuallyAttested`,
`EveryCallAnswered`, `EveryAgentEnds`): properties under fairness are out of the prover's
reach. What of three of them is a matter of states is proved: `OwedStaysOnRecord`,
`NobodyWaits`, `NothingForgotten`. That `LiveNodesAreShown`, `FailedMeansNotSent` and `RequesterPays` fail is shown by
TLC's counterexamples; under which conditions the last two hold is proved.

Check a module with `tlapm SettlementProofs.tla`, a run with
`tlc -config Settlement_safety.cfg MCSettlement` (names as in `PROJECT.json`).

Definitions marked "Mutant" are the code with a plausible mistake: a dropped guard, a
missing look-up, a swapped order. They are used by no specification; putting one in
place of the definition that follows it makes a property fail, and `PROJECT.json`
says which.

## 5. What is not modelled

* The pure parts: signatures, task plugins, configuration, prompts, dashboard,
  scripts, topology endpoint. Envelopes are taken as genuine.
* The Yggdrasil and gVisor stack: external, a connection that may fail.
* Torn writes to `events.jsonl`, clock steps: appends are atomic and ordered.
* Of the daemon: quotes, `fetch_receipt`, the A2A methods of discovery, requests deeper
  than one hop. `send_verification_request`, `fetch_remote_receipt`, `post_mcp` and
  leases have no caller in the repository.
* Of GossipSub: nodes that join after the start. Message ids are counted from 1 after a
  restart (`gossipsub.py:320`), so a restarted publisher's first messages are taken for
  duplicates; restarts are not modelled.
* Of the AXL node on the client's side of a tool call: a restart, which empties the
  session table (`api/mcp.go:20`). `AxlNode` has the restart of the node that is called.
* Of the router: a restart, after which daemons, which register only at their startup,
  are unknown until they restart too (`mcp_router.py:20`).
* The convergecast and client examples: command-line demonstrations.
* Pure projections of the log (`job_report`, `leases`): functions without state, better
  served by unit tests than by a model that would repeat them.

## 6. Plan

Done, in this order: `Settlement` with its ledger, since money is at stake;
`AxlNode` and `Channel`, on which all else rests; `JobDispatch` and `JobBoard`;
`Discovery`; `McpRouter` and `ToolCalls`, with the A2A server and the session table;
`NodeNexus` and `BrowserRun`; `GossipSub`; and the proofs of all of them.

Left, should the code grow that way: torn lines of `events.jsonl` once the store recovers
from them; restarts of the router once daemons register again; joining and leaving of
GossipSub nodes.

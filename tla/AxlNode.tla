------------------------------ MODULE AxlNode ------------------------------
(***************************************************************************)
(* One AXL node as its peers and its applications see it: the TCP listener *)
(* (internal/tcp/listen), the calls that remote nodes make on it for their *)
(* own applications (api/send.go, api/mcp.go, api/a2a.go) and the receive  *)
(* queue that the local applications poll (api/recv.go).                   *)
(*                                                                         *)
(* Every call dials a connection of its own and writes one message on it.  *)
(* (A peer with other software may write more on one connection; to queue  *)
(* and streams that is as good as the message of another call, and to the  *)
(* slots a reason why a connection need not end, see Fairness.)            *)
(* The listener serves a connection in a goroutine if a slot of connSem is *)
(* free and closes it otherwise.  A message that a stream (MCP, A2A) takes *)
(* is forwarded over HTTP and answered on the same connection, in a write  *)
(* that lasts as long as the remote side does not read; any other          *)
(* message is pushed to the queue.  The bytes of a message are abstracted  *)
(* to whether none, some or all of them can be read.                       *)
(***************************************************************************)
EXTENDS Naturals, Sequences, FiniteSets, Functions

CONSTANTS
    Calls,         (* API calls of remote applications                       *)
    OneWay,        (* the calls of POST /send; the others wait for an answer *)
    ForStream,     (* calls whose message a configured stream takes          *)
    Oversized,     (* calls whose message exceeds max_message_size           *)
    Pollers,       (* applications that poll GET /recv                       *)
    MaxConns,      (* max_concurrent_conns                                   *)
    Capacity,      (* capacity of DefaultRecvQueue                           *)
    MaxRestarts,   (* bound on the number of node restarts                   *)
    NoMsg

ASSUME AxlNodeAssumption ==
    /\ OneWay \subseteq Calls
    /\ ForStream \subseteq Calls
    /\ Oversized \subseteq Calls
    /\ MaxConns \in Nat
    /\ Capacity \in Nat \ {0}
    /\ MaxRestarts \in Nat
    /\ NoMsg \notin Calls
    /\ IsFiniteSet(Calls)

VARIABLES
    caller,    (* caller[c]: what the remote API handler of c is doing      *)
    wire,      (* wire[c]: how much of c's message the listener can read    *)
    conn,      (* conn[c]: the listener's side of c's connection            *)
    slots,     (* slots of connSem in use                                   *)
    reply,     (* calls with an answer on their connection                  *)
    queue,     (* the items of DefaultRecvQueue                             *)
    inHand,    (* inHand[p]: the message HandleRecv popped for p            *)
    got,       (* got[p]: the messages p was given, in order (history)      *)
    arrived,   (* the messages pushed since the start (history)             *)
    restarts   (* restarts so far                                           *)

callVars == <<caller, wire>>
recvVars == <<queue, inHand, got, arrived>>
vars     == <<callVars, conn, slots, reply, recvVars, restarts>>

Serving(c) == conn[c] \in {"reading", "forwarding", "answering"}

Init ==
    /\ caller = [c \in Calls |-> "idle"]
    /\ wire = [c \in Calls |-> "nothing"]
    /\ conn = [c \in Calls |-> "none"]
    /\ slots = 0
    /\ reply = {}
    /\ queue = <<>>
    /\ inHand = [p \in Pollers |-> NoMsg]
    /\ got = [p \in Pollers |-> <<>>]
    /\ arrived = <<>>
    /\ restarts = 0

-----------------------------------------------------------------------------
(* The remote side: HandleSend, handleMCPPost, HandleA2A *)

Dial(c) ==
    /\ caller[c] = "idle"
    /\ caller' = [caller EXCEPT ![c] = "dialled"]
    /\ conn' = [conn EXCEPT ![c] = "backlog"]
    /\ UNCHANGED <<wire, slots, reply, recvVars, restarts>>

DialFails(c) ==
    /\ caller[c] = "idle"
    /\ caller' = [caller EXCEPT ![c] = "aborted"]
    /\ UNCHANGED <<wire, conn, slots, reply, recvVars, restarts>>

(* Length and data are written.  A write succeeds as well when the listener *)
(* has already closed the connection: the bytes go nowhere.  POST /send is  *)
(* then answered with 200.                                                  *)
WriteMessage(c) ==
    /\ caller[c] = "dialled"
    /\ caller' = [caller EXCEPT ![c] = IF c \in OneWay THEN "ok" ELSE "waiting"]
    /\ wire' = [wire EXCEPT ![c] = IF conn[c] = "closed" THEN "nothing" ELSE "all"]
    /\ UNCHANGED <<conn, slots, reply, recvVars, restarts>>

(* An error after the length or a part of the data. *)
WriteFails(c) ==
    /\ caller[c] = "dialled"
    /\ caller' = [caller EXCEPT ![c] = "aborted"]
    /\ \E bytes \in {"nothing", "some"} :
          wire' = [wire EXCEPT ![c] = IF conn[c] = "closed" THEN "nothing" ELSE bytes]
    /\ UNCHANGED <<conn, slots, reply, recvVars, restarts>>

ReadAnswer(c) ==
    /\ caller[c] = "waiting"
    /\ c \in reply
    /\ caller' = [caller EXCEPT ![c] = "answered"]
    /\ UNCHANGED <<wire, conn, slots, reply, recvVars, restarts>>

(* The 30 s read deadline, a closed connection or an unusable answer. *)
CallFails(c) ==
    /\ caller[c] = "waiting"
    /\ caller' = [caller EXCEPT ![c] = "failed"]
    /\ UNCHANGED <<wire, conn, slots, reply, recvVars, restarts>>

(* The caller's handler has returned, and with it closed the connection. *)
Returned(c) == caller[c] \in {"ok", "answered", "aborted", "failed"}

-----------------------------------------------------------------------------
(* startTCPListener and handleTCPConn *)

Accept(c) ==
    /\ conn[c] = "backlog"
    /\ slots < MaxConns
    /\ conn' = [conn EXCEPT ![c] = "reading"]
    /\ slots' = slots + 1
    /\ UNCHANGED <<callVars, reply, recvVars, restarts>>

(* Connection limit reached: closed at once, whatever was written is lost. *)
Reject(c) ==
    /\ conn[c] = "backlog"
    /\ slots >= MaxConns
    /\ conn' = [conn EXCEPT ![c] = "closed"]
    /\ wire' = [wire EXCEPT ![c] = "nothing"]
    /\ UNCHANGED <<caller, slots, reply, recvVars, restarts>>

(* Mutant: Read in place of ReadFull. *)
ReadableInPart(c) == conn[c] = "reading" /\ wire[c] # "nothing" /\ c \notin Oversized

Readable(c) == conn[c] = "reading" /\ wire[c] = "all" /\ c \notin Oversized

(* Mutant: handled is not set, the message goes on to the queue. *)
ReadForStreamAndQueue(c) ==
    /\ Readable(c)
    /\ c \in ForStream
    /\ wire' = [wire EXCEPT ![c] = "nothing"]
    /\ conn' = [conn EXCEPT ![c] = "forwarding"]
    /\ queue' = IF Len(queue) < Capacity THEN Append(queue, c) ELSE queue
    /\ arrived' = Append(arrived, c)
    /\ UNCHANGED <<caller, slots, reply, inHand, got, restarts>>

ReadForStream(c) ==
    /\ Readable(c)
    /\ c \in ForStream
    /\ wire' = [wire EXCEPT ![c] = "nothing"]
    /\ conn' = [conn EXCEPT ![c] = "forwarding"]
    /\ UNCHANGED <<caller, slots, reply, recvVars, restarts>>

(* Mutants: > for >=, and the new item dropped instead of the oldest. *)
PushOneTooMany(q, m) == Append(IF Len(q) > Capacity THEN Tail(q) ELSE q, m)
PushUnlessFull(q, m) == IF Len(q) >= Capacity THEN q ELSE Append(q, m)

(* receivedQueue.Push: a full queue loses its oldest item. *)
Push(q, m) == Append(IF Len(q) >= Capacity THEN Tail(q) ELSE q, m)

ReadForQueue(c) ==
    /\ Readable(c)
    /\ c \notin ForStream
    /\ wire' = [wire EXCEPT ![c] = "nothing"]
    /\ queue' = Push(queue, c)
    /\ arrived' = Append(arrived, c)
    /\ UNCHANGED <<caller, conn, slots, reply, inHand, got, restarts>>

(* The stream's HTTP call ends: with an answer (or the text of an error)    *)
(* that sendResponse begins to write, or with nothing at all.               *)
ForwardReturns(c) ==
    /\ conn[c] = "forwarding"
    /\ \E next \in {"answering", "reading"} : conn' = [conn EXCEPT ![c] = next]
    /\ UNCHANGED <<callVars, slots, reply, recvVars, restarts>>

(* The remote side takes the answer.  The write has no deadline. *)
AnswerWritten(c) ==
    /\ conn[c] = "answering"
    /\ ~Returned(c)
    /\ conn' = [conn EXCEPT ![c] = "reading"]
    /\ reply' = reply \cup {c}
    /\ UNCHANGED <<callVars, slots, recvVars, restarts>>

(* Mutant: a failed write is tried again until it succeeds. *)
AnswerTriedAgain(c) ==
    /\ conn[c] = "answering"
    /\ Returned(c)
    /\ UNCHANGED vars

(* The remote side has closed the connection: the answer goes nowhere, or   *)
(* the write fails, which is only logged.                                   *)
AnswerDropped(c) ==
    /\ conn[c] = "answering"
    /\ Returned(c)
    /\ conn' = [conn EXCEPT ![c] = "reading"]
    /\ UNCHANGED <<callVars, slots, reply, recvVars, restarts>>

(* Mutant: a return that keeps its slot. *)
CloseConnKeepsSlot(c) ==
    /\ conn[c] = "reading"
    /\ conn' = [conn EXCEPT ![c] = "closed"]
    /\ wire' = [wire EXCEPT ![c] = "nothing"]
    /\ UNCHANGED <<caller, slots, reply, recvVars, restarts>>

(* End of file, a message that is too long, or a deadline: ConnReadTimeout  *)
(* after the length, ConnIdleTimeout before it.  Bytes may still be under   *)
(* way.  The goroutine returns and frees its slot.                          *)
CloseConn(c) ==
    /\ conn[c] = "reading"
    /\ conn' = [conn EXCEPT ![c] = "closed"]
    /\ wire' = [wire EXCEPT ![c] = "nothing"]
    /\ slots' = slots - 1
    /\ UNCHANGED <<caller, reply, recvVars, restarts>>

-----------------------------------------------------------------------------
(* HandleRecv *)

(* Mutant: the latest item is popped. *)
PopLatest(p) ==
    /\ inHand[p] = NoMsg
    /\ queue # <<>>
    /\ inHand' = [inHand EXCEPT ![p] = queue[Len(queue)]]
    /\ queue' = SubSeq(queue, 1, Len(queue) - 1)
    /\ UNCHANGED <<callVars, conn, slots, reply, got, arrived, restarts>>

Pop(p) ==
    /\ inHand[p] = NoMsg
    /\ queue # <<>>
    /\ inHand' = [inHand EXCEPT ![p] = Head(queue)]
    /\ queue' = Tail(queue)
    /\ UNCHANGED <<callVars, conn, slots, reply, got, arrived, restarts>>

HandOver(p) ==
    /\ inHand[p] # NoMsg
    /\ got' = [got EXCEPT ![p] = Append(@, inHand[p])]
    /\ inHand' = [inHand EXCEPT ![p] = NoMsg]
    /\ UNCHANGED <<callVars, conn, slots, reply, queue, arrived, restarts>>

(* The poller is gone: w.Write fails, and the message is lost. *)
HandOverFails(p) ==
    /\ inHand[p] # NoMsg
    /\ inHand' = [inHand EXCEPT ![p] = NoMsg]
    /\ UNCHANGED <<callVars, conn, slots, reply, queue, got, arrived, restarts>>

-----------------------------------------------------------------------------
(* The node process ends and starts again: nothing is persistent. *)
Restart ==
    /\ restarts < MaxRestarts
    /\ restarts' = restarts + 1
    /\ conn' = [c \in Calls |-> IF conn[c] = "none" THEN "none" ELSE "closed"]
    /\ wire' = [c \in Calls |-> "nothing"]
    /\ slots' = 0
    /\ queue' = <<>>
    /\ inHand' = [p \in Pollers |-> NoMsg]
    /\ UNCHANGED <<caller, reply, got, arrived>>

CallerStep(c) ==
    \/ Dial(c) \/ DialFails(c) \/ WriteMessage(c) \/ WriteFails(c)
    \/ ReadAnswer(c) \/ CallFails(c)

ListenerStep(c) ==
    \/ Accept(c) \/ Reject(c) \/ ReadForStream(c) \/ ReadForQueue(c)
    \/ ForwardReturns(c) \/ AnswerWritten(c) \/ AnswerDropped(c) \/ CloseConn(c)

PollerStep(p) == Pop(p) \/ HandOver(p) \/ HandOverFails(p)

Next ==
    \/ \E c \in Calls : CallerStep(c) \/ ListenerStep(c)
    \/ \E p \in Pollers : PollerStep(p)
    \/ Restart

(* The forwarding ends by the 30 s of its HTTP client, and on a connection  *)
(* that the remote side has closed every read and every write ends.  While  *)
(* the remote side keeps it open nothing need end: each further message     *)
(* renews the idle deadline, and the write of an answer has none.  Nothing  *)
(* is assumed of the callers and the pollers.                               *)
Fairness ==
    \A c \in Calls :
        /\ WF_vars(ForwardReturns(c)) /\ WF_vars(AnswerDropped(c))
        /\ WF_vars(Returned(c) /\ CloseConn(c))

Spec == Init /\ [][Next]_vars /\ Fairness
-----------------------------------------------------------------------------
(* Properties *)

(* Every variable keeps its type, and the queue its capacity. *)
TypeOK ==
    /\ caller \in [Calls -> {"idle", "dialled", "waiting", "ok", "answered",
                             "aborted", "failed"}]
    /\ wire \in [Calls -> {"nothing", "some", "all"}]
    /\ conn \in [Calls -> {"none", "backlog", "reading", "forwarding", "answering", "closed"}]
    /\ slots \in 0..MaxConns
    /\ reply \subseteq Calls
    /\ queue \in Seq(Calls) /\ Len(queue) <= Capacity
    /\ inHand \in [Pollers -> Calls \cup {NoMsg}]
    /\ got \in [Pollers -> Seq(Calls)]
    /\ arrived \in Seq(Calls)
    /\ restarts \in 0..MaxRestarts

(* connSem counts the connections that are served: no path of the handler,  *)
(* error or restart loses a slot or frees one twice.                        *)
SlotsExact == slots = Cardinality({c \in Calls : Serving(c)})

(* The queue holds the latest arrivals without a gap: what an overflow, a   *)
(* poll or a restart removes is always older than anything still waiting.   *)
QueueHoldsLatest ==
    /\ Len(queue) <= Len(arrived)
    /\ \A i \in 1..Len(queue) :
          queue[i] = arrived[Len(arrived) - Len(queue) + i]

(* A poller gets messages in the order in which they arrived, however many  *)
(* others poll the same queue (works.md:354).                               *)
ArrivedBefore(a, b) ==
    \E i, j \in 1..Len(arrived) : i < j /\ arrived[i] = a /\ arrived[j] = b

ArrivalOrderKept ==
    \A p \in Pollers : \A i, j \in 1..Len(got[p]) :
        i < j => ArrivedBefore(got[p][i], got[p][j])

(* A call is answered only by the stream that took its message: the same    *)
(* message is never also left to the pollers, and a call that no stream     *)
(* takes is never answered.                                                 *)
AnsweredByStream ==
    \A c \in Calls : caller[c] = "answered" =>
        c \in ForStream \ OneWay /\ c \notin Range(arrived)

(* A connection that the remote side has closed gives its slot back,        *)
(* wherever that happened: in the middle of a message, while its message    *)
(* is forwarded or while its answer is written.                             *)
SlotsComeBack == \A c \in Calls : Serving(c) /\ Returned(c) ~> conn[c] = "closed"

-----------------------------------------------------------------------------
(* Refinement *)

Written(c) == caller[c] \in {"waiting", "ok", "answered", "failed"}

Places(c) == {at \in Pollers \X (1..Len(arrived)) :
                 at[2] <= Len(got[at[1]]) /\ got[at[1]][at[2]] = c}
Handed(c) == Cardinality(Places(c))

Chan == INSTANCE Channel
          WITH Messages <- Calls,
               sent <- {c \in Calls : Written(c)},
               handed <- [c \in Calls |-> Handed(c)]

(* The node is a channel that hands over each message at most once. *)
ChannelSpec == Chan!CSpec
=============================================================================

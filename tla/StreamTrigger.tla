--------------------------- MODULE StreamTrigger ---------------------------
(***************************************************************************)
(* The workers that turn messages into runs: RabbitMQ, Redis publish and   *)
(* subscribe, and WebSocket (internal/worker/workflow_rabbitmq_worker.go,  *)
(* workflow_redis_subscribe_worker.go, workflow_websocket_subscribe_       *)
(* worker.go).  The three share their shape: a sync keeps one consumer     *)
(* goroutine per active workflow, a loop reconnects it, a handler creates  *)
(* a run per message.  They differ in what a message is worth: RabbitMQ    *)
(* keeps it until it is acknowledged, the others send it to whoever is     *)
(* connected.                                                              *)
(*                                                                         *)
(* Abstractions.  One workflow, and the kind of its trigger is chosen in   *)
(* the initial state.  Workers is the set of instances of the worker: each *)
(* has consumers of its own.  Message bodies are left out, and so are the  *)
(* deliveries prefetched and not yet handled: the broker takes them back.  *)
(***************************************************************************)
EXTENDS Naturals, FiniteSets

CONSTANTS
    Workers, Consumers, Messages, Nothing,
    TriggerKinds,     \* the kinds of trigger a run looks at
    MaxStreamEdits, MaxStreamFaults     \* bounds

ASSUME StreamAssumption ==
    /\ IsFiniteSet(Workers) /\ IsFiniteSet(Consumers)
    /\ Nothing \notin Workers \cup Consumers \cup Messages

Kinds == {"rabbitmq", "rabbitmq_auto_ack", "redis", "websocket", "websocket_no_ping"}
Durable == {"rabbitmq", "rabbitmq_auto_ack"}

VARIABLES
    kind,         \* the trigger of the workflow
    doc,          \* the workflow document: exists, enabled, updated_at
    subscribed,   \* per worker: the consumer it tracks, and for which updated_at
    consumer,     \* per consumer: its goroutine
    ready,        \* the queue of the broker
    published,    \* messages ever sent
    runsOf,       \* per message: the runs created for it
    streamSpent

streamVars == <<kind, doc, subscribed, consumer, ready, published, runsOf, streamSpent>>

Unused == [pc |-> "unused", worker |-> Nothing, live |-> FALSE, up |-> FALSE,
           msg |-> Nothing, inbox |-> {}]
Untracked == [consumer |-> Nothing, ver |-> 0]

StreamInit ==
    /\ kind \in Kinds \cap TriggerKinds
    /\ doc = [exists |-> TRUE, enabled |-> TRUE, ver |-> 0]
    /\ subscribed = [i \in Workers |-> Untracked]
    /\ consumer = [c \in Consumers |-> Unused]
    /\ ready = {} /\ published = {}
    /\ runsOf = [m \in Messages |-> 0]
    /\ streamSpent = [edits |-> 0, faults |-> 0]

StreamFault ==
    /\ streamSpent.faults < MaxStreamFaults
    /\ streamSpent' = [streamSpent EXCEPT !.faults = @ + 1]

Goes(c, pc) == [consumer EXCEPT ![c].pc = pc]
(***************************************************************************)
(* The sync of one worker instance: a changed workflow has its consumer    *)
(* cancelled and a new one started, a workflow no longer active has its    *)
(* consumer cancelled.                                                     *)
(***************************************************************************)
Wanted == doc.exists /\ doc.enabled
Current(i) == subscribed[i].consumer # Nothing /\ subscribed[i].ver = doc.ver

Cancelled(i) ==
    [c \in Consumers |-> IF c = subscribed[i].consumer
                         THEN [consumer[c] EXCEPT !.live = FALSE] ELSE consumer[c]]

Idle == {c \in Consumers : consumer[c].pc = "unused"}

\* Mutant: the stale consumer is not cancelled when its workflow changes.
CancelledNone(i) == consumer

StopStale(i) == Cancelled(i)

Sync(i) ==
    /\ UNCHANGED <<kind, doc, ready, published, runsOf, streamSpent>>
    /\ \/ /\ Wanted /\ ~Current(i) /\ Idle # {}
          /\ LET c == CHOOSE d \in Idle : TRUE IN
                /\ consumer' = [StopStale(i) EXCEPT ![c] =
                       [Unused EXCEPT !.pc = "dialing", !.worker = i, !.live = TRUE]]
                /\ subscribed' = [subscribed EXCEPT ![i] = [consumer |-> c, ver |-> doc.ver]]
       \/ /\ ~Wanted /\ subscribed[i].consumer # Nothing
          /\ consumer' = Cancelled(i)
          /\ subscribed' = [subscribed EXCEPT ![i] = Untracked]

SyncRMQConsumers(i) == kind \in Durable /\ Sync(i)
SyncRedisSubscribers(i) == kind = "redis" /\ Sync(i)
SyncWSSubscribers(i) == kind \notin Durable \cup {"redis"} /\ Sync(i)
(***************************************************************************)
(* One consumer connects (consumeOnce, subscribeOnce, wsSubscribeOnce): a  *)
(* cancelled one fails to.                                                 *)
(***************************************************************************)
Connects(c) ==
    /\ consumer[c].pc = "dialing" /\ consumer[c].live
    /\ consumer' = [Goes(c, "receiving") EXCEPT ![c].up = TRUE]
    /\ UNCHANGED <<kind, doc, subscribed, ready, published, runsOf, streamSpent>>

ConsumeOnce(c) == kind \in Durable /\ Connects(c)
SubscribeOnce(c) == kind = "redis" /\ Connects(c)
WSSubscribeOnce(c) == kind \notin Durable \cup {"redis"} /\ Connects(c)

ConnectFails(c) ==
    /\ consumer[c].pc = "dialing"
    /\ IF consumer[c].live THEN StreamFault ELSE UNCHANGED streamSpent
    /\ consumer' = Goes(c, "backoff")
    /\ UNCHANGED <<kind, doc, subscribed, ready, published, runsOf>>

(***************************************************************************)
(* The loop around it: a cancelled consumer returns, any other one waits   *)
(* and connects again.  The delay doubles up to a minute and its count of  *)
(* attempts is never reset: it is at most a minute all the same.           *)
(***************************************************************************)
Loops(c) ==
    /\ consumer[c].pc = "backoff"
    /\ consumer' = IF consumer[c].live THEN [consumer EXCEPT ![c] =
                           [Unused EXCEPT !.pc = "dialing", !.worker = consumer[c].worker,
                                    !.live = TRUE]]
                   ELSE [consumer EXCEPT ![c] = Unused]
    /\ UNCHANGED <<kind, doc, subscribed, ready, published, runsOf, streamSpent>>

ConsumeLoop(c) == kind \in Durable /\ Loops(c)
SubscribeLoop(c) == kind = "redis" /\ Loops(c)
WSSubscribeLoop(c) == kind \notin Durable \cup {"redis"} /\ Loops(c)
(***************************************************************************)
(* Messages: the broker keeps one until it is acknowledged, a publisher    *)
(* reaches the consumers connected at the time.                            *)
(***************************************************************************)
Publish(m) ==
    /\ m \notin published
    /\ published' = published \cup {m}
    /\ IF kind \in Durable
       THEN ready' = ready \cup {m} /\ UNCHANGED consumer
       ELSE /\ consumer' = [c \in Consumers |->
                   IF consumer[c].up THEN [consumer[c] EXCEPT !.inbox = @ \cup {m}]
                   ELSE consumer[c]]
            /\ UNCHANGED ready
    /\ UNCHANGED <<kind, doc, subscribed, runsOf, streamSpent>>

\* A select between a cancelled context and a delivery may take the delivery.
Receive(c) ==
    /\ consumer[c].pc = "receiving" /\ consumer[c].up
    /\ \E m \in ready \cup consumer[c].inbox :
          /\ consumer' = [Goes(c, "fetching") EXCEPT ![c].msg = m, ![c].inbox = @ \ {m}]
          /\ ready' = ready \ {m}
    /\ UNCHANGED <<kind, doc, subscribed, published, runsOf, streamSpent>>

\* The connection is lost: the broker takes back what was not acknowledged.
ConnectionLost(c) ==
    /\ consumer[c].up /\ StreamFault
    /\ consumer' = [consumer EXCEPT ![c].up = FALSE, ![c].inbox = {}]
    /\ ready' = IF kind = "rabbitmq" /\ consumer[c].msg # Nothing
                THEN ready \cup {consumer[c].msg} ELSE ready
    /\ UNCHANGED <<kind, doc, subscribed, published, runsOf>>

\* The pinger of a cancelled WebSocket consumer has stopped: its read deadline passes.
\* Without a heartbeat nothing ends the read but a frame or the peer.
LeavesWhenCancelled(c) == ~consumer[c].live /\ kind # "websocket_no_ping"

\* Mutant: the pinger does not watch the context, so pongs keep the read alive.
LeavesUnlessPinging(c) == ~consumer[c].live /\ kind \in Durable \cup {"redis"}

MayLeave(c) == LeavesWhenCancelled(c)

Ended(c) == [consumer EXCEPT ![c].pc = "backoff", ![c].up = FALSE, ![c].inbox = {},
                             ![c].msg = Nothing]

Leave(c) ==
    /\ consumer[c].pc = "receiving"
    /\ ~consumer[c].up \/ MayLeave(c)
    /\ consumer' = Ended(c)
    /\ UNCHANGED <<kind, doc, subscribed, ready, published, runsOf, streamSpent>>
(***************************************************************************)
(* The handler of one message: it loads the workflow, creates the run and  *)
(* acknowledges.  Whatever fails before that is refused with requeue.      *)
(***************************************************************************)
\* Back to the select; a WebSocket consumer looks at its context first.
Handled(c) ==
    IF kind \notin Durable \cup {"redis"} /\ ~consumer[c].live THEN Ended(c)
    ELSE [consumer EXCEPT ![c].pc = "receiving", ![c].msg = Nothing]

Requeued(c) ==
    IF kind = "rabbitmq" /\ consumer[c].up THEN ready \cup {consumer[c].msg} ELSE ready

\* Mutant: the message is refused without requeue.
RequeuedNever(c) == ready

Refused(c) == Requeued(c)

FetchWorkflow(c) ==
    /\ consumer[c].pc = "fetching" /\ consumer[c].live /\ doc.exists
    /\ consumer' = Goes(c, "creating")
    /\ UNCHANGED <<kind, doc, subscribed, ready, published, runsOf, streamSpent>>

GiveUp(c) ==
    /\ consumer[c].pc \in {"fetching", "creating"}
    /\ IF ~consumer[c].live \/ (consumer[c].pc = "fetching" /\ ~doc.exists)
       THEN UNCHANGED streamSpent ELSE StreamFault
    /\ consumer' = Handled(c) /\ ready' = Refused(c)
    /\ UNCHANGED <<kind, doc, subscribed, published, runsOf>>

RunCreated(c) == runsOf' = [runsOf EXCEPT ![consumer[c].msg] = @ + 1]

CreateRun(c) ==
    /\ consumer[c].pc = "creating" /\ consumer[c].live
    /\ RunCreated(c) /\ consumer' = Goes(c, "acking")
    /\ UNCHANGED <<kind, doc, subscribed, ready, published, streamSpent>>

ProcessDelivery(c) == kind \in Durable /\ CreateRun(c)
ProcessRedisMessage(c) == kind = "redis" /\ CreateRun(c)
ProcessWSMessage(c) == kind \notin Durable \cup {"redis"} /\ CreateRun(c)

\* The write lands and its answer does not: the handler takes it for a failure.
CreateUnanswered(c) ==
    /\ consumer[c].pc = "creating" /\ StreamFault
    /\ RunCreated(c)
    /\ consumer' = Handled(c) /\ ready' = Refused(c)
    /\ UNCHANGED <<kind, doc, subscribed, published>>

\* The acknowledgement's error is not looked at; without a connection it changes nothing.
Ack(c) ==
    /\ consumer[c].pc = "acking"
    /\ consumer' = Handled(c)
    /\ UNCHANGED <<kind, doc, subscribed, ready, published, runsOf, streamSpent>>

\* The process dies and comes back with nothing tracked; the broker takes its messages back.
WorkerRestarts(i) ==
    LET own == {c \in Consumers : consumer[c].worker = i}
    IN  /\ StreamFault
        /\ consumer' = [c \in Consumers |-> IF c \in own THEN Unused ELSE consumer[c]]
        /\ subscribed' = [subscribed EXCEPT ![i] = Untracked]
        /\ ready' = IF kind = "rabbitmq"
                    THEN ready \cup ({consumer[c].msg : c \in {d \in own : consumer[d].up}} \ {Nothing})
                    ELSE ready
        /\ UNCHANGED <<kind, doc, published, runsOf>>

EditStream ==
    /\ doc.exists /\ streamSpent.edits < MaxStreamEdits
    /\ streamSpent' = [streamSpent EXCEPT !.edits = @ + 1]
    /\ \E exists, enabled \in BOOLEAN :
          doc' = [exists |-> exists, enabled |-> enabled, ver |-> doc.ver + 1]
    /\ UNCHANGED <<kind, subscribed, consumer, ready, published, runsOf>>

Consumes(c) ==
    \/ ConsumeOnce(c) \/ SubscribeOnce(c) \/ WSSubscribeOnce(c) \/ ConnectFails(c)
    \/ ConsumeLoop(c) \/ SubscribeLoop(c) \/ WSSubscribeLoop(c)
    \/ Receive(c) \/ ConnectionLost(c) \/ Leave(c)

Handles(c) ==
    \/ FetchWorkflow(c) \/ GiveUp(c)
    \/ ProcessDelivery(c) \/ ProcessRedisMessage(c) \/ ProcessWSMessage(c)
    \/ CreateUnanswered(c) \/ Ack(c)

StreamNext ==
    \/ \E i \in Workers :
          SyncRMQConsumers(i) \/ SyncRedisSubscribers(i) \/ SyncWSSubscribers(i)
          \/ WorkerRestarts(i)
    \/ \E c \in Consumers : Consumes(c) \/ Handles(c)
    \/ \E m \in Messages : Publish(m)
    \/ EditStream

StreamSpec == StreamInit /\ [][StreamNext]_streamVars
-----------------------------------------------------------------------------
(***************************************************************************)
(* Every message of a queue is dispatched when its workflow stays active,  *)
(* through lost connections, refused messages and reconnections without    *)
(* end (processDelivery acknowledges after the run is stored).             *)
(***************************************************************************)
MessageDispatched ==
    \A m \in Messages :
        kind = "rabbitmq" /\ m \in published ~> runsOf[m] > 0 \/ ~Wanted

(***************************************************************************)
(* How often one message becomes a run: once per worker instance where     *)
(* every subscriber gets it, and never by a consumer that was replaced; on *)
(* a queue once, and once more for each fault that hid a stored run.       *)
(***************************************************************************)
DispatchedAtMost ==
    \A m \in Messages : runsOf[m] <=
        IF kind \in Durable THEN 1 + streamSpent.faults ELSE Cardinality(Workers)

(***************************************************************************)
(* A consumer that was cancelled closes its connection and ends, except a  *)
(* WebSocket without a heartbeat, which nothing wakes from its read.       *)
(***************************************************************************)
CancelledLeave ==
    \A c \in Consumers :
        consumer[c].pc # "unused" /\ ~consumer[c].live /\ kind # "websocket_no_ping"
            ~> consumer[c].pc = "unused"
=============================================================================

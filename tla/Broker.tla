------------------------------- MODULE Broker -------------------------------
(***************************************************************************)
(* The queues of one consumer as RabbitMQ keeps them, with the topology    *)
(* QueueConsumer.setupTopology and DeadLetterConsumer.start declare.  All  *)
(* event types have the same topology under their own names, and no        *)
(* message crosses from one to another, so one event type is modelled.     *)
(*                                                                         *)
(* A queue is a bag: AMQP redelivery and retry delays reorder messages, so *)
(* nothing below depends on the order of a queue.  Queues are durable and  *)
(* messages persistent: the broker itself loses nothing.                   *)
(***************************************************************************)
EXTENDS Naturals, FiniteSets

CONSTANTS Events,      \* ids of outbox_events rows, one per recorded event
          DeadRows,    \* ids of failed_queue_events rows
          MaxRetries,  \* retryDelays.length: 3 unless a consumer overrides it
          NoMessage    \* "no message", for an idle delivery slot

ASSUME MaxRetriesAssumption == MaxRetries \in Nat

(* Row ids are UUIDs and a replay's key is prefixed with "replay:", so the *)
(* keys of the two kinds of publish never meet.                            *)
ASSUME KeysAssumption == Events \cap DeadRows = {}

VARIABLE queue         \* queue[n]: the bag of ready messages of queue n

-----------------------------------------------------------------------------

(* The value of the x-idempotency-key header: the outbox row's id, or      *)
(* `replay:<id>` for the replay of a dead-letter row.                      *)
Keys == Events \cup DeadRows

(* The event a message is about (its content), its idempotency key and its *)
(* x-retry-count.                                                          *)
Message == [event: Events, key: Keys, retry: 0..MaxRetries]

ASSUME NoMessageAssumption == NoMessage \notin Message

(* "main": the consumer's queue; "retry": its <queue>.retry.n, n being the *)
(* message's retry count; "dead": its <queue>.dead, which nobody consumes; *)
(* "deadLetters": the DeadLetterConsumer's queue.                          *)
QueueName == {"main", "retry", "dead", "deadLetters"}

Exchange == {"trello-issur.events", "trello-issur.dead"}

RoutingKey == {"event", "event.dead"}

EmptyQueue == [m \in Message |-> 0]

Put(bag, m) == [bag EXCEPT ![m] = @ + 1]

Take(bag, m) == [bag EXCEPT ![m] = @ - 1]

(* The queues bound to an exchange under a routing key.  The main exchange *)
(* is direct, the dead one a topic exchange that "dead-letters" hears all  *)
(* of.                                                                     *)
Bound(exchange, rk) ==
    {n \in QueueName :
        \/ n = "main" /\ exchange = "trello-issur.events" /\ rk = "event"
        \/ n = "dead" /\ exchange = "trello-issur.dead" /\ rk = "event.dead"
        \/ n = "deadLetters" /\ exchange = "trello-issur.dead"}

(* channel.publish: a copy in every bound queue.  No publish in the code   *)
(* is mandatory, so a message no queue is bound for is dropped.            *)
Publish(exchange, rk, m) ==
    [n \in QueueName |-> IF n \in Bound(exchange, rk) THEN Put(queue[n], m)
                                                      ELSE queue[n]]

BrokerInit == queue = [n \in QueueName |-> EmptyQueue]

(* A retry queue's x-message-ttl is over: the message is dead-lettered to  *)
(* the main exchange with its headers.                                     *)
RetryExpire(m) ==
    /\ queue["retry"][m] > 0
    /\ queue' = [queue EXCEPT !["retry"] = Take(@, m),
                              !["main"] = Put(@, m)]

BrokerTypeOK == queue \in [QueueName -> [Message -> Nat]]
=============================================================================

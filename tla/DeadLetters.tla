----------------------------- MODULE DeadLetters -----------------------------
(***************************************************************************)
(* The DeadLetterConsumer, which copies dead messages into                 *)
(* failed_queue_events, and the operator's replay of a row                 *)
(* (infra/http/queue.router.ts).                                           *)
(***************************************************************************)
EXTENDS Broker

CONSTANTS DeadSlots,  \* its delivery slots: RABBITMQ_PREFETCH of them as well
          Operators,  \* replay requests that can be in progress at once
          NoRow       \* "no row"

ASSUME DeadSlotsAssumption == IsFiniteSet(DeadSlots)

VARIABLES dpc,       \* per slot of the DeadLetterConsumer: "idle", "save" or "ack"
          dmsg,      \* per slot: the unacknowledged dead letter it holds
          deadRow,   \* failed_queue_events, by row id
          replaying  \* per replay request: where it is and the row it read

deadVars == <<dpc, dmsg, deadRow, replaying>>

(* A row keeps the event, the routing key the dead letter was delivered    *)
(* under and whether replayed_at is set; NoRow where none is inserted yet. *)
FailedQueueEvent ==
    [event: Events, routingKey: RoutingKey, replayed: BOOLEAN]

ASSUME NoRowAssumption == NoRow \notin DeadRows \cup FailedQueueEvent

RowExists(r) == deadRow[r] # NoRow

ReplayPC == {"idle", "publish", "mark"}

DeadTypeOK ==
    /\ dpc \in [DeadSlots -> {"idle", "save", "ack"}]
    /\ dmsg \in [DeadSlots -> Message \cup {NoMessage}]
    /\ \A d \in DeadSlots : dpc[d] = "idle" <=> dmsg[d] = NoMessage
    /\ deadRow \in [DeadRows -> FailedQueueEvent \cup {NoRow}]
    /\ replaying \in [Operators -> [pc: ReplayPC, row: DeadRows \cup {NoRow}]]
    /\ \A o \in Operators :
        replaying[o].pc # "idle" => /\ replaying[o].row \in DeadRows
                                   /\ RowExists(replaying[o].row)

NotReplaying == [pc |-> "idle", row |-> NoRow]

DeadInit ==
    /\ dpc = [d \in DeadSlots |-> "idle"]
    /\ dmsg = [d \in DeadSlots |-> NoMessage]
    /\ deadRow = [r \in DeadRows |-> NoRow]
    /\ replaying = [o \in Operators |-> NotReplaying]

-----------------------------------------------------------------------------

DeadReceive(d, m) ==
    /\ dpc[d] = "idle"
    /\ queue["deadLetters"][m] > 0
    /\ queue' = [queue EXCEPT !["deadLetters"] = Take(@, m)]
    /\ dmsg' = [dmsg EXCEPT ![d] = m]
    /\ dpc' = [dpc EXCEPT ![d] = "save"]
    /\ UNCHANGED <<deadRow, replaying>>

(* buildEvent: what the row keeps of a dead letter.  msg.fields.routingKey *)
(* is the key of the last publish, the one to the dead exchange.           *)
BuildEvent(m) == [event |-> m.event, routingKey |-> "event.dead", replayed |-> FALSE]

(* Mutant: the INSERT is repeated when its answer is late.                 *)
DeadSaveTwice(d) ==
    /\ dpc[d] = "save"
    /\ \E r, s \in DeadRows :
        /\ ~RowExists(r) /\ ~RowExists(s)
        /\ deadRow' = [deadRow EXCEPT ![r] = BuildEvent(dmsg[d]),
                                      ![s] = BuildEvent(dmsg[d])]
    /\ dpc' = [dpc EXCEPT ![d] = "ack"]
    /\ UNCHANGED <<queue, dmsg, replaying>>

(* The INSERT succeeds or fails; either way the message is acknowledged.   *)
(* Row ids are a bounded supply: with none left only failure is modelled.  *)
DeadSave(d) ==
    /\ dpc[d] = "save"
    /\ \/ \E r \in DeadRows :
            /\ ~RowExists(r)
            /\ deadRow' = [deadRow EXCEPT ![r] = BuildEvent(dmsg[d])]
       \/ UNCHANGED deadRow
    /\ dpc' = [dpc EXCEPT ![d] = "ack"]
    /\ UNCHANGED <<queue, dmsg, replaying>>

DeadAck(d) ==
    /\ dpc[d] = "ack"
    /\ dpc' = [dpc EXCEPT ![d] = "idle"]
    /\ dmsg' = [dmsg EXCEPT ![d] = NoMessage]
    /\ UNCHANGED <<queue, deadRow, replaying>>

(* A replay request: findById, then 404 or 409 by what it read.            *)
ReplayRead(o, r) ==
    /\ replaying[o].pc = "idle"
    /\ RowExists(r)
    /\ ~deadRow[r].replayed
    /\ replaying' = [replaying EXCEPT ![o] = [pc |-> "publish", row |-> r]]
    /\ UNCHANGED <<queue, dpc, dmsg, deadRow>>

(* It publishes to the main exchange under the routing key of the row.     *)
ReplayPublish(o) ==
    LET r == replaying[o].row IN
    /\ replaying[o].pc = "publish"
    /\ queue' = Publish("trello-issur.events", deadRow[r].routingKey,
                        [event |-> deadRow[r].event, key |-> r, retry |-> 0])
    /\ replaying' = [replaying EXCEPT ![o].pc = "mark"]
    /\ UNCHANGED <<dpc, dmsg, deadRow>>

ReplayMark(o) ==
    /\ replaying[o].pc = "mark"
    /\ deadRow' = [deadRow EXCEPT ![replaying[o].row].replayed = TRUE]
    /\ replaying' = [replaying EXCEPT ![o] = NotReplaying]
    /\ UNCHANGED <<queue, dpc, dmsg>>

(* The API process dies between two steps of a replay.                     *)
ReplayDies(o) ==
    /\ replaying[o].pc # "idle"
    /\ replaying' = [replaying EXCEPT ![o] = NotReplaying]
    /\ UNCHANGED <<queue, dpc, dmsg, deadRow>>

(* The connection of the queue process is gone.                            *)
DeadUnackedRequeued(bag) ==
    [m \in Message |-> bag[m] + Cardinality({d \in DeadSlots : dmsg[d] = m})]

DeadConsumerStops ==
    /\ dpc' = [d \in DeadSlots |-> "idle"]
    /\ dmsg' = [d \in DeadSlots |-> NoMessage]
    /\ UNCHANGED <<deadRow, replaying>>
=============================================================================

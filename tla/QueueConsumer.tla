---------------------------- MODULE QueueConsumer ----------------------------
(***************************************************************************)
(* QueueConsumer.processMessage                                            *)
(* (infra/queue/adapters/rabbitmq/consumer.ts): the idempotency check, the *)
(* handler, the mark, staged retries and the dead queue.  A worker is one  *)
(* processMessage call in progress; there are as many as the channel's     *)
(* prefetch allows, interleaving at every await.                           *)
(***************************************************************************)
EXTENDS Broker

CONSTANTS Workers,      \* delivery slots: RABBITMQ_PREFETCH of them
          Unparseable,  \* events whose payload parsePayload gives null for
          CacheMayFail  \* whether Valkey may fail or lose a key

ASSUME WorkersAssumption == IsFiniteSet(Workers)
ASSUME UnparseableAssumption == Unparseable \subseteq Events
ASSUME CacheMayFailAssumption == CacheMayFail \in BOOLEAN

VARIABLES wpc,        \* where each processMessage call is
          wmsg,       \* the unacknowledged message it holds
          processed,  \* idempotency keys present in Valkey
          handled,    \* per key: times handle resolved (the side effect)
          failures    \* per key: times handle rejected

consumerVars == <<wpc, wmsg, processed, handled, failures>>

(* "handle": handle is running; "mark": it resolved and the key is being   *)
(* stored; "retry", "dead": the copy is buffered and leaves next; "ack":   *)
(* only the acknowledgement is still to leave.                             *)
WorkerPC == {"idle", "handle", "mark", "retry", "dead", "ack"}

ConsumerTypeOK ==
    /\ wpc \in [Workers -> WorkerPC]
    /\ wmsg \in [Workers -> Message \cup {NoMessage}]
    /\ \A w \in Workers :
        /\ wpc[w] = "idle" <=> wmsg[w] = NoMessage
        /\ wpc[w] = "retry" => wmsg[w].retry < MaxRetries
    /\ processed \subseteq Keys
    /\ handled \in [Keys -> Nat]
    /\ failures \in [Keys -> Nat]

ConsumerInit ==
    /\ wpc = [w \in Workers |-> "idle"]
    /\ wmsg = [w \in Workers |-> NoMessage]
    /\ processed = {}
    /\ handled = [k \in Keys |-> 0]
    /\ failures = [k \in Keys |-> 0]

(* Mutant: the check never finds the key.                                  *)
AlreadyProcessedNever(k) == {FALSE}

(* getIdempotencyKey and isAlreadyProcessed: what the check can answer for *)
(* key k.  It fails open.                                                  *)
AlreadyProcessed(k) == {k \in processed} \cup (IF CacheMayFail THEN {FALSE} ELSE {})

(* Mutants: one retry too many, one too few.                               *)
AfterFailureLate(retry) == IF retry <= MaxRetries THEN "retry" ELSE "dead"
AfterFailureEarly(retry) == IF retry + 1 < MaxRetries THEN "retry" ELSE "dead"

(* Where handleFailure sends a message that failed with this retry count.  *)
AfterFailure(retry) == IF retry < MaxRetries THEN "retry" ELSE "dead"

-----------------------------------------------------------------------------

(* Mutant: the key is stored before the handler runs.                      *)
ReceiveMarksFirst(w, m) ==
    /\ wpc[w] = "idle"
    /\ queue["main"][m] > 0
    /\ queue' = [queue EXCEPT !["main"] = Take(@, m)]
    /\ wmsg' = [wmsg EXCEPT ![w] = m]
    /\ wpc' = [wpc EXCEPT ![w] =
                   IF m.key \in processed THEN "ack"
                   ELSE IF m.event \in Unparseable THEN "dead" ELSE "handle"]
    /\ processed' = processed \cup {m.key}
    /\ UNCHANGED <<handled, failures>>

(* A delivery, up to its first effect: a duplicate is acknowledged, an     *)
(* unparseable message goes to the dead queue, any other to the handler.   *)
(* The cache is read here; the handler runs after it, in other steps.      *)
Receive(w, m) ==
    /\ wpc[w] = "idle"
    /\ queue["main"][m] > 0
    /\ queue' = [queue EXCEPT !["main"] = Take(@, m)]
    /\ wmsg' = [wmsg EXCEPT ![w] = m]
    /\ \E duplicate \in AlreadyProcessed(m.key) :
        wpc' = [wpc EXCEPT ![w] =
                    IF duplicate THEN "ack"
                    ELSE IF m.event \in Unparseable THEN "dead" ELSE "handle"]
    /\ UNCHANGED <<processed, handled, failures>>

HandleResolves(w) ==
    /\ wpc[w] = "handle"
    /\ handled' = [handled EXCEPT ![wmsg[w].key] = @ + 1]
    /\ wpc' = [wpc EXCEPT ![w] = "mark"]
    /\ UNCHANGED <<queue, wmsg, processed, failures>>

(* Mutant: the key is stored whether the handler resolved or rejected.     *)
HandleRejectsMarks(w) ==
    /\ wpc[w] = "handle"
    /\ failures' = [failures EXCEPT ![wmsg[w].key] = @ + 1]
    /\ wpc' = [wpc EXCEPT ![w] = AfterFailure(wmsg[w].retry)]
    /\ processed' = processed \cup {wmsg[w].key}
    /\ UNCHANGED <<queue, wmsg, handled>>

HandleRejects(w) ==
    /\ wpc[w] = "handle"
    /\ failures' = [failures EXCEPT ![wmsg[w].key] = @ + 1]
    /\ wpc' = [wpc EXCEPT ![w] = AfterFailure(wmsg[w].retry)]
    /\ UNCHANGED <<queue, wmsg, processed, handled>>

(* markProcessed swallows a failure to store the key.                      *)
MarkProcessed(w) ==
    /\ wpc[w] = "mark"
    /\ \/ processed' = processed \cup {wmsg[w].key}
       \/ CacheMayFail /\ UNCHANGED processed
    /\ wpc' = [wpc EXCEPT ![w] = "ack"]
    /\ UNCHANGED <<queue, wmsg, handled, failures>>

(* Mutant: after the copy the message is refused (nack), not acknowledged, *)
(* so the broker requeues it.                                              *)
SendToRetryNacks(w) ==
    /\ wpc[w] = "retry"
    /\ queue' = [queue EXCEPT !["retry"] = Put(@, [wmsg[w] EXCEPT !.retry = @ + 1]),
                              !["main"] = Put(@, wmsg[w])]
    /\ wpc' = [wpc EXCEPT ![w] = "idle"]
    /\ wmsg' = [wmsg EXCEPT ![w] = NoMessage]
    /\ UNCHANGED <<processed, handled, failures>>

(* The buffered copy reaches <queue>.retry.<n+1>, headers kept.  Its frame *)
(* precedes the acknowledgement's.                                         *)
SendToRetry(w) ==
    /\ wpc[w] = "retry"
    /\ queue' = [queue EXCEPT !["retry"] =
                    Put(@, [wmsg[w] EXCEPT !.retry = @ + 1])]
    /\ wpc' = [wpc EXCEPT ![w] = "ack"]
    /\ UNCHANGED <<wmsg, processed, handled, failures>>

(* The buffered copy reaches the dead exchange under <queue>.dead.         *)
SendToDead(w) ==
    /\ wpc[w] = "dead"
    /\ queue' = Publish("trello-issur.dead", "event.dead", wmsg[w])
    /\ wpc' = [wpc EXCEPT ![w] = "ack"]
    /\ UNCHANGED <<wmsg, processed, handled, failures>>

Ack(w) ==
    /\ wpc[w] = "ack"
    /\ wpc' = [wpc EXCEPT ![w] = "idle"]
    /\ wmsg' = [wmsg EXCEPT ![w] = NoMessage]
    /\ UNCHANGED <<queue, processed, handled, failures>>

(* A key goes away: its 24 h TTL, an eviction, a flush of Valkey.          *)
ForgetKey(k) ==
    /\ CacheMayFail
    /\ k \in processed
    /\ processed' = processed \ {k}
    /\ UNCHANGED <<queue, wpc, wmsg, handled, failures>>

(* The connection is gone: the broker requeues what was not acknowledged   *)
(* and no call goes on.                                                    *)
UnackedRequeued(bag) ==
    [m \in Message |-> bag[m] + Cardinality({w \in Workers : wmsg[w] = m})]

WorkersStop ==
    /\ wpc' = [w \in Workers |-> "idle"]
    /\ wmsg' = [w \in Workers |-> NoMessage]
    /\ UNCHANGED <<processed, handled, failures>>
=============================================================================

------------------------ MODULE EventDelivery_proofs ------------------------
(***************************************************************************)
(* Proofs about the event pipeline, for any number of events, ticks,       *)
(* delivery slots, retries, aborts and crashes.                            *)
(***************************************************************************)
EXTENDS EventDelivery, FiniteSetTheorems, TLAPS

USE MaxRetriesAssumption, KeysAssumption, NoMessageAssumption, NoRowAssumption

-----------------------------------------------------------------------------
(* Bags of messages.                                                       *)

Bag == [Message -> Nat]

LEMMA PutType ==
  ASSUME NEW bag \in Bag, NEW m \in Message
  PROVE  Put(bag, m) \in Bag
BY DEF Bag, Put

LEMMA TakeType ==
  ASSUME NEW bag \in Bag, NEW m \in Message, bag[m] > 0
  PROVE  Take(bag, m) \in Bag
BY DEF Bag, Take

LEMMA PublishType ==
  ASSUME BrokerTypeOK, NEW x, NEW rk, NEW m \in Message
  PROVE  Publish(x, rk, m) \in [QueueName -> Bag]
BY PutType DEF BrokerTypeOK, Publish, Bag

LEMMA RequeueType ==
  ASSUME NEW bag \in Bag, WorkersAssumption, DeadSlotsAssumption
  PROVE  /\ UnackedRequeued(bag) \in Bag
         /\ DeadUnackedRequeued(bag) \in Bag
<1>1. ASSUME NEW m \in Message
      PROVE  Cardinality({w \in Workers : wmsg[w] = m}) \in Nat
  <2>1. IsFiniteSet({w \in Workers : wmsg[w] = m})
    BY WorkersAssumption, FS_Subset
  <2> QED BY <2>1, FS_CardinalityType
<1>2. ASSUME NEW m \in Message
      PROVE  Cardinality({d \in DeadSlots : dmsg[d] = m}) \in Nat
  <2>1. IsFiniteSet({d \in DeadSlots : dmsg[d] = m})
    BY DeadSlotsAssumption, FS_Subset
  <2> QED BY <2>1, FS_CardinalityType
<1> QED BY <1>1, <1>2 DEF Bag, UnackedRequeued, DeadUnackedRequeued

-----------------------------------------------------------------------------
(* Type correctness.                                                       *)

LEMMA InitType == Init => TypeOK
BY DEF Init, TypeOK, BrokerInit, BrokerTypeOK, EmptyQueue, RelayInit, RelayTypeOK,
       RowStatus, ConsumerInit, ConsumerTypeOK, WorkerPC, DeadInit, DeadTypeOK,
       NotReplaying, ReplayPC

LEMMA RelayStepType ==
  ASSUME TypeOK, RelayStep
  PROVE  TypeOK'
<1> USE DEF TypeOK, RelayTypeOK, RowStatus
<1>0. /\ ConsumerTypeOK' /\ DeadTypeOK'
      /\ crashes' \in Nat /\ dropped' \subseteq Events
  BY DEF RelayStep, consumerVars, deadVars, ConsumerTypeOK, DeadTypeOK, RowExists
<1>1. ASSUME NEW e \in Events, Record(e)
      PROVE  BrokerTypeOK' /\ RelayTypeOK'
  BY <1>1 DEF Record, BrokerTypeOK
<1>2. ASSUME NEW e \in Events, Flush(e)
      PROVE  BrokerTypeOK' /\ RelayTypeOK'
  <2>1. [event |-> e, key |-> e, retry |-> 0] \in Message
    BY DEF Message, Keys
  <2> QED BY <1>2, <2>1, PublishType DEF Flush, BrokerTypeOK, Bag
<1>3. ASSUME NEW t \in Ticks, TickStart(t)
      PROVE  BrokerTypeOK' /\ RelayTypeOK'
  BY <1>3 DEF TickStart, Batches, Selectable, BrokerTypeOK
<1>4. ASSUME NEW t \in Ticks, TickCommit(t)
      PROVE  BrokerTypeOK' /\ RelayTypeOK'
  BY <1>4 DEF TickCommit, BrokerTypeOK
<1>5. ASSUME NEW t \in Ticks, TickAbort(t)
      PROVE  BrokerTypeOK' /\ RelayTypeOK'
  BY <1>5 DEF TickAbort, BrokerTypeOK
<1>6. ASSUME NEW t \in Ticks, NEW e \in Events, TickPublish(t, e)
      PROVE  BrokerTypeOK' /\ RelayTypeOK'
  BY <1>6 DEF TickPublish, BrokerTypeOK
<1> QED BY <1>0, <1>1, <1>2, <1>3, <1>4, <1>5, <1>6 DEF RelayStep

LEMMA BrokerStepType ==
  ASSUME TypeOK, BrokerStep
  PROVE  TypeOK'
<1>1. BrokerTypeOK'
  <2>1. PICK m \in Message : RetryExpire(m)
    BY DEF BrokerStep
  <2>2. Take(queue["retry"], m) \in Bag
    BY <2>1, TakeType DEF RetryExpire, TypeOK, BrokerTypeOK, QueueName, Bag
  <2>3. Put(queue["main"], m) \in Bag
    BY PutType DEF TypeOK, BrokerTypeOK, QueueName, Bag
  <2> QED BY <2>1, <2>2, <2>3 DEF RetryExpire, TypeOK, BrokerTypeOK, QueueName, Bag
<1> QED
  BY <1>1 DEF TypeOK, BrokerStep, relayVars, consumerVars, deadVars, RelayTypeOK,
              ConsumerTypeOK, DeadTypeOK, RowExists

LEMMA ConsumerStepType ==
  ASSUME TypeOK, ConsumerStep
  PROVE  TypeOK'
<1> USE DEF TypeOK, ConsumerTypeOK, WorkerPC
<1> DEFINE OK == BrokerTypeOK' /\ ConsumerTypeOK'
<1>0. /\ RelayTypeOK' /\ DeadTypeOK'
      /\ crashes' \in Nat /\ dropped' \subseteq Events
  BY DEF ConsumerStep, relayVars, deadVars, RelayTypeOK, DeadTypeOK, RowExists
<1>k. \A m \in Message : m.key \in Keys /\ m.retry \in 0..MaxRetries
  BY DEF Message
<1>q. QueueName = {"main", "retry", "dead", "deadLetters"} /\ queue \in [QueueName -> Bag]
  BY DEF QueueName, BrokerTypeOK, Bag
<1>1. ASSUME NEW w \in Workers, NEW m \in Message, Receive(w, m)
      PROVE  OK
  <2>1. Take(queue["main"], m) \in Bag
    BY <1>1, <1>q, TakeType DEF Receive
  <2>2. BrokerTypeOK'
    BY <1>1, <1>q, <2>1 DEF Receive, BrokerTypeOK, Bag
  <2>3. wpc'[w] \in {"ack", "dead", "handle"} /\ wpc' = [wpc EXCEPT ![w] = wpc'[w]]
    BY <1>1 DEF Receive
  <2>4. ConsumerTypeOK'
    BY <1>1, <2>3 DEF Receive
  <2> QED BY <2>2, <2>4
<1>2. ASSUME NEW w \in Workers, HandleResolves(w)
      PROVE  OK
  BY <1>2, <1>k DEF HandleResolves, BrokerTypeOK
<1>3. ASSUME NEW w \in Workers, HandleRejects(w)
      PROVE  OK
  BY <1>3, <1>k DEF HandleRejects, AfterFailure, BrokerTypeOK
<1>4. ASSUME NEW w \in Workers, MarkProcessed(w)
      PROVE  OK
  BY <1>4, <1>k DEF MarkProcessed, BrokerTypeOK
<1>5. ASSUME NEW w \in Workers, SendToRetry(w)
      PROVE  OK
  <2> DEFINE copy == [wmsg[w] EXCEPT !.retry = @ + 1]
  <2>1. wmsg[w] \in Message /\ wmsg[w].retry < MaxRetries
    BY <1>5 DEF SendToRetry
  <2>2. copy \in Message
    BY <2>1 DEF Message
  <2>3. Put(queue["retry"], copy) \in Bag
    BY <2>2, <1>q, PutType
  <2>4. BrokerTypeOK'
    BY <1>5, <2>3, <1>q DEF SendToRetry, BrokerTypeOK, Bag
  <2>5. ConsumerTypeOK'
    BY <1>5 DEF SendToRetry
  <2> QED BY <2>4, <2>5
<1>6. ASSUME NEW w \in Workers, SendToDead(w)
      PROVE  OK
  <2>1. wmsg[w] \in Message
    BY <1>6 DEF SendToDead
  <2>2. BrokerTypeOK'
    BY <1>6, <2>1, PublishType DEF SendToDead, BrokerTypeOK, Bag
  <2>3. ConsumerTypeOK'
    BY <1>6 DEF SendToDead
  <2> QED BY <2>2, <2>3
<1>7. ASSUME NEW w \in Workers, Ack(w)
      PROVE  OK
  BY <1>7 DEF Ack, BrokerTypeOK
<1>8. ASSUME NEW k \in Keys, ForgetKey(k)
      PROVE  OK
  BY <1>8 DEF ForgetKey, BrokerTypeOK
<1> QED BY <1>0, <1>1, <1>2, <1>3, <1>4, <1>5, <1>6, <1>7, <1>8 DEF ConsumerStep

LEMMA DeadLetterStepType ==
  ASSUME TypeOK, DeadLetterStep
  PROVE  TypeOK'
<1> USE DEF TypeOK, DeadTypeOK, ReplayPC, RowExists
<1> DEFINE OK == BrokerTypeOK' /\ DeadTypeOK'
<1>0. /\ RelayTypeOK' /\ ConsumerTypeOK'
      /\ crashes' \in Nat /\ dropped' \subseteq Events
  BY DEF DeadLetterStep, relayVars, consumerVars, RelayTypeOK, ConsumerTypeOK
<1>q. QueueName = {"main", "retry", "dead", "deadLetters"} /\ queue \in [QueueName -> Bag]
  BY DEF QueueName, BrokerTypeOK, Bag
<1>1. ASSUME NEW d \in DeadSlots, NEW m \in Message, DeadReceive(d, m)
      PROVE  OK
  <2>1. Take(queue["deadLetters"], m) \in Bag
    BY <1>1, <1>q, TakeType DEF DeadReceive
  <2> QED BY <1>1, <1>q, <2>1 DEF DeadReceive, BrokerTypeOK, Bag
<1>2. ASSUME NEW d \in DeadSlots, DeadSave(d)
      PROVE  OK
  <2>1. dmsg[d] \in Message
    BY <1>2 DEF DeadSave
  <2>2. BuildEvent(dmsg[d]) \in FailedQueueEvent
    BY <2>1 DEF BuildEvent, FailedQueueEvent, Message, RoutingKey
  <2> QED BY <1>2, <2>2 DEF DeadSave, BrokerTypeOK
<1>3. ASSUME NEW d \in DeadSlots, DeadAck(d)
      PROVE  OK
  BY <1>3 DEF DeadAck, BrokerTypeOK
<1>4. ASSUME NEW o \in Operators, NEW r \in DeadRows, ReplayRead(o, r)
      PROVE  OK
  BY <1>4 DEF ReplayRead, BrokerTypeOK
<1>5. ASSUME NEW o \in Operators, ReplayPublish(o)
      PROVE  OK
  <2> DEFINE r == replaying[o].row
             m == [event |-> deadRow[r].event, key |-> r, retry |-> 0]
  <2>1. r \in DeadRows /\ deadRow[r] \in FailedQueueEvent
    BY <1>5 DEF ReplayPublish
  <2>2. m \in Message
    BY <2>1 DEF Message, Keys, FailedQueueEvent
  <2>3. BrokerTypeOK'
    BY <1>5, <2>2, PublishType DEF ReplayPublish, BrokerTypeOK, Bag
  <2>4. DeadTypeOK'
    BY <1>5 DEF ReplayPublish
  <2> QED BY <2>3, <2>4
<1>6. ASSUME NEW o \in Operators, ReplayMark(o)
      PROVE  OK
  <2> DEFINE r == replaying[o].row
  <2>1. r \in DeadRows /\ deadRow[r] \in FailedQueueEvent
    BY <1>6 DEF ReplayMark
  <2>2. [deadRow[r] EXCEPT !.replayed = TRUE] \in FailedQueueEvent
    BY <2>1 DEF FailedQueueEvent
  <2>3. deadRow' \in [DeadRows -> FailedQueueEvent \cup {NoRow}]
    BY <1>6, <2>2 DEF ReplayMark
  <2>4. \A q \in DeadRows : RowExists(q) => RowExists(q)'
    BY <1>6, <2>1, <2>2 DEF ReplayMark
  <2> QED BY <1>6, <2>3, <2>4 DEF ReplayMark, BrokerTypeOK, NotReplaying
<1>7. ASSUME NEW o \in Operators, ReplayDies(o)
      PROVE  OK
  BY <1>7 DEF ReplayDies, BrokerTypeOK, NotReplaying
<1> QED BY <1>0, <1>1, <1>2, <1>3, <1>4, <1>5, <1>6, <1>7 DEF DeadLetterStep

LEMMA CrashType ==
  ASSUME TypeOK, Crash, WorkersAssumption, DeadSlotsAssumption
  PROVE  TypeOK'
<1> USE DEF TypeOK
<1>q. QueueName = {"main", "retry", "dead", "deadLetters"} /\ queue \in [QueueName -> Bag]
  BY DEF QueueName, BrokerTypeOK, Bag
<1>1. BrokerTypeOK'
  <2>1. UnackedRequeued(queue["main"]) \in Bag
    BY <1>q, RequeueType
  <2>2. DeadUnackedRequeued(queue["deadLetters"]) \in Bag
    BY <1>q, RequeueType
  <2> QED BY <2>1, <2>2, <1>q DEF Crash, BrokerTypeOK, Bag
<1>2. RelayTypeOK' /\ crashes' \in Nat /\ dropped' \subseteq Events
  BY DEF Crash, RelayTypeOK
<1>3. ConsumerTypeOK'
  BY DEF Crash, WorkersStop, ConsumerTypeOK, WorkerPC
<1>4. DeadTypeOK'
  BY DEF Crash, DeadConsumerStops, DeadTypeOK, RowExists
<1> QED BY <1>1, <1>2, <1>3, <1>4

LEMMA NextType ==
  ASSUME TypeOK, [Next]_vars, WorkersAssumption, DeadSlotsAssumption
  PROVE  TypeOK'
<1>1. CASE UNCHANGED vars
  BY <1>1 DEF vars, relayVars, consumerVars, deadVars, TypeOK, BrokerTypeOK, RelayTypeOK,
              ConsumerTypeOK, DeadTypeOK, RowExists
<1> QED
  BY <1>1, RelayStepType, BrokerStepType, ConsumerStepType, DeadLetterStepType, CrashType
  DEF Next

(* Every variable of the pipeline keeps its type.                          *)
THEOREM TypeCorrect == Spec => []TypeOK
<1>1. Init => TypeOK
  BY InitType
<1>2. TypeOK /\ [Next]_vars => TypeOK'
  BY NextType, WorkersAssumption, DeadSlotsAssumption
<1> QED BY <1>1, <1>2, PTL DEF Spec

-----------------------------------------------------------------------------
(* Nothing vanishes.  What backs a key is never lost by a step of the      *)
(* pipeline, except by a crash.                                            *)

LEMMA PublishGrows ==
  ASSUME BrokerTypeOK, NEW x, NEW rk, NEW m \in Message
  PROVE  \A n \in QueueName, q \in Message : Publish(x, rk, m)[n][q] >= queue[n][q]
BY DEF Publish, Put, BrokerTypeOK

(* A step that takes no message away and flushes no frame keeps whatever   *)
(* backs a key, if it does so for the calls that answer for it.            *)
LEMMA BackedKept ==
  ASSUME TypeOK, TypeOK',
         \A n \in {"main", "retry", "dead"}, m \in Message : queue'[n][m] >= queue[n][m],
         \A k \in Keys : handled'[k] >= handled[k],
         \A e \in Events : outbound'[e] >= outbound[e],
         NEW k \in Keys, Backed(k),
         \A w \in Workers : Answers(w, k) => Backed(k)'
  PROVE  Backed(k)'
<1> USE DEF TypeOK, BrokerTypeOK, RelayTypeOK, ConsumerTypeOK, QueueName, Backed, Queued
<1>1. CASE handled[k] > 0
  BY <1>1
<1>2. CASE k \in Events /\ outbound[k] > 0
  BY <1>2
<1>3. CASE \E n \in {"main", "retry", "dead"} : Queued(n, k)
  BY <1>3
<1>4. CASE \E w \in Workers : Answers(w, k)
  BY <1>4
<1> QED BY <1>1, <1>2, <1>3, <1>4

LEMMA FlushBacks ==
  ASSUME TypeOK, TypeOK', NEW e \in Events, Flush(e), UNCHANGED consumerVars,
         NEW k \in Keys, Backed(k)
  PROVE  Backed(k)'
<1> DEFINE m == [event |-> e, key |-> e, retry |-> 0]
<1>1. m \in Message
  BY DEF Message, Keys
<1>2. queue'["main"][m] > 0
  BY <1>1 DEF Flush, Publish, Bound, Put, TypeOK, BrokerTypeOK, QueueName
<1>3. \A n \in QueueName, q \in Message : queue'[n][q] >= queue[n][q]
  BY <1>1, PublishGrows DEF Flush, TypeOK
<1>4. CASE k = e
  BY <1>1, <1>2, <1>4 DEF Backed, Queued
<1>5. CASE k # e
  <2>1. k \in Events => outbound'[k] = outbound[k]
    BY <1>5 DEF Flush, TypeOK, RelayTypeOK
  <2> QED
    BY <2>1, <1>3 DEF Backed, Queued, Answers, consumerVars, TypeOK, BrokerTypeOK, QueueName
<1> QED BY <1>4, <1>5

LEMMA RelayStepBacking ==
  ASSUME TypeOK, TypeOK', BackingInv, RelayStep
  PROVE  BackingInv'
<1> USE DEF TypeOK, RelayTypeOK, RowStatus
<1>0. UNCHANGED <<wpc, wmsg, processed, handled>> /\ dropped' = dropped
  BY DEF RelayStep, consumerVars
<1>e. Events \subseteq Keys /\ \A w \in Workers : wpc[w] # "idle" => wmsg[w].key \in Keys
  BY DEF Keys, ConsumerTypeOK, Message
<1>s. \A k \in Keys : Backed(k) => Backed(k)'
  <2> SUFFICES ASSUME NEW k \in Keys, Backed(k)
               PROVE  Backed(k)'
    OBVIOUS
  <2>0. \A w \in Workers : Answers(w, k) => Backed(k)'
    BY <1>0 DEF Answers, Backed
  <2>1. CASE \E e \in Events : Flush(e)
    BY <2>1, FlushBacks DEF RelayStep
  <2>2. CASE \E t \in Ticks, e \in Events : TickPublish(t, e)
    <3>1. UNCHANGED queue /\ \A e \in Events : outbound'[e] >= outbound[e]
      BY <2>2 DEF TickPublish
    <3> QED
      BY <3>1, <2>0, <1>0, BackedKept DEF BrokerTypeOK, ConsumerTypeOK, QueueName
  <2>3. CASE UNCHANGED <<queue, outbound>>
    BY <2>3, <2>0, <1>0, BackedKept DEF BrokerTypeOK, ConsumerTypeOK, QueueName
  <2> QED
    BY <2>1, <2>2, <2>3 DEF RelayStep, Record, TickStart, TickCommit, TickAbort
<1>1. /\ \A k \in processed' : handled'[k] > 0
      /\ \A w \in Workers :
            /\ wpc'[w] = "mark" => handled'[wmsg'[w].key] > 0
            /\ wpc'[w] = "ack" => Backed(wmsg[w].key)'
  BY <1>0, <1>e, <1>s DEF BackingInv
<1>2. /\ \A t \in Ticks : \A e \in done'[t] : Backed(e)'
      /\ \A e \in Events : row'[e] = "published" => Backed(e)' \/ e \in dropped'
  <2>1. ASSUME NEW t \in Ticks, NEW e \in Events, TickPublish(t, e)
        PROVE  <1>2
    <3>1. outbound'[e] > 0
      BY <2>1 DEF TickPublish
    <3>2. Backed(e)'
      BY <3>1 DEF Backed
    <3> QED BY <2>1, <3>2, <1>0, <1>e, <1>s DEF TickPublish, BackingInv, NothingVanishes
  <2>2. ASSUME NEW t \in Ticks, TickCommit(t)
        PROVE  <1>2
    BY <2>2, <1>0, <1>e, <1>s DEF TickCommit, BackingInv, NothingVanishes
  <2>3. ASSUME NEW t \in Ticks, TickAbort(t)
        PROVE  <1>2
    BY <2>3, <1>0, <1>e, <1>s DEF TickAbort, BackingInv, NothingVanishes
  <2>4. ASSUME NEW e \in Events, Record(e)
        PROVE  <1>2
    BY <2>4, <1>0, <1>e, <1>s DEF Record, BackingInv, NothingVanishes
  <2>5. CASE UNCHANGED <<row, done>>
    BY <2>5, <1>0, <1>e, <1>s DEF BackingInv, NothingVanishes
  <2> QED BY <2>1, <2>2, <2>3, <2>4, <2>5 DEF RelayStep, TickStart, Flush
<1> QED BY <1>1, <1>2, <1>0 DEF BackingInv, NothingVanishes

LEMMA BrokerStepBacking ==
  ASSUME TypeOK, TypeOK', BackingInv, BrokerStep
  PROVE  BackingInv'
<1>0. UNCHANGED <<relayVars, consumerVars, dropped>>
  BY DEF BrokerStep
<1>1. PICK m \in Message : RetryExpire(m)
  BY DEF BrokerStep
<1>2. /\ queue'["main"] = Put(queue["main"], m)
      /\ queue'["retry"] = Take(queue["retry"], m)
      /\ queue'["dead"] = queue["dead"]
  BY <1>1 DEF RetryExpire, TypeOK, BrokerTypeOK, QueueName
<1>s. ASSUME NEW k \in Keys, Backed(k)
      PROVE  Backed(k)'
  <2>1. CASE k = m.key
    <3>1. queue'["main"][m] > 0
      BY <1>2 DEF Put, TypeOK, BrokerTypeOK, QueueName
    <3> QED BY <2>1, <3>1 DEF Backed, Queued
  <2>2. CASE k # m.key
    <3>1. \A q \in Message :
            q.key = k => \A n \in {"main", "retry", "dead"} : queue'[n][q] >= queue[n][q]
      BY <2>2, <1>2 DEF Put, Take, TypeOK, BrokerTypeOK, QueueName
    <3> QED
      BY <3>1, <1>0, <1>s
      DEF Backed, Queued, Answers, relayVars, consumerVars, TypeOK, BrokerTypeOK, QueueName
  <2> QED BY <2>1, <2>2
<1>e. /\ Events \subseteq Keys
      /\ \A t \in Ticks : done[t] \subseteq Keys
      /\ \A w \in Workers : wpc[w] # "idle" => wmsg[w].key \in Keys
  BY DEF Keys, TypeOK, RelayTypeOK, ConsumerTypeOK, Message
<1> QED
  BY <1>0, <1>s, <1>e DEF BackingInv, NothingVanishes, relayVars, consumerVars

LEMMA DeadLetterStepBacking ==
  ASSUME TypeOK, TypeOK', BackingInv, DeadLetterStep
  PROVE  BackingInv'
<1>0. UNCHANGED <<relayVars, consumerVars, dropped>>
  BY DEF DeadLetterStep
<1>1. \A n \in {"main", "retry", "dead"}, m \in Message : queue'[n][m] >= queue[n][m]
  <2>1. ASSUME NEW o \in Operators, ReplayPublish(o)
        PROVE  <1>1
    <3> DEFINE r == replaying[o].row
               m == [event |-> deadRow[r].event, key |-> r, retry |-> 0]
    <3>1. r \in DeadRows /\ deadRow[r] \in FailedQueueEvent
      BY <2>1 DEF ReplayPublish, TypeOK, DeadTypeOK, RowExists
    <3>2. m \in Message
      BY <3>1 DEF Message, Keys, FailedQueueEvent
    <3> QED BY <2>1, <3>2, PublishGrows DEF ReplayPublish, TypeOK, QueueName
  <2>2. ASSUME NEW d \in DeadSlots, NEW m \in Message, DeadReceive(d, m)
        PROVE  <1>1
    BY <2>2 DEF DeadReceive, TypeOK, BrokerTypeOK, QueueName
  <2>3. CASE UNCHANGED queue
    BY <2>3 DEF TypeOK, BrokerTypeOK, QueueName
  <2> QED
    BY <2>1, <2>2, <2>3
    DEF DeadLetterStep, DeadSave, DeadAck, ReplayRead, ReplayMark, ReplayDies
<1>s. ASSUME NEW k \in Keys, Backed(k)
      PROVE  Backed(k)'
  <2>1. \A w \in Workers : Answers(w, k) => Backed(k)'
    BY <1>0 DEF Answers, Backed, consumerVars
  <2> QED
    BY <1>0, <1>1, <1>s, <2>1, BackedKept
    DEF relayVars, consumerVars, TypeOK, RelayTypeOK, ConsumerTypeOK
<1>e. /\ Events \subseteq Keys
      /\ \A t \in Ticks : done[t] \subseteq Keys
      /\ \A w \in Workers : wpc[w] # "idle" => wmsg[w].key \in Keys
  BY DEF Keys, TypeOK, RelayTypeOK, ConsumerTypeOK, Message
<1> QED
  BY <1>0, <1>s, <1>e DEF BackingInv, NothingVanishes, relayVars, consumerVars

LEMMA ReceiveBacks ==
  ASSUME TypeOK, TypeOK', BackingInv, NEW w \in Workers, NEW m \in Message, Receive(w, m),
         UNCHANGED relayVars, NEW k \in Keys, Backed(k)
  PROVE  Backed(k)'
<1> USE DEF TypeOK, BrokerTypeOK, ConsumerTypeOK
<1>1. CASE k = m.key
  <2>1. CASE wpc'[w] = "ack"
    <3>1. k \in processed
      BY <1>1, <2>1 DEF Receive, AlreadyProcessed
    <3> QED BY <3>1 DEF BackingInv, Backed, Receive
  <2>2. CASE wpc'[w] # "ack"
    <3>1. wpc'[w] \in {"handle", "dead"} /\ wmsg'[w] = m
      BY <2>2 DEF Receive
    <3> QED BY <1>1, <3>1 DEF Backed, Answers
  <2> QED BY <2>1, <2>2
<1>2. CASE k # m.key
  <2>1. \A q \in Message :
            q.key = k => \A n \in {"main", "retry", "dead"} : queue'[n][q] = queue[n][q]
    BY <1>2 DEF Receive, Take, QueueName
  <2>2. \A v \in Workers : Answers(v, k) => Answers(v, k)'
    BY DEF Receive, Answers
  <2> QED BY <2>1, <2>2 DEF Receive, Backed, Queued, relayVars
<1> QED BY <1>1, <1>2

LEMMA ConsumerStepBacking ==
  ASSUME TypeOK, TypeOK', BackingInv, ConsumerStep
  PROVE  BackingInv'
<1> USE DEF TypeOK, ConsumerTypeOK
<1>0. UNCHANGED relayVars /\ dropped' = dropped
  BY DEF ConsumerStep
<1>e. /\ Events \subseteq Keys
      /\ \A t \in Ticks : done[t] \subseteq Keys
      /\ \A w \in Workers : wpc[w] # "idle" => wmsg[w] \in Message /\ wmsg[w].key \in Keys
  BY DEF Keys, RelayTypeOK, Message
<1> DEFINE Stable == \A k \in Keys : Backed(k) => Backed(k)'
           Local(w) ==
             /\ \A k \in processed' : handled'[k] > 0
             /\ wpc'[w] = "mark" => handled'[wmsg'[w].key] > 0
             /\ wpc'[w] = "ack" => Backed(wmsg[w].key)'
             /\ \A v \in Workers \ {w} : wpc'[v] = wpc[v] /\ wmsg'[v] = wmsg[v]
             /\ \A k \in Keys : handled'[k] >= handled[k]
<1>r. /\ outbound' = outbound
      /\ \A k \in Keys : handled'[k] >= handled[k]
  <2>1. CASE \E w \in Workers : HandleResolves(w)
    BY <2>1, <1>0, <1>e DEF HandleResolves, relayVars
  <2>2. CASE UNCHANGED handled
    BY <2>2, <1>0 DEF relayVars
  <2> QED
    BY <2>1, <2>2 DEF ConsumerStep, Receive, HandleRejects, MarkProcessed, SendToRetry,
                      SendToDead, Ack, ForgetKey
<1>i. ASSUME Stable, NEW w \in Workers, Local(w)
      PROVE  BackingInv'
  <2>1. \A v \in Workers \ {w} :
            /\ wpc'[v] = "mark" => handled'[wmsg'[v].key] > 0
            /\ wpc'[v] = "ack" => Backed(wmsg[v].key)'
    BY <1>i, <1>e DEF BackingInv
  <2>2. /\ \A t \in Ticks : \A e \in done'[t] : Backed(e)'
        /\ \A e \in Events : row'[e] = "published" => Backed(e)' \/ e \in dropped'
    BY <1>i, <1>0, <1>e DEF BackingInv, NothingVanishes, relayVars
  <2> QED BY <1>i, <2>1, <2>2 DEF BackingInv, NothingVanishes
<1>k. ASSUME UNCHANGED queue,
             \A v \in Workers, k \in Keys : Answers(v, k) => Backed(k)'
      PROVE  Stable
  BY <1>k, <1>r, BackedKept DEF BrokerTypeOK, RelayTypeOK, QueueName
<1>1. ASSUME NEW w \in Workers, NEW m \in Message, Receive(w, m)
      PROVE  BackingInv'
  <2>1. Stable
    BY <1>1, <1>0, ReceiveBacks
  <2>2. wpc'[w] = "ack" => Backed(wmsg[w].key)'
    BY <1>1 DEF Receive, AlreadyProcessed, BackingInv, Backed
  <2> QED BY <1>1, <2>1, <2>2, <1>i DEF Receive, BackingInv
<1>2. ASSUME NEW w \in Workers, HandleResolves(w)
      PROVE  BackingInv'
  <2>1. \A v \in Workers, k \in Keys : Answers(v, k) => Backed(k)'
    BY <1>2 DEF HandleResolves, Answers, Backed
  <2>2. Stable
    BY <1>2, <2>1, <1>k DEF HandleResolves
  <2>3. Local(w)
    BY <1>2, <1>e, <1>r DEF HandleResolves, BackingInv
  <2> QED BY <2>2, <2>3, <1>i
<1>3. ASSUME NEW w \in Workers, HandleRejects(w)
      PROVE  BackingInv'
  <2>1. \A v \in Workers, k \in Keys : Answers(v, k) => Backed(k)'
    BY <1>3 DEF HandleRejects, AfterFailure, Answers, Backed
  <2>2. Stable
    BY <1>3, <2>1, <1>k DEF HandleRejects
  <2>3. Local(w)
    BY <1>3, <1>r DEF HandleRejects, AfterFailure, BackingInv
  <2> QED BY <2>2, <2>3, <1>i
<1>4. ASSUME NEW w \in Workers, MarkProcessed(w)
      PROVE  BackingInv'
  <2>0. handled'[wmsg[w].key] > 0 /\ wmsg' = wmsg /\ handled' = handled
    BY <1>4 DEF MarkProcessed, BackingInv
  <2>1. \A v \in Workers, k \in Keys : Answers(v, k) => Backed(k)'
    BY <1>4, <2>0 DEF MarkProcessed, Answers, Backed
  <2>2. Stable
    BY <1>4, <2>1, <1>k DEF MarkProcessed
  <2>3. Backed(wmsg[w].key)'
    BY <2>0 DEF Backed
  <2>4. Local(w)
    BY <1>4, <2>0, <2>3, <1>r DEF MarkProcessed, BackingInv
  <2> QED BY <2>2, <2>4, <1>i
<1>5. ASSUME NEW w \in Workers, wpc'[w] = "ack", UNCHANGED <<wmsg, processed, handled>>,
             wpc' = [wpc EXCEPT ![w] = "ack"], wpc[w] # "idle",
             NEW n \in {"retry", "dead"}, NEW q \in Message,
             q.key = wmsg[w].key, queue'[n][q] > 0,
             \A j \in {"main", "retry", "dead"}, m \in Message : queue'[j][m] >= queue[j][m]
      PROVE  BackingInv'
  <2>1. Backed(wmsg[w].key)'
    BY <1>5 DEF Backed, Queued
  <2>2. \A v \in Workers, k \in Keys : Answers(v, k) => Backed(k)'
    <3> SUFFICES ASSUME NEW v \in Workers, NEW k \in Keys, Answers(v, k)
                 PROVE  Backed(k)'
      OBVIOUS
    <3>1. CASE v = w
      BY <1>5, <3>1 DEF Answers, Backed, Queued
    <3>2. CASE v # w
      BY <1>5, <3>2 DEF Answers, Backed
    <3> QED BY <3>1, <3>2
  <2>3. Stable
    BY <1>5, <2>2, <1>r, BackedKept DEF RelayTypeOK
  <2>4. Local(w)
    BY <1>5, <2>1, <1>r DEF BackingInv
  <2> QED BY <2>3, <2>4, <1>i
<1>6. ASSUME NEW w \in Workers, SendToRetry(w)
      PROVE  BackingInv'
  <2> DEFINE q == [wmsg[w] EXCEPT !.retry = @ + 1]
  <2>1. q \in Message /\ q.key = wmsg[w].key
    BY <1>6 DEF SendToRetry, Message
  <2>2. /\ queue'["retry"] = Put(queue["retry"], q)
        /\ queue'["main"] = queue["main"]
        /\ queue'["dead"] = queue["dead"]
    BY <1>6 DEF SendToRetry, BrokerTypeOK, QueueName
  <2>3. /\ queue'["retry"][q] > 0
        /\ \A j \in {"main", "retry", "dead"}, m \in Message : queue'[j][m] >= queue[j][m]
    <3>1. \A j \in QueueName, m \in Message : queue[j][m] \in Nat
      BY DEF BrokerTypeOK
    <3>2. \A m \in Message :
            queue'["retry"][m] = IF m = q THEN queue["retry"][m] + 1 ELSE queue["retry"][m]
      BY <2>1, <2>2 DEF Put, BrokerTypeOK, QueueName
    <3> HIDE DEF q
    <3> QED BY <2>1, <2>2, <3>1, <3>2 DEF QueueName
  <2> QED BY <1>6, <2>1, <2>3, <1>5 DEF SendToRetry
<1>7. ASSUME NEW w \in Workers, SendToDead(w)
      PROVE  BackingInv'
  <2>1. wmsg[w] \in Message
    BY <1>7 DEF SendToDead
  <2>2. queue'["dead"][wmsg[w]] > 0
    BY <1>7, <2>1 DEF SendToDead, Publish, Bound, Put, BrokerTypeOK, QueueName
  <2>3. \A j \in {"main", "retry", "dead"}, m \in Message : queue'[j][m] >= queue[j][m]
    BY <1>7, <2>1, PublishGrows DEF SendToDead, QueueName
  <2> QED BY <1>7, <2>1, <2>2, <2>3, <1>5 DEF SendToDead
<1>8. ASSUME NEW w \in Workers, Ack(w)
      PROVE  BackingInv'
  <2>1. \A v \in Workers, k \in Keys : Answers(v, k) => Backed(k)'
    BY <1>8 DEF Ack, Answers, Backed
  <2>2. Stable
    BY <1>8, <2>1, <1>k DEF Ack
  <2>3. Local(w)
    BY <1>8, <1>r DEF Ack, BackingInv
  <2> QED BY <2>2, <2>3, <1>i
<1>9. ASSUME NEW key \in Keys, ForgetKey(key)
      PROVE  BackingInv'
  <2>1. \A v \in Workers, k \in Keys : Answers(v, k) => Backed(k)'
    BY <1>9 DEF ForgetKey, Answers, Backed
  <2>2. Stable
    BY <1>9, <2>1, <1>k DEF ForgetKey
  <2>3. CASE Workers = {}
    BY <1>9, <2>2, <2>3, <1>0, <1>e
    DEF ForgetKey, BackingInv, NothingVanishes, relayVars
  <2>4. ASSUME NEW w \in Workers
        PROVE  BackingInv'
    <3>1. Local(w)
      BY <1>9, <2>2, <1>e, <1>r DEF ForgetKey, BackingInv
    <3> QED BY <3>1, <2>2, <1>i
  <2> QED BY <2>3, <2>4
<1> QED
  BY <1>1, <1>2, <1>3, <1>4, <1>6, <1>7, <1>8, <1>9 DEF ConsumerStep

LEMMA CrashBacking ==
  ASSUME TypeOK, BackingInv, Crash, WorkersAssumption
  PROVE  BackingInv'
<1> USE DEF TypeOK, BrokerTypeOK, RelayTypeOK, ConsumerTypeOK
<1>0. /\ UNCHANGED <<row, processed, handled>>
      /\ wpc' = [w \in Workers |-> "idle"]
      /\ done' = [t \in Ticks |-> {}]
      /\ dropped' = dropped \cup {e \in Events : outbound[e] > 0}
  BY DEF Crash, WorkersStop
<1>1. \A m \in Message :
        /\ queue'["main"][m]
             = queue["main"][m] + Cardinality({w \in Workers : wmsg[w] = m})
        /\ queue'["retry"][m] = queue["retry"][m]
        /\ queue'["dead"][m] = queue["dead"][m]
  BY DEF Crash, UnackedRequeued, QueueName
<1>2. ASSUME NEW m \in Message
      PROVE  /\ queue'["main"][m] \in Nat
             /\ queue'["main"][m] >= queue["main"][m]
             /\ \A w \in Workers : wmsg[w] = m => queue'["main"][m] > 0
  <2> DEFINE H == {w \in Workers : wmsg[w] = m}
             c == Cardinality(H)
  <2>1. IsFiniteSet(H)
    BY WorkersAssumption, FS_Subset
  <2>2. c \in Nat /\ (c = 0 <=> H = {})
    BY <2>1, FS_CardinalityType, FS_EmptySet
  <2>3. queue["main"][m] \in Nat /\ queue'["main"][m] = queue["main"][m] + c
    BY <1>1 DEF QueueName
  <2>4. \A w \in Workers : wmsg[w] = m => H # {}
    OBVIOUS
  <2> HIDE DEF c, H
  <2> QED BY <2>2, <2>3, <2>4
<1>3. ASSUME NEW e \in Events, Backed(e)
      PROVE  Backed(e)' \/ e \in dropped'
  <2>1. CASE handled[e] > 0
    BY <2>1, <1>0 DEF Backed
  <2>2. CASE outbound[e] > 0
    BY <2>2, <1>0
  <2>3. ASSUME NEW n \in {"main", "retry", "dead"}, Queued(n, e)
        PROVE  Backed(e)'
    <3>1. PICK m \in Message : m.key = e /\ queue[n][m] > 0
      BY <2>3 DEF Queued
    <3>2. \A j \in QueueName : queue[j][m] \in Nat
      OBVIOUS
    <3>3. queue'["main"][m] \in Nat /\ queue'["main"][m] >= queue["main"][m]
      BY <1>2
    <3>4. queue'[n][m] > 0
      <4>1. CASE n = "main"
        BY <4>1, <3>1, <3>2, <3>3 DEF QueueName
      <4>2. CASE n # "main"
        BY <4>2, <3>1, <1>1
      <4> QED BY <4>1, <4>2
    <3> QED BY <3>1, <3>4 DEF Backed, Queued
  <2>4. ASSUME NEW w \in Workers, Answers(w, e)
        PROVE  Backed(e)'
    <3>1. wmsg[w] \in Message /\ wmsg[w].key = e
      BY <2>4 DEF Answers
    <3>2. queue'["main"][wmsg[w]] > 0
      BY <3>1, <1>2
    <3> QED BY <3>1, <3>2 DEF Backed, Queued
  <2> QED BY <1>3, <2>1, <2>2, <2>3, <2>4 DEF Backed
<1>4. \A e \in Events : row'[e] = "published" => Backed(e)' \/ e \in dropped'
  BY <1>0, <1>3 DEF BackingInv, NothingVanishes
<1> QED BY <1>0, <1>4 DEF BackingInv, NothingVanishes

LEMMA InitBacking == Init => BackingInv
BY DEF Init, RelayInit, ConsumerInit, BackingInv, NothingVanishes

LEMMA NextBacking ==
  ASSUME TypeOK, BackingInv, [Next]_vars, WorkersAssumption, DeadSlotsAssumption
  PROVE  BackingInv'
<1>1. TypeOK'
  BY NextType
<1>2. CASE UNCHANGED vars
  BY <1>2 DEF vars, relayVars, consumerVars, BackingInv, NothingVanishes, Backed, Queued,
              Answers
<1> QED
  BY <1>1, <1>2, RelayStepBacking, BrokerStepBacking, ConsumerStepBacking,
     DeadLetterStepBacking, CrashBacking
  DEF Next

(* No event whose row says published is lost, except by a crash with its   *)
(* frame still in the write buffer (outbox-relay.ts tick, consumer.ts      *)
(* processMessage).                                                        *)
THEOREM PublishedNeverVanishes == Spec => []NothingVanishes
<1>1. Init => BackingInv
  BY InitBacking
<1>2. TypeOK /\ BackingInv /\ [Next]_vars => BackingInv'
  BY NextBacking, WorkersAssumption, DeadSlotsAssumption
<1>3. BackingInv => NothingVanishes
  BY DEF BackingInv
<1> QED BY <1>1, <1>2, <1>3, TypeCorrect, PTL DEF Spec
=============================================================================

------------------------- MODULE EventAttempts_proofs -------------------------
(***************************************************************************)
(* Proof that the event pipeline gives a message up only after all its     *)
(* attempts.                                                               *)
(***************************************************************************)
EXTENDS EventDelivery_proofs

USE MaxRetriesAssumption, NoMessageAssumption

(* A step that only adds fresh messages to the queues, none of them dead.  *)
LEMMA FreshCopies ==
  ASSUME TypeOK, AttemptsInv, UNCHANGED consumerVars,
         \A n \in {"main", "retry"}, m \in Message :
             queue'[n][m] > 0 => queue[n][m] > 0 \/ m.retry = 0,
         queue'["dead"] = queue["dead"]
  PROVE  AttemptsInv'
<1>1. \A m \in Message : failures[m.key] \in Nat
  BY DEF TypeOK, ConsumerTypeOK, Message
<1>2. \A n \in {"main", "retry"}, m \in Message : queue'[n][m] > 0 => Attempted(m)'
  BY <1>1 DEF AttemptsInv, Attempted, consumerVars
<1> QED
  BY <1>2 DEF AttemptsInv, DeadMeansExhausted, Attempted, Exhausted, consumerVars

(* A publish to the main exchange with a retry count of 0.                 *)
LEMMA FreshPublish ==
  ASSUME TypeOK, AttemptsInv, UNCHANGED consumerVars,
         NEW rk, NEW q \in Message, q.retry = 0,
         queue' = Publish("trello-issur.events", rk, q)
  PROVE  AttemptsInv'
<1>1. queue'["dead"] = queue["dead"]
  BY DEF Publish, Bound, QueueName
<1>2. ASSUME NEW n \in {"main", "retry"}, NEW m \in Message, queue'[n][m] > 0
      PROVE  queue[n][m] > 0 \/ m.retry = 0
  <2>1. CASE m = q
    BY <2>1
  <2>2. CASE m # q
    <3>1. queue'[n][m] = queue[n][m]
      BY <2>2 DEF Publish, Put, QueueName, TypeOK, BrokerTypeOK
    <3> QED BY <3>1, <1>2
  <2> QED BY <2>1, <2>2
<1> QED BY <1>1, <1>2, FreshCopies

LEMMA RelayStepAttempts ==
  ASSUME TypeOK, AttemptsInv, RelayStep
  PROVE  AttemptsInv'
<1>0. UNCHANGED consumerVars
  BY DEF RelayStep
<1>1. ASSUME NEW e \in Events, Flush(e)
      PROVE  AttemptsInv'
  <2> DEFINE q == [event |-> e, key |-> e, retry |-> 0]
  <2>1. q \in Message /\ q.retry = 0
    BY DEF Message, Keys
  <2>2. queue' = Publish("trello-issur.events", "event", q)
    BY <1>1 DEF Flush
  <2> HIDE DEF q
  <2> QED BY <1>0, <2>1, <2>2, FreshPublish
<1>2. CASE UNCHANGED queue
  BY <1>0, <1>2, FreshCopies
<1> QED
  BY <1>1, <1>2
  DEF RelayStep, Record, TickStart, TickPublish, TickCommit, TickAbort

LEMMA BrokerStepAttempts ==
  ASSUME TypeOK, AttemptsInv, BrokerStep
  PROVE  AttemptsInv'
<1>0. UNCHANGED consumerVars
  BY DEF BrokerStep
<1>1. PICK q \in Message : RetryExpire(q)
  BY DEF BrokerStep
<1>2. /\ queue'["main"] = Put(queue["main"], q)
      /\ queue'["retry"] = Take(queue["retry"], q)
      /\ queue'["dead"] = queue["dead"]
      /\ queue["retry"][q] > 0
  BY <1>1 DEF RetryExpire, TypeOK, BrokerTypeOK, QueueName
<1>3. ASSUME NEW n \in {"main", "retry"}, NEW m \in Message, queue'[n][m] > 0
      PROVE  Attempted(m)'
  <2>1. CASE m = q
    BY <2>1, <1>0, <1>2 DEF AttemptsInv, Attempted, consumerVars
  <2>2. CASE m # q
    <3>1. queue'[n][m] = queue[n][m]
      BY <2>2, <1>2 DEF Put, Take, TypeOK, BrokerTypeOK, QueueName
    <3> QED BY <3>1, <1>0, <1>3 DEF AttemptsInv, Attempted, consumerVars
  <2> QED BY <2>1, <2>2
<1> QED
  BY <1>0, <1>2, <1>3 DEF AttemptsInv, DeadMeansExhausted, Attempted, Exhausted, consumerVars

LEMMA DeadLetterStepAttempts ==
  ASSUME TypeOK, AttemptsInv, DeadLetterStep
  PROVE  AttemptsInv'
<1>0. UNCHANGED consumerVars
  BY DEF DeadLetterStep
<1>1. ASSUME NEW o \in Operators, ReplayPublish(o)
      PROVE  AttemptsInv'
  <2> DEFINE r == replaying[o].row
             q == [event |-> deadRow[r].event, key |-> r, retry |-> 0]
  <2>1. r \in DeadRows /\ deadRow[r] \in FailedQueueEvent
    BY <1>1 DEF ReplayPublish, TypeOK, DeadTypeOK, RowExists
  <2>2. q \in Message /\ q.retry = 0
    BY <2>1 DEF Message, Keys, FailedQueueEvent
  <2>3. queue' = Publish("trello-issur.events", deadRow[r].routingKey, q)
    BY <1>1 DEF ReplayPublish
  <2> HIDE DEF q
  <2> QED BY <1>0, <2>2, <2>3, FreshPublish
<1>2. ASSUME NEW d \in DeadSlots, NEW m \in Message, DeadReceive(d, m)
      PROVE  AttemptsInv'
  <2>1. \A n \in {"main", "retry", "dead"} : queue'[n] = queue[n]
    BY <1>2 DEF DeadReceive, TypeOK, BrokerTypeOK, QueueName
  <2> QED BY <1>0, <2>1, FreshCopies
<1>3. CASE UNCHANGED queue
  BY <1>0, <1>3, FreshCopies
<1> QED
  BY <1>1, <1>2, <1>3
  DEF DeadLetterStep, DeadSave, DeadAck, ReplayRead, ReplayMark, ReplayDies

LEMMA ConsumerStepAttempts ==
  ASSUME TypeOK, AttemptsInv, ConsumerStep
  PROVE  AttemptsInv'
<1> USE DEF TypeOK, ConsumerTypeOK, WorkerPC
<1> DEFINE Calls ==
             \A w \in Workers :
               /\ wpc'[w] # "idle" => Attempted(wmsg[w])'
               /\ wpc'[w] = "retry" => failures'[wmsg'[w].key] > wmsg'[w].retry
               /\ wpc'[w] = "dead" => Exhausted(wmsg[w])'
           Queues ==
             /\ \A n \in {"main", "retry"}, m \in Message :
                   queue'[n][m] > 0 => Attempted(m)'
             /\ DeadMeansExhausted'
<1>k. /\ \A m \in Message : /\ m.key \in Keys
                            /\ m.retry \in 0..MaxRetries
                            /\ failures[m.key] \in Nat
      /\ \A w \in Workers : wpc[w] # "idle" => wmsg[w] \in Message
  BY DEF Message
<1>1. ASSUME NEW w \in Workers, NEW q \in Message, Receive(w, q)
      PROVE  Calls /\ Queues
  <2>1. /\ queue["main"][q] > 0
        /\ queue'["main"] = Take(queue["main"], q)
        /\ queue'["retry"] = queue["retry"]
        /\ queue'["dead"] = queue["dead"]
        /\ failures' = failures
    BY <1>1 DEF Receive, BrokerTypeOK, QueueName
  <2>2. \A m \in Message : queue'["main"][m] > 0 => queue["main"][m] > 0
    BY <2>1 DEF Take, BrokerTypeOK, QueueName
  <2>3. Queues
    BY <2>1, <2>2 DEF AttemptsInv, DeadMeansExhausted, Attempted, Exhausted
  <2>4. Calls
    BY <1>1, <2>1 DEF Receive, AttemptsInv, Attempted, Exhausted
  <2> QED BY <2>3, <2>4
<1>2. ASSUME NEW w \in Workers, HandleRejects(w)
      PROVE  Calls /\ Queues
  <2>1. /\ wmsg[w] \in Message
        /\ failures'[wmsg[w].key] = failures[wmsg[w].key] + 1
        /\ \A m \in Message : /\ failures'[m.key] \in Nat
                              /\ failures'[m.key] >= failures[m.key]
    BY <1>2, <1>k DEF HandleRejects
  <2>2. Queues
    BY <1>2, <1>k, <2>1
    DEF HandleRejects, AttemptsInv, DeadMeansExhausted, Attempted, Exhausted
  <2>3. Calls
    <3> SUFFICES ASSUME NEW v \in Workers
                 PROVE  /\ wpc'[v] # "idle" => Attempted(wmsg[v])'
                        /\ wpc'[v] = "retry" => failures'[wmsg'[v].key] > wmsg'[v].retry
                        /\ wpc'[v] = "dead" => Exhausted(wmsg[v])'
      OBVIOUS
    <3>1. CASE v = w
      BY <1>2, <1>k, <2>1, <3>1
      DEF HandleRejects, AfterFailure, AttemptsInv, Attempted, Exhausted
    <3>2. CASE v # w
      BY <1>2, <1>k, <2>1, <3>2 DEF HandleRejects, AttemptsInv, Attempted, Exhausted
    <3> QED BY <3>1, <3>2
  <2> QED BY <2>2, <2>3
<1>3. ASSUME NEW w \in Workers, SendToRetry(w)
      PROVE  Calls /\ Queues
  <2> DEFINE q == [wmsg[w] EXCEPT !.retry = @ + 1]
  <2>1. wmsg[w] \in Message /\ failures[wmsg[w].key] > wmsg[w].retry
    BY <1>3, <1>k DEF SendToRetry, AttemptsInv
  <2>2. q \in Message /\ q.key = wmsg[w].key /\ q.retry = wmsg[w].retry + 1
    BY <1>3, <2>1 DEF SendToRetry, Message
  <2>3. failures'[q.key] >= q.retry /\ failures' = failures
    BY <1>3, <1>k, <2>1, <2>2 DEF SendToRetry, Attempted
  <2>4. /\ queue'["retry"] = Put(queue["retry"], q)
        /\ queue'["main"] = queue["main"]
        /\ queue'["dead"] = queue["dead"]
    BY <1>3 DEF SendToRetry, BrokerTypeOK, QueueName
  <2>5. \A m \in Message : m # q => queue'["retry"][m] = queue["retry"][m]
    BY <2>2, <2>4 DEF Put, BrokerTypeOK, QueueName
  <2> HIDE DEF q
  <2>6. Queues
    <3>1. ASSUME NEW n \in {"main", "retry"}, NEW m \in Message, queue'[n][m] > 0
          PROVE  Attempted(m)'
      <4>1. CASE m = q
        BY <4>1, <2>3 DEF Attempted
      <4>2. CASE m # q
        <5>1. queue'[n][m] = queue[n][m]
          BY <4>2, <2>4, <2>5
        <5> QED BY <5>1, <3>1, <2>3 DEF AttemptsInv, Attempted
      <4> QED BY <4>1, <4>2
    <3>2. DeadMeansExhausted'
      BY <2>3, <2>4 DEF AttemptsInv, DeadMeansExhausted, Exhausted
    <3> QED BY <3>1, <3>2
  <2>7. Calls
    BY <1>3 DEF SendToRetry, AttemptsInv, Attempted, Exhausted
  <2> QED BY <2>6, <2>7
<1>4. ASSUME NEW w \in Workers, SendToDead(w)
      PROVE  Calls /\ Queues
  <2>1. wmsg[w] \in Message /\ Exhausted(wmsg[w]) /\ failures' = failures
    BY <1>4, <1>k DEF SendToDead, AttemptsInv
  <2>2. /\ queue'["dead"] = Put(queue["dead"], wmsg[w])
        /\ queue'["main"] = queue["main"]
        /\ queue'["retry"] = queue["retry"]
    BY <1>4 DEF SendToDead, Publish, Bound, QueueName
  <2>3. \A m \in Message : m # wmsg[w] => queue'["dead"][m] = queue["dead"][m]
    BY <2>1, <2>2 DEF Put, BrokerTypeOK, QueueName
  <2>4. Queues
    BY <2>1, <2>2, <2>3 DEF AttemptsInv, DeadMeansExhausted, Attempted, Exhausted
  <2>5. Calls
    BY <1>4 DEF SendToDead, AttemptsInv, Attempted, Exhausted
  <2> QED BY <2>4, <2>5
<1>5. ASSUME NEW w \in Workers, HandleResolves(w) \/ MarkProcessed(w) \/ Ack(w)
      PROVE  Calls /\ Queues
  <2>1. UNCHANGED <<queue, failures>>
    BY <1>5 DEF HandleResolves, MarkProcessed, Ack
  <2>2. Queues
    BY <2>1 DEF AttemptsInv, DeadMeansExhausted, Attempted, Exhausted
  <2>3. Calls
    BY <1>5, <2>1 DEF HandleResolves, MarkProcessed, Ack, AttemptsInv, Attempted, Exhausted
  <2> QED BY <2>2, <2>3
<1>6. ASSUME NEW k \in Keys, ForgetKey(k)
      PROVE  Calls /\ Queues
  BY <1>6 DEF ForgetKey, AttemptsInv, DeadMeansExhausted, Attempted, Exhausted
<1>7. Calls /\ Queues
  BY <1>1, <1>2, <1>3, <1>4, <1>5, <1>6 DEF ConsumerStep
<1> QED BY <1>7 DEF AttemptsInv

LEMMA CrashAttempts ==
  ASSUME TypeOK, AttemptsInv, Crash, WorkersAssumption
  PROVE  AttemptsInv'
<1>1. /\ failures' = failures
      /\ \A w \in Workers : wpc'[w] = "idle"
      /\ \A m \in Message :
            /\ queue'["main"][m]
                 = queue["main"][m] + Cardinality({w \in Workers : wmsg[w] = m})
            /\ queue'["retry"][m] = queue["retry"][m]
            /\ queue'["dead"][m] = queue["dead"][m]
  BY DEF Crash, WorkersStop, UnackedRequeued, TypeOK, BrokerTypeOK, QueueName
<1>2. ASSUME NEW m \in Message, queue'["main"][m] > 0
      PROVE  Attempted(m)
  <2>1. CASE \E w \in Workers : wmsg[w] = m
    BY <2>1 DEF AttemptsInv, TypeOK, ConsumerTypeOK
  <2>2. CASE ~\E w \in Workers : wmsg[w] = m
    <3>1. {w \in Workers : wmsg[w] = m} = {}
      BY <2>2
    <3>2. Cardinality({w \in Workers : wmsg[w] = m}) = 0
      BY <3>1, FS_EmptySet
    <3>3. queue["main"][m] \in Nat
      BY DEF TypeOK, BrokerTypeOK, QueueName
    <3>4. queue["main"][m] > 0
      BY <3>2, <3>3, <1>1, <1>2
    <3> QED BY <3>4 DEF AttemptsInv
  <2> QED BY <2>1, <2>2
<1>3. \A m \in Message : /\ Attempted(m)' = Attempted(m)
                        /\ Exhausted(m)' = Exhausted(m)
  BY <1>1 DEF Attempted, Exhausted
<1>4. \A n \in {"main", "retry"}, m \in Message : queue'[n][m] > 0 => Attempted(m)'
  <2>1. \A m \in Message : queue["retry"][m] > 0 => Attempted(m)
    BY DEF AttemptsInv
  <2> QED BY <1>1, <1>2, <1>3, <2>1
<1>5. DeadMeansExhausted'
  <2>1. DeadMeansExhausted
    BY DEF AttemptsInv
  <2> QED BY <1>1, <1>3, <2>1 DEF DeadMeansExhausted
<1> QED
  BY <1>1, <1>4, <1>5 DEF AttemptsInv

LEMMA NextAttempts ==
  ASSUME TypeOK, AttemptsInv, [Next]_vars, WorkersAssumption
  PROVE  AttemptsInv'
<1>1. CASE UNCHANGED vars
  BY <1>1, FreshCopies DEF vars
<1> QED
  BY <1>1, RelayStepAttempts, BrokerStepAttempts, ConsumerStepAttempts,
     DeadLetterStepAttempts, CrashAttempts
  DEF Next

LEMMA InitAttempts == Init => AttemptsInv
BY DEF Init, BrokerInit, EmptyQueue, QueueName, ConsumerInit, AttemptsInv,
       DeadMeansExhausted

(* A message that parses is in the dead queue only after its MaxRetries    *)
(* retries, each of which its handler really rejected (consumer.ts         *)
(* handleFailure).                                                         *)
THEOREM DeadOnlyWhenExhausted == Spec => []DeadMeansExhausted
<1>1. Init => AttemptsInv
  BY InitAttempts
<1>2. TypeOK /\ AttemptsInv /\ [Next]_vars => AttemptsInv'
  BY NextAttempts, WorkersAssumption
<1>3. AttemptsInv => DeadMeansExhausted
  BY DEF AttemptsInv
<1> QED BY <1>1, <1>2, <1>3, TypeCorrect, PTL DEF Spec
=============================================================================

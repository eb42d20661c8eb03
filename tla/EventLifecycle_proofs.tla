----------------------- MODULE EventLifecycle_proofs -----------------------
(***************************************************************************)
(* Proof that the event pipeline implements EventLifecycle: each step of   *)
(* relay, broker, consumers and replays moves at most one event to its     *)
(* next phase, and a crash only drops events.                              *)
(***************************************************************************)
EXTENDS EventDelivery_proofs

USE MaxRetriesAssumption, KeysAssumption, NoMessageAssumption

(* Rows selected by a tick are pending and no other tick has them.         *)
LocksInv ==
    /\ \A t \in Ticks : \A e \in todo[t] \cup done[t] : row[e] = "pending"
    /\ \A t, u \in Ticks : t # u => (todo[t] \cup done[t]) \cap (todo[u] \cup done[u]) = {}

(* Nothing was published for an event whose transaction did not commit.    *)
UnrecordedInv == \A e \in Events : row[e] = "none" => ~Backed(e)

LifecycleInv == LocksInv /\ UnrecordedInv

-----------------------------------------------------------------------------
(* A step is about the event of one message.  Of the others it changes     *)
(* nothing that their phase depends on.                                    *)

Still(x) ==
    /\ \A n \in {"main", "retry", "dead"}, m \in Message :
          m.key = x => queue'[n][m] = queue[n][m]
    /\ handled'[x] = handled[x]
    /\ outbound'[x] = outbound[x]
    /\ \A w \in Workers : Answers(w, x)' <=> Answers(w, x)

Same(x) ==
    /\ handled'[x] = handled[x]
    /\ Queued("dead", x)' <=> Queued("dead", x)
    /\ Backed(x)' <=> Backed(x)

Grown(k) ==
    /\ handled[k] > 0 => handled'[k] > 0
    /\ Queued("dead", k) => Queued("dead", k)'
    /\ Backed(k)
    /\ Backed(k)'

(* The step is about key k, which was backed and still is.                 *)
About(k) ==
    /\ \A x \in Events \ {k} : Same(x)
    /\ Grown(k)

(* The step is about no event.                                             *)
Silent == \A x \in Events : Same(x)

LEMMA StillIsSame ==
  ASSUME NEW x \in Events, Still(x)
  PROVE  Same(x)
BY DEF Still, Same, Queued, Backed

LEMMA KeyTypes ==
  ASSUME TypeOK
  PROVE  /\ Events \subseteq Keys
         /\ \A w \in Workers : wpc[w] # "idle" => wmsg[w] \in Message /\ wmsg[w].key \in Keys
         /\ \A m \in Message : m.key \in Keys
BY DEF Keys, TypeOK, ConsumerTypeOK, Message

(* A step that only adds messages, all of them of key k, and changes calls *)
(* only for k.                                                             *)
LEMMA OthersStill ==
  ASSUME TypeOK, NEW k \in Keys, UNCHANGED outbound,
         \A n \in {"main", "retry", "dead"}, m \in Message :
            m.key # k => queue'[n][m] = queue[n][m],
         \A x \in Events \ {k} :
            /\ handled'[x] = handled[x]
            /\ \A w \in Workers : Answers(w, x)' <=> Answers(w, x)
  PROVE  \A x \in Events \ {k} : Same(x)
BY StillIsSame DEF Still

-----------------------------------------------------------------------------
(* The broker and the consumer.                                            *)

LEMMA RetryExpireAbout ==
  ASSUME TypeOK, TypeOK', BrokerStep
  PROVE  \E k \in Keys : About(k)
<1> USE DEF TypeOK, BrokerTypeOK, QueueName
<1>0. UNCHANGED <<outbound, handled, wpc, wmsg>>
  BY DEF BrokerStep, relayVars, consumerVars
<1>1. PICK m \in Message : RetryExpire(m)
  BY DEF BrokerStep
<1>2. /\ queue'["main"] = Put(queue["main"], m)
      /\ queue'["retry"] = Take(queue["retry"], m)
      /\ queue'["dead"] = queue["dead"]
  BY <1>1 DEF RetryExpire
<1>3. \A n \in {"main", "retry", "dead"}, q \in Message : q # m => queue'[n][q] = queue[n][q]
  BY <1>2 DEF Put, Take
<1>4. \A x \in Events \ {m.key} : Same(x)
  BY <1>0, <1>3, OthersStill, KeyTypes DEF Answers
<1>5. Backed(m.key)
  BY <1>1 DEF RetryExpire, Backed, Queued
<1>6. Backed(m.key)'
  <2>1. queue'["main"][m] > 0
    BY <1>2 DEF Put
  <2> QED BY <2>1 DEF Backed, Queued
<1>7. Queued("dead", m.key) => Queued("dead", m.key)'
  BY <1>2 DEF Queued
<1> QED BY <1>0, <1>4, <1>5, <1>6, <1>7, KeyTypes DEF About, Grown

LEMMA ReceiveAbout ==
  ASSUME TypeOK, TypeOK', BackingInv, NEW w \in Workers, NEW m \in Message, Receive(w, m),
         UNCHANGED relayVars
  PROVE  About(m.key)
<1> USE DEF TypeOK, BrokerTypeOK, ConsumerTypeOK
<1>1. /\ queue'["main"] = Take(queue["main"], m)
      /\ queue'["retry"] = queue["retry"]
      /\ queue'["dead"] = queue["dead"]
      /\ handled' = handled
  BY DEF Receive, QueueName
<1>2. \A n \in {"main", "retry", "dead"}, q \in Message :
        q.key # m.key => queue'[n][q] = queue[n][q]
  <2>1. \A q \in Message : q # m => Take(queue["main"], m)[q] = queue["main"][q]
    BY DEF Take, QueueName
  <2> QED BY <1>1, <2>1
<1>3. \A x \in Events \ {m.key} : \A v \in Workers : Answers(v, x)' <=> Answers(v, x)
  BY DEF Receive, Answers
<1>4. \A x \in Events \ {m.key} : Same(x)
  <2>1. m.key \in Keys /\ UNCHANGED outbound /\ UNCHANGED handled
    BY <1>1, KeyTypes DEF relayVars
  <2> QED BY <1>2, <1>3, <2>1, OthersStill
<1>5. Backed(m.key)
  BY DEF Receive, Backed, Queued
<1>6. Backed(m.key)'
  BY <1>5, ReceiveBacks, KeyTypes
<1>7. Queued("dead", m.key) => Queued("dead", m.key)'
  BY <1>1 DEF Queued
<1> QED BY <1>1, <1>4, <1>5, <1>6, <1>7 DEF About, Grown

LEMMA HandleAbout ==
  ASSUME TypeOK, TypeOK', NEW w \in Workers, HandleResolves(w) \/ HandleRejects(w),
         UNCHANGED relayVars
  PROVE  About(wmsg[w].key)
<1> USE DEF TypeOK, ConsumerTypeOK
<1> DEFINE k == wmsg[w].key
<1>0. k \in Keys /\ UNCHANGED <<queue, outbound, wmsg>>
  BY KeyTypes DEF HandleResolves, HandleRejects, relayVars
<1>1. Answers(w, k)
  BY DEF HandleResolves, HandleRejects, Answers
<1>2. wpc' = [wpc EXCEPT ![w] = wpc'[w]]
  BY DEF HandleResolves, HandleRejects
<1>3. /\ \A x \in Events \ {k} : handled'[x] = handled[x]
      /\ handled[k] > 0 => handled'[k] > 0
  <2>1. CASE HandleResolves(w)
    BY <2>1, <1>0, KeyTypes DEF HandleResolves
  <2>2. CASE HandleRejects(w)
    BY <2>2, <1>0 DEF HandleRejects
  <2> QED BY <2>1, <2>2
<1>4. \A x \in Events \ {k} : \A v \in Workers : Answers(v, x)' <=> Answers(v, x)
  BY <1>0, <1>2 DEF Answers
<1>5. \A x \in Events \ {k} : Same(x)
  BY <1>0, <1>3, <1>4, OthersStill
<1>6. Backed(k)
  BY <1>1 DEF Backed
<1>7. Backed(k)'
  <2>1. CASE HandleResolves(w)
    BY <2>1, <1>0 DEF HandleResolves, Backed
  <2>2. CASE HandleRejects(w)
    <3>1. wpc'[w] \in {"retry", "dead"}
      BY <2>2 DEF HandleRejects, AfterFailure
    <3> QED BY <3>1, <1>0 DEF Answers, Backed
  <2> QED BY <2>1, <2>2
<1>8. Queued("dead", k) => Queued("dead", k)'
  BY <1>0 DEF Queued
<1> QED BY <1>3, <1>5, <1>6, <1>7, <1>8 DEF About, Grown

(* Both copies of a failed message: to a retry queue and to the dead one.  *)
LEMMA SendAbout ==
  ASSUME TypeOK, TypeOK', NEW w \in Workers, SendToRetry(w) \/ SendToDead(w),
         UNCHANGED relayVars
  PROVE  About(wmsg[w].key)
<1> USE DEF TypeOK, ConsumerTypeOK, BrokerTypeOK, QueueName
<1> DEFINE k == wmsg[w].key
<1>0. k \in Keys /\ wmsg[w] \in Message /\ UNCHANGED <<outbound, wmsg, handled>>
  BY KeyTypes DEF SendToRetry, SendToDead, relayVars
<1>1. Answers(w, k)
  BY DEF SendToRetry, SendToDead, Answers
<1>2. wpc' = [wpc EXCEPT ![w] = "ack"]
  BY DEF SendToRetry, SendToDead
<1>3. PICK q \in Message, n \in {"retry", "dead"} :
        /\ q.key = k
        /\ queue'[n] = Put(queue[n], q)
        /\ \A j \in {"main", "retry", "dead"} : j # n => queue'[j] = queue[j]
  <2>1. CASE SendToRetry(w)
    <3> DEFINE q == [wmsg[w] EXCEPT !.retry = @ + 1]
    <3>0. wmsg[w].retry < MaxRetries
      BY <2>1 DEF SendToRetry
    <3>1. q \in Message /\ q.key = k
      BY <3>0, <1>0 DEF Message
    <3>2. /\ queue'["retry"] = Put(queue["retry"], q)
          /\ queue'["main"] = queue["main"]
          /\ queue'["dead"] = queue["dead"]
      BY <2>1 DEF SendToRetry
    <3> HIDE DEF q
    <3> QED BY <3>1, <3>2
  <2>2. CASE SendToDead(w)
    <3>1. /\ queue'["dead"] = Put(queue["dead"], wmsg[w])
          /\ queue'["main"] = queue["main"]
          /\ queue'["retry"] = queue["retry"]
      BY <2>2 DEF SendToDead, Publish, Bound
    <3> QED BY <3>1, <1>0
  <2> QED BY <2>1, <2>2
<1>4. /\ queue'[n][q] > 0
      /\ \A j \in {"main", "retry", "dead"}, m \in Message :
            /\ m # q => queue'[j][m] = queue[j][m]
            /\ queue[j][m] > 0 => queue'[j][m] > 0
  BY <1>3 DEF Put
<1>5. \A x \in Events \ {k} : \A v \in Workers : Answers(v, x)' <=> Answers(v, x)
  BY <1>0, <1>2 DEF Answers
<1>6. \A x \in Events \ {k} : Same(x)
  BY <1>0, <1>3, <1>4, <1>5, OthersStill
<1>7. Backed(k) /\ Backed(k)'
  <2>1. Queued(n, k)'
    BY <1>0, <1>3, <1>4 DEF Queued
  <2> QED BY <1>1, <2>1 DEF Backed
<1>8. Queued("dead", k) => Queued("dead", k)'
  BY <1>0, <1>4 DEF Queued
<1> QED BY <1>0, <1>6, <1>7, <1>8 DEF About, Grown

LEMMA MarkAbout ==
  ASSUME TypeOK, TypeOK', BackingInv, NEW w \in Workers, MarkProcessed(w),
         UNCHANGED relayVars
  PROVE  About(wmsg[w].key)
<1> USE DEF TypeOK, ConsumerTypeOK
<1> DEFINE k == wmsg[w].key
<1>0. k \in Keys /\ UNCHANGED <<queue, outbound, wmsg, handled>>
  BY KeyTypes DEF MarkProcessed, relayVars
<1>1. handled[k] > 0
  BY DEF MarkProcessed, BackingInv
<1>2. \A x \in Events \ {k} : \A v \in Workers : Answers(v, x)' <=> Answers(v, x)
  BY <1>0 DEF MarkProcessed, Answers
<1>3. \A x \in Events \ {k} : Same(x)
  BY <1>0, <1>2, OthersStill
<1> QED BY <1>0, <1>1, <1>3 DEF About, Grown, Backed, Queued

LEMMA ConsumerAbout ==
  ASSUME TypeOK, TypeOK', BackingInv, ConsumerStep
  PROVE  Silent \/ \E k \in Keys : About(k)
<1>0. UNCHANGED relayVars
  BY DEF ConsumerStep
<1>1. ASSUME NEW w \in Workers, NEW m \in Message, Receive(w, m)
      PROVE  \E k \in Keys : About(k)
  BY <1>0, <1>1, ReceiveAbout, KeyTypes
<1>2. ASSUME NEW w \in Workers, HandleResolves(w) \/ HandleRejects(w)
      PROVE  \E k \in Keys : About(k)
  BY <1>0, <1>2, HandleAbout, KeyTypes DEF HandleResolves, HandleRejects
<1>3. ASSUME NEW w \in Workers, SendToRetry(w) \/ SendToDead(w)
      PROVE  \E k \in Keys : About(k)
  BY <1>0, <1>3, SendAbout, KeyTypes DEF SendToRetry, SendToDead
<1>4. ASSUME UNCHANGED <<queue, handled>>,
             \A w \in Workers, x \in Events : Answers(w, x)' <=> Answers(w, x)
      PROVE  Silent
  BY <1>0, <1>4, StillIsSame DEF Still, Silent, relayVars
<1>5. ASSUME NEW w \in Workers, Ack(w)
      PROVE  Silent
  <2>1. \A v \in Workers, x \in Events : Answers(v, x)' <=> Answers(v, x)
    BY <1>5 DEF Ack, Answers, TypeOK, ConsumerTypeOK
  <2> QED BY <1>5, <2>1, <1>4 DEF Ack
<1>6. ASSUME NEW k \in Keys, ForgetKey(k)
      PROVE  Silent
  BY <1>6, <1>4 DEF ForgetKey, Answers
<1>7. ASSUME NEW w \in Workers, MarkProcessed(w)
      PROVE  \E k \in Keys : About(k)
  BY <1>0, <1>7, MarkAbout, KeyTypes DEF MarkProcessed
<1> QED BY <1>1, <1>2, <1>3, <1>5, <1>6, <1>7 DEF ConsumerStep

-----------------------------------------------------------------------------
(* Dead letters, the relay and a crash.                                    *)

(* A replay has a key of its own.                                          *)
LEMMA DeadLetterSilent ==
  ASSUME TypeOK, TypeOK', DeadLetterStep
  PROVE  Silent
<1> USE DEF TypeOK, BrokerTypeOK, QueueName
<1>0. UNCHANGED <<outbound, handled, wpc, wmsg>>
  BY DEF DeadLetterStep, relayVars, consumerVars
<1>1. ASSUME \A n \in {"main", "retry", "dead"}, m \in Message :
                m.key \in Events => queue'[n][m] = queue[n][m]
      PROVE  Silent
  BY <1>0, <1>1, StillIsSame DEF Still, Silent, Answers
<1>2. ASSUME NEW o \in Operators, ReplayPublish(o)
      PROVE  Silent
  <2> DEFINE r == replaying[o].row
             q == [event |-> deadRow[r].event, key |-> r, retry |-> 0]
  <2>1. r \in DeadRows
    BY <1>2 DEF ReplayPublish, DeadTypeOK, RowExists
  <2>2. \A m \in Message : m.key \in Events => m # q
    <3>1. q.key \notin Events
      BY <2>1
    <3> QED BY <3>1
  <2>3. \A n \in QueueName, m \in Message : m # q => queue'[n][m] = queue[n][m]
    BY <1>2 DEF ReplayPublish, Publish, Put
  <2> QED BY <2>2, <2>3, <1>1
<1>3. ASSUME NEW d \in DeadSlots, NEW m \in Message, DeadReceive(d, m)
      PROVE  Silent
  BY <1>3, <1>1 DEF DeadReceive
<1>4. CASE UNCHANGED queue
  BY <1>4, <1>1
<1> QED
  BY <1>2, <1>3, <1>4
  DEF DeadLetterStep, DeadSave, DeadAck, ReplayRead, ReplayMark, ReplayDies

LEMMA FlushAbout ==
  ASSUME TypeOK, TypeOK', NEW e \in Events, Flush(e), UNCHANGED consumerVars
  PROVE  About(e)
<1> DEFINE m == [event |-> e, key |-> e, retry |-> 0]
<1>0. UNCHANGED <<handled, wpc, wmsg>> /\ e \in Keys
  BY KeyTypes DEF consumerVars
<1>1. m \in Message
  BY DEF Message, Keys
<1> USE DEF TypeOK, BrokerTypeOK, QueueName
<1>2. /\ queue'["main"] = Put(queue["main"], m)
      /\ queue'["retry"] = queue["retry"]
      /\ queue'["dead"] = queue["dead"]
  BY DEF Flush, Publish, Bound
<1>3. \A n \in {"main", "retry", "dead"}, q \in Message : q.key # e => queue'[n][q] = queue[n][q]
  BY <1>1, <1>2 DEF Put
<1>4. \A x \in Events \ {e} : outbound'[x] = outbound[x]
  BY DEF Flush, RelayTypeOK
<1>5. \A x \in Events \ {e} : Same(x)
  BY <1>0, <1>3, <1>4, StillIsSame DEF Still, Answers
<1>6. Backed(e)
  BY DEF Flush, Backed
<1>7. Backed(e)'
  BY <1>0, <1>6, FlushBacks
<1>8. Queued("dead", e) => Queued("dead", e)'
  BY <1>2 DEF Queued
<1> QED BY <1>0, <1>5, <1>6, <1>7, <1>8 DEF About, Grown

LEMMA RelaySilent ==
  ASSUME TypeOK, UNCHANGED <<queue, outbound, consumerVars>>
  PROVE  Silent
BY StillIsSame DEF Silent, Still, Answers, consumerVars

LEMMA TickPublishSame ==
  ASSUME TypeOK, NEW t \in Ticks, NEW e \in Events, TickPublish(t, e), UNCHANGED consumerVars
  PROVE  /\ \A x \in Events \ {e} : Same(x)
         /\ handled'[e] = handled[e]
         /\ Queued("dead", e)' <=> Queued("dead", e)
<1>1. \A x \in Events \ {e} : outbound'[x] = outbound[x]
  BY DEF TickPublish, TypeOK, RelayTypeOK
<1>2. UNCHANGED <<queue, handled, wpc, wmsg>>
  BY DEF TickPublish, consumerVars
<1> QED BY <1>1, <1>2, StillIsSame DEF Still, Answers, Queued

(* What a crash makes the broker deliver again was backed before.          *)
LEMMA CrashBacksNothing ==
  ASSUME TypeOK, TypeOK', BackingInv, Crash, NEW e \in Events, ~Backed(e)
  PROVE  ~Backed(e)'
<1> USE DEF TypeOK, BrokerTypeOK, ConsumerTypeOK, RelayTypeOK
<1>1. \A w \in Workers : wmsg[w] \in Message => wmsg[w].key # e
  <2> SUFFICES ASSUME NEW w \in Workers, wmsg[w] \in Message, wmsg[w].key = e
               PROVE  FALSE
    OBVIOUS
  <2>1. wpc[w] \in {"handle", "mark", "retry", "dead", "ack"}
    BY DEF WorkerPC
  <2> QED BY <2>1 DEF BackingInv, Backed, Answers
<1>2. ASSUME NEW m \in Message, m.key = e
      PROVE  \A n \in {"main", "retry", "dead"} : queue'[n][m] = queue[n][m]
  <2>1. {w \in Workers : wmsg[w] = m} = {}
    BY <1>1, <1>2
  <2>2. Cardinality({w \in Workers : wmsg[w] = m}) = 0
    BY <2>1, FS_EmptySet
  <2>3. queue'["main"][m] = queue["main"][m] + Cardinality({w \in Workers : wmsg[w] = m})
    BY DEF Crash, UnackedRequeued, QueueName
  <2>4. queue["main"][m] \in Nat
    BY DEF QueueName
  <2> QED BY <2>2, <2>3, <2>4 DEF Crash, QueueName
<1>3. \A w \in Workers : ~Answers(w, e)'
  BY DEF Crash, WorkersStop, Answers
<1>4. outbound'[e] = 0 /\ handled' = handled
  BY DEF Crash, WorkersStop
<1>5. \A n \in {"main", "retry", "dead"} : ~Queued(n, e)'
  BY <1>2 DEF Backed, Queued
<1> QED BY <1>3, <1>4, <1>5 DEF Backed

-----------------------------------------------------------------------------
(* The invariant.                                                          *)

LEMMA InitLifecycle == Init => LifecycleInv
<1> SUFFICES ASSUME Init
             PROVE  LifecycleInv
  OBVIOUS
<1>1. LocksInv
  BY DEF Init, RelayInit, LocksInv
<1>2. UnrecordedInv
  BY DEF Init, BrokerInit, RelayInit, ConsumerInit, UnrecordedInv, Backed, Queued, Answers,
         EmptyQueue, QueueName, Keys
<1> QED BY <1>1, <1>2 DEF LifecycleInv

LEMMA RelayStepLocks ==
  ASSUME TypeOK, LocksInv, RelayStep
  PROVE  LocksInv'
<1> USE DEF TypeOK, RelayTypeOK, LocksInv
<1>1. ASSUME NEW e \in Events, Record(e)
      PROVE  LocksInv'
  BY <1>1 DEF Record
<1>2. ASSUME NEW e \in Events, Flush(e)
      PROVE  LocksInv'
  BY <1>2 DEF Flush
<1>3. ASSUME NEW t \in Ticks, TickStart(t)
      PROVE  LocksInv'
  <2>1. PICK b \in SUBSET Selectable : todo' = [todo EXCEPT ![t] = b]
    BY <1>3 DEF TickStart, Batches
  <2>2. \A e \in b : row[e] = "pending" /\ \A u \in Ticks : e \notin todo[u] \cup done[u]
    BY <2>1 DEF Selectable, Locked
  <2>3. UNCHANGED <<row, done>> /\ done[t] = {}
    BY <1>3 DEF TickStart, Open
  <2> QED BY <2>1, <2>2, <2>3
<1>4. ASSUME NEW t \in Ticks, TickCommit(t)
      PROVE  LocksInv'
  <2>1. \A u \in Ticks : u # t => (todo'[u] \cup done'[u]) \cap done[t] = {}
    BY <1>4 DEF TickCommit
  <2>2. todo'[t] \cup done'[t] = {}
    BY <1>4 DEF TickCommit
  <2> QED BY <1>4, <2>1, <2>2 DEF TickCommit
<1>5. ASSUME NEW t \in Ticks, TickAbort(t)
      PROVE  LocksInv'
  BY <1>5 DEF TickAbort
<1>6. ASSUME NEW t \in Ticks, NEW e \in Events, TickPublish(t, e)
      PROVE  LocksInv'
  <2>1. \A u \in Ticks : todo'[u] \cup done'[u] = todo[u] \cup done[u]
    BY <1>6 DEF TickPublish
  <2> QED BY <1>6, <2>1 DEF TickPublish
<1> QED BY <1>1, <1>2, <1>3, <1>4, <1>5, <1>6 DEF RelayStep

LEMMA RelayStepUnrecorded ==
  ASSUME TypeOK, TypeOK', LifecycleInv, RelayStep
  PROVE  UnrecordedInv'
<1> USE DEF TypeOK, RelayTypeOK, LifecycleInv, UnrecordedInv
<1>0. UNCHANGED consumerVars
  BY DEF RelayStep
<1>1. \A e \in Events : row'[e] = "none" => row[e] = "none"
  BY DEF RelayStep, Record, Flush, TickStart, TickCommit, TickAbort, TickPublish
<1>2. ASSUME NEW e \in Events, Flush(e)
      PROVE  UnrecordedInv'
  BY <1>0, <1>1, <1>2, FlushAbout DEF About, Grown, Same
<1>3. ASSUME NEW t \in Ticks, NEW e \in Events, TickPublish(t, e)
      PROVE  UnrecordedInv'
  <2>1. row[e] = "pending" /\ row' = row
    BY <1>3 DEF TickPublish, LocksInv
  <2> QED BY <1>0, <1>3, <2>1, TickPublishSame DEF Same
<1>4. CASE UNCHANGED <<queue, outbound>>
  BY <1>0, <1>1, <1>4, RelaySilent DEF Silent, Same
<1> QED
  BY <1>2, <1>3, <1>4 DEF RelayStep, Record, TickStart, TickCommit, TickAbort

LEMMA NextLifecycle ==
  ASSUME TypeOK, TypeOK', BackingInv, LifecycleInv, [Next]_vars
  PROVE  LifecycleInv'
<1> USE DEF LifecycleInv
<1>1. CASE RelayStep
  BY <1>1, RelayStepLocks, RelayStepUnrecorded
<1>2. ASSUME UNCHANGED relayVars, Silent \/ \E k \in Keys : About(k)
      PROVE  LifecycleInv'
  <2>1. LocksInv'
    BY <1>2 DEF LocksInv, relayVars
  <2>2. UnrecordedInv'
    BY <1>2 DEF UnrecordedInv, relayVars, Silent, About, Grown, Same
  <2> QED BY <2>1, <2>2
<1>3. CASE BrokerStep
  BY <1>2, <1>3, RetryExpireAbout DEF BrokerStep
<1>4. CASE ConsumerStep
  BY <1>2, <1>4, ConsumerAbout DEF ConsumerStep
<1>5. CASE DeadLetterStep
  BY <1>2, <1>5, DeadLetterSilent DEF DeadLetterStep
<1>6. CASE Crash
  <2>1. LocksInv'
    BY <1>6 DEF Crash, LocksInv
  <2>2. row' = row
    BY <1>6 DEF Crash
  <2> QED BY <1>6, <2>1, <2>2, CrashBacksNothing DEF UnrecordedInv
<1>7. CASE UNCHANGED vars
  BY <1>7 DEF vars, relayVars, consumerVars, LocksInv, UnrecordedInv, Backed, Queued, Answers
<1> QED BY <1>1, <1>3, <1>4, <1>5, <1>6, <1>7 DEF Next

-----------------------------------------------------------------------------
(* The phases.                                                             *)

LEMMA SamePhase ==
  ASSUME NEW x \in Events, Same(x), row'[x] = row[x], dropped' = dropped
  PROVE  Phase(x)' = Phase(x)
BY DEF Same, Phase

Forward(x) ==
    \/ Phase(x) = "recorded" /\ Phase(x)' \in {"handled", "dead"}
    \/ Phase(x) = "dead" /\ Phase(x)' = "handled"

LEMMA GrownPhase ==
  ASSUME NEW x \in Events, Grown(x), row'[x] = row[x], row[x] # "none"
  PROVE  Phase(x)' = Phase(x) \/ Forward(x)
BY DEF Grown, Phase, Forward

(* What EventLifecycle makes of an event that goes forward.                *)
LEMMA ForwardStep ==
  ASSUME NEW e \in Events, Forward(e), \A x \in Events \ {e} : Phase(x)' = Phase(x)
  PROVE  Lifecycle!Next
<1>1. [x \in Events |-> Phase(x)]' = [[x \in Events |-> Phase(x)] EXCEPT ![e] = Phase(e)']
  OBVIOUS
<1>2. CASE Phase(e) = "recorded" /\ Phase(e)' \in {"handled", "dead"}
  BY <1>1, <1>2 DEF Lifecycle!Next, Lifecycle!Resolve, Lifecycle!Move
<1>3. CASE Phase(e) = "dead" /\ Phase(e)' = "handled"
  BY <1>1, <1>3 DEF Lifecycle!Next, Lifecycle!LateCopy, Lifecycle!Move
<1> QED BY <1>2, <1>3 DEF Forward

LEMMA AboutStep ==
  ASSUME LifecycleInv, UNCHANGED <<row, dropped>>, NEW k \in Keys, About(k)
  PROVE  \/ Lifecycle!Next
         \/ UNCHANGED [e \in Events |-> Phase(e)]
<1>1. \A x \in Events \ {k} : Phase(x)' = Phase(x)
  BY SamePhase DEF About
<1>2. CASE k \notin Events
  BY <1>1, <1>2
<1>3. CASE k \in Events
  <2>1. row[k] # "none"
    BY <1>3 DEF About, Grown, LifecycleInv, UnrecordedInv
  <2>2. Phase(k)' = Phase(k) \/ Forward(k)
    BY <1>3, <2>1, GrownPhase DEF About
  <2> QED BY <1>1, <1>3, <2>2, ForwardStep
<1> QED BY <1>2, <1>3

LEMMA SilentStep ==
  ASSUME UNCHANGED <<row, dropped>>, Silent
  PROVE  UNCHANGED [e \in Events |-> Phase(e)]
BY SamePhase DEF Silent

LEMMA RelayStepImplements ==
  ASSUME TypeOK, TypeOK', BackingInv, LifecycleInv, RelayStep
  PROVE  \/ Lifecycle!Next
         \/ UNCHANGED [e \in Events |-> Phase(e)]
<1> USE DEF TypeOK, RelayTypeOK
<1>0. UNCHANGED consumerVars /\ dropped' = dropped
  BY DEF RelayStep
<1>1. ASSUME NEW e \in Events, Record(e)
      PROVE  Lifecycle!Next
  <2>1. \A x \in Events : Same(x)
    BY <1>0, <1>1, RelaySilent DEF Record, Silent
  <2>2. \A x \in Events \ {e} : Phase(x)' = Phase(x)
    BY <1>0, <1>1, <2>1, SamePhase DEF Record
  <2>3. handled[e] \in Nat /\ ~(handled[e] > 0) /\ ~Queued("dead", e)
    BY <1>1 DEF Record, LifecycleInv, UnrecordedInv, Backed, ConsumerTypeOK, Keys
  <2>4. row[e] = "none" /\ row'[e] = "pending"
    BY <1>1 DEF Record
  <2>5. Phase(e) = "none" /\ Phase(e)' = "recorded"
    BY <2>1, <2>3, <2>4 DEF Same, Phase
  <2>6. [x \in Events |-> Phase(x)]' = [[x \in Events |-> Phase(x)] EXCEPT ![e] = "recorded"]
    BY <2>2, <2>5
  <2> QED BY <2>5, <2>6 DEF Lifecycle!Next, Lifecycle!Accept, Lifecycle!Move
<1>2. ASSUME NEW e \in Events, Flush(e)
      PROVE  \/ Lifecycle!Next
             \/ UNCHANGED [x \in Events |-> Phase(x)]
  <2>1. About(e) /\ e \in Keys
    BY <1>0, <1>2, FlushAbout, KeyTypes
  <2> QED BY <1>0, <1>2, <2>1, AboutStep DEF Flush
<1>3. ASSUME NEW t \in Ticks, NEW e \in Events, TickPublish(t, e)
      PROVE  UNCHANGED [x \in Events |-> Phase(x)]
  <2>1. \A x \in Events \ {e} : Phase(x)' = Phase(x)
    BY <1>0, <1>3, TickPublishSame, SamePhase DEF TickPublish
  <2>2. row[e] = "pending" /\ row'[e] = "pending"
    BY <1>3 DEF TickPublish, LifecycleInv, LocksInv
  <2>3. handled'[e] = handled[e] /\ (Queued("dead", e)' <=> Queued("dead", e))
    BY <1>0, <1>3, TickPublishSame
  <2>4. Phase(e)' = Phase(e)
    BY <2>2, <2>3 DEF Phase
  <2> QED BY <2>1, <2>4
<1>4. ASSUME NEW t \in Ticks, TickCommit(t)
      PROVE  UNCHANGED [x \in Events |-> Phase(x)]
  <2>1. \A x \in Events : Same(x)
    BY <1>0, <1>4, RelaySilent DEF TickCommit, Silent
  <2>2. \A x \in Events \ done[t] : Phase(x)' = Phase(x)
    BY <1>0, <1>4, <2>1, SamePhase DEF TickCommit
  <2>3. ASSUME NEW x \in done[t]
        PROVE  Phase(x)' = Phase(x)
    <3>1. x \in Events /\ row[x] = "pending" /\ row'[x] = "published"
      BY <1>4 DEF TickCommit, LifecycleInv, LocksInv
    <3>2. Backed(x)
      BY DEF BackingInv
    <3> QED BY <2>1, <3>1, <3>2 DEF Same, Phase
  <2> QED BY <2>2, <2>3
<1>5. ASSUME NEW t \in Ticks, TickStart(t) \/ TickAbort(t)
      PROVE  UNCHANGED [x \in Events |-> Phase(x)]
  <2>1. UNCHANGED <<row, queue, outbound>>
    BY <1>5 DEF TickStart, TickAbort
  <2>2. Silent
    BY <1>0, <2>1, RelaySilent
  <2> QED BY <1>0, <2>1, <2>2, SilentStep
<1> QED BY <1>1, <1>2, <1>3, <1>4, <1>5 DEF RelayStep

LEMMA CrashImplements ==
  ASSUME TypeOK, TypeOK', BackingInv, Crash
  PROVE  Lifecycle!Next
<1>1. /\ UNCHANGED <<row, handled>>
      /\ dropped \subseteq dropped'
      /\ \A x \in Events : Queued("dead", x)' <=> Queued("dead", x)
  BY DEF Crash, WorkersStop, Queued, TypeOK, BrokerTypeOK, QueueName
<1>2. ASSUME NEW x \in Events
      PROVE  \/ Phase(x)' = Phase(x)
             \/ Phase(x) = "recorded" /\ Phase(x)' = "dropped"
  <2>1. ~Backed(x) => ~Backed(x)'
    BY CrashBacksNothing
  <2> QED BY <1>1, <2>1 DEF Phase
<1> DEFINE lost == {x \in Events : Phase(x)' # Phase(x)}
<1>3. /\ \A x \in lost : Phase(x) = "recorded"
      /\ [x \in Events |-> Phase(x)]'
           = [x \in Events |-> IF x \in lost THEN "dropped" ELSE Phase(x)]
  BY <1>2
<1>4. lost \in SUBSET Events
  OBVIOUS
<1> QED BY <1>3, <1>4 DEF Lifecycle!Next, Lifecycle!Drop

LEMMA InitImplements == Init => Lifecycle!Init
BY DEF Init, RelayInit, Lifecycle!Init, Phase

LEMMA NextImplements ==
  ASSUME TypeOK, TypeOK', BackingInv, LifecycleInv, [Next]_vars
  PROVE  [Lifecycle!Next]_([e \in Events |-> Phase(e)])
<1>1. CASE RelayStep
  BY <1>1, RelayStepImplements
<1>2. CASE BrokerStep
  BY <1>2, RetryExpireAbout, AboutStep DEF BrokerStep, relayVars
<1>3. CASE ConsumerStep
  BY <1>3, ConsumerAbout, AboutStep, SilentStep DEF ConsumerStep, relayVars
<1>4. CASE DeadLetterStep
  BY <1>4, DeadLetterSilent, SilentStep DEF DeadLetterStep, relayVars
<1>5. CASE Crash
  BY <1>5, CrashImplements
<1>6. CASE UNCHANGED vars
  BY <1>6 DEF vars, relayVars, consumerVars, Phase, Backed, Queued, Answers
<1> QED BY <1>1, <1>2, <1>3, <1>4, <1>5, <1>6 DEF Next

(* The pipeline implements EventLifecycle: no event does anything before   *)
(* its transaction committed, a handled one stays handled whatever copies  *)
(* of it fail later, a dead one can only still be handled, and a crash can *)
(* drop only what was neither (outbox-relay.ts tick, consumer.ts           *)
(* processMessage).                                                        *)
THEOREM PipelineImplementsLifecycle == Spec => ImplementsLifecycle
<1>1. Init => BackingInv /\ LifecycleInv
  BY InitBacking, InitLifecycle
<1>2. TypeOK /\ TypeOK' /\ BackingInv /\ LifecycleInv /\ [Next]_vars
        => BackingInv' /\ LifecycleInv'
  BY NextBacking, NextLifecycle, WorkersAssumption, DeadSlotsAssumption
<1>3. TypeOK /\ TypeOK' /\ BackingInv /\ LifecycleInv /\ [Next]_vars
        => [Lifecycle!Next]_([e \in Events |-> Phase(e)])
  BY NextImplements
<1>4. Init => Lifecycle!Init
  BY InitImplements
<1> QED
  BY <1>1, <1>2, <1>3, <1>4, TypeCorrect, PTL DEF Spec, ImplementsLifecycle, Lifecycle!Spec
=============================================================================

---------------------------- MODULE EventDelivery ----------------------------
(***************************************************************************)
(* The event pipeline: command handlers record events in the outbox, the   *)
(* relay publishes them, the broker delivers them to a consumer with       *)
(* staged retries, and what cannot be handled ends in the dead letters,    *)
(* from where an operator can replay it.  The relay and both consumers run *)
(* in one process (infra/queue/app.ts) and share one channel.              *)
(***************************************************************************)
EXTENDS OutboxRelay, QueueConsumer, DeadLetters

CONSTANT MaxCrashes   \* bound: crashes of the queue process

ASSUME MaxCrashesAssumption == MaxCrashes \in Nat

VARIABLES crashes,    \* crashes of the queue process so far
          dropped     \* history: events a crash dropped from `outbound`

vars == <<queue, relayVars, consumerVars, deadVars, crashes, dropped>>

TypeOK ==
    /\ BrokerTypeOK
    /\ RelayTypeOK
    /\ ConsumerTypeOK
    /\ DeadTypeOK
    /\ crashes \in Nat
    /\ dropped \subseteq Events

Init ==
    /\ BrokerInit
    /\ RelayInit
    /\ ConsumerInit
    /\ DeadInit
    /\ crashes = 0
    /\ dropped = {}

-----------------------------------------------------------------------------

(* The queue process stops and starts again: its connection closes, so the *)
(* broker requeues every unacknowledged message, the database rolls open   *)
(* transactions back, buffered frames are gone.  A lost connection is the  *)
(* same event: nothing listens for it or reconnects, and the next frame on *)
(* the dead channel throws.                                                *)
Crash ==
    /\ crashes < MaxCrashes
    /\ crashes' = crashes + 1
    /\ dropped' = dropped \cup {e \in Events : outbound[e] > 0}
    /\ outbound' = [e \in Events |-> 0]
    /\ todo' = [t \in Ticks |-> {}]
    /\ done' = [t \in Ticks |-> {}]
    /\ queue' = [queue EXCEPT !["main"] = UnackedRequeued(@),
                              !["deadLetters"] = DeadUnackedRequeued(@)]
    /\ WorkersStop
    /\ DeadConsumerStops
    /\ UNCHANGED <<row, aborts>>

RelayStep ==
    /\ \/ \E e \in Events : Record(e) \/ Flush(e)
       \/ \E t \in Ticks : \/ TickStart(t)
                           \/ TickCommit(t)
                           \/ TickAbort(t)
                           \/ \E e \in Events : TickPublish(t, e)
    /\ UNCHANGED <<consumerVars, deadVars, crashes, dropped>>

BrokerStep ==
    /\ \E m \in Message : RetryExpire(m)
    /\ UNCHANGED <<relayVars, consumerVars, deadVars, crashes, dropped>>

ConsumerStep ==
    /\ \/ \E w \in Workers :
            \/ \E m \in Message : Receive(w, m)
            \/ HandleResolves(w)
            \/ HandleRejects(w)
            \/ MarkProcessed(w)
            \/ SendToRetry(w)
            \/ SendToDead(w)
            \/ Ack(w)
       \/ \E k \in Keys : ForgetKey(k)
    /\ UNCHANGED <<relayVars, deadVars, crashes, dropped>>

DeadLetterStep ==
    /\ \/ \E d \in DeadSlots : \/ \E m \in Message : DeadReceive(d, m)
                               \/ DeadSave(d)
                               \/ DeadAck(d)
       \/ \E o \in Operators : \/ \E r \in DeadRows : ReplayRead(o, r)
                               \/ ReplayPublish(o)
                               \/ ReplayMark(o)
                               \/ ReplayDies(o)
    /\ UNCHANGED <<relayVars, consumerVars, crashes, dropped>>

Next == RelayStep \/ BrokerStep \/ ConsumerStep \/ DeadLetterStep \/ Crash

Spec == Init /\ [][Next]_vars

(* The relay's timer keeps firing and its transactions keep running, the   *)
(* socket drains, the broker delivers and expires, and every call of       *)
(* handle settles.  Nothing obliges a command to record an event, a fault  *)
(* to happen, or the dead-letter side to work.                             *)
Fairness ==
    /\ \A t \in Ticks :
         WF_vars(/\ TickStart(t) \/ TickCommit(t) \/ \E e \in Events : TickPublish(t, e)
                 /\ UNCHANGED <<consumerVars, deadVars, crashes, dropped>>)
    /\ \A e \in Events :
         WF_vars(Flush(e) /\ UNCHANGED <<consumerVars, deadVars, crashes, dropped>>)
    /\ \A m \in Message :
         /\ WF_vars(/\ RetryExpire(m)
                    /\ UNCHANGED <<relayVars, consumerVars, deadVars, crashes, dropped>>)
         /\ WF_vars(/\ \E w \in Workers : Receive(w, m)
                    /\ UNCHANGED <<relayVars, deadVars, crashes, dropped>>)
    /\ \A w \in Workers :
         WF_vars(/\ \/ HandleResolves(w) \/ HandleRejects(w) \/ MarkProcessed(w)
                    \/ SendToRetry(w) \/ SendToDead(w) \/ Ack(w)
                 /\ UNCHANGED <<relayVars, deadVars, crashes, dropped>>)

FairSpec == Spec /\ Fairness

-----------------------------------------------------------------------------

(* A call that still answers for its message: until its frames have left,  *)
(* only the message it holds (or the effect of handle) is left of it.      *)
Answers(w, k) ==
    /\ wpc[w] \in {"handle", "mark", "retry", "dead"}
    /\ wmsg[w].key = k

Queued(n, k) == \E m \in Message : m.key = k /\ queue[n][m] > 0

(* Some trace of the publish under key k is left: its effect happened, or  *)
(* a copy of it is on its way or in <queue>.dead.                          *)
Backed(k) ==
    \/ handled[k] > 0
    \/ k \in Events /\ outbound[k] > 0
    \/ \E n \in {"main", "retry", "dead"} : Queued(n, k)
    \/ \E w \in Workers : Answers(w, k)

(* Once its row says published, an event is handled, on its way or dead,   *)
(* whatever ticks, retries, duplicates and crashes interleave: the only    *)
(* way to lose it is a crash with its frame still in the write buffer.     *)
NothingVanishes ==
    \A e \in Events :
        row[e] = "published" => Backed(e) \/ e \in dropped

SlotCount == Cardinality(Workers)

(* The idempotency check is not atomic with the handler, so duplicates are *)
(* handled again; but with a working cache at most once per delivery slot  *)
(* and run of the process (consumer.ts isAlreadyProcessed, markProcessed). *)
RepeatsBounded ==
    ~CacheMayFail =>
        \A k \in Keys : handled[k] <= SlotCount * (1 + crashes)

(* The inductive form of NothingVanishes.  Rows still locked by the tick   *)
(* that published them count too, an acknowledgement leaves only for what  *)
(* is backed by something else, and only handled keys are remembered.      *)
BackingInv ==
    /\ \A k \in processed : handled[k] > 0
    /\ \A w \in Workers :
        /\ wpc[w] = "mark" => handled[wmsg[w].key] > 0
        /\ wpc[w] = "ack" => Backed(wmsg[w].key)
    /\ \A t \in Ticks : \A e \in done[t] : Backed(e)
    /\ NothingVanishes

(* The delivery slots in which a call for key k is at point pc.            *)
At(pc, k) == {w \in Workers : wpc[w] = pc /\ wmsg[w].key = k}

Handling(k) == Cardinality(At("handle", k))

Marking(k) == Cardinality(At("mark", k))

(* The inductive form of RepeatsBounded: until a key is remembered every   *)
(* completed handle of this run of the process is still at "mark", and     *)
(* from then on no call passes the check.                                  *)
RepeatsOf(k) ==
    IF k \in processed
    THEN handled[k] + Handling(k) <= SlotCount * crashes + SlotCount
    ELSE handled[k] <= SlotCount * crashes + Marking(k)

RepeatsInv == ~CacheMayFail => \A k \in Keys : RepeatsOf(k)

Exhausted(m) ==
    m.event \notin Unparseable => m.retry = MaxRetries /\ failures[m.key] > MaxRetries

(* A message that parses is given up only after MaxRetries retries, and    *)
(* its handler really rejected that often and once more: neither a crash   *)
(* nor a duplicate uses up an attempt (consumer.ts handleFailure).         *)
DeadMeansExhausted == \A m \in Message : queue["dead"][m] > 0 => Exhausted(m)

Attempted(m) == failures[m.key] >= m.retry

(* The inductive form of DeadMeansExhausted: each copy's retry count has   *)
(* its rejections behind it, and one more when it is on its way out.       *)
AttemptsInv ==
    /\ \A n \in {"main", "retry"}, m \in Message : queue[n][m] > 0 => Attempted(m)
    /\ \A w \in Workers :
          /\ wpc[w] # "idle" => Attempted(wmsg[w])
          /\ wpc[w] = "retry" => failures[wmsg[w].key] > wmsg[w].retry
          /\ wpc[w] = "dead" => Exhausted(wmsg[w])
    /\ DeadMeansExhausted

Of(e) == {m \in Message : m.event = e}

Under(k) == {m \in Message : m.key = k}

(* The copies of these messages in a bag, numbered per message.            *)
Copies(bag, messages) == UNION {{<<m, i>> : i \in 1 .. bag[m]} : m \in messages}

(* An event is handled or given up once; once more for each transaction of *)
(* the relay that failed after its publish; and for each crash once more   *)
(* for the row it left unmarked and once for each call it interrupted.     *)
(* Nothing else repeats it: no retry, no overlap of ticks, no consumer     *)
(* that forgets a key (outbox-relay.ts tick, consumer.ts handleFailure).   *)
OutcomesBounded ==
    \A e \in Events :
        handled[e] + Cardinality(Copies(queue["dead"], Under(e)))
            <= 1 + aborts + (1 + SlotCount) * crashes

Count(n, e) == Cardinality(Copies(queue[n], Of(e)))

Saving(e) == {d \in DeadSlots : dpc[d] = "save" /\ dmsg[d].event = e}

RowsOf(e) == {r \in DeadRows : RowExists(r) /\ deadRow[r].event = e}

(* The INSERT is not idempotent, yet a dead message has at most one row in *)
(* failed_queue_events, and each crash adds at most one row per slot: for  *)
(* those between their INSERT and their acknowledgement                    *)
(* (dead-letter.consumer.ts start).                                        *)
DeadRowsBounded ==
    \A e \in Events :
        Cardinality(RowsOf(e)) + Count("deadLetters", e) + Cardinality(Saving(e))
            <= Count("dead", e) + Cardinality(DeadSlots) * crashes

-----------------------------------------------------------------------------

(* How far the pipeline has got with an event, as EventLifecycle sees it.  *)
Phase(e) ==
    IF row[e] = "none" THEN "none"
    ELSE IF handled[e] > 0 THEN "handled"
    ELSE IF Queued("dead", e) THEN "dead"
    ELSE IF row[e] = "published" /\ ~Backed(e) /\ e \in dropped THEN "dropped"
    ELSE "recorded"

Lifecycle == INSTANCE EventLifecycle WITH phase <- [e \in Events |-> Phase(e)]

(* The pipeline implements EventLifecycle: a handled or dropped event      *)
(* never changes phase again, and nothing happens to an event before its   *)
(* transaction committed.                                                  *)
ImplementsLifecycle == Lifecycle!Spec

(* An event recorded in the outbox is eventually handled, dead or dropped, *)
(* if only finitely many ticks fail and crashes happen.                    *)
EventuallySettled == Lifecycle!EventuallySettled

-----------------------------------------------------------------------------

(* What the code's documentation says of duplicates, losses and replays.   *)

(* outbox-relay.ts: a row republished after a failed mark is recognised as *)
(* a duplicate by the consumer instead of being processed twice.           *)
RepublishedNotProcessedTwice == \A e \in Events : handled[e] <= 1

(* create-account/handler.ts: a crash after the commit can delay the event *)
(* but never lose it.                                                      *)
NeverLost == \A e \in Events : row[e] = "published" => Backed(e)

(* apps/api/README.md: a replay republishes to the original routing key,   *)
(* so a replayed row's message reaches the consumer's queue.               *)
ReplayReachesConsumer ==
    \A r \in DeadRows : RowExists(r) /\ deadRow[r].replayed => Backed(r)
=============================================================================

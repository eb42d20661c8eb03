----------------------------- MODULE OutboxRelay -----------------------------
(***************************************************************************)
(* The outbox_events table, the unit of work that writes it and the relay  *)
(* that publishes it (infra/queue/outbox-relay.ts).  The timer does not    *)
(* wait for a tick to end, so several ticks run at once, each in its own   *)
(* transaction, kept apart by FOR UPDATE SKIP LOCKED.                      *)
(*                                                                         *)
(* channel.publish returns once amqplib has buffered the frame: `outbound` *)
(* is that buffer, and a message is on the broker only after Flush.  The   *)
(* channel is not a confirm channel, so the relay does not wait for it.    *)
(***************************************************************************)
EXTENDS Broker

CONSTANTS Ticks,      \* relay transactions that can be open at once
          BatchLimit, \* DEFAULT_LIMIT of findPending
          MaxAborts   \* bound: relay transactions that fail

ASSUME BatchLimitAssumption == BatchLimit \in Nat \ {0}
ASSUME MaxAbortsAssumption == MaxAborts \in Nat

VARIABLES row,       \* the outbox row of each event
          todo,      \* per tick: rows selected, locked and not published yet
          done,      \* per tick: rows published, their mark uncommitted
          outbound,  \* per event: frames in the client's write buffer
          aborts     \* relay transactions rolled back so far

relayVars == <<row, todo, done, outbound, aborts>>

RowStatus == {"none", "pending", "published"}

RelayTypeOK ==
    /\ row \in [Events -> RowStatus]
    /\ todo \in [Ticks -> SUBSET Events]
    /\ done \in [Ticks -> SUBSET Events]
    /\ outbound \in [Events -> Nat]
    /\ aborts \in Nat

RelayInit ==
    /\ row = [e \in Events |-> "none"]
    /\ todo = [t \in Ticks |-> {}]
    /\ done = [t \in Ticks |-> {}]
    /\ outbound = [e \in Events |-> 0]
    /\ aborts = 0

Open(t) == todo[t] \cup done[t] # {}

Locked == UNION {todo[t] \cup done[t] : t \in Ticks}

(* Mutant: without WHERE published_at IS NULL.                             *)
SelectableAnyStatus == {e \in Events : row[e] # "none"} \ Locked

(* Mutant: without FOR UPDATE SKIP LOCKED.                                 *)
SelectableLocked == {e \in Events : row[e] = "pending"}

(* The rows a tick sees: pending, and not locked by another tick.          *)
Selectable == {e \in Events : row[e] = "pending"} \ Locked

(* LIMIT without ORDER BY: any rows, as many as there are up to the limit. *)
Batches(rows) ==
    {b \in SUBSET rows : \/ b = rows /\ Cardinality(b) <= BatchLimit
                         \/ Cardinality(b) = BatchLimit}

-----------------------------------------------------------------------------

(* A command handler's unit of work commits: its aggregate and the outbox  *)
(* row appear together, and neither does if the transaction rolls back.    *)
Record(e) ==
    /\ row[e] = "none"
    /\ row' = [row EXCEPT ![e] = "pending"]
    /\ UNCHANGED <<todo, done, outbound, aborts, queue>>

(* A tick opens its transaction and selects its rows.  One that finds none *)
(* commits at once and changes nothing.                                    *)
TickStart(t) ==
    /\ ~Open(t)
    /\ \E b \in Batches(Selectable) :
        /\ b # {}
        /\ todo' = [todo EXCEPT ![t] = b]
    /\ UNCHANGED <<row, done, outbound, aborts, queue>>

(* One turn of the loop: publish, then the UPDATE, which no other          *)
(* transaction sees before the commit.                                     *)
TickPublish(t, e) ==
    /\ e \in todo[t]
    /\ outbound' = [outbound EXCEPT ![e] = @ + 1]
    /\ todo' = [todo EXCEPT ![t] = @ \ {e}]
    /\ done' = [done EXCEPT ![t] = @ \cup {e}]
    /\ UNCHANGED <<row, aborts, queue>>

(* Mutant: the whole batch is marked, also when the loop ended early.      *)
TickCommitWhole(t) ==
    /\ Open(t)
    /\ row' = [e \in Events |-> IF e \in todo[t] \cup done[t] THEN "published"
                                                             ELSE row[e]]
    /\ todo' = [todo EXCEPT ![t] = {}]
    /\ done' = [done EXCEPT ![t] = {}]
    /\ UNCHANGED <<outbound, aborts, queue>>

(* The loop is over and the transaction commits: the marks appear at once. *)
TickCommit(t) ==
    /\ done[t] # {}
    /\ todo[t] = {}
    /\ row' = [e \in Events |-> IF e \in done[t] THEN "published" ELSE row[e]]
    /\ done' = [done EXCEPT ![t] = {}]
    /\ UNCHANGED <<todo, outbound, aborts, queue>>

(* The relay's transaction fails anywhere before its commit: the rows stay *)
(* pending and unlocked, what was published stays published.               *)
TickAbort(t) ==
    /\ Open(t)
    /\ aborts < MaxAborts
    /\ aborts' = aborts + 1
    /\ todo' = [todo EXCEPT ![t] = {}]
    /\ done' = [done EXCEPT ![t] = {}]
    /\ UNCHANGED <<row, outbound, queue>>

(* A buffered frame reaches the broker.                                    *)
Flush(e) ==
    /\ outbound[e] > 0
    /\ outbound' = [outbound EXCEPT ![e] = @ - 1]
    /\ queue' = Publish("trello-issur.events", "event",
                        [event |-> e, key |-> e, retry |-> 0])
    /\ UNCHANGED <<row, todo, done, aborts>>
=============================================================================

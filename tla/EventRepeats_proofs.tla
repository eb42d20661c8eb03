------------------------- MODULE EventRepeats_proofs -------------------------
(***************************************************************************)
(* Proofs that the event pipeline handles a key a bounded number of times, *)
(* that the rows of dead letters are bounded, and that an event is handled *)
(* or given up only as often as faults repeat it.                          *)
(***************************************************************************)
EXTENDS EventLifecycle_proofs

LEMMA Budget ==
  ASSUME NEW n \in Nat, NEW c \in Nat
  PROVE  n * c \in Nat /\ n * (1 + c) = n * c + n /\ n * (c + 1) = n * c + n
OBVIOUS

(* The slots at "handle" and at "mark" are disjoint sets of slots.         *)
LEMMA AtCards ==
  ASSUME WorkersAssumption, NEW k
  PROVE  /\ IsFiniteSet(At("handle", k)) /\ IsFiniteSet(At("mark", k))
         /\ SlotCount \in Nat /\ Handling(k) \in Nat /\ Marking(k) \in Nat
         /\ Handling(k) + Marking(k) <= SlotCount
<1> DEFINE h == At("handle", k)
           m == At("mark", k)
<1>1. h \subseteq Workers /\ m \subseteq Workers /\ h \cup m \subseteq Workers /\ h \cap m = {}
  BY DEF At
<1>2. IsFiniteSet(h) /\ IsFiniteSet(m)
  BY <1>1, WorkersAssumption, FS_Subset
<1>3. SlotCount \in Nat /\ Cardinality(h) \in Nat /\ Cardinality(m) \in Nat
  BY <1>2, WorkersAssumption, FS_CardinalityType DEF SlotCount
<1>4. Cardinality(h \cup m) <= SlotCount
  BY <1>1, WorkersAssumption, FS_Subset DEF SlotCount
<1>5. Cardinality(h \cup m) = Cardinality(h) + Cardinality(m)
  <2>1. Cardinality(h \cap m) = 0
    BY <1>1, FS_EmptySet
  <2>2. Cardinality(h \cup m) = Cardinality(h) + Cardinality(m) - Cardinality(h \cap m)
    BY <1>2, FS_Union
  <2> HIDE DEF h, m
  <2> QED BY <2>1, <2>2, <1>3
<1> QED BY <1>2, <1>3, <1>4, <1>5 DEF Handling, Marking

(* A step that moves no call to or from "handle" and "mark" for this key.  *)
LEMMA RepeatsKept ==
  ASSUME NEW k, RepeatsOf(k),
         At("handle", k)' = At("handle", k), At("mark", k)' = At("mark", k),
         UNCHANGED <<crashes, handled>>, (k \in processed') = (k \in processed)
  PROVE  RepeatsOf(k)'
BY DEF RepeatsOf, Handling, Marking, SlotCount

LEMMA ConsumerStepRepeats ==
  ASSUME TypeOK, ConsumerStep, ~CacheMayFail, WorkersAssumption,
         NEW k \in Keys, RepeatsOf(k)
  PROVE  RepeatsOf(k)'
<1> USE DEF TypeOK, ConsumerTypeOK, WorkerPC
<1>0. crashes' = crashes /\ crashes \in Nat /\ handled[k] \in Nat
  BY DEF ConsumerStep
<1>n. SlotCount \in Nat /\ SlotCount * crashes \in Nat
  BY <1>0, AtCards, Budget
<1>c. /\ IsFiniteSet(At("handle", k)) /\ IsFiniteSet(At("mark", k))
      /\ Handling(k) \in Nat /\ Marking(k) \in Nat /\ Handling(k) + Marking(k) <= SlotCount
  BY AtCards
<1>k. \A w \in Workers : wpc[w] # "idle" => wmsg[w].key \in Keys
  BY DEF Message
<1>1. ASSUME NEW w \in Workers, NEW m \in Message, Receive(w, m)
      PROVE  RepeatsOf(k)'
  <2>1. At("mark", k)' = At("mark", k)
    BY <1>1 DEF Receive, At
  <2>2. UNCHANGED <<handled, processed>>
    BY <1>1 DEF Receive
  <2>3. CASE k \in processed
    <3>1. At("handle", k)' = At("handle", k)
      BY <1>1, <2>3 DEF Receive, AlreadyProcessed, At
    <3> QED BY <3>1, <2>1, <2>2, <1>0, RepeatsKept
  <2>4. CASE k \notin processed
    BY <2>4, <2>1, <2>2, <1>0 DEF RepeatsOf, Marking, SlotCount
  <2> QED BY <2>3, <2>4
<1>2. ASSUME NEW w \in Workers, HandleResolves(w)
      PROVE  RepeatsOf(k)'
  <2>1. CASE wmsg[w].key # k
    <3>1. At("handle", k)' = At("handle", k) /\ At("mark", k)' = At("mark", k)
      BY <1>2, <2>1 DEF HandleResolves, At
    <3>2. handled'[k] = handled[k] /\ processed' = processed
      BY <1>2, <1>k, <2>1 DEF HandleResolves
    <3> QED BY <3>1, <3>2, <1>0 DEF RepeatsOf, Handling, Marking, SlotCount
  <2>2. CASE wmsg[w].key = k
    <3>1. /\ At("handle", k)' = At("handle", k) \ {w} /\ w \in At("handle", k)
          /\ At("mark", k)' = At("mark", k) \cup {w} /\ w \notin At("mark", k)
      BY <1>2, <2>2 DEF HandleResolves, At
    <3>2. handled'[k] = handled[k] + 1 /\ processed' = processed
      BY <1>2, <2>2 DEF HandleResolves
    <3>3. Cardinality(At("handle", k) \ {w}) = Cardinality(At("handle", k)) - 1
      BY <3>1, <1>c, FS_RemoveElement
    <3>4. Cardinality(At("mark", k) \cup {w}) = Cardinality(At("mark", k)) + 1
      BY <3>1, <1>c, FS_AddElement
    <3>5. Handling(k)' = Handling(k) - 1 /\ Marking(k)' = Marking(k) + 1
      BY <3>1, <3>3, <3>4 DEF Handling, Marking
    <3> QED BY <3>2, <3>5, <1>0, <1>n, <1>c DEF RepeatsOf, SlotCount
  <2> QED BY <2>1, <2>2
<1>3. ASSUME NEW w \in Workers, HandleRejects(w)
      PROVE  RepeatsOf(k)'
  <2>1. At("handle", k)' \subseteq At("handle", k) /\ At("mark", k)' = At("mark", k)
    BY <1>3 DEF HandleRejects, AfterFailure, At
  <2>2. UNCHANGED <<handled, processed>>
    BY <1>3 DEF HandleRejects
  <2>3. Handling(k)' \in Nat /\ Handling(k)' <= Handling(k)
    BY <2>1, <1>c, FS_Subset, FS_CardinalityType DEF Handling
  <2>4. Marking(k)' = Marking(k)
    BY <2>1 DEF Marking
  <2> QED BY <2>2, <2>3, <2>4, <1>0, <1>n, <1>c DEF RepeatsOf, SlotCount
<1>4. ASSUME NEW w \in Workers, MarkProcessed(w)
      PROVE  RepeatsOf(k)'
  <2>1. At("handle", k)' = At("handle", k)
    BY <1>4 DEF MarkProcessed, At
  <2>2. handled' = handled /\ processed' = processed \cup {wmsg[w].key}
    BY <1>4 DEF MarkProcessed
  <2>3. CASE wmsg[w].key # k
    <3>1. At("mark", k)' = At("mark", k)
      BY <1>4, <2>3 DEF MarkProcessed, At
    <3> QED BY <3>1, <2>1, <2>2, <2>3, <1>0, RepeatsKept
  <2>4. CASE wmsg[w].key = k
    <3>1. Handling(k)' = Handling(k)
      BY <2>1 DEF Handling
    <3>2. handled[k] + Handling(k) <= SlotCount * crashes + SlotCount
      BY <1>0, <1>n, <1>c DEF RepeatsOf
    <3> QED BY <3>1, <3>2, <2>2, <2>4, <1>0 DEF RepeatsOf, SlotCount
  <2> QED BY <2>3, <2>4
<1>5. ASSUME NEW w \in Workers, SendToRetry(w) \/ SendToDead(w) \/ Ack(w)
      PROVE  RepeatsOf(k)'
  <2>1. At("handle", k)' = At("handle", k) /\ At("mark", k)' = At("mark", k)
    BY <1>5 DEF SendToRetry, SendToDead, Ack, At
  <2>2. UNCHANGED <<handled, processed>>
    BY <1>5 DEF SendToRetry, SendToDead, Ack
  <2> QED BY <2>1, <2>2, <1>0, RepeatsKept
<1> QED
  BY <1>1, <1>2, <1>3, <1>4, <1>5 DEF ConsumerStep, ForgetKey

LEMMA CrashRepeats ==
  ASSUME TypeOK, Crash, WorkersAssumption, NEW k \in Keys, RepeatsOf(k)
  PROVE  RepeatsOf(k)'
<1>1. At("handle", k)' = {} /\ At("mark", k)' = {}
  BY DEF Crash, WorkersStop, At
<1>2. Handling(k)' = 0 /\ Marking(k)' = 0
  BY <1>1, FS_EmptySet DEF Handling, Marking
<1>3. crashes \in Nat /\ crashes' = crashes + 1 /\ handled[k] \in Nat
  BY DEF Crash, TypeOK, ConsumerTypeOK
<1>4. UNCHANGED <<processed, handled>>
  BY DEF Crash, WorkersStop
<1>5. SlotCount \in Nat /\ Handling(k) \in Nat /\ Marking(k) \in Nat /\ Handling(k) + Marking(k) <= SlotCount
  BY AtCards
<1>6. SlotCount * crashes \in Nat /\ SlotCount * crashes' = SlotCount * crashes + SlotCount
  BY <1>3, <1>5, Budget
<1>7. handled[k] <= SlotCount * crashes + SlotCount
  BY <1>3, <1>5, <1>6 DEF RepeatsOf
<1> QED BY <1>2, <1>3, <1>4, <1>5, <1>6, <1>7 DEF RepeatsOf, SlotCount

LEMMA NextRepeats ==
  ASSUME TypeOK, [Next]_vars, ~CacheMayFail, WorkersAssumption,
         NEW k \in Keys, RepeatsOf(k)
  PROVE  RepeatsOf(k)'
<1>1. CASE UNCHANGED <<consumerVars, crashes>>
  BY <1>1 DEF consumerVars, RepeatsOf, Handling, Marking, SlotCount, At
<1>2. CASE ConsumerStep
  BY <1>2, ConsumerStepRepeats
<1>3. CASE Crash
  BY <1>3, CrashRepeats
<1> QED
  BY <1>1, <1>2, <1>3 DEF Next, vars, RelayStep, BrokerStep, DeadLetterStep

(* With a working cache, a key is handled at most once per delivery slot   *)
(* and run of the process (consumer.ts isAlreadyProcessed, markProcessed), *)
(* however many copies of it are delivered.                                *)
THEOREM RepeatsAreBounded == Spec => []RepeatsBounded
<1>1. Init => RepeatsInv
  <2>1. ASSUME Init, NEW k \in Keys
        PROVE  RepeatsOf(k)
    <3>1. processed = {} /\ handled[k] = 0 /\ crashes = 0
      BY <2>1 DEF Init, ConsumerInit
    <3>2. SlotCount * crashes \in Nat /\ Marking(k) \in Nat
      BY <3>1, AtCards, WorkersAssumption, Budget
    <3> QED BY <3>1, <3>2 DEF RepeatsOf
  <2> QED BY <2>1 DEF RepeatsInv
<1>2. TypeOK /\ RepeatsInv /\ [Next]_vars => RepeatsInv'
  <2> SUFFICES ASSUME TypeOK, RepeatsInv, [Next]_vars, ~CacheMayFail, NEW k \in Keys
               PROVE  RepeatsOf(k)'
    BY DEF RepeatsInv
  <2> QED BY NextRepeats, WorkersAssumption DEF RepeatsInv
<1>3. TypeOK /\ RepeatsInv => RepeatsBounded
  <2> SUFFICES ASSUME TypeOK, RepeatsInv, ~CacheMayFail, NEW k \in Keys
               PROVE  handled[k] <= SlotCount * (1 + crashes)
    BY DEF RepeatsBounded, SlotCount
  <2>1. RepeatsOf(k)
    BY DEF RepeatsInv
  <2>2. SlotCount \in Nat /\ Handling(k) \in Nat /\ Marking(k) \in Nat /\ Handling(k) + Marking(k) <= SlotCount
    BY AtCards, WorkersAssumption
  <2>3. crashes \in Nat /\ handled[k] \in Nat
    BY DEF TypeOK, ConsumerTypeOK
  <2>4. SlotCount * crashes \in Nat /\ SlotCount * (1 + crashes) = SlotCount * crashes + SlotCount
    BY <2>2, <2>3, Budget
  <2> QED BY <2>1, <2>2, <2>3, <2>4 DEF RepeatsOf
<1> QED BY <1>1, <1>2, <1>3, TypeCorrect, PTL DEF Spec

-----------------------------------------------------------------------------
(* Bags as sets of numbered copies.                                        *)

LEMMA CopiesAre ==
  ASSUME NEW bag \in Bag, NEW about \in SUBSET Message
  PROVE  Copies(bag, about) =
           {x \in about \X (Nat \ {0}) : x[2] <= bag[x[1]]}
<1> DEFINE numbered == {x \in about \X (Nat \ {0}) : x[2] <= bag[x[1]]}
<1>1. ASSUME NEW x \in Copies(bag, about) PROVE x \in numbered
  <2>1. PICK m \in about : x \in {<<m, i>> : i \in 1 .. bag[m]}
    BY <1>1 DEF Copies
  <2>2. PICK i \in 1 .. bag[m] : x = <<m, i>>
    BY <2>1
  <2>3. bag[m] \in Nat
    BY DEF Bag
  <2>4. i \in Nat \ {0} /\ i <= bag[m]
    BY <2>3
  <2> QED BY <2>2, <2>4
<1>2. ASSUME NEW x \in numbered PROVE x \in Copies(bag, about)
  <2>1. PICK m \in about, i \in Nat \ {0} : x = <<m, i>> /\ i <= bag[m]
    BY <1>2
  <2>2. i \in 1 .. bag[m]
    BY <2>1 DEF Bag
  <2> QED BY <2>1, <2>2 DEF Copies
<1> QED BY <1>1, <1>2

LEMMA CopiesPut ==
  ASSUME NEW bag \in Bag, NEW about \in SUBSET Message, IsFiniteSet(Copies(bag, about)), NEW m \in Message
  PROVE  /\ IsFiniteSet(Copies(Put(bag, m), about))
         /\ Cardinality(Copies(Put(bag, m), about)) =
              IF m \in about THEN Cardinality(Copies(bag, about)) + 1 ELSE Cardinality(Copies(bag, about))
<1> DEFINE new == <<m, bag[m] + 1>>
<1>1. Put(bag, m) \in Bag /\ bag[m] \in Nat
  BY PutType DEF Bag
<1>2. \A x \in Message : Put(bag, m)[x] = IF x = m THEN bag[m] + 1 ELSE bag[x]
  BY DEF Put, Bag
<1>3. CASE m \in about
  <2>1. Copies(Put(bag, m), about) = Copies(bag, about) \cup {new} /\ new \notin Copies(bag, about)
    BY <1>1, <1>2, <1>3, CopiesAre DEF Bag
  <2> HIDE DEF new
  <2> QED BY <2>1, <1>3, FS_AddElement
<1>4. CASE m \notin about
  <2>1. \A x \in about : Put(bag, m)[x] = bag[x]
    BY <1>2, <1>4
  <2>2. Copies(Put(bag, m), about) = Copies(bag, about)
    BY <2>1 DEF Copies
  <2> QED BY <2>2, <1>4
<1> QED BY <1>3, <1>4

LEMMA CopiesTake ==
  ASSUME NEW bag \in Bag, NEW about \in SUBSET Message, IsFiniteSet(Copies(bag, about)),
         NEW m \in Message, bag[m] > 0
  PROVE  /\ IsFiniteSet(Copies(Take(bag, m), about))
         /\ Cardinality(Copies(Take(bag, m), about)) =
              IF m \in about THEN Cardinality(Copies(bag, about)) - 1 ELSE Cardinality(Copies(bag, about))
<1> DEFINE old == <<m, bag[m]>>
<1>1. Take(bag, m) \in Bag /\ bag[m] \in Nat \ {0}
  BY TakeType DEF Bag
<1>2. \A x \in Message : Take(bag, m)[x] = IF x = m THEN bag[m] - 1 ELSE bag[x]
  BY DEF Take, Bag
<1>3. CASE m \in about
  <2>1. Copies(Take(bag, m), about) = Copies(bag, about) \ {old} /\ old \in Copies(bag, about)
    BY <1>1, <1>2, <1>3, CopiesAre DEF Bag
  <2> HIDE DEF old
  <2> QED BY <2>1, <1>3, FS_RemoveElement
<1>4. CASE m \notin about
  <2>1. \A x \in about : Take(bag, m)[x] = bag[x]
    BY <1>2, <1>4
  <2>2. Copies(Take(bag, m), about) = Copies(bag, about)
    BY <2>1 DEF Copies
  <2> QED BY <2>2, <1>4
<1> QED BY <1>3, <1>4

(* A crash requeues at most one copy per slot: the copies it adds inject   *)
(* into the slots that held them.                                          *)
LEMMA CopiesRequeued ==
  ASSUME NEW bag \in Bag, NEW about \in SUBSET Message, IsFiniteSet(Copies(bag, about)),
         NEW slots, IsFiniteSet(slots), NEW holds, NEW more \in Bag,
         more = [m \in Message |-> bag[m] + Cardinality({d \in slots : holds[d] = m})]
  PROVE  /\ IsFiniteSet(Copies(more, about))
         /\ Cardinality(Copies(more, about)) <= Cardinality(Copies(bag, about)) + Cardinality(slots)
<1> DEFINE held == [m \in Message |-> {d \in slots : holds[d] = m}]
           added == {x \in about \X (Nat \ {0}) :
                       bag[x[1]] < x[2] /\ x[2] <= bag[x[1]] + Cardinality(held[x[1]])}
<1>1. \A m \in Message : /\ held[m] \subseteq slots /\ IsFiniteSet(held[m])
                         /\ Cardinality(held[m]) \in Nat
  <2>1. \A m \in Message : held[m] \subseteq slots
    OBVIOUS
  <2> QED BY <2>1, FS_Subset, FS_CardinalityType
<1>2. \A m \in Message : more[m] = bag[m] + Cardinality(held[m])
  OBVIOUS
<1>4. Copies(more, about) = Copies(bag, about) \cup added
  <2>1. Copies(more, about) = {x \in about \X (Nat \ {0}) : x[2] <= more[x[1]]}
    BY CopiesAre
  <2>2. Copies(bag, about) = {x \in about \X (Nat \ {0}) : x[2] <= bag[x[1]]}
    BY CopiesAre
  <2>3. ASSUME NEW m \in about, NEW i \in Nat \ {0}
        PROVE  i <= more[m] <=> i <= bag[m] \/ (bag[m] < i /\ i <= bag[m] + Cardinality(held[m]))
    <3>1. bag[m] \in Nat /\ Cardinality(held[m]) \in Nat /\ more[m] = bag[m] + Cardinality(held[m])
      BY <1>1, <1>2 DEF Bag
    <3> HIDE DEF held
    <3> QED BY <3>1
  <2> HIDE DEF held
  <2> QED BY <2>1, <2>2, <2>3
<1>5. \E f : f \in Injection(added, slots)
  <2> DEFINE count(m) == 1 .. Cardinality(held[m])
             pick == [m \in Message |-> CHOOSE g : g \in Bijection(count(m), held[m])]
             f == [x \in added |-> pick[x[1]][x[2] - bag[x[1]]]]
  <2>1. ASSUME NEW m \in Message PROVE pick[m] \in Bijection(count(m), held[m])
    <3>1. \E g : g \in Bijection(count(m), held[m])
      BY <1>1, FS_CardinalityType DEF ExistsBijection
    <3> HIDE DEF count, held
    <3> QED BY <3>1
  <2>2. ASSUME NEW x \in added
        PROVE  /\ x[1] \in Message /\ x[2] - bag[x[1]] \in count(x[1])
               /\ bag[x[1]] \in Nat /\ x[2] \in Nat /\ x = <<x[1], x[2]>>
    <3>1. x[1] \in Message /\ x[2] \in Nat /\ x = <<x[1], x[2]>>
      OBVIOUS
    <3>2. bag[x[1]] \in Nat /\ Cardinality(held[x[1]]) \in Nat
      BY <3>1, <1>1 DEF Bag
    <3>3. bag[x[1]] < x[2] /\ x[2] <= bag[x[1]] + Cardinality(held[x[1]])
      OBVIOUS
    <3> HIDE DEF held, added
    <3> QED BY <3>1, <3>2, <3>3
  <2> HIDE DEF pick, count
  <2>3. ASSUME NEW x \in added PROVE f[x] \in held[x[1]]
    <3>1. f[x] = pick[x[1]][x[2] - bag[x[1]]]
      OBVIOUS
    <3> HIDE DEF f, held, added
    <3> QED BY <3>1, <2>1, <2>2 DEF Bijection, Injection, Surjection
  <2>4. f \in [added -> slots]
    <3>1. \A x \in added : f[x] \in slots
      BY <2>2, <2>3, <1>1
    <3> HIDE DEF added
    <3> QED BY <3>1
  <2>5. ASSUME NEW x \in added, NEW y \in added, f[x] = f[y] PROVE x = y
    <3>1. x[1] = y[1]
      <4>1. f[x] \in slots /\ holds[f[x]] = x[1] /\ holds[f[y]] = y[1]
        BY <2>2, <2>3
      <4> QED BY <4>1, <2>5
    <3>2. pick[x[1]][x[2] - bag[x[1]]] = pick[x[1]][y[2] - bag[x[1]]]
      BY <3>1, <2>5
    <3>3. x[2] - bag[x[1]] = y[2] - bag[x[1]]
      <4> HIDE DEF f, held, added
      <4> QED BY <3>1, <3>2, <2>1, <2>2 DEF Bijection, Injection, IsInjective
    <3> HIDE DEF f, held, added
    <3> QED BY <3>1, <3>3, <2>2
  <2> HIDE DEF f, added
  <2> QED BY <2>4, <2>5 DEF Injection, IsInjective
<1>6. IsFiniteSet(added) /\ Cardinality(added) <= Cardinality(slots)
  <2> HIDE DEF added
  <2> QED BY <1>5, FS_Injection
<1>7. /\ IsFiniteSet(Copies(bag, about) \cup added)
      /\ Cardinality(Copies(bag, about) \cup added) <= Cardinality(Copies(bag, about)) + Cardinality(added)
  <2> HIDE DEF added
  <2>1. /\ IsFiniteSet(Copies(bag, about) \cup added)
        /\ Cardinality(Copies(bag, about) \cup added) =
             Cardinality(Copies(bag, about)) + Cardinality(added) - Cardinality(Copies(bag, about) \cap added)
    BY <1>6, FS_Union
  <2>2. IsFiniteSet(Copies(bag, about) \cap added)
    BY <1>6, FS_Intersection
  <2> QED BY <1>6, <2>1, <2>2, FS_CardinalityType
<1> HIDE DEF added
<1>8. /\ Cardinality(Copies(bag, about)) \in Nat /\ Cardinality(added) \in Nat
      /\ Cardinality(slots) \in Nat /\ Cardinality(Copies(bag, about) \cup added) \in Nat
  BY <1>6, <1>7, FS_CardinalityType
<1>9. Cardinality(Copies(bag, about)) + Cardinality(added)
        <= Cardinality(Copies(bag, about)) + Cardinality(slots)
  BY <1>6, <1>8
<1>10. Cardinality(Copies(bag, about) \cup added)
         <= Cardinality(Copies(bag, about)) + Cardinality(slots)
  BY <1>7, <1>8, <1>9
<1> QED BY <1>4, <1>7, <1>10

LEMMA OfAndUnder ==
  ASSUME NEW x
  PROVE  /\ Of(x) \in SUBSET Message /\ \A m \in Message : m \in Of(x) <=> m.event = x
         /\ Under(x) \in SUBSET Message /\ \A m \in Message : m \in Under(x) <=> m.key = x
BY DEF Of, Under

LEMMA CopiesOfNone ==
  ASSUME NEW about \in SUBSET Message
  PROVE  Copies(EmptyQueue, about) = {}
BY DEF EmptyQueue, Copies

-----------------------------------------------------------------------------
(* Rows of dead letters.                                                   *)

(* DeadRowsBounded for one event, of sets that are finite.                 *)
RowsBoundedFor(e) ==
    /\ IsFiniteSet(RowsOf(e))
    /\ IsFiniteSet(Copies(queue["dead"], Of(e))) /\ IsFiniteSet(Copies(queue["deadLetters"], Of(e)))
    /\ Cardinality(RowsOf(e)) + Count("deadLetters", e) + Cardinality(Saving(e))
          <= Count("dead", e) + Cardinality(DeadSlots) * crashes

LEMMA DeadCards ==
  ASSUME TypeOK, DeadSlotsAssumption, NEW e, RowsBoundedFor(e)
  PROVE  /\ Cardinality(RowsOf(e)) \in Nat /\ IsFiniteSet(Saving(e))
         /\ Cardinality(Saving(e)) \in Nat
         /\ Count("deadLetters", e) \in Nat /\ Count("dead", e) \in Nat
         /\ crashes \in Nat /\ Cardinality(DeadSlots) \in Nat
         /\ Cardinality(DeadSlots) * crashes \in Nat
         /\ queue["dead"] \in Bag /\ queue["deadLetters"] \in Bag
<1>1. IsFiniteSet(Saving(e))
  <2>1. Saving(e) \subseteq DeadSlots
    BY DEF Saving
  <2> QED BY <2>1, FS_Subset DEF DeadSlotsAssumption
<1>2. crashes \in Nat /\ Cardinality(DeadSlots) \in Nat
  BY FS_CardinalityType DEF TypeOK, DeadSlotsAssumption
<1>3. queue["dead"] \in Bag /\ queue["deadLetters"] \in Bag
  BY DEF TypeOK, BrokerTypeOK, QueueName, Bag
<1> QED BY <1>1, <1>2, <1>3, Budget, FS_CardinalityType DEF RowsBoundedFor, Count

(* Only the dead-letter consumer, the dead exchange and a crash matter.    *)
LEMMA RowsFrame ==
  ASSUME NEW e, RowsBoundedFor(e), UNCHANGED <<dpc, dmsg, deadRow, crashes>>,
         queue'["dead"] = queue["dead"], queue'["deadLetters"] = queue["deadLetters"]
  PROVE  RowsBoundedFor(e)'
BY DEF RowsBoundedFor, RowsOf, RowExists, Saving, Count, Copies

LEMMA OtherStepRows ==
  ASSUME TypeOK, RelayStep \/ BrokerStep, NEW e, RowsBoundedFor(e)
  PROVE  RowsBoundedFor(e)'
<1>1. UNCHANGED <<dpc, dmsg, deadRow, crashes>>
  BY DEF RelayStep, BrokerStep, deadVars
<1>2. queue'["dead"] = queue["dead"] /\ queue'["deadLetters"] = queue["deadLetters"]
  <2>1. ASSUME NEW x \in Events, Flush(x)
        PROVE  queue'["dead"] = queue["dead"] /\ queue'["deadLetters"] = queue["deadLetters"]
    BY <2>1 DEF Flush, Publish, Bound, QueueName
  <2>2. CASE RelayStep
    BY <2>1, <2>2 DEF RelayStep, Record, TickStart, TickCommit, TickAbort, TickPublish
  <2>3. CASE BrokerStep
    BY <2>3 DEF BrokerStep, RetryExpire, TypeOK, BrokerTypeOK, QueueName
  <2> QED BY <2>2, <2>3
<1> QED BY <1>1, <1>2, RowsFrame

LEMMA ConsumerStepRows ==
  ASSUME TypeOK, DeadSlotsAssumption, ConsumerStep, NEW e, RowsBoundedFor(e)
  PROVE  RowsBoundedFor(e)'
<1>0. UNCHANGED <<dpc, dmsg, deadRow, crashes>>
  BY DEF ConsumerStep, deadVars
<1>1. ASSUME NEW w \in Workers, SendToDead(w)
      PROVE  RowsBoundedFor(e)'
  <2> DEFINE m == wmsg[w]
             more == IF m.event = e THEN 1 ELSE 0
  <2>1. m \in Message
    BY <1>1 DEF SendToDead, TypeOK, ConsumerTypeOK
  <2>2. /\ queue'["dead"] = Put(queue["dead"], m)
        /\ queue'["deadLetters"] = Put(queue["deadLetters"], m)
    BY <1>1 DEF SendToDead, Publish, Bound, QueueName
  <2>3. /\ IsFiniteSet(Copies(queue["dead"], Of(e)))' /\ IsFiniteSet(Copies(queue["deadLetters"], Of(e)))'
        /\ Count("dead", e)' = Count("dead", e) + more
        /\ Count("deadLetters", e)' = Count("deadLetters", e) + more
    <3>1. Copies(queue["dead"], Of(e))' = Copies(Put(queue["dead"], m), Of(e))
      BY <2>2 DEF Copies
    <3>2. Copies(queue["deadLetters"], Of(e))' = Copies(Put(queue["deadLetters"], m), Of(e))
      BY <2>2 DEF Copies
    <3> QED BY <2>1, <3>1, <3>2, CopiesPut, OfAndUnder, DeadCards DEF Count, RowsBoundedFor
  <2>4. RowsOf(e)' = RowsOf(e) /\ Saving(e)' = Saving(e)
    BY <1>0 DEF RowsOf, RowExists, Saving
  <2> HIDE DEF m
  <2> QED BY <1>0, <2>3, <2>4, DeadCards DEF RowsBoundedFor
<1>2. CASE ~\E w \in Workers : SendToDead(w)
  <2>1. queue'["dead"] = queue["dead"] /\ queue'["deadLetters"] = queue["deadLetters"]
    BY <1>2 DEF ConsumerStep, Receive, HandleResolves, HandleRejects, MarkProcessed, SendToRetry,
                Ack, ForgetKey, TypeOK, BrokerTypeOK, QueueName
  <2> QED BY <1>0, <2>1, RowsFrame
<1> QED BY <1>1, <1>2

LEMMA DeadLetterStepRows ==
  ASSUME TypeOK, DeadSlotsAssumption, NoRowAssumption, DeadLetterStep, NEW e \in Events,
         RowsBoundedFor(e)
  PROVE  RowsBoundedFor(e)'
<1> USE DEF TypeOK, DeadTypeOK
<1>0. crashes' = crashes
  BY DEF DeadLetterStep
<1>1. ASSUME NEW d \in DeadSlots, NEW m \in Message, DeadReceive(d, m)
      PROVE  RowsBoundedFor(e)'
  <2> DEFINE one == IF m.event = e THEN 1 ELSE 0
  <2>1. /\ Copies(queue["dead"], Of(e))' = Copies(queue["dead"], Of(e))
        /\ Copies(queue["deadLetters"], Of(e))' = Copies(Take(queue["deadLetters"], m), Of(e))
    BY <1>1 DEF DeadReceive, BrokerTypeOK, QueueName, Copies
  <2>2. /\ IsFiniteSet(Copies(queue["deadLetters"], Of(e)))'
        /\ Count("deadLetters", e)' = Count("deadLetters", e) - one
    BY <1>1, <2>1, CopiesTake, OfAndUnder, DeadCards DEF DeadReceive, Count, RowsBoundedFor
  <2>3. Cardinality(Saving(e))' = Cardinality(Saving(e)) + one
    <3>1. d \notin Saving(e) /\ Saving(e)' = IF m.event = e THEN Saving(e) \cup {d} ELSE Saving(e)
      BY <1>1 DEF DeadReceive, Saving
    <3>2. Cardinality(Saving(e) \cup {d}) = Cardinality(Saving(e)) + 1
      BY <3>1, FS_AddElement, DeadCards
    <3> QED BY <3>1, <3>2, DeadCards
  <2>4. RowsOf(e)' = RowsOf(e)
    BY <1>1 DEF DeadReceive, RowsOf, RowExists
  <2> QED BY <1>0, <2>1, <2>2, <2>3, <2>4, DeadCards DEF RowsBoundedFor, Count
<1>2. ASSUME NEW d \in DeadSlots, DeadSave(d)
      PROVE  RowsBoundedFor(e)'
  <2> DEFINE one == IF dmsg[d].event = e THEN 1 ELSE 0
  <2>1. UNCHANGED <<queue, dmsg>> /\ dpc[d] = "save" /\ dpc' = [dpc EXCEPT ![d] = "ack"]
    BY <1>2 DEF DeadSave
  <2>2. Cardinality(Saving(e))' = Cardinality(Saving(e)) - one
    <3>1. Saving(e)' = Saving(e) \ {d} /\ (d \in Saving(e) <=> dmsg[d].event = e)
      BY <2>1 DEF Saving
    <3>2. Cardinality(Saving(e) \ {d}) =
            IF d \in Saving(e) THEN Cardinality(Saving(e)) - 1 ELSE Cardinality(Saving(e))
      BY FS_RemoveElement, DeadCards
    <3> QED BY <3>1, <3>2, DeadCards
  <2>3. /\ IsFiniteSet(RowsOf(e)')
        /\ Cardinality(RowsOf(e)') \in {Cardinality(RowsOf(e)), Cardinality(RowsOf(e)) + one}
    <3>1. CASE UNCHANGED deadRow
      BY <3>1 DEF RowsOf, RowExists, RowsBoundedFor
    <3>2. ASSUME NEW r \in DeadRows, ~RowExists(r),
                 deadRow' = [deadRow EXCEPT ![r] = BuildEvent(dmsg[d])]
          PROVE  /\ IsFiniteSet(RowsOf(e)')
                 /\ Cardinality(RowsOf(e)') \in {Cardinality(RowsOf(e)),
                                                Cardinality(RowsOf(e)) + one}
      <4>1. dmsg[d] \in Message
        BY <2>1
      <4>2. /\ BuildEvent(dmsg[d]) \in FailedQueueEvent
            /\ BuildEvent(dmsg[d]).event = dmsg[d].event
        BY <4>1 DEF BuildEvent, FailedQueueEvent, Message, RoutingKey
      <4>3. BuildEvent(dmsg[d]) # NoRow
        BY <4>2 DEF NoRowAssumption
      <4>4. /\ r \notin RowsOf(e)
            /\ RowsOf(e)' = IF dmsg[d].event = e THEN RowsOf(e) \cup {r} ELSE RowsOf(e)
        BY <3>2, <4>2, <4>3 DEF RowsOf, RowExists
      <4>5. /\ IsFiniteSet(RowsOf(e) \cup {r})
            /\ Cardinality(RowsOf(e) \cup {r}) = Cardinality(RowsOf(e)) + 1
        BY <4>4, FS_AddElement DEF RowsBoundedFor
      <4>6. CASE dmsg[d].event = e
        BY <4>4, <4>5, <4>6
      <4>7. CASE dmsg[d].event # e
        BY <4>4, <4>7 DEF RowsBoundedFor
      <4> QED BY <4>6, <4>7
    <3> QED BY <1>2, <3>1, <3>2 DEF DeadSave
  <2>4. /\ Copies(queue["dead"], Of(e))' = Copies(queue["dead"], Of(e))
        /\ Copies(queue["deadLetters"], Of(e))' = Copies(queue["deadLetters"], Of(e))
    BY <2>1 DEF Copies
  <2> QED BY <1>0, <2>2, <2>3, <2>4, DeadCards DEF RowsBoundedFor, Count
<1>3. ASSUME NEW d \in DeadSlots, DeadAck(d)
      PROVE  RowsBoundedFor(e)'
  <2>1. Saving(e)' = Saving(e)
    BY <1>3 DEF DeadAck, Saving
  <2> QED BY <1>0, <1>3, <2>1 DEF DeadAck, RowsBoundedFor, RowsOf, RowExists, Count, Copies
<1>4. ASSUME NEW o \in Operators, NEW r \in DeadRows, ReplayRead(o, r)
      PROVE  RowsBoundedFor(e)'
  BY <1>0, <1>4, RowsFrame DEF ReplayRead
<1>5. ASSUME NEW o \in Operators, ReplayPublish(o)
      PROVE  RowsBoundedFor(e)'
  <2>1. queue'["dead"] = queue["dead"] /\ queue'["deadLetters"] = queue["deadLetters"]
    BY <1>5 DEF ReplayPublish, Publish, Bound, QueueName
  <2> QED BY <1>0, <1>5, <2>1, RowsFrame DEF ReplayPublish
<1>6. ASSUME NEW o \in Operators, ReplayMark(o)
      PROVE  RowsBoundedFor(e)'
  <2> DEFINE r == replaying[o].row
  <2>1. r \in DeadRows /\ deadRow[r] \in FailedQueueEvent
    BY <1>6 DEF ReplayMark, RowExists
  <2>2. /\ [deadRow[r] EXCEPT !.replayed = TRUE] \in FailedQueueEvent
        /\ [deadRow[r] EXCEPT !.replayed = TRUE].event = deadRow[r].event
    BY <2>1 DEF FailedQueueEvent
  <2>3. RowsOf(e)' = RowsOf(e)
    BY <1>6, <2>1, <2>2 DEF ReplayMark, RowsOf, RowExists, NoRowAssumption
  <2> QED BY <1>0, <1>6, <2>3 DEF ReplayMark, RowsBoundedFor, Saving, Count, Copies
<1>7. ASSUME NEW o \in Operators, ReplayDies(o)
      PROVE  RowsBoundedFor(e)'
  BY <1>0, <1>7, RowsFrame DEF ReplayDies
<1> QED BY <1>1, <1>2, <1>3, <1>4, <1>5, <1>6, <1>7 DEF DeadLetterStep

LEMMA CrashRows ==
  ASSUME TypeOK, DeadSlotsAssumption, WorkersAssumption, Crash, NEW e, RowsBoundedFor(e)
  PROVE  RowsBoundedFor(e)'
<1>1. /\ Copies(queue["dead"], Of(e))' = Copies(queue["dead"], Of(e))
      /\ Copies(queue["deadLetters"], Of(e))' =
           Copies(DeadUnackedRequeued(queue["deadLetters"]), Of(e))
  BY DEF Crash, TypeOK, BrokerTypeOK, QueueName, Copies
<1>2. /\ IsFiniteSet(Copies(queue["deadLetters"], Of(e)))'
      /\ Count("deadLetters", e)' <= Count("deadLetters", e) + Cardinality(DeadSlots)
  <2> DEFINE bag == queue["deadLetters"]
             more == DeadUnackedRequeued(bag)
  <2>1. bag \in Bag /\ more \in Bag
    BY DeadCards, RequeueType
  <2>2. more = [m \in Message |-> bag[m] + Cardinality({d \in DeadSlots : dmsg[d] = m})]
    BY DEF DeadUnackedRequeued
  <2>3. IsFiniteSet(Copies(bag, Of(e))) /\ IsFiniteSet(DeadSlots) /\ Of(e) \in SUBSET Message
    BY OfAndUnder DEF RowsBoundedFor, DeadSlotsAssumption
  <2> HIDE DEF bag, more
  <2>4. /\ IsFiniteSet(Copies(more, Of(e)))
        /\ Cardinality(Copies(more, Of(e))) <= Cardinality(Copies(bag, Of(e))) + Cardinality(DeadSlots)
    BY <2>1, <2>2, <2>3, CopiesRequeued
  <2> QED BY <1>1, <2>4 DEF Count, bag, more
<1>3. Saving(e)' = {} /\ Cardinality(Saving(e)') = 0
  <2>1. Saving(e)' = {}
    BY DEF Crash, DeadConsumerStops, Saving
  <2> QED BY <2>1, FS_EmptySet
<1>4. RowsOf(e)' = RowsOf(e) /\ crashes' = crashes + 1
  BY DEF Crash, DeadConsumerStops, RowsOf, RowExists
<1>5. /\ Count("deadLetters", e)' \in Nat /\ Count("dead", e)' = Count("dead", e)
  BY <1>1, <1>2, FS_CardinalityType DEF Count
<1>6. Cardinality(DeadSlots) * crashes' = Cardinality(DeadSlots) * crashes + Cardinality(DeadSlots)
  BY <1>4, DeadCards, Budget
<1> QED BY <1>1, <1>2, <1>3, <1>4, <1>5, <1>6, DeadCards DEF RowsBoundedFor

(* A dead message leaves at most one row in failed_queue_events, and each  *)
(* crash adds at most one row per delivery slot, although the INSERT and   *)
(* the acknowledgement are two steps (dead-letter.consumer.ts start).      *)
THEOREM DeadRowsAreBounded == Spec => []DeadRowsBounded
<1> DEFINE RowsInv == \A e \in Events : RowsBoundedFor(e)
<1>1. Init => RowsInv
  <2> SUFFICES ASSUME Init, NEW e \in Events PROVE RowsBoundedFor(e)
    OBVIOUS
  <2>1. RowsOf(e) = {} /\ Saving(e) = {} /\ crashes = 0
    BY DEF Init, DeadInit, RowsOf, RowExists, Saving
  <2>2. ASSUME NEW n \in QueueName PROVE Copies(queue[n], Of(e)) = {}
    BY CopiesOfNone, OfAndUnder DEF Init, BrokerInit
  <2>3. Cardinality(DeadSlots) * crashes \in Nat
    BY <2>1, Budget, DeadSlotsAssumption, FS_CardinalityType DEF DeadSlotsAssumption
  <2>4. /\ Copies(queue["dead"], Of(e)) = {} /\ Copies(queue["deadLetters"], Of(e)) = {}
        /\ Count("dead", e) = 0 /\ Count("deadLetters", e) = 0
    BY <2>2, FS_EmptySet DEF Count, QueueName
  <2> QED BY <2>1, <2>3, <2>4, FS_EmptySet DEF RowsBoundedFor
<1>2. TypeOK /\ RowsInv /\ [Next]_vars => RowsInv'
  <2> SUFFICES ASSUME TypeOK, [Next]_vars, NEW e \in Events, RowsBoundedFor(e)
               PROVE  RowsBoundedFor(e)'
    OBVIOUS
  <2>1. CASE UNCHANGED vars
    BY <2>1, RowsFrame DEF vars, deadVars
  <2> QED BY <2>1, OtherStepRows, ConsumerStepRows, DeadLetterStepRows, CrashRows,
             DeadSlotsAssumption, WorkersAssumption, NoRowAssumption DEF Next
<1>3. RowsInv => DeadRowsBounded
  BY DEF RowsBoundedFor, DeadRowsBounded
<1> QED BY <1>1, <1>2, <1>3, TypeCorrect, PTL DEF Spec

-----------------------------------------------------------------------------
(* How often an event is handled or given up.                              *)

TodoInv == \A t \in Ticks : todo[t] \cap done[t] = {}

(* The calls that will still handle the publish under key k, or pass it on. *)
Busy(k) == {w \in Workers : wpc[w] \in {"handle", "retry", "dead"} /\ wmsg[w].key = k}

(* A row that is neither marked nor published in an open transaction has   *)
(* one more publish coming.                                                *)
Credit(e) ==
    IF row[e] = "published" \/ \E t \in Ticks : e \in done[t] THEN 0 ELSE 1

Load(n, k) == Cardinality(Copies(queue[n], Under(k)))

Finite(k) == \A n \in {"main", "retry", "dead"} : IsFiniteSet(Copies(queue[n], Under(k)))

(* Every outcome the event has had or can still have.                      *)
Outcomes(e) ==
    outbound[e] + Load("main", e) + Load("retry", e) + Load("dead", e)
        + handled[e] + Cardinality(Busy(e)) + Credit(e)

Allowance == 1 + aborts + (1 + SlotCount) * crashes

OutcomesFor(e) == Finite(e) /\ Outcomes(e) <= Allowance

LEMMA OutcomeCards ==
  ASSUME TypeOK, WorkersAssumption, NEW e \in Events, Finite(e)
  PROVE  /\ outbound[e] \in Nat /\ handled[e] \in Nat /\ Credit(e) \in {0, 1}
         /\ \A n \in {"main", "retry", "dead"} :
               queue[n] \in Bag /\ IsFiniteSet(Copies(queue[n], Under(e))) /\ Load(n, e) \in Nat
         /\ Busy(e) \subseteq Workers /\ IsFiniteSet(Busy(e)) /\ Cardinality(Busy(e)) \in Nat
         /\ SlotCount \in Nat /\ aborts \in Nat /\ crashes \in Nat /\ Allowance \in Nat
<1>1. outbound[e] \in Nat /\ handled[e] \in Nat /\ aborts \in Nat /\ crashes \in Nat
  BY DEF TypeOK, RelayTypeOK, ConsumerTypeOK, Keys
<1>2. Credit(e) \in {0, 1}
  BY DEF Credit
<1>3. ASSUME NEW n \in {"main", "retry", "dead"}
      PROVE  queue[n] \in Bag /\ IsFiniteSet(Copies(queue[n], Under(e))) /\ Load(n, e) \in Nat
  <2>1. queue[n] \in Bag
    BY DEF TypeOK, BrokerTypeOK, QueueName, Bag
  <2>2. IsFiniteSet(Copies(queue[n], Under(e)))
    BY DEF Finite
  <2> QED BY <2>1, <2>2, FS_CardinalityType DEF Load
<1>4. Busy(e) \subseteq Workers
  BY DEF Busy
<1>5. IsFiniteSet(Busy(e)) /\ Cardinality(Busy(e)) \in Nat
  BY <1>4, FS_Subset, FS_CardinalityType DEF WorkersAssumption
<1>6. SlotCount \in Nat
  BY FS_CardinalityType DEF SlotCount, WorkersAssumption
<1>7. Allowance \in Nat
  <2>1. (1 + SlotCount) * crashes \in Nat
    BY <1>1, <1>6, Budget
  <2> QED BY <1>1, <2>1 DEF Allowance
<1> QED BY <1>1, <1>2, <1>3, <1>4, <1>5, <1>6, <1>7

(* A step in which what the event gains in one place it loses in another.  *)
LEMMA QueueUnchanged ==
  ASSUME NEW n, NEW k, queue'[n] = queue[n]
  PROVE  Copies(queue[n], Under(k))' = Copies(queue[n], Under(k)) /\ Load(n, k)' = Load(n, k)
BY DEF Copies, Load

LEMMA QueuePut ==
  ASSUME NEW n, NEW k, NEW m \in Message, queue[n] \in Bag,
         IsFiniteSet(Copies(queue[n], Under(k))), queue'[n] = Put(queue[n], m)
  PROVE  /\ IsFiniteSet(Copies(queue[n], Under(k)))'
         /\ Load(n, k)' = IF m.key = k THEN Load(n, k) + 1 ELSE Load(n, k)
<1>1. Copies(queue[n], Under(k))' = Copies(Put(queue[n], m), Under(k))
  BY DEF Copies
<1> QED BY <1>1, CopiesPut, OfAndUnder DEF Load

LEMMA QueueTake ==
  ASSUME NEW n, NEW k, NEW m \in Message, queue[n] \in Bag, queue[n][m] > 0,
         IsFiniteSet(Copies(queue[n], Under(k))), queue'[n] = Take(queue[n], m)
  PROVE  /\ IsFiniteSet(Copies(queue[n], Under(k)))'
         /\ Load(n, k)' = IF m.key = k THEN Load(n, k) - 1 ELSE Load(n, k)
<1>1. Copies(queue[n], Under(k))' = Copies(Take(queue[n], m), Under(k))
  BY DEF Copies
<1> QED BY <1>1, CopiesTake, OfAndUnder DEF Load

LEMMA RelayStepOutcomes ==
  ASSUME TypeOK, WorkersAssumption, LocksInv, TodoInv, RelayStep, NEW e \in Events, OutcomesFor(e)
  PROVE  OutcomesFor(e)'
<1> USE DEF OutcomesFor, Outcomes
<1> DEFINE Kept == /\ Finite(e)' /\ Cardinality(Busy(e))' = Cardinality(Busy(e))
                   /\ \A n \in {"main", "retry", "dead"} : Load(n, e)' = Load(n, e)
<1>0. UNCHANGED <<wpc, wmsg, handled, crashes>> /\ Cardinality(Busy(e))' = Cardinality(Busy(e))
  BY DEF RelayStep, consumerVars, Busy
<1>c. /\ outbound[e] \in Nat /\ handled[e] \in Nat /\ Credit(e) \in {0, 1}
      /\ Load("main", e) \in Nat /\ Load("retry", e) \in Nat /\ Load("dead", e) \in Nat
      /\ Cardinality(Busy(e)) \in Nat /\ aborts \in Nat /\ Allowance \in Nat
  BY OutcomeCards
<1>a. aborts' = aborts => Allowance' = Allowance
  BY <1>0 DEF Allowance, SlotCount
<1>q. UNCHANGED queue => Kept
  BY <1>0, QueueUnchanged DEF Finite
<1>1. ASSUME NEW x \in Events, Record(x)
      PROVE  OutcomesFor(e)'
  <2>1. UNCHANGED <<queue, outbound, aborts>> /\ Credit(e)' = Credit(e)
    BY <1>1 DEF Record, Credit, TypeOK, RelayTypeOK
  <2> QED BY <2>1, <1>0, <1>a, <1>q
<1>2. ASSUME NEW t \in Ticks, TickStart(t)
      PROVE  OutcomesFor(e)'
  <2>1. UNCHANGED <<queue, outbound, aborts>> /\ Credit(e)' = Credit(e)
    BY <1>2 DEF TickStart, Credit
  <2> QED BY <2>1, <1>0, <1>a, <1>q
<1>3. ASSUME NEW t \in Ticks, TickCommit(t)
      PROVE  OutcomesFor(e)'
  <2>1. UNCHANGED <<queue, outbound, aborts>> /\ Credit(e)' = Credit(e)
    BY <1>3 DEF TickCommit, Credit, TypeOK, RelayTypeOK
  <2> QED BY <2>1, <1>0, <1>a, <1>q
<1>4. ASSUME NEW t \in Ticks, TickAbort(t)
      PROVE  OutcomesFor(e)'
  <2>1. UNCHANGED <<queue, outbound>> /\ aborts' = aborts + 1
    BY <1>4 DEF TickAbort
  <2>2. Credit(e)' \in {0, 1}
    BY DEF Credit
  <2>3. Allowance' = Allowance + 1
    <3>1. (1 + SlotCount) * crashes \in Nat
      BY OutcomeCards, Budget
    <3> QED BY <1>0, <1>c, <2>1, <3>1 DEF Allowance, SlotCount
  <2> QED BY <2>1, <2>2, <2>3, <1>0, <1>c, <1>q
<1>5. ASSUME NEW t \in Ticks, NEW x \in Events, TickPublish(t, x)
      PROVE  OutcomesFor(e)'
  <2>1. UNCHANGED <<queue, aborts, row>>
    BY <1>5 DEF TickPublish
  <2>2. CASE x # e
    <3>1. outbound'[e] = outbound[e] /\ Credit(e)' = Credit(e)
      BY <1>5, <2>2 DEF TickPublish, Credit, TypeOK, RelayTypeOK
    <3> QED BY <2>1, <3>1, <1>0, <1>a, <1>q
  <2>3. CASE x = e
    <3>1. outbound'[e] = outbound[e] + 1
      BY <1>5, <2>3 DEF TickPublish, TypeOK, RelayTypeOK
    <3>2. Credit(e) = 1
      <4>1. row[e] = "pending"
        BY <1>5, <2>3 DEF TickPublish, LocksInv
      <4>2. \A u \in Ticks : e \notin done[u]
        BY <1>5, <2>3 DEF TickPublish, LocksInv, TodoInv
      <4> QED BY <4>1, <4>2 DEF Credit
    <3>3. Credit(e)' = 0
      <4>1. e \in done'[t]
        BY <1>5, <2>3 DEF TickPublish, TypeOK, RelayTypeOK
      <4> QED BY <4>1 DEF Credit
    <3> QED BY <2>1, <3>1, <3>2, <3>3, <1>0, <1>a, <1>c, <1>q
  <2> QED BY <2>2, <2>3
<1>6. ASSUME NEW x \in Events, Flush(x)
      PROVE  OutcomesFor(e)'
  <2> DEFINE m == [event |-> x, key |-> x, retry |-> 0]
  <2>1. m \in Message /\ m.key = x
    BY MaxRetriesAssumption DEF Message, Keys
  <2>2. /\ queue'["main"] = Put(queue["main"], m)
        /\ queue'["retry"] = queue["retry"] /\ queue'["dead"] = queue["dead"]
    BY <1>6 DEF Flush, Publish, Bound, QueueName
  <2> HIDE DEF m
  <2>3. /\ Finite(e)' /\ Load("retry", e)' = Load("retry", e) /\ Load("dead", e)' = Load("dead", e)
        /\ Load("main", e)' = IF x = e THEN Load("main", e) + 1 ELSE Load("main", e)
    BY <2>1, <2>2, QueuePut, QueueUnchanged, OutcomeCards DEF Finite
  <2>4. /\ Credit(e)' = Credit(e) /\ aborts' = aborts
        /\ outbound'[e] = IF x = e THEN outbound[e] - 1 ELSE outbound[e]
    BY <1>6 DEF Flush, Credit, TypeOK, RelayTypeOK
  <2> QED BY <2>3, <2>4, <1>0, <1>a, <1>c
<1> QED BY <1>1, <1>2, <1>3, <1>4, <1>5, <1>6 DEF RelayStep

LEMMA BrokerStepOutcomes ==
  ASSUME TypeOK, WorkersAssumption, BrokerStep, NEW e \in Events, OutcomesFor(e)
  PROVE  OutcomesFor(e)'
<1> USE DEF OutcomesFor
<1>1. PICK m \in Message : RetryExpire(m)
  BY DEF BrokerStep
<1>2. /\ queue'["main"] = Put(queue["main"], m) /\ queue'["retry"] = Take(queue["retry"], m)
      /\ queue'["dead"] = queue["dead"] /\ queue["retry"][m] > 0
  BY <1>1 DEF RetryExpire, TypeOK, BrokerTypeOK, QueueName
<1>3. /\ Finite(e)' /\ Load("dead", e)' = Load("dead", e)
      /\ Load("main", e)' = IF m.key = e THEN Load("main", e) + 1 ELSE Load("main", e)
      /\ Load("retry", e)' = IF m.key = e THEN Load("retry", e) - 1 ELSE Load("retry", e)
  BY <1>2, QueuePut, QueueTake, QueueUnchanged, OutcomeCards DEF Finite
<1>4. /\ Credit(e)' = Credit(e) /\ outbound' = outbound /\ handled' = handled
      /\ Cardinality(Busy(e))' = Cardinality(Busy(e)) /\ Allowance' = Allowance
  BY DEF BrokerStep, relayVars, consumerVars, Credit, Busy, Allowance, SlotCount
<1> QED BY <1>3, <1>4, OutcomeCards DEF Outcomes

(* What a call does with the message it holds: the call counts one less    *)
(* for its key, and what becomes of it counts one more at most.            *)
LEMMA BusyLess ==
  ASSUME WorkersAssumption, NEW k, NEW w \in Workers, wpc[w] \in {"handle", "retry", "dead"},
         wmsg' = wmsg, NEW pc, wpc' = [wpc EXCEPT ![w] = pc], w \in DOMAIN wpc,
         pc \notin {"handle", "retry", "dead"}
  PROVE  Cardinality(Busy(k))' =
            IF wmsg[w].key = k THEN Cardinality(Busy(k)) - 1 ELSE Cardinality(Busy(k))
<1>1. Busy(k)' = Busy(k) \ {w} /\ (w \in Busy(k) <=> wmsg[w].key = k)
  BY DEF Busy
<1>2. IsFiniteSet(Busy(k))
  <2>1. Busy(k) \subseteq Workers
    BY DEF Busy
  <2> QED BY <2>1, FS_Subset DEF WorkersAssumption
<1> QED BY <1>1, <1>2, FS_RemoveElement

LEMMA ConsumerStepOutcomes ==
  ASSUME TypeOK, WorkersAssumption, ConsumerStep, NEW e \in Events, OutcomesFor(e)
  PROVE  OutcomesFor(e)'
<1> USE DEF OutcomesFor, TypeOK, ConsumerTypeOK
<1>0. /\ Credit(e)' = Credit(e) /\ outbound' = outbound /\ Allowance' = Allowance
      /\ e \in Keys
  BY DEF ConsumerStep, relayVars, Credit, Allowance, SlotCount, Keys
<1>c. /\ outbound[e] \in Nat /\ handled[e] \in Nat /\ Credit(e) \in {0, 1}
      /\ Load("main", e) \in Nat /\ Load("retry", e) \in Nat /\ Load("dead", e) \in Nat
      /\ Busy(e) \subseteq Workers /\ IsFiniteSet(Busy(e))
      /\ Cardinality(Busy(e)) \in Nat /\ Allowance \in Nat
  BY OutcomeCards
<1>q. UNCHANGED queue => /\ Finite(e)'
                         /\ \A n \in {"main", "retry", "dead"} : Load(n, e)' = Load(n, e)
  BY QueueUnchanged DEF Finite
<1>1. ASSUME NEW w \in Workers, NEW m \in Message, Receive(w, m)
      PROVE  OutcomesFor(e)'
  <2>1. /\ queue'["main"] = Take(queue["main"], m) /\ queue["main"][m] > 0
        /\ queue'["retry"] = queue["retry"] /\ queue'["dead"] = queue["dead"]
    BY <1>1 DEF Receive, BrokerTypeOK, QueueName
  <2>2. /\ Finite(e)' /\ Load("retry", e)' = Load("retry", e) /\ Load("dead", e)' = Load("dead", e)
        /\ Load("main", e)' = IF m.key = e THEN Load("main", e) - 1 ELSE Load("main", e)
    BY <2>1, QueueTake, QueueUnchanged, OutcomeCards DEF Finite
  <2>3. /\ w \notin Busy(e)
        /\ Busy(e)' \subseteq IF m.key = e THEN Busy(e) \cup {w} ELSE Busy(e)
    BY <1>1 DEF Receive, Busy
  <2>4. /\ IsFiniteSet(Busy(e) \cup {w})
        /\ Cardinality(Busy(e) \cup {w}) = Cardinality(Busy(e)) + 1
    BY <2>3, <1>c, FS_AddElement
  <2>5. /\ Cardinality(Busy(e)') \in Nat
        /\ Cardinality(Busy(e)') <= IF m.key = e THEN Cardinality(Busy(e)) + 1
                                                ELSE Cardinality(Busy(e))
    <3>1. CASE m.key = e
      <4>1. Busy(e)' \subseteq Busy(e) \cup {w}
        BY <2>3, <3>1
      <4> QED BY <3>1, <4>1, <2>4, FS_Subset, FS_CardinalityType
    <3>2. CASE m.key # e
      <4>1. Busy(e)' \subseteq Busy(e)
        BY <2>3, <3>2
      <4> QED BY <3>2, <4>1, <1>c, FS_Subset, FS_CardinalityType
    <3> QED BY <3>1, <3>2
  <2>6. handled' = handled
    BY <1>1 DEF Receive
  <2> QED BY <2>2, <2>5, <2>6, <1>0, <1>c DEF Outcomes
<1>2. ASSUME NEW w \in Workers, HandleResolves(w)
      PROVE  OutcomesFor(e)'
  <2>1. Cardinality(Busy(e))' =
           IF wmsg[w].key = e THEN Cardinality(Busy(e)) - 1 ELSE Cardinality(Busy(e))
    BY <1>2, BusyLess DEF HandleResolves
  <2>2. handled'[e] = IF wmsg[w].key = e THEN handled[e] + 1 ELSE handled[e]
    BY <1>0, <1>2, KeyTypes DEF HandleResolves
  <2> QED BY <1>2, <2>1, <2>2, <1>0, <1>c, <1>q DEF HandleResolves, Outcomes
<1>3. ASSUME NEW w \in Workers, HandleRejects(w)
      PROVE  OutcomesFor(e)'
  <2>1. Busy(e)' = Busy(e)
    BY <1>3 DEF HandleRejects, AfterFailure, Busy
  <2> QED BY <1>3, <2>1, <1>0, <1>c, <1>q DEF HandleRejects, Outcomes
<1>4. ASSUME NEW w \in Workers, SendToRetry(w)
      PROVE  OutcomesFor(e)'
  <2> DEFINE q == [wmsg[w] EXCEPT !.retry = @ + 1]
  <2>1. q \in Message /\ q.key = wmsg[w].key
    BY <1>4, MaxRetriesAssumption DEF SendToRetry, Message
  <2>2. /\ queue'["retry"] = Put(queue["retry"], q)
        /\ queue'["main"] = queue["main"] /\ queue'["dead"] = queue["dead"]
    BY <1>4 DEF SendToRetry, BrokerTypeOK, QueueName
  <2> HIDE DEF q
  <2>3. /\ Finite(e)' /\ Load("main", e)' = Load("main", e) /\ Load("dead", e)' = Load("dead", e)
        /\ Load("retry", e)' = IF wmsg[w].key = e THEN Load("retry", e) + 1 ELSE Load("retry", e)
    BY <2>1, <2>2, QueuePut, QueueUnchanged, OutcomeCards DEF Finite
  <2>4. Cardinality(Busy(e))' =
           IF wmsg[w].key = e THEN Cardinality(Busy(e)) - 1 ELSE Cardinality(Busy(e))
    BY <1>4, BusyLess DEF SendToRetry
  <2> QED BY <1>4, <2>3, <2>4, <1>0, <1>c DEF SendToRetry, Outcomes
<1>5. ASSUME NEW w \in Workers, SendToDead(w)
      PROVE  OutcomesFor(e)'
  <2>1. wmsg[w] \in Message
    BY <1>5 DEF SendToDead
  <2>2. /\ queue'["dead"] = Put(queue["dead"], wmsg[w])
        /\ queue'["main"] = queue["main"] /\ queue'["retry"] = queue["retry"]
    BY <1>5 DEF SendToDead, Publish, Bound, QueueName
  <2>3. /\ Finite(e)' /\ Load("main", e)' = Load("main", e) /\ Load("retry", e)' = Load("retry", e)
        /\ Load("dead", e)' = IF wmsg[w].key = e THEN Load("dead", e) + 1 ELSE Load("dead", e)
    BY <2>1, <2>2, QueuePut, QueueUnchanged, OutcomeCards DEF Finite
  <2>4. Cardinality(Busy(e))' =
           IF wmsg[w].key = e THEN Cardinality(Busy(e)) - 1 ELSE Cardinality(Busy(e))
    BY <1>5, BusyLess DEF SendToDead
  <2> QED BY <1>5, <2>3, <2>4, <1>0, <1>c DEF SendToDead, Outcomes
<1>6. ASSUME UNCHANGED <<queue, handled>>, Busy(e)' = Busy(e)
      PROVE  OutcomesFor(e)'
  BY <1>6, <1>0, <1>c, <1>q DEF Outcomes
<1>7. ASSUME NEW w \in Workers, MarkProcessed(w) \/ Ack(w)
      PROVE  OutcomesFor(e)'
  <2>1. Busy(e)' = Busy(e) /\ UNCHANGED <<queue, handled>>
    BY <1>7 DEF MarkProcessed, Ack, Busy
  <2> QED BY <2>1, <1>6
<1>8. ASSUME NEW k \in Keys, ForgetKey(k)
      PROVE  OutcomesFor(e)'
  BY <1>8, <1>6 DEF ForgetKey, Busy
<1> QED BY <1>1, <1>2, <1>3, <1>4, <1>5, <1>7, <1>8 DEF ConsumerStep

(* A replay is published under a key of its own.                           *)
LEMMA DeadLetterStepOutcomes ==
  ASSUME TypeOK, WorkersAssumption, DeadLetterStep, NEW e \in Events, OutcomesFor(e)
  PROVE  OutcomesFor(e)'
<1> USE DEF OutcomesFor
<1>0. /\ Credit(e)' = Credit(e) /\ UNCHANGED <<outbound, handled>> /\ Allowance' = Allowance
      /\ Cardinality(Busy(e))' = Cardinality(Busy(e))
  BY DEF DeadLetterStep, relayVars, consumerVars, Credit, Allowance, SlotCount, Busy
<1>1. \A n \in {"main", "retry", "dead"}, m \in Message : m.key = e => queue'[n][m] = queue[n][m]
  <2>1. ASSUME NEW o \in Operators, ReplayPublish(o)
        PROVE  \A n \in {"main", "retry", "dead"}, m \in Message :
                  m.key = e => queue'[n][m] = queue[n][m]
    <3> DEFINE r == replaying[o].row
               q == [event |-> deadRow[r].event, key |-> r, retry |-> 0]
    <3>1. r \in DeadRows /\ q.key # e
      BY <2>1, KeysAssumption, NoRowAssumption
      DEF ReplayPublish, TypeOK, DeadTypeOK, RowExists
    <3>2. \A n \in QueueName, m \in Message : m # q => queue'[n][m] = queue[n][m]
      BY <2>1 DEF ReplayPublish, Publish, Put, TypeOK, BrokerTypeOK
    <3> HIDE DEF q
    <3> QED BY <3>1, <3>2 DEF QueueName
  <2>2. ASSUME NEW d \in DeadSlots, NEW m \in Message, DeadReceive(d, m)
        PROVE  \A n \in {"main", "retry", "dead"} : queue'[n] = queue[n]
    BY <2>2 DEF DeadReceive, TypeOK, BrokerTypeOK, QueueName
  <2>3. CASE UNCHANGED queue
    BY <2>3
  <2> QED BY <2>1, <2>2, <2>3
          DEF DeadLetterStep, DeadSave, DeadAck, ReplayRead, ReplayMark, ReplayDies
<1>2. ASSUME NEW n \in {"main", "retry", "dead"}
      PROVE  Copies(queue[n], Under(e))' = Copies(queue[n], Under(e))
  BY <1>1 DEF Copies, Under
<1>3. Finite(e)' /\ \A n \in {"main", "retry", "dead"} : Load(n, e)' = Load(n, e)
  BY <1>2 DEF Finite, Load
<1> QED BY <1>0, <1>3, OutcomeCards DEF Outcomes

LEMMA CrashOutcomes ==
  ASSUME TypeOK, WorkersAssumption, DeadSlotsAssumption, Crash, NEW e \in Events, OutcomesFor(e)
  PROVE  OutcomesFor(e)'
<1> USE DEF OutcomesFor
<1>1. /\ Copies(queue["main"], Under(e))' = Copies(UnackedRequeued(queue["main"]), Under(e))
      /\ Copies(queue["retry"], Under(e))' = Copies(queue["retry"], Under(e))
      /\ Copies(queue["dead"], Under(e))' = Copies(queue["dead"], Under(e))
  BY DEF Crash, TypeOK, BrokerTypeOK, QueueName, Copies
<1>2. /\ IsFiniteSet(Copies(queue["main"], Under(e)))'
      /\ Load("main", e)' <= Load("main", e) + SlotCount
  <2> DEFINE bag == queue["main"]
             more == UnackedRequeued(bag)
  <2>1. bag \in Bag /\ more \in Bag
    BY OutcomeCards, RequeueType
  <2>2. more = [m \in Message |-> bag[m] + Cardinality({w \in Workers : wmsg[w] = m})]
    BY DEF UnackedRequeued
  <2>3. /\ IsFiniteSet(Copies(bag, Under(e))) /\ IsFiniteSet(Workers)
        /\ Under(e) \in SUBSET Message
    BY OfAndUnder DEF Finite, WorkersAssumption
  <2> HIDE DEF bag, more
  <2>4. /\ IsFiniteSet(Copies(more, Under(e)))
        /\ Cardinality(Copies(more, Under(e))) <= Cardinality(Copies(bag, Under(e))) + SlotCount
    BY <2>1, <2>2, <2>3, CopiesRequeued DEF SlotCount
  <2> QED BY <1>1, <2>4 DEF Load, bag, more
<1>3. /\ Finite(e)' /\ Load("main", e)' \in Nat
      /\ Load("retry", e)' = Load("retry", e) /\ Load("dead", e)' = Load("dead", e)
  BY <1>1, <1>2, FS_CardinalityType DEF Finite, Load
<1>4. Cardinality(Busy(e))' = 0
  <2>1. Busy(e)' = {}
    BY DEF Crash, WorkersStop, Busy
  <2> QED BY <2>1, FS_EmptySet
<1>5. outbound'[e] = 0 /\ handled'[e] = handled[e] /\ Credit(e)' \in {0, 1}
  BY DEF Crash, WorkersStop, Credit
<1>6. Allowance' = Allowance + 1 + SlotCount
  <2>1. crashes' = crashes + 1 /\ aborts' = aborts
    BY DEF Crash
  <2>2. 1 + SlotCount \in Nat
    BY OutcomeCards
  <2>3. /\ (1 + SlotCount) * (crashes + 1) = (1 + SlotCount) * crashes + (1 + SlotCount)
        /\ (1 + SlotCount) * crashes \in Nat
    BY <2>2, OutcomeCards, Budget
  <2> QED BY <2>1, <2>3, OutcomeCards DEF Allowance, SlotCount
<1> QED BY <1>2, <1>3, <1>4, <1>5, <1>6, OutcomeCards DEF Outcomes

LEMMA NextTodo ==
  ASSUME TypeOK, TodoInv, [Next]_vars
  PROVE  TodoInv'
<1> USE DEF TodoInv, TypeOK, RelayTypeOK
<1>1. CASE RelayStep
  BY <1>1 DEF RelayStep, Record, Flush, TickStart, TickCommit, TickAbort, TickPublish, Open
<1>2. CASE Crash
  BY <1>2 DEF Crash
<1>3. CASE UNCHANGED relayVars
  BY <1>3 DEF relayVars
<1> QED BY <1>1, <1>2, <1>3 DEF Next, BrokerStep, ConsumerStep, DeadLetterStep, vars

(* Whatever ticks, duplicates, retries and forgotten keys do, an event is  *)
(* handled or given up once, once more for each relay transaction that     *)
(* failed after its publish, and at most once per delivery slot and once   *)
(* for the unmarked row for each crash (outbox-relay.ts tick, consumer.ts  *)
(* handleFailure): the frames, copies, calls and pending publish of an     *)
(* event are together never more.                                          *)
THEOREM OutcomesAreBounded == Spec => []OutcomesBounded
<1> DEFINE OutcomesInv == LocksInv /\ TodoInv /\ \A e \in Events : OutcomesFor(e)
<1>1. Init => OutcomesInv
  <2> SUFFICES ASSUME Init PROVE OutcomesInv
    OBVIOUS
  <2>1. LocksInv /\ TodoInv
    BY DEF Init, RelayInit, LocksInv, TodoInv
  <2>2. ASSUME NEW e \in Events PROVE OutcomesFor(e)
    <3>1. \A n \in {"main", "retry", "dead"} : Copies(queue[n], Under(e)) = {}
      BY CopiesOfNone, OfAndUnder DEF Init, BrokerInit, QueueName
    <3>2. Finite(e) /\ Load("main", e) = 0 /\ Load("retry", e) = 0 /\ Load("dead", e) = 0
      BY <3>1, FS_EmptySet DEF Finite, Load
    <3>3. Busy(e) = {} /\ Cardinality(Busy(e)) = 0
      <4>1. Busy(e) = {}
        BY DEF Init, ConsumerInit, Busy
      <4> QED BY <4>1, FS_EmptySet
    <3>4. outbound[e] = 0 /\ handled[e] = 0 /\ Credit(e) \in {0, 1}
      BY DEF Init, RelayInit, ConsumerInit, Keys, Credit
    <3>5. aborts = 0 /\ (1 + SlotCount) * crashes \in Nat
      <4>1. aborts = 0 /\ crashes = 0
        BY DEF Init, RelayInit
      <4>2. 1 + SlotCount \in Nat
        BY FS_CardinalityType, WorkersAssumption DEF SlotCount, WorkersAssumption
      <4> QED BY <4>1, <4>2, Budget
    <3> QED BY <3>2, <3>3, <3>4, <3>5 DEF OutcomesFor, Outcomes, Allowance
  <2> QED BY <2>1, <2>2
<1>2. TypeOK /\ OutcomesInv /\ [Next]_vars => OutcomesInv'
  <2> SUFFICES ASSUME TypeOK, OutcomesInv, [Next]_vars PROVE OutcomesInv'
    OBVIOUS
  <2>1. LocksInv'
    <3>1. CASE RelayStep
      BY <3>1, RelayStepLocks
    <3>2. CASE Crash
      BY <3>2 DEF Crash, LocksInv
    <3>3. CASE UNCHANGED relayVars
      BY <3>3 DEF LocksInv, relayVars
    <3> QED BY <3>1, <3>2, <3>3 DEF Next, BrokerStep, ConsumerStep, DeadLetterStep, vars
  <2>2. TodoInv'
    BY NextTodo
  <2>3. ASSUME NEW e \in Events PROVE OutcomesFor(e)'
    <3>1. CASE UNCHANGED vars
      <4>1. /\ Finite(e)' <=> Finite(e)
            /\ \A n \in {"main", "retry", "dead"} : Load(n, e)' = Load(n, e)
        BY <3>1, QueueUnchanged DEF vars, Finite
      <4>2. Busy(e)' = Busy(e) /\ Credit(e)' = Credit(e)
        BY <3>1 DEF vars, relayVars, consumerVars, Busy, Credit
      <4>3. Allowance' = Allowance /\ UNCHANGED <<outbound, handled>>
        BY <3>1 DEF vars, relayVars, consumerVars, Allowance, SlotCount
      <4> QED BY <4>1, <4>2, <4>3 DEF OutcomesFor, Outcomes
    <3> QED BY <3>1, RelayStepOutcomes, BrokerStepOutcomes, ConsumerStepOutcomes,
               DeadLetterStepOutcomes, CrashOutcomes, WorkersAssumption, DeadSlotsAssumption
            DEF Next
  <2> QED BY <2>1, <2>2, <2>3
<1>3. TypeOK /\ OutcomesInv => OutcomesBounded
  <2> SUFFICES ASSUME TypeOK, NEW e \in Events, OutcomesFor(e)
               PROVE  handled[e] + Load("dead", e) <= Allowance
    BY DEF OutcomesBounded, Load, Allowance
  <2> QED BY OutcomeCards, WorkersAssumption DEF OutcomesFor, Outcomes
<1> QED BY <1>1, <1>2, <1>3, TypeCorrect, PTL DEF Spec
=============================================================================

--------------------------- MODULE EventLifecycle ---------------------------
(***************************************************************************)
(* What the event pipeline promises of each event, without queues,         *)
(* retries or processes: once recorded, it ends up handled, dead or - when *)
(* the process dies with it still in its write buffer - dropped.  A dead   *)
(* event can still be handled, when another copy of it is on its way.      *)
(***************************************************************************)
CONSTANT Events

VARIABLE phase

Phase == {"none", "recorded", "handled", "dead", "dropped"}

Init == phase = [e \in Events |-> "none"]

Move(e, from, to) ==
    /\ phase[e] = from
    /\ phase' = [phase EXCEPT ![e] = to]

Accept(e) == Move(e, "none", "recorded")

Resolve(e) == \E p \in {"handled", "dead"} : Move(e, "recorded", p)

LateCopy(e) == Move(e, "dead", "handled")

(* One crash can drop any number of events.                                *)
Drop(lost) ==
    /\ \A e \in lost : phase[e] = "recorded"
    /\ phase' = [e \in Events |-> IF e \in lost THEN "dropped" ELSE phase[e]]

Next ==
    \/ \E e \in Events : Accept(e) \/ Resolve(e) \/ LateCopy(e)
    \/ \E lost \in SUBSET Events : Drop(lost)

Spec == Init /\ [][Next]_phase

(* No recorded event stays recorded for ever.                              *)
EventuallySettled ==
    \A e \in Events : phase[e] = "recorded" ~> phase[e] # "recorded"
=============================================================================

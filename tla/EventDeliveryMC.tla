--------------------------- MODULE EventDeliveryMC ---------------------------
(* EventDelivery on small sets of model values, which are interchangeable. *)
EXTENDS EventDelivery, TLC

Slots == Permutations(Workers) \cup Permutations(Ticks)

Rows == Permutations(Events) \cup Permutations(Ticks)

Letters == Permutations(DeadSlots) \cup Permutations(DeadRows)
=============================================================================

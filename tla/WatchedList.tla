---------------------------- MODULE WatchedList ----------------------------
(***************************************************************************)
(* core/entity/watched-list.ts: the items of a list and what was added and *)
(* removed since it was made.  The array the constructor is given is both  *)
(* the current and the initial items, until one of them is replaced: what  *)
(* add pushes to the one shows in the other.  Order is left out, and the   *)
(* lists given hold no item twice.                                         *)
(***************************************************************************)
EXTENDS FiniteSets

CONSTANT Items

VARIABLES items,     \* currentItems
          initial,
          added,     \* new
          removed,
          shared     \* items and initial are one array

listVars == <<items, initial, added, removed, shared>>

(* new WatchedList(list), or without a list.                               *)
ListInit ==
    /\ initial \in SUBSET Items
    /\ items = initial
    /\ added = {}
    /\ removed = {}
    /\ shared \in BOOLEAN
    /\ ~shared => initial = {}

(* Mutant: an item that was removed is not taken from the removed ones.    *)
AddItemKeptRemoved(x) ==
    /\ added' = IF x \in initial THEN added ELSE added \cup {x}
    /\ items' = items \cup {x}
    /\ initial' = IF shared THEN initial \cup {x} ELSE initial
    /\ UNCHANGED <<removed, shared>>

AddItem(x) ==
    /\ removed' = removed \ {x}
    /\ added' = IF x \in initial THEN added ELSE added \cup {x}
    /\ items' = items \cup {x}
    /\ initial' = IF shared THEN initial \cup {x} ELSE initial
    /\ UNCHANGED shared

RemoveItem(x) ==
    /\ items' = items \ {x}
    /\ shared' = FALSE
    /\ IF x \in added THEN added' = added \ {x} /\ UNCHANGED removed
                      ELSE removed' = removed \cup {x} /\ UNCHANGED added
    /\ UNCHANGED initial

UpdateList(list) ==
    /\ items' = list
    /\ added' = list \ items
    /\ removed' = items \ list
    /\ shared' = FALSE
    /\ UNCHANGED initial

ListNext ==
    \/ \E x \in Items : AddItem(x) \/ RemoveItem(x)
    \/ \E list \in SUBSET Items : UpdateList(list)

ListTypeOK ==
    /\ items \subseteq Items /\ initial \subseteq Items
    /\ added \subseteq Items /\ removed \subseteq Items
    /\ shared \in BOOLEAN

(* What is to be inserted is in the list and what is to be deleted is not, *)
(* so no item is written and deleted at once, after any sequence of add,   *)
(* remove and update.                                                      *)
ChangesApart == added \subseteq items /\ removed \cap items = {}
=============================================================================

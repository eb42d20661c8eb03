------------------------------ MODULE BoardsMC ------------------------------
(* Boards on small sets of model values, which are interchangeable.        *)
EXTENDS Boards, TLC

Interchangeable ==
    Permutations(BoardIds) \cup Permutations(ColumnIds)
      \cup Permutations(CardIds)

(* The two slots race moves, creations and edits against each other and    *)
(* every deletion against every write of a card.                           *)
CONSTANTS r1, r2

Slots ==
    (r1 :> {"createBoard", "createColumn", "createCard", "moveCard", "updateCard", "deleteCard",
            "deleteColumn", "deleteBoard"})
      @@ (r2 :> {"createCard", "moveCard", "assignCard", "moveColumn", "renameBoard",
                 "getBoard", "listBoards"})
(* Position on lists longer than the run's: Nth counts as the sorted list  *)
(* does, and an item put at an index that has room has as many siblings    *)
(* below it as the index says.                                             *)
Lists == UNION {[1 .. n -> 0 .. 6] : n \in 0 .. 4}

ASSUME NthCountsInOrder ==
    \A list \in Lists : \A n \in 1 .. Length(list) :
        Nth(list, n) = SortSeq(list, <)[n]

ASSUME BetweenPlaces ==
    \A list \in Lists : \A index \in 0 .. Length(list) :
        Distinct(list) /\ HasRoom(list, index) => Below(list, Between(list, index)) = index
=============================================================================

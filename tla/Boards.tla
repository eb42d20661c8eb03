------------------------------- MODULE Boards -------------------------------
(***************************************************************************)
(* The boards of one workspace, their columns and cards.  A handler reads  *)
(* the row it is about and the siblings it must be placed among, then      *)
(* writes the whole row back from its copy; no row is locked or versioned  *)
(* in between.  Boards and columns are deleted with what they hold in one  *)
(* transaction, children first, under foreign keys that restrict.  Names,  *)
(* titles, assignees and the order of columns, which Position gives them   *)
(* as it gives it to cards, are not told apart.                            *)
(***************************************************************************)
EXTENDS Rbac, Integers, Sequences

CONSTANTS BoardIds, ColumnIds, CardIds,
          Requests,     \* requests the API can be serving at once
          NoRow,        \* no row has this id
          Clients,      \* bound: the operations each slot serves
          Roles,        \* bound: the roles of the accounts they come from
          MaxIndex,     \* bound: the index a client asks to move to
          Unit,         \* bound: positions are multiples of 1/Unit, halves round down
          MaxPosition   \* bound: the largest position, in 1/Unit

ASSUME UnitAssumption == Unit \in Nat \ {0} /\ MaxPosition \in Nat /\ MaxIndex \in Nat
ASSUME NoRowAssumption ==
    /\ NoRow \notin BoardIds \cup ColumnIds \cup CardIds
    /\ NoRow \notin [board : BoardIds, column : ColumnIds, position : Nat]
ASSUME CardIdsAssumption == IsFiniteSet(CardIds)

VARIABLES board,     \* ids of the boards there are
          column,    \* columns: the board of the row, or NoRow
          card,      \* cards: the row or NoRow
          request    \* what each request slot is doing

rows == <<board, column, card>>

vars == <<rows, request>>

Columns == {c \in ColumnIds : column[c] # NoRow}

Cards == {k \in CardIds : card[k] # NoRow}

-----------------------------------------------------------------------------

(* infra/http/controllers of the board module.  Every route but the two    *)
(* on a workspace is resolved to its board first; all check membership.    *)
CreateBoardController ==
    [resolves |-> FALSE, requires |-> {"board:create"}, status |-> [ok |-> 201]]

ListWorkspaceBoardsController ==
    [resolves |-> FALSE, requires |-> {}, status |-> [ok |-> 200]]

GetBoardController ==
    [resolves |-> TRUE, requires |-> {}, status |-> [ok |-> 200, NotFound |-> 404]]

RenameBoardController ==
    [resolves |-> TRUE, requires |-> {"board:edit"}, status |-> [ok |-> 200, NotFound |-> 404]]

DeleteBoardController ==
    [resolves |-> TRUE, requires |-> {"board:delete"}, status |-> [ok |-> 204, NotFound |-> 404]]

CreateColumnController ==
    [resolves |-> TRUE, requires |-> {"board:edit"}, status |-> [ok |-> 201]]

MoveColumnController ==
    [resolves |-> TRUE, requires |-> {"board:edit"}, status |-> [ok |-> 200, NotFound |-> 404]]

DeleteColumnController ==
    [resolves |-> TRUE, requires |-> {"board:edit"}, status |-> [ok |-> 204, NotFound |-> 404]]

CreateCardController ==
    [resolves |-> TRUE, requires |-> {"card:create"}, status |-> [ok |-> 201, NotFound |-> 404]]

UpdateCardController ==
    [resolves |-> TRUE, requires |-> {"card:edit"}, status |-> [ok |-> 200, NotFound |-> 404]]

AssignCardController ==
    [resolves |-> TRUE, requires |-> {"card:assign"},
     status |-> [ok |-> 200, NotFound |-> 404, AccountNotWorkspaceMember |-> 409]]

MoveCardController ==
    [resolves |-> TRUE, requires |-> {"card:move"},
     status |-> [ok |-> 200, NotFound |-> 404, ColumnNotInBoard |-> 409]]

DeleteCardController ==
    [resolves |-> TRUE, requires |-> {"card:delete"}, status |-> [ok |-> 204, NotFound |-> 404]]

BoardControllerOf ==
    [createBoard |-> CreateBoardController, listBoards |-> ListWorkspaceBoardsController,
     getBoard |-> GetBoardController, renameBoard |-> RenameBoardController,
     deleteBoard |-> DeleteBoardController, createColumn |-> CreateColumnController,
     moveColumn |-> MoveColumnController, deleteColumn |-> DeleteColumnController,
     createCard |-> CreateCardController, updateCard |-> UpdateCardController,
     assignCard |-> AssignCardController, moveCard |-> MoveCardController,
     deleteCard |-> DeleteCardController]

Operation == DOMAIN BoardControllerOf

ASSUME ClientsAssumption == \A r \in Requests : Clients[r] \subseteq Operation

(* The first step of each handler.                                         *)
FirstStep ==
    [createBoard |-> "insert", listBoards |-> "answer", getBoard |-> "findBoard",
     renameBoard |-> "findBoard", deleteBoard |-> "findBoard", createColumn |-> "insert",
     moveColumn |-> "findColumn", deleteColumn |-> "findColumn", createCard |-> "findColumn",
     updateCard |-> "findCard", assignCard |-> "findCard", moveCard |-> "findCard",
     deleteCard |-> "findCard"]

-----------------------------------------------------------------------------

(* Position (domain/value-objects/position.ts); `list` maps the siblings   *)
(* to their positions.                                                     *)
First == Unit

Positions(list) == {list[x] : x \in DOMAIN list}

Below(list, p) == Cardinality({x \in DOMAIN list : list[x] < p})

UpTo(list, p) == Cardinality({x \in DOMAIN list : list[x] <= p})

(* The position of the n-th sibling, counted from 1.                       *)
Nth(list, n) == CHOOSE p \in Positions(list) : Below(list, p) < n /\ n <= UpTo(list, p)

Length(list) == Cardinality(DOMAIN list)

After(list) ==
    IF DOMAIN list = {} THEN First ELSE Nth(list, Length(list)) + Unit

(* Position.between of the siblings at index - 1 and index: past the end   *)
(* of the list there is neither, and the item goes to the first position.  *)
Between(list, index) ==
    LET hasBefore == index \in 1 .. Length(list)
        hasAfter  == index \in 0 .. Length(list) - 1
    IN  CASE ~hasBefore /\ ~hasAfter -> First
          [] ~hasBefore /\ hasAfter  -> Nth(list, 1) \div 2
          [] hasBefore /\ ~hasAfter  -> Nth(list, index) + Unit
          [] hasBefore /\ hasAfter   -> (Nth(list, index) + Nth(list, index + 1)) \div 2

(* findAllByColumnId without the card itself.                              *)
CardsOf(c, k) == [x \in {x \in Cards \ {k} : card[x].column = c} |-> card[x].position]

-----------------------------------------------------------------------------

NoList == [x \in {} |-> 0]

(* `copy` is the row the handler read, `list` the siblings it read; a      *)
(* transaction has deleted the cards `doomed` and the columns `dropped`.   *)
Idle ==
    [op |-> "none", at |-> "idle", board |-> NoRow, column |-> NoRow, card |-> NoRow,
     copy |-> NoRow, list |-> NoList, doomed |-> {}, dropped |-> {}, reply |-> 0]

Init ==
    /\ board = {}
    /\ column = [c \in ColumnIds |-> NoRow]
    /\ card = [k \in CardIds |-> NoRow]
    /\ request = [r \in Requests |-> Idle]

At(r, ops, at) == request[r].op \in ops /\ request[r].at = at

Goto(r, at) == request' = [request EXCEPT ![r].at = at]

Finish(r, status) == request' = [request EXCEPT ![r] = [Idle EXCEPT !.reply = status]]

Reply(r, result) == Finish(r, BoardControllerOf[request[r].op].status[result])

(* The id a request's path names, of a row there is or was.  The rest of   *)
(* its input is chosen where it is first used: the column and the index a  *)
(* card moves to, and the id a new row gets, which no request has named.   *)
Named(op) ==
    CASE op \in {"getBoard", "renameBoard", "deleteBoard", "createColumn"} -> BoardIds
      [] op \in {"moveColumn", "deleteColumn", "createCard"} -> ColumnIds
      [] op \in {"updateCard", "assignCard", "moveCard", "deleteCard"} -> CardIds
      [] OTHER -> {NoRow}

Fresh(id) ==
    \A q \in Requests :
        /\ id \notin {request[q].board, request[q].column, request[q].card}
        /\ request[q].copy # NoRow =>
             \A f \in DOMAIN request[q].copy : request[q].copy[f] # id

(* ResolveBoardWorkspaceMiddleware: from the first id of the path.         *)
BoardOf(id) ==
    CASE id \in Columns -> column[id]
      [] id \in Cards   -> card[id].board
      [] OTHER          -> id

(* A request of an account whose role is `role` reaches its controller.    *)
Arrive(r, op, role) ==
    LET controller == BoardControllerOf[op]
    IN  /\ request[r].at = "idle"
        /\ \E id \in Named(op) :
           CASE (controller.resolves /\ BoardOf(id) \notin board) \/ role = None -> Finish(r, 404)
             [] /\ ~controller.resolves \/ BoardOf(id) \in board
                /\ role # None
                /\ ~(controller.requires \subseteq PermissionsOf[role]) -> Finish(r, 403)
             [] OTHER -> request' = [request EXCEPT ![r] =
                  [Idle EXCEPT !.op = op, !.at = FirstStep[op],
                      !.board = IF id \in BoardIds THEN id ELSE NoRow,
                      !.column = IF id \in ColumnIds THEN id ELSE NoRow,
                      !.card = IF id \in CardIds THEN id ELSE NoRow]]
        /\ UNCHANGED rows

-----------------------------------------------------------------------------

(* The reads.  findById of a row that is gone answers 404.                 *)
FindBoard(r) ==
    /\ request[r].at = "findBoard"
    /\ IF request[r].board \notin board THEN Reply(r, "NotFound")
       ELSE Goto(r, CASE request[r].op = "getBoard" -> "answer"
                      [] request[r].op = "renameBoard" -> "saveBoard"
                      [] request[r].op = "deleteBoard" -> "dropCards")
    /\ UNCHANGED rows

(* Mutant: the column's id is taken for its board's.                       *)
FindColumnOnItself(r) ==
    LET req == request[r]
        row == column[req.column]
    IN  /\ At(r, {"moveColumn", "deleteColumn", "createCard"}, "findColumn")
        /\ IF row = NoRow THEN Reply(r, "NotFound")
           ELSE request' = [request EXCEPT ![r].board = req.column,
                  ![r].at = CASE req.op = "moveColumn"   -> "saveColumn"
                              [] req.op = "deleteColumn" -> "dropCards"
                              [] req.op = "createCard"   -> "siblings"]
        /\ UNCHANGED rows

FindColumn(r) ==
    LET req == request[r]
        row == column[req.column]
    IN  /\ At(r, {"moveColumn", "deleteColumn", "createCard"}, "findColumn")
        /\ IF row = NoRow THEN Reply(r, "NotFound")
           ELSE request' = [request EXCEPT ![r].board = row,
                  ![r].at = CASE req.op = "moveColumn"   -> "saveColumn"
                              [] req.op = "deleteColumn" -> "dropCards"
                              [] req.op = "createCard"   -> "siblings"]
        /\ UNCHANGED rows

(* Mutant: any column will do.                                             *)
FindTargetColumnAnywhere(r, c) ==
    /\ At(r, {"moveCard"}, "findColumn")
    /\ IF c \notin Columns THEN Reply(r, "NotFound")
       ELSE request' = [request EXCEPT ![r].column = c, ![r].at = "siblings"]
    /\ UNCHANGED rows

FindTargetColumn(r, c) ==
    /\ At(r, {"moveCard"}, "findColumn")
    /\ CASE c \notin Columns -> Reply(r, "NotFound")
         [] c \in Columns /\ column[c] # request[r].copy.board -> Reply(r, "ColumnNotInBoard")
         [] OTHER -> request' = [request EXCEPT ![r].column = c, ![r].at = "siblings"]
    /\ UNCHANGED rows

FindCard(r) ==
    LET req == request[r]
        row == card[req.card]
    IN  /\ req.at = "findCard"
        /\ IF row = NoRow THEN Reply(r, "NotFound")
           ELSE request' = [request EXCEPT
                  ![r].copy = IF req.op = "deleteCard" THEN NoRow ELSE row,
                  ![r].at = CASE req.op = "updateCard" -> "save"
                              [] req.op = "assignCard" -> "findAssignee"
                              [] req.op = "moveCard" -> "findColumn"
                              [] req.op = "deleteCard" -> "delete"]
        /\ UNCHANGED rows

(* AssignCardHandler: nobody, or an account the role cache or its table    *)
(* says is a member of the board's workspace.                              *)
FindAssignee(r, nobody, isMember) ==
    /\ request[r].at = "findAssignee"
    /\ CASE ~nobody /\ request[r].copy.board \notin board -> Reply(r, "NotFound")
         [] ~nobody /\ request[r].copy.board \in board /\ ~isMember ->
              Reply(r, "AccountNotWorkspaceMember")
         [] OTHER -> Goto(r, "save")
    /\ UNCHANGED rows

(* Mutant: a card is one of its own siblings.                              *)
ReadSiblingsAndItself(r) ==
    LET req == request[r]
    IN  /\ req.at = "siblings"
        /\ request' = [request EXCEPT
             ![r].at = IF req.op = "createCard" THEN "insert" ELSE "save",
             ![r].list = CardsOf(req.column, NoRow)]
        /\ UNCHANGED rows

(* The siblings the card is placed among, as they are now.                 *)
ReadSiblings(r) ==
    LET req == request[r]
    IN  /\ req.at = "siblings"
        /\ request' = [request EXCEPT
             ![r].at = IF req.op = "createCard" THEN "insert" ELSE "save",
             ![r].list = CardsOf(req.column, req.card)]
        /\ UNCHANGED rows

(* The board with the columns and cards there are at this moment.          *)
GetBoard(r) ==
    /\ At(r, {"getBoard"}, "answer")
    /\ Reply(r, "ok")
    /\ UNCHANGED rows

ListWorkspaceBoards(r) ==
    /\ At(r, {"listBoards"}, "answer")
    /\ Reply(r, "ok")
    /\ UNCHANGED rows

-----------------------------------------------------------------------------

(* The writes.  One on a row that a transaction has deleted waits for it.  *)
CardLocked(k) == \E q \in Requests : k \in request[q].doomed

ColumnLocked(c) == \E q \in Requests : c \in request[q].dropped

InsertBoard(r, b) ==
    /\ At(r, {"createBoard"}, "insert")
    /\ b \notin board /\ Fresh(b)
    /\ board' = board \cup {b}
    /\ Reply(r, "ok")
    /\ UNCHANGED <<column, card>>

InsertColumn(r, c) ==
    LET req == request[r]
    IN  /\ At(r, {"createColumn"}, "insert")
        /\ c \notin Columns /\ Fresh(c)
        /\ IF req.board \in board
           THEN column' = [column EXCEPT ![c] = req.board] /\ Reply(r, "ok")
           ELSE Finish(r, 500) /\ UNCHANGED column
        /\ UNCHANGED <<board, card>>

InsertCard(r, k) ==
    LET req == request[r]
    IN  /\ At(r, {"createCard"}, "insert")
        /\ k \notin Cards /\ Fresh(k)
        /\ After(req.list) <= MaxPosition
        /\ ~ColumnLocked(req.column)
        /\ IF req.column \in Columns
           THEN /\ card' = [card EXCEPT ![k] = [board |-> req.board, column |-> req.column,
                                               position |-> After(req.list)]]
                /\ Reply(r, "ok")
           ELSE Finish(r, 500) /\ UNCHANGED card
        /\ UNCHANGED <<board, column>>

(* UPDATE by id of every column of the row: it matches nothing when the    *)
(* row is gone, and the handler answers as if it had.                      *)
SaveBoard(r) ==
    /\ request[r].at = "saveBoard"
    /\ Reply(r, "ok")
    /\ UNCHANGED rows

SaveColumn(r) ==
    /\ request[r].at = "saveColumn"
    /\ ~ColumnLocked(request[r].column)
    /\ Reply(r, "ok")
    /\ UNCHANGED rows

CardSaved(r, index) ==
    IF request[r].op = "moveCard"
    THEN [request[r].copy EXCEPT !.column = request[r].column,
             !.position = Between(request[r].list, index)]
    ELSE request[r].copy

(* The foreign key is looked at when the column id changes.                *)
SaveCard(r, index) ==
    LET k   == request[r].card
        new == CardSaved(r, index)
    IN  /\ At(r, {"updateCard", "assignCard", "moveCard"}, "save")
        /\ new.position <= MaxPosition
        /\ ~CardLocked(k)
        /\ CASE k \notin Cards -> Reply(r, "ok") /\ UNCHANGED card
             [] k \in Cards /\ (new.column = card[k].column \/ new.column \in Columns) ->
                  /\ new.column # card[k].column => ~ColumnLocked(new.column)
                  /\ card' = [card EXCEPT ![k] = new]
                  /\ Reply(r, "ok")
             [] k \in Cards /\ new.column # card[k].column /\ new.column \notin Columns ->
                  Finish(r, 500) /\ UNCHANGED card
        /\ UNCHANGED <<board, column>>

DeleteCard(r) ==
    /\ At(r, {"deleteCard"}, "delete")
    /\ ~CardLocked(request[r].card)
    /\ card' = [card EXCEPT ![request[r].card] = NoRow]
    /\ Reply(r, "ok")
    /\ UNCHANGED <<board, column>>

-----------------------------------------------------------------------------

(* DeleteColumnHandler and DeleteBoardHandler: cards, then columns, then   *)
(* the board.  What others commit meanwhile is seen by the next statement; *)
(* a row that still refers to a deleted one aborts the transaction.        *)
Held(r, k) ==
    IF request[r].op = "deleteBoard" THEN card[k].board = request[r].board
                                     ELSE card[k].column = request[r].column

DropCards(r) ==
    LET doomed == {k \in Cards : Held(r, k)}
    IN  /\ request[r].at = "dropCards"
        /\ \A k \in doomed : ~CardLocked(k)
        /\ request' = [request EXCEPT ![r].doomed = doomed, ![r].at = "dropColumns"]
        /\ UNCHANGED rows

DropColumns(r) ==
    LET req     == request[r]
        dropped == IF req.op = "deleteBoard" THEN {c \in Columns : column[c] = req.board}
                                             ELSE {req.column} \cap Columns
    IN  /\ req.at = "dropColumns"
        /\ \A c \in dropped : ~ColumnLocked(c)
        /\ IF \E k \in Cards \ req.doomed : card[k].column \in dropped THEN Finish(r, 500)
           ELSE request' = [request EXCEPT ![r].dropped = dropped, ![r].at = "commit"]
        /\ UNCHANGED rows

Commit(r) ==
    LET req == request[r]
        orphaned == /\ req.op = "deleteBoard"
                    /\ \/ \E c \in Columns \ req.dropped : column[c] = req.board
                       \/ \E k \in Cards \ req.doomed : card[k].board = req.board
    IN  /\ req.at = "commit"
        /\ IF orphaned THEN Finish(r, 500) /\ UNCHANGED rows
           ELSE /\ board' = IF req.op = "deleteBoard" THEN board \ {req.board} ELSE board
                /\ column' = [c \in ColumnIds |-> IF c \in req.dropped THEN NoRow ELSE column[c]]
                /\ card' = [k \in CardIds |-> IF k \in req.doomed THEN NoRow ELSE card[k]]
                /\ Reply(r, "ok")

(* A query rejects or the process stops: an open transaction rolls back.   *)
Die(r) ==
    /\ request[r].at # "idle"
    /\ Finish(r, 500)
    /\ UNCHANGED rows

-----------------------------------------------------------------------------

Handler(r) ==
    \/ FindBoard(r) \/ FindColumn(r) \/ FindCard(r)
    \/ \E c \in ColumnIds : FindTargetColumn(r, c)
    \/ \E nobody, isMember \in BOOLEAN : FindAssignee(r, nobody, isMember)
    \/ ReadSiblings(r) \/ GetBoard(r) \/ ListWorkspaceBoards(r)
    \/ \E b \in BoardIds : InsertBoard(r, b)
    \/ \E c \in ColumnIds : InsertColumn(r, c)
    \/ \E k \in CardIds : InsertCard(r, k)
    \/ \E index \in 0 .. MaxIndex : SaveCard(r, index)
    \/ SaveBoard(r) \/ SaveColumn(r) \/ DeleteCard(r)
    \/ DropCards(r) \/ DropColumns(r) \/ Commit(r)

Next ==
    \E r \in Requests :
        \/ \E op \in Clients[r], role \in Roles : Arrive(r, op, role)
        \/ Handler(r)
        \/ Die(r)

Spec == Init /\ [][Next]_vars

-----------------------------------------------------------------------------

CardRow == [board : BoardIds, column : ColumnIds, position : Nat]

TypeOK ==
    /\ board \subseteq BoardIds
    /\ column \in [ColumnIds -> BoardIds \cup {NoRow}]
    /\ card \in [CardIds -> CardRow \cup {NoRow}]
    /\ \A r \in Requests :
         /\ request[r].op \in Operation \cup {"none"}
         /\ request[r].board \in BoardIds \cup {NoRow}
         /\ request[r].column \in ColumnIds \cup {NoRow}
         /\ request[r].card \in CardIds \cup {NoRow}
         /\ request[r].copy \in CardRow \cup {NoRow}
         /\ request[r].doomed \subseteq CardIds
         /\ request[r].dropped \subseteq ColumnIds

(* FR-007, FR-010, FR-012: however moves, edits and deletions interleave,  *)
(* a card stands in a column of its own board and a column in a board:     *)
(* nothing is left behind by a deleted parent or carried to another board  *)
(* by a stale copy.                                                        *)
NoOrphans ==
    /\ \A c \in Columns : column[c] \in board
    /\ \A k \in Cards : /\ card[k].column \in Columns
                         /\ card[k].board = column[card[k].column]

Distinct(list) == \A x, y \in DOMAIN list : list[x] = list[y] => x = y

HasRoom(list, index) == Between(list, index) \notin Positions(list)

(* The siblings request r placed its card among are still the siblings.    *)
PlacedAmongAll(r, k, others) ==
    others = CardsOf(request[r].column, k)

(* FR-005 and FR-006: while nobody else changes the column, a new card     *)
(* stands after all others (CreateCardHandler) and a moved one at the      *)
(* index asked for (MoveCardHandler, Position.between), unless two         *)
(* siblings are tied already, the midpoint is out of precision, or the     *)
(* index is past the end.  A tie needs two requests in one column at once. *)
PlacedWhereAsked ==
    [][\A r \in Requests, k \in CardIds :
          LET list   == request[r].list
              others == [x \in DOMAIN list \ {k} |-> list[x]]
          IN  /\ /\ InsertCard(r, k) /\ k \notin Cards /\ card'[k] # NoRow
                 /\ PlacedAmongAll(r, k, others)
                 => Below(others, card'[k].position) = Length(others)
              /\ \A index \in 0 .. MaxIndex :
                   /\ At(r, {"moveCard"}, "save") /\ k = request[r].card /\ k \in Cards
                   /\ PlacedAmongAll(r, k, others)
                   /\ SaveCard(r, index) /\ request'[r].reply = MoveCardController.status.ok
                   /\ Distinct(others) /\ HasRoom(others, index) /\ index <= Length(others)
                   => Below(others, card'[k].position) = index]_vars
=============================================================================

---------------------------- MODULE Boards_proofs ----------------------------
(***************************************************************************)
(* Proofs about Boards, for any number of boards, columns, cards and       *)
(* requests: type correctness, that nothing loses its parent, and that     *)
(* cards stand where they were asked.                                      *)
(***************************************************************************)
EXTENDS Boards, FiniteSetTheorems, WellFoundedInduction, TLAPS

Step == {"idle", "insert", "answer", "findBoard", "findColumn", "findCard", "findAssignee",
         "siblings", "saveBoard", "saveColumn", "save", "delete", "dropCards", "dropColumns",
         "commit"}

SiblingList == UNION {[S -> Nat] : S \in SUBSET CardIds}

RequestRecord ==
    [op : Operation \cup {"none"}, at : Step, board : BoardIds \cup {NoRow},
     column : ColumnIds \cup {NoRow}, card : CardIds \cup {NoRow}, copy : CardRow \cup {NoRow},
     list : SiblingList, doomed : SUBSET CardIds, dropped : SUBSET ColumnIds, reply : Nat]

(* The operations that get to a step.                                      *)
OpsAt(at) ==
    CASE at = "insert"       -> {"createBoard", "createColumn", "createCard"}
      [] at = "answer"       -> {"listBoards", "getBoard"}
      [] at = "findBoard"    -> {"getBoard", "renameBoard", "deleteBoard"}
      [] at = "findColumn"   -> {"moveColumn", "deleteColumn", "createCard", "moveCard"}
      [] at = "findCard"     -> {"updateCard", "assignCard", "moveCard", "deleteCard"}
      [] at = "findAssignee" -> {"assignCard"}
      [] at = "siblings"     -> {"createCard", "moveCard"}
      [] at = "saveBoard"    -> {"renameBoard"}
      [] at = "saveColumn"   -> {"moveColumn"}
      [] at = "save"         -> {"updateCard", "assignCard", "moveCard"}
      [] at = "delete"       -> {"deleteCard"}
      [] at \in {"dropCards", "dropColumns", "commit"} -> {"deleteBoard", "deleteColumn"}
      [] OTHER               -> Operation \cup {"none"}

(* A request has what its next step uses.                                  *)
Good(req) ==
    /\ req \in RequestRecord
    /\ req.op \in OpsAt(req.at)
    /\ req.op = "createColumn" /\ req.at = "insert" => req.board \in BoardIds
    /\ req.op = "createCard" /\ req.at = "insert" => req.board \in BoardIds
    /\ req.op = "createCard" /\ req.at = "siblings" => req.board \in BoardIds
    /\ req.op \in {"createCard", "moveColumn", "deleteColumn"} => req.column \in ColumnIds
    /\ req.op \in {"updateCard", "assignCard", "moveCard", "deleteCard"} => req.card \in CardIds
    /\ req.op = "moveCard" /\ req.at \in {"siblings", "save"} => req.column \in ColumnIds
    /\ req.op = "moveCard" /\ req.at # "findCard" => req.copy \in CardRow
    /\ req.op = "assignCard" /\ req.at # "findCard" => req.copy \in CardRow
    /\ req.op = "updateCard" /\ req.at # "findCard" => req.copy \in CardRow
    /\ req.op = "moveCard" /\ req.at = "save" => req.card \notin DOMAIN req.list

(* What a request has read and is about to write agrees with the columns   *)
(* that are still there, and a transaction that has deleted columns has    *)
(* also deleted every card in them.                                        *)
Fits(req) ==
    /\ req.copy # NoRow /\ req.copy.column \in Columns => column[req.copy.column] = req.copy.board
    /\ req.op = "moveCard" /\ req.at \in {"siblings", "save"} /\ req.column \in Columns =>
          column[req.column] = req.copy.board
    /\ req.op = "createCard" /\ req.at \in {"siblings", "insert"} /\ req.column \in Columns =>
          column[req.column] = req.board
    /\ req.at = "commit" => \A k \in Cards \ req.doomed : card[k].column \notin req.dropped

RequestsOK ==
    /\ request \in [Requests -> RequestRecord]
    /\ \A r \in Requests : Good(request[r]) /\ Fits(request[r])

RowsOK ==
    /\ board \subseteq BoardIds
    /\ column \in [ColumnIds -> BoardIds \cup {NoRow}]
    /\ card \in [CardIds -> CardRow \cup {NoRow}]

BoardInv == RowsOK /\ NoOrphans /\ RequestsOK

LEMMA InvIsTyped == BoardInv => TypeOK
BY DEF BoardInv, RowsOK, RequestsOK, RequestRecord, TypeOK

-----------------------------------------------------------------------------
(* Positions.                                                              *)

LEMMA LeastOf ==
  ASSUME NEW T \in SUBSET Nat, T # {}
  PROVE  \E x \in T : \A y \in T : x <= y
<1> DEFINE R == OpToRel(<, Nat)
<1>1. IsWellFoundedOn(R, Nat)
  BY NatLessThanWellFounded
<1>2. \A x, y \in Nat : y < x => <<y, x>> \in R
  BY DEF OpToRel
<1> HIDE DEF R
<1>3. PICK x \in T : \A y \in T : ~ (<<y, x>> \in R)
  BY <1>1, WFMin
<1>4. \A y \in T : x \in Nat /\ y \in Nat /\ ~ (y < x)
  BY <1>2, <1>3
<1>5. \A y \in T : x <= y
  BY <1>4
<1> QED BY <1>5

LEMMA HighestOf ==
  ASSUME NEW D, IsFiniteSet(D), D # {}, NEW f, \A x \in D : f[x] \in Nat
  PROVE  \E x \in D : \A y \in D : f[y] <= f[x]
<1> DEFINE above(x) == {y \in D : f[y] > f[x]}
           T == {Cardinality(above(x)) : x \in D}
<1>1. \A x \in D : IsFiniteSet(above(x)) /\ Cardinality(above(x)) \in Nat
  BY FS_Subset, FS_CardinalityType
<1>2. PICK x \in D : \A y \in D : Cardinality(above(x)) <= Cardinality(above(y))
  <2>1. T \in SUBSET Nat /\ T # {}
    BY <1>1
  <2>2. PICK m \in T : \A n \in T : m <= n
    BY <2>1, LeastOf
  <2> QED BY ZenonT(30), <2>2
<1>3. ASSUME NEW y \in D, f[y] > f[x] PROVE FALSE
  <2>1. above(y) \in SUBSET above(x) /\ y \in above(x) /\ y \notin above(y)
    BY <1>3
  <2> HIDE DEF above
  <2>2. Cardinality(above(y)) <= Cardinality(above(x)) /\ Cardinality(above(x)) # Cardinality(above(y))
    BY <1>1, <2>1, FS_Subset
  <2> QED BY <1>1, <1>2, <2>2
<1> QED BY <1>3

(* Siblings and their positions.                                           *)
IsList(list) == IsFiniteSet(DOMAIN list) /\ \A x \in DOMAIN list : list[x] \in Nat

LEMMA Counts ==
  ASSUME NEW list, IsList(list), NEW p \in Int
  PROVE  /\ Below(list, p) \in Nat /\ UpTo(list, p) \in Nat /\ Length(list) \in Nat
         /\ Below(list, p) <= UpTo(list, p) /\ UpTo(list, p) <= Length(list)
<1> DEFINE B == {x \in DOMAIN list : list[x] < p}
           U == {x \in DOMAIN list : list[x] <= p}
<1>1. B \in SUBSET U /\ U \in SUBSET DOMAIN list
  BY DEF IsList
<1> HIDE DEF B, U
<1>2. IsFiniteSet(U) /\ IsFiniteSet(B)
  BY <1>1, FS_Subset DEF IsList
<1>3. /\ Cardinality(B) <= Cardinality(U) /\ Cardinality(U) <= Cardinality(DOMAIN list)
      /\ Cardinality(B) \in Nat /\ Cardinality(U) \in Nat /\ Cardinality(DOMAIN list) \in Nat
  BY <1>1, <1>2, FS_Subset, FS_CardinalityType DEF IsList
<1> QED BY <1>3 DEF Below, UpTo, Length, B, U

(* Of some of the siblings the last one.                                   *)
LEMMA LastOf ==
  ASSUME NEW list, IsList(list), NEW D \in SUBSET DOMAIN list, D # {}
  PROVE  \E q \in Positions(list) : (\E x \in D : q = list[x]) /\ \A y \in D : list[y] <= q
<1>1. IsFiniteSet(D)
  BY FS_Subset DEF IsList
<1>2. PICK x \in D : \A y \in D : list[y] <= list[x]
  BY <1>1, HighestOf DEF IsList
<1> QED BY <1>2 DEF Positions

(* Position n of a list is the position of one of its siblings, with fewer *)
(* than n siblings below it and n or more up to it.                        *)
LEMMA NthIs ==
  ASSUME NEW list, IsList(list), NEW n \in 1 .. Length(list)
  PROVE  /\ Nth(list, n) \in Positions(list) /\ Nth(list, n) \in Nat
         /\ Below(list, Nth(list, n)) < n /\ n <= UpTo(list, Nth(list, n))
<1> DEFINE T == {p \in Positions(list) : n <= UpTo(list, p)}
<1>1. Positions(list) \in SUBSET Nat
  BY DEF Positions, IsList
<1>2. Length(list) \in Nat /\ n \in Nat /\ n > 0 /\ n <= Length(list)
  BY FS_CardinalityType DEF Length, IsList
<1>3. T # {}
  <2>1. DOMAIN list # {}
    BY <1>2, FS_EmptySet DEF Length
  <2>2. PICK q \in Positions(list) : \A y \in DOMAIN list : list[y] <= q
    BY <2>1, LastOf
  <2>3. {x \in DOMAIN list : list[x] <= q} = DOMAIN list
    BY <2>2
  <2>4. UpTo(list, q) = Length(list)
    BY <2>3 DEF UpTo, Length
  <2> QED BY <1>2, <2>4
<1>4. PICK p \in T : \A q \in T : p <= q
  BY <1>1, <1>3, LeastOf
<1>5. p \in Nat /\ p \in Positions(list) /\ n <= UpTo(list, p)
  BY <1>1, <1>4
<1>6. Below(list, p) < n
  <2> SUFFICES ASSUME Below(list, p) >= n PROVE FALSE
    BY <1>2, <1>5, Counts
  <2> DEFINE B == {x \in DOMAIN list : list[x] < p}
  <2>1. B # {}
    BY <1>2, FS_EmptySet DEF Below
  <2>2. PICK q \in Positions(list) : (\E x \in B : q = list[x]) /\ \A y \in B : list[y] <= q
    BY <2>1, LastOf
  <2>3. q < p /\ q \in Nat
    BY <2>2 DEF IsList
  <2>4. {x \in DOMAIN list : list[x] <= q} = B
    BY <1>5, <2>2, <2>3 DEF IsList
  <2>5. UpTo(list, q) = Below(list, p)
    BY <2>4 DEF UpTo, Below
  <2>6. q \in T
    BY <2>2, <2>5
  <2> QED BY <1>4, <1>5, <2>3, <2>6
<1>7. \E q \in Positions(list) : Below(list, q) < n /\ n <= UpTo(list, q)
  BY <1>5, <1>6
<1>8. Nth(list, n) \in Positions(list) /\ Below(list, Nth(list, n)) < n /\ n <= UpTo(list, Nth(list, n))
  BY <1>7 DEF Nth
<1> QED BY <1>1, <1>8

(* A position all siblings are up to, and one all are below.               *)
LEMMA AllUpTo ==
  ASSUME NEW list, IsList(list), NEW p \in Int, UpTo(list, p) = Length(list)
  PROVE  \A x \in DOMAIN list : list[x] <= p
<1> DEFINE U == {x \in DOMAIN list : list[x] <= p}
<1>1. U \in SUBSET DOMAIN list /\ Cardinality(U) = Cardinality(DOMAIN list)
  BY DEF UpTo, Length
<1> HIDE DEF U
<1>2. U = DOMAIN list
  BY <1>1, FS_Subset DEF IsList
<1> QED BY <1>2 DEF U

LEMMA AllBelow ==
  ASSUME NEW list, NEW p, \A x \in DOMAIN list : list[x] < p
  PROVE  Below(list, p) = Length(list)
<1>1. {x \in DOMAIN list : list[x] < p} = DOMAIN list
  OBVIOUS
<1> QED BY <1>1 DEF Below, Length

(* Position.after of the last sibling is past every sibling.               *)
LEMMA PastTheLast ==
  ASSUME NEW list, IsList(list), Length(list) > 0
  PROVE  /\ Nth(list, Length(list)) \in Nat
         /\ \A x \in DOMAIN list : list[x] < Nth(list, Length(list)) + Unit
<1>1. Length(list) \in Nat /\ Length(list) \in 1 .. Length(list)
  BY FS_CardinalityType DEF Length, IsList
<1> DEFINE p == Nth(list, Length(list))
<1>2. p \in Nat /\ Length(list) <= UpTo(list, p)
  BY <1>1, NthIs
<1> HIDE DEF p
<1>3. UpTo(list, p) = Length(list)
  BY <1>1, <1>2, Counts
<1>4. \A x \in DOMAIN list : list[x] <= p /\ list[x] \in Nat
  BY <1>2, <1>3, AllUpTo DEF IsList
<1> QED BY <1>2, <1>4, UnitAssumption DEF p

LEMMA EmptyList ==
  ASSUME NEW list, IsList(list)
  PROVE  Length(list) \in Nat /\ (Length(list) = 0 <=> DOMAIN list = {})
BY FS_CardinalityType, FS_EmptySet DEF Length, IsList

LEMMA AfterPlaces ==
  ASSUME NEW list, IsList(list)
  PROVE  After(list) \in Nat /\ \A x \in DOMAIN list : list[x] < After(list)
<1>1. CASE DOMAIN list = {}
  BY <1>1, UnitAssumption DEF After, First
<1>2. CASE DOMAIN list # {}
  BY <1>2, EmptyList, PastTheLast, UnitAssumption DEF After
<1> QED BY <1>1, <1>2

LEMMA BetweenType ==
  ASSUME NEW list, IsList(list), NEW index \in Nat
  PROVE  Between(list, index) \in Nat
<1>1. Length(list) \in Nat
  BY EmptyList
<1>2. \A n \in 1 .. Length(list) : Nth(list, n) \in Nat
  BY NthIs
<1> DEFINE before == index \in 1 .. Length(list)
           after == index \in 0 .. Length(list) - 1
<1>3. CASE ~before /\ ~after
  BY <1>3, UnitAssumption DEF Between, First
<1>4. CASE ~before /\ after
  <2>1. Nth(list, 1) \in Nat
    BY <1>1, <1>2, <1>4
  <2>2. Between(list, index) = Nth(list, 1) \div 2
    BY <1>4 DEF Between
  <2> QED BY <2>1, <2>2
<1>5. CASE before /\ ~after
  BY <1>2, <1>5, UnitAssumption DEF Between
<1>6. CASE before /\ after
  <2>1. Nth(list, index) \in Nat /\ Nth(list, index + 1) \in Nat
    BY <1>1, <1>2, <1>6
  <2>2. Between(list, index) = (Nth(list, index) + Nth(list, index + 1)) \div 2
    BY <1>6 DEF Between
  <2> QED BY <2>1, <2>2
<1> QED BY <1>3, <1>4, <1>5, <1>6

(* Of siblings none of which are tied, one stands at a sibling's position. *)
LEMMA OneAt ==
  ASSUME NEW list, IsList(list), Distinct(list), NEW p \in Positions(list)
  PROVE  UpTo(list, p) = Below(list, p) + 1
<1> DEFINE B == {x \in DOMAIN list : list[x] < p}
<1>1. PICK x \in DOMAIN list : p = list[x]
  BY DEF Positions
<1>2. {y \in DOMAIN list : list[y] <= p} = B \cup {x} /\ x \notin B
  BY <1>1 DEF Distinct, IsList
<1>3. B \in SUBSET DOMAIN list
  OBVIOUS
<1> HIDE DEF B
<1>4. IsFiniteSet(B)
  BY <1>3, FS_Subset DEF IsList
<1>5. Cardinality(B \cup {x}) = Cardinality(B) + 1
  BY <1>2, <1>4, FS_AddElement
<1> QED BY <1>2, <1>5 DEF UpTo, Below, B

(* MoveCardHandler places a card at the index asked for: with no ties      *)
(* among its siblings and a midpoint that is none of them, as many stand   *)
(* below it as the index says.                                             *)
THEOREM BetweenPlacesIt ==
  ASSUME NEW list, IsList(list), Distinct(list), NEW index \in 0 .. Length(list),
         HasRoom(list, index)
  PROVE  Below(list, Between(list, index)) = index
<1>1. Length(list) \in Nat /\ index \in Nat /\ index <= Length(list)
  BY EmptyList
<1> DEFINE m == Between(list, index)
<1>2. m \in Nat /\ \A x \in DOMAIN list : list[x] # m
  BY <1>1, BetweenType DEF HasRoom, Positions
<1>3. CASE Length(list) = 0
  BY <1>1, <1>3, EmptyList, AllBelow
<1>4. CASE index = 0 /\ Length(list) > 0
  <2>1. m = Nth(list, 1) \div 2
    BY <1>1, <1>4 DEF Between
  <2>2. 1 \in 1 .. Length(list)
    BY <1>1, <1>4
  <2>3. Nth(list, 1) \in Nat /\ Below(list, Nth(list, 1)) < 1
    BY <2>2, NthIs
  <2>4. Below(list, Nth(list, 1)) = 0
    BY <2>3, Counts
  <2> HIDE DEF m
  <2>5. m <= Nth(list, 1)
    BY <2>1, <2>3
  <2> DEFINE A == {x \in DOMAIN list : list[x] < Nth(list, 1)}
             B == {x \in DOMAIN list : list[x] < m}
  <2>6. A \in SUBSET DOMAIN list /\ B \in SUBSET A
    BY <1>2, <2>3, <2>5 DEF IsList
  <2>7. Cardinality(A) = 0
    BY <2>4 DEF Below
  <2> HIDE DEF A, B
  <2>8. A = {}
    BY <2>6, <2>7, FS_Subset, FS_EmptySet DEF IsList
  <2>9. Cardinality(B) = 0
    BY <2>6, <2>8, FS_EmptySet
  <2> QED BY <1>4, <2>9 DEF Below, B, m
<1>5. CASE index = Length(list) /\ Length(list) > 0
  <2>1. m = Nth(list, Length(list)) + Unit
    BY <1>1, <1>5 DEF Between
  <2>2. \A x \in DOMAIN list : list[x] < m
    BY <1>5, <2>1, PastTheLast
  <2> QED BY <1>5, <2>2, AllBelow
<1>6. CASE index > 0 /\ index < Length(list)
  <2> DEFINE p == Nth(list, index)
             q == Nth(list, index + 1)
  <2>1. m = (p + q) \div 2
    BY <1>1, <1>6 DEF Between
  <2>2. index \in 1 .. Length(list) /\ index + 1 \in 1 .. Length(list)
    BY <1>1, <1>6
  <2>3. /\ p \in Positions(list) /\ p \in Nat /\ Below(list, p) < index /\ index <= UpTo(list, p)
        /\ q \in Positions(list) /\ q \in Nat /\ Below(list, q) < index + 1
        /\ index + 1 <= UpTo(list, q)
    BY <2>2, NthIs
  <2> HIDE DEF m, p, q
  <2>4. /\ Below(list, p) \in Nat /\ UpTo(list, p) = Below(list, p) + 1
        /\ Below(list, q) \in Nat /\ UpTo(list, q) = Below(list, q) + 1
    BY <2>3, OneAt, Counts
  <2>5. UpTo(list, p) = index /\ Below(list, q) = index
    BY <1>1, <2>3, <2>4
  <2> DEFINE P == {x \in DOMAIN list : list[x] <= p}
             B == {x \in DOMAIN list : list[x] < m}
             Q == {x \in DOMAIN list : list[x] < q}
  <2>6. p < q
    <3> SUFFICES ASSUME q <= p PROVE FALSE
      BY <2>3
    <3>1. Q \in SUBSET DOMAIN list /\ {x \in DOMAIN list : list[x] <= q} \in SUBSET P /\ P \in SUBSET DOMAIN list
      BY <2>3 DEF IsList
    <3>2. IsFiniteSet(P)
      BY <3>1, FS_Subset DEF IsList
    <3>3. UpTo(list, q) <= UpTo(list, p)
      BY <3>1, <3>2, FS_Subset DEF UpTo
    <3> QED BY <1>1, <2>4, <2>5, <3>3
  <2>7. p <= m /\ m < q
    BY <2>1, <2>3, <2>6
  <2>8. P \in SUBSET B /\ B \in SUBSET Q /\ Q \in SUBSET DOMAIN list
    BY <1>2, <2>3, <2>7 DEF IsList, m
  <2>9. Cardinality(P) = index /\ Cardinality(Q) = index
    BY <2>5 DEF UpTo, Below
  <2> HIDE DEF P, B, Q
  <2>10. IsFiniteSet(Q) /\ IsFiniteSet(B)
    BY <2>8, FS_Subset DEF IsList
  <2>11. Cardinality(P) <= Cardinality(B) /\ Cardinality(B) <= Cardinality(Q) /\ Cardinality(B) \in Nat
    BY <2>8, <2>10, FS_Subset, FS_CardinalityType
  <2>12. Cardinality(B) = index
    BY <1>1, <2>9, <2>11
  <2> QED BY <2>12 DEF Below, B, m
<1> QED BY <1>1, <1>3, <1>4, <1>5, <1>6

-----------------------------------------------------------------------------
(* Requests.                                                               *)

LEMMA Operations ==
  Operation = {"createBoard", "listBoards", "getBoard", "renameBoard", "deleteBoard",
               "createColumn", "moveColumn", "deleteColumn", "createCard", "updateCard",
               "assignCard", "moveCard", "deleteCard"}
BY DEF Operation, BoardControllerOf

LEMMA IdleGood ==
  ASSUME NEW n \in Nat
  PROVE  /\ Good([Idle EXCEPT !.reply = n]) /\ Fits([Idle EXCEPT !.reply = n])
         /\ [Idle EXCEPT !.reply = n].at = "idle"
<1> DEFINE new == [Idle EXCEPT !.reply = n]
<1>1. NoList \in SiblingList
  <2>1. NoList \in [{} -> Nat]
    BY DEF NoList
  <2> QED BY <2>1 DEF SiblingList
<1>2. new \in RequestRecord
  BY <1>1 DEF Idle, RequestRecord, Step
<1>3. new.at = "idle" /\ new.op = "none" /\ new.copy = NoRow
  BY DEF Idle
<1> HIDE DEF new
<1>4. Good(new) /\ Fits(new)
  BY <1>2, <1>3 DEF Good, OpsAt, Fits
<1> QED BY <1>3, <1>4 DEF new

(* One slot gets a good request, the others and the rows stay.             *)
LEMMA SetGood ==
  ASSUME BoardInv, NEW r \in Requests, NEW x, Good(x), Fits(x),
         request' = [request EXCEPT ![r] = x], UNCHANGED rows
  PROVE  BoardInv'
<1>1. request' \in [Requests -> RequestRecord]
  BY DEF BoardInv, RequestsOK, Good
<1>2. \A q \in Requests : Good(request'[q]) /\ Fits(request'[q])
  BY DEF BoardInv, RequestsOK
<1>3. \A q \in Requests : Fits(request[q])'
  BY <1>2 DEF Fits, rows, Columns, Cards
<1>4. RowsOK' /\ NoOrphans'
  BY DEF BoardInv, RowsOK, NoOrphans, rows, Columns, Cards
<1>5. \A q \in Requests : Good(request[q])'
  BY <1>2 DEF Good
<1> QED BY <1>1, <1>3, <1>4, <1>5 DEF BoardInv, RequestsOK

LEMMA FinishGood ==
  ASSUME BoardInv, NEW r \in Requests, NEW n \in Nat, Finish(r, n), UNCHANGED rows
  PROVE  BoardInv'
BY IdleGood, SetGood DEF Finish

(* The statuses the handlers' results are answered with.                   *)
LEMMA StatusType ==
  /\ \A op \in Operation : BoardControllerOf[op].status["ok"] \in Nat
  /\ \A op \in Operation \ {"createBoard", "listBoards", "createColumn"} :
        BoardControllerOf[op].status["NotFound"] \in Nat
  /\ BoardControllerOf["assignCard"].status["AccountNotWorkspaceMember"] \in Nat
  /\ BoardControllerOf["moveCard"].status["ColumnNotInBoard"] \in Nat
BY Operations DEF BoardControllerOf, CreateBoardController, ListWorkspaceBoardsController,
   GetBoardController, RenameBoardController, DeleteBoardController, CreateColumnController,
   MoveColumnController, DeleteColumnController, CreateCardController, UpdateCardController,
   AssignCardController, MoveCardController, DeleteCardController

LEMMA ReplyGood ==
  ASSUME BoardInv, NEW r \in Requests, NEW result, UNCHANGED rows, Reply(r, result),
         BoardControllerOf[request[r].op].status[result] \in Nat
  PROVE  BoardInv'
BY FinishGood DEF Reply

(* What the client names has the kind its operation asks for.              *)
LEMMA ArriveStep ==
  ASSUME BoardInv, NEW r \in Requests, NEW op \in Operation, NEW role, Arrive(r, op, role)
  PROVE  BoardInv'
<1> UNCHANGED rows
  BY DEF Arrive
<1>1. PICK id \in Named(op) :
        \/ Finish(r, 404)
        \/ Finish(r, 403)
        \/ request' = [request EXCEPT ![r] =
             [Idle EXCEPT !.op = op, !.at = FirstStep[op],
                 !.board = IF id \in BoardIds THEN id ELSE NoRow,
                 !.column = IF id \in ColumnIds THEN id ELSE NoRow,
                 !.card = IF id \in CardIds THEN id ELSE NoRow]]
  BY DEF Arrive
<1> DEFINE new == [Idle EXCEPT !.op = op, !.at = FirstStep[op],
                       !.board = IF id \in BoardIds THEN id ELSE NoRow,
                       !.column = IF id \in ColumnIds THEN id ELSE NoRow,
                       !.card = IF id \in CardIds THEN id ELSE NoRow]
<1>2. CASE Finish(r, 404) \/ Finish(r, 403)
  BY <1>2, FinishGood
<1>3. CASE request' = [request EXCEPT ![r] = new]
  <2>1. FirstStep[op] \in Step /\ op \in OpsAt(FirstStep[op])
    BY Operations DEF FirstStep, Step, OpsAt
  <2>2. NoList \in SiblingList
    <3>1. NoList \in [{} -> Nat]
      BY DEF NoList
    <3> QED BY <3>1 DEF SiblingList
  <2>3. new \in RequestRecord
    BY <2>1, <2>2 DEF Idle, RequestRecord
  <2>4. /\ new.op = op /\ new.at = FirstStep[op] /\ new.copy = NoRow
        /\ new.board = IF id \in BoardIds THEN id ELSE NoRow
        /\ new.column = IF id \in ColumnIds THEN id ELSE NoRow
        /\ new.card = IF id \in CardIds THEN id ELSE NoRow
    BY DEF Idle
  <2>5. /\ op = "createColumn" => id \in BoardIds
        /\ op \in {"createCard", "moveColumn", "deleteColumn"} => id \in ColumnIds
        /\ op \in {"updateCard", "assignCard", "moveCard", "deleteCard"} => id \in CardIds
    BY DEF Named
  <2>6. /\ op = "createCard" => FirstStep[op] = "findColumn"
        /\ op \in {"updateCard", "assignCard", "moveCard"} => FirstStep[op] = "findCard"
        /\ FirstStep[op] # "commit"
    BY Operations DEF FirstStep
  <2> HIDE DEF new
  <2>7. Good(new)
    BY <2>1, <2>3, <2>4, <2>5, <2>6 DEF Good
  <2>8. Fits(new)
    BY <2>4, <2>6 DEF Fits
  <2> QED BY <1>3, <2>7, <2>8, SetGood
<1> QED BY <1>1, <1>2, <1>3 DEF new

-----------------------------------------------------------------------------
(* The reads.                                                              *)

LEMMA GotoGood ==
  ASSUME BoardInv, NEW r \in Requests, NEW at \in Step, Goto(r, at), UNCHANGED rows,
         at # "commit", request[r].op \in OpsAt(at),
         request[r].op = "createCard" =>
            at \notin {"insert", "siblings"} \/ request[r].at = "siblings",
         request[r].op = "createColumn" => at # "insert",
         request[r].op \in {"moveCard", "assignCard", "updateCard"} =>
            request[r].at # "findCard" /\ at \notin {"siblings"},
         request[r].op = "moveCard" => at # "save"
  PROVE  BoardInv'
<1> DEFINE new == [request[r] EXCEPT !.at = at]
<1>1. /\ new \in RequestRecord
      /\ new.at = at /\ new.op = request[r].op /\ new.board = request[r].board
      /\ new.column = request[r].column /\ new.card = request[r].card
      /\ new.copy = request[r].copy
  BY DEF BoardInv, RequestsOK, RequestRecord
<1>2. Good(request[r]) /\ Fits(request[r])
  BY DEF BoardInv, RequestsOK
<1> HIDE DEF new
<1>3. Good(new)
  BY <1>1, <1>2 DEF Good
<1>4. Fits(new)
  BY <1>1, <1>2 DEF Fits
<1> QED BY <1>3, <1>4, SetGood DEF Goto, new

LEMMA ListType ==
  ASSUME BoardInv, NEW c, NEW k
  PROVE  CardsOf(c, k) \in SiblingList /\ k \notin DOMAIN CardsOf(c, k)
<1> DEFINE S == {x \in Cards \ {k} : card[x].column = c}
<1>1. S \in SUBSET CardIds
  BY DEF Cards
<1>2. CardsOf(c, k) \in [S -> Nat]
  BY DEF CardsOf, BoardInv, RowsOK, CardRow, Cards
<1>3. k \notin DOMAIN CardsOf(c, k)
  BY DEF CardsOf
<1> HIDE DEF S
<1> QED BY <1>1, <1>2, <1>3 DEF SiblingList

(* What a request has read of the siblings is a list of positions.         *)
LEMMA ListRead ==
  ASSUME NEW list \in SiblingList
  PROVE  IsList(list)
<1>1. PICK S \in SUBSET CardIds : list \in [S -> Nat]
  BY DEF SiblingList
<1>2. IsFiniteSet(S)
  BY CardIdsAssumption, FS_Subset
<1> QED BY <1>1, <1>2 DEF IsList

(* What a request is after a read has set its next step.                   *)
LEMMA BoardSet ==
  ASSUME NEW req \in RequestRecord, NEW at \in Step, NEW b \in BoardIds
  PROVE  LET new == [req EXCEPT !.board = b, !.at = at]
         IN  /\ new \in RequestRecord /\ new.op = req.op /\ new.at = at /\ new.board = b
             /\ new.column = req.column /\ new.card = req.card /\ new.copy = req.copy
BY DEF RequestRecord

LEMMA FindStep ==
  ASSUME BoardInv, NEW r \in Requests, FindBoard(r) \/ FindColumn(r) \/ FindCard(r)
  PROVE  BoardInv'
<1> DEFINE req == request[r]
<1>1. UNCHANGED rows
  BY DEF FindBoard, FindColumn, FindCard
<1>2. Good(req) /\ Fits(req) /\ request \in [Requests -> RequestRecord]
  BY DEF BoardInv, RequestsOK
<1>3. ASSUME req.op \in Operation \ {"createBoard", "listBoards", "createColumn"},
             Reply(r, "NotFound")
      PROVE  BoardInv'
  BY <1>1, <1>3, StatusType, ReplyGood
<1>4. CASE FindBoard(r)
  <2>1. req.at = "findBoard" /\ req.op \in {"getBoard", "renameBoard", "deleteBoard"}
    BY <1>2, <1>4 DEF FindBoard, Good, OpsAt
  <2>2. \/ Reply(r, "NotFound")
        \/ req.op = "getBoard" /\ Goto(r, "answer")
        \/ req.op = "renameBoard" /\ Goto(r, "saveBoard")
        \/ req.op = "deleteBoard" /\ Goto(r, "dropCards")
    BY <1>4, <2>1 DEF FindBoard
  <2>3. CASE Reply(r, "NotFound")
    BY <1>3, <2>1, <2>3, Operations
  <2>4. CASE req.op = "getBoard" /\ Goto(r, "answer")
    BY <1>1, <2>4, GotoGood DEF OpsAt, Step
  <2>5. CASE req.op = "renameBoard" /\ Goto(r, "saveBoard")
    BY <1>1, <2>5, GotoGood DEF OpsAt, Step
  <2>6. CASE req.op = "deleteBoard" /\ Goto(r, "dropCards")
    BY <1>1, <2>6, GotoGood DEF OpsAt, Step
  <2> QED BY <2>2, <2>3, <2>4, <2>5, <2>6
<1>5. CASE FindColumn(r)
  <2> DEFINE next == CASE req.op = "moveColumn"   -> "saveColumn"
                       [] req.op = "deleteColumn" -> "dropCards"
                       [] req.op = "createCard"   -> "siblings"
             row == column[req.column]
             new == [req EXCEPT !.board = row, !.at = next]
  <2>1. /\ req.op \in {"moveColumn", "deleteColumn", "createCard"} /\ req.at = "findColumn"
        /\ req.column \in ColumnIds
    BY <1>2, <1>5 DEF FindColumn, At, Good
  <2>2. CASE Reply(r, "NotFound")
    BY <1>3, <2>1, <2>2, Operations
  <2>3. CASE row # NoRow /\ request' = [request EXCEPT ![r].board = row, ![r].at = next]
    <3>2. row \in BoardIds
      BY <2>1, <2>3 DEF BoardInv, RowsOK
    <3>3. next \in {"saveColumn", "dropCards", "siblings"} /\ req.op \in OpsAt(next)
      BY <2>1 DEF OpsAt
    <3> HIDE DEF next, row
    <3>1. request' = [request EXCEPT ![r] = new]
      BY <1>2, <2>3
    <3>4. /\ new \in RequestRecord /\ new.op = req.op /\ new.at = next /\ new.board = row
          /\ new.column = req.column /\ new.card = req.card /\ new.copy = req.copy
      <4>1. next \in Step /\ req \in RequestRecord
        BY <1>2, <3>3 DEF Step
      <4> QED BY <3>2, <4>1, BoardSet
    <3> HIDE DEF new
    <3>5. Good(new)
      BY <1>2, <2>1, <3>2, <3>3, <3>4 DEF Good
    <3>6. Fits(new)
      BY <1>2, <2>1, <3>3, <3>4 DEF Fits, row
    <3> QED BY <1>1, <3>1, <3>5, <3>6, SetGood
  <2> QED BY <1>5, <2>2, <2>3 DEF FindColumn
<1>6. CASE FindCard(r)
  <2> DEFINE next == CASE req.op = "updateCard" -> "save"
                       [] req.op = "assignCard" -> "findAssignee"
                       [] req.op = "moveCard"   -> "findColumn"
                       [] req.op = "deleteCard" -> "delete"
             row == card[req.card]
             held == IF req.op = "deleteCard" THEN NoRow ELSE row
             new == [req EXCEPT !.copy = held, !.at = next]
  <2>1. /\ req.op \in {"updateCard", "assignCard", "moveCard", "deleteCard"}
        /\ req.at = "findCard" /\ req.card \in CardIds
    BY <1>2, <1>6 DEF FindCard, Good, OpsAt
  <2>2. CASE Reply(r, "NotFound")
    BY <1>3, <2>1, <2>2, Operations
  <2>3. CASE row # NoRow /\ request' = [request EXCEPT ![r].copy = held, ![r].at = next]
    <3>2. row \in CardRow /\ row.board = column[row.column]
      BY <2>1, <2>3 DEF BoardInv, RowsOK, NoOrphans, Cards
    <3>3. /\ next \in {"save", "findAssignee", "findColumn", "delete"} /\ req.op \in OpsAt(next)
          /\ req.op = "moveCard" => next = "findColumn"
      BY <2>1 DEF OpsAt
    <3>7. held \in CardRow \cup {NoRow} /\ (req.op # "deleteCard" => held = row)
      BY <3>2
    <3>8. held # NoRow => held = row
      OBVIOUS
    <3> HIDE DEF next, held, row
    <3>1. request' = [request EXCEPT ![r] = new]
      BY <1>2, <2>3
    <3>4. /\ new \in RequestRecord /\ new.op = req.op /\ new.at = next /\ new.board = req.board
          /\ new.column = req.column /\ new.card = req.card /\ new.copy = held
      <4>1. next \in Step /\ req \in RequestRecord
        BY <1>2, <3>3 DEF Step
      <4>2. held \in CardRow \cup {NoRow}
        BY <3>7
      <4> QED BY <4>1, <4>2 DEF RequestRecord
    <3> HIDE DEF new
    <3>5. Good(new)
      BY <1>2, <2>1, <3>2, <3>3, <3>4, <3>7 DEF Good
    <3>6. Fits(new)
      BY <1>2, <2>1, <3>2, <3>3, <3>4, <3>8 DEF Fits
    <3> QED BY <1>1, <3>1, <3>5, <3>6, SetGood
  <2> QED BY <1>6, <2>2, <2>3 DEF FindCard
<1> QED BY <1>4, <1>5, <1>6

LEMMA OtherReadStep ==
  ASSUME BoardInv, NEW r \in Requests,
         \/ \E c \in ColumnIds : FindTargetColumn(r, c)
         \/ \E nobody, isMember \in BOOLEAN : FindAssignee(r, nobody, isMember)
         \/ ReadSiblings(r) \/ GetBoard(r) \/ ListWorkspaceBoards(r)
  PROVE  BoardInv'
<1> DEFINE req == request[r]
<1>1. UNCHANGED rows
  BY DEF FindTargetColumn, FindAssignee, ReadSiblings, GetBoard, ListWorkspaceBoards
<1>2. Good(req) /\ Fits(req) /\ request \in [Requests -> RequestRecord]
  BY DEF BoardInv, RequestsOK
<1>3. ASSUME NEW c \in ColumnIds, FindTargetColumn(r, c) PROVE BoardInv'
  <2> DEFINE new == [req EXCEPT !.column = c, !.at = "siblings"]
  <2>1. req.op = "moveCard" /\ req.at = "findColumn" /\ req.copy \in CardRow
    BY <1>2, <1>3 DEF FindTargetColumn, At, Good
  <2>2. CASE Reply(r, "NotFound") \/ Reply(r, "ColumnNotInBoard")
    BY <1>1, <2>1, <2>2, StatusType, Operations, ReplyGood
  <2>3. CASE /\ c \in Columns => column[c] = req.copy.board
             /\ request' = [request EXCEPT ![r].column = c, ![r].at = "siblings"]
    <3>1. request' = [request EXCEPT ![r] = new]
      BY <1>2, <2>3
    <3>2. /\ new \in RequestRecord /\ new.op = req.op /\ new.at = "siblings" /\ new.column = c
          /\ new.card = req.card /\ new.copy = req.copy
      BY ZenonT(30), <1>2 DEF RequestRecord, Step
    <3> HIDE DEF new
    <3>3. Good(new)
      BY <1>2, <2>1, <3>2 DEF Good, OpsAt
    <3>4. Fits(new)
      BY <1>2, <2>1, <2>3, <3>2 DEF Fits
    <3> QED BY <1>1, <3>1, <3>3, <3>4, SetGood
  <2> QED BY <1>3, <2>2, <2>3 DEF FindTargetColumn
<1>4. ASSUME NEW nobody \in BOOLEAN, NEW isMember \in BOOLEAN, FindAssignee(r, nobody, isMember)
      PROVE  BoardInv'
  <2>1. req.op = "assignCard" /\ req.at = "findAssignee"
    BY <1>2, <1>4 DEF FindAssignee, Good, OpsAt
  <2>2. CASE Reply(r, "NotFound") \/ Reply(r, "AccountNotWorkspaceMember")
    BY <1>1, <2>1, <2>2, StatusType, Operations, ReplyGood
  <2>3. CASE Goto(r, "save")
    BY <1>1, <2>1, <2>3, GotoGood DEF OpsAt, Step
  <2> QED BY <1>4, <2>2, <2>3 DEF FindAssignee
<1>5. CASE ReadSiblings(r)
  <2> DEFINE next == IF req.op = "createCard" THEN "insert" ELSE "save"
             list == CardsOf(req.column, req.card)
             new == [req EXCEPT !.at = next, !.list = list]
  <2>1. req.at = "siblings" /\ req.op \in {"createCard", "moveCard"}
    BY <1>2, <1>5 DEF ReadSiblings, Good, OpsAt
  <2>2. request' = [request EXCEPT ![r] = new]
    BY <1>2, <1>5 DEF ReadSiblings
  <2>3. list \in SiblingList /\ req.card \notin DOMAIN list
    BY ListType
  <2>4. /\ req.op = "createCard" => next = "insert"
        /\ req.op = "moveCard" => next = "save"
        /\ next \in {"insert", "save"} /\ req.op \in OpsAt(next)
    BY <2>1 DEF OpsAt
  <2> HIDE DEF next, list
  <2>5. /\ new \in RequestRecord /\ new.op = req.op /\ new.at = next /\ new.board = req.board
        /\ new.column = req.column /\ new.card = req.card /\ new.copy = req.copy
        /\ new.list = list
    BY ZenonT(30), <1>2, <2>3, <2>4 DEF RequestRecord, Step
  <2> HIDE DEF new
  <2>6. Good(new)
    BY <1>2, <2>1, <2>3, <2>4, <2>5 DEF Good
  <2>7. Fits(new)
    BY <1>2, <2>1, <2>4, <2>5 DEF Fits
  <2> QED BY <1>1, <2>2, <2>6, <2>7, SetGood
<1>6. CASE GetBoard(r) \/ ListWorkspaceBoards(r)
  <2>1. req.op \in {"getBoard", "listBoards"} /\ Reply(r, "ok")
    BY <1>6 DEF GetBoard, ListWorkspaceBoards, At
  <2> QED BY <1>1, <2>1, StatusType, Operations, ReplyGood
<1> QED BY <1>3, <1>4, <1>5, <1>6

-----------------------------------------------------------------------------
(* The writes.                                                             *)

(* A write that keeps what the others have read, or that they do not know  *)
(* of, and stays out of what a transaction has deleted, leaves them fit.   *)
LEMMA WriteFits ==
  ASSUME BoardInv, RowsOK', NoOrphans', NEW r \in Requests, NEW n \in Nat, Finish(r, n),
         \A c \in ColumnIds : \/ column'[c] \in {column[c], NoRow}
                              \/ column[c] = NoRow /\ Fresh(c),
         \A k \in CardIds : \/ card'[k] \in {card[k], NoRow}
                            \/ ~ColumnLocked(card'[k].column)
                            \/ /\ k \in Cards /\ card'[k].column = card[k].column
                               /\ ~CardLocked(k)
  PROVE  BoardInv'
<1> DEFINE new == [Idle EXCEPT !.reply = n]
<1>1. /\ request \in [Requests -> RequestRecord]
      /\ \A q \in Requests : Good(request[q]) /\ Fits(request[q])
  BY DEF BoardInv, RequestsOK
<1>2. Good(new) /\ new.copy = NoRow /\ new.op = "none" /\ new.at = "idle"
  BY IdleGood DEF Idle
<1>3. request' = [request EXCEPT ![r] = new]
  BY DEF Finish
<1> HIDE DEF new
<1>4. request' \in [Requests -> RequestRecord] /\ \A q \in Requests : Good(request[q])'
  BY <1>1, <1>2, <1>3 DEF Good
<1>5. ASSUME NEW q \in Requests PROVE Fits(request[q])'
  <2>1. CASE q = r
    BY <1>1, <1>2, <1>3, <2>1 DEF Fits
  <2>2. CASE q # r
    <3> DEFINE req == request[q]
    <3>1. request'[q] = req /\ Good(req) /\ Fits(req) /\ req \in RequestRecord
      BY <1>1, <1>3, <2>2
    <3>2. \A c \in ColumnIds : c \in Columns' /\ ~Fresh(c) => c \in Columns /\ column'[c] = column[c]
      BY DEF Columns
    <3>3. req.column \in ColumnIds => ~Fresh(req.column)
      BY DEF Fresh
    <3>4. req.copy # NoRow => req.copy \in CardRow /\ ~Fresh(req.copy.column)
      BY <3>1 DEF RequestRecord, CardRow, Fresh
    <3>5. Columns' \subseteq ColumnIds
      BY DEF Columns
    <3>6. req.copy # NoRow /\ req.copy.column \in Columns' =>
             column'[req.copy.column] = req.copy.board
      BY <3>1, <3>2, <3>4, <3>5 DEF Fits
    <3>7. /\ req.op = "moveCard" /\ req.at \in {"siblings", "save"} /\ req.column \in Columns' =>
                column'[req.column] = req.copy.board
          /\ req.op = "createCard" /\ req.at \in {"siblings", "insert"} /\ req.column \in Columns' =>
                column'[req.column] = req.board
      BY <3>1, <3>2, <3>3, <3>5 DEF Fits
    <3>8. ASSUME req.at = "commit", NEW k \in Cards' \ req.doomed
          PROVE  card'[k].column \notin req.dropped
      <4>1. k \in CardIds /\ card'[k] # NoRow
        BY DEF Cards
      <4>2. CASE card'[k] = card[k]
        BY <3>1, <3>8, <4>1, <4>2 DEF Fits, Cards
      <4>3. CASE ~ColumnLocked(card'[k].column)
        BY <4>3 DEF ColumnLocked
      <4>4. CASE k \in Cards /\ card'[k].column = card[k].column
        BY <3>1, <3>8, <4>4 DEF Fits
      <4> QED BY <4>1, <4>2, <4>3, <4>4
    <3> QED BY <3>1, <3>6, <3>7, <3>8 DEF Fits
  <2> QED BY <2>1, <2>2
<1> QED BY <1>4, <1>5 DEF BoardInv, RequestsOK

LEMMA InsertStep ==
  ASSUME BoardInv, NEW r \in Requests,
         \/ \E b \in BoardIds : InsertBoard(r, b)
         \/ \E c \in ColumnIds : InsertColumn(r, c)
         \/ \E k \in CardIds : InsertCard(r, k)
  PROVE  BoardInv'
<1> DEFINE req == request[r]
<1>1. Good(req) /\ Fits(req) /\ RowsOK /\ NoOrphans
  BY DEF BoardInv, RequestsOK
<1>2. ASSUME NEW b \in BoardIds, InsertBoard(r, b) PROVE BoardInv'
  <2>1. PICK n \in Nat : Finish(r, n)
    BY <1>2, StatusType, Operations DEF InsertBoard, At, Reply
  <2>2. board' = board \cup {b} /\ column' = column /\ card' = card
    BY <1>2 DEF InsertBoard
  <2>3. RowsOK' /\ NoOrphans'
    BY <1>1, <2>2 DEF RowsOK, NoOrphans, Columns, Cards
  <2> QED BY <2>1, <2>2, <2>3, WriteFits
<1>3. ASSUME NEW c \in ColumnIds, InsertColumn(r, c) PROVE BoardInv'
  <2>1. req.board \in BoardIds
    BY <1>1, <1>3 DEF InsertColumn, At, Good
  <2>2. CASE req.board \in board
    <3>1. PICK n \in Nat : Finish(r, n)
      BY <1>3, <2>2, StatusType, Operations DEF InsertColumn, At, Reply
    <3>2. /\ column' = [column EXCEPT ![c] = req.board] /\ board' = board /\ card' = card
          /\ column[c] = NoRow /\ Fresh(c)
      BY <1>3, <2>2 DEF InsertColumn, Columns
    <3>3. \A d \in ColumnIds : column'[d] = IF d = c THEN req.board ELSE column[d]
      BY <1>1, <3>2 DEF RowsOK
    <3>4. RowsOK'
      BY <1>1, <2>1, <3>2 DEF RowsOK
    <3>5. NoOrphans'
      BY <1>1, <2>2, <3>2, <3>3, NoRowAssumption DEF RowsOK, NoOrphans, Columns, Cards
    <3> QED BY <3>1, <3>2, <3>3, <3>4, <3>5, WriteFits
  <2>3. CASE req.board \notin board
    BY <1>3, <2>3, FinishGood DEF InsertColumn, rows
  <2> QED BY <2>2, <2>3
<1>4. ASSUME NEW k \in CardIds, InsertCard(r, k) PROVE BoardInv'
  <2> DEFINE row == [board |-> req.board, column |-> req.column, position |-> After(req.list)]
  <2>1. /\ req.op = "createCard" /\ req.at = "insert" /\ req.board \in BoardIds
        /\ req.column \in ColumnIds
    <3>1. req.at = "insert" /\ req.op = "createCard"
      BY <1>4 DEF InsertCard, At
    <3> QED BY <1>1, <3>1 DEF Good
  <2>2. CASE req.column \in Columns
    <3>1. PICK n \in Nat : Finish(r, n)
      BY <1>4, <2>2, StatusType, Operations DEF InsertCard, At, Reply
    <3>2. /\ card' = [card EXCEPT ![k] = row] /\ board' = board /\ column' = column
          /\ ~ColumnLocked(req.column)
      BY <1>4, <2>2 DEF InsertCard
    <3>3. row \in CardRow /\ row.column = req.column /\ row.board = req.board
      <4>1. After(req.list) \in Nat
        BY <1>1, ListRead, AfterPlaces DEF Good, RequestRecord
      <4> QED BY <2>1, <4>1 DEF CardRow
    <3> HIDE DEF row
    <3>4. \A j \in CardIds : card'[j] = IF j = k THEN row ELSE card[j]
      BY <1>1, <3>2 DEF RowsOK
    <3>5. RowsOK'
      BY <1>1, <3>2, <3>3 DEF RowsOK
    <3>6. column[row.column] = row.board
      BY <1>1, <2>1, <2>2, <3>3 DEF Fits
    <3>7. NoOrphans'
      BY <1>1, <2>2, <3>2, <3>3, <3>4, <3>6 DEF RowsOK, NoOrphans, Columns, Cards
    <3>8. ~ColumnLocked(card'[k].column)
      BY <3>2, <3>3, <3>4
    <3> QED BY <3>1, <3>2, <3>4, <3>5, <3>7, <3>8, WriteFits
  <2>3. CASE req.column \notin Columns
    BY <1>4, <2>3, FinishGood DEF InsertCard, rows
  <2> QED BY <2>2, <2>3
<1> QED BY <1>2, <1>3, <1>4

LEMMA SaveStep ==
  ASSUME BoardInv, NEW r \in Requests, NEW index \in Nat, SaveCard(r, index)
  PROVE  BoardInv'
<1> DEFINE req == request[r]
           k == req.card
           new == CardSaved(r, index)
<1>1. Good(req) /\ Fits(req) /\ RowsOK /\ NoOrphans
  BY DEF BoardInv, RequestsOK
<1>2. /\ req.op \in {"updateCard", "assignCard", "moveCard"} /\ req.at = "save"
      /\ k \in CardIds /\ req.copy \in CardRow
      /\ req.op = "moveCard" => req.column \in ColumnIds
  <2>1. req.op \in {"updateCard", "assignCard", "moveCard"} /\ req.at = "save"
    BY DEF SaveCard, At
  <2> QED BY <1>1, <2>1 DEF Good
<1>3. ~CardLocked(k)
  BY DEF SaveCard
<1>4. /\ new \in CardRow
      /\ new.board = req.copy.board
      /\ new.column = IF req.op = "moveCard" THEN req.column ELSE req.copy.column
  <2>1. CASE req.op = "moveCard"
    <3>1. new = [req.copy EXCEPT !.column = req.column, !.position = Between(req.list, index)]
      BY <2>1 DEF CardSaved
    <3>2. /\ new.position = Between(req.list, index) /\ new.column = req.column
          /\ new.board = req.copy.board
      BY <1>2, <3>1 DEF CardRow
    <3>3. Between(req.list, index) \in Nat
      BY <1>1, ListRead, BetweenType DEF Good, RequestRecord
    <3>4. new \in CardRow
      BY <1>2, <2>1, <3>1, <3>3 DEF CardRow
    <3> QED BY <2>1, <3>2, <3>4
  <2>2. CASE req.op # "moveCard"
    BY <1>2, <2>2 DEF CardSaved
  <2> QED BY <2>1, <2>2
<1>5. new.column \in Columns => column[new.column] = new.board
  BY <1>1, <1>2, <1>4, NoRowAssumption DEF Fits, CardRow
<1> HIDE DEF new
<1>6. ASSUME k \in Cards, new.column \in Columns,
             new.column = card[k].column \/ ~ColumnLocked(new.column),
             card' = [card EXCEPT ![k] = new], Reply(r, "ok"), UNCHANGED <<board, column>>
      PROVE  BoardInv'
  <2>1. PICK n \in Nat : Finish(r, n)
    BY <1>2, <1>6, StatusType, Operations DEF Reply
  <2>2. \A j \in CardIds : card'[j] = IF j = k THEN new ELSE card[j]
    BY <1>1, <1>6 DEF RowsOK
  <2>3. RowsOK'
    BY <1>1, <1>2, <1>4, <1>6 DEF RowsOK
  <2>4. NoOrphans'
    BY <1>1, <1>2, <1>5, <1>6, <2>2 DEF NoOrphans, Columns, Cards
  <2>5. ~ColumnLocked(card'[k].column) \/ card'[k].column = card[k].column
    BY <1>2, <1>6, <2>2
  <2>6. \A c \in ColumnIds : column'[c] = column[c]
    BY <1>6
  <2> QED BY <1>3, <1>6, <2>1, <2>2, <2>3, <2>4, <2>5, <2>6, WriteFits
<1>7. \/ Reply(r, "ok") /\ UNCHANGED rows
      \/ Finish(r, 500) /\ UNCHANGED rows
      \/ /\ k \in Cards /\ card' = [card EXCEPT ![k] = new] /\ Reply(r, "ok")
         /\ UNCHANGED <<board, column>>
         /\ new.column = card[k].column \/ new.column \in Columns
         /\ new.column # card[k].column => ~ColumnLocked(new.column)
  BY <1>2 DEF SaveCard, rows, new
<1>8. k \in Cards /\ new.column = card[k].column => new.column \in Columns
  BY <1>1 DEF NoOrphans
<1> QED BY <1>2, <1>6, <1>7, <1>8, StatusType, Operations, ReplyGood, FinishGood

LEMMA RowWriteStep ==
  ASSUME BoardInv, NEW r \in Requests, SaveBoard(r) \/ SaveColumn(r) \/ DeleteCard(r)
  PROVE  BoardInv'
<1> DEFINE req == request[r]
<1>1. Good(req) /\ RowsOK /\ NoOrphans
  BY DEF BoardInv, RequestsOK
<1>2. CASE SaveBoard(r) \/ SaveColumn(r)
  <2>1. req.op \in {"renameBoard", "moveColumn"} /\ Reply(r, "ok") /\ UNCHANGED rows
    BY <1>1, <1>2 DEF SaveBoard, SaveColumn, Good, OpsAt
  <2> QED BY <2>1, StatusType, Operations, ReplyGood
<1>3. CASE DeleteCard(r)
  <2>1. PICK n \in Nat : Finish(r, n)
    BY <1>3, StatusType, Operations DEF DeleteCard, At, Reply
  <2>2. card' = [card EXCEPT ![req.card] = NoRow] /\ board' = board /\ column' = column
    BY <1>3 DEF DeleteCard
  <2>3. \A j \in CardIds : card'[j] \in {card[j], NoRow}
    BY <1>1, <2>2 DEF RowsOK
  <2>4. RowsOK'
    BY <1>1, <2>2 DEF RowsOK
  <2>5. NoOrphans'
    BY <1>1, <2>2, <2>3 DEF NoOrphans, Columns, Cards
  <2> QED BY <2>1, <2>2, <2>3, <2>4, <2>5, WriteFits
<1> QED BY <1>2, <1>3

(* The DELETEs of a transaction, children first.                           *)
LEMMA DropStep ==
  ASSUME BoardInv, NEW r \in Requests, DropCards(r) \/ DropColumns(r)
  PROVE  BoardInv'
<1> DEFINE req == request[r]
<1>1. Good(req) /\ Fits(req) /\ request \in [Requests -> RequestRecord]
  BY DEF BoardInv, RequestsOK
<1>2. UNCHANGED rows /\ req.at \in {"dropCards", "dropColumns"}
  BY DEF DropCards, DropColumns
<1>3. req.op \in {"deleteBoard", "deleteColumn"}
  BY <1>1, <1>2 DEF Good, OpsAt
<1>4. CASE DropCards(r)
  <2> DEFINE doomed == {k \in Cards : Held(r, k)}
             new == [req EXCEPT !.doomed = doomed, !.at = "dropColumns"]
  <2>1. doomed \in SUBSET CardIds
    BY DEF Cards
  <2> HIDE DEF doomed
  <2>2. request' = [request EXCEPT ![r] = new]
    BY <1>1, <1>4 DEF DropCards, doomed
  <2>3. /\ new \in RequestRecord /\ new.op = req.op /\ new.at = "dropColumns"
        /\ new.column = req.column /\ new.copy = req.copy
    BY ZenonT(30), <1>1, <2>1 DEF RequestRecord, Step
  <2> HIDE DEF new
  <2>4. Good(new)
    BY <1>1, <1>3, <2>3 DEF Good, OpsAt
  <2>5. Fits(new)
    BY <1>1, <1>3, <2>3 DEF Fits
  <2> QED BY <1>2, <2>2, <2>4, <2>5, SetGood
<1>5. CASE DropColumns(r)
  <2> DEFINE dropped == IF req.op = "deleteBoard" THEN {c \in Columns : column[c] = req.board}
                                                  ELSE {req.column} \cap Columns
             new == [req EXCEPT !.dropped = dropped, !.at = "commit"]
  <2>1. dropped \in SUBSET ColumnIds
    BY DEF Columns
  <2>2. \/ Finish(r, 500)
        \/ /\ \A k \in Cards \ req.doomed : card[k].column \notin dropped
           /\ request' = [request EXCEPT ![r].dropped = dropped, ![r].at = "commit"]
    BY <1>5 DEF DropColumns
  <2> HIDE DEF dropped
  <2>3. CASE /\ \A k \in Cards \ req.doomed : card[k].column \notin dropped
             /\ request' = [request EXCEPT ![r].dropped = dropped, ![r].at = "commit"]
    <3>1. request' = [request EXCEPT ![r] = new]
      BY <1>1, <2>3
    <3>2. /\ new \in RequestRecord /\ new.op = req.op /\ new.at = "commit"
          /\ new.column = req.column /\ new.copy = req.copy
          /\ new.doomed = req.doomed /\ new.dropped = dropped
      BY ZenonT(30), <1>1, <2>1 DEF RequestRecord, Step
    <3> HIDE DEF new
    <3>3. Good(new)
      BY <1>1, <1>3, <3>2 DEF Good, OpsAt
    <3>4. Fits(new)
      BY <1>1, <1>3, <2>3, <3>2 DEF Fits
    <3> QED BY <1>2, <3>1, <3>3, <3>4, SetGood
  <2> QED BY <1>2, <2>2, <2>3, FinishGood
<1> QED BY <1>4, <1>5

LEMMA CommitStep ==
  ASSUME BoardInv, NEW r \in Requests, Commit(r)
  PROVE  BoardInv'
<1> DEFINE req == request[r]
<1>1. Good(req) /\ Fits(req) /\ RowsOK /\ NoOrphans
  BY DEF BoardInv, RequestsOK
<1>2. req.at = "commit" /\ req.op \in {"deleteBoard", "deleteColumn"}
  BY <1>1 DEF Commit, Good, OpsAt
<1>3. \/ Finish(r, 500) /\ UNCHANGED rows
      \/ /\ req.op = "deleteBoard" => \A c \in Columns \ req.dropped : column[c] # req.board
         /\ board' = IF req.op = "deleteBoard" THEN board \ {req.board} ELSE board
         /\ column' = [c \in ColumnIds |-> IF c \in req.dropped THEN NoRow ELSE column[c]]
         /\ card' = [k \in CardIds |-> IF k \in req.doomed THEN NoRow ELSE card[k]]
         /\ Reply(r, "ok")
  BY DEF Commit
<1>4. CASE /\ req.op = "deleteBoard" => \A c \in Columns \ req.dropped : column[c] # req.board
           /\ board' = IF req.op = "deleteBoard" THEN board \ {req.board} ELSE board
           /\ column' = [c \in ColumnIds |-> IF c \in req.dropped THEN NoRow ELSE column[c]]
           /\ card' = [k \in CardIds |-> IF k \in req.doomed THEN NoRow ELSE card[k]]
           /\ Reply(r, "ok")
  <2>1. PICK n \in Nat : Finish(r, n)
    BY <1>2, <1>4, StatusType, Operations DEF Reply
  <2>2. /\ \A c \in ColumnIds : column'[c] = IF c \in req.dropped THEN NoRow ELSE column[c]
        /\ \A k \in CardIds : card'[k] = IF k \in req.doomed THEN NoRow ELSE card[k]
    BY <1>4
  <2>3. RowsOK'
    BY <1>1, <1>4 DEF RowsOK
  <2>4. Columns' = Columns \ req.dropped /\ Cards' = Cards \ req.doomed
    BY <2>2 DEF Columns, Cards
  <2>5. \A c \in Columns' : column'[c] \in board'
    BY <1>1, <1>4, <2>2, <2>4 DEF NoOrphans, Columns
  <2>6. ASSUME NEW k \in Cards'
        PROVE  card'[k].column \in Columns' /\ card'[k].board = column'[card'[k].column]
    <3>1. k \in CardIds /\ k \in Cards /\ card'[k] = card[k]
      BY <2>2, <2>4 DEF Cards
    <3>2. card[k].column \in Columns \ req.dropped
      BY <1>1, <1>2, <2>4, <3>1 DEF Fits, NoOrphans
    <3>3. column'[card[k].column] = column[card[k].column]
      BY <2>2, <3>2 DEF Columns
    <3> QED BY <1>1, <2>4, <3>1, <3>2, <3>3 DEF NoOrphans
  <2>7. NoOrphans'
    BY <2>5, <2>6 DEF NoOrphans
  <2>8. /\ \A c \in ColumnIds : column'[c] \in {column[c], NoRow}
        /\ \A k \in CardIds : card'[k] \in {card[k], NoRow}
    BY <2>2
  <2> QED BY <2>1, <2>3, <2>7, <2>8, WriteFits
<1> QED BY <1>3, <1>4, FinishGood

-----------------------------------------------------------------------------

LEMMA NextOK ==
  ASSUME BoardInv, [Next]_vars
  PROVE  BoardInv'
<1>1. CASE UNCHANGED vars
  <2>1. RowsOK' /\ NoOrphans'
    BY <1>1 DEF BoardInv, RowsOK, NoOrphans, vars, rows, Columns, Cards
  <2>2. RequestsOK'
    BY <1>1 DEF BoardInv, RequestsOK, vars, rows, Good, Fits, Columns, Cards
  <2> QED BY <2>1, <2>2 DEF BoardInv
<1>2. ASSUME NEW r \in Requests, NEW op \in Clients[r], NEW role \in Roles, Arrive(r, op, role)
      PROVE  BoardInv'
  BY <1>2, ArriveStep, ClientsAssumption
<1>3. ASSUME NEW r \in Requests, Handler(r) PROVE BoardInv'
  <2>1. CASE FindBoard(r) \/ FindColumn(r) \/ FindCard(r)
    BY <2>1, FindStep
  <2>2. CASE \/ \E c \in ColumnIds : FindTargetColumn(r, c)
             \/ \E nobody, isMember \in BOOLEAN : FindAssignee(r, nobody, isMember)
             \/ ReadSiblings(r) \/ GetBoard(r) \/ ListWorkspaceBoards(r)
    BY <2>2, OtherReadStep
  <2>3. CASE \/ \E b \in BoardIds : InsertBoard(r, b)
             \/ \E c \in ColumnIds : InsertColumn(r, c)
             \/ \E k \in CardIds : InsertCard(r, k)
    BY <2>3, InsertStep
  <2>4. CASE \E index \in 0 .. MaxIndex : SaveCard(r, index)
    BY <2>4, SaveStep, UnitAssumption
  <2>5. CASE SaveBoard(r) \/ SaveColumn(r) \/ DeleteCard(r)
    BY <2>5, RowWriteStep
  <2>6. CASE DropCards(r) \/ DropColumns(r)
    BY <2>6, DropStep
  <2>7. CASE Commit(r)
    BY <2>7, CommitStep
  <2> QED BY <1>3, <2>1, <2>2, <2>3, <2>4, <2>5, <2>6, <2>7 DEF Handler
<1>4. ASSUME NEW r \in Requests, Die(r) PROVE BoardInv'
  BY <1>4, FinishGood DEF Die
<1> QED BY <1>1, <1>2, <1>3, <1>4 DEF Next

LEMMA InitOK == Init => BoardInv
<1> SUFFICES ASSUME Init PROVE BoardInv
  OBVIOUS
<1>1. RowsOK /\ NoOrphans
  BY DEF Init, RowsOK, NoOrphans, Columns, Cards
<1>2. Idle = [Idle EXCEPT !.reply = 0]
  BY DEF Idle
<1>3. Good(Idle) /\ Fits(Idle)
  BY <1>2, IdleGood
<1> QED BY <1>1, <1>3 DEF Init, BoardInv, RequestsOK, Good

LEMMA InvAlways == Spec => []BoardInv
BY InitOK, NextOK, PTL DEF Spec

(* Type correctness of the board rows and of what requests hold of them.   *)
THEOREM TypeCorrect == Spec => []TypeOK
BY InvAlways, InvIsTyped, PTL

(* However requests on boards, columns and cards interleave and fail, no   *)
(* row outlives its parent and no card stands in another board's column,   *)
(* although MoveCardHandler and UpdateCardHandler write back what they     *)
(* read earlier and the deletions are several statements.                  *)
THEOREM NothingOrphaned == Spec => []NoOrphans
<1>1. BoardInv => NoOrphans
  BY DEF BoardInv
<1> QED BY <1>1, InvAlways, PTL
-----------------------------------------------------------------------------
(* Where a card is put.                                                    *)

(* The siblings without the card that is placed among them.                *)
Others(list, k) == [x \in DOMAIN list \ {k} |-> list[x]]

LEMMA InsertPlaces ==
  ASSUME BoardInv, NEW r \in Requests, NEW k \in CardIds, InsertCard(r, k), card'[k] # NoRow
  PROVE  Below(Others(request[r].list, k), card'[k].position) = Length(Others(request[r].list, k))
<1> DEFINE list == request[r].list
           others == Others(list, k)
<1>1. IsList(list) /\ card[k] = NoRow /\ card \in [CardIds -> CardRow \cup {NoRow}]
  BY ListRead DEF InsertCard, Cards, BoardInv, RowsOK, RequestsOK, RequestRecord
<1>2. card'[k].position = After(list)
  BY <1>1 DEF InsertCard
<1>3. \A x \in DOMAIN others : others[x] < After(list)
  BY <1>1, AfterPlaces DEF Others
<1> HIDE DEF others, list
<1> QED BY <1>2, <1>3, AllBelow DEF others, list

LEMMA MovePlaces ==
  ASSUME BoardInv, NEW r \in Requests, NEW index \in Nat, At(r, {"moveCard"}, "save"),
         request[r].card \in Cards, SaveCard(r, index),
         request'[r].reply = MoveCardController.status.ok,
         NEW others, others = Others(request[r].list, request[r].card),
         Distinct(others), HasRoom(others, index), index <= Length(others)
  PROVE  Below(others, card'[request[r].card].position) = index
<1> DEFINE req == request[r]
           k == req.card
<1>1. /\ Good(req) /\ req \in RequestRecord /\ request \in [Requests -> RequestRecord]
      /\ card \in [CardIds -> CardRow \cup {NoRow}] /\ k \in CardIds
  BY DEF BoardInv, RequestsOK, RowsOK, Good, Cards
<1>2. req.op = "moveCard" /\ req.at = "save" /\ req.copy \in CardRow /\ k \notin DOMAIN req.list
  BY <1>1 DEF At, Good
<1>3. IsList(req.list) /\ others = req.list
  <2>1. IsList(req.list)
    BY <1>1, ListRead DEF RequestRecord
  <2>2. req.list = [x \in DOMAIN req.list |-> req.list[x]]
    BY <1>1 DEF RequestRecord, SiblingList
  <2> QED BY <1>2, <2>1, <2>2 DEF Others
<1>4. card' = [card EXCEPT ![k] = CardSaved(r, index)]
  <2>1. \/ card' = [card EXCEPT ![k] = CardSaved(r, index)]
        \/ Finish(r, 500)
    BY DEF SaveCard
  <2>2. ASSUME Finish(r, 500) PROVE FALSE
    BY <1>1, <2>2 DEF Finish, Idle, MoveCardController
  <2> QED BY <2>1, <2>2
<1>5. CardSaved(r, index).position = Between(req.list, index)
  BY <1>2 DEF CardSaved, CardRow
<1>6. card'[k].position = Between(req.list, index)
  BY <1>1, <1>4, <1>5
<1>7. index \in 0 .. Length(req.list)
  BY <1>3, EmptyList
<1> QED BY <1>3, <1>6, <1>7, BetweenPlacesIt

(* FR-005, FR-006: CreateCardHandler puts a card after all its siblings    *)
(* and MoveCardHandler at the index asked for, for any number of cards and *)
(* any unit of position, unless siblings are tied or the midpoint is out   *)
(* of precision.                                                           *)
THEOREM CardsStandWhereAsked == Spec => PlacedWhereAsked
<1> DEFINE Placed ==
      \A r \in Requests, k \in CardIds :
          LET list   == request[r].list
              others == [x \in DOMAIN list \ {k} |-> list[x]]
          IN  /\ /\ InsertCard(r, k) /\ k \notin Cards /\ card'[k] # NoRow
                 /\ PlacedAmongAll(r, k, others)
                 => Below(others, card'[k].position) = Length(others)
              /\ \A index \in 0 .. MaxIndex :
                   /\ At(r, {"moveCard"}, "save") /\ k = request[r].card /\ k \in Cards
                   /\ PlacedAmongAll(r, k, others)
                   /\ SaveCard(r, index) /\ request'[r].reply = MoveCardController.status.ok
                   /\ Distinct(others) /\ HasRoom(others, index) /\ index <= Length(others)
                   => Below(others, card'[k].position) = index
<1>1. BoardInv => Placed
  BY InsertPlaces, MovePlaces, UnitAssumption DEF Others
<1>2. BoardInv /\ [Next]_vars => [Placed]_vars
  BY <1>1
<1> HIDE DEF Placed
<1> QED BY <1>2, InvAlways, PTL DEF Spec, PlacedWhereAsked, Placed
=============================================================================

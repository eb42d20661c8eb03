--------------------------- MODULE Notifications ---------------------------
(***************************************************************************)
(* The notifications table: rows that the consumers insert and their       *)
(* accounts mark as read, one by one through a copy of the row that is     *)
(* written back whole, or all with one UPDATE; and the Pagination of every *)
(* list.  Dates are counted in `today`.                                    *)
(***************************************************************************)
EXTENDS Naturals, Sequences

CONSTANTS Notes,    \* ids of notifications
          Readers,  \* accounts
          Nobody,
          Marks,    \* bound: requests the API serves at once
          LastDay,  \* bound: of the dates
          DefaultLimit, MaxLimit  \* rows of a page

ASSUME PaginationAssumption == DefaultLimit \in Nat \ {0} /\ MaxLimit \in Nat \ {0}

ASSUME NotificationsAssumption == Nobody \notin Readers /\ LastDay \in Nat \ {0}

VARIABLES note,   \* the rows: whose, about what, and when they were read, 0 for not yet
          mark,   \* where each request is, whose it is, and its copy of the row
          today

noteVars == <<note, mark, today>>

NoNote == [to |-> Nobody, type |-> "none", readAt |-> 0]

NoMark == [by |-> Nobody, id |-> Nobody, row |-> NoNote]

NotificationsInit ==
    /\ note = [n \in Notes |-> NoNote]
    /\ mark = [m \in Marks |-> NoMark]
    /\ today = 1

(* CreateNotificationHandler, once per delivery of an event.               *)
CreateNotification(n, a, type) ==
    /\ note[n] = NoNote
    /\ note' = [note EXCEPT ![n] = [to |-> a, type |-> type, readAt |-> 0]]
    /\ UNCHANGED <<mark, today>>

(* findDetailsById: the account with the e-mail of the invite by now.      *)
Invitee == Readers \cup {Nobody}

(* findRespondedDetails: the account that made the invite.                 *)
Inviter == Readers

(* The handlers of the invite events: an invitee with an account is told   *)
(* of the invite, the inviter of its acceptance or rejection.              *)
InviteCreated(n) ==
    \E a \in Invitee :
        IF a = Nobody THEN UNCHANGED noteVars ELSE CreateNotification(n, a, "invite")

InviteAccepted(n) == \E inviter \in Inviter : CreateNotification(n, inviter, "accepted")

InviteRejected(n) == \E inviter \in Inviter : CreateNotification(n, inviter, "rejected")

(* markAsRead keeps an earlier date.                                       *)
Marked(row) == IF row.readAt = 0 THEN [row EXCEPT !.readAt = today] ELSE row

(* Mutant: any account marks any notification.                             *)
FindNotificationOfAnyone(m, n, a) ==
    /\ mark[m] = NoMark
    /\ note[n].to # Nobody
    /\ mark' = [mark EXCEPT ![m] = [by |-> a, id |-> n, row |-> Marked(note[n])]]
    /\ UNCHANGED <<note, today>>

(* MarkNotificationAsReadHandler: findById, and 404 or 403 if it is not    *)
(* the account's.                                                          *)
FindNotification(m, n, a) ==
    /\ mark[m] = NoMark
    /\ note[n].to = a
    /\ mark' = [mark EXCEPT ![m] = [by |-> a, id |-> n, row |-> Marked(note[n])]]
    /\ UNCHANGED <<note, today>>

(* Every column is written from the copy.                                  *)
SaveNotification(m) ==
    /\ mark[m] # NoMark
    /\ note' = [note EXCEPT ![mark[m].id] = mark[m].row]
    /\ mark' = [mark EXCEPT ![m] = NoMark]
    /\ UNCHANGED today

MarkAllAsRead(a) ==
    /\ note' = [n \in Notes |-> IF note[n].to = a /\ note[n].readAt = 0
                                THEN [note[n] EXCEPT !.readAt = today] ELSE note[n]]
    /\ UNCHANGED <<mark, today>>

MarkFails(m) ==
    /\ mark[m] # NoMark
    /\ mark' = [mark EXCEPT ![m] = NoMark]
    /\ UNCHANGED <<note, today>>

Tomorrow ==
    /\ today < LastDay
    /\ today' = today + 1
    /\ UNCHANGED <<note, mark>>

NotificationsNext ==
    \/ \E n \in Notes : InviteCreated(n) \/ InviteAccepted(n) \/ InviteRejected(n)
    \/ \E m \in Marks, n \in Notes, a \in Readers : FindNotification(m, n, a)
    \/ \E m \in Marks : SaveNotification(m) \/ MarkFails(m)
    \/ \E a \in Readers : MarkAllAsRead(a)
    \/ Tomorrow

NoteRow ==
    [to : Readers \cup {Nobody}, type : {"none", "invite", "accepted", "rejected"},
     readAt : 0 .. LastDay]

NotificationsTypeOK ==
    /\ note \in [Notes -> NoteRow]
    /\ mark \in [Marks -> [by : Readers \cup {Nobody}, id : Notes \cup {Nobody}, row : NoteRow]]
    /\ today \in 1 .. LastDay

(* A notification stays its account's, about what it was, and read once it *)
(* is read, although the copies written back are old (DrizzleNotification- *)
(* Repository.save), and becomes read only by its own account, one by one  *)
(* or with all others.                                                     *)
ReadForGood ==
    [][\A n \in Notes :
          /\ note[n].to # Nobody => note'[n].to = note[n].to /\ note'[n].type = note[n].type
          /\ note[n].readAt # 0 => note'[n].readAt # 0
          /\ note[n].readAt = 0 /\ note'[n].readAt # 0 =>
               \/ MarkAllAsRead(note[n].to)
               \/ \E m \in Marks : mark[m].by = note[n].to /\ mark[m].id = n]_noteVars

-----------------------------------------------------------------------------

(* PaginationMiddleware: what is no number is asked as 0 here.             *)
AskedPage(page) == IF page >= 1 THEN page ELSE 1

AskedLimit(limit) ==
    IF limit >= 1 THEN (IF limit <= MaxLimit THEN limit ELSE MaxLimit) ELSE DefaultLimit

(* Pagination: the rows of a page, and what calculate says of it.          *)
PageRows(rows, page, limit) ==
    SubSeq(rows, (page - 1) * limit + 1,
           IF page * limit < Len(rows) THEN page * limit ELSE Len(rows))

Calculate(total, page, limit) ==
    [totalPages |-> (total + limit - 1) \div limit,
     hasNextPage |-> page * limit < total,
     hasPreviousPage |-> page > 1]

(* ListNotificationsHandler, of the table in the order of creation: the    *)
(* account's rows, or those of them that are read or not read.             *)
ListNotifications(rows, a, read, page, limit) ==
    LET asked == AskedLimit(limit)
        mine  == SelectSeq(rows, LAMBDA row : row.to = a /\ (row.readAt # 0) \in read)
    IN  [data       |-> PageRows(mine, AskedPage(page), asked),
         pagination |-> Calculate(Len(mine), AskedPage(page), asked)]
=============================================================================

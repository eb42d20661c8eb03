----------------------------- MODULE ApiPartsMC -----------------------------
(* ApiParts for TLC, and Pagination against what a list promises: its      *)
(* pages one after the other are its rows, and calculate tells of a page   *)
(* whether there is another one.                                           *)
EXTENDS ApiParts, SequencesExt

Rows(total) == [n \in 1 .. total |-> n]

ASSUME PagesMakeTheList ==
    \A total \in 0 .. 7, limit \in 1 .. 4 :
        LET pages == Calculate(total, 1, limit).totalPages
        IN  /\ FlattenSeq([p \in 1 .. pages |-> PageRows(Rows(total), p, limit)]) = Rows(total)
            /\ \A p \in 1 .. pages + 1 :
                 /\ PageRows(Rows(total), p, limit) # <<>> <=> p <= pages
                 /\ Calculate(total, p, limit).hasNextPage <=> p < pages
                 /\ p <= pages /\ Calculate(total, p, limit).hasPreviousPage =>
                      PageRows(Rows(total), p - 1, limit) # <<>>

Table(owners) == [n \in DOMAIN owners |-> [to |-> owners[n], readAt |-> n % 2, number |-> n]]

(* Whatever page and limit are asked for, a list of notifications is a     *)
(* page of the account's own in their order, never more than MaxLimit, and *)
(* following hasNextPage from the first page meets all that were wanted.   *)
ASSUME ListsAreMine ==
    \A total \in 0 .. 4 : \A owners \in [1 .. total -> {1, 2}] :
        \A read \in {{TRUE}, {FALSE}, BOOLEAN}, limit \in -1 .. 4 :
            LET rows         == Table(owners)
                Listed(page) == ListNotifications(rows, 1, read, page, limit)
                last         == Listed(1).pagination.totalPages
                all          == FlattenSeq([p \in 1 .. last |-> Listed(p).data])
            IN  /\ ToSet(all) = {r \in ToSet(rows) : r.to = 1 /\ (r.readAt # 0) \in read}
                /\ \A i, j \in DOMAIN all : i < j => all[i].number < all[j].number
                /\ \A page \in -1 .. last + 1 :
                     /\ Len(Listed(page).data) <= MaxLimit
                     /\ page < 1 => Listed(page) = Listed(1)
                     /\ Listed(page).pagination.hasNextPage => Listed(page + 1).data # <<>>
=============================================================================

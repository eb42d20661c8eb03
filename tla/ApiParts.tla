------------------------------ MODULE ApiParts ------------------------------
(***************************************************************************)
(* The parts of the API that share no state with one another: the rate     *)
(* limit, the sign-up, the workspace records, the notifications, the       *)
(* watched list and a tab of the web client.                               *)
(***************************************************************************)
EXTENDS RateLimit, SignUp, WorkspaceRecords, Notifications, WatchedList, WebSession

VARIABLE part   \* bound: the part a behaviour exercises

vars == <<part, rateVars, accountVars, recordVars, noteVars, listVars, webVars>>

Init ==
    /\ part \in {"rate", "signUp", "records", "notes", "list", "web"}
    /\ RateInit /\ SignUpInit /\ RecordsInit /\ NotificationsInit
    /\ IF part = "list" THEN ListInit
       ELSE items = {} /\ initial = {} /\ added = {} /\ removed = {} /\ shared = FALSE
    /\ WebInit /\ (part = "web" \/ ~session)

Rate ==
    part = "rate" /\ RateNext
      /\ UNCHANGED <<part, accountVars, recordVars, noteVars, listVars, webVars>>

SigningUp ==
    part = "signUp" /\ SignUpNext
      /\ UNCHANGED <<part, rateVars, recordVars, noteVars, listVars, webVars>>

Records ==
    part = "records" /\ RecordsNext
      /\ UNCHANGED <<part, rateVars, accountVars, noteVars, listVars, webVars>>

Notifying ==
    part = "notes" /\ NotificationsNext
      /\ UNCHANGED <<part, rateVars, accountVars, recordVars, listVars, webVars>>

List ==
    part = "list" /\ ListNext
      /\ UNCHANGED <<part, rateVars, accountVars, recordVars, noteVars, webVars>>

Browsing ==
    part = "web" /\ WebNext
      /\ UNCHANGED <<part, rateVars, accountVars, recordVars, noteVars, listVars>>

Next == Rate \/ SigningUp \/ Records \/ Notifying \/ List \/ Browsing

Spec == Init /\ [][Next]_vars /\ RateFairness /\ WebFairness

TypeOK ==
    /\ RateTypeOK /\ SignUpTypeOK /\ RecordsTypeOK /\ NotificationsTypeOK /\ ListTypeOK
    /\ WebTypeOK
=============================================================================

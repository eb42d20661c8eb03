----------------------------- MODULE WebSession -----------------------------
(***************************************************************************)
(* One tab of the web client from load to close: the auth store (its       *)
(* status and the flag of the overlay), what bootstrapSession, logging in  *)
(* and logging out make of it, withSessionTransition and its escape hatch, *)
(* and the route guards.  Sessions is what happens to the requests between *)
(* tab and server; here `session` says if the cookies open a session.      *)
(***************************************************************************)
CONSTANTS Actions,  \* bound: logins and logouts under way at once
          Boot      \* the memoized promise of bootstrapSession

ASSUME WebSessionAssumption == Boot \notin Actions

Calls == Actions \cup {Boot}

VARIABLES status,         \* of the auth store
          transitioning,  \* isTransitioning: the overlay covers the page
          session,        \* the cookies open a session
          route,          \* "login" is any guest page, "app" any page of the dashboard
          action,         \* where each call is, what it was told, its timer, and if
                          \* nothing else has touched the session since it began
          drifted         \* history: why the store need not tell the session

webVars == <<status, transitioning, session, route, action, drifted>>

NoAction == [at |-> "idle", ok |-> FALSE, alarm |-> FALSE, alone |-> FALSE]

WebInit ==
    /\ status = "loading"
    /\ transitioning = FALSE
    /\ session \in BOOLEAN
    /\ route = "none"
    /\ action = [o \in Calls |-> IF o = Boot THEN [NoAction EXCEPT !.at = "me", !.alone = TRUE]
                                             ELSE NoAction]
    /\ drifted = FALSE

UnderWay == {o \in Calls : action[o].at # "idle"}

(* The guards of the two kinds of route read the store.                    *)
Guarded == IF status = "authenticated" THEN "app" ELSE "login"

Goto(o, at) == action' = [action EXCEPT ![o].at = at]

EndAction(o) == action' = [action EXCEPT ![o] = NoAction]

(* Somebody sees no overlay and presses the button.                        *)
Begin(o, at, alarm) ==
    /\ action[o].at = "idle" /\ ~transitioning
    /\ action' = [p \in Calls |->
                    IF p = o THEN [at |-> at, ok |-> FALSE, alarm |-> alarm, alone |-> UnderWay = {}]
                             ELSE [action[p] EXCEPT !.alone = FALSE]]
    /\ drifted' = (drifted \/ UnderWay # {})

-----------------------------------------------------------------------------

(* getMe: AuthMiddleware and the handler know the account of a session,    *)
(* unless a call fails on the way there or back.                           *)
MeServed(o) ==
    /\ action[o].at = "me"
    /\ \E ok \in {session, FALSE} :
        /\ action' = [action EXCEPT ![o] = [@ EXCEPT !.at = "told", !.ok = ok]]
        /\ drifted' = (drifted \/ (session /\ ~ok))
    /\ UNCHANGED <<status, transitioning, session, route>>

(* The guards run when the promise has resolved, never before.             *)
Bootstrapped ==
    /\ action[Boot].at = "told"
    /\ status' = IF action[Boot].ok THEN "authenticated" ELSE "unauthenticated"
    /\ route' = IF action[Boot].ok THEN "app" ELSE "login"
    /\ EndAction(Boot)
    /\ UNCHANGED <<transitioning, session, drifted>>

SignIn(o) ==
    /\ route = "login"
    /\ Begin(o, "authenticate", FALSE)
    /\ UNCHANGED <<status, transitioning, session, route>>

(* The answer brings the cookies of a new session.                         *)
Authenticated(o) ==
    /\ action[o].at = "authenticate"
    /\ session' = TRUE
    /\ Goto(o, "me")
    /\ UNCHANGED <<status, transitioning, route, drifted>>

(* It is refused, or lost: then the pair it stored has replaced another.   *)
AuthenticateFails(o) ==
    /\ action[o].at = "authenticate"
    /\ session' \in {session, FALSE}
    /\ EndAction(o)
    /\ UNCHANGED <<status, transitioning, route, drifted>>

(* onSuccess: the store is set, and the workspaces are fetched again.      *)
LoggedIn(o) ==
    /\ action[o].at = "told" /\ action[o].ok
    /\ status' = "authenticated"
    /\ drifted' = (drifted /\ ~action[o].alone)
    /\ Goto(o, "refetch")
    /\ UNCHANGED <<transitioning, session, route>>

(* onSuccess rejects: the form stays, with cookies nobody tells it of.     *)
MeFails(o) ==
    /\ action[o].at = "told" /\ ~action[o].ok
    /\ EndAction(o)
    /\ UNCHANGED <<status, transitioning, session, route, drifted>>

(* Only now does the page wrap its navigation in withSessionTransition.    *)
Refetched(o) ==
    /\ action[o].at = "refetch"
    /\ action' = [action EXCEPT ![o] = [@ EXCEPT !.at = "leave", !.alarm = TRUE]]
    /\ transitioning' = TRUE
    /\ UNCHANGED <<status, session, route, drifted>>

-----------------------------------------------------------------------------

(* Mutant: the overlay without its escape hatch.                           *)
SignOutUnarmed(o) ==
    /\ route = "app"
    /\ Begin(o, "logout", FALSE)
    /\ transitioning' = TRUE
    /\ UNCHANGED <<status, session, route>>

(* handleSignOut: the overlay from before the request to the last step.    *)
SignOut(o) ==
    /\ route = "app"
    /\ Begin(o, "logout", TRUE)
    /\ transitioning' = TRUE
    /\ UNCHANGED <<status, session, route>>

(* The server forgets the session, or fails before or after that.          *)
LogoutServed(o) ==
    /\ action[o].at = "logout"
    /\ \E ok \in BOOLEAN :
        /\ session' \in (IF ok THEN {FALSE} ELSE {session, FALSE})
        /\ action' = [action EXCEPT ![o] = [@ EXCEPT !.at = "out", !.ok = ok]]
    /\ UNCHANGED <<status, transitioning, route, drifted>>

(* Mutant: the store is set but nobody navigates.                          *)
LoggedOutStays(o) ==
    /\ action[o].at = "out" /\ action[o].ok
    /\ session' = FALSE
    /\ status' = "unauthenticated"
    /\ drifted' = (drifted /\ ~action[o].alone)
    /\ transitioning' = FALSE
    /\ EndAction(o)
    /\ UNCHANGED route

(* onSuccess: the answer clears the cookies, then the store is set.        *)
LoggedOut(o) ==
    /\ action[o].at = "out" /\ action[o].ok
    /\ session' = FALSE
    /\ status' = "unauthenticated"
    /\ drifted' = (drifted /\ ~action[o].alone)
    /\ Goto(o, "leave")
    /\ UNCHANGED <<transitioning, route>>

(* Mutant: onSettled instead of onSuccess.                                 *)
LogoutFailsUnnoticed(o) ==
    /\ action[o].at = "out"
    /\ drifted' = (drifted \/ ~session)
    /\ status' = "unauthenticated"
    /\ transitioning' = FALSE
    /\ EndAction(o)
    /\ UNCHANGED <<session, route>>

(* It failed, or the answer is lost: finally clears the overlay, and the   *)
(* store still says authenticated.                                         *)
LogoutFails(o) ==
    /\ action[o].at = "out"
    /\ drifted' = (drifted \/ ~session)
    /\ transitioning' = FALSE
    /\ EndAction(o)
    /\ UNCHANGED <<status, session, route>>

-----------------------------------------------------------------------------

(* The navigation ends an action, whatever the store says by then: to "/", *)
(* the landing page behind the guard, or to "/login".                      *)
Leave(o) ==
    /\ action[o].at = "leave"
    /\ route' = Guarded
    /\ transitioning' = FALSE
    /\ EndAction(o)
    /\ UNCHANGED <<status, session, drifted>>

(* withSessionTransition's timer.                                          *)
EscapeHatch(o) ==
    /\ action[o].alarm
    /\ transitioning' = FALSE
    /\ action' = [action EXCEPT ![o].alarm = FALSE]
    /\ UNCHANGED <<status, session, route, drifted>>

(* A link, or the browser's back button.                                   *)
Navigate ==
    /\ route # "none"
    /\ route' = Guarded
    /\ UNCHANGED <<status, transitioning, session, action, drifted>>

(* Another tab logs in or out, or the tokens expire.                       *)
Elsewhere ==
    /\ session' = ~session
    /\ action' = [o \in Calls |-> [action[o] EXCEPT !.alone = FALSE]]
    /\ drifted' = TRUE
    /\ UNCHANGED <<status, transitioning, route>>

WebNext ==
    \/ MeServed(Boot) \/ Bootstrapped \/ Navigate \/ Elsewhere
    \/ \E o \in Actions :
        \/ SignIn(o) \/ Authenticated(o) \/ AuthenticateFails(o)
        \/ MeServed(o) \/ LoggedIn(o) \/ MeFails(o) \/ Refetched(o)
        \/ SignOut(o) \/ LogoutServed(o) \/ LoggedOut(o) \/ LogoutFails(o)
        \/ Leave(o) \/ EscapeHatch(o)

(* A timer that is set goes off.                                           *)
WebFairness == \A o \in Actions : WF_webVars(EscapeHatch(o))

ActionRecord ==
    [at : {"idle", "me", "told", "authenticate", "refetch", "logout", "out", "leave"},
     ok : BOOLEAN, alarm : BOOLEAN, alone : BOOLEAN]

WebTypeOK ==
    /\ status \in {"loading", "authenticated", "unauthenticated"}
    /\ transitioning \in BOOLEAN /\ session \in BOOLEAN /\ drifted \in BOOLEAN
    /\ route \in {"none", "login", "app"}
    /\ action \in [Calls -> ActionRecord]

(* The tab knows if it has a session whenever nothing is under way, as     *)
(* bootstrap-session.ts promises of a store only login and logout write:   *)
(* unless the session changed elsewhere, a getMe or a logout failed, or    *)
(* two actions overlapped, and nobody has logged in or out alone since.    *)
TabTellsTheSession ==
    drifted \/ UnderWay # {} \/ (status = "authenticated" <=> session)

(* The page is the one the guards allow for the store, whatever late       *)
(* answers change the store: else a navigation is still to come.           *)
PageFollowsStore ==
    route \in {"none", Guarded} \/ \E o \in Calls : action[o].at \in {"refetch", "leave"}

(* The overlay goes away although an answer may never come, and although   *)
(* several actions write its flag (withSessionTransition).                 *)
OverlayLifts == transitioning ~> ~transitioning
=============================================================================

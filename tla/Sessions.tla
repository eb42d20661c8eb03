------------------------------ MODULE Sessions ------------------------------
(***************************************************************************)
(* One account's session: the refresh and the access token in two Valkey   *)
(* stores, written by AuthenticateHandler and RefreshTokenHandler, deleted *)
(* by LogoutHandler, and asked by AuthMiddleware; the cookies of one       *)
(* browser; the IdempotencyMiddleware in front of POST /auth/refresh; and  *)
(* the web client that refreshes on a 401 and repeats a refresh whose      *)
(* answer did not arrive under the same idempotency key.                   *)
(* A token carries no more than its account and the second it was issued   *)
(* in, so the pairs generated in one second are the same: a pair is that   *)
(* second.                                                                 *)
(***************************************************************************)
EXTENDS Naturals, FiniteSets

CONSTANTS Tabs,        \* tabs of the browser: they share its cookies
          NoTab,       \* no tab: the slot is idle
          Slots,       \* bound: requests the API serves at once
          MaxTime,     \* bound: seconds
          AccessTTL,   \* bound: seconds an access token is good for
          RefreshTTL,  \* bound: seconds a refresh token is good for
          MaxFaults    \* bound: lost connections and rejected Valkey calls

ASSUME SlotsAssumption == Slots \in Nat /\ NoTab \notin Tabs
ASSUME TimeAssumption ==
    MaxTime \in Nat \ {0} /\ AccessTTL \in Nat /\ RefreshTTL \in Nat /\ MaxFaults \in Nat

VARIABLES clock,     \* the second it is
          stored,    \* the pair whose token each store holds
          jar,       \* the pair in the cookies
          tab,       \* what each tab is waiting for
          request,   \* what each request slot of the API is doing
          snapshot,  \* the response kept under the key of a tab's refresh
          faults,
          raced,     \* history: why cookies and stores may differ
          ended      \* history: "yes" after a logout no request disturbed

history == <<raced, ended>>

vars == <<clock, stored, jar, tab, request, snapshot, faults, history>>

Store == {"refresh", "access"}

NoPair == 0

Slot == 1 .. Slots

(* `live`: a tab waits for the answer; `current`: it carries the key of    *)
(* the tab's refresh; `left`: the stores to write; `snap`: the response is *)
(* still to be kept.                                                       *)
Idle ==
    [op |-> "none", at |-> "idle", from |-> NoTab, live |-> FALSE,
     current |-> FALSE, cookie |-> NoPair, pair |-> NoPair, left |-> {}, reply |-> "none",
     snap |-> FALSE]

NoSnapshot == [status |-> "none", pair |-> NoPair]

Lost == [status |-> "lost", pair |-> NoPair]

Init ==
    /\ clock = 1
    /\ stored = [s \in Store |-> NoPair]
    /\ jar = NoPair
    /\ tab = [t \in Tabs |-> "ready"]
    /\ request = [r \in Slot |-> Idle]
    /\ snapshot = [t \in Tabs |-> NoSnapshot]
    /\ faults = 0
    /\ raced = FALSE
    /\ ended = "no"

(* JwtCryptographGateway.verify of a token of this pair.                   *)
Verify(pair, ttl) == pair # NoPair /\ clock < pair + ttl

Fault == faults < MaxFaults /\ faults' = faults + 1

(* The controller answers; the wrapped send of a refresh keeps a snapshot. *)
Answered(req, status) ==
    [req EXCEPT !.at = "replied", !.reply = status, !.snap = req.current, !.cookie = NoPair]

(* The handler starts its writes: the pair to save, or NoPair to delete.   *)
Writes(req, pair) ==
    [req EXCEPT !.at = "write", !.pair = pair, !.left = Store, !.cookie = NoPair]

(* A slot with nothing left to do is idle again.                           *)
Settled(req) ==
    IF req.at = "replied" /\ ~req.live /\ ~req.snap /\ req.left = {} THEN Idle ELSE req

Put(r, req) == request' = [request EXCEPT ![r] = Settled(req)]

-----------------------------------------------------------------------------

(* Slot r has changed the stores and not the cookies, or not both stores.  *)
Unsettled(r) ==
    \/ request[r].left # {}
    \/ /\ request[r].reply = "ok" /\ request[r].op # "me"
       /\ request[r].live \/ request[r].current

Pending(t) == snapshot[t].status \in {"ok", "lost"}

Undisturbed(r) ==
    /\ \A q \in Slot \ {r} : ~Unsettled(q)
    /\ \A t \in Tabs : ~Pending(t)

(* No request but r may still change the session.                          *)
Alone(r) ==
    /\ request[r].left = {}
    /\ \A q \in Slot \ {r} : request[q].op \in {"none", "me"}
    /\ \A t \in Tabs : ~Pending(t)

(* A change of the session begins in r: nobody else may be in the middle   *)
(* of one, and somebody must be there to receive it.                       *)
Begins(r) == raced' = (raced \/ ~Undisturbed(r) \/ ~(request[r].live \/ request[r].current))

-----------------------------------------------------------------------------

(* The web client (shared/api/client.ts).  The calls of a tab that meet a  *)
(* 401 wait for one refreshSession, so a tab makes one call at a time.     *)
FirstStep ==
    [me |-> "check", authenticate |-> "credentials", refresh |-> "readCached", logout |-> "verify"]

Free == {r \in Slot : request[r].at = "idle"}

(* rawFetch, with the cookies of this moment.                              *)
Fetch(t, op) ==
    /\ \E r \in Free :
         /\ \A q \in Free : r <= q
         /\ request' = [request EXCEPT ![r] =
              [Idle EXCEPT !.op = op, !.at = FirstStep[op], !.from = t, !.live = TRUE,
                  !.current = (op = "refresh"),
                  !.cookie = IF op = "authenticate" THEN NoPair ELSE jar]]
    /\ UNCHANGED <<clock, stored, jar, snapshot, faults, history>>

(* apiRequest: a path behind AuthMiddleware, authenticate or logout.       *)
Call(t, op) ==
    /\ tab[t] = "ready"
    /\ tab' = [tab EXCEPT ![t] = op]
    /\ Fetch(t, op)

(* The fetch that follows an earlier one.                                  *)
Follow(t) ==
    /\ tab[t] \in {"needRefresh", "needRepeat", "needMe"}
    /\ tab' = [tab EXCEPT ![t] = CASE tab[t] = "needRefresh" -> "refresh"
                                   [] tab[t] = "needRepeat"  -> "repeat"
                                   [] tab[t] = "needMe"      -> "meAgain"]
    /\ Fetch(t, IF tab[t] = "needMe" THEN "me" ELSE "refresh")

(* What a tab does when its fetch brings a status or is rejected.          *)
AfterReply(t, status) ==
    CASE tab[t] = "me" /\ status = "401"                      -> "needRefresh"
      [] tab[t] = "refresh" /\ status = "rejected"            -> "needRepeat"
      [] tab[t] \in {"refresh", "repeat"} /\ status = "ok"    -> "needMe"
      [] OTHER -> "ready"

(* refreshSession of tab t is over: its key will not be sent again.        *)
Forget(t, requests) ==
    /\ snapshot' = [snapshot EXCEPT ![t] = NoSnapshot]
    /\ request' = [q \in Slot |->
         IF requests[q].from = t
         THEN Settled([requests[q] EXCEPT !.current = FALSE, !.snap = FALSE])
         ELSE requests[q]]

(* What the Set-Cookie headers of an answer leave in the browser.          *)
CookiesAfter(req) ==
    CASE req.reply # "ok" \/ req.op = "me"     -> jar
      [] req.reply = "ok" /\ req.op = "logout" -> NoPair
      [] OTHER                                 -> req.pair

(* An answer arrives; the browser takes its cookies.                       *)
Deliver(r) ==
    LET req  == request[r]
        new  == CookiesAfter(req)
        hung == [request EXCEPT ![r].live = FALSE]
    IN  /\ req.at = "replied" /\ req.live
        /\ jar' = new
        /\ tab' = [tab EXCEPT ![req.from] = AfterReply(req.from, req.reply)]
        /\ IF req.op = "refresh" THEN Forget(req.from, hung)
           ELSE Put(r, hung[r]) /\ UNCHANGED snapshot
        /\ raced' = (raced /\ ~(Alone(r) /\ \A s \in Store : stored[s] = new))
        /\ UNCHANGED <<clock, stored, faults, ended>>

(* The connection is lost, before the API saw the request or after; the    *)
(* API goes on in that case.                                               *)
Drop(r, unseen) ==
    LET req   == request[r]
        t     == req.from
        hung  == [request EXCEPT ![r] = IF unseen THEN Idle ELSE Settled([req EXCEPT !.live = FALSE])]
    IN  /\ req.live /\ Fault
        /\ unseen => req.at = FirstStep[req.op]
        /\ tab' = [tab EXCEPT ![t] = AfterReply(t, "rejected")]
        /\ IF tab[t] = "repeat" THEN Forget(t, hung) ELSE request' = hung /\ UNCHANGED snapshot
        /\ raced' = (\/ raced
                     \/ req.op \in {"authenticate", "logout"} /\ Unsettled(r)
                     \/ /\ tab[t] = "repeat"
                        /\ \/ snapshot[t].status \in {"ok", "lost"}
                           \/ \E q \in Slot : request[q].from = t /\ Unsettled(q))
        /\ UNCHANGED <<clock, stored, jar, ended>>

-----------------------------------------------------------------------------

(* AuthMiddleware.                                                         *)
Check(r) ==
    LET req == request[r]
    IN  /\ req.at = "check"
        /\ Put(r, Answered(req, IF Verify(req.cookie, AccessTTL) /\ stored.access = req.cookie
                                THEN "ok" ELSE "401"))
        /\ UNCHANGED <<clock, stored, jar, tab, snapshot, faults, history>>

(* AuthenticateHandler up to the pair it generates.                        *)
Credentials(r, valid) ==
    LET req == request[r]
    IN  /\ req.at = "credentials"
        /\ IF ~valid THEN Put(r, Answered(req, "401")) /\ UNCHANGED history
           ELSE /\ Put(r, Writes(req, clock))
                /\ Begins(r)
                /\ ended' = "no"
        /\ UNCHANGED <<clock, stored, jar, tab, snapshot, faults>>

(* Mutant: a snapshot is answered with after its 30 seconds.               *)
ReadCachedExpired(r) ==
    /\ request[r].at = "readCached"
    /\ Put(r, IF snapshot[request[r].from].status # "none"
              THEN [request[r] EXCEPT !.at = "replied", !.reply = snapshot[request[r].from].status]
              ELSE [request[r] EXCEPT !.at = "matches"])
    /\ UNCHANGED <<clock, stored, jar, tab, snapshot, faults, history>>

(* Mutant: the key is looked up and the answer not used.                   *)
ReadCachedInVain(r) ==
    /\ request[r].at = "readCached"
    /\ Put(r, [request[r] EXCEPT !.at = "matches"])
    /\ UNCHANGED <<clock, stored, jar, tab, snapshot, faults, history>>

(* IdempotencyMiddleware: replay, or run the handler.                      *)
ReadCached(r) ==
    LET req == request[r]
        t   == req.from
        hit == req.current /\ snapshot[t].status \in {"ok", "401", "failed"}
    IN  /\ req.at = "readCached"
        /\ Put(r, IF hit THEN [req EXCEPT !.at = "replied", !.reply = snapshot[t].status,
                                          !.pair = snapshot[t].pair]
                  ELSE [req EXCEPT !.at = "matches"])
        /\ raced' = (\/ raced
                     \/ /\ ~hit /\ req.current
                        /\ \/ snapshot[t].status = "lost"
                           \/ \E q \in Slot \ {r} : request[q].from = t /\ request[q].current)
        /\ UNCHANGED <<clock, stored, jar, tab, snapshot, faults, ended>>

(* Mutant: a token that verifies is good.                                  *)
MatchesAnyVerified(r) ==
    /\ request[r].at = "matches"
    /\ IF Verify(request[r].cookie, RefreshTTL)
       THEN Put(r, Writes(request[r], clock))
       ELSE Put(r, Answered(request[r], "401"))
    /\ UNCHANGED <<clock, stored, jar, tab, snapshot, faults, history>>

(* RefreshTokenHandler: verify, matches, generatePair.                     *)
Matches(r) ==
    LET req == request[r]
    IN  /\ req.at = "matches"
        /\ IF ~(Verify(req.cookie, RefreshTTL) /\ stored.refresh = req.cookie)
           THEN Put(r, Answered(req, "401")) /\ UNCHANGED history
           ELSE /\ Put(r, Writes(req, clock))
                /\ Begins(r)
                /\ ended' = IF ended = "ending" THEN "no" ELSE ended
        /\ UNCHANGED <<clock, stored, jar, tab, snapshot, faults>>

(* LogoutHandler verifies the token and does not compare it.               *)
VerifyLogout(r) ==
    LET req == request[r]
    IN  /\ req.at = "verify"
        /\ IF ~Verify(req.cookie, RefreshTTL) THEN Put(r, Answered(req, "401")) /\ UNCHANGED history
           ELSE /\ Put(r, Writes(req, NoPair))
                /\ Begins(r)
                /\ ended' = IF \A q \in Slot \ {r} : request[q].left = {} THEN "ending" ELSE "no"
        /\ UNCHANGED <<clock, stored, jar, tab, snapshot, faults>>

(* The two writes of Promise.all, in either order: a save, or a delete.    *)
(* The first to be rejected answers 500; the other goes on.  A write that  *)
(* the circuit breaker gave up on may reach the store all the same.        *)
Write(r, s, rejected) ==
    LET req  == request[r]
        left == req.left \ {s}
        done == [req EXCEPT !.left = left]
    IN  /\ s \in req.left
        /\ IF rejected
           THEN /\ Fault
                /\ Put(r, IF req.at = "write" THEN Answered(done, "failed") ELSE done)
                /\ raced' = TRUE
                /\ ended' = "no"
                /\ stored' \in {stored, [stored EXCEPT ![s] = req.pair]}
           ELSE /\ stored' = [stored EXCEPT ![s] = req.pair]
                /\ Put(r, IF left = {} /\ req.at = "write" THEN Answered(done, "ok") ELSE done)
                /\ ended' = IF left = {} /\ ended = "ending" THEN "yes" ELSE ended
                /\ UNCHANGED <<raced, faults>>
        /\ UNCHANGED <<clock, jar, tab, snapshot>>

(* A read of Valkey or PostgreSQL is rejected: 500.                        *)
ReadFails(r) ==
    /\ request[r].at \in {"check", "credentials", "matches"}
    /\ Fault
    /\ Put(r, Answered(request[r], "failed"))
    /\ UNCHANGED <<clock, stored, jar, tab, snapshot, history>>

(* storeCached is not awaited: the response may be on its way before it.   *)
StoreCached(r, rejected) ==
    LET req == request[r]
    IN  /\ req.snap
        /\ IF rejected THEN Fault ELSE UNCHANGED faults
        /\ snapshot' = [snapshot EXCEPT ![req.from] =
             IF rejected THEN Lost ELSE [status |-> req.reply, pair |-> req.pair]]
        /\ Put(r, [req EXCEPT !.snap = FALSE])
        /\ UNCHANGED <<clock, stored, jar, tab, history>>

(* The snapshot's 30 seconds are over.                                     *)
SnapshotExpires(t) ==
    /\ snapshot[t].status \notin {"none", "lost"}
    /\ Fault
    /\ snapshot' = [snapshot EXCEPT ![t] = Lost]
    /\ UNCHANGED <<clock, stored, jar, tab, request, history>>

Tick ==
    /\ clock < MaxTime
    /\ clock' = clock + 1
    /\ UNCHANGED <<stored, jar, tab, request, snapshot, faults, history>>

-----------------------------------------------------------------------------

Client(t) ==
    \/ \E op \in {"me", "authenticate", "logout"} : Call(t, op)
    \/ Follow(t)

Serve(r) ==
    \/ Check(r) \/ ReadCached(r) \/ Matches(r) \/ VerifyLogout(r)
    \/ \E valid \in BOOLEAN : Credentials(r, valid)
    \/ \E s \in Store : Write(r, s, FALSE)
    \/ StoreCached(r, FALSE)

Failure ==
    \/ \E r \in Slot :
         \/ \E unseen \in BOOLEAN : Drop(r, unseen)
         \/ \E s \in Store : Write(r, s, TRUE)
         \/ ReadFails(r)
         \/ StoreCached(r, TRUE)
    \/ \E t \in Tabs : SnapshotExpires(t)

Next ==
    \/ \E t \in Tabs : Client(t)
    \/ \E r \in Slot : Serve(r) \/ Deliver(r)
    \/ Failure
    \/ Tick

Spec == Init /\ [][Next]_vars

-----------------------------------------------------------------------------

TypeOK ==
    /\ clock \in 1 .. MaxTime
    /\ stored \in [Store -> 0 .. MaxTime]
    /\ jar \in 0 .. MaxTime
    /\ tab \in [Tabs -> {"ready", "me", "authenticate", "logout", "needRefresh", "refresh",
                         "needRepeat", "repeat", "needMe", "meAgain"}]
    /\ request \in [Slot ->
         [op : DOMAIN FirstStep \cup {"none"},
          at : {"idle", "check", "credentials", "readCached", "matches", "verify", "write",
                "replied"},
          from : Tabs \cup {NoTab}, live : BOOLEAN, current : BOOLEAN, cookie : 0 .. MaxTime,
          pair : 0 .. MaxTime, left : SUBSET Store,
          reply : {"none", "ok", "401", "failed"}, snap : BOOLEAN]]
    /\ snapshot \in [Tabs ->
         [status : {"none", "lost", "ok", "401", "failed"}, pair : 0 .. MaxTime]]
    /\ faults \in 0 .. MaxFaults
    /\ raced \in BOOLEAN
    /\ ended \in {"no", "ending", "yes"}

(* Whenever nothing is under way, the browser holds exactly the tokens the *)
(* stores accept: rotation leaves no tab with a pair that is refused, and  *)
(* a refresh repeated after a lost answer is given the pair the first one  *)
(* stored (IdempotencyMiddleware, client.ts refreshSession).  Exceptions   *)
(* are two changes at once, a change whose answer nobody received, a write *)
(* that failed, and a repetition that found no snapshot: the first request *)
(* was not done, or the snapshot was lost or too old.                      *)
CookiesMatchStores ==
    /\ ~raced
    /\ \A r \in Slot : ~Unsettled(r)
    /\ \A t \in Tabs : ~Pending(t)
    => \A s \in Store : stored[s] = jar

(* A logout during which no login or refresh was storing its pair ends the *)
(* session for every tab: no store holds a token, and no request under     *)
(* way, however old its cookies, brings one back before the next login.    *)
LogoutEnds ==
    ended = "yes" => \A s \in Store : stored[s] = NoPair
=============================================================================

--------------------------- MODULE Sessions_proofs ---------------------------
(***************************************************************************)
(* Proofs about Sessions, for any number of tabs and of requests at once:  *)
(* type correctness, that a logout nobody disturbed ends the session, and  *)
(* that the cookies hold what the stores hold when nothing is under way.   *)
(***************************************************************************)
EXTENDS Sessions, TLAPS

RequestRecord ==
    [op : DOMAIN FirstStep \cup {"none"},
     at : {"idle", "check", "credentials", "readCached", "matches", "verify", "write",
           "replied"},
     from : Tabs \cup {NoTab}, live : BOOLEAN, current : BOOLEAN, cookie : 0 .. MaxTime,
     pair : 0 .. MaxTime, left : SUBSET Store,
     reply : {"none", "ok", "401", "failed"}, snap : BOOLEAN]

(* A request has stores to write only once its handler writes, and the key *)
(* of a refresh is some tab's.                                             *)
Good(req) ==
    /\ req \in RequestRecord
    /\ req.at \notin {"write", "replied"} => req.left = {}
    /\ req.current => req.from \in Tabs
    /\ req.op = "none" => req.at = "idle"

SlotsOK == request \in [Slot -> RequestRecord] /\ \A r \in Slot : Good(request[r])

SessionOK == TypeOK /\ SlotsOK

(* A logout that began while no other request was writing is the only one  *)
(* that writes until it is done, and then nothing is left to write.        *)
LogoutInv ==
    /\ ended = "ending" =>
         \E r \in Slot :
            /\ request[r].left # {} /\ request[r].pair = NoPair
            /\ \A q \in Slot \ {r} : request[q].left = {}
            /\ \A s \in Store \ request[r].left : stored[s] = NoPair
    /\ ended = "yes" =>
         /\ \A q \in Slot : request[q].left = {}
         /\ \A s \in Store : stored[s] = NoPair

-----------------------------------------------------------------------------

LEMMA IdleGood == Good(Idle) /\ Idle.left = {}
BY TimeAssumption DEF Good, Idle, RequestRecord, NoPair, Store, FirstStep

(* Settling a request leaves what it has to write.                         *)
LEMMA SettledGood ==
  ASSUME NEW x, Good(x)
  PROVE  /\ Good(Settled(x))
         /\ Settled(x).left = x.left
         /\ x.left # {} => Settled(x).pair = x.pair
BY IdleGood DEF Settled

LEMMA PutGood ==
  ASSUME SlotsOK, NEW r \in Slot, NEW x, Good(x), Put(r, x)
  PROVE  /\ SlotsOK'
         /\ \A q \in Slot \ {r} : request'[q] = request[q]
         /\ request'[r].left = x.left
         /\ x.left # {} => request'[r].pair = x.pair
<1>1. /\ request' = [request EXCEPT ![r] = Settled(x)]
      /\ Good(Settled(x)) /\ Settled(x) \in RequestRecord
  BY SettledGood DEF Put, Good
<1>2. request'[r] = Settled(x) /\ \A q \in Slot \ {r} : request'[q] = request[q]
  BY <1>1 DEF SlotsOK
<1>3. request' \in [Slot -> RequestRecord]
  BY <1>1 DEF SlotsOK
<1>4. \A q \in Slot : Good(request'[q])
  BY <1>1, <1>2 DEF SlotsOK
<1>5. SlotsOK'
  BY <1>3, <1>4 DEF SlotsOK, Good
<1> QED BY <1>2, <1>5, SettledGood

(* The fields that the pure updates of a request leave or set.             *)
LEMMA AnsweredGood ==
  ASSUME NEW req, Good(req), req.at # "idle", NEW status \in {"ok", "401", "failed"}
  PROVE  /\ Good(Answered(req, status))
         /\ Answered(req, status).left = req.left
         /\ Answered(req, status).pair = req.pair
<1> DEFINE new == Answered(req, status)
<1>1. /\ new.at = "replied" /\ new.left = req.left /\ new.pair = req.pair /\ new.from = req.from
      /\ new.current = req.current /\ new.op = req.op /\ req.op # "none"
  BY DEF Good, RequestRecord, Answered
<1>2. new \in RequestRecord
  <2>1. NoPair \in 0 .. MaxTime
    BY TimeAssumption DEF NoPair
  <2>2. req.current \in BOOLEAN /\ req \in RequestRecord
    BY DEF Good, RequestRecord
  <2> QED BY <2>1, <2>2 DEF RequestRecord, Answered
<1> HIDE DEF new
<1>3. Good(new)
  BY <1>1, <1>2 DEF Good
<1> QED BY <1>1, <1>3 DEF new

LEMMA WritesGood ==
  ASSUME NEW req, Good(req), req.at # "idle", NEW pair \in 0 .. MaxTime
  PROVE  /\ Good(Writes(req, pair))
         /\ Writes(req, pair).left = Store
         /\ Writes(req, pair).pair = pair
<1> DEFINE new == Writes(req, pair)
<1>1. /\ new.at = "write" /\ new.left = Store /\ new.pair = pair /\ new.from = req.from
      /\ new.current = req.current /\ new.op = req.op /\ req.op # "none"
  BY DEF Good, RequestRecord, Writes
<1>2. new \in RequestRecord
  <2>1. NoPair \in 0 .. MaxTime
    BY TimeAssumption DEF NoPair
  <2>2. req \in RequestRecord
    BY DEF Good
  <2> QED BY <2>1, <2>2 DEF RequestRecord, Writes
<1> HIDE DEF new
<1>3. Good(new)
  BY <1>1, <1>2 DEF Good
<1> QED BY <1>1, <1>3 DEF new

(* What refreshSession leaves of the requests when it is over.             *)
LEMMA ForgetGood ==
  ASSUME NEW t \in Tabs \cup {NoTab}, NEW requests \in [Slot -> RequestRecord],
         \A r \in Slot : Good(requests[r]), TypeOK, Forget(t, requests)
  PROVE  /\ SlotsOK'
         /\ snapshot' \in [Tabs -> [status : {"none", "lost", "ok", "401", "failed"},
                                    pair : 0 .. MaxTime]]
         /\ \A q \in Slot : /\ request'[q].left = requests[q].left
                            /\ requests[q].left # {} => request'[q].pair = requests[q].pair
<1> DEFINE cut(q) == [requests[q] EXCEPT !.current = FALSE, !.snap = FALSE]
<1>1. \A q \in Slot : /\ Good(cut(q))
                      /\ cut(q).left = requests[q].left /\ cut(q).pair = requests[q].pair
  <2> SUFFICES ASSUME NEW q \in Slot
               PROVE  /\ Good(cut(q))
                      /\ cut(q).left = requests[q].left /\ cut(q).pair = requests[q].pair
    OBVIOUS
  <2>1. requests[q] \in RequestRecord /\ Good(requests[q])
    OBVIOUS
  <2>2. cut(q) \in RequestRecord
    BY <2>1 DEF RequestRecord
  <2>3. /\ cut(q).left = requests[q].left /\ cut(q).pair = requests[q].pair
        /\ cut(q).at = requests[q].at /\ cut(q).op = requests[q].op
    BY <2>1 DEF RequestRecord
  <2>4. ~cut(q).current
    BY <2>1 DEF RequestRecord
  <2> HIDE DEF cut
  <2> QED BY <2>1, <2>2, <2>3, <2>4 DEF Good
<1>2. \A q \in Slot : request'[q] = IF requests[q].from = t THEN Settled(cut(q)) ELSE requests[q]
  BY DEF Forget
<1>3. request' = [q \in Slot |-> IF requests[q].from = t THEN Settled(cut(q)) ELSE requests[q]]
  BY DEF Forget
<1> HIDE DEF cut
<1>4. \A q \in Slot : /\ Good(Settled(cut(q)))
                      /\ Settled(cut(q)).left = requests[q].left
                      /\ requests[q].left # {} => Settled(cut(q)).pair = requests[q].pair
  BY <1>1, SettledGood
<1>5. \A q \in Slot : Good(request'[q])
  BY <1>2, <1>4
<1>6. request' \in [Slot -> RequestRecord]
  BY <1>3, <1>4 DEF Good
<1>7. SlotsOK'
  BY <1>5, <1>6 DEF SlotsOK, Good
<1>8. NoSnapshot \in [status : {"none", "lost", "ok", "401", "failed"}, pair : 0 .. MaxTime]
  BY TimeAssumption DEF NoSnapshot, NoPair
<1>9. snapshot' \in [Tabs -> [status : {"none", "lost", "ok", "401", "failed"},
                              pair : 0 .. MaxTime]]
  BY <1>8 DEF Forget, TypeOK
<1> QED BY <1>2, <1>4, <1>7, <1>9

(* A step that changes no store and nothing that is left to be written.    *)
Calm ==
    /\ UNCHANGED <<stored, ended>>
    /\ \A q \in Slot : /\ request'[q].left = request[q].left
                       /\ request[q].left # {} => request'[q].pair = request[q].pair

LEMMA CalmStep ==
  ASSUME LogoutInv, Calm
  PROVE  LogoutInv'
BY DEF LogoutInv, Calm

(* Everything but the requests and the snapshots keeps its type by itself. *)
LEMMA TypeParts ==
  ASSUME SessionOK, SlotsOK', clock' \in 1 .. MaxTime, stored' \in [Store -> 0 .. MaxTime],
         jar' \in 0 .. MaxTime,
         tab' \in [Tabs -> {"ready", "me", "authenticate", "logout", "needRefresh", "refresh",
                            "needRepeat", "repeat", "needMe", "meAgain"}],
         snapshot' \in [Tabs -> [status : {"none", "lost", "ok", "401", "failed"},
                                 pair : 0 .. MaxTime]],
         faults' \in 0 .. MaxFaults, raced' \in BOOLEAN, ended' \in {"no", "ending", "yes"}
  PROVE  SessionOK'
BY DEF SessionOK, SlotsOK, TypeOK, RequestRecord

-----------------------------------------------------------------------------
(* The actions that are calm.                                              *)

LEMMA FetchGood ==
  ASSUME SessionOK, NEW t \in Tabs, NEW op \in {"me", "authenticate", "logout", "refresh"},
         Fetch(t, op)
  PROVE  SlotsOK' /\ Calm
<1>1. PICK r \in Free :
        request' = [request EXCEPT ![r] =
          [Idle EXCEPT !.op = op, !.at = FirstStep[op], !.from = t, !.live = TRUE,
              !.current = (op = "refresh"),
              !.cookie = IF op = "authenticate" THEN NoPair ELSE jar]]
  BY DEF Fetch
<1> DEFINE new == [Idle EXCEPT !.op = op, !.at = FirstStep[op], !.from = t, !.live = TRUE,
                     !.current = (op = "refresh"),
                     !.cookie = IF op = "authenticate" THEN NoPair ELSE jar]
<1>2. new \in RequestRecord
  <2>1. NoPair \in 0 .. MaxTime /\ jar \in 0 .. MaxTime
    BY TimeAssumption DEF NoPair, SessionOK, TypeOK
  <2>2. Idle \in RequestRecord
    BY IdleGood DEF Good
  <2>3. (op = "refresh") \in BOOLEAN
    OBVIOUS
  <2>4. FirstStep[op] \in {"check", "credentials", "readCached", "verify"}
    BY DEF FirstStep
  <2>5. op \in DOMAIN FirstStep
    BY DEF FirstStep
  <2> QED BY ZenonT(30), <2>1, <2>2, <2>3, <2>4, <2>5 DEF RequestRecord
<1>3. new.left = {} /\ new.from = t /\ new.op # "none"
  BY DEF Idle
<1> HIDE DEF new
<1>4. Good(new)
  BY <1>2, <1>3 DEF Good
<1>5. request' = [request EXCEPT ![r] = new]
  BY <1>1 DEF new
<1>6. r \in Slot /\ request[r].left = {}
  BY DEF Free, SessionOK, SlotsOK, Good
<1>7. SlotsOK'
  <2>1. request' \in [Slot -> RequestRecord]
    BY <1>2, <1>5 DEF SessionOK, SlotsOK
  <2>2. \A q \in Slot : Good(request'[q])
    BY <1>4, <1>5 DEF SessionOK, SlotsOK
  <2> QED BY <2>1, <2>2 DEF SlotsOK, Good
<1>8. \A q \in Slot : request'[q].left = request[q].left /\ (q # r => request'[q] = request[q])
  BY <1>3, <1>5, <1>6 DEF SessionOK, SlotsOK
<1> QED BY <1>6, <1>7, <1>8 DEF Calm, Fetch, history

LEMMA ClientStep ==
  ASSUME SessionOK, NEW t \in Tabs, Client(t)
  PROVE  SessionOK' /\ Calm
<1>1. PICK op \in {"me", "authenticate", "logout", "refresh"} : Fetch(t, op)
  BY DEF Client, Call, Follow
<1>2. SlotsOK' /\ Calm
  BY <1>1, FetchGood
<1>3. tab' \in [Tabs -> {"ready", "me", "authenticate", "logout", "needRefresh", "refresh",
                         "needRepeat", "repeat", "needMe", "meAgain"}]
  BY DEF Client, Call, Follow, SessionOK, TypeOK
<1> QED BY <1>1, <1>2, <1>3, TypeParts DEF Fetch, history, SessionOK, TypeOK

(* Steps of one slot.                                                      *)
LEMMA PutCalm ==
  ASSUME SessionOK, NEW r \in Slot, NEW x, Good(x), Put(r, x), x.left = request[r].left,
         x.left # {} => x.pair = request[r].pair, UNCHANGED <<stored, ended>>
  PROVE  SlotsOK' /\ Calm
BY PutGood DEF SessionOK, Calm

LEMMA CheckStep ==
  ASSUME SessionOK, NEW r \in Slot, Check(r)
  PROVE  SessionOK' /\ Calm
<1>1. PICK status \in {"ok", "401"} : Put(r, Answered(request[r], status))
  BY DEF Check
<1>2. Good(request[r]) /\ request[r].at # "idle"
  BY DEF SessionOK, SlotsOK, Check
<1>3. SlotsOK' /\ Calm
  BY <1>1, <1>2, AnsweredGood, PutCalm DEF Check, history
<1> QED BY <1>3, TypeParts DEF Check, history, SessionOK, TypeOK

LEMMA ReadFailsStep ==
  ASSUME SessionOK, NEW r \in Slot, ReadFails(r)
  PROVE  SessionOK' /\ Calm
<1>1. Good(request[r]) /\ request[r].at # "idle" /\ Put(r, Answered(request[r], "failed"))
  BY DEF SessionOK, SlotsOK, ReadFails
<1>2. SlotsOK' /\ Calm
  BY <1>1, AnsweredGood, PutCalm DEF ReadFails, history
<1>3. faults' \in 0 .. MaxFaults
  BY TimeAssumption DEF ReadFails, Fault, SessionOK, TypeOK
<1> QED BY <1>2, <1>3, TypeParts DEF ReadFails, history, SessionOK, TypeOK

LEMMA ReadCachedStep ==
  ASSUME SessionOK, NEW r \in Slot, ReadCached(r)
  PROVE  SessionOK' /\ Calm
<1> DEFINE req == request[r]
           hit == req.current /\ snapshot[req.from].status \in {"ok", "401", "failed"}
           replay == [req EXCEPT !.at = "replied", !.reply = snapshot[req.from].status,
                                 !.pair = snapshot[req.from].pair]
           run == [req EXCEPT !.at = "matches"]
<1>1. Good(req) /\ req.left = {} /\ req \in RequestRecord /\ req.at = "readCached"
  BY DEF SessionOK, SlotsOK, ReadCached, Good
<1>2. hit => Good(replay) /\ replay.left = {}
  BY <1>1 DEF Good, RequestRecord, SessionOK, TypeOK
<1>3. Good(run) /\ run.left = {}
  BY <1>1 DEF Good, RequestRecord
<1>4. (Put(r, replay) /\ hit) \/ Put(r, run)
  BY DEF ReadCached
<1>5. UNCHANGED <<stored, ended>>
  BY DEF ReadCached
<1> HIDE DEF hit, replay, run
<1>6. SlotsOK' /\ Calm
  BY <1>1, <1>2, <1>3, <1>4, <1>5, PutCalm
<1>7. raced' \in BOOLEAN
  BY DEF ReadCached
<1> QED BY <1>6, <1>7, TypeParts DEF ReadCached, SessionOK, TypeOK

LEMMA LostType ==
  Lost \in [status : {"none", "lost", "ok", "401", "failed"}, pair : 0 .. MaxTime]
BY TimeAssumption DEF Lost, NoPair

LEMMA StoreCachedStep ==
  ASSUME SessionOK, NEW r \in Slot, NEW rejected \in BOOLEAN, StoreCached(r, rejected)
  PROVE  SessionOK' /\ Calm
<1> DEFINE new == [request[r] EXCEPT !.snap = FALSE]
<1>1. Good(new) /\ new.left = request[r].left /\ new.pair = request[r].pair
  BY ZenonT(30) DEF SessionOK, SlotsOK, Good, RequestRecord
<1>2. Put(r, new)
  BY DEF StoreCached
<1>3. UNCHANGED <<stored, ended>>
  BY DEF StoreCached, history
<1> HIDE DEF new
<1>4. SlotsOK' /\ Calm
  BY <1>1, <1>2, <1>3, PutCalm
<1>5. faults' \in 0 .. MaxFaults
  BY TimeAssumption DEF StoreCached, Fault, SessionOK, TypeOK
<1>6. snapshot' \in [Tabs -> [status : {"none", "lost", "ok", "401", "failed"},
                              pair : 0 .. MaxTime]]
  <2>1. [status |-> request[r].reply, pair |-> request[r].pair]
          \in [status : {"none", "lost", "ok", "401", "failed"}, pair : 0 .. MaxTime]
    BY DEF SessionOK, SlotsOK, RequestRecord
  <2>2. PICK kept \in [status : {"none", "lost", "ok", "401", "failed"}, pair : 0 .. MaxTime] :
          snapshot' = [snapshot EXCEPT ![request[r].from] = kept]
    BY <2>1, LostType DEF StoreCached
  <2> QED BY <2>2 DEF SessionOK, TypeOK
<1> QED BY <1>4, <1>5, <1>6, TypeParts DEF StoreCached, history, SessionOK, TypeOK

(* An answer or a lost connection: the tab moves on, the API is as it was. *)
LEMMA AfterReplyType ==
  ASSUME TypeOK, NEW t, NEW u, NEW status, tab' = [tab EXCEPT ![t] = AfterReply(u, status)]
  PROVE  tab' \in [Tabs -> {"ready", "me", "authenticate", "logout", "needRefresh", "refresh",
                            "needRepeat", "repeat", "needMe", "meAgain"}]
<1>1. AfterReply(u, status) \in {"needRefresh", "needRepeat", "needMe", "ready"}
  BY DEF AfterReply
<1> QED BY <1>1 DEF TypeOK

LEMMA DeliverStep ==
  ASSUME SessionOK, NEW r \in Slot, Deliver(r)
  PROVE  SessionOK' /\ Calm
<1> DEFINE req  == request[r]
           hung == [request EXCEPT ![r].live = FALSE]
<1>1. /\ hung \in [Slot -> RequestRecord]
      /\ \A q \in Slot : /\ Good(hung[q])
                         /\ hung[q].left = request[q].left /\ hung[q].pair = request[q].pair
  <2> DEFINE off == [req EXCEPT !.live = FALSE]
  <2>1. req \in RequestRecord /\ Good(req)
    BY DEF SessionOK, SlotsOK
  <2>2. off \in RequestRecord /\ off.left = req.left /\ off.pair = req.pair
    BY <2>1 DEF RequestRecord
  <2>3. Good(off)
    BY <2>1, <2>2 DEF Good, RequestRecord
  <2>4. hung = [request EXCEPT ![r] = off]
    OBVIOUS
  <2> HIDE DEF off, hung
  <2> QED BY <2>2, <2>3, <2>4 DEF SessionOK, SlotsOK
<1>2. IF req.op = "refresh" THEN Forget(req.from, hung)
      ELSE Put(r, hung[r]) /\ UNCHANGED snapshot
  BY DEF Deliver
<1>3. /\ req.from \in Tabs \cup {NoTab} /\ UNCHANGED <<clock, stored, faults, ended>>
      /\ tab' = [tab EXCEPT ![req.from] = AfterReply(req.from, req.reply)]
  BY DEF Deliver, SessionOK, SlotsOK, RequestRecord
<1>4. jar' \in 0 .. MaxTime
  BY TimeAssumption DEF Deliver, CookiesAfter, SessionOK, SlotsOK, RequestRecord, TypeOK, NoPair
<1>5. raced' \in BOOLEAN
  BY DEF Deliver
<1> HIDE DEF hung
<1>6. SlotsOK' /\ Calm /\ snapshot' \in [Tabs ->
        [status : {"none", "lost", "ok", "401", "failed"}, pair : 0 .. MaxTime]]
  <2>1. CASE req.op = "refresh"
    BY <1>1, <1>2, <1>3, <2>1, ForgetGood DEF SessionOK, Calm
  <2>2. CASE req.op # "refresh"
    BY <1>1, <1>2, <1>3, <2>2, PutCalm DEF SessionOK, TypeOK
  <2> QED BY <2>1, <2>2
<1>7. tab' \in [Tabs -> {"ready", "me", "authenticate", "logout", "needRefresh", "refresh",
                         "needRepeat", "repeat", "needMe", "meAgain"}]
  BY <1>3, AfterReplyType DEF SessionOK
<1> QED BY <1>3, <1>4, <1>5, <1>6, <1>7, TypeParts DEF SessionOK, TypeOK

LEMMA DropStep ==
  ASSUME SessionOK, NEW r \in Slot, NEW unseen \in BOOLEAN, Drop(r, unseen)
  PROVE  SessionOK' /\ Calm
<1> DEFINE req  == request[r]
           off  == [req EXCEPT !.live = FALSE]
           new  == IF unseen THEN Idle ELSE Settled(off)
           hung == [request EXCEPT ![r] = new]
<1>1. Good(req) /\ Good(off) /\ off.left = req.left /\ off.pair = req.pair
  BY ZenonT(30) DEF SessionOK, SlotsOK, Good, RequestRecord
<1>2. unseen => req.left = {}
  <2>1. unseen => req.at = FirstStep[req.op]
    BY DEF Drop
  <2>2. req.op = "none" \/ FirstStep[req.op] \in {"check", "credentials", "readCached", "verify"}
    BY <1>1 DEF Good, RequestRecord, FirstStep
  <2> QED BY <1>1, <2>1, <2>2 DEF Good
<1> HIDE DEF off
<1>3. Good(new) /\ new.left = req.left /\ (req.left # {} => new.pair = req.pair)
  BY <1>1, <1>2, IdleGood, SettledGood
<1> HIDE DEF new
<1>4. /\ hung \in [Slot -> RequestRecord]
      /\ \A q \in Slot : /\ Good(hung[q]) /\ hung[q].left = request[q].left
                         /\ request[q].left # {} => hung[q].pair = request[q].pair
  BY <1>3 DEF SessionOK, SlotsOK, Good
<1>5. IF tab[req.from] = "repeat" THEN Forget(req.from, hung)
      ELSE request' = hung /\ UNCHANGED snapshot
  BY DEF Drop, new, off
<1>6. /\ req.from \in Tabs \cup {NoTab} /\ UNCHANGED <<clock, stored, jar, ended>>
      /\ tab' = [tab EXCEPT ![req.from] = AfterReply(req.from, "rejected")]
  BY DEF Drop, SessionOK, SlotsOK, RequestRecord
<1>7. faults' \in 0 .. MaxFaults
  BY TimeAssumption DEF Drop, Fault, SessionOK, TypeOK
<1>8. raced' \in BOOLEAN
  BY DEF Drop
<1> HIDE DEF hung
<1>9. SlotsOK' /\ Calm /\ snapshot' \in [Tabs ->
        [status : {"none", "lost", "ok", "401", "failed"}, pair : 0 .. MaxTime]]
  <2>1. CASE tab[req.from] = "repeat"
    BY <1>4, <1>5, <1>6, <2>1, ForgetGood DEF SessionOK, Calm
  <2>2. CASE tab[req.from] # "repeat"
    BY <1>4, <1>5, <1>6, <2>2 DEF SessionOK, TypeOK, SlotsOK, Good, Calm
  <2> QED BY <2>1, <2>2
<1>10. tab' \in [Tabs -> {"ready", "me", "authenticate", "logout", "needRefresh", "refresh",
                          "needRepeat", "repeat", "needMe", "meAgain"}]
  BY <1>6, AfterReplyType DEF SessionOK
<1> QED BY <1>6, <1>7, <1>8, <1>9, <1>10, TypeParts DEF SessionOK, TypeOK

LEMMA OtherStep ==
  ASSUME SessionOK, Tick \/ (\E t \in Tabs : SnapshotExpires(t)) \/ UNCHANGED vars
  PROVE  SessionOK' /\ Calm
<1>1. SlotsOK' /\ Calm
  BY DEF SessionOK, SlotsOK, Calm, Tick, SnapshotExpires, vars, history, Good
<1>2. clock' \in 1 .. MaxTime /\ faults' \in 0 .. MaxFaults
  BY TimeAssumption DEF Tick, SnapshotExpires, vars, history, Fault, SessionOK, TypeOK
<1>3. snapshot' \in [Tabs -> [status : {"none", "lost", "ok", "401", "failed"},
                              pair : 0 .. MaxTime]]
  BY LostType DEF Tick, SnapshotExpires, vars, SessionOK, TypeOK
<1>4. UNCHANGED <<stored, jar, tab, raced, ended>>
  BY DEF Tick, SnapshotExpires, vars, history
<1> QED BY <1>1, <1>2, <1>3, <1>4, TypeParts DEF SessionOK, TypeOK

-----------------------------------------------------------------------------
(* The actions that begin to change the stores, and the ones that do.      *)

LEMMA BeginsStep ==
  ASSUME SessionOK, LogoutInv, NEW r \in Slot, NEW valid \in BOOLEAN,
         Credentials(r, valid) \/ Matches(r) \/ VerifyLogout(r)
  PROVE  SessionOK' /\ LogoutInv'
<1> DEFINE req == request[r]
<1>1. Good(req) /\ req.left = {} /\ req.at # "idle"
  BY DEF SessionOK, SlotsOK, Good, Credentials, Matches, VerifyLogout
<1>2. UNCHANGED <<clock, stored, jar, tab, snapshot, faults>>
  BY DEF Credentials, Matches, VerifyLogout
<1>3. CASE Put(r, Answered(req, "401")) /\ UNCHANGED history
  <2>1. SlotsOK' /\ Calm
    BY <1>1, <1>2, <1>3, AnsweredGood, PutCalm DEF history
  <2> QED BY <1>2, <1>3, <2>1, CalmStep, TypeParts DEF history, SessionOK, TypeOK
<1>4. ASSUME NEW pair \in 0 .. MaxTime, Put(r, Writes(req, pair)), Begins(r),
             ended' \in {"no", "ending"},
             ended' = "ending" => pair = NoPair /\ \A q \in Slot \ {r} : request[q].left = {}
      PROVE  SessionOK' /\ LogoutInv'
  <2>1. /\ SlotsOK' /\ \A q \in Slot \ {r} : request'[q] = request[q]
        /\ request'[r].left = Store /\ request'[r].pair = pair
    BY <1>1, <1>4, WritesGood, PutGood DEF SessionOK, Store
  <2>2. raced' \in BOOLEAN
    BY <1>4 DEF Begins
  <2>3. SessionOK'
    BY <1>2, <1>4, <2>1, <2>2, TypeParts DEF SessionOK, TypeOK
  <2>4. LogoutInv'
    BY <1>2, <1>4, <2>1 DEF LogoutInv, Store
  <2> QED BY <2>3, <2>4
<1>5. clock \in 0 .. MaxTime /\ NoPair \in 0 .. MaxTime
  BY TimeAssumption DEF SessionOK, TypeOK, NoPair
<1>6. CASE Credentials(r, valid)
  BY <1>3, <1>4, <1>5, <1>6 DEF Credentials
<1>7. CASE Matches(r)
  <2>1. ended = "yes" => ~(Verify(req.cookie, RefreshTTL) /\ stored.refresh = req.cookie)
    BY DEF LogoutInv, Verify, Store
  <2>2. ended # "yes" => (IF ended = "ending" THEN "no" ELSE ended) = "no"
    BY DEF SessionOK, TypeOK
  <2> QED BY <1>3, <1>4, <1>5, <1>7, <2>1, <2>2 DEF Matches
<1>8. CASE VerifyLogout(r)
  BY <1>3, <1>4, <1>5, <1>8 DEF VerifyLogout
<1> QED BY <1>6, <1>7, <1>8

LEMMA WriteStep ==
  ASSUME SessionOK, LogoutInv, NEW r \in Slot, NEW s \in Store, NEW rejected \in BOOLEAN,
         Write(r, s, rejected)
  PROVE  SessionOK' /\ LogoutInv'
<1> DEFINE req  == request[r]
           left == req.left \ {s}
           done == [req EXCEPT !.left = left]
<1>1. Good(req) /\ s \in req.left /\ req.at # "idle" /\ req \in RequestRecord /\ req.pair \in 0 .. MaxTime
  BY DEF SessionOK, SlotsOK, Good, RequestRecord, Write
<1>2. Good(done) /\ done.left = left /\ done.pair = req.pair /\ done.at # "idle"
  BY <1>1 DEF Good, RequestRecord
<1> HIDE DEF done
<1>3. \E status \in {"ok", "401", "failed"} : Put(r, done) \/ Put(r, Answered(done, status))
  BY DEF Write, done
<1>4. PICK x : Put(r, x) /\ Good(x) /\ x.left = left /\ x.pair = req.pair
  BY <1>2, <1>3, AnsweredGood
<1>5. /\ SlotsOK' /\ \A q \in Slot \ {r} : request'[q] = request[q]
      /\ request'[r].left = left /\ (left # {} => request'[r].pair = req.pair)
  BY <1>4, PutGood DEF SessionOK
<1>6. CASE rejected
  <2>1. stored' \in [Store -> 0 .. MaxTime]
    <3>1. stored' = [stored EXCEPT ![s] = req.pair] \/ stored' = stored
      BY <1>6 DEF Write
    <3> QED BY <1>1, <3>1 DEF SessionOK, TypeOK
  <2>2. faults' \in 0 .. MaxFaults
    BY <1>6, TimeAssumption DEF Write, Fault, SessionOK, TypeOK
  <2>3. raced' = TRUE /\ ended' = "no" /\ UNCHANGED <<clock, jar, tab, snapshot>>
    BY <1>6 DEF Write
  <2>4. SessionOK'
    BY <1>5, <2>1, <2>2, <2>3, TypeParts DEF SessionOK, TypeOK
  <2> QED BY <2>3, <2>4 DEF LogoutInv
<1>7. CASE ~rejected
  <2>1. /\ stored' = [stored EXCEPT ![s] = req.pair]
        /\ ended' = (IF left = {} /\ ended = "ending" THEN "yes" ELSE ended)
        /\ UNCHANGED <<raced, faults, clock, jar, tab, snapshot>>
    BY <1>7 DEF Write
  <2>2. stored' \in [Store -> 0 .. MaxTime]
    BY <1>1, <2>1 DEF SessionOK, TypeOK
  <2>3. SessionOK'
    BY <1>5, <2>1, <2>2, TypeParts DEF SessionOK, TypeOK
  <2>4. LogoutInv'
    <3>1. ended # "yes"
      BY <1>1 DEF LogoutInv
    <3>2. CASE ended # "ending"
      BY <2>1, <3>1, <3>2 DEF LogoutInv
    <3>3. CASE ended = "ending"
      <4>1. /\ req.pair = NoPair /\ \A q \in Slot \ {r} : request[q].left = {}
            /\ \A u \in Store \ req.left : stored[u] = NoPair
        BY <1>1, <3>3 DEF LogoutInv
      <4>2. \A u \in Store \ left : stored'[u] = NoPair
        BY <2>1, <4>1 DEF SessionOK, TypeOK
      <4>3. CASE left = {}
        BY <1>5, <2>1, <3>3, <4>1, <4>2, <4>3 DEF LogoutInv
      <4>4. CASE left # {}
        BY <1>5, <2>1, <3>3, <4>1, <4>2, <4>4 DEF LogoutInv
      <4> QED BY <4>3, <4>4
    <3> QED BY <3>2, <3>3
  <2> QED BY <2>3, <2>4
<1> QED BY <1>6, <1>7

-----------------------------------------------------------------------------

LEMMA InitOK == Init => SessionOK /\ LogoutInv
<1> SUFFICES ASSUME Init PROVE SessionOK /\ LogoutInv OBVIOUS
<1>1. SlotsOK /\ \A r \in Slot : request[r].left = {}
  BY IdleGood DEF Init, SlotsOK, Good
<1>2. NoSnapshot \in [status : {"none", "lost", "ok", "401", "failed"}, pair : 0 .. MaxTime]
  BY TimeAssumption DEF NoSnapshot, NoPair
<1>3. clock \in 1 .. MaxTime /\ faults \in 0 .. MaxFaults /\ jar \in 0 .. MaxTime
      /\ stored \in [Store -> 0 .. MaxTime]
  BY TimeAssumption DEF Init, NoPair
<1>4. TypeOK
  BY <1>1, <1>2, <1>3 DEF Init, TypeOK, SlotsOK, RequestRecord
<1>5. LogoutInv
  BY DEF Init, LogoutInv
<1> QED BY <1>1, <1>4, <1>5 DEF SessionOK

LEMMA NextOK ==
  ASSUME SessionOK, LogoutInv, [Next]_vars
  PROVE  SessionOK' /\ LogoutInv'
<1>1. ASSUME NEW t \in Tabs, Client(t) PROVE SessionOK' /\ LogoutInv'
  BY <1>1, ClientStep, CalmStep
<1>2. ASSUME NEW r \in Slot, Serve(r) PROVE SessionOK' /\ LogoutInv'
  BY <1>2, CheckStep, ReadCachedStep, StoreCachedStep, CalmStep, BeginsStep, WriteStep DEF Serve
<1>3. ASSUME NEW r \in Slot, Deliver(r) PROVE SessionOK' /\ LogoutInv'
  BY <1>3, DeliverStep, CalmStep
<1>4. CASE Failure
  BY <1>4, DropStep, ReadFailsStep, StoreCachedStep, OtherStep, CalmStep, WriteStep DEF Failure
<1>5. CASE Tick \/ UNCHANGED vars
  BY <1>5, OtherStep, CalmStep
<1> QED BY <1>1, <1>2, <1>3, <1>4, <1>5 DEF Next

LEMMA SessionAlways == Spec => [](SessionOK /\ LogoutInv)
BY InitOK, NextOK, PTL DEF Spec

(* The variables keep their types, for any number of tabs and requests.    *)
THEOREM TypeCorrect == Spec => []TypeOK
<1>1. SessionOK /\ LogoutInv => TypeOK
  BY DEF SessionOK
<1> QED BY <1>1, SessionAlways, PTL

(* LogoutHandler deletes both tokens without comparing them: unless a      *)
(* login or a refresh was storing its pair meanwhile, no request that is   *)
(* under way or comes later brings one back before the next login.         *)
THEOREM LogoutIsFinal == Spec => []LogoutEnds
<1>1. SessionOK /\ LogoutInv => LogoutEnds
  BY DEF LogoutInv, LogoutEnds
<1> QED BY <1>1, SessionAlways, PTL
-----------------------------------------------------------------------------
(* The cookies and the stores.                                             *)

(* The step at which an operation stands.                                  *)
OpAt(req) ==
    /\ req.at = "idle" => req.op = "none" /\ ~req.live
    /\ req.at = "check" => req.op = "me"
    /\ req.at = "credentials" => req.op = "authenticate"
    /\ req.at \in {"readCached", "matches"} => req.op = "refresh"
    /\ req.at = "verify" => req.op = "logout"
    /\ req.at = "write" => req.op # "me"

(* A request without regard to the others: only a refresh carries a key,   *)
(* and it does while its tab waits; only an answered one keeps a snapshot. *)
Tidy(req) ==
    /\ OpAt(req)
    /\ req.current => req.op = "refresh"
    /\ req.op = "refresh" /\ req.live => req.current
    /\ req.op = "me" => req.left = {}
    /\ req.at = "replied" <=> req.reply # "none"
    /\ req.snap => req.current /\ req.at = "replied"
    /\ req.op = "logout" => req.pair = NoPair

Waiting == {"me", "authenticate", "logout", "refresh", "repeat", "meAgain"}

(* A tab waits for one answer at a time.                                   *)
TabsInv ==
    /\ \A r \in Slot : Tidy(request[r])
    /\ \A r \in Slot : request[r].live => request[r].from \in Tabs /\ tab[request[r].from] \in Waiting
    /\ \A r, q \in Slot :
         request[r].live /\ request[q].live /\ request[r].from = request[q].from => r = q

(* The requests of tab t that carry the key of its refresh, and those of   *)
(* them that have looked the key up.                                       *)
Keyed(q, t) == request[q].current /\ request[q].from = t

Past(q, t) == Keyed(q, t) /\ request[q].at # "readCached"

(* A change under way is the only one, and has been written so far.        *)
WritesInv ==
    \A r \in Slot : request[r].left # {} =>
        /\ request[r].at = "write" /\ (request[r].live \/ request[r].current)
        /\ \A s \in Store \ request[r].left : stored[s] = request[r].pair
        /\ \A q \in Slot \ {r} : ~Unsettled(q)
        /\ \A t \in Tabs : snapshot[t].status # "ok"

Holds(pair) == \A s \in Store : stored[s] = pair

(* An answer still to be received, or kept, is of the pair in the stores.  *)
AnswersInv ==
    /\ \A r \in Slot : Unsettled(r) /\ request[r].left = {} => Holds(request[r].pair)
    /\ \A t \in Tabs : snapshot[t].status = "ok" => Holds(snapshot[t].pair)

(* All that bear one key have one answer.                                  *)
KeysInv ==
    \A t \in Tabs :
        /\ \A r, q \in Slot : r # q /\ Past(r, t) /\ Past(q, t) =>
             /\ request[r].at = "replied" /\ request[q].at = "replied"
             /\ request[r].reply = request[q].reply /\ request[r].pair = request[q].pair
        /\ \A q \in Slot : Past(q, t) =>
             /\ snapshot[t].status # "none" => request[q].at = "replied"
             /\ snapshot[t].status \in {"ok", "401", "failed"} =>
                  request[q].reply = snapshot[t].status /\ request[q].pair = snapshot[t].pair
             /\ request[q].at = "replied" /\ ~request[q].snap => snapshot[t].status # "none"

(* Somebody still has to tell the browser.                                 *)
LostChange(t) ==
    /\ snapshot[t].status = "lost"
    /\ \A q \in Slot : Past(q, t) => request[q].reply = "ok"

Told ==
    \/ Holds(jar)
    \/ \E r \in Slot : Unsettled(r)
    \/ \E t \in Tabs : snapshot[t].status = "ok" \/ LostChange(t)

ChangesInv == WritesInv /\ AnswersInv /\ KeysInv /\ Told

(* Unless something excuses it.                                            *)
CookiesInv == TabsInv /\ (~raced => ChangesInv)

LEMMA IdleTidy ==
  /\ Tidy(Idle) /\ Idle \in RequestRecord
  /\ Idle.left = {} /\ Idle.reply = "none" /\ Idle.at = "idle" /\ Idle.op = "none"
  /\ ~Idle.current /\ ~Idle.live /\ ~Idle.snap
BY IdleGood DEF Idle, Tidy, OpAt, Good

(* What a slot is after Put: the record put there, or idle when that was   *)
(* all it had to do.                                                       *)
Gone(x) == x.at = "replied" /\ ~x.live /\ ~x.snap /\ x.left = {}

LEMMA PutView ==
  ASSUME SlotsOK, NEW r \in Slot, NEW x, Good(x), Tidy(x), Put(r, x)
  PROVE  /\ \A q \in Slot \ {r} : request'[q] = request[q]
         /\ request'[r] \in RequestRecord /\ Tidy(request'[r])
         /\ request'[r] = x \/ (request'[r] = Idle /\ Gone(x))
<1>1. request' = [request EXCEPT ![r] = Settled(x)]
  BY DEF Put
<1>2. request'[r] = Settled(x) /\ \A q \in Slot \ {r} : request'[q] = request[q]
  BY <1>1 DEF SlotsOK
<1>3. Settled(x) = x \/ (Settled(x) = Idle /\ Gone(x))
  BY DEF Settled, Gone
<1>4. x \in RequestRecord
  BY DEF Good
<1> QED BY <1>2, <1>3, <1>4, IdleTidy

LEMMA AnsweredView ==
  ASSUME NEW req \in RequestRecord, NEW status
  PROVE  LET x == Answered(req, status)
         IN  /\ x.at = "replied" /\ x.reply = status /\ x.snap = req.current
             /\ x.op = req.op /\ x.from = req.from /\ x.live = req.live
             /\ x.current = req.current /\ x.pair = req.pair /\ x.left = req.left
BY DEF RequestRecord, Answered

LEMMA AnsweredTidy ==
  ASSUME NEW req, Good(req), Tidy(req), NEW status \in {"ok", "401", "failed"}
  PROVE  Tidy(Answered(req, status))
<1>1. req \in RequestRecord
  BY DEF Good
<1> DEFINE x == Answered(req, status)
<1>2. /\ x.at = "replied" /\ x.reply = status /\ x.snap = req.current
      /\ x.op = req.op /\ x.live = req.live
      /\ x.current = req.current /\ x.pair = req.pair /\ x.left = req.left
  BY <1>1, AnsweredView
<1> HIDE DEF x
<1>3. Tidy(x)
  BY <1>2 DEF Tidy, OpAt
<1> QED BY <1>3 DEF x

LEMMA WritesView ==
  ASSUME NEW req \in RequestRecord, NEW pair
  PROVE  LET x == Writes(req, pair)
         IN  /\ x.at = "write" /\ x.pair = pair /\ x.left = Store /\ x.reply = req.reply
             /\ x.op = req.op /\ x.from = req.from /\ x.live = req.live
             /\ x.current = req.current /\ x.snap = req.snap
BY DEF RequestRecord, Writes

(* The step of one slot, which lets no tab wait that did not.              *)
LEMMA TabsFrame ==
  ASSUME TabsInv, UNCHANGED tab,
         \A q \in Slot : /\ Tidy(request'[q])
                         /\ request'[q].live => request[q].live /\ request'[q].from = request[q].from
  PROVE  TabsInv'
BY DEF TabsInv

LEMMA PutTabs ==
  ASSUME SessionOK, TabsInv, NEW r \in Slot, NEW x, Good(x), Tidy(x), Put(r, x), UNCHANGED tab,
         x.live = request[r].live, x.from = request[r].from
  PROVE  TabsInv'
<1>1. /\ \A q \in Slot \ {r} : request'[q] = request[q]
      /\ Tidy(request'[r])
      /\ request'[r] = x \/ request'[r] = Idle
  BY PutView DEF SessionOK
<1>2. \A q \in Slot : Tidy(request'[q])
  BY <1>1 DEF TabsInv
<1>3. \A q \in Slot : request'[q].live => request[q].live /\ request'[q].from = request[q].from
  BY <1>1, IdleTidy
<1> QED BY <1>2, <1>3, TabsFrame

(* The answer of a tab has come, or will not come: it waits no more.       *)
LEMMA AnsweredTabs ==
  ASSUME SessionOK, TabsInv, NEW r \in Slot, request[r].live, NEW u, NEW status,
         tab' = [tab EXCEPT ![request[r].from] = AfterReply(u, status)],
         ~request'[r].live,
         \A q \in Slot : /\ Tidy(request'[q])
                         /\ request'[q].live => request[q].live /\ request'[q].from = request[q].from
  PROVE  TabsInv'
<1>1. \A q \in Slot : request'[q].live => request'[q].from # request[r].from
  BY DEF TabsInv
<1>2. \A t \in Tabs : t # request[r].from => tab'[t] = tab[t]
  BY DEF SessionOK, TypeOK
<1> QED BY <1>1, <1>2 DEF TabsInv

LEMMA FetchTabs ==
  ASSUME SessionOK, TabsInv, NEW t \in Tabs, NEW op \in {"me", "authenticate", "logout", "refresh"},
         Fetch(t, op), NEW new \in Waiting, tab[t] \notin Waiting, tab' = [tab EXCEPT ![t] = new]
  PROVE  /\ TabsInv'
         /\ \E r \in Slot :
              /\ request[r].at = "idle" /\ \A q \in Slot \ {r} : request'[q] = request[q]
              /\ request'[r].left = {} /\ request'[r].reply = "none"
              /\ request'[r].current => request'[r].at = "readCached"
<1>1. PICK r \in Free :
        request' = [request EXCEPT ![r] =
          [Idle EXCEPT !.op = op, !.at = FirstStep[op], !.from = t, !.live = TRUE,
              !.current = (op = "refresh"),
              !.cookie = IF op = "authenticate" THEN NoPair ELSE jar]]
  BY DEF Fetch
<1> DEFINE x == [Idle EXCEPT !.op = op, !.at = FirstStep[op], !.from = t, !.live = TRUE,
                   !.current = (op = "refresh"),
                   !.cookie = IF op = "authenticate" THEN NoPair ELSE jar]
<1>2. /\ x.op = op /\ x.at = FirstStep[op] /\ x.from = t /\ x.live /\ (x.current <=> op = "refresh")
      /\ x.left = {} /\ x.reply = "none" /\ ~x.snap /\ x.pair = NoPair
  BY DEF Idle
<1>3. r \in Slot /\ request[r].at = "idle" /\ request' = [request EXCEPT ![r] = x]
  BY <1>1 DEF Free
<1> HIDE DEF x
<1>4. /\ FirstStep["me"] = "check" /\ FirstStep["authenticate"] = "credentials"
      /\ FirstStep["refresh"] = "readCached" /\ FirstStep["logout"] = "verify"
  BY DEF FirstStep
<1>5. Tidy(x)
  BY <1>2, <1>4 DEF Tidy, OpAt
<1>6. request'[r] = x /\ \A q \in Slot \ {r} : request'[q] = request[q]
  BY <1>3 DEF SessionOK, SlotsOK
<1>7. \A q \in Slot \ {r} : request'[q].live => request'[q].from # t
  BY <1>6 DEF TabsInv
<1>8. tab'[t] = new /\ \A u \in Tabs : u # t => tab'[u] = tab[u]
  BY DEF SessionOK, TypeOK
<1>9. TabsInv'
  <2>1. \A q \in Slot : Tidy(request'[q])
    BY <1>5, <1>6 DEF TabsInv
  <2>2. \A q \in Slot : request'[q].live => request'[q].from \in Tabs /\ tab'[request'[q].from] \in Waiting
    BY <1>2, <1>6, <1>7, <1>8 DEF TabsInv
  <2>3. \A p, q \in Slot :
          request'[p].live /\ request'[q].live /\ request'[p].from = request'[q].from => p = q
    BY <1>2, <1>6, <1>7 DEF TabsInv
  <2> QED BY <2>1, <2>2, <2>3 DEF TabsInv
<1> QED BY <1>2, <1>3, <1>4, <1>6, <1>9

(* One slot moves on, the others and the snapshots stay as they are.       *)
LEMMA KeysFrame ==
  ASSUME KeysInv, NEW r \in Slot, UNCHANGED snapshot,
         \A q \in Slot \ {r} : request'[q] = request[q],
         \A t \in Tabs : Past(r, t)' =>
            /\ \A q \in Slot \ {r} : ~Past(q, t)
            /\ snapshot[t].status = "none"
            /\ request'[r].at = "replied" => request'[r].snap
  PROVE  KeysInv'
<1>1. \A q \in Slot \ {r}, t \in Tabs : Past(q, t)' <=> Past(q, t)
  BY DEF Past, Keyed
<1> SUFFICES ASSUME NEW t \in Tabs
             PROVE  /\ \A p, q \in Slot : p # q /\ Past(p, t)' /\ Past(q, t)' =>
                         /\ request'[p].at = "replied" /\ request'[q].at = "replied"
                         /\ request'[p].reply = request'[q].reply
                         /\ request'[p].pair = request'[q].pair
                    /\ \A q \in Slot : Past(q, t)' =>
                         /\ snapshot'[t].status # "none" => request'[q].at = "replied"
                         /\ snapshot'[t].status \in {"ok", "401", "failed"} =>
                              request'[q].reply = snapshot'[t].status
                              /\ request'[q].pair = snapshot'[t].pair
                         /\ request'[q].at = "replied" /\ ~request'[q].snap =>
                              snapshot'[t].status # "none"
  BY DEF KeysInv
<1>2. CASE Past(r, t)'
  BY <1>1, <1>2
<1>3. CASE ~Past(r, t)'
  BY <1>1, <1>3 DEF KeysInv
<1> QED BY <1>2, <1>3

(* A step of one slot that is not in the middle of a change, before or     *)
(* after.                                                                  *)
LEMMA QuietStep ==
  ASSUME ChangesInv, NEW r \in Slot, UNCHANGED <<stored, jar, snapshot>>,
         \A q \in Slot \ {r} : request'[q] = request[q],
         ~Unsettled(r), request'[r].left = {}, ~Unsettled(r)',
         \A t \in Tabs : Past(r, t)' =>
            /\ \A q \in Slot \ {r} : ~Past(q, t)
            /\ snapshot[t].status = "none"
            /\ request'[r].at = "replied" => request'[r].snap
  PROVE  ChangesInv'
<1>1. /\ \A q \in Slot : Unsettled(q)' <=> Unsettled(q)
      /\ \A q \in Slot \ {r}, t \in Tabs : Past(q, t)' <=> Past(q, t)
  BY DEF Unsettled, Past, Keyed
<1>2. request[r].left = {}
  BY DEF Unsettled
<1>3. WritesInv'
  BY <1>1, <1>2 DEF ChangesInv, WritesInv
<1>4. AnswersInv'
  BY <1>1, <1>2 DEF ChangesInv, AnswersInv, Holds
<1>5. KeysInv'
  BY KeysFrame DEF ChangesInv
<1>6. \A t \in Tabs : LostChange(t) => LostChange(t)'
  BY <1>1 DEF LostChange
<1>7. Told'
  BY <1>1, <1>6 DEF ChangesInv, Told, Holds
<1> QED BY <1>3, <1>4, <1>5, <1>7 DEF ChangesInv

(* A slot that loses what it had, and gets nothing.                        *)
Fades(q) ==
    /\ request'[q].left = request[q].left
    /\ request[q].left # {} =>
         /\ request'[q].at = request[q].at /\ request'[q].pair = request[q].pair
         /\ request'[q].live \/ request'[q].current
    /\ Unsettled(q)' => Unsettled(q) /\ request'[q].pair = request[q].pair
    /\ \A t \in Tabs : Past(q, t)' =>
         /\ Past(q, t)
         /\ request'[q].at = request[q].at /\ request'[q].reply = request[q].reply
         /\ request'[q].pair = request[q].pair /\ request'[q].snap = request[q].snap

LEMMA FadeStep ==
  ASSUME ChangesInv, UNCHANGED stored, \A q \in Slot : Fades(q),
         \A t \in Tabs : \/ snapshot'[t] = snapshot[t]
                         \/ snapshot'[t] = NoSnapshot /\ \A q \in Slot : ~Past(q, t)'
  PROVE  /\ WritesInv' /\ AnswersInv' /\ KeysInv'
         /\ \A t \in Tabs : snapshot'[t] = snapshot[t] /\ LostChange(t) => LostChange(t)'
<1>1. \A t \in Tabs : snapshot'[t].status = "ok" => snapshot'[t] = snapshot[t]
  BY DEF NoSnapshot
<1>2. WritesInv'
  <2> SUFFICES ASSUME NEW r \in Slot, request'[r].left # {}
               PROVE  /\ request'[r].at = "write" /\ (request'[r].live \/ request'[r].current)
                      /\ \A s \in Store \ request'[r].left : stored'[s] = request'[r].pair
                      /\ \A q \in Slot \ {r} : ~Unsettled(q)'
                      /\ \A t \in Tabs : snapshot'[t].status # "ok"
    BY DEF WritesInv
  <2>1. /\ request[r].left # {} /\ request'[r].left = request[r].left
        /\ request'[r].at = request[r].at /\ request'[r].pair = request[r].pair
        /\ request'[r].live \/ request'[r].current
    BY DEF Fades
  <2>2. /\ request[r].at = "write"
        /\ \A s \in Store \ request[r].left : stored[s] = request[r].pair
        /\ \A q \in Slot \ {r} : ~Unsettled(q)
        /\ \A t \in Tabs : snapshot[t].status # "ok"
    BY <2>1 DEF ChangesInv, WritesInv
  <2>3. \A q \in Slot \ {r} : ~Unsettled(q)'
    BY <2>2 DEF Fades
  <2> QED BY <1>1, <2>1, <2>2, <2>3
<1>3. AnswersInv'
  <2>1. ASSUME NEW r \in Slot, Unsettled(r)', request'[r].left = {}
        PROVE  \A s \in Store : stored'[s] = request'[r].pair
    BY <2>1 DEF Fades, ChangesInv, AnswersInv, Holds
  <2>2. ASSUME NEW t \in Tabs, snapshot'[t].status = "ok"
        PROVE  \A s \in Store : stored'[s] = snapshot'[t].pair
    BY <1>1, <2>2 DEF ChangesInv, AnswersInv, Holds
  <2> QED BY <2>1, <2>2 DEF AnswersInv, Holds
<1>4. KeysInv'
  <2> SUFFICES ASSUME NEW t \in Tabs
               PROVE  /\ \A p, q \in Slot : p # q /\ Past(p, t)' /\ Past(q, t)' =>
                           /\ request'[p].at = "replied" /\ request'[q].at = "replied"
                           /\ request'[p].reply = request'[q].reply
                           /\ request'[p].pair = request'[q].pair
                      /\ \A q \in Slot : Past(q, t)' =>
                           /\ snapshot'[t].status # "none" => request'[q].at = "replied"
                           /\ snapshot'[t].status \in {"ok", "401", "failed"} =>
                                request'[q].reply = snapshot'[t].status
                                /\ request'[q].pair = snapshot'[t].pair
                           /\ request'[q].at = "replied" /\ ~request'[q].snap =>
                                snapshot'[t].status # "none"
    BY DEF KeysInv
  <2>1. \A q \in Slot : Past(q, t)' =>
          /\ Past(q, t) /\ snapshot'[t] = snapshot[t]
          /\ request'[q].at = request[q].at /\ request'[q].reply = request[q].reply
          /\ request'[q].pair = request[q].pair /\ request'[q].snap = request[q].snap
    BY DEF Fades
  <2> QED BY <2>1 DEF ChangesInv, KeysInv
<1>5. ASSUME NEW t \in Tabs, snapshot'[t] = snapshot[t], LostChange(t) PROVE LostChange(t)'
  BY <1>5 DEF LostChange, Fades
<1> QED BY <1>2, <1>3, <1>4, <1>5

-----------------------------------------------------------------------------
(* The steps that change no store and no cookie.                           *)

LEMMA ClientCookies ==
  ASSUME SessionOK, CookiesInv, NEW t \in Tabs, Client(t)
  PROVE  CookiesInv'
<1>1. PICK op \in {"me", "authenticate", "logout", "refresh"}, new \in Waiting :
        Fetch(t, op) /\ tab[t] \notin Waiting /\ tab' = [tab EXCEPT ![t] = new]
  BY DEF Client, Call, Follow, Waiting
<1>2. TabsInv
  BY DEF CookiesInv
<1>3. TabsInv'
  BY <1>1, <1>2, FetchTabs
<1>4. PICK r \in Slot :
        /\ request[r].at = "idle" /\ \A q \in Slot \ {r} : request'[q] = request[q]
        /\ request'[r].left = {} /\ request'[r].reply = "none"
        /\ request'[r].current => request'[r].at = "readCached"
  BY <1>1, <1>2, FetchTabs
<1>5. request[r].left = {} /\ request[r].reply = "none"
  BY <1>2, <1>4 DEF TabsInv, Tidy, SessionOK, SlotsOK, Good
<1>6. ~Unsettled(r) /\ ~Unsettled(r)' /\ \A u \in Tabs : ~Past(r, u)'
  BY <1>4, <1>5 DEF Unsettled, Past, Keyed
<1>7. UNCHANGED <<stored, jar, snapshot, raced>>
  BY <1>1 DEF Fetch, history
<1>8. ChangesInv => ChangesInv'
  BY <1>4, <1>6, <1>7, QuietStep
<1> QED BY <1>3, <1>7, <1>8 DEF CookiesInv

(* Nothing of a request that has not yet been answered or begun to write.  *)
LEMMA NotBegun ==
  ASSUME SessionOK, TabsInv, NEW r \in Slot, request[r].at \notin {"write", "replied"}
  PROVE  /\ request[r].left = {} /\ request[r].reply = "none" /\ ~Unsettled(r)
         /\ request[r] \in RequestRecord /\ Good(request[r]) /\ Tidy(request[r])
BY DEF SessionOK, SlotsOK, Good, TabsInv, Tidy, Unsettled

(* A keyed request that has looked its key up and is not yet answered is   *)
(* the only one, and nothing is kept under its key.                        *)
LEMMA FirstOfKey ==
  ASSUME KeysInv, NEW r \in Slot, NEW t \in Tabs, Past(r, t), request[r].at # "replied",
         snapshot[t].status \in {"none", "lost", "ok", "401", "failed"}
  PROVE  snapshot[t].status = "none" /\ \A q \in Slot \ {r} : ~Past(q, t)
BY DEF KeysInv

LEMMA RefusedCookies ==
  ASSUME SessionOK, CookiesInv, NEW r \in Slot, NEW status \in {"ok", "401", "failed"},
         request[r].at \in {"check", "credentials", "matches", "verify"},
         status # "ok" \/ request[r].op = "me",
         Put(r, Answered(request[r], status)),
         UNCHANGED <<stored, jar, tab, snapshot, raced>>
  PROVE  CookiesInv'
<1> DEFINE req == request[r]
           x == Answered(req, status)
<1>1. TabsInv
  BY DEF CookiesInv
<1>2. /\ req.left = {} /\ req.reply = "none" /\ ~Unsettled(r)
      /\ req \in RequestRecord /\ Good(req) /\ Tidy(req)
  BY <1>1, NotBegun
<1>3. /\ x.at = "replied" /\ x.reply = status /\ x.snap = req.current
      /\ x.op = req.op /\ x.from = req.from /\ x.live = req.live
      /\ x.current = req.current /\ x.pair = req.pair /\ x.left = req.left
  BY <1>2, AnsweredView
<1>4. Good(x) /\ Tidy(x)
  BY <1>2, AnsweredGood, AnsweredTidy
<1> HIDE DEF x
<1>5. TabsInv'
  BY <1>1, <1>3, <1>4, PutTabs DEF x
<1>6. /\ \A q \in Slot \ {r} : request'[q] = request[q]
      /\ request'[r] = x \/ request'[r] = Idle
  BY <1>4, PutView DEF SessionOK, x
<1>7. ~Unsettled(r)' /\ request'[r].left = {}
  BY <1>2, <1>3, <1>6, IdleTidy DEF Unsettled
<1>8. ASSUME KeysInv, NEW t \in Tabs, Past(r, t)'
      PROVE  /\ \A q \in Slot \ {r} : ~Past(q, t)
             /\ snapshot[t].status = "none" /\ request'[r].snap
  <2>1. request'[r] = x /\ req.current /\ req.from = t
    BY <1>3, <1>6, <1>8, IdleTidy DEF Past, Keyed
  <2>2. Past(r, t) /\ req.at # "replied"
    BY <2>1 DEF Past, Keyed
  <2>3. snapshot[t].status \in {"none", "lost", "ok", "401", "failed"}
    BY DEF SessionOK, TypeOK
  <2> QED BY <1>3, <1>8, <2>1, <2>2, <2>3, FirstOfKey
<1>9. ChangesInv => ChangesInv'
  BY <1>2, <1>6, <1>7, <1>8, QuietStep DEF ChangesInv
<1> QED BY <1>5, <1>9 DEF CookiesInv

(* IdempotencyMiddleware: the answer kept under the key, or the handler.   *)
LEMMA ReadCachedCookies ==
  ASSUME SessionOK, CookiesInv, NEW r \in Slot, ReadCached(r)
  PROVE  CookiesInv'
<1> DEFINE req == request[r]
           t   == req.from
           hit == req.current /\ snapshot[t].status \in {"ok", "401", "failed"}
           replay == [req EXCEPT !.at = "replied", !.reply = snapshot[t].status,
                                 !.pair = snapshot[t].pair]
           run == [req EXCEPT !.at = "matches"]
<1>1. TabsInv /\ req.at = "readCached" /\ UNCHANGED <<clock, stored, jar, tab, snapshot>>
  BY DEF CookiesInv, ReadCached
<1>2. /\ req.left = {} /\ req.reply = "none" /\ ~Unsettled(r)
      /\ req \in RequestRecord /\ Good(req) /\ Tidy(req) /\ req.op = "refresh"
  BY <1>1, NotBegun DEF Tidy, OpAt
<1>3. req.current => t \in Tabs
  BY <1>2 DEF Good
<1>4. CASE hit
  <2>1. /\ replay.at = "replied" /\ replay.reply = snapshot[t].status
        /\ replay.pair = snapshot[t].pair /\ replay.op = req.op /\ replay.from = req.from
        /\ replay.live = req.live /\ replay.current = req.current /\ replay.left = req.left
        /\ replay.snap = req.snap
    BY <1>2 DEF RequestRecord
  <2>2. replay \in RequestRecord
    BY <1>2, <1>3, <1>4 DEF RequestRecord, SessionOK, TypeOK
  <2>3. Put(r, replay)
    BY <1>4 DEF ReadCached
  <2>4. raced' = raced
    BY <1>4 DEF ReadCached, SessionOK, TypeOK
  <2> HIDE DEF replay
  <2>5. Good(replay) /\ Tidy(replay)
    BY <1>2, <1>4, <2>1, <2>2 DEF Good, Tidy, OpAt
  <2>6. TabsInv'
    BY <1>1, <2>1, <2>3, <2>5, PutTabs
  <2>7. /\ \A q \in Slot \ {r} : request'[q] = request[q]
        /\ request'[r] = replay \/ request'[r] = Idle
    BY <2>3, <2>5, PutView DEF SessionOK
  <2>8. ASSUME ChangesInv PROVE ChangesInv'
    <3>1. /\ request'[r].left = {}
          /\ Unsettled(r)' => snapshot[t].status = "ok" /\ request'[r].pair = snapshot[t].pair
      BY <1>2, <2>1, <2>7, IdleTidy DEF Unsettled
    <3>2. /\ \A q \in Slot \ {r} : Unsettled(q)' <=> Unsettled(q)
          /\ \A q \in Slot \ {r}, u \in Tabs : Past(q, u)' <=> Past(q, u)
      BY <2>7 DEF Unsettled, Past, Keyed
    <3>3. \A u \in Tabs : Past(r, u)' => u = t /\ request'[r] = replay
      BY <2>1, <2>7, IdleTidy DEF Past, Keyed
    <3>4. WritesInv'
      <4> SUFFICES ASSUME NEW w \in Slot, request'[w].left # {}
                   PROVE  /\ request'[w].at = "write" /\ (request'[w].live \/ request'[w].current)
                          /\ \A s \in Store \ request'[w].left : stored'[s] = request'[w].pair
                          /\ \A q \in Slot \ {w} : ~Unsettled(q)'
                          /\ \A u \in Tabs : snapshot'[u].status # "ok"
        BY DEF WritesInv
      <4>1. w # r /\ request'[w] = request[w]
        BY <2>7, <3>1
      <4>2. /\ request[w].at = "write" /\ (request[w].live \/ request[w].current)
            /\ \A s \in Store \ request[w].left : stored[s] = request[w].pair
            /\ \A q \in Slot \ {w} : ~Unsettled(q)
            /\ \A u \in Tabs : snapshot[u].status # "ok"
        BY <2>8, <4>1 DEF ChangesInv, WritesInv
      <4>3. ~Unsettled(r)'
        BY <1>3, <1>4, <3>1, <4>2
      <4> QED BY <1>1, <3>2, <4>1, <4>2, <4>3
    <3>5. AnswersInv'
      <4>1. ASSUME NEW q \in Slot, Unsettled(q)', request'[q].left = {}
            PROVE  \A s \in Store : stored'[s] = request'[q].pair
        <5>1. CASE q = r
          BY <1>1, <1>3, <1>4, <2>8, <3>1, <4>1, <5>1 DEF ChangesInv, AnswersInv, Holds
        <5>2. CASE q # r
          BY <1>1, <2>7, <2>8, <3>2, <4>1, <5>2 DEF ChangesInv, AnswersInv, Holds
        <5> QED BY <5>1, <5>2
      <4> QED BY <1>1, <2>8, <4>1 DEF ChangesInv, AnswersInv, Holds
    <3>6. KeysInv'
      <4> SUFFICES ASSUME NEW u \in Tabs
                   PROVE  /\ \A p, q \in Slot : p # q /\ Past(p, u)' /\ Past(q, u)' =>
                               /\ request'[p].at = "replied" /\ request'[q].at = "replied"
                               /\ request'[p].reply = request'[q].reply
                               /\ request'[p].pair = request'[q].pair
                          /\ \A q \in Slot : Past(q, u)' =>
                               /\ snapshot'[u].status # "none" => request'[q].at = "replied"
                               /\ snapshot'[u].status \in {"ok", "401", "failed"} =>
                                    request'[q].reply = snapshot'[u].status
                                    /\ request'[q].pair = snapshot'[u].pair
                               /\ request'[q].at = "replied" /\ ~request'[q].snap =>
                                    snapshot'[u].status # "none"
        BY DEF KeysInv
      <4>1. CASE Past(r, u)'
        <5>1. u = t /\ request'[r] = replay /\ u \in Tabs
          BY <3>3, <4>1
        <5>2. \A q \in Slot \ {r} : Past(q, u) =>
                 /\ request[q].at = "replied" /\ request[q].reply = snapshot[t].status
                 /\ request[q].pair = snapshot[t].pair
          BY <1>4, <2>8, <5>1 DEF ChangesInv, KeysInv
        <5>3. \A q \in Slot : Past(q, u)' =>
                 /\ request'[q].at = "replied" /\ request'[q].reply = snapshot[t].status
                 /\ request'[q].pair = snapshot[t].pair
          BY <2>1, <2>7, <3>2, <5>1, <5>2
        <5> QED BY <1>1, <1>4, <5>1, <5>3
      <4>2. CASE ~Past(r, u)'
        BY <1>1, <2>7, <2>8, <3>2, <4>2 DEF ChangesInv, KeysInv
      <4> QED BY <4>1, <4>2
    <3>7. \A u \in Tabs : LostChange(u) => LostChange(u)'
      <4> SUFFICES ASSUME NEW u \in Tabs, LostChange(u) PROVE LostChange(u)'
        OBVIOUS
      <4>1. u # t
        BY <1>4 DEF LostChange
      <4> QED BY <1>1, <2>7, <3>2, <3>3, <4>1 DEF LostChange
    <3>8. Told'
      BY <1>1, <1>2, <2>8, <3>2, <3>7 DEF ChangesInv, Told, Holds
    <3> QED BY <3>4, <3>5, <3>6, <3>8 DEF ChangesInv
  <2> QED BY <2>4, <2>6, <2>8 DEF CookiesInv
<1>5. CASE ~hit
  <2>1. /\ run.at = "matches" /\ run.reply = req.reply /\ run.pair = req.pair
        /\ run.op = req.op /\ run.from = req.from /\ run.live = req.live
        /\ run.current = req.current /\ run.left = req.left /\ run.snap = req.snap
    BY <1>2 DEF RequestRecord
  <2>2. run \in RequestRecord
    BY <1>2 DEF RequestRecord
  <2>3. Put(r, run)
    BY <1>5 DEF ReadCached
  <2> HIDE DEF run
  <2>4. Good(run) /\ Tidy(run)
    BY <1>1, <1>2, <2>1, <2>2 DEF Good, Tidy, OpAt
  <2>5. TabsInv'
    BY <1>1, <2>1, <2>3, <2>4, PutTabs
  <2>6. /\ \A q \in Slot \ {r} : request'[q] = request[q]
        /\ request'[r] = run
    BY <2>1, <2>3, <2>4, PutView DEF SessionOK, Gone
  <2>7. ~Unsettled(r)' /\ request'[r].left = {}
    BY <1>2, <2>1, <2>6 DEF Unsettled
  <2>8. ASSUME ~raced', ChangesInv PROVE ChangesInv'
    <3>1. ASSUME NEW u \in Tabs, Past(r, u)'
          PROVE  /\ \A q \in Slot \ {r} : ~Past(q, u)
                 /\ snapshot[u].status = "none"
      <4>1. req.current /\ u = t
        BY <2>1, <2>6, <3>1 DEF Past, Keyed
      <4>2. snapshot[t].status # "lost" /\ \A q \in Slot \ {r} : ~(request[q].from = t /\ request[q].current)
        BY <1>5, <2>8, <4>1 DEF ReadCached
      <4>3. snapshot[t].status \in {"none", "lost", "ok", "401", "failed"}
        BY <4>1 DEF SessionOK, TypeOK
      <4> QED BY <1>5, <4>1, <4>2, <4>3 DEF Past, Keyed
    <3> QED BY <1>1, <1>2, <2>1, <2>6, <2>7, <2>8, <3>1, QuietStep
  <2>9. ~raced' => ~raced
    BY DEF ReadCached
  <2> QED BY <2>5, <2>8, <2>9 DEF CookiesInv
<1> QED BY <1>4, <1>5

-----------------------------------------------------------------------------
(* The steps that begin a change of the stores, and the ones that make it. *)

(* AuthenticateHandler, RefreshTokenHandler and LogoutHandler before their *)
(* first write: nobody else is in the middle of a change.                  *)
LEMMA BeginCookies ==
  ASSUME SessionOK, CookiesInv, NEW r \in Slot, NEW pair \in 0 .. MaxTime,
         request[r].at \in {"credentials", "matches", "verify"},
         request[r].at = "verify" => pair = NoPair,
         Put(r, Writes(request[r], pair)), Begins(r), UNCHANGED <<stored, jar, tab, snapshot>>
  PROVE  CookiesInv'
<1> DEFINE req == request[r]
           x == Writes(req, pair)
<1>1. TabsInv
  BY DEF CookiesInv
<1>2. /\ req.left = {} /\ req.reply = "none"
      /\ req \in RequestRecord /\ Good(req) /\ Tidy(req)
  BY <1>1, NotBegun
<1>3. /\ x.at = "write" /\ x.pair = pair /\ x.left = Store /\ x.reply = req.reply
      /\ x.op = req.op /\ x.from = req.from /\ x.live = req.live
      /\ x.current = req.current /\ x.snap = req.snap
  BY <1>2, WritesView
<1>4. Good(x)
  BY <1>2, WritesGood
<1> HIDE DEF x
<1>5. Tidy(x)
  BY <1>2, <1>3 DEF Tidy, OpAt
<1>6. TabsInv'
  BY <1>1, <1>3, <1>4, <1>5, PutTabs DEF x
<1>7. /\ \A q \in Slot \ {r} : request'[q] = request[q]
      /\ request'[r] = x
  BY <1>3, <1>4, <1>5, PutView DEF SessionOK, x, Gone
<1>8. ASSUME ~raced' PROVE ChangesInv'
  <2>1. ~raced /\ Undisturbed(r) /\ (req.live \/ req.current)
    BY <1>8 DEF Begins
  <2>2. ChangesInv
    BY <2>1 DEF CookiesInv
  <2>3. /\ \A q \in Slot \ {r} : ~Unsettled(q)' /\ request'[q].left = {}
        /\ \A t \in Tabs : snapshot[t].status # "ok"
    BY <1>7, <2>1 DEF Undisturbed, Unsettled, Pending
  <2>4. WritesInv'
    BY <1>3, <1>7, <2>1, <2>3 DEF WritesInv
  <2>5. AnswersInv'
    BY <1>3, <1>7, <2>3 DEF AnswersInv, Store
  <2>6. ASSUME NEW t \in Tabs, Past(r, t)'
        PROVE  /\ \A q \in Slot \ {r} : ~Past(q, t)
               /\ snapshot[t].status = "none"
    <3>1. Past(r, t) /\ req.at # "replied"
      BY <1>3, <1>7, <2>6, <1>2 DEF Past, Keyed, Tidy, OpAt
    <3>2. snapshot[t].status \in {"none", "lost", "ok", "401", "failed"}
      BY DEF SessionOK, TypeOK
    <3> QED BY <2>2, <3>1, <3>2, FirstOfKey DEF ChangesInv
  <2>7. KeysInv'
    BY <1>3, <1>7, <2>2, <2>6, KeysFrame DEF ChangesInv
  <2>8. Unsettled(r)'
    BY <1>3, <1>7 DEF Unsettled, Store
  <2> QED BY <2>4, <2>5, <2>7, <2>8 DEF ChangesInv, Told
<1> QED BY <1>6, <1>8 DEF CookiesInv

(* One of the two writes of Promise.all.                                   *)
LEMMA WriteCookies ==
  ASSUME SessionOK, CookiesInv, NEW r \in Slot, NEW s \in Store, NEW rejected \in BOOLEAN,
         Write(r, s, rejected)
  PROVE  CookiesInv'
<1> DEFINE req  == request[r]
           left == req.left \ {s}
           done == [req EXCEPT !.left = left]
           status == IF rejected THEN "failed" ELSE "ok"
           answer == Answered(done, status)
<1>1. /\ TabsInv /\ s \in req.left /\ UNCHANGED <<clock, jar, tab, snapshot>>
      /\ Good(req) /\ Tidy(req) /\ req \in RequestRecord
  BY DEF CookiesInv, Write, SessionOK, SlotsOK, TabsInv
<1>2. /\ done.at = req.at /\ done.reply = req.reply /\ done.pair = req.pair
      /\ done.op = req.op /\ done.from = req.from /\ done.live = req.live
      /\ done.current = req.current /\ done.left = left /\ done.snap = req.snap
      /\ done \in RequestRecord
  BY <1>1 DEF RequestRecord
<1> HIDE DEF done
<1>3. Good(done) /\ Tidy(done) /\ done.at # "idle"
  BY <1>1, <1>2 DEF Good, Tidy, OpAt
<1>4. Good(answer) /\ Tidy(answer)
  BY <1>3, AnsweredGood, AnsweredTidy
<1>5. /\ answer.at = "replied" /\ answer.reply = status /\ answer.snap = req.current
      /\ answer.op = req.op /\ answer.from = req.from /\ answer.live = req.live
      /\ answer.current = req.current /\ answer.pair = req.pair /\ answer.left = left
  BY <1>2, AnsweredView
<1> HIDE DEF answer
<1>6. Put(r, answer) \/ Put(r, done)
  BY DEF Write, done, answer
<1>7. TabsInv'
  BY <1>1, <1>2, <1>3, <1>4, <1>5, <1>6, PutTabs
<1>8. ASSUME ~raced' PROVE ChangesInv'
  <2>1. ~rejected /\ ~raced /\ stored' = [stored EXCEPT ![s] = req.pair]
    BY <1>8 DEF Write
  <2>2. ChangesInv
    BY <2>1 DEF CookiesInv
  <2>3. /\ req.at = "write" /\ (req.live \/ req.current)
        /\ \A u \in Store \ req.left : stored[u] = req.pair
        /\ \A q \in Slot \ {r} : ~Unsettled(q)
        /\ \A t \in Tabs : snapshot[t].status # "ok"
    BY <1>1, <2>2 DEF ChangesInv, WritesInv
  <2>4. \A u \in Store \ left : stored'[u] = req.pair
    BY <2>1, <2>3 DEF SessionOK, TypeOK
  <2>5. PICK x : /\ Put(r, x) /\ Good(x) /\ Tidy(x)
                 /\ x.op = req.op /\ x.from = req.from /\ x.live = req.live
                 /\ x.current = req.current /\ x.pair = req.pair /\ x.left = left
                 /\ left # {} => x.at = "write"
                 /\ left = {} => x.at = "replied" /\ x.reply = "ok" /\ x.snap = req.current
    <3>1. CASE left = {}
      BY <1>4, <1>5, <2>1, <2>3, <3>1 DEF Write, done, answer
    <3>2. CASE left # {}
      BY <1>2, <1>3, <2>1, <2>3, <3>2 DEF Write, done
    <3> QED BY <3>1, <3>2
  <2>6. /\ \A q \in Slot \ {r} : request'[q] = request[q]
        /\ request'[r] = x
    BY <2>3, <2>5, PutView DEF SessionOK, Gone
  <2>7. \A q \in Slot \ {r} : ~Unsettled(q)' /\ request'[q].left = {}
    BY <2>3, <2>6 DEF Unsettled
  <2>8. Unsettled(r)'
    BY <1>1, <2>3, <2>5, <2>6 DEF Unsettled, Tidy, OpAt
  <2>9. WritesInv'
    BY <1>1, <2>3, <2>4, <2>5, <2>6, <2>7 DEF WritesInv
  <2>10. AnswersInv'
    BY <1>1, <2>3, <2>4, <2>5, <2>6, <2>7 DEF AnswersInv, Holds
  <2>11. ASSUME NEW t \in Tabs, Past(r, t)'
         PROVE  /\ \A q \in Slot \ {r} : ~Past(q, t)
                /\ snapshot[t].status = "none"
    <3>1. Past(r, t) /\ req.at # "replied"
      BY <2>3, <2>5, <2>6, <2>11 DEF Past, Keyed
    <3>2. snapshot[t].status \in {"none", "lost", "ok", "401", "failed"}
      BY DEF SessionOK, TypeOK
    <3> QED BY <2>2, <3>1, <3>2, FirstOfKey DEF ChangesInv
  <2>12. \A t \in Tabs : Past(r, t)' => (request'[r].at = "replied" => request'[r].snap)
    BY <2>5, <2>6 DEF Past, Keyed
  <2>13. KeysInv'
    BY <1>1, <2>2, <2>6, <2>11, <2>12, KeysFrame DEF ChangesInv
  <2> QED BY <2>8, <2>9, <2>10, <2>13 DEF ChangesInv, Told
<1> QED BY <1>7, <1>8 DEF CookiesInv

-----------------------------------------------------------------------------
(* The response kept under the key, and lost.                              *)

LEMMA StoreCachedCookies ==
  ASSUME SessionOK, CookiesInv, NEW r \in Slot, NEW rejected \in BOOLEAN,
         StoreCached(r, rejected)
  PROVE  CookiesInv'
<1> DEFINE req == request[r]
           kept == IF rejected THEN Lost ELSE [status |-> req.reply, pair |-> req.pair]
           x   == [req EXCEPT !.snap = FALSE]
<1>step. /\ TabsInv /\ req.snap /\ UNCHANGED <<stored, jar, tab, raced>>
      /\ Good(req) /\ Tidy(req) /\ req \in RequestRecord
      /\ snapshot' = [snapshot EXCEPT ![req.from] = kept]
  BY DEF CookiesInv, StoreCached, history, SessionOK, SlotsOK, TabsInv
<1>tab. PICK t \in Tabs : t = req.from
  BY <1>step DEF Tidy, Good
<1>1. /\ TabsInv /\ req.snap /\ UNCHANGED <<stored, jar, tab, raced>>
      /\ Good(req) /\ Tidy(req) /\ req \in RequestRecord
      /\ snapshot' = [snapshot EXCEPT ![t] = kept]
  BY <1>step, <1>tab
<1>2. req.current /\ req.at = "replied" /\ req.reply # "none" /\ req.op = "refresh" /\ t = req.from
  BY <1>tab, <1>1 DEF Tidy
<1>3. /\ x.at = req.at /\ x.reply = req.reply /\ x.pair = req.pair
      /\ x.op = req.op /\ x.from = req.from /\ x.live = req.live
      /\ x.current = req.current /\ x.left = req.left /\ ~x.snap
      /\ x \in RequestRecord
  BY <1>1 DEF RequestRecord
<1>4. Put(r, x)
  BY DEF StoreCached
<1> HIDE DEF x
<1>5. Good(x) /\ Tidy(x)
  BY <1>1, <1>2, <1>3 DEF Good, Tidy, OpAt
<1>6. TabsInv'
  BY <1>1, <1>3, <1>4, <1>5, PutTabs
<1>7. /\ \A q \in Slot \ {r} : request'[q] = request[q]
      /\ request'[r] = x \/ request'[r] = Idle
  BY <1>4, <1>5, PutView DEF SessionOK
<1>8. /\ snapshot'[t] = kept /\ \A u \in Tabs \ {t} : snapshot'[u] = snapshot[u]
      /\ kept.status # "none"
      /\ kept.status # "lost" => kept.status = req.reply /\ kept.pair = req.pair
      /\ kept.status # "lost" <=> ~rejected
  BY <1>1, <1>2 DEF SessionOK, TypeOK, Lost, RequestRecord
<1> HIDE DEF kept
<1>9. ASSUME ChangesInv PROVE ChangesInv'
  <2>1. req.left = {} /\ Past(r, t)
    BY <1>2, <1>9 DEF ChangesInv, WritesInv, Past, Keyed
  <2>2. Unsettled(r) <=> req.reply = "ok"
    BY <1>2, <2>1 DEF Unsettled
  <2>3. /\ request'[r].left = {}
        /\ Unsettled(r)' => req.reply = "ok" /\ request'[r].pair = req.pair
    BY <1>3, <1>7, <2>1, IdleTidy DEF Unsettled
  <2>4. /\ \A q \in Slot \ {r} : Unsettled(q)' <=> Unsettled(q)
        /\ \A q \in Slot \ {r}, u \in Tabs : Past(q, u)' <=> Past(q, u)
        /\ \A u \in Tabs : Past(r, u)' => u = t /\ request'[r] = x
    BY <1>2, <1>3, <1>7, IdleTidy DEF Unsettled, Past, Keyed
  <2>5. \A q \in Slot : Past(q, t) =>
          request[q].at = "replied" /\ request[q].reply = req.reply /\ request[q].pair = req.pair
    BY <1>2, <1>9, <2>1 DEF ChangesInv, KeysInv
  <2>6. WritesInv'
    <3> SUFFICES ASSUME NEW w \in Slot, request'[w].left # {}
                 PROVE  /\ request'[w].at = "write" /\ (request'[w].live \/ request'[w].current)
                        /\ \A s \in Store \ request'[w].left : stored'[s] = request'[w].pair
                        /\ \A q \in Slot \ {w} : ~Unsettled(q)'
                        /\ \A u \in Tabs : snapshot'[u].status # "ok"
      BY DEF WritesInv
    <3>1. w # r /\ request'[w] = request[w]
      BY <1>7, <2>3
    <3>2. /\ request[w].at = "write" /\ (request[w].live \/ request[w].current)
          /\ \A s \in Store \ request[w].left : stored[s] = request[w].pair
          /\ \A q \in Slot \ {w} : ~Unsettled(q)
          /\ \A u \in Tabs : snapshot[u].status # "ok"
      BY <1>9, <3>1 DEF ChangesInv, WritesInv
    <3>3. req.reply # "ok"
      BY <2>2, <3>1, <3>2
    <3>4. \A u \in Tabs : snapshot'[u].status # "ok"
      BY <1>8, <3>2, <3>3
    <3> QED BY <1>1, <2>3, <2>4, <3>1, <3>2, <3>3, <3>4
  <2>7. AnswersInv'
    <3>1. req.reply = "ok" => \A s \in Store : stored[s] = req.pair
      BY <1>9, <2>1, <2>2 DEF ChangesInv, AnswersInv, Holds
    <3>2. ASSUME NEW q \in Slot, Unsettled(q)', request'[q].left = {}
          PROVE  \A s \in Store : stored'[s] = request'[q].pair
      <4>1. CASE q = r
        BY <1>1, <2>3, <3>1, <3>2, <4>1
      <4>2. CASE q # r
        BY <1>1, <1>7, <1>9, <2>4, <3>2, <4>2 DEF ChangesInv, AnswersInv, Holds
      <4> QED BY <4>1, <4>2
    <3>3. ASSUME NEW u \in Tabs, snapshot'[u].status = "ok"
          PROVE  \A s \in Store : stored'[s] = snapshot'[u].pair
      <4>1. CASE u = t
        BY <1>1, <1>8, <3>1, <3>3, <4>1
      <4>2. CASE u # t
        BY <1>1, <1>8, <1>9, <3>3, <4>2 DEF ChangesInv, AnswersInv, Holds
      <4> QED BY <4>1, <4>2
    <3> QED BY <3>2, <3>3 DEF AnswersInv, Holds
  <2>8. KeysInv'
    <3> SUFFICES ASSUME NEW u \in Tabs
                 PROVE  /\ \A p, q \in Slot : p # q /\ Past(p, u)' /\ Past(q, u)' =>
                             /\ request'[p].at = "replied" /\ request'[q].at = "replied"
                             /\ request'[p].reply = request'[q].reply
                             /\ request'[p].pair = request'[q].pair
                        /\ \A q \in Slot : Past(q, u)' =>
                             /\ snapshot'[u].status # "none" => request'[q].at = "replied"
                             /\ snapshot'[u].status \in {"ok", "401", "failed"} =>
                                  request'[q].reply = snapshot'[u].status
                                  /\ request'[q].pair = snapshot'[u].pair
                             /\ request'[q].at = "replied" /\ ~request'[q].snap =>
                                  snapshot'[u].status # "none"
      BY DEF KeysInv
    <3>1. CASE u = t
      <4>1. \A q \in Slot : Past(q, t)' =>
              /\ request'[q].at = "replied" /\ request'[q].reply = req.reply
              /\ request'[q].pair = req.pair
        BY <1>2, <1>3, <1>7, <2>4, <2>5
      <4> QED BY <1>8, <3>1, <4>1
    <3>2. CASE u # t
      BY <1>7, <1>8, <1>9, <2>4, <3>2 DEF ChangesInv, KeysInv
    <3> QED BY <3>1, <3>2
  <2>9. Told'
    <3>1. ASSUME req.reply = "ok"
          PROVE  snapshot'[t].status = "ok" \/ LostChange(t)'
      <4>1. CASE kept.status = "lost"
        <5>1. \A q \in Slot : Past(q, t)' => request'[q].reply = "ok"
          BY <1>3, <1>7, <2>4, <2>5, <3>1
        <5> QED BY <1>8, <4>1, <5>1 DEF LostChange
      <4>2. CASE kept.status # "lost"
        BY <1>8, <3>1, <4>2
      <4> QED BY <4>1, <4>2
    <3>2. \A u \in Tabs \ {t} : LostChange(u) => LostChange(u)'
      BY <1>7, <1>8, <2>4 DEF LostChange
    <3>3. CASE req.reply = "ok"
      BY <1>2, <3>1, <3>3 DEF Told
    <3>4. CASE req.reply # "ok"
      <4>1. snapshot[t].status # "ok" /\ ~LostChange(t)
        BY <1>2, <1>9, <2>1, <3>4 DEF ChangesInv, KeysInv, LostChange
      <4>2. ~Unsettled(r)
        BY <2>2, <3>4
      <4> QED BY <1>1, <1>8, <1>9, <2>4, <3>2, <4>1, <4>2 DEF ChangesInv, Told, Holds
    <3> QED BY <3>3, <3>4
  <2> QED BY <2>6, <2>7, <2>8, <2>9 DEF ChangesInv
<1> QED BY <1>1, <1>6, <1>9 DEF CookiesInv

(* A snapshot that expires, the clock, and no step at all.                 *)
LEMMA OtherCookies ==
  ASSUME SessionOK, CookiesInv, Tick \/ (\E t \in Tabs : SnapshotExpires(t)) \/ UNCHANGED vars
  PROVE  CookiesInv'
<1>1. UNCHANGED <<stored, jar, tab, request, raced>>
  BY DEF Tick, SnapshotExpires, vars, history
<1>2. TabsInv'
  BY <1>1 DEF CookiesInv, TabsInv
<1>3. \A q \in Slot : /\ Unsettled(q)' <=> Unsettled(q)
                      /\ \A u \in Tabs : Past(q, u)' <=> Past(q, u)
  BY <1>1 DEF Unsettled, Past, Keyed
<1>4. ASSUME ChangesInv PROVE ChangesInv'
  <2>1. CASE UNCHANGED snapshot
    <3>1. Told'
      BY <1>1, <1>3, <1>4, <2>1 DEF ChangesInv, Told, Holds, LostChange
    <3>2. WritesInv' /\ AnswersInv' /\ KeysInv'
      BY <1>1, <1>3, <1>4, <2>1 DEF ChangesInv, WritesInv, AnswersInv, KeysInv, Holds
    <3> QED BY <3>1, <3>2 DEF ChangesInv
  <2>2. ASSUME NEW t \in Tabs, SnapshotExpires(t) PROVE ChangesInv'
    <3>1. /\ snapshot[t].status \in {"ok", "401", "failed"}
          /\ snapshot'[t] = Lost /\ Lost.status = "lost"
          /\ \A u \in Tabs \ {t} : snapshot'[u] = snapshot[u]
      BY <2>2 DEF SnapshotExpires, SessionOK, TypeOK, Lost
    <3>2. WritesInv'
      BY <1>1, <1>3, <1>4, <3>1 DEF ChangesInv, WritesInv
    <3>3. AnswersInv'
      BY <1>1, <1>3, <1>4, <3>1 DEF ChangesInv, AnswersInv, Holds
    <3>4. KeysInv'
      BY <1>1, <1>3, <1>4, <3>1 DEF ChangesInv, KeysInv
    <3>5. snapshot[t].status = "ok" => LostChange(t)'
      BY <1>1, <1>3, <1>4, <3>1 DEF ChangesInv, KeysInv, LostChange
    <3>6. ~LostChange(t) /\ \A u \in Tabs \ {t} : LostChange(u) => LostChange(u)'
      BY <1>1, <1>3, <3>1 DEF LostChange
    <3>7. Told'
      BY <1>1, <1>3, <1>4, <3>1, <3>5, <3>6 DEF ChangesInv, Told, Holds
    <3> QED BY <3>2, <3>3, <3>4, <3>7 DEF ChangesInv
  <2>3. UNCHANGED snapshot \/ \E t \in Tabs : SnapshotExpires(t)
    BY DEF Tick, vars
  <2> QED BY <2>1, <2>2, <2>3
<1> QED BY <1>1, <1>2, <1>4 DEF CookiesInv

-----------------------------------------------------------------------------
(* An answer, and a connection that is lost.                               *)

(* Slot q has nobody to tell any more.                                     *)
GivenUp(q) ==
    request'[q].left = request[q].left /\ ~request'[q].live /\ ~request'[q].current

LEMMA GivenUpFades ==
  ASSUME NEW q \in Slot, GivenUp(q), request[q].left = {}
  PROVE  Fades(q) /\ ~Unsettled(q)'
BY DEF GivenUp, Fades, Unsettled, Past, Keyed

LEMMA SameFades ==
  ASSUME WritesInv, NEW q \in Slot, request'[q] = request[q]
  PROVE  Fades(q) /\ (Unsettled(q)' <=> Unsettled(q))
BY DEF WritesInv, Fades, Unsettled, Past, Keyed

LEMMA CutTidy ==
  ASSUME NEW x, Good(x), Tidy(x), ~x.live
  PROVE  LET z == Settled([x EXCEPT !.current = FALSE, !.snap = FALSE])
         IN  Tidy(z) /\ z.left = x.left /\ ~z.live /\ ~z.current
<1> DEFINE y == [x EXCEPT !.current = FALSE, !.snap = FALSE]
<1>1. /\ y.at = x.at /\ y.reply = x.reply /\ y.pair = x.pair /\ y.op = x.op
      /\ y.live = x.live /\ ~y.current /\ y.left = x.left /\ ~y.snap
  BY DEF Good, RequestRecord
<1> HIDE DEF y
<1>2. Tidy(y)
  BY <1>1 DEF Tidy, OpAt
<1>3. Settled(y) = y \/ (Settled(y) = Idle /\ Gone(y))
  BY DEF Settled, Gone
<1>4. Tidy(Settled(y)) /\ Settled(y).left = x.left /\ ~Settled(y).live /\ ~Settled(y).current
  BY <1>1, <1>2, <1>3, IdleTidy DEF Gone
<1> QED BY <1>4 DEF y

(* refreshSession of the tab of request r is over, and r is left as h.     *)
LEMMA ForgetView ==
  ASSUME SessionOK, TabsInv, NEW r \in Slot, request[r].live, NEW t \in Tabs, t = request[r].from,
         NEW h, Good(h), Tidy(h), ~h.live, h.left = request[r].left, h.from = t \/ ~h.current,
         Forget(t, [request EXCEPT ![r] = h])
  PROVE  /\ GivenUp(r) /\ \A q \in Slot : Tidy(request'[q])
         /\ \A q \in Slot \ {r} : \/ request[q].from # t /\ request'[q] = request[q]
                                  \/ request[q].from = t /\ GivenUp(q)
         /\ snapshot'[t] = NoSnapshot /\ \A q \in Slot : ~Past(q, t)'
         /\ \A u \in Tabs \ {t} : snapshot'[u] = snapshot[u]
<1> DEFINE requests == [request EXCEPT ![r] = h]
           cut(q) == Settled([requests[q] EXCEPT !.current = FALSE, !.snap = FALSE])
<1>1. \A q \in Slot : request'[q] = IF requests[q].from = t THEN cut(q) ELSE requests[q]
  BY DEF Forget
<1>2. requests[r] = h /\ \A q \in Slot \ {r} : requests[q] = request[q]
  BY DEF SessionOK, SlotsOK
<1>3. \A q \in Slot : Good(requests[q]) /\ Tidy(requests[q])
  BY <1>2 DEF SessionOK, SlotsOK, TabsInv
<1>4. \A q \in Slot : requests[q].from = t => ~requests[q].live
  BY <1>2 DEF TabsInv
<1>5. \A q \in Slot : requests[q].from = t =>
        Tidy(cut(q)) /\ cut(q).left = requests[q].left /\ ~cut(q).live /\ ~cut(q).current
  BY <1>3, <1>4, CutTidy
<1> HIDE DEF requests, cut
<1>6. \A q \in Slot : Tidy(request'[q])
  BY <1>1, <1>3, <1>5
<1>7. GivenUp(r)
  BY <1>1, <1>2, <1>5 DEF GivenUp
<1>8. \A q \in Slot \ {r} : \/ request[q].from # t /\ request'[q] = request[q]
                            \/ request[q].from = t /\ GivenUp(q)
  BY <1>1, <1>2, <1>5 DEF GivenUp
<1>9. snapshot'[t] = NoSnapshot /\ \A u \in Tabs \ {t} : snapshot'[u] = snapshot[u]
  BY DEF Forget, SessionOK, TypeOK
<1>10. \A q \in Slot : ~Past(q, t)'
  BY <1>7, <1>8 DEF GivenUp, Past, Keyed
<1> QED BY <1>6, <1>7, <1>8, <1>9, <1>10

(* A request whose answer nobody waits for any more.                       *)
LEMMA HungView ==
  ASSUME NEW req, Good(req), Tidy(req)
  PROVE  LET off == [req EXCEPT !.live = FALSE]
         IN  /\ off.at = req.at /\ off.reply = req.reply /\ off.pair = req.pair
             /\ off.op = req.op /\ off.from = req.from /\ ~off.live
             /\ off.current = req.current /\ off.left = req.left /\ off.snap = req.snap
             /\ Good(off) /\ Tidy(off)
<1> DEFINE off == [req EXCEPT !.live = FALSE]
<1>1. /\ off.at = req.at /\ off.reply = req.reply /\ off.pair = req.pair
      /\ off.op = req.op /\ off.from = req.from /\ ~off.live
      /\ off.current = req.current /\ off.left = req.left /\ off.snap = req.snap
      /\ off \in RequestRecord
  BY DEF Good, RequestRecord
<1> HIDE DEF off
<1>2. Good(off) /\ Tidy(off)
  BY <1>1 DEF Good, Tidy, OpAt
<1> QED BY <1>1, <1>2 DEF off

(* What the requests and the snapshots are once an answer has arrived.     *)
LEMMA DeliverView ==
  ASSUME SessionOK, TabsInv, NEW r \in Slot, Deliver(r), NEW t \in Tabs, t = request[r].from
  PROVE  /\ GivenUp(r) /\ \A q \in Slot : Tidy(request'[q])
         /\ \A q \in Slot \ {r} : \/ request'[q] = request[q]
                                  \/ /\ request[q].from = t /\ GivenUp(q)
                                     /\ request[r].op = "refresh"
         /\ \A u \in Tabs : \/ snapshot'[u] = snapshot[u]
                            \/ /\ u = t /\ request[r].op = "refresh"
                               /\ snapshot'[u] = NoSnapshot /\ \A q \in Slot : ~Past(q, u)'
<1> DEFINE req == request[r]
           off == [req EXCEPT !.live = FALSE]
           hung == [request EXCEPT ![r].live = FALSE]
<1>1. Good(req) /\ Tidy(req) /\ req.live
  BY DEF SessionOK, SlotsOK, TabsInv, Deliver
<1>2. /\ off.at = req.at /\ off.reply = req.reply /\ off.pair = req.pair
      /\ off.op = req.op /\ off.from = req.from /\ ~off.live
      /\ off.current = req.current /\ off.left = req.left /\ off.snap = req.snap
      /\ Good(off) /\ Tidy(off)
  BY <1>1, HungView
<1>3. hung = [request EXCEPT ![r] = off] /\ hung[r] = off
  BY DEF SessionOK, SlotsOK
<1>4. IF req.op = "refresh" THEN Forget(req.from, hung) ELSE Put(r, hung[r]) /\ UNCHANGED snapshot
  BY DEF Deliver
<1> HIDE DEF off, hung
<1>5. CASE req.op = "refresh"
  <2>1. Forget(t, [request EXCEPT ![r] = off])
    BY <1>3, <1>4, <1>5
  <2>2. /\ GivenUp(r) /\ \A q \in Slot : Tidy(request'[q])
        /\ \A q \in Slot \ {r} : \/ request[q].from # t /\ request'[q] = request[q]
                                 \/ request[q].from = t /\ GivenUp(q)
        /\ snapshot'[t] = NoSnapshot /\ \A q \in Slot : ~Past(q, t)'
        /\ \A u \in Tabs \ {t} : snapshot'[u] = snapshot[u]
    BY <1>1, <1>2, <2>1, ForgetView
  <2> QED BY <1>5, <2>2
<1>6. CASE req.op # "refresh"
  <2>1. Put(r, off) /\ UNCHANGED snapshot
    BY <1>3, <1>4, <1>6
  <2>2. /\ \A q \in Slot \ {r} : request'[q] = request[q]
        /\ Tidy(request'[r])
        /\ request'[r] = off \/ (request'[r] = Idle /\ Gone(off))
    BY <1>2, <2>1, PutView DEF SessionOK
  <2>3. GivenUp(r)
    BY <1>1, <1>2, <1>6, <2>2, IdleTidy DEF GivenUp, Gone, Tidy
  <2> QED BY <2>1, <2>2, <2>3 DEF TabsInv
<1> QED BY <1>5, <1>6

(* The answer arrives, and with it the cookies.                            *)
LEMMA DeliverCookies ==
  ASSUME SessionOK, CookiesInv, NEW r \in Slot, Deliver(r)
  PROVE  CookiesInv'
<1> DEFINE req == request[r]
<1>1. /\ TabsInv /\ req.at = "replied" /\ req.live
      /\ Good(req) /\ Tidy(req) /\ req \in RequestRecord
      /\ UNCHANGED stored /\ jar' = CookiesAfter(req)
      /\ tab' = [tab EXCEPT ![req.from] = AfterReply(req.from, req.reply)]
      /\ raced' = (raced /\ ~(Alone(r) /\ \A s \in Store : stored[s] = CookiesAfter(req)))
  BY DEF CookiesInv, SessionOK, SlotsOK, TabsInv, Deliver
<1>2. PICK t \in Tabs : t = req.from
  BY <1>1 DEF TabsInv
<1>3. /\ GivenUp(r) /\ \A q \in Slot : Tidy(request'[q])
      /\ \A q \in Slot \ {r} : \/ request'[q] = request[q]
                               \/ request[q].from = t /\ GivenUp(q) /\ req.op = "refresh"
      /\ \A u \in Tabs : \/ snapshot'[u] = snapshot[u]
                         \/ /\ u = t /\ req.op = "refresh"
                            /\ snapshot'[u] = NoSnapshot /\ \A q \in Slot : ~Past(q, u)'
  BY <1>1, <1>2, DeliverView
<1>4. TabsInv'
  <2>1. \A q \in Slot : /\ Tidy(request'[q])
                        /\ request'[q].live => request[q].live /\ request'[q].from = request[q].from
    BY <1>3 DEF GivenUp
  <2>2. ~request'[r].live
    BY <1>3 DEF GivenUp
  <2> QED BY <1>1, <2>1, <2>2, AnsweredTabs
<1>5. req.op \notin {"me", "none"} /\ req.reply = "ok" => jar' = req.pair
  BY <1>1 DEF CookiesAfter, Tidy
<1>6. req.op = "me" \/ req.reply # "ok" => jar' = jar
  BY <1>1 DEF CookiesAfter
<1>7. req.op # "none"
  BY <1>1 DEF Good
<1>8. ASSUME ~raced PROVE ChangesInv'
  <2>1. ChangesInv
    BY <1>8 DEF CookiesInv
  <2>2. req.left = {} /\ (req.op = "refresh" => Past(r, t))
    BY <1>1, <1>2, <2>1 DEF ChangesInv, WritesInv, Tidy, Past, Keyed
  <2>3. ASSUME NEW q \in Slot \ {r}, request[q].from = t, req.op = "refresh"
        PROVE  /\ request[q].left = {}
               /\ Unsettled(q) => req.reply = "ok"
    <3>1. ~request[q].live
      BY <1>1, <1>2, <2>3 DEF TabsInv
    <3>2. Past(q, t) => request[q].at = "replied" /\ request[q].reply = req.reply
      BY <2>1, <2>2, <2>3 DEF ChangesInv, KeysInv
    <3>3. request[q].left = {}
      BY <2>1, <2>3, <3>1, <3>2 DEF ChangesInv, WritesInv, Past, Keyed
    <3>4. Unsettled(q) => Past(q, t)
      <4>1. request[q].at = "replied" <=> request[q].reply # "none"
        BY <1>1 DEF TabsInv, Tidy
      <4> QED BY <2>3, <3>1, <3>3, <4>1 DEF Unsettled, Past, Keyed
    <3>5. Unsettled(q) => request[q].reply = "ok"
      BY <3>3 DEF Unsettled
    <3> QED BY <3>2, <3>3, <3>4, <3>5
  <2>4. \A q \in Slot : Fades(q)
    <3>1. Fades(r)
      BY <1>3, <2>2, GivenUpFades
    <3>2. ASSUME NEW q \in Slot \ {r} PROVE Fades(q)
      <4>1. CASE request'[q] = request[q]
        BY <2>1, <4>1, SameFades DEF ChangesInv
      <4>2. CASE request[q].from = t /\ GivenUp(q) /\ req.op = "refresh"
        BY <2>3, <4>2, GivenUpFades
      <4> QED BY <1>3, <4>1, <4>2
    <3> QED BY <3>1, <3>2
  <2>5. /\ WritesInv' /\ AnswersInv' /\ KeysInv'
        /\ \A u \in Tabs : snapshot'[u] = snapshot[u] /\ LostChange(u) => LostChange(u)'
    BY <1>1, <1>3, <2>1, <2>4, FadeStep
  <2>6. Told'
    <3>1. CASE req.op # "me" /\ req.reply = "ok"
      <4>1. Unsettled(r)
        BY <1>1, <3>1 DEF Unsettled
      <4>2. Holds(req.pair) /\ jar' = req.pair
        BY <1>5, <1>7, <2>1, <2>2, <3>1, <4>1 DEF ChangesInv, AnswersInv
      <4>3. \A s \in Store : stored'[s] = jar'
        BY <1>1, <4>2 DEF Holds
      <4> QED BY <4>3 DEF Told, Holds
    <3>2. CASE req.op = "me" \/ req.reply # "ok"
      <4>1. jar' = jar /\ ~Unsettled(r)
        BY <1>6, <2>2, <3>2 DEF Unsettled
      <4>2. ASSUME NEW q \in Slot, Unsettled(q) PROVE Unsettled(q)'
        <5>1. q # r /\ request'[q] = request[q]
          BY <1>1, <1>3, <2>3, <3>2, <4>1, <4>2
        <5> QED BY <4>2, <5>1 DEF Unsettled
      <4>3. \A u \in Tabs : snapshot[u].status = "ok" \/ LostChange(u) => snapshot'[u] = snapshot[u]
        <5>1. req.op = "refresh" => snapshot[t].status # "ok" /\ ~LostChange(t)
          BY <2>1, <2>2, <3>2 DEF ChangesInv, KeysInv, LostChange
        <5> QED BY <1>3, <5>1
      <4> QED BY <1>1, <2>1, <2>5, <4>1, <4>2, <4>3 DEF ChangesInv, Told, Holds
    <3> QED BY <3>1, <3>2
  <2> QED BY <2>5, <2>6 DEF ChangesInv
<1>9. ASSUME raced, ~raced' PROVE ChangesInv'
  <2>1. Alone(r) /\ \A s \in Store : stored[s] = jar'
    BY <1>1, <1>9
  <2>2. \A q \in Slot : request'[q].left = {} /\ ~request'[q].current /\ ~Unsettled(q)'
    <3>1. request'[r].left = {} /\ ~request'[r].live /\ ~request'[r].current
      BY <1>3, <2>1 DEF Alone, GivenUp
    <3>2. ASSUME NEW q \in Slot \ {r}
          PROVE  request'[q].left = {} /\ ~request'[q].current /\ ~Unsettled(q)'
      <4>1. /\ request[q].op \in {"none", "me"} /\ request[q].left = {}
            /\ ~request[q].current /\ (request[q].op = "none" => ~request[q].live)
        BY <1>1, <2>1 DEF Alone, TabsInv, Tidy, OpAt, SessionOK, SlotsOK, Good
      <4>2. CASE request'[q] = request[q]
        BY <4>1, <4>2 DEF Unsettled
      <4>3. CASE GivenUp(q)
        BY <4>1, <4>3 DEF GivenUp, Unsettled
      <4> QED BY <1>3, <4>2, <4>3
    <3> QED BY <3>1, <3>2 DEF Unsettled
  <2>3. \A u \in Tabs : snapshot'[u].status # "ok"
    BY <1>3, <2>1 DEF Alone, Pending, NoSnapshot
  <2>4. WritesInv' /\ AnswersInv'
    BY <2>2, <2>3 DEF WritesInv, AnswersInv
  <2>5. KeysInv'
    BY <2>2 DEF KeysInv, Past, Keyed
  <2>6. Told'
    <3>1. \A s \in Store : stored'[s] = jar'
      BY <1>1, <2>1
    <3> QED BY <3>1 DEF Told, Holds
  <2> QED BY <2>4, <2>5, <2>6 DEF ChangesInv
<1> QED BY <1>4, <1>8, <1>9 DEF CookiesInv

(* The connection is lost.                                                 *)
LEMMA DropCookies ==
  ASSUME SessionOK, CookiesInv, NEW r \in Slot, NEW unseen \in BOOLEAN, Drop(r, unseen)
  PROVE  CookiesInv'
<1> DEFINE req == request[r]
           off == [req EXCEPT !.live = FALSE]
           h   == IF unseen THEN Idle ELSE Settled(off)
<1>1. /\ TabsInv /\ req.live /\ Good(req) /\ Tidy(req) /\ req \in RequestRecord
      /\ UNCHANGED <<stored, jar>>
      /\ tab' = [tab EXCEPT ![req.from] = AfterReply(req.from, "rejected")]
      /\ unseen => req.at = FirstStep[req.op]
  BY DEF CookiesInv, SessionOK, SlotsOK, TabsInv, Drop
<1>2. PICK t \in Tabs : t = req.from
  BY <1>1 DEF TabsInv
<1>3. /\ off.at = req.at /\ off.reply = req.reply /\ off.pair = req.pair
      /\ off.op = req.op /\ off.from = req.from /\ ~off.live
      /\ off.current = req.current /\ off.left = req.left /\ off.snap = req.snap
      /\ Good(off) /\ Tidy(off)
  BY <1>1, HungView
<1>4. IF tab[t] = "repeat" THEN Forget(t, [request EXCEPT ![r] = h])
      ELSE request' = [request EXCEPT ![r] = h] /\ UNCHANGED snapshot
  BY <1>2 DEF Drop
<1>5. ~raced' =>
        /\ ~raced
        /\ req.op \in {"authenticate", "logout"} => ~Unsettled(r)
        /\ tab[t] = "repeat" =>
             /\ snapshot[t].status \notin {"ok", "lost"}
             /\ \A q \in Slot : request[q].from = t => ~Unsettled(q)
  BY <1>2 DEF Drop
<1> HIDE DEF off
<1>6. unseen => req.left = {} /\ ~Unsettled(r)
  <2>1. req.op \in DOMAIN FirstStep
    BY <1>1 DEF Tidy, OpAt, Good, RequestRecord
  <2>2. unseen => req.at \notin {"write", "replied"}
    BY <1>1, <2>1 DEF FirstStep
  <2> QED BY <1>1, <2>2, NotBegun
<1>7. h = off \/ (h = Idle /\ (unseen \/ Gone(off)))
  BY DEF Settled, Gone
<1>8. Good(h) /\ Tidy(h) /\ ~h.live /\ h.left = req.left /\ (h.from = t \/ ~h.current)
  BY <1>2, <1>3, <1>6, <1>7, IdleGood, IdleTidy DEF Gone
<1> HIDE DEF h
<1>9. CASE tab[t] = "repeat"
  <2>1. /\ GivenUp(r) /\ \A q \in Slot : Tidy(request'[q])
        /\ \A q \in Slot \ {r} : \/ request[q].from # t /\ request'[q] = request[q]
                                 \/ request[q].from = t /\ GivenUp(q)
        /\ snapshot'[t] = NoSnapshot /\ \A q \in Slot : ~Past(q, t)'
        /\ \A u \in Tabs \ {t} : snapshot'[u] = snapshot[u]
    BY <1>1, <1>2, <1>4, <1>8, <1>9, ForgetView
  <2>2. TabsInv'
    <3>1. \A q \in Slot : /\ Tidy(request'[q])
                          /\ request'[q].live => request[q].live /\ request'[q].from = request[q].from
      BY <2>1 DEF GivenUp
    <3>2. ~request'[r].live
      BY <2>1 DEF GivenUp
    <3> QED BY <1>1, <3>1, <3>2, AnsweredTabs
  <2>3. ASSUME ~raced' PROVE ChangesInv'
    <3>1. ChangesInv
      BY <1>5, <2>3 DEF CookiesInv
    <3>2. \A q \in Slot : request[q].from = t => ~Unsettled(q) /\ request[q].left = {}
      BY <1>5, <1>9, <2>3 DEF Unsettled
    <3>3. ASSUME NEW q \in Slot PROVE Fades(q) /\ (Unsettled(q) => Unsettled(q)')
      <4>1. CASE request[q].from # t
        BY <1>2, <2>1, <3>1, <4>1, SameFades DEF ChangesInv
      <4>2. CASE request[q].from = t
        BY <1>2, <2>1, <3>2, <4>2, GivenUpFades
      <4> QED BY <4>1, <4>2
    <3>4. /\ WritesInv' /\ AnswersInv' /\ KeysInv'
          /\ \A u \in Tabs : snapshot'[u] = snapshot[u] /\ LostChange(u) => LostChange(u)'
      BY <1>1, <2>1, <3>1, <3>3, FadeStep
    <3>5. snapshot[t].status # "ok" /\ ~LostChange(t)
      BY <1>5, <1>9, <2>3 DEF LostChange
    <3>6. Told'
      BY <1>1, <2>1, <3>1, <3>3, <3>4, <3>5 DEF ChangesInv, Told, Holds
    <3> QED BY <3>4, <3>6 DEF ChangesInv
  <2> QED BY <2>2, <2>3 DEF CookiesInv
<1>10. CASE tab[t] # "repeat"
  <2>1. /\ request'[r] = h /\ \A q \in Slot \ {r} : request'[q] = request[q]
        /\ UNCHANGED snapshot
    BY <1>4, <1>10 DEF SessionOK, SlotsOK
  <2>2. TabsInv'
    <3>1. \A q \in Slot : /\ Tidy(request'[q])
                          /\ request'[q].live => request[q].live /\ request'[q].from = request[q].from
      BY <1>1, <1>8, <2>1 DEF TabsInv
    <3> QED BY <1>1, <1>8, <2>1, <3>1, AnsweredTabs
  <2>3. ASSUME ~raced' PROVE ChangesInv'
    <3>1. ChangesInv
      BY <1>5, <2>3 DEF CookiesInv
    <3>2. Unsettled(r) => req.op = "refresh" /\ req.current
      <4>1. Unsettled(r) => req.op = "refresh"
        BY <1>1, <1>5, <2>3 DEF Unsettled, Tidy, OpAt, Good, RequestRecord, FirstStep
      <4> QED BY <1>1, <4>1 DEF Tidy
    <3>3. Fades(r)
      <4>1. CASE h = off
        <5>1. request[r].left # {} =>
                request'[r].at = request[r].at /\ request'[r].pair = request[r].pair
                /\ (request'[r].live \/ request'[r].current)
          BY <1>3, <2>1, <3>2, <4>1 DEF Unsettled
        <5>2. Unsettled(r)' => Unsettled(r) /\ request'[r].pair = request[r].pair
          BY <1>3, <2>1, <4>1 DEF Unsettled
        <5>3. \A u \in Tabs : Past(r, u)' =>
                /\ Past(r, u)
                /\ request'[r].at = request[r].at /\ request'[r].reply = request[r].reply
                /\ request'[r].pair = request[r].pair /\ request'[r].snap = request[r].snap
          BY <1>3, <2>1, <4>1 DEF Past, Keyed
        <5> QED BY <1>8, <2>1, <5>1, <5>2, <5>3 DEF Fades
      <4>2. CASE h = Idle
        <5>1. GivenUp(r) /\ request[r].left = {}
          BY <1>8, <2>1, <4>2, IdleTidy DEF GivenUp
        <5> QED BY <5>1, GivenUpFades
      <4> QED BY <1>7, <4>1, <4>2
    <3>4. \A q \in Slot \ {r} : Fades(q) /\ (Unsettled(q) => Unsettled(q)')
      BY <2>1, <3>1, SameFades DEF ChangesInv
    <3>5. /\ WritesInv' /\ AnswersInv' /\ KeysInv'
          /\ \A u \in Tabs : snapshot'[u] = snapshot[u] /\ LostChange(u) => LostChange(u)'
      BY <1>1, <2>1, <3>1, <3>3, <3>4, FadeStep
    <3>6. ASSUME Unsettled(r)
          PROVE  Unsettled(r)' \/ snapshot'[t].status = "ok" \/ LostChange(t)'
      <4>1. CASE h = off
        BY <1>3, <2>1, <3>2, <3>6, <4>1 DEF Unsettled
      <4>2. CASE h # off
        <5>1. Gone(off)
          BY <1>6, <1>7, <3>6, <4>2
        <5>2. req.at = "replied" /\ ~req.snap /\ req.left = {} /\ req.reply = "ok"
          BY <1>3, <3>6, <5>1 DEF Gone, Unsettled
        <5>3. Past(r, t)
          BY <1>2, <3>2, <3>6, <5>2 DEF Past, Keyed
        <5>4. snapshot[t].status \in {"ok", "lost"}
          BY <3>1, <5>2, <5>3 DEF ChangesInv, KeysInv, SessionOK, TypeOK
        <5>5. \A q \in Slot : Past(q, t) => request[q].reply = "ok"
          BY <3>1, <5>2, <5>3 DEF ChangesInv, KeysInv
        <5>6. LostChange(t) => LostChange(t)'
          BY <2>1, <3>5
        <5> QED BY <2>1, <5>4, <5>5, <5>6 DEF LostChange
      <4> QED BY <1>7, <4>1, <4>2
    <3>7. Told'
      BY <1>1, <2>1, <3>1, <3>4, <3>5, <3>6 DEF ChangesInv, Told, Holds
    <3> QED BY <3>5, <3>7 DEF ChangesInv
  <2> QED BY <2>2, <2>3 DEF CookiesInv
<1> QED BY <1>9, <1>10

-----------------------------------------------------------------------------

LEMMA InitCookies == Init => CookiesInv
<1> SUFFICES ASSUME Init PROVE CookiesInv OBVIOUS
<1>1. /\ \A r \in Slot : request[r] = Idle
      /\ \A t \in Tabs : snapshot[t].status = "none"
      /\ \A s \in Store : stored[s] = jar
  BY DEF Init, NoSnapshot
<1>2. TabsInv
  BY <1>1, IdleTidy DEF TabsInv
<1>3. \A r \in Slot : request[r].left = {} /\ ~Unsettled(r) /\ ~request[r].current
  BY <1>1, IdleTidy DEF Unsettled
<1>4. WritesInv /\ AnswersInv /\ KeysInv /\ Told
  BY <1>1, <1>3 DEF WritesInv, AnswersInv, KeysInv, Past, Keyed, Told, Holds
<1> QED BY <1>2, <1>4 DEF CookiesInv, ChangesInv

LEMMA NextCookies ==
  ASSUME SessionOK, CookiesInv, [Next]_vars
  PROVE  CookiesInv'
<1>1. ASSUME NEW t \in Tabs, Client(t) PROVE CookiesInv'
  BY <1>1, ClientCookies
<1>2. ASSUME NEW r \in Slot, NEW status \in {"ok", "401", "failed"},
             request[r].at \in {"check", "credentials", "matches", "verify"},
             status # "ok" \/ request[r].at = "check",
             Put(r, Answered(request[r], status)),
             UNCHANGED <<stored, jar, tab, snapshot, raced>>
      PROVE  CookiesInv'
  <2>1. request[r].at = "check" => request[r].op = "me"
    BY DEF CookiesInv, TabsInv, Tidy, OpAt
  <2> QED BY <1>2, <2>1, RefusedCookies
<1>3. ASSUME NEW r \in Slot, Check(r) PROVE CookiesInv'
  BY <1>2, <1>3 DEF Check, history
<1>4. ASSUME NEW r \in Slot, ReadFails(r) PROVE CookiesInv'
  BY <1>2, <1>4 DEF ReadFails, history
<1>5. ASSUME NEW r \in Slot, NEW valid \in BOOLEAN,
             Credentials(r, valid) \/ Matches(r) \/ VerifyLogout(r)
      PROVE  CookiesInv'
  <2>1. clock \in 0 .. MaxTime /\ NoPair \in 0 .. MaxTime
    BY TimeAssumption DEF SessionOK, TypeOK, NoPair
  <2>2. CASE Credentials(r, valid)
    BY <1>2, <2>1, <2>2, BeginCookies DEF Credentials, history
  <2>3. CASE Matches(r)
    BY <1>2, <2>1, <2>3, BeginCookies DEF Matches, history
  <2>4. CASE VerifyLogout(r)
    BY <1>2, <2>1, <2>4, BeginCookies DEF VerifyLogout, history
  <2> QED BY <1>5, <2>2, <2>3, <2>4
<1>6. ASSUME NEW r \in Slot, Serve(r) PROVE CookiesInv'
  BY <1>3, <1>5, <1>6, ReadCachedCookies, StoreCachedCookies, WriteCookies DEF Serve
<1>7. ASSUME NEW r \in Slot, Deliver(r) PROVE CookiesInv'
  BY <1>7, DeliverCookies
<1>8. CASE Failure
  BY <1>4, <1>8, DropCookies, StoreCachedCookies, OtherCookies, WriteCookies DEF Failure
<1>9. CASE Tick \/ UNCHANGED vars
  BY <1>9, OtherCookies
<1> QED BY <1>1, <1>6, <1>7, <1>8, <1>9 DEF Next

LEMMA CookiesAlways == Spec => []CookiesInv
<1>1. CookiesInv /\ (SessionOK /\ LogoutInv) /\ [Next]_vars => CookiesInv'
  BY NextCookies
<1> QED BY <1>1, InitCookies, SessionAlways, PTL DEF Spec

(* AuthenticateHandler, RefreshTokenHandler and LogoutHandler, the         *)
(* IdempotencyMiddleware and refreshSession together: whenever nothing is  *)
(* under way and nothing excuses it, the browser holds exactly the pair    *)
(* both stores accept, for any number of tabs and of requests at once.     *)
THEOREM CookiesAreTheStores == Spec => []CookiesMatchStores
<1>1. CookiesInv => CookiesMatchStores
  BY DEF CookiesInv, ChangesInv, Told, Holds, CookiesMatchStores, Pending, LostChange
<1> QED BY <1>1, CookiesAlways, PTL
=============================================================================

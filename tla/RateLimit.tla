----------------------------- MODULE RateLimit -----------------------------
(***************************************************************************)
(* RateLimitMiddleware for one client address and one path: a counter in   *)
(* Valkey that the first request of a window creates with INCR and then    *)
(* gives its time to live with a separate EXPIRE.                          *)
(***************************************************************************)
EXTENDS Naturals, FiniteSets

CONSTANTS Hits,      \* bound: requests the API serves at once
          MaxCalls,  \* options.max
          MaxCount   \* bound: requests counted in one window

ASSUME RateLimitAssumption == IsFiniteSet(Hits) /\ MaxCalls \in Nat /\ MaxCount \in Nat

VARIABLES counter,   \* the key; 0 when there is none
          expires,   \* it has a time to live
          hit,       \* where each request is, the count it got, and if in this window
          admitted,  \* history: requests of this window let through
          forgotten  \* history: the EXPIRE of this window did not happen

rateVars == <<counter, expires, hit, admitted, forgotten>>

NoHit == [at |-> "idle", count |-> 0, current |-> FALSE]

RateInit ==
    /\ counter = 0
    /\ expires = FALSE
    /\ hit = [h \in Hits |-> NoHit]
    /\ admitted = 0
    /\ forgotten = FALSE

(* Mutant: the key is expected to have a time to live already.             *)
IncrementOnly(h) ==
    /\ hit[h].at = "idle"
    /\ counter < MaxCount
    /\ counter' = counter + 1
    /\ hit' = [hit EXCEPT ![h] = [at |-> "compare", count |-> counter + 1, current |-> TRUE]]
    /\ UNCHANGED <<expires, admitted, forgotten>>

(* ValkeyCacheRepository.increment: INCR, and EXPIRE after a count of one. *)
Increment(h) ==
    /\ hit[h].at = "idle"
    /\ counter < MaxCount
    /\ counter' = counter + 1
    /\ hit' = [hit EXCEPT ![h] = [at |-> IF counter = 0 THEN "expire" ELSE "compare",
                                  count |-> counter + 1, current |-> TRUE]]
    /\ UNCHANGED <<expires, admitted, forgotten>>

SetExpiry(h) ==
    /\ hit[h].at = "expire"
    /\ expires' = TRUE
    /\ hit' = [hit EXCEPT ![h].at = "compare"]
    /\ UNCHANGED <<counter, admitted, forgotten>>

(* Mutant: one more than the maximum.                                      *)
CompareOffByOne(h) ==
    /\ hit[h].at = "compare"
    /\ IF hit[h].count > MaxCalls + 1
       THEN hit' = [hit EXCEPT ![h].at = "ttl"] /\ UNCHANGED admitted
       ELSE /\ hit' = [hit EXCEPT ![h] = NoHit]
            /\ admitted' = IF hit[h].current THEN admitted + 1 ELSE admitted
    /\ UNCHANGED <<counter, expires, forgotten>>

(* Over the maximum the remaining time is read for the 429; else next().   *)
Compare(h) ==
    /\ hit[h].at = "compare"
    /\ IF hit[h].count > MaxCalls
       THEN hit' = [hit EXCEPT ![h].at = "ttl"] /\ UNCHANGED admitted
       ELSE /\ hit' = [hit EXCEPT ![h] = NoHit]
            /\ admitted' = IF hit[h].current THEN admitted + 1 ELSE admitted
    /\ UNCHANGED <<counter, expires, forgotten>>

TooMany(h) ==
    /\ hit[h].at = "ttl"
    /\ hit' = [hit EXCEPT ![h] = NoHit]
    /\ UNCHANGED <<counter, expires, admitted, forgotten>>

(* A Valkey call is rejected or the process stops.                         *)
HitFails(h) ==
    /\ hit[h].at # "idle"
    /\ hit' = [hit EXCEPT ![h] = NoHit]
    /\ forgotten' = (forgotten \/ hit[h].at = "expire")
    /\ UNCHANGED <<counter, expires, admitted>>

WindowEnds ==
    /\ expires
    /\ counter' = 0
    /\ expires' = FALSE
    /\ hit' = [h \in Hits |-> [hit[h] EXCEPT !.current = FALSE]]
    /\ admitted' = 0
    /\ forgotten' = FALSE

RateNext ==
    \/ \E h \in Hits : \/ Increment(h) \/ SetExpiry(h) \/ Compare(h) \/ TooMany(h)
                       \/ HitFails(h)
    \/ WindowEnds

(* A request goes on as long as nothing fails, and a window ends.          *)
RateFairness ==
    /\ \A h \in Hits : WF_rateVars(SetExpiry(h))
    /\ WF_rateVars(WindowEnds)

HitRecord ==
    [at : {"idle", "expire", "compare", "ttl"}, count : 0 .. MaxCount, current : BOOLEAN]

RateTypeOK ==
    /\ counter \in 0 .. MaxCount
    /\ expires \in BOOLEAN
    /\ hit \in [Hits -> HitRecord]
    /\ admitted \in Nat
    /\ forgotten \in BOOLEAN

(* A window lets no more than the maximum through, however requests and    *)
(* the end of the window interleave, and a counter that will not expire    *)
(* has its EXPIRE on the way or lost it to a failure                       *)
(* (ValkeyCacheRepository.increment): only then is an address shut out for *)
(* good.                                                                   *)
LimitHonoured ==
    /\ admitted <= MaxCalls
    /\ counter > 0 /\ ~expires => forgotten \/ \E h \in Hits : hit[h].at = "expire"

(* An address that is shut out is let in again, unless the process failed  *)
(* between the INCR and the EXPIRE of the window's first request.          *)
LimitLifts == counter > MaxCalls ~> counter = 0 \/ forgotten
=============================================================================

----------------------------- MODULE RateLimit -----------------------------
(* The per-key token bucket of middleware/ratelimit.go.  A request reads the *)
(* clock before it takes the mutex, so buckets see times out of order by as  *)
(* much as a request waits for the lock.                                     *)
EXTENDS Integers, Sequences

CONSTANTS
    Callers,        \* api keys
    Watched,        \* the one whose admissions are recorded
    Arrivals,       \* requests that can wait for the mutex at once
    RPS, Burst,     \* effectiveParams
    IdleEviction,   \* bucketIdleEviction, in clock units
    LockLag,        \* how long a request can wait for the mutex
    MaxSeconds, MaxAdmitted

ASSUME RateAssumption ==
    /\ Watched \in Callers
    /\ RPS \in Nat \ {0} /\ Burst \in Nat \ {0} /\ LockLag \in Nat
    /\ IdleEviction \in Nat /\ Burst <= RPS * (IdleEviction - 2 * LockLag)

VARIABLES
    buckets,     \* caller -> its bucket; NoBucket.tokens = -1 marks none
    waiting,     \* arrival -> the caller and the time its request read
    seconds,
    admitted     \* the times at which Watched was admitted (history)

rateVars == <<buckets, waiting, seconds, admitted>>

NoBucket == [tokens |-> -1, last |-> 0, lastSeen |-> 0]
NotWaiting(c) == [on |-> FALSE, caller |-> c, now |-> 0]

RateInit ==
    /\ buckets = [c \in Callers |-> NoBucket]
    /\ waiting = [a \in Arrivals |-> NotWaiting(Watched)]
    /\ seconds = 0
    /\ admitted = <<>>

\* The middleware hands the request of an authenticated key to allow, which
\* reads the clock; a request without a key is passed on untouched.
Arrive(a, c) ==
    /\ ~waiting[a].on /\ Len(admitted) < MaxAdmitted
    /\ waiting' = [waiting EXCEPT ![a] = [on |-> TRUE, caller |-> c, now |-> seconds]]
    /\ UNCHANGED <<buckets, seconds, admitted>>

\* Eviction: every other key's bucket that was idle too long.
EvictOthers(c, now) ==
    [d \in Callers |-> IF d # c THEN NoBucket ELSE buckets[d]]
Evict(c, now) ==
    [d \in Callers |-> IF d # c /\ now - buckets[d].lastSeen > IdleEviction THEN NoBucket
                       ELSE buckets[d]]

Least(x, y) == IF x < y THEN x ELSE y

\* A new bucket is full; an old one is refilled for the time that passed.
Refilled(b, now) ==
    IF b.tokens < 0 THEN [tokens |-> Burst, last |-> now, lastSeen |-> now]
    ELSE IF now > b.last
         THEN [tokens |-> Least(b.tokens + RPS * (now - b.last), Burst), last |-> now, lastSeen |-> now]
         ELSE [b EXCEPT !.lastSeen = now]

\* Under the mutex: evict, refill, and take a token if there is one.
Allow(a) ==
    LET c == waiting[a].caller
        kept == Evict(c, waiting[a].now)
        b == Refilled(kept[c], waiting[a].now)
    IN /\ waiting[a].on
       /\ buckets' = [kept EXCEPT ![c] = IF b.tokens >= 1 THEN [b EXCEPT !.tokens = @ - 1] ELSE b]
       /\ admitted' = IF c = Watched /\ b.tokens >= 1 THEN Append(admitted, seconds) ELSE admitted
       /\ waiting' = [waiting EXCEPT ![a] = NotWaiting(Watched)]
       /\ UNCHANGED seconds

RateTick ==
    /\ seconds < MaxSeconds
    /\ \A a \in Arrivals: waiting[a].on => seconds - waiting[a].now < LockLag
    /\ seconds' = seconds + 1
    /\ UNCHANGED <<buckets, waiting, admitted>>

RateNext ==
    \/ \E a \in Arrivals: Allow(a) \/ \E c \in Callers: Arrive(a, c)
    \/ RateTick

\* The limiter by itself, as the proofs take it.
RateSpec == RateInit /\ [][RateNext]_rateVars
----------------------------------------------------------------------------
(* Over any span a key gets at most its burst and what the rate refills,    *)
(* give or take the wait for the mutex: neither an eviction caused by       *)
(* another key, nor a clock read out of order, hands out tokens twice.      *)
RateBounded ==
    \A i, j \in DOMAIN admitted:
        i <= j => j - i + 1 <= Burst + RPS * (admitted[j] - admitted[i] + LockLag)
============================================================================

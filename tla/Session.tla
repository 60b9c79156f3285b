------------------------------- MODULE Session -------------------------------
(* The authenticated exchange: internal/core/jwt/jwt.go (the token cache)  *)
(* under internal/core/upstream/client.go's doWithRetry, and the three     *)
(* steps of UploadImage.  By which address a request leaves is left out.   *)
(*                                                                         *)
(* A call takes the account's cache entry lock to get a token and keeps it *)
(* while it mints; sends; on a 401 drops whatever token the entry holds by *)
(* then, gets one again and sends a second and last time.  A request and   *)
(* its reply are separate steps, Clerk's too: a token ages on its way, and *)
(* a caller that gave up does not stop upstream from performing what it    *)
(* received.                                                               *)
EXTENDS UpstreamReplies, Integers, TLC

CONSTANTS
    Calls, Accounts,
    Op,              \* what each call does: "create" or "upload"
    AccountOf,       \* the account each call is for
    Timed,           \* the endpoints with a configured deadline
    SlackSeconds, Lifetime,
    Drift,           \* how far this host's clock is ahead of upstream's
    MaxTime, MaxUpsets, MaxMints,   \* bounds: clock, revocations and flushes, tokens
    Nobody, NoToken

Serials == 0..MaxMints
\* got: when Get handed it out, by upstream's clock; took: how long its mint took by then
\* (history)
Tokens == [serial: Serials, exp: Nat, got: Nat, took: Nat]

ASSUME SessionConstants ==
    /\ SlackSeconds \in Nat /\ Lifetime \in Nat /\ Drift \in Int
    /\ MaxTime \in Nat /\ MaxUpsets \in Nat /\ MaxMints \in Nat
    /\ Op \in [Calls -> {"create", "upload"}]
    /\ AccountOf \in [Calls -> Accounts]
    /\ Timed \subseteq Endpoints
    /\ IsFiniteSet(Calls) /\ Nobody \notin Calls /\ NoToken \notin Tokens

Phases == {"create_job", "media_reserve", "media_commit"}
Exchanges == Calls \X Phases
\* No request on the wire, and a request without a reply yet.
NoReply == [status |-> 0, body |-> "empty"]
Sent == [status |-> 1, body |-> "empty"]

VARIABLES
    now,
    session,     \* account -> its Clerk session is alive (external)
    revokedTo,   \* account -> tokens with this serial or less are refused (external)
    revocations, flushes,
    cache,       \* account -> the cached token or NoToken
    lock,        \* account -> the call that holds the entry lock, or Nobody
    pc, phase, attempt, token,    \* per call
    issued,      \* call -> the token Clerk issued to it that is on its way, or NoToken (external)
    reply,       \* call -> upstream's reply on its way, or NoReply or Sent
    performed,   \* exchange -> how often upstream performed it (external)
    answer,      \* exchange -> what the caller was told, or "none"
    first,       \* call -> serial refused at the first attempt, 0 before
    minted,      \* account -> serial of the last token Clerk issued (external)
    lapsed, wasted, refused, dropped   \* per account, history

avail == <<session, revokedTo, revocations>>
mints == <<issued, minted, wasted>>
hist == <<lapsed, refused, dropped>>
vars == <<now, session, revokedTo, revocations, flushes, cache, lock, pc, phase, attempt,
          token, issued, reply, performed, answer, first,
          minted, lapsed, wasted, refused, dropped>>

FirstPhase(c) == IF Op[c] = "create" THEN "create_job" ELSE "media_reserve"

Init ==
    /\ now = 0
    /\ session = [a \in Accounts |-> TRUE]
    /\ revokedTo = [a \in Accounts |-> 0]
    /\ revocations = 0
    /\ flushes = 0
    /\ cache = [a \in Accounts |-> NoToken]
    /\ lock = [a \in Accounts |-> Nobody]
    /\ pc = [c \in Calls |-> "idle"]
    /\ phase = [c \in Calls |-> FirstPhase(c)]
    /\ attempt = [c \in Calls |-> 1]
    /\ token = [c \in Calls |-> NoToken]
    /\ issued = [c \in Calls |-> NoToken]
    /\ reply = [c \in Calls |-> NoReply]
    /\ performed = [x \in Exchanges |-> 0]
    /\ answer = [x \in Exchanges |-> "none"]
    /\ first = [c \in Calls |-> 0]
    /\ minted = [a \in Accounts |-> 0]
    /\ lapsed = [a \in Accounts |-> 0]
    /\ wasted = [a \in Accounts |-> 0]
    /\ refused = [a \in Accounts |-> 0]
    /\ dropped = [a \in Accounts |-> 0]

----------------------------------------------------------------------------
(* doWithRetry up to the token *)

Begin(c) ==
    /\ pc[c] = "idle"
    /\ pc' = [pc EXCEPT ![c] = "get"]
    /\ UNCHANGED <<now, avail, flushes, cache, lock, phase, attempt, token, reply,
                   performed, answer, first, mints, hist>>

Fresh(tok) == tok # NoToken /\ tok.exp > now + Drift + SlackSeconds

\* Get with a usable token in the entry.
GetHit(c) == LET a == AccountOf[c] IN
    /\ pc[c] = "get"
    /\ lock[a] = Nobody
    /\ Fresh(cache[a])
    /\ token' = [token EXCEPT ![c] = [cache[a] EXCEPT !.got = now, !.took = 0]]
    /\ pc' = [pc EXCEPT ![c] = "send"]
    /\ UNCHANGED <<now, avail, flushes, cache, lock, phase, attempt, reply,
                   performed, answer, first, mints, hist>>

\* Mutant: the mint happens outside the entry lock.
GetMissUnlocked(c) == LET a == AccountOf[c] IN
    /\ pc[c] = "get"
    /\ ~Fresh(cache[a])
    /\ pc' = [pc EXCEPT ![c] = "mint"]
    /\ UNCHANGED <<now, avail, flushes, cache, lock, phase, attempt, token,
                   reply, performed, answer, first, mints, hist>>

\* Get without one: the lock stays held while the token is minted.
GetMiss(c) == LET a == AccountOf[c] IN
    /\ pc[c] = "get"
    /\ lock[a] = Nobody
    /\ ~Fresh(cache[a])
    /\ lock' = [lock EXCEPT ![a] = c]
    /\ pc' = [pc EXCEPT ![c] = "mint"]
    /\ UNCHANGED <<now, avail, flushes, cache, phase, attempt, token, reply,
                   performed, answer, first, mints, hist>>

\* Clerk issues a token to a live session. (external)
Issue(c) == LET a == AccountOf[c] IN
    /\ pc[c] = "mint"
    /\ issued[c] = NoToken
    /\ session[a]
    /\ minted[a] < MaxMints
    /\ issued' = [issued EXCEPT ![c] = [serial |-> minted[a] + 1, exp |-> now + Lifetime,
                                        got |-> now, took |-> 0]]
    /\ minted' = [minted EXCEPT ![a] = @ + 1]
    /\ UNCHANGED <<now, avail, flushes, cache, lock, pc, phase, attempt, token, reply,
                   performed, answer, first, wasted, hist>>

\* The token arrives and is cached and used, however long that took.
MintOk(c) == LET a == AccountOf[c]
                 tok == [issued[c] EXCEPT !.got = now, !.took = now - issued[c].got] IN
    /\ pc[c] = "mint"
    /\ issued[c] # NoToken
    /\ cache' = [cache EXCEPT ![a] = tok]
    /\ token' = [token EXCEPT ![c] = tok]
    /\ issued' = [issued EXCEPT ![c] = NoToken]
    /\ lock' = [lock EXCEPT ![a] = Nobody]
    /\ pc' = [pc EXCEPT ![c] = "send"]
    /\ lapsed' = [lapsed EXCEPT ![a] = IF cache[a] = NoToken \/ Fresh(cache[a]) THEN @ ELSE @ + 1]
    /\ UNCHANGED <<now, avail, flushes, phase, attempt, reply, performed, answer, first,
                   minted, wasted, refused, dropped>>

Done(c, r) ==
    /\ answer' = [answer EXCEPT ![<<c, phase[c]>>] = r]
    /\ pc' = [pc EXCEPT ![c] = "done"]

\* Mutant: the error return keeps the entry lock.
MintFailsKeepsLock(c) ==
    /\ pc[c] = "mint"
    /\ Done(c, "error")
    /\ UNCHANGED <<now, avail, flushes, cache, lock, phase, attempt, token,
                   reply, performed, first, mints, hist>>

\* mint fails on the wire, on any status of 400 and above or on an answer it
\* cannot read; the entry keeps the token it had.
MintFails(c) == LET a == AccountOf[c] IN
    /\ pc[c] = "mint"
    /\ lock' = [lock EXCEPT ![a] = Nobody]
    /\ \E r \in IF session[a] \/ issued[c] # NoToken THEN {"error"} ELSE {"error", "unauthorized"}:
          Done(c, r)
    /\ issued' = [issued EXCEPT ![c] = NoToken]
    /\ wasted' = [wasted EXCEPT ![a] = IF issued[c] = NoToken THEN @ ELSE @ + 1]
    /\ UNCHANGED <<now, avail, flushes, cache, phase, attempt, token, reply,
                   performed, first, minted, hist>>

----------------------------------------------------------------------------
(* The exchange *)

Send(c) ==
    /\ pc[c] = "send"
    /\ reply' = [reply EXCEPT ![c] = Sent]
    /\ pc' = [pc EXCEPT ![c] = "wait"]
    /\ UNCHANGED <<now, avail, flushes, cache, lock, phase, attempt, token, performed, answer,
                   first, mints, hist>>

\* Upstream takes a request: a token it does not accept is refused before
\* anything happens (401 stands for every typed refusal); 200 means performed,
\* 500 may.  (external)
Accepts(c) == token[c].exp > now /\ token[c].serial > revokedTo[AccountOf[c]]
Process(c) == LET x == <<c, phase[c]>> IN
    /\ reply[c] = Sent
    /\ \/ /\ ~Accepts(c)
          /\ reply' = [reply EXCEPT ![c] = [status |-> 401, body |-> "full"]]
          /\ UNCHANGED performed
       \/ /\ Accepts(c)
          /\ \E st \in {200, 500}:
                /\ reply' = [reply EXCEPT ![c] = [status |-> st, body |-> "full"]]
                /\ \/ performed' = [performed EXCEPT ![x] = @ + 1]
                   \/ st = 500 /\ UNCHANGED performed
    /\ UNCHANGED <<now, avail, flushes, cache, lock, pc, phase, attempt, token,
                   answer, first, mints, hist>>

\* The send fails or its deadline passes; the request may still be processed.
SendFails(c) ==
    /\ pc[c] = "wait"
    /\ Done(c, "error")
    /\ UNCHANGED <<now, avail, flushes, cache, lock, phase, attempt, token,
                   reply, performed, first, mints, hist>>

Replied(c) == pc[c] = "wait" /\ reply[c] \notin {NoReply, Sent}

\* Mutant: server errors are retried as well.
RetryOnFailure(c) ==
    /\ Replied(c)
    /\ reply[c].status \in {401, 500}
    /\ attempt[c] = 1
    /\ pc' = [pc EXCEPT ![c] = "drop"]
    /\ reply' = [reply EXCEPT ![c] = NoReply]
    /\ first' = [first EXCEPT ![c] = token[c].serial]
    /\ refused' = [refused EXCEPT ![AccountOf[c]] = @ + 1]
    /\ UNCHANGED <<now, avail, flushes, cache, lock, phase, attempt, token,
                   performed, answer, mints, lapsed, dropped>>

\* The first 401: drop the cached token, then try once more.
RetryOn401(c) ==
    /\ Replied(c)
    /\ reply[c].status = 401
    /\ attempt[c] = 1
    /\ pc' = [pc EXCEPT ![c] = "drop"]
    /\ reply' = [reply EXCEPT ![c] = NoReply]
    /\ first' = [first EXCEPT ![c] = token[c].serial]
    /\ refused' = [refused EXCEPT ![AccountOf[c]] = @ + 1]
    /\ UNCHANGED <<now, avail, flushes, cache, lock, phase, attempt, token,
                   performed, answer, mints, lapsed, dropped>>

\* Invalidate waits for the entry lock and drops whatever the entry holds.
Invalidate(c) == LET a == AccountOf[c] IN
    /\ pc[c] = "drop"
    /\ lock[a] = Nobody
    /\ cache' = [cache EXCEPT ![a] = NoToken]
    /\ dropped' = [dropped EXCEPT ![a] = IF cache[a] = NoToken THEN @ ELSE @ + 1]
    /\ attempt' = [attempt EXCEPT ![c] = 2]
    /\ pc' = [pc EXCEPT ![c] = "get"]
    /\ UNCHANGED <<now, avail, flushes, lock, phase, token, reply, performed,
                   answer, first, mints, lapsed, refused>>

Returned(c) == Replied(c) /\ ~(reply[c].status = 401 /\ attempt[c] = 1)
Seen(c) == ReadBody(reply[c].body, phase[c] \in Timed)

\* The caller reads the body and maps the status.
ReturnAnswer(c) ==
    /\ Returned(c)
    /\ \E seen \in Seen(c): LET r == Answer(phase[c], reply[c].status, seen) IN
          /\ ~(phase[c] = "media_reserve" /\ r = "ok")
          /\ Done(c, r)
    /\ UNCHANGED <<now, avail, flushes, cache, lock, phase, attempt, token,
                   reply, performed, first, mints, hist>>

\* UploadImage, from the reserved slot to the PUT.
Reserved(c) ==
    /\ Returned(c)
    /\ phase[c] = "media_reserve"
    /\ \E seen \in Seen(c): Answer(phase[c], reply[c].status, seen) = "ok"
    /\ answer' = [answer EXCEPT ![<<c, phase[c]>>] = "ok"]
    /\ pc' = [pc EXCEPT ![c] = "put"]
    /\ UNCHANGED <<now, avail, flushes, cache, lock, phase, attempt, token,
                   reply, performed, first, mints, hist>>

PutOk(c) ==
    /\ pc[c] = "put"
    /\ pc' = [pc EXCEPT ![c] = "get"]
    /\ phase' = [phase EXCEPT ![c] = "media_commit"]
    /\ attempt' = [attempt EXCEPT ![c] = 1]
    /\ first' = [first EXCEPT ![c] = 0]
    /\ reply' = [reply EXCEPT ![c] = NoReply]
    /\ UNCHANGED <<now, avail, flushes, cache, lock, token, performed, answer, mints, hist>>

PutFails(c) ==
    /\ pc[c] = "put"
    /\ pc' = [pc EXCEPT ![c] = "done"]
    /\ UNCHANGED <<now, avail, flushes, cache, lock, phase, attempt, token,
                   reply, performed, answer, first, mints, hist>>

----------------------------------------------------------------------------
(* The rest of the world *)

\* POST /internal/refresh_jwt drops the tokens of the whole pool.
HandleRefreshJWT(a) ==
    /\ revocations + flushes < MaxUpsets
    /\ lock[a] = Nobody
    /\ flushes' = flushes + 1
    /\ cache' = [cache EXCEPT ![a] = NoToken]
    /\ dropped' = [dropped EXCEPT ![a] = IF cache[a] = NoToken THEN @ ELSE @ + 1]
    /\ UNCHANGED <<now, avail, lock, pc, phase, attempt, token, reply,
                   performed, answer, first, mints, lapsed, refused>>

\* Clerk revokes what it issued, and may end the session with it. (external)
Revoke(a) ==
    /\ revocations + flushes < MaxUpsets
    /\ revocations' = revocations + 1
    /\ revokedTo' = [revokedTo EXCEPT ![a] = minted[a]]
    /\ \E alive \in BOOLEAN: session' = [session EXCEPT ![a] = alive]
    /\ UNCHANGED <<now, flushes, cache, lock, pc, phase, attempt, token,
                   reply, performed, answer, first, mints, hist>>

Tick ==
    /\ now < MaxTime
    /\ now' = now + 1
    /\ UNCHANGED <<avail, flushes, cache, lock, pc, phase, attempt, token,
                   reply, performed, answer, first, mints, hist>>

LockStep(c) == GetHit(c) \/ GetMiss(c) \/ Invalidate(c)
OwnStep(c) ==
    \/ MintOk(c) \/ MintFails(c) \/ Send(c) \/ SendFails(c) \/ RetryOn401(c)
    \/ ReturnAnswer(c) \/ Reserved(c) \/ PutOk(c) \/ PutFails(c)

Next ==
    \/ \E c \in Calls: Begin(c) \/ LockStep(c) \/ OwnStep(c) \/ Issue(c) \/ Process(c)
    \/ \E a \in Accounts: HandleRefreshJWT(a) \/ Revoke(a)
    \/ Tick

\* A call takes its own steps: every wire operation returns (the transport
\* timeout), and a waiter gets Go's mutex in the end (its starvation mode).
Fairness == \A c \in Calls: WF_vars(OwnStep(c)) /\ SF_vars(LockStep(c))

Spec == Init /\ [][Next]_vars
FairSpec == Spec /\ Fairness
----------------------------------------------------------------------------
(* Properties *)

Outcomes == {"none", "ok", "unparsed", "unauthorized", "forbidden", "rate_limit", "bad_body",
             "server_error", "unexpected", "error", "media_reserve_failed",
             "media_commit_failed"}

TypeOK ==
    /\ now \in 0..MaxTime
    /\ session \in [Accounts -> BOOLEAN]
    /\ revokedTo \in [Accounts -> Serials]
    /\ revocations \in 0..MaxUpsets
    /\ flushes \in 0..MaxUpsets
    /\ cache \in [Accounts -> Tokens \cup {NoToken}]
    /\ lock \in [Accounts -> Calls \cup {Nobody}]
    /\ pc \in [Calls -> {"idle", "get", "mint", "send", "wait", "drop", "put", "done"}]
    /\ phase \in [Calls -> Phases]
    /\ attempt \in [Calls -> 1..2]
    /\ token \in [Calls -> Tokens \cup {NoToken}]
    /\ issued \in [Calls -> Tokens \cup {NoToken}]
    /\ reply \in [Calls -> [status: Statuses \cup {0, 1}, body: Bodies]]
    /\ performed \in [Exchanges -> Nat]
    /\ answer \in [Exchanges -> Outcomes]
    /\ first \in [Calls -> Serials]
    /\ minted \in [Accounts -> Serials]
    /\ lapsed \in [Accounts -> Nat] /\ wasted \in [Accounts -> Nat] /\ refused \in [Accounts -> Nat]
    /\ dropped \in [Accounts -> Nat]

\* doWithRetry and CreateJob ("Job creation is safe to retry"): whatever is
\* refused, revoked, lost or retried, upstream performs an exchange at most
\* once, success is never reported without it and a typed refusal never with it.
Report(x) ==
    CASE answer[x] \in {"none", "ok"} -> answer[x]
      [] answer[x] \in {"unauthorized", "forbidden", "rate_limit", "bad_body"} -> "refused"
      [] OTHER -> "unknown"
Once == INSTANCE AtMostOnce WITH report <- [x \in Exchanges |-> Report(x)]
ImplementsAtMostOnce == Once!ASpec

\* client.go:770 "the second attempt mints a fresh token": the second send
\* never carries the token that was refused, even when other calls minted,
\* dropped or flushed the entry in between.
RetryUsesNewToken ==
    \A c \in Calls: attempt[c] = 2 /\ pc[c] \in {"send", "wait"} => token[c].serial > first[c]

\* jwt.go:101 "Concurrent Get calls for the same account share a single mint
\* attempt": one token at most is on its way to an account, and those issued
\* for it before are accounted for: cached, lapsed, wasted on a mint whose
\* reply was lost, or dropped by a refused request or a flush.
OnTheWay(a) == {c \in Calls: AccountOf[c] = a /\ issued[c] # NoToken}
MintsExplained ==
    \A a \in Accounts:
        /\ \A c, d \in OnTheWay(a): c = d
        /\ minted[a] = lapsed[a] + wasted[a] + dropped[a] + (IF cache[a] = NoToken THEN 0 ELSE 1)
                       + (IF OnTheWay(a) = {} THEN 0 ELSE 1)
        /\ dropped[a] <= refused[a] + flushes

\* jwt.go:49 the slack: upstream refuses a token only when it was revoked,
\* when more went by between Get and the arrival than the slack leaves after
\* the clocks' difference, or when the token came from a mint that took all
\* but that much of its life.
RefusalExplained ==
    \A c \in Calls:
        reply[c] = Sent /\ ~Accepts(c) =>
            \/ token[c].serial <= revokedTo[AccountOf[c]]
            \/ now > token[c].got + SlackSeconds + Drift
            \/ token[c].took >= Lifetime - SlackSeconds - Drift

\* A call that began ends, although the entry lock is held across the mint
\* and waiting for it does not watch the deadline.
CallsEnd == \A c \in Calls: pc[c] # "idle" ~> pc[c] = "done"

\* The token cache under any herd of calls: types, and the life of a token from
\* its mint to the request that carries it.
TokensAccounted == TypeOK /\ RetryUsesNewToken /\ MintsExplained /\ RefusalExplained
=============================================================================

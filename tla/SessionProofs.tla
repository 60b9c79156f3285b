--------------------------- MODULE SessionProofs ---------------------------
(* What the authenticated exchange guarantees for any calls, accounts,      *)
(* deadlines, token lifetimes, clocks apart, revocations and flushes.       *)
EXTENDS Session, FiniteSetTheorems, TLAPS

NextStep ==
    \/ \E c \in Calls:
        \/ Begin(c) \/ GetHit(c) \/ GetMiss(c) \/ Invalidate(c) \/ Issue(c) \/ MintOk(c)
        \/ MintFails(c) \/ Send(c) \/ SendFails(c) \/ RetryOn401(c) \/ ReturnAnswer(c) \/ Reserved(c)
        \/ PutOk(c) \/ PutFails(c) \/ Process(c)
    \/ \E a \in Accounts: HandleRefreshJWT(a) \/ Revoke(a)
    \/ Tick

LEMMA NextCases == Next => NextStep
  BY DEF Next, NextStep, LockStep, OwnStep

\* What the three phases of a call make of a status.
LEMMA Answers ==
  ASSUME NEW ph \in Phases, NEW st \in Nat, NEW seen
  PROVE  /\ Answer(ph, st, seen) \in Outcomes \ {"none"}
         /\ st \in {200, 401, 500} /\ Answer(ph, st, seen) = "ok" => st = 200
         /\ st \in {200, 401, 500} /\ Answer(ph, st, seen) \in {"unauthorized", "forbidden", "rate_limit", "bad_body"}
              => st = 401
  <1>1. CASE ph = "create_job"
    BY <1>1 DEF Answer, CreateJob, Outcomes
  <1>2. CASE ph = "media_reserve"
    BY <1>2 DEF Answer, MediaReserve, Is2xx, Outcomes
  <1>3. CASE ph = "media_commit"
    BY <1>3 DEF Answer, MediaCommit, Is2xx, Outcomes
  <1> QED
    BY <1>1, <1>2, <1>3 DEF Phases

LEMMA TypeOKInit == Init => TypeOK
  BY SessionConstants DEF Init, TypeOK, Serials, Exchanges, Phases, FirstPhase, NoReply, Statuses, Bodies, Outcomes

\* A token when it arrives.
LEMMA Arrived ==
  ASSUME NEW tok \in Tokens, NEW t \in Nat, tok.got <= t
  PROVE  LET new == [tok EXCEPT !.got = t, !.took = t - tok.got]
         IN  /\ new \in Tokens /\ new.serial = tok.serial /\ new.exp = tok.exp /\ new.got = t
             /\ new.took = t - tok.got
  <1> DEFINE took == t - tok.got
  <1>1. tok.got \in Nat
    BY DEF Tokens
  <1>2. took \in Nat
    BY <1>1
  <1> HIDE DEF took
  <1>3. [tok EXCEPT !.got = t, !.took = took] \in Tokens
    BY <1>2 DEF Tokens
  <1> QED
    BY <1>3 DEF Tokens, took

\* A call that sent, or is about to, has a token.
HasToken == \A c \in Calls: pc[c] \in {"send", "wait"} \/ reply[c] # NoReply => token[c] \in Tokens

\* A token on its way lives from its issue and is newer than any its account has seen.
IssuedOf(c) == issued[c] # NoToken =>
    /\ pc[c] = "mint" /\ issued[c].exp = issued[c].got + Lifetime /\ issued[c].got <= now
    /\ issued[c].serial <= minted[AccountOf[c]]
    /\ \A d \in Calls: AccountOf[d] = AccountOf[c] =>
          /\ first[d] < issued[c].serial
          /\ token[d] \in Tokens => token[d].serial < issued[c].serial
IssuedInv == \A c \in Calls: IssuedOf(c)

LEMMA TypeOKNext == ASSUME TypeOK, HasToken, IssuedInv, NextStep PROVE TypeOK'
  <1> USE SessionConstants DEF TypeOK, avail, mints, hist
  <1>1. ASSUME NEW c \in Calls, Begin(c) PROVE TypeOK'
    BY <1>1 DEF Begin
  <1>2. ASSUME NEW c \in Calls, GetHit(c) PROVE TypeOK'
    <2>1. cache[AccountOf[c]] \in Tokens
      BY <1>2 DEF GetHit, Fresh
    <2>2. [cache[AccountOf[c]] EXCEPT !.got = now, !.took = 0] \in Tokens
      <3>1. now \in Nat
        OBVIOUS
      <3> HIDE DEF TypeOK
      <3> QED
        BY <2>1, <3>1 DEF Tokens
    <2> QED
      BY <1>2, <2>2 DEF GetHit
  <1>3. ASSUME NEW c \in Calls, GetMiss(c) PROVE TypeOK'
    BY <1>3 DEF GetMiss
  <1>4. ASSUME NEW c \in Calls, Invalidate(c) PROVE TypeOK'
    BY <1>4 DEF Invalidate
  <1>5. ASSUME NEW c \in Calls, MintOk(c) PROVE TypeOK'
    <2>1. issued[c] \in Tokens /\ issued[c].got \in Nat /\ now \in Nat /\ issued[c].got <= now
      BY <1>5 DEF MintOk, IssuedInv, IssuedOf, Tokens
    <2>2. [issued[c] EXCEPT !.got = now, !.took = now - issued[c].got] \in Tokens
      BY <2>1, Arrived
    <2> QED
      BY <1>5, <2>2 DEF MintOk
  <1>18. ASSUME NEW c \in Calls, Issue(c) PROVE TypeOK'
    BY <1>18 DEF Issue, Tokens, Serials
  <1>6. ASSUME NEW c \in Calls, MintFails(c) PROVE TypeOK'
    BY <1>6 DEF MintFails, Done, Outcomes, Exchanges
  <1>7. ASSUME NEW c \in Calls, Send(c) PROVE TypeOK'
    BY <1>7 DEF Send, Sent, Bodies, Statuses
  <1>8. ASSUME NEW c \in Calls, SendFails(c) PROVE TypeOK'
    BY <1>8 DEF SendFails, Done, Outcomes, Exchanges
  <1>9. ASSUME NEW c \in Calls, RetryOn401(c) PROVE TypeOK'
    <2>1. token[c].serial \in Serials
      BY <1>9 DEF RetryOn401, Replied, HasToken, Tokens
    <2>2. NoReply \in [status: Statuses \cup {0, 1}, body: Bodies]
      BY DEF NoReply, Bodies
    <2> QED
      BY <1>9, <2>1, <2>2 DEF RetryOn401
  <1>10. ASSUME NEW c \in Calls, ReturnAnswer(c) PROVE TypeOK'
    <2>1. PICK seen \in Seen(c): Done(c, Answer(phase[c], reply[c].status, seen))
      BY <1>10 DEF ReturnAnswer
    <2>2. reply[c].status \in Nat /\ phase[c] \in Phases
      <3>1. reply[c] \in [status: Statuses \cup {0, 1}, body: Bodies]
        OBVIOUS
      <3>2. Statuses \cup {0, 1} \subseteq Nat
        BY DEF Statuses
      <3> QED
        BY <3>1, <3>2
    <2>3. Answer(phase[c], reply[c].status, seen) \in Outcomes
      BY <2>2, Answers
    <2> QED
      BY <1>10, <2>1, <2>3 DEF ReturnAnswer, Done, Exchanges
  <1>11. ASSUME NEW c \in Calls, Reserved(c) PROVE TypeOK'
    BY <1>11 DEF Reserved, Exchanges, Outcomes
  <1>12. ASSUME NEW c \in Calls, PutOk(c) PROVE TypeOK'
    BY <1>12 DEF PutOk, NoReply, Bodies, Statuses, Phases, Serials
  <1>13. ASSUME NEW c \in Calls, PutFails(c) PROVE TypeOK'
    BY <1>13 DEF PutFails
  <1>14. ASSUME NEW c \in Calls, Process(c) PROVE TypeOK'
    <2>1. reply' \in [Calls -> [status: Statuses \cup {0, 1}, body: Bodies]]
      <3>1. \A st \in {200, 401, 500}: [status |-> st, body |-> "full"] \in [status: Statuses \cup {0, 1}, body: Bodies]
        BY DEF Bodies, Statuses
      <3>2. \E st \in {200, 401, 500}: reply' = [reply EXCEPT ![c] = [status |-> st, body |-> "full"]]
        BY <1>14 DEF Process
      <3> QED
        BY <3>1, <3>2
    <2>2. performed' \in [Exchanges -> Nat]
      <3>1. <<c, phase[c]>> \in Exchanges
        BY DEF Exchanges
      <3>2. performed' = performed \/ performed' = [performed EXCEPT ![<<c, phase[c]>>] = @ + 1]
        BY <1>14 DEF Process
      <3>3. performed \in [Exchanges -> Nat]
        OBVIOUS
      <3> HIDE DEF TypeOK
      <3> QED
        BY <3>1, <3>2, <3>3
    <2> QED
      BY <1>14, <2>1, <2>2 DEF Process
  <1>15. ASSUME NEW a \in Accounts, HandleRefreshJWT(a) PROVE TypeOK'
    BY <1>15 DEF HandleRefreshJWT
  <1>16. ASSUME NEW a \in Accounts, Revoke(a) PROVE TypeOK'
    BY <1>16 DEF Revoke
  <1>17. CASE Tick
    BY <1>17 DEF Tick
  <1> QED
    BY <1>1, <1>2, <1>3, <1>4, <1>5, <1>6, <1>7, <1>8, <1>9, <1>10, <1>11, <1>12, <1>13, <1>14, <1>15, <1>16, <1>17, <1>18
       DEF NextStep
----------------------------------------------------------------------------
\* The entry lock: its holder alone mints, and finds no fresh token to replace.
LockInv ==
    \A c \in Calls: pc[c] = "mint" => lock[AccountOf[c]] = c /\ ~Fresh(cache[AccountOf[c]])

LEMMA LockInvNext == ASSUME TypeOK, LockInv, NextStep PROVE LockInv'
  <1> USE SessionConstants DEF TypeOK, LockInv, avail, mints, hist
  <1>1. ASSUME NEW c \in Calls, Begin(c) \/ GetHit(c) PROVE LockInv'
    BY <1>1 DEF Begin, GetHit, Fresh
  <1>2. ASSUME NEW c \in Calls, GetMiss(c) PROVE LockInv'
    BY <1>2 DEF GetMiss, Fresh
  <1>3. ASSUME NEW c \in Calls, Invalidate(c) PROVE LockInv'
    BY <1>3 DEF Invalidate, Fresh
  <1>4. ASSUME NEW c \in Calls, MintOk(c) PROVE LockInv'
    <2>1. \A d \in Calls: d # c /\ pc[d] = "mint" => AccountOf[d] # AccountOf[c]
      BY <1>4 DEF MintOk
    <2> QED
      BY <1>4, <2>1 DEF MintOk, Fresh
  <1>5. ASSUME NEW c \in Calls, MintFails(c) PROVE LockInv'
    <2>1. \A d \in Calls: d # c /\ pc[d] = "mint" => AccountOf[d] # AccountOf[c]
      BY <1>5 DEF MintFails
    <2> QED
      BY <1>5, <2>1 DEF MintFails, Done, Fresh
  <1>11. ASSUME NEW c \in Calls, Issue(c) PROVE LockInv'
    BY <1>11 DEF Issue, Fresh
  <1>6. ASSUME NEW c \in Calls, Send(c) \/ SendFails(c) \/ RetryOn401(c) PROVE LockInv'
    BY <1>6 DEF Send, SendFails, RetryOn401, Done, Fresh
  <1>7. ASSUME NEW c \in Calls, ReturnAnswer(c) \/ Reserved(c) \/ PutOk(c) \/ PutFails(c) \/ Process(c) PROVE LockInv'
    BY <1>7 DEF ReturnAnswer, Reserved, PutOk, PutFails, Process, Done, Fresh
  <1>8. ASSUME NEW a \in Accounts, HandleRefreshJWT(a) PROVE LockInv'
    BY <1>8 DEF HandleRefreshJWT, Fresh
  <1>9. ASSUME NEW a \in Accounts, Revoke(a) PROVE LockInv'
    BY <1>9 DEF Revoke, Fresh
  <1>10. CASE Tick
    <2>1. \A a \in Accounts: ~Fresh(cache[a]) => ~Fresh(cache[a])'
      <3>1. now \in Nat /\ now' = now + 1 /\ cache' = cache /\ \A tok \in Tokens: tok.exp \in Nat
        BY <1>10 DEF Tick, Tokens
      <3> QED
        BY <3>1 DEF Fresh
    <2> QED
      BY <1>10, <2>1 DEF Tick
  <1> QED
    BY <1>1, <1>2, <1>3, <1>4, <1>5, <1>6, <1>7, <1>8, <1>9, <1>10, <1>11 DEF NextStep
----------------------------------------------------------------------------
\* A token in hand was fresh when it was got, or came from a slow mint; no serial is above the mints;
\* a call that was refused finds a newer token in the entry, or none.
Kept(tok) == \/ tok.exp > tok.got + SlackSeconds + Drift
             \/ tok.took >= Lifetime - SlackSeconds - Drift
TokenInv ==
    /\ HasToken
    /\ \A a \in Accounts: cache[a] \in Tokens => cache[a].serial <= minted[a]
    /\ \A c \in Calls:
        /\ token[c] \in Tokens => Kept(token[c]) /\ token[c].serial <= minted[AccountOf[c]]
        /\ first[c] <= minted[AccountOf[c]] /\ (pc[c] = "idle" => attempt[c] = 1)
        /\ attempt[c] = 2 /\ pc[c] \in {"get", "mint"} /\ cache[AccountOf[c]] \in Tokens
              => cache[AccountOf[c]].serial > first[c]
        /\ attempt[c] = 2 /\ pc[c] \in {"send", "wait"} => token[c].serial > first[c]

LEMMA TokenInvNext == ASSUME TypeOK, LockInv, IssuedInv, TokenInv, NextStep PROVE TokenInv'
  <1> USE SessionConstants DEF TypeOK, TokenInv, HasToken, avail, mints, hist
  <1>0. /\ Serials \subseteq Nat /\ now \in Nat
        /\ \A tok \in Tokens: tok.serial \in Nat /\ tok.exp \in Nat /\ tok.got \in Nat /\ tok.took \in Nat
    BY DEF Serials, Tokens
  <1>1. ASSUME NEW c \in Calls, Begin(c) PROVE TokenInv'
    BY <1>1 DEF Begin
  <1>2. ASSUME NEW c \in Calls, GetHit(c) PROVE TokenInv'
    <2> DEFINE old == cache[AccountOf[c]]
               tok == [old EXCEPT !.got = now, !.took = 0]
    <2>1. old \in Tokens /\ old.exp > now + Drift + SlackSeconds
      BY <1>2 DEF GetHit, Fresh
    <2>2. tok \in Tokens /\ tok.exp = old.exp /\ tok.serial = old.serial /\ tok.got = now
      BY <1>0, <2>1 DEF Tokens
    <2>4. Kept(tok)
      BY <1>0, <2>1, <2>2 DEF Kept
    <2>3. token' = [token EXCEPT ![c] = tok] /\ pc' = [pc EXCEPT ![c] = "send"] /\ pc[c] = "get"
          /\ UNCHANGED <<cache, minted, first, attempt, reply>>
      BY <1>2 DEF GetHit
    <2> HIDE DEF tok
    <2> QED
      BY <2>1, <2>2, <2>3, <2>4
  <1>3. ASSUME NEW c \in Calls, GetMiss(c) PROVE TokenInv'
    BY <1>3 DEF GetMiss
  <1>4. ASSUME NEW c \in Calls, Invalidate(c) PROVE TokenInv'
    BY <1>4 DEF Invalidate
  <1>5. ASSUME NEW c \in Calls, MintOk(c) PROVE TokenInv'
    <2> DEFINE a == AccountOf[c]
               old == issued[c]
               tok == [old EXCEPT !.got = now, !.took = now - old.got]
    <2>1. /\ old \in Tokens /\ old.exp = old.got + Lifetime /\ old.got <= now /\ old.serial <= minted[a]
          /\ \A d \in Calls: AccountOf[d] = a => first[d] < old.serial
      BY <1>5 DEF MintOk, IssuedInv, IssuedOf
    <2>2. /\ tok \in Tokens /\ tok.serial = old.serial /\ tok.exp = old.got + Lifetime /\ tok.got = now
          /\ tok.took = now - old.got
      BY <1>0, <2>1, Arrived
    <2>3. /\ cache' = [cache EXCEPT ![a] = tok] /\ token' = [token EXCEPT ![c] = tok]
          /\ pc' = [pc EXCEPT ![c] = "send"] /\ pc[c] = "mint"
          /\ UNCHANGED <<first, attempt, reply, minted>>
      BY <1>5 DEF MintOk
    <2>4. Kept(tok)
      BY <1>0, <2>1, <2>2 DEF Kept
    <2>5. \A d \in Calls: first[d] \in Nat /\ AccountOf[d] \in Accounts
      BY <1>0
    <2> HIDE DEF tok
    <2>6. HasToken'
      BY <2>2, <2>3
    <2>7. \A x \in Accounts: cache'[x] \in Tokens => cache'[x].serial <= minted'[x]
      BY <1>0, <2>1, <2>2, <2>3, <2>4
    <2>8. ASSUME NEW d \in Calls
          PROVE  /\ token'[d] \in Tokens => Kept(token'[d]) /\ token'[d].serial <= minted'[AccountOf[d]]
                 /\ first'[d] <= minted'[AccountOf[d]] /\ (pc'[d] = "idle" => attempt'[d] = 1)
      BY <1>0, <2>1, <2>2, <2>3, <2>4, <2>5
    <2>9. ASSUME NEW d \in Calls
          PROVE  /\ attempt'[d] = 2 /\ pc'[d] \in {"get", "mint"} /\ cache'[AccountOf[d]] \in Tokens
                       => cache'[AccountOf[d]].serial > first'[d]
                 /\ attempt'[d] = 2 /\ pc'[d] \in {"send", "wait"} => token'[d].serial > first'[d]
      BY <1>0, <2>1, <2>2, <2>3, <2>4, <2>5
    <2> QED
      BY <2>6, <2>7, <2>8, <2>9
  <1>18. ASSUME NEW c \in Calls, Issue(c) PROVE TokenInv'
    <2>1. \A x \in Accounts: minted[x] \in Nat /\ minted'[x] \in Nat /\ minted[x] <= minted'[x]
      <3>1. \A x \in Accounts: minted[x] \in Nat /\ (minted'[x] = minted[x] \/ minted'[x] = minted[x] + 1)
        BY <1>0, <1>18 DEF Issue
      <3> HIDE DEF TypeOK, TokenInv
      <3> QED
        BY <3>1
    <2>2. UNCHANGED <<cache, token, first, attempt, reply, pc>>
      BY <1>18 DEF Issue
    <2>3. \A d \in Calls: first[d] \in Nat /\ AccountOf[d] \in Accounts
      BY <1>0
    <2> QED
      BY <1>0, <2>1, <2>2, <2>3
  <1>6. ASSUME NEW c \in Calls, MintFails(c) \/ SendFails(c) PROVE TokenInv'
    BY <1>6 DEF MintFails, SendFails, Done
  <1>7. ASSUME NEW c \in Calls, Send(c) PROVE TokenInv'
    BY <1>7 DEF Send
  <1>9. ASSUME NEW c \in Calls, RetryOn401(c) PROVE TokenInv'
    BY <1>0, <1>9 DEF RetryOn401, Replied
  <1>10. ASSUME NEW c \in Calls, ReturnAnswer(c) \/ Reserved(c) PROVE TokenInv'
    BY <1>10 DEF ReturnAnswer, Reserved, Done
  <1>12. ASSUME NEW c \in Calls, PutOk(c) PROVE TokenInv'
    <2>1. /\ pc' = [pc EXCEPT ![c] = "get"] /\ attempt' = [attempt EXCEPT ![c] = 1]
          /\ first' = [first EXCEPT ![c] = 0] /\ reply' = [reply EXCEPT ![c] = NoReply]
          /\ UNCHANGED <<cache, token, minted>>
      BY <1>12 DEF PutOk
    <2>2. minted[AccountOf[c]] \in Nat
      BY <1>0
    <2>3. \A d \in Calls: first'[d] <= minted[AccountOf[d]]
      BY <2>1, <2>2
    <2>4. HasToken'
      BY <2>1
    <2> QED
      BY <2>1, <2>3, <2>4
  <1>13. ASSUME NEW c \in Calls, PutFails(c) PROVE TokenInv'
    BY <1>13 DEF PutFails
  <1>14. ASSUME NEW c \in Calls, Process(c) PROVE TokenInv'
    <2>1. \A d \in Calls: reply'[d] # NoReply => reply[d] # NoReply
      BY <1>14 DEF Process, Sent, NoReply
    <2> QED
      BY <1>14, <2>1 DEF Process
  <1>15. ASSUME NEW a \in Accounts, HandleRefreshJWT(a) PROVE TokenInv'
    BY <1>15 DEF HandleRefreshJWT
  <1>16. ASSUME NEW a \in Accounts, Revoke(a) PROVE TokenInv'
    BY <1>16 DEF Revoke
  <1>17. CASE Tick
    BY <1>17 DEF Tick
  <1> QED
    BY <1>1, <1>2, <1>3, <1>4, <1>5, <1>6, <1>7, <1>9, <1>10, <1>12, <1>13, <1>14, <1>15, <1>16, <1>17, <1>18
       DEF NextStep
----------------------------------------------------------------------------
LEMMA IssuedInvNext == ASSUME TypeOK, LockInv, TokenInv, IssuedInv, NextStep PROVE IssuedInv'
  <1> USE SessionConstants DEF TypeOK
  <1>0. /\ \A tok \in Tokens: tok.serial \in Nat /\ tok.exp \in Nat /\ tok.got \in Nat
        /\ \A d \in Calls: first[d] \in Nat /\ AccountOf[d] \in Accounts /\ minted[AccountOf[d]] \in Nat
        /\ now \in Nat
    BY DEF Serials, Tokens
  <1>i. \A c \in Calls: issued[c] # NoToken => issued[c] \in Tokens /\ pc[c] = "mint" /\ lock[AccountOf[c]] = c
    BY DEF IssuedInv, IssuedOf, LockInv
  \* A step that changes one token or one refused serial, to something old or elsewhere.
  <1>f. ASSUME UNCHANGED <<issued, minted>>, now' >= now, now' \in Nat, \A c \in Calls: issued[c] # NoToken => pc'[c] = "mint",
               \A c, d \in Calls: issued[c] # NoToken /\ AccountOf[d] = AccountOf[c] =>
                  /\ first'[d] < issued[c].serial
                  /\ token'[d] \in Tokens => token'[d].serial < issued[c].serial
        PROVE  IssuedInv'
    <2> SUFFICES ASSUME NEW c \in Calls, issued[c] # NoToken PROVE IssuedOf(c)'
      BY <1>f DEF IssuedInv, IssuedOf
    <2>1. issued[c].got <= now /\ issued[c].got \in Nat /\ issued[c].exp = issued[c].got + Lifetime /\ issued[c].serial <= minted[AccountOf[c]]
      BY <1>0, <1>i DEF IssuedInv, IssuedOf
    <2>2. issued[c].got <= now'
      BY <1>0, <1>f, <2>1
    <2> QED
      BY <1>f, <2>1, <2>2 DEF IssuedOf
  <1>s. \A c, d \in Calls: issued[c] # NoToken /\ AccountOf[d] = AccountOf[c] =>
           first[d] < issued[c].serial /\ (token[d] \in Tokens => token[d].serial < issued[c].serial)
    BY DEF IssuedInv, IssuedOf
  <1>1. ASSUME NEW c \in Calls, Begin(c) \/ GetMiss(c) \/ Invalidate(c) \/ Send(c) \/ SendFails(c) PROVE IssuedInv'
    <2>1. UNCHANGED <<issued, minted, now, first, token>> /\ \A d \in Calls: pc[d] = "mint" => pc'[d] = "mint"
      BY <1>1 DEF Begin, GetMiss, Invalidate, Send, SendFails, Done, mints
    <2> QED
      BY <1>0, <1>f, <1>i, <1>s, <2>1
  <1>2. ASSUME NEW c \in Calls, ReturnAnswer(c) \/ Reserved(c) \/ PutFails(c) \/ Process(c) PROVE IssuedInv'
    <2>1. UNCHANGED <<issued, minted, now, first, token>> /\ \A d \in Calls: pc[d] = "mint" => pc'[d] = "mint"
      BY <1>2 DEF ReturnAnswer, Reserved, Returned, Replied, PutFails, Process, Done, mints
    <2> QED
      BY <1>0, <1>f, <1>i, <1>s, <2>1
  <1>3. ASSUME NEW a \in Accounts, HandleRefreshJWT(a) \/ Revoke(a) PROVE IssuedInv'
    <2>1. UNCHANGED <<issued, minted, now, first, token, pc>>
      BY <1>3 DEF HandleRefreshJWT, Revoke, mints
    <2> QED
      BY <1>0, <1>f, <1>i, <1>s, <2>1
  <1>4. CASE Tick
    <2>1. UNCHANGED <<issued, minted, first, token, pc>> /\ now' = now + 1
      BY <1>4 DEF Tick, mints
    <2> QED
      BY <1>0, <1>f, <1>i, <1>s, <2>1
  <1>5. ASSUME NEW c \in Calls, GetHit(c) PROVE IssuedInv'
    <2>1. /\ UNCHANGED <<issued, minted, now, first>> /\ pc[c] = "get" /\ lock[AccountOf[c]] = Nobody
          /\ \A d \in Calls \ {c}: token'[d] = token[d] /\ pc'[d] = pc[d]
      BY <1>5 DEF GetHit, mints
    <2>2. \A d \in Calls: issued[d] # NoToken => AccountOf[d] # AccountOf[c] /\ d # c
      BY <1>i, <2>1
    <2>3. \A d \in Calls: issued[d] # NoToken => pc'[d] = "mint"
      BY <1>i, <2>1, <2>2
    <2>4. ASSUME NEW x \in Calls, NEW d \in Calls, issued[x] # NoToken, AccountOf[d] = AccountOf[x]
          PROVE  first'[d] < issued[x].serial /\ (token'[d] \in Tokens => token'[d].serial < issued[x].serial)
      <3>1. d # c
        BY <2>2, <2>4
      <3>2. token'[d] = token[d] /\ first'[d] = first[d]
        BY <2>1, <3>1
      <3> QED
        BY <1>s, <2>4, <3>2
    <2> QED
      BY <1>0, <1>f, <2>1, <2>3, <2>4
  <1>6. ASSUME NEW c \in Calls, RetryOn401(c) PROVE IssuedInv'
    <2>1. /\ UNCHANGED <<issued, minted, now, token>> /\ pc[c] = "wait"
          /\ first'[c] = token[c].serial /\ token[c] \in Tokens
          /\ \A d \in Calls \ {c}: first'[d] = first[d] /\ pc'[d] = pc[d]
      BY <1>6 DEF RetryOn401, Replied, mints, TokenInv, HasToken
    <2>2. \A d \in Calls: issued[d] # NoToken => pc'[d] = "mint"
      BY <1>i, <2>1
    <2>3. ASSUME NEW x \in Calls, NEW d \in Calls, issued[x] # NoToken, AccountOf[d] = AccountOf[x]
          PROVE  first'[d] < issued[x].serial /\ (token'[d] \in Tokens => token'[d].serial < issued[x].serial)
      BY <1>s, <2>1, <2>3
    <2> QED
      BY <1>0, <1>f, <2>1, <2>2, <2>3
  <1>7. ASSUME NEW c \in Calls, PutOk(c) PROVE IssuedInv'
    <2>1. /\ UNCHANGED <<issued, minted, now, token>> /\ pc[c] = "put"
          /\ first'[c] = 0 /\ \A d \in Calls \ {c}: first'[d] = first[d] /\ pc'[d] = pc[d]
      BY <1>7 DEF PutOk, mints
    <2>2. \A d \in Calls: issued[d] # NoToken => pc'[d] = "mint"
      BY <1>i, <2>1
    <2>3. ASSUME NEW x \in Calls, NEW d \in Calls, issued[x] # NoToken, AccountOf[d] = AccountOf[x]
          PROVE  first'[d] < issued[x].serial /\ (token'[d] \in Tokens => token'[d].serial < issued[x].serial)
      <3>1. first[d] \in Nat /\ first[d] < issued[x].serial /\ issued[x].serial \in Nat
        BY <1>0, <1>i, <1>s, <2>3
      <3> QED
        BY <1>s, <2>1, <2>3, <3>1
    <2> QED
      BY <1>0, <1>f, <2>1, <2>2, <2>3
  <1>8. ASSUME NEW c \in Calls, Issue(c) PROVE IssuedInv'
    <2> DEFINE a == AccountOf[c]
               tok == [serial |-> minted[a] + 1, exp |-> now + Lifetime, got |-> now, took |-> 0]
    <2>1. /\ UNCHANGED <<now, first, token, pc>> /\ pc[c] = "mint"
          /\ issued' = [issued EXCEPT ![c] = tok] /\ minted' = [minted EXCEPT ![a] = @ + 1]
      BY <1>8 DEF Issue
    <2>2. tok.serial = minted[a] + 1 /\ tok.exp = tok.got + Lifetime /\ tok.got = now
      OBVIOUS
    <2> HIDE DEF tok
    <2>3. IssuedOf(c)'
      <3>1. issued'[c] = tok /\ minted'[a] = minted[a] + 1
        BY <2>1
      <3>2. \A d \in Calls: AccountOf[d] = a =>
               first[d] < tok.serial /\ (token[d] \in Tokens => token[d].serial < tok.serial)
        BY <1>0, <2>2 DEF TokenInv
      <3> QED
        BY <1>0, <2>1, <2>2, <3>1, <3>2 DEF IssuedOf
    <2>4. ASSUME NEW d \in Calls, d # c PROVE IssuedOf(d)'
      <3>1. issued'[d] = issued[d] /\ IssuedOf(d)
        BY <2>1, <2>4 DEF IssuedInv
      <3>2. issued[d] # NoToken => AccountOf[d] # a
        BY <1>i, <2>1, <2>4 DEF LockInv
      <3>3. issued[d] # NoToken => minted'[AccountOf[d]] = minted[AccountOf[d]]
        BY <1>0, <2>1, <3>2
      <3> QED
        BY <2>1, <3>1, <3>3 DEF IssuedOf
    <2> QED
      BY <2>3, <2>4 DEF IssuedInv
  <1>9. ASSUME NEW c \in Calls, MintOk(c) \/ MintFails(c) PROVE IssuedInv'
    <2>1. /\ UNCHANGED <<now, first, minted>> /\ pc[c] = "mint" /\ issued'[c] = NoToken
          /\ \A d \in Calls \ {c}: token'[d] = token[d] /\ pc'[d] = pc[d] /\ issued'[d] = issued[d]
      BY <1>9 DEF MintOk, MintFails, Done
    <2>2. ASSUME NEW d \in Calls PROVE IssuedOf(d)'
      <3>1. CASE d = c
        BY <2>1, <3>1 DEF IssuedOf
      <3>2. CASE d # c
        <4>1. issued'[d] = issued[d] /\ IssuedOf(d) /\ pc'[d] = pc[d]
          BY <2>1, <3>2 DEF IssuedInv
        <4>2. issued[d] # NoToken => \A x \in Calls: AccountOf[x] = AccountOf[d] => x # c
          BY <1>i, <2>1, <3>2 DEF LockInv
        <4> QED
          BY <2>1, <4>1, <4>2 DEF IssuedOf
      <3> QED
        BY <3>1, <3>2
    <2> QED
      BY <2>2 DEF IssuedInv
  <1> QED
    BY <1>1, <1>2, <1>3, <1>4, <1>5, <1>6, <1>7, <1>8, <1>9 DEF NextStep
----------------------------------------------------------------------------
\* The calls of an account on their way to drop its token: each was refused.
Dropping(a) == {c \in Calls: pc[c] = "drop" /\ AccountOf[c] = a}
Coming(a) == IF OnTheWay(a) = {} THEN 0 ELSE 1
MintInv ==
    \A a \in Accounts:
        /\ minted[a] = lapsed[a] + wasted[a] + dropped[a] + (IF cache[a] = NoToken THEN 0 ELSE 1) + Coming(a)
        /\ dropped[a] + Cardinality(Dropping(a)) <= refused[a] + flushes

LEMMA DroppingSize == ASSUME NEW a PROVE IsFiniteSet(Dropping(a)) /\ Cardinality(Dropping(a)) \in Nat
  BY SessionConstants, FS_Subset, FS_CardinalityType DEF Dropping

LEMMA OneLess ==
  ASSUME NEW S, NEW R, NEW c \in S, IsFiniteSet(S), R = S \ {c}
  PROVE  Cardinality(R) = Cardinality(S) - 1
  BY FS_RemoveElement

LEMMA OneMore ==
  ASSUME NEW S, NEW R, NEW c, c \notin S, IsFiniteSet(S), R = S \cup {c}
  PROVE  Cardinality(R) = Cardinality(S) + 1
  BY FS_AddElement

LEMMA DroppingKept ==
  ASSUME TypeOK, \A c \in Calls: pc[c] = "drop" <=> pc'[c] = "drop", NEW a
  PROVE  Dropping(a)' = Dropping(a)
  BY DEF Dropping

\* The one that mints is the only one a token is on its way to.
LEMMA ComingTo ==
  ASSUME TypeOK, LockInv, IssuedInv, NEW c \in Calls, pc[c] = "mint"
  PROVE  /\ Coming(AccountOf[c]) = IF issued[c] = NoToken THEN 0 ELSE 1
         /\ (\A d \in Calls \ {c}: issued'[d] = issued[d]) =>
               /\ Coming(AccountOf[c])' = IF issued'[c] = NoToken THEN 0 ELSE 1
               /\ \A x \in Accounts \ {AccountOf[c]}: Coming(x)' = Coming(x)
  <1>1. \A d \in Calls: d # c /\ AccountOf[d] = AccountOf[c] => issued[d] = NoToken
    BY SessionConstants DEF TypeOK, LockInv, IssuedInv, IssuedOf
  <1>2. OnTheWay(AccountOf[c]) = IF issued[c] = NoToken THEN {} ELSE {c}
    BY <1>1 DEF OnTheWay
  <1>3. ASSUME \A d \in Calls \ {c}: issued'[d] = issued[d]
        PROVE  /\ OnTheWay(AccountOf[c])' = IF issued'[c] = NoToken THEN {} ELSE {c}
               /\ \A x \in Accounts \ {AccountOf[c]}: OnTheWay(x)' = OnTheWay(x)
    BY <1>1, <1>3 DEF OnTheWay
  <1> QED
    BY <1>2, <1>3 DEF Coming

LEMMA MintInvNext == ASSUME TypeOK, LockInv, IssuedInv, MintInv, NextStep PROVE MintInv'
  <1> USE SessionConstants DEF TypeOK
  <1>0. \A a \in Accounts: /\ minted[a] \in Nat /\ lapsed[a] \in Nat /\ dropped[a] \in Nat /\ refused[a] \in Nat
                           /\ wasted[a] \in Nat /\ Coming(a) \in {0, 1} /\ flushes \in Nat /\ Cardinality(Dropping(a)) \in Nat
    BY DroppingSize DEF Serials, Coming
  <1>f. ASSUME UNCHANGED <<minted, lapsed, wasted, issued, dropped, refused, flushes, cache>>,
               \A c \in Calls: pc[c] = "drop" <=> pc'[c] = "drop"
        PROVE  MintInv'
    BY <1>f, DroppingKept DEF MintInv, Coming, OnTheWay
  <1>1. ASSUME NEW c \in Calls, Begin(c) \/ GetHit(c) \/ GetMiss(c) \/ Send(c) \/ SendFails(c) PROVE MintInv'
    <2>1. \A d \in Calls: pc[d] = "drop" <=> pc'[d] = "drop"
      BY <1>1 DEF Begin, GetHit, GetMiss, Send, SendFails, Done
    <2>2. UNCHANGED <<minted, lapsed, wasted, issued, dropped, refused, flushes, cache>>
      BY <1>1 DEF Begin, GetHit, GetMiss, Send, SendFails, mints, hist
    <2> QED
      BY <1>f, <2>1, <2>2
  <1>2. ASSUME NEW c \in Calls, ReturnAnswer(c) \/ Reserved(c) \/ PutOk(c) \/ PutFails(c) \/ Process(c) PROVE MintInv'
    <2>1. \A d \in Calls: pc[d] = "drop" <=> pc'[d] = "drop"
      BY <1>2 DEF ReturnAnswer, Reserved, Returned, Replied, PutOk, PutFails, Process, Done
    <2>2. UNCHANGED <<minted, lapsed, wasted, issued, dropped, refused, flushes, cache>>
      BY <1>2 DEF ReturnAnswer, Reserved, PutOk, PutFails, Process, mints, hist
    <2> QED
      BY <1>f, <2>1, <2>2
  <1>3. ASSUME NEW c \in Calls, MintOk(c) PROVE MintInv'
    <2> DEFINE a == AccountOf[c]
    <2>1. \A d \in Calls: pc[d] = "drop" <=> pc'[d] = "drop"
      BY <1>3 DEF MintOk
    <2>2. \A x \in Accounts: Dropping(x)' = Dropping(x)
      BY <2>1, DroppingKept
    <2>3. ~Fresh(cache[a]) /\ pc[c] = "mint" /\ issued[c] # NoToken
      BY <1>3 DEF MintOk, LockInv
    <2>4. /\ cache'[a] # NoToken /\ minted' = minted
          /\ lapsed'[a] = IF cache[a] = NoToken THEN lapsed[a] ELSE lapsed[a] + 1
          /\ \A x \in Accounts \ {a}: cache'[x] = cache[x] /\ lapsed'[x] = lapsed[x]
          /\ UNCHANGED <<wasted, dropped, refused, flushes>>
      <3>1. issued[c] \in Tokens /\ issued[c].got \in Nat /\ now \in Nat /\ issued[c].got <= now
        BY <1>3 DEF MintOk, IssuedInv, IssuedOf, Tokens
      <3>2. [issued[c] EXCEPT !.got = now, !.took = now - issued[c].got] \in Tokens
        BY <3>1, Arrived
      <3> QED
        BY <1>3, <2>3, <3>2 DEF MintOk
    <2>5. issued'[c] = NoToken /\ \A d \in Calls \ {c}: issued'[d] = issued[d]
      BY <1>3 DEF MintOk
    <2>6. Coming(a) = 1 /\ Coming(a)' = 0 /\ \A x \in Accounts \ {a}: Coming(x)' = Coming(x)
      BY <2>3, <2>5, ComingTo
    <2> QED
      BY <1>0, <2>2, <2>4, <2>6 DEF MintInv
  <1>9. ASSUME NEW c \in Calls, Issue(c) PROVE MintInv'
    <2> DEFINE a == AccountOf[c]
    <2>1. \A x \in Accounts: Dropping(x)' = Dropping(x)
      BY <1>9, DroppingKept DEF Issue
    <2>2. /\ minted'[a] = minted[a] + 1 /\ \A x \in Accounts \ {a}: minted'[x] = minted[x]
          /\ UNCHANGED <<cache, lapsed, wasted, dropped, refused, flushes>>
          /\ pc[c] = "mint" /\ issued[c] = NoToken
      BY <1>9 DEF Issue, hist
    <2>3. issued'[c] # NoToken /\ \A d \in Calls \ {c}: issued'[d] = issued[d]
      <3>1. [serial |-> minted[a] + 1, exp |-> now + Lifetime, got |-> now, took |-> 0] \in Tokens
        BY <1>9 DEF Issue, Tokens, Serials
      <3> QED
        BY <1>9, <3>1 DEF Issue
    <2>4. Coming(a) = 0 /\ Coming(a)' = 1 /\ \A x \in Accounts \ {a}: Coming(x)' = Coming(x)
      BY <2>2, <2>3, ComingTo
    <2> QED
      BY <1>0, <2>1, <2>2, <2>4 DEF MintInv
  <1>10. ASSUME NEW c \in Calls, MintFails(c) PROVE MintInv'
    <2> DEFINE a == AccountOf[c]
    <2>1. \A d \in Calls: pc[d] = "drop" <=> pc'[d] = "drop"
      BY <1>10 DEF MintFails, Done
    <2>2. \A x \in Accounts: Dropping(x)' = Dropping(x)
      BY <2>1, DroppingKept
    <2>3. /\ wasted'[a] = IF issued[c] = NoToken THEN wasted[a] ELSE wasted[a] + 1
          /\ \A x \in Accounts \ {a}: wasted'[x] = wasted[x]
          /\ UNCHANGED <<cache, minted, lapsed, dropped, refused, flushes>>
          /\ pc[c] = "mint" /\ issued'[c] = NoToken /\ \A d \in Calls \ {c}: issued'[d] = issued[d]
      BY <1>10 DEF MintFails, hist
    <2>4. /\ Coming(a) = IF issued[c] = NoToken THEN 0 ELSE 1
          /\ Coming(a)' = 0 /\ \A x \in Accounts \ {a}: Coming(x)' = Coming(x)
      BY <2>3, ComingTo
    <2> HIDE DEF TypeOK, a
    <2>5. ASSUME NEW x \in Accounts
          PROVE  minted[x] = lapsed[x] + wasted'[x] + dropped[x]
                             + (IF cache[x] = NoToken THEN 0 ELSE 1) + Coming(x)'
      <3>1. /\ minted[x] = lapsed[x] + wasted[x] + dropped[x] + (IF cache[x] = NoToken THEN 0 ELSE 1) + Coming(x)
            /\ wasted[x] \in Nat /\ lapsed[x] \in Nat /\ dropped[x] \in Nat
        BY <1>0 DEF MintInv
      <3>2. wasted'[x] + Coming(x)' = wasted[x] + Coming(x) /\ Coming(x) \in {0, 1} /\ Coming(x)' \in {0, 1}
        BY <2>3, <2>4, <3>1 DEF Coming
      <3>3. wasted'[x] \in Nat
        BY <2>3, <3>1
      <3> QED
        BY <3>1, <3>2, <3>3
    <2> QED
      BY <2>2, <2>3, <2>5 DEF MintInv
  <1>4. ASSUME NEW c \in Calls, Invalidate(c) PROVE MintInv'
    <2> DEFINE a == AccountOf[c]
    <2>1. /\ dropped'[a] = IF cache[a] = NoToken THEN dropped[a] ELSE dropped[a] + 1
          /\ cache'[a] = NoToken /\ pc[c] = "drop" /\ pc' = [pc EXCEPT ![c] = "get"]
          /\ \A x \in Accounts \ {a}: cache'[x] = cache[x] /\ dropped'[x] = dropped[x]
          /\ UNCHANGED <<minted, lapsed, wasted, issued, refused, flushes>>
      BY <1>4 DEF Invalidate, mints
    <2>2. Dropping(a)' = Dropping(a) \ {c} /\ c \in Dropping(a)
      BY <2>1 DEF Dropping
    <2>3. Cardinality(Dropping(a)') = Cardinality(Dropping(a)) - 1
      <3>1. IsFiniteSet(Dropping(a))
        BY DroppingSize
      <3> HIDE DEF TypeOK, a
      <3> QED
        BY <2>2, <3>1, OneLess
    <2>4. \A x \in Accounts \ {a}: Dropping(x)' = Dropping(x)
      BY <2>1 DEF Dropping
    <2>5. \A x \in Accounts: Coming(x)' = Coming(x)
      BY <2>1 DEF Coming, OnTheWay
    <2> HIDE DEF TypeOK, a
    <2>6. ASSUME NEW x \in Accounts
          PROVE  /\ minted[x] = lapsed[x] + wasted[x] + dropped'[x]
                                + (IF cache'[x] = NoToken THEN 0 ELSE 1) + Coming(x)
                 /\ dropped'[x] + Cardinality(Dropping(x)') <= refused[x] + flushes
      BY <1>0, <2>1, <2>3, <2>4 DEF MintInv
    <2> QED
      BY <2>1, <2>5, <2>6 DEF MintInv
  <1>5. ASSUME NEW c \in Calls, RetryOn401(c) PROVE MintInv'
    <2> DEFINE a == AccountOf[c]
    <2>1. /\ refused'[a] = refused[a] + 1 /\ \A x \in Accounts \ {a}: refused'[x] = refused[x]
          /\ pc[c] = "wait" /\ pc' = [pc EXCEPT ![c] = "drop"]
          /\ UNCHANGED <<minted, lapsed, wasted, issued, dropped, flushes, cache>>
      BY <1>5 DEF RetryOn401, Replied, mints
    <2>2. Dropping(a)' = Dropping(a) \cup {c} /\ c \notin Dropping(a)
      BY <2>1 DEF Dropping
    <2>3. Cardinality(Dropping(a)') = Cardinality(Dropping(a)) + 1
      <3>1. IsFiniteSet(Dropping(a))
        BY DroppingSize
      <3> HIDE DEF TypeOK, a
      <3> QED
        BY <2>2, <3>1, OneMore
    <2>4. \A x \in Accounts \ {a}: Dropping(x)' = Dropping(x)
      BY <2>1 DEF Dropping
    <2> HIDE DEF a
    <2>5. ASSUME NEW x \in Accounts
          PROVE  /\ minted'[x] = minted[x] /\ lapsed'[x] = lapsed[x] /\ dropped'[x] = dropped[x]
                 /\ wasted'[x] = wasted[x] /\ Coming(x)' = Coming(x)
                 /\ cache'[x] = cache[x] /\ flushes' = flushes
                 /\ dropped[x] + Cardinality(Dropping(x)') <= refused'[x] + flushes
      <3>1. /\ dropped[x] + Cardinality(Dropping(x)) <= refused[x] + flushes /\ Cardinality(Dropping(x)) \in Nat
            /\ dropped[x] \in Nat /\ refused[x] \in Nat /\ flushes \in Nat
        BY <1>0 DEF MintInv
      <3> HIDE DEF TypeOK
      <3> QED
        BY <2>1, <2>3, <2>4, <3>1 DEF Coming, OnTheWay
    <2> QED
      BY <2>5 DEF MintInv
  <1>6. ASSUME NEW a \in Accounts, HandleRefreshJWT(a) PROVE MintInv'
    <2>1. /\ dropped'[a] = IF cache[a] = NoToken THEN dropped[a] ELSE dropped[a] + 1
          /\ cache'[a] = NoToken /\ flushes' = flushes + 1
          /\ \A x \in Accounts \ {a}: cache'[x] = cache[x] /\ dropped'[x] = dropped[x]
          /\ UNCHANGED <<minted, lapsed, wasted, issued, refused, pc>>
      BY <1>6 DEF HandleRefreshJWT, mints
    <2>2. \A x \in Accounts: Dropping(x)' = Dropping(x)
      BY <2>1, DroppingKept
    <2>3. \A x \in Accounts: Coming(x)' = Coming(x)
      BY <2>1 DEF Coming, OnTheWay
    <2> QED
      BY <1>0, <2>1, <2>2, <2>3 DEF MintInv
  <1>7. ASSUME NEW a \in Accounts, Revoke(a) PROVE MintInv'
    BY <1>f, <1>7 DEF Revoke, mints, hist
  <1>8. CASE Tick
    BY <1>f, <1>8 DEF Tick, mints, hist
  <1> QED
    BY <1>1, <1>2, <1>3, <1>4, <1>5, <1>6, <1>7, <1>8, <1>9, <1>10 DEF NextStep
----------------------------------------------------------------------------
\* The exchange a call is in: nothing was performed while no request is out or
\* the request is unread; a refusal means never performed, a success means once;
\* the commit is untouched while the slot is being reserved.
ExchInvOf(c) ==
    /\ reply[c] \in {NoReply, Sent} \/ reply[c].status \in {200, 401, 500}
    /\ reply[c] \in {NoReply, Sent} \/ reply[c].status = 401 => performed[<<c, phase[c]>>] = 0
    /\ reply[c].status = 200 => performed[<<c, phase[c]>>] = 1
    /\ reply[c] = Sent => answer[<<c, phase[c]>>] \in {"none", "error"}
    /\ pc[c] \in {"idle", "get", "mint", "send", "drop"} => reply[c] = NoReply
    /\ pc[c] = "wait" => reply[c] # NoReply
    /\ pc[c] \notin {"done", "put"} => answer[<<c, phase[c]>>] = "none"
    /\ pc[c] = "put" => phase[c] = "media_reserve"
    /\ phase[c] = "media_reserve" => performed[<<c, "media_commit">>] = 0 /\ answer[<<c, "media_commit">>] = "none"
ExchInv == \A c \in Calls: ExchInvOf(c)

\* What a call that holds an answer, or none yet, may rely on.
LEMMA ExchFacts ==
  ASSUME NEW c \in Calls, ExchInvOf(c)
  PROVE  /\ pc[c] \notin {"done", "put"} => answer[<<c, phase[c]>>] = "none"
         /\ reply[c] \in {NoReply, Sent} \/ reply[c].status \in {200, 401, 500}
         /\ reply[c] = Sent => answer[<<c, phase[c]>>] \in {"none", "error"}
         /\ pc[c] = "put" => performed[<<c, "media_commit">>] = 0 /\ answer[<<c, "media_commit">>] = "none"
  BY DEF ExchInvOf

LEMMA Answered ==
  ASSUME NEW c \in Calls, ExchInvOf(c), pc[c] = "wait", reply[c] \notin {NoReply, Sent}
  PROVE  reply[c].status \in {200, 401, 500} /\ answer[<<c, phase[c]>>] = "none"
  <1>1. pc[c] \notin {"done", "put"}
    OBVIOUS
  <1>2. pc[c] \notin {"done", "put"} => answer[<<c, phase[c]>>] = "none"
    BY DEF ExchInvOf
  <1>3. reply[c].status \in {200, 401, 500}
    BY DEF ExchInvOf
  <1> QED
    BY <1>1, <1>2, <1>3

LEMMA OnTheWire ==
  ASSUME NEW c \in Calls, ExchInvOf(c), reply[c] = Sent
  PROVE  answer[<<c, phase[c]>>] \in {"none", "error"}
  BY ExchFacts

LEMMA NothingBefore ==
  ASSUME NEW c \in Calls, ExchInvOf(c), reply[c] \in {NoReply, Sent} PROVE performed[<<c, phase[c]>>] = 0
  BY DEF ExchInvOf

\* What a step of one call leaves alone keeps the exchanges of the others.
LEMMA ExchKept ==
  ASSUME NEW d \in Calls, TypeOK, ExchInvOf(d), reply'[d] = reply[d], phase'[d] = phase[d], pc'[d] = pc[d],
         \A ph \in Phases: performed'[<<d, ph>>] = performed[<<d, ph>>] /\ answer'[<<d, ph>>] = answer[<<d, ph>>]
  PROVE  ExchInvOf(d)'
  <1>1. phase[d] \in Phases /\ "media_commit" \in Phases
    BY DEF TypeOK, Phases
  <1> QED
    BY <1>1 DEF ExchInvOf

LEMMA ReplyKinds == NoReply # Sent /\ NoReply.status = 0 /\ Sent.status = 1
  BY DEF NoReply, Sent

\* A step that touches one call at most keeps ExchInv when it keeps that call's part.
LEMMA ExchInvBy ==
  ASSUME TypeOK, ExchInv, NEW c \in Calls, ExchInvOf(c)',
         \A d \in Calls \ {c}: reply'[d] = reply[d] /\ phase'[d] = phase[d] /\ pc'[d] = pc[d],
         \A x \in Exchanges: x[1] # c => performed'[x] = performed[x] /\ answer'[x] = answer[x]
  PROVE  ExchInv'
  <1>1. ASSUME NEW d \in Calls, d # c PROVE ExchInvOf(d)'
    <2>1. \A ph \in Phases: performed'[<<d, ph>>] = performed[<<d, ph>>] /\ answer'[<<d, ph>>] = answer[<<d, ph>>]
      BY <1>1 DEF Exchanges
    <2> QED
      BY <1>1, <2>1, ExchKept DEF ExchInv
  <1> QED
    BY <1>1 DEF ExchInv

LEMMA ExchInvNext == ASSUME TypeOK, ExchInv, NextStep PROVE ExchInv'
  <1> USE SessionConstants, ReplyKinds
  <1>0. \A d \in Calls: phase[d] \in Phases /\ <<d, phase[d]>> \in Exchanges /\ <<d, "media_commit">> \in Exchanges
    BY DEF TypeOK, Exchanges, Phases
  <1>1. ASSUME NEW c \in Calls, Begin(c) \/ GetHit(c) \/ GetMiss(c) \/ MintOk(c) \/ Invalidate(c) PROVE ExchInv'
    <2>1. /\ UNCHANGED <<reply, phase, performed, answer>>
          /\ pc[c] \in {"idle", "get", "mint", "drop"}
          /\ pc'[c] \in {"get", "mint", "send"} /\ \A d \in Calls \ {c}: pc'[d] = pc[d]
      BY <1>1 DEF TypeOK, Begin, GetHit, GetMiss, MintOk, Invalidate
    <2>2. ExchInvOf(c)'
      BY <2>1 DEF TypeOK, ExchInv, ExchInvOf
    <2> QED
      BY <2>1, <2>2, ExchInvBy
  <1>2. ASSUME NEW c \in Calls, Send(c) PROVE ExchInv'
    <2>1. /\ UNCHANGED <<phase, performed, answer>> /\ reply' = [reply EXCEPT ![c] = Sent]
          /\ pc[c] = "send" /\ pc' = [pc EXCEPT ![c] = "wait"]
      BY <1>2 DEF Send
    <2>2. reply'[c] = Sent /\ pc'[c] = "wait"
      BY <2>1 DEF TypeOK
    <2>3. ExchInvOf(c)'
      BY <2>1, <2>2 DEF ExchInv, ExchInvOf
    <2> QED
      BY <2>1, <2>3, ExchInvBy
  <1>3. ASSUME NEW c \in Calls, NEW r,
               answer' = [answer EXCEPT ![<<c, phase[c]>>] = r], UNCHANGED <<reply, phase, performed>>,
               \/ pc' = [pc EXCEPT ![c] = "done"] /\ (reply[c] = Sent => r = "error")
               \/ pc' = [pc EXCEPT ![c] = "put"] /\ phase[c] = "media_reserve" /\ reply[c] # Sent
        PROVE  ExchInv'
    <2>1. /\ \A x \in Exchanges: x # <<c, phase[c]>> => answer'[x] = answer[x]
          /\ answer'[<<c, phase[c]>>] = r /\ pc'[c] \in {"done", "put"} /\ (pc'[c] = "put" => phase[c] = "media_reserve")
          /\ \A d \in Calls \ {c}: pc'[d] = pc[d]
      <3>1. /\ pc \in [Calls -> {"idle", "get", "mint", "send", "wait", "drop", "put", "done"}]
            /\ answer \in [Exchanges -> Outcomes]
        BY DEF TypeOK
      <3> QED
        BY <1>0, <1>3, <3>1
    <2>2. phase[c] = "media_reserve" => answer'[<<c, "media_commit">>] = answer[<<c, "media_commit">>]
      BY <1>0, <2>1
    <2>3. ExchInvOf(c)'
      BY <1>3, <2>1, <2>2 DEF ExchInv, ExchInvOf
    <2>4. \A x \in Exchanges: x[1] # c => answer'[x] = answer[x]
      BY <2>1
    <2> QED
      BY <1>3, <2>1, <2>3, <2>4, ExchInvBy
  <1>4. ASSUME NEW c \in Calls, MintFails(c) PROVE ExchInv'
    <2>1. PICK r: answer' = [answer EXCEPT ![<<c, phase[c]>>] = r] /\ pc' = [pc EXCEPT ![c] = "done"]
      BY <1>4 DEF MintFails, Done
    <2>2. reply[c] = NoReply
      BY <1>4 DEF MintFails, ExchInv, ExchInvOf
    <2>3. UNCHANGED <<reply, phase, performed>>
      BY <1>4 DEF MintFails
    <2> QED
      BY <1>3, <2>1, <2>2, <2>3
  <1>5. ASSUME NEW c \in Calls, SendFails(c) PROVE ExchInv'
    BY <1>3, <1>5 DEF SendFails, Done
  <1>6. ASSUME NEW c \in Calls, ReturnAnswer(c) PROVE ExchInv'
    <2>1. PICK r: answer' = [answer EXCEPT ![<<c, phase[c]>>] = r] /\ pc' = [pc EXCEPT ![c] = "done"]
      BY <1>6 DEF ReturnAnswer, Done
    <2>2. reply[c] # Sent
      BY <1>6 DEF ReturnAnswer, Returned, Replied
    <2>3. UNCHANGED <<reply, phase, performed>>
      BY <1>6 DEF ReturnAnswer
    <2> QED
      BY <1>3, <2>1, <2>2, <2>3
  <1>7. ASSUME NEW c \in Calls, Reserved(c) PROVE ExchInv'
    <2>1. reply[c] # Sent /\ phase[c] = "media_reserve"
      BY <1>7 DEF Reserved, Returned, Replied
    <2>2. answer' = [answer EXCEPT ![<<c, phase[c]>>] = "ok"] /\ pc' = [pc EXCEPT ![c] = "put"]
          /\ UNCHANGED <<reply, phase, performed>>
      BY <1>7 DEF Reserved
    <2> QED
      BY <1>3, <2>1, <2>2
  <1>8. ASSUME NEW c \in Calls, RetryOn401(c) PROVE ExchInv'
    <2>1. /\ UNCHANGED <<phase, performed, answer>> /\ reply' = [reply EXCEPT ![c] = NoReply]
          /\ pc[c] = "wait" /\ reply[c].status = 401 /\ pc' = [pc EXCEPT ![c] = "drop"]
      BY <1>8 DEF RetryOn401, Replied
    <2>2. reply'[c] = NoReply /\ pc'[c] = "drop"
      BY <2>1 DEF TypeOK
    <2>3. ExchInvOf(c)'
      BY <2>1, <2>2 DEF ExchInv, ExchInvOf
    <2> QED
      BY <2>1, <2>3, ExchInvBy
  <1>9. ASSUME NEW c \in Calls, PutOk(c) PROVE ExchInv'
    <2>1. /\ UNCHANGED <<performed, answer>> /\ reply' = [reply EXCEPT ![c] = NoReply] /\ pc[c] = "put"
          /\ phase' = [phase EXCEPT ![c] = "media_commit"] /\ pc' = [pc EXCEPT ![c] = "get"]
      BY <1>9 DEF PutOk
    <2>2. reply'[c] = NoReply /\ pc'[c] = "get" /\ phase'[c] = "media_commit"
      BY <2>1 DEF TypeOK
    <2>x. performed[<<c, "media_commit">>] = 0 /\ answer[<<c, "media_commit">>] = "none"
      <3>1. ExchInvOf(c)
        BY DEF ExchInv
      <3>2. pc[c] = "put"
        BY <2>1
      <3> QED
        BY ONLY c \in Calls, <3>1, <3>2, ExchFacts
    <2>3. ExchInvOf(c)'
      BY <2>1, <2>2, <2>x DEF ExchInvOf
    <2> QED
      BY <2>1, <2>3, ExchInvBy
  <1>10. ASSUME NEW c \in Calls, PutFails(c) PROVE ExchInv'
    <2>1. UNCHANGED <<performed, answer, reply, phase>> /\ pc[c] = "put" /\ pc' = [pc EXCEPT ![c] = "done"]
      BY <1>10 DEF PutFails
    <2>2. pc'[c] = "done"
      BY <2>1 DEF TypeOK
    <2>3. ExchInvOf(c)'
      BY <2>1, <2>2 DEF ExchInv, ExchInvOf
    <2> QED
      BY <2>1, <2>3, ExchInvBy
  <1>11. ASSUME NEW c \in Calls, Process(c) PROVE ExchInv'
    <2> DEFINE x == <<c, phase[c]>>
    <2>1. PICK st \in {200, 401, 500}:
             /\ reply' = [reply EXCEPT ![c] = [status |-> st, body |-> "full"]]
             /\ \/ performed' = performed /\ st # 200
                \/ performed' = [performed EXCEPT ![x] = @ + 1] /\ st # 401
      BY <1>11 DEF Process
    <2>2. reply[c] = Sent /\ UNCHANGED <<answer, pc, phase>>
      BY <1>11 DEF Process
    <2>3. reply'[c] \notin {NoReply, Sent} /\ reply'[c].status = st /\ \A d \in Calls \ {c}: reply'[d] = reply[d]
      <3>1. reply'[c] = [status |-> st, body |-> "full"] /\ \A d \in Calls \ {c}: reply'[d] = reply[d]
        BY <2>1 DEF TypeOK
      <3>2. [status |-> st, body |-> "full"].status = st
        OBVIOUS
      <3> QED
        BY <3>1, <3>2
    <2>x. ExchInvOf(c)
      BY DEF ExchInv
    <2>4. performed[x] = 0
      BY <2>2, <2>x DEF ExchInvOf
    <2>5. /\ \A y \in Exchanges: y # x => performed'[y] = performed[y]
          /\ st = 401 => performed'[x] = 0
          /\ st = 200 => performed'[x] = 1
      <3>1. performed \in [Exchanges -> Nat] /\ x \in Exchanges
        BY <1>0 DEF TypeOK
      <3> HIDE DEF x
      <3> QED
        BY <2>1, <2>4, <3>1
    <2>6. phase[c] = "media_reserve" => performed'[<<c, "media_commit">>] = performed[<<c, "media_commit">>]
      BY <1>0, <2>5
    <2> HIDE DEF x
    <2>7. ExchInvOf(c)'
      BY <2>2, <2>3, <2>5, <2>6, <2>x DEF ExchInvOf, x
    <2>8. \A y \in Exchanges: y[1] # c => performed'[y] = performed[y]
      BY <2>5 DEF x
    <2> QED
      BY <2>2, <2>3, <2>7, <2>8, ExchInvBy
  <1>12. ASSUME UNCHANGED <<reply, phase, pc, performed, answer>> PROVE ExchInv'
    <2>1. ASSUME NEW d \in Calls PROVE ExchInvOf(d)'
      BY <1>12, ExchKept DEF ExchInv
    <2> QED
      BY <2>1 DEF ExchInv
  <1>15. ASSUME NEW c \in Calls, Issue(c) PROVE ExchInv'
    BY <1>12, <1>15 DEF Issue
  <1>13. ASSUME NEW a \in Accounts, HandleRefreshJWT(a) \/ Revoke(a) PROVE ExchInv'
    BY <1>12, <1>13 DEF HandleRefreshJWT, Revoke
  <1>14. CASE Tick
    BY <1>12, <1>14 DEF Tick
  <1> QED
    BY <1>1, <1>2, <1>4, <1>5, <1>6, <1>7, <1>8, <1>9, <1>10, <1>11, <1>13, <1>14, <1>15 DEF NextStep
----------------------------------------------------------------------------
(* The exchange implements AtMostOnce *)

Refusals == {"unauthorized", "forbidden", "rate_limit", "bad_body"}
Reports == [x \in Exchanges |-> Report(x)]

LEMMA ReportCases ==
  ASSUME NEW x
  PROVE  /\ answer[x] = "none" => Report(x) = "none"
         /\ answer[x] = "ok" => Report(x) = "ok"
         /\ answer[x] \in Refusals => Report(x) = "refused"
         /\ answer[x] \in Outcomes \ ({"none", "ok"} \cup Refusals) => Report(x) = "unknown"
  BY DEF Report, Refusals, Outcomes

LEMMA ReportCasesNext ==
  ASSUME NEW x
  PROVE  /\ answer'[x] = "none" => Report(x)' = "none"
         /\ answer'[x] = "ok" => Report(x)' = "ok"
         /\ answer'[x] \in Refusals => Report(x)' = "refused"
         /\ answer'[x] \in Outcomes \ ({"none", "ok"} \cup Refusals) => Report(x)' = "unknown"
  BY DEF Report, Refusals, Outcomes

LEMMA ReportsKept == ASSUME UNCHANGED answer PROVE Reports' = Reports
  BY DEF Reports, Report

\* Telling the caller is the abstract Tell; what it is told says what happened.
LEMMA TellStep ==
  ASSUME TypeOK, NEW x \in Exchanges, NEW r \in Outcomes \ {"none"}, answer[x] = "none",
         answer' = [answer EXCEPT ![x] = r], UNCHANGED performed,
         r = "ok" => performed[x] = 1, r \in Refusals => performed[x] = 0
  PROVE  Once!ANext
  <1>1. answer'[x] = r /\ \A y \in Exchanges \ {x}: answer'[y] = answer[y]
    BY DEF TypeOK
  <1>2. PICK a \in {"ok", "refused", "unknown"}:
           /\ Report(x)' = a /\ (a = "ok" => r = "ok") /\ (a = "refused" => r \in Refusals)
    BY <1>1, ReportCasesNext
  <1>3. Reports' = [Reports EXCEPT ![x] = a]
    <2>1. \A y \in Exchanges \ {x}: Report(y)' = Report(y)
      BY <1>1 DEF Report
    <2> QED
      BY <1>2, <2>1 DEF Reports
  <1>4. Reports[x] = "none"
    BY ReportCases DEF Reports
  <1>5. Once!Tell(x, a)
    BY <1>2, <1>3, <1>4 DEF Once!Tell, Reports
  <1> QED
    BY <1>5 DEF Once!ANext

LEMMA RefinedInit == Init => Once!AInit
  BY ReportCases DEF Init, Once!AInit

LEMMA RefinedNext ==
  ASSUME TypeOK, ExchInv, [Next]_vars
  PROVE  [Once!ANext]_(Once!avars)
  <1> USE SessionConstants
  <1>0. ASSUME UNCHANGED <<performed, answer>> PROVE UNCHANGED Once!avars
    BY <1>0, ReportsKept DEF Once!avars, Reports
  <1>x. \A d \in Calls: <<d, phase[d]>> \in Exchanges /\ phase[d] \in Phases /\ ExchInvOf(d)
    BY DEF TypeOK, Exchanges, ExchInv
  <1>1. ASSUME NEW c \in Calls, MintFails(c) PROVE Once!ANext
    <2>1. PICK r \in {"error", "unauthorized"}: Done(c, r)
      BY <1>1 DEF MintFails
    <2>2. answer[<<c, phase[c]>>] = "none" /\ performed[<<c, phase[c]>>] = 0
      <3>1. pc[c] = "mint"
        BY <1>1 DEF MintFails
      <3>2. reply[c] = NoReply
        BY <1>x, <3>1 DEF ExchInvOf
      <3> QED
        BY <1>x, <3>1, <3>2, ExchFacts, NothingBefore
    <2>3. UNCHANGED performed
      BY <1>1 DEF MintFails
    <2>4. r \in Outcomes \ {"none"} /\ r # "ok"
      BY DEF Outcomes
    <2> QED
      BY <1>x, <2>1, <2>2, <2>3, <2>4, TellStep DEF Done
  <1>2. ASSUME NEW c \in Calls, SendFails(c) PROVE Once!ANext
    <2>1. answer[<<c, phase[c]>>] = "none"
      BY <1>2, <1>x DEF SendFails, ExchInvOf
    <2>2. "error" \in Outcomes \ {"none"} /\ "error" # "ok" /\ "error" \notin Refusals
      BY DEF Outcomes, Refusals
    <2>3. answer' = [answer EXCEPT ![<<c, phase[c]>>] = "error"] /\ UNCHANGED performed
      BY <1>2 DEF SendFails, Done
    <2> QED
      BY <1>x, <2>1, <2>2, <2>3, TellStep
  <1>3. ASSUME NEW c \in Calls, NEW seen,
               Returned(c), answer' = [answer EXCEPT ![<<c, phase[c]>>] = Answer(phase[c], reply[c].status, seen)],
               UNCHANGED performed
        PROVE  Once!ANext
    <2> DEFINE r == Answer(phase[c], reply[c].status, seen)
    <2>1. pc[c] = "wait" /\ reply[c] \notin {NoReply, Sent}
      BY <1>3 DEF Returned, Replied
    <2>2. reply[c].status \in {200, 401, 500} /\ answer[<<c, phase[c]>>] = "none"
      <3>1. ExchInvOf(c)
        BY <1>x
      <3> QED
        BY <2>1, <3>1, Answered
    <2>3. r \in Outcomes \ {"none"} /\ (r = "ok" => reply[c].status = 200) /\ (r \in Refusals => reply[c].status = 401)
      <3>1. reply[c].status \in Nat
        BY <2>2
      <3> QED
        BY <1>x, <2>2, <3>1, Answers DEF Refusals
    <2>4. (r = "ok" => performed[<<c, phase[c]>>] = 1) /\ (r \in Refusals => performed[<<c, phase[c]>>] = 0)
      <3>1. ExchInvOf(c)
        BY <1>x
      <3> HIDE DEF r
      <3> QED
        BY <2>3, <3>1 DEF ExchInvOf
    <2>5. answer' = [answer EXCEPT ![<<c, phase[c]>>] = r]
      BY <1>3
    <2> HIDE DEF r
    <2> QED
      BY <1>x, <1>3, <2>2, <2>3, <2>4, <2>5, TellStep
  <1>4. ASSUME NEW c \in Calls, ReturnAnswer(c) PROVE Once!ANext
    <2>1. PICK seen \in Seen(c): answer' = [answer EXCEPT ![<<c, phase[c]>>] = Answer(phase[c], reply[c].status, seen)]
      BY <1>4 DEF ReturnAnswer, Done
    <2>2. Returned(c) /\ UNCHANGED performed
      BY <1>4 DEF ReturnAnswer
    <2> QED
      BY <1>3, <2>1, <2>2
  <1>5. ASSUME NEW c \in Calls, Reserved(c) PROVE Once!ANext
    <2>1. PICK seen \in Seen(c): Answer(phase[c], reply[c].status, seen) = "ok"
      BY <1>5 DEF Reserved
    <2>2. Returned(c) /\ UNCHANGED performed /\ answer' = [answer EXCEPT ![<<c, phase[c]>>] = "ok"]
      BY <1>5 DEF Reserved
    <2>3. answer' = [answer EXCEPT ![<<c, phase[c]>>] = Answer(phase[c], reply[c].status, seen)]
      BY <2>1, <2>2
    <2> QED
      BY <1>3, <2>2, <2>3
  <1>6. ASSUME NEW c \in Calls, Process(c) PROVE Once!ANext \/ UNCHANGED Once!avars
    <2> DEFINE x == <<c, phase[c]>>
    <2>1. UNCHANGED answer /\ reply[c] = Sent
      BY <1>6 DEF Process
    <2>2. performed[x] = 0 /\ answer[x] \in {"none", "error"} /\ x \in Exchanges
      <3>1. ExchInvOf(c) /\ x \in Exchanges
        BY <1>x
      <3>2. performed[<<c, phase[c]>>] = 0 /\ answer[<<c, phase[c]>>] \in {"none", "error"}
        BY <2>1, <3>1, OnTheWire, NothingBefore
      <3> QED
        BY <3>1, <3>2
    <2>3. performed' = performed \/ performed' = [performed EXCEPT ![x] = @ + 1]
      BY <1>6 DEF Process
    <2>4. Reports[x] \in {"none", "unknown"}
      <3>1. "error" \in Outcomes \ ({"none", "ok"} \cup Refusals)
        BY DEF Outcomes, Refusals
      <3> QED
        BY <2>2, <3>1, ReportCases DEF Reports
    <2> HIDE DEF x
    <2>5. CASE performed' = [performed EXCEPT ![x] = @ + 1]
      <3>1. performed' = [performed EXCEPT ![x] = 1]
        BY <2>2, <2>5
      <3>2. Once!Perform(x)
        BY <2>1, <2>2, <2>4, <3>1, ReportsKept DEF Once!Perform, Reports
      <3> QED
        BY <2>2, <3>2 DEF Once!ANext
    <2> QED
      BY <1>0, <2>1, <2>3, <2>5
  <1>7. ASSUME NEW c \in Calls,
               \/ Begin(c) \/ GetHit(c) \/ GetMiss(c) \/ Invalidate(c) \/ Issue(c) \/ MintOk(c) \/ Send(c)
               \/ RetryOn401(c) \/ PutOk(c) \/ PutFails(c)
        PROVE  UNCHANGED Once!avars
    BY <1>0, <1>7 DEF Begin, GetHit, GetMiss, Invalidate, Issue, MintOk, Send, RetryOn401, PutOk, PutFails
  <1>8. ASSUME NEW a \in Accounts, HandleRefreshJWT(a) \/ Revoke(a) PROVE UNCHANGED Once!avars
    BY <1>0, <1>8 DEF HandleRefreshJWT, Revoke
  <1>9. Tick \/ UNCHANGED vars => UNCHANGED Once!avars
    BY <1>0 DEF Tick, vars
  <1> QED
    BY <1>1, <1>2, <1>4, <1>5, <1>6, <1>7, <1>8, <1>9, NextCases DEF NextStep
----------------------------------------------------------------------------
(* The theorems *)

SessionInv == TypeOK /\ LockInv /\ IssuedInv /\ TokenInv /\ MintInv /\ ExchInv

LEMMA SessionInvInit == Init => SessionInv
  <1> SUFFICES ASSUME Init PROVE SessionInv
    OBVIOUS
  <1> USE SessionConstants
  <1>1. TypeOK /\ LockInv /\ IssuedInv
    BY TypeOKInit DEF Init, LockInv, IssuedInv, IssuedOf
  <1>2. TokenInv
    BY DEF Init, TokenInv, HasToken
  <1>3. MintInv
    <2>1. ASSUME NEW a \in Accounts PROVE Dropping(a) = {}
      BY DEF Init, Dropping
    <2>2. ASSUME NEW a \in Accounts PROVE Cardinality(Dropping(a)) = 0
      BY <2>1, FS_EmptySet
    <2> QED
      BY <2>2 DEF Init, MintInv, Coming, OnTheWay
  <1>4. ASSUME NEW c \in Calls PROVE ExchInvOf(c)
    <2>1. <<c, phase[c]>> \in Exchanges /\ <<c, "media_commit">> \in Exchanges
      BY <1>1 DEF TypeOK, Exchanges, Phases
    <2> QED
      BY <2>1, ReplyKinds DEF Init, ExchInvOf
  <1> QED
    BY <1>1, <1>2, <1>3, <1>4 DEF SessionInv, ExchInv

LEMMA SessionInvNext == SessionInv /\ [Next]_vars => SessionInv'
  <1> SUFFICES ASSUME SessionInv, [Next]_vars PROVE SessionInv'
    OBVIOUS
  <1>1. CASE Next
    <2>1. TypeOK' /\ LockInv' /\ IssuedInv' /\ TokenInv'
      BY <1>1, NextCases, TypeOKNext, LockInvNext, IssuedInvNext, TokenInvNext DEF SessionInv, TokenInv
    <2>2. MintInv' /\ ExchInv'
      BY <1>1, NextCases, MintInvNext, ExchInvNext DEF SessionInv
    <2> QED
      BY <2>1, <2>2 DEF SessionInv
  <1>2. CASE UNCHANGED vars
    <2>1. TypeOK' /\ LockInv' /\ IssuedInv' /\ TokenInv'
      BY <1>2 DEF SessionInv, TypeOK, LockInv, Fresh, IssuedInv, IssuedOf, TokenInv, HasToken, vars
    <2>2. MintInv'
      BY <1>2 DEF SessionInv, MintInv, Coming, OnTheWay, Dropping, vars
    <2>3. ExchInv'
      <3>1. ASSUME NEW d \in Calls PROVE ExchInvOf(d)'
        BY <1>2, ExchKept DEF SessionInv, ExchInv, vars
      <3> QED
        BY <3>1 DEF ExchInv
    <2> QED
      BY <2>1, <2>2, <2>3 DEF SessionInv
  <1> QED
    BY <1>1, <1>2

THEOREM SessionInvariant == Spec => []SessionInv
  BY SessionInvInit, SessionInvNext, PTL DEF Spec

\* internal/core/jwt/jwt.go under client.go's doWithRetry: for any number of concurrent calls,
\* revocations, flushes, lost and slow mints and any difference of the clocks, the second send
\* never carries the token that was refused, every token issued is accounted for by a lapse, a
\* drop, a lost reply, the cached token or the one on its way (drops never exceed refused
\* requests and flushes), and a refusal is explained by a revocation, by more than the slack
\* since Get, or by a mint that took nearly the token's life.
THEOREM TokensAlwaysAccounted == Spec => []TokensAccounted
  <1>1. SessionInv => TokensAccounted
    <2> SUFFICES ASSUME SessionInv PROVE TokensAccounted
      OBVIOUS
    <2> USE SessionConstants
    <2>1. TypeOK /\ RetryUsesNewToken
      BY DEF SessionInv, TokenInv, RetryUsesNewToken
    <2>2. MintsExplained
      <3>1. ASSUME NEW a \in Accounts PROVE dropped[a] <= refused[a] + flushes
        <4>1. dropped[a] + Cardinality(Dropping(a)) <= refused[a] + flushes
          BY DEF SessionInv, MintInv
        <4>2. dropped[a] \in Nat /\ refused[a] \in Nat /\ flushes \in Nat /\ Cardinality(Dropping(a)) \in Nat
          BY DroppingSize DEF SessionInv, TypeOK
        <4> QED
          BY <4>1, <4>2
      <3>2. ASSUME NEW a \in Accounts, NEW c \in OnTheWay(a), NEW d \in OnTheWay(a) PROVE c = d
        BY <3>2 DEF SessionInv, OnTheWay, IssuedInv, IssuedOf, LockInv
      <3> QED
        BY <3>1, <3>2 DEF SessionInv, MintInv, MintsExplained, Coming
    <2>3. RefusalExplained
      <3> SUFFICES ASSUME NEW c \in Calls, reply[c] = Sent, ~Accepts(c),
                          ~(token[c].serial <= revokedTo[AccountOf[c]])
                   PROVE  \/ now > token[c].got + SlackSeconds + Drift
                          \/ token[c].took >= Lifetime - SlackSeconds - Drift
        BY DEF RefusalExplained
      <3>1. token[c] \in Tokens
        BY ReplyKinds DEF SessionInv, TokenInv, HasToken
      <3>2. Kept(token[c])
        BY <3>1 DEF SessionInv, TokenInv
      <3>3. /\ token[c].exp \in Nat /\ token[c].got \in Nat /\ token[c].took \in Nat /\ token[c].serial \in Nat /\ now \in Nat
            /\ revokedTo[AccountOf[c]] \in Nat
        BY <3>1 DEF SessionInv, TypeOK, Tokens, Serials
      <3> QED
        BY <3>2, <3>3 DEF Accepts, Kept
    <2> QED
      BY <2>1, <2>2, <2>3 DEF TokensAccounted
  <1> QED
    BY <1>1, SessionInvariant, PTL

\* doWithRetry's one retry implements AtMostOnce: whatever is refused, revoked,
\* lost or late, upstream performs an exchange at most once, success is never
\* reported without it and a typed refusal never with it, before or after.
THEOREM SessionRefines == Spec => ImplementsAtMostOnce
  <1>1. SessionInv /\ [Next]_vars => [Once!ANext]_(Once!avars)
    BY RefinedNext DEF SessionInv
  <1> QED
    BY <1>1, RefinedInit, SessionInvariant, PTL DEF Spec, Once!ASpec, ImplementsAtMostOnce
============================================================================

--------------------------- MODULE WebhookProofs ---------------------------
(***************************************************************************)
(* Theorems about Webhook for any number of calls, attempts and delivery   *)
(* slots.                                                                  *)
(***************************************************************************)
EXTENDS Webhook, FiniteSetTheorems, TLAPS

\* Calls whose goroutine is at one of the labels.
At(labels) == {c \in Calls : pc[c] \in labels}
Count(labels) == Cardinality(At(labels))

InPost == {"post", "backoff", "leaving"}
InGroup == {"waiting", "post", "backoff", "leaving"}
NotCounted == {"enqueued", "waiting", "post", "backoff"}
BeforeEnd == {"idle", "rejected", "checked", "enqueued", "waiting", "post", "backoff"}

\* The types of everything that is not a gauge.
Typed ==
    /\ pc \in [Calls -> CallPC]
    /\ attempts \in [Calls -> 0..MaxRetry]
    /\ result \in [Calls -> {"none", "delivered", "failed"}]
    /\ enqueued \in Nat /\ delivered \in Nat /\ failed \in Nat /\ dropped \in Nat
    /\ accepting \in BOOLEAN /\ aborted \in BOOLEAN /\ waited \in BOOLEAN
    /\ closer \in {"open", "closing", "drained", "expired", "exited"}
    /\ missed \subseteq Calls

\* Each gauge counts the goroutines at the labels where the code holds it.
Gauges ==
    /\ sem = Count(InPost) /\ sem <= Concurrency
    /\ wg = Count(InGroup)
    /\ inFlight = Count(InGroup)
    /\ enqueued = delivered + failed + Count(NotCounted)

Attempts ==
    \A c \in Calls :
        /\ pc[c] \in BeforeEnd => attempts[c] < MaxRetry /\ result[c] = "none"
        /\ result[c] = "failed" => attempts[c] = MaxRetry \/ aborted

Closing ==
    /\ closer # "open" => ~accepting
    /\ waited => closer # "open" /\ Running \subseteq missed

WInv == Typed /\ Gauges /\ Attempts /\ Closing

-----------------------------------------------------------------------------
\* The calls are finitely many, so every count is a number.
LEMMA CountFinite == \A L : IsFiniteSet(At(L)) /\ Count(L) \in Nat
  <1>1. \A L : IsFiniteSet(At(L))
    BY CallsAssumption, FS_Subset DEF At
  <1> QED
    BY <1>1, FS_CardinalityType DEF Count

\* What a goroutine's step does to the number of goroutines at a set of labels.
LEMMA StepCount ==
  ASSUME Typed, NEW c \in Calls, NEW from, NEW to, Step(c, from, to), NEW L
  PROVE  Count(L)' = Count(L) + (IF to \in L THEN 1 ELSE 0) - (IF from \in L THEN 1 ELSE 0)
  <1>0. pc[c] = from /\ pc' = [pc EXCEPT ![c] = to] /\ pc \in [Calls -> CallPC]
    BY DEF Step, Typed
  <1>1. IsFiniteSet(At(L)) /\ Count(L) \in Nat
    BY CountFinite
  <1>p. pc'[c] = to /\ \A d \in Calls \ {c}: pc'[d] = pc[d]
    BY <1>0
  <1>2. CASE to \in L /\ from \notin L
    <2>1. At(L)' = At(L) \union {c} /\ c \notin At(L)
      BY <1>0, <1>p, <1>2 DEF At
    <2> QED
      BY <1>1, <1>2, <2>1, FS_AddElement DEF Count
  <1>3. CASE to \notin L /\ from \in L
    <2>1. At(L)' = At(L) \ {c} /\ c \in At(L)
      BY <1>0, <1>p, <1>3 DEF At
    <2>2. Cardinality(At(L) \ {c}) = Cardinality(At(L)) - 1
      BY ONLY <1>1, <2>1, FS_RemoveElement
    <2> QED
      BY <1>1, <1>3, <2>1, <2>2 DEF Count
  <1>4. CASE (to \in L) <=> (from \in L)
    <2>1. At(L)' = At(L)
      BY <1>0, <1>p, <1>4 DEF At
    <2> QED
      BY <1>1, <1>4, <2>1 DEF Count
  <1> QED
    BY <1>2, <1>3, <1>4

\* The initial state satisfies the invariant.
LEMMA InitWInv == Init => WInv
  <1> SUFFICES ASSUME Init PROVE WInv
    OBVIOUS
  <1>1. At(InPost) = {} /\ At(InGroup) = {} /\ At(NotCounted) = {}
    BY DEF Init, At, InPost, InGroup, NotCounted
  <1>2. Gauges
    BY <1>1, FS_EmptySet, ConcurrencyAssumption DEF Init, Gauges, Count
  <1>3. Typed
    <2>1. 0 \in 0..MaxRetry
      BY MaxRetryAssumption
    <2>2. pc \in [Calls -> CallPC] /\ attempts \in [Calls -> 0..MaxRetry]
      BY <2>1 DEF Init, CallPC
    <2>3. result \in [Calls -> {"none", "delivered", "failed"}]
      BY DEF Init
    <2> QED
      BY <2>2, <2>3 DEF Init, Typed
  <1>4. Attempts
    BY MaxRetryAssumption DEF Init, Attempts
  <1>5. Closing
    BY DEF Init, Closing
  <1> QED
    BY <1>2, <1>3, <1>4, <1>5 DEF WInv

\* A call's step keeps the gauges.
LEMMA CallGauges ==
  ASSUME WInv, NEW c \in Calls, CallNext(c)
  PROVE  Gauges'
  <1> USE DEF WInv, Gauges
  <1>0. /\ Count(InPost) \in Nat /\ Count(InGroup) \in Nat /\ Count(NotCounted) \in Nat
        /\ enqueued \in Nat /\ delivered \in Nat /\ failed \in Nat /\ Typed
        /\ Concurrency \in Nat
    BY CountFinite, ConcurrencyAssumption DEF Typed
  <1> USE <1>0
  <1>1. CASE FireRejected(c)
    <2>1. Count(InPost)' = Count(InPost) /\ Count(InGroup)' = Count(InGroup)
            /\ Count(NotCounted)' = Count(NotCounted)
      BY <1>1, StepCount DEF FireRejected, InPost, InGroup, NotCounted
    <2> QED
      BY <1>1, <2>1 DEF FireRejected
  <1>2. CASE FireChecked(c)
    <2>1. Count(InPost)' = Count(InPost) /\ Count(InGroup)' = Count(InGroup)
            /\ Count(NotCounted)' = Count(NotCounted)
      BY <1>2, StepCount DEF FireChecked, InPost, InGroup, NotCounted
    <2> QED
      BY <1>2, <2>1 DEF FireChecked, stats
  <1>3. CASE FireCounts(c)
    <2>1. Count(InPost)' = Count(InPost) /\ Count(InGroup)' = Count(InGroup)
            /\ Count(NotCounted)' = Count(NotCounted) + 1
      BY <1>3, StepCount DEF FireCounts, InPost, InGroup, NotCounted
    <2> QED
      BY <1>3, <2>1 DEF FireCounts
  <1>4. CASE FireStarts(c)
    <2>1. Count(InPost)' = Count(InPost) /\ Count(InGroup)' = Count(InGroup) + 1
            /\ Count(NotCounted)' = Count(NotCounted)
      BY <1>4, StepCount DEF FireStarts, InPost, InGroup, NotCounted
    <2> QED
      BY <1>4, <2>1 DEF FireStarts
  <1>5. CASE Acquire(c)
    <2>1. Count(InPost)' = Count(InPost) + 1 /\ Count(InGroup)' = Count(InGroup)
            /\ Count(NotCounted)' = Count(NotCounted)
      BY <1>5, StepCount DEF Acquire, InPost, InGroup, NotCounted
    <2> QED
      BY <1>5, <2>1 DEF Acquire, stats
  <1>6. CASE PostDelivered(c)
    <2>1. Count(InPost)' = Count(InPost) /\ Count(InGroup)' = Count(InGroup)
            /\ Count(NotCounted)' = Count(NotCounted) - 1
      BY <1>6, StepCount DEF PostDelivered, InPost, InGroup, NotCounted
    <2> QED
      BY <1>6, <2>1 DEF PostDelivered
  <1>7. CASE PostRetries(c) \/ BackoffElapses(c)
    <2>1. Count(InPost)' = Count(InPost) /\ Count(InGroup)' = Count(InGroup)
            /\ Count(NotCounted)' = Count(NotCounted)
      BY <1>7, StepCount DEF PostRetries, BackoffElapses, InPost, InGroup, NotCounted
    <2> QED
      BY <1>7, <2>1 DEF PostRetries, BackoffElapses, stats
  <1>8. CASE PostGivesUp(c) \/ BackoffAborts(c)
    <2>1. Count(InPost)' = Count(InPost) /\ Count(InGroup)' = Count(InGroup)
            /\ Count(NotCounted)' = Count(NotCounted) - 1
      BY <1>8, StepCount DEF PostGivesUp, BackoffAborts, InPost, InGroup, NotCounted
    <2> QED
      BY <1>8, <2>1 DEF PostGivesUp, BackoffAborts
  <1>9. CASE Leave(c)
    <2>1. Count(InPost)' = Count(InPost) - 1 /\ Count(InGroup)' = Count(InGroup) - 1
            /\ Count(NotCounted)' = Count(NotCounted)
      BY <1>9, StepCount DEF Leave, InPost, InGroup, NotCounted
    <2> QED
      BY <1>9, <2>1 DEF Leave
  <1> QED
    BY <1>1, <1>2, <1>3, <1>4, <1>5, <1>6, <1>7, <1>8, <1>9 DEF CallNext

\* A call's step keeps the rest of the invariant.
LEMMA CallWInv ==
  ASSUME WInv, NEW c \in Calls, CallNext(c)
  PROVE  WInv'
  <1>1. Gauges'
    BY CallGauges
  <1>2. Typed'
    <2> USE MaxRetryAssumption DEF WInv, Typed, Step, CallPC
    <2>1. CASE FireRejected(c) \/ FireChecked(c) \/ FireCounts(c) \/ FireStarts(c)
                 \/ Acquire(c) \/ BackoffElapses(c) \/ Leave(c)
      BY <2>1 DEF FireRejected, FireChecked, FireCounts, FireStarts, Acquire,
         BackoffElapses, Leave, stats
    <2>2. CASE PostDelivered(c)
      BY <2>2 DEF PostDelivered, Attempts, BeforeEnd
    <2>3. CASE PostRetries(c) \/ PostGivesUp(c)
      BY <2>3 DEF PostRetries, PostGivesUp, stats
    <2>4. CASE BackoffAborts(c)
      BY <2>4 DEF BackoffAborts
    <2> QED
      BY <2>1, <2>2, <2>3, <2>4 DEF CallNext
  <1>3. Attempts'
    <2> USE MaxRetryAssumption DEF WInv, Typed, Step, Attempts, BeforeEnd
    <2>1. CASE FireRejected(c) \/ FireChecked(c) \/ FireCounts(c) \/ FireStarts(c)
                 \/ Acquire(c) \/ BackoffElapses(c) \/ Leave(c)
      BY <2>1 DEF FireRejected, FireChecked, FireCounts, FireStarts, Acquire,
         BackoffElapses, Leave
    <2>2. CASE PostDelivered(c)
      BY <2>2 DEF PostDelivered
    <2>3. CASE PostRetries(c)
      BY <2>3 DEF PostRetries
    <2>4. CASE PostGivesUp(c)
      BY <2>4 DEF PostGivesUp
    <2>5. CASE BackoffAborts(c)
      BY <2>5 DEF BackoffAborts
    <2> QED
      BY <2>1, <2>2, <2>3, <2>4, <2>5 DEF CallNext
  <1>4. Closing'
    <2>1. UNCHANGED <<closer, accepting, waited, missed>>
      BY DEF CallNext, FireRejected, FireChecked, FireCounts, FireStarts, Acquire,
         PostDelivered, PostRetries, PostGivesUp, BackoffElapses, BackoffAborts, Leave
    <2>2. CASE FireChecked(c)
      BY <2>1, <2>2 DEF FireChecked, WInv, Closing
    <2>3. CASE ~FireChecked(c)
      <3>1. Running' \subseteq Running
        BY <2>3 DEF WInv, Typed, CallNext, FireRejected, FireCounts, FireStarts, Acquire,
           PostDelivered, PostRetries, PostGivesUp, BackoffElapses, BackoffAborts, Leave,
           Step, Running
      <3> QED
        BY <2>1, <3>1 DEF WInv, Closing
    <2> QED
      BY <2>2, <2>3
  <1> QED
    BY <1>1, <1>2, <1>3, <1>4 DEF WInv

\* Close and the exit keep the invariant; wg.Wait returns only when every goroutine
\* in the group is done.
LEMMA CloseWInv ==
  ASSUME WInv, CloseNext
  PROVE  WInv'
  <1>1. UNCHANGED <<pc, attempts, result, sem, wg, stats>>
    BY DEF CloseNext, CloseBegins, WaitReturns, CloseDrained, CloseExpired, Exit
  <1>2. Gauges'
    BY <1>1 DEF WInv, Gauges, Count, At, stats
  <1>3. Typed'
    BY <1>1 DEF WInv, Typed, stats, CloseNext, CloseBegins, WaitReturns, CloseDrained,
       CloseExpired, Exit
  <1>4. Attempts'
    BY <1>1 DEF WInv, Attempts, CloseNext, CloseBegins, WaitReturns, CloseDrained,
       CloseExpired, Exit
  <1>5. Closing'
    <2>1. CASE WaitReturns
      <3>1. At(InGroup) = {}
        BY <2>1, CountFinite, FS_EmptySet DEF WaitReturns, WInv, Gauges, Count
      <3>2. Running \subseteq {c \in Calls : pc[c] \in {"checked", "enqueued"}}
        BY <3>1 DEF Running, At, InGroup
      <3> QED
        BY <2>1, <3>2 DEF WaitReturns, WInv, Closing, Running
    <2>2. CASE CloseBegins \/ CloseDrained \/ CloseExpired \/ Exit
      BY <1>1, <2>2 DEF CloseBegins, CloseDrained, CloseExpired, Exit, WInv, Closing,
         Running
    <2> QED
      BY <2>1, <2>2 DEF CloseNext
  <1> QED
    BY <1>2, <1>3, <1>4, <1>5 DEF WInv

\* The invariant holds in every reachable state.
LEMMA SpecWInv == Spec => []WInv
  <1>1. WInv /\ [Next]_vars => WInv'
    <2> SUFFICES ASSUME WInv, [Next]_vars PROVE WInv'
      OBVIOUS
    <2>1. CASE UNCHANGED vars
      BY <2>1 DEF vars, stats, WInv, Typed, Gauges, Count, At, Attempts, Closing, Running
    <2> QED
      BY <2>1, CallWInv, CloseWInv DEF Next
  <1> QED
    BY <1>1, InitWInv, PTL DEF Spec

\* Every reachable state of the dispatcher is well typed; no gauge goes negative.
THEOREM WebhookTypes == Spec => []TypeOK
  <1>1. WInv => TypeOK
    BY CountFinite, ConcurrencyAssumption DEF WInv, Typed, Gauges, TypeOK
  <1> QED
    BY <1>1, SpecWInv, PTL

\* The sem tokens are those of the goroutines past the channel, at most Concurrency.
THEOREM WebhookTokens == Spec => []TokensMatch
  <1>1. WInv => TokensMatch
    BY DEF WInv, Gauges, TokensMatch, Posting, Count, At, InPost
  <1> QED
    BY <1>1, SpecWInv, PTL

\* Every accepted call is counted as delivered or failed exactly once.
THEOREM WebhookStats == Spec => []StatsBalance
  <1>1. WInv => StatsBalance
    BY DEF WInv, Gauges, StatsBalance, Unfinished, Count, At, NotCounted
  <1> QED
    BY <1>1, SpecWInv, PTL

\* A delivery is given up only after MaxRetry attempts or an expired shutdown.
THEOREM WebhookFailures == Spec => []FailureExplained
  <1>1. WInv => FailureExplained
    BY DEF WInv, Attempts, FailureExplained
  <1> QED
    BY <1>1, SpecWInv, PTL

\* When wg.Wait has returned, only calls that slipped between the check and wg.Add
\* are still running.
THEOREM WebhookDrain == Spec => []DrainCovers
  <1>1. WInv => DrainCovers
    BY DEF WInv, Closing, DrainCovers
  <1> QED
    BY <1>1, SpecWInv, PTL
=============================================================================

------------------------------ MODULE Webhook ------------------------------
(***************************************************************************)
(* webhook.Dispatcher: Fire, the delivery goroutine it starts, and Close   *)
(* at shutdown.  Fire is called by requests and by the pollworker, which   *)
(* main does not wait for, so a Fire may run at any point of Close.        *)
(***************************************************************************)
EXTENDS Integers, FiniteSets

CONSTANTS
    Calls,         \* calls of Fire with a URL, one delivery goroutine each
    MaxRetry,      \* delivery attempts per call
    Concurrency    \* capacity of the sem channel

ASSUME CallsAssumption == IsFiniteSet(Calls)
ASSUME MaxRetryAssumption == MaxRetry \in Nat \ {0}
ASSUME ConcurrencyAssumption == Concurrency \in Nat \ {0}

VARIABLES
    pc,         \* where each call, then its goroutine, is
    attempts,   \* POSTs made per call
    result,     \* what the target or the dispatcher made of it
    sem,        \* tokens in the sem channel
    wg,         \* the WaitGroup counter
    enqueued, delivered, failed, dropped, inFlight,   \* DispatcherStats
    accepting,  \* FALSE once Close closed the accepting channel
    aborted,    \* the closed channel is closed
    closer,     \* where Close is
    waited,     \* wg.Wait has returned in Close's goroutine
    missed      \* history: calls past the check but not in wg when it returned

stats == <<enqueued, delivered, failed, dropped, inFlight>>
vars == <<pc, attempts, result, sem, wg, stats, accepting, aborted, closer, waited,
          missed>>

CallPC == {"idle", "rejected", "checked", "enqueued", "waiting", "post", "backoff",
           "leaving", "done"}
Running == {c \in Calls : pc[c] \in {"checked", "enqueued", "waiting", "post",
                                     "backoff", "leaving"}}
Exited == closer = "exited"

TypeOK ==
    /\ pc \in [Calls -> CallPC]
    /\ attempts \in [Calls -> 0..MaxRetry]
    /\ result \in [Calls -> {"none", "delivered", "failed"}]
    /\ sem \in 0..Concurrency
    /\ wg \in Nat
    /\ enqueued \in Nat /\ delivered \in Nat /\ failed \in Nat /\ dropped \in Nat
    /\ inFlight \in Nat
    /\ accepting \in BOOLEAN /\ aborted \in BOOLEAN /\ waited \in BOOLEAN
    /\ closer \in {"open", "closing", "drained", "expired", "exited"}
    /\ missed \subseteq Calls

Init ==
    /\ pc = [c \in Calls |-> "idle"]
    /\ attempts = [c \in Calls |-> 0]
    /\ result = [c \in Calls |-> "none"]
    /\ sem = 0 /\ wg = 0
    /\ enqueued = 0 /\ delivered = 0 /\ failed = 0 /\ dropped = 0 /\ inFlight = 0
    /\ accepting = TRUE /\ aborted = FALSE
    /\ closer = "open" /\ waited = FALSE /\ missed = {}

\* A goroutine moves while the process is alive.
Step(c, from, to) ==
    /\ ~Exited
    /\ pc[c] = from
    /\ pc' = [pc EXCEPT ![c] = to]

-----------------------------------------------------------------------------
(* Fire                                                                    *)

FireRejected(c) ==
    /\ Step(c, "idle", "rejected")
    /\ ~accepting
    /\ dropped' = dropped + 1
    /\ UNCHANGED <<attempts, result, sem, wg, enqueued, delivered, failed, inFlight,
                   accepting, aborted, closer, waited, missed>>

\* The non-blocking select falls through: nothing is registered yet.
FireChecked(c) ==
    /\ Step(c, "idle", "checked")
    /\ accepting
    /\ UNCHANGED <<attempts, result, sem, wg, stats, accepting, aborted, closer,
                   waited, missed>>

FireCounts(c) ==
    /\ Step(c, "checked", "enqueued")
    /\ enqueued' = enqueued + 1
    /\ UNCHANGED <<attempts, result, sem, wg, delivered, failed, dropped, inFlight,
                   accepting, aborted, closer, waited, missed>>

\* inFlight and wg go up, the goroutine starts and blocks on sem.
FireStarts(c) ==
    /\ Step(c, "enqueued", "waiting")
    /\ inFlight' = inFlight + 1
    /\ wg' = wg + 1
    /\ UNCHANGED <<attempts, result, sem, enqueued, delivered, failed, dropped,
                   accepting, aborted, closer, waited, missed>>

-----------------------------------------------------------------------------
(* The delivery goroutine                                                  *)

Acquire(c) ==
    /\ Step(c, "waiting", "post")
    /\ sem < Concurrency
    /\ sem' = sem + 1
    /\ UNCHANGED <<attempts, result, wg, stats, accepting, aborted, closer, waited,
                   missed>>

\* deliver returns true.
PostDelivered(c) ==
    /\ Step(c, "post", "leaving")
    /\ attempts' = [attempts EXCEPT ![c] = @ + 1]
    /\ result' = [result EXCEPT ![c] = "delivered"]
    /\ delivered' = delivered + 1
    /\ UNCHANGED <<sem, wg, enqueued, failed, dropped, inFlight, accepting, aborted,
                   closer, waited, missed>>

\* A network error or a status outside 2xx, with attempts left.
PostRetries(c) ==
    /\ Step(c, "post", "backoff")
    /\ attempts[c] + 1 < MaxRetry
    /\ attempts' = [attempts EXCEPT ![c] = @ + 1]
    /\ UNCHANGED <<result, sem, wg, stats, accepting, aborted, closer, waited, missed>>

\* The last attempt failed: deliver returns false.
PostGivesUp(c) ==
    /\ Step(c, "post", "leaving")
    /\ attempts[c] + 1 = MaxRetry
    /\ attempts' = [attempts EXCEPT ![c] = @ + 1]
    /\ result' = [result EXCEPT ![c] = "failed"]
    /\ failed' = failed + 1
    /\ UNCHANGED <<sem, wg, enqueued, delivered, dropped, inFlight, accepting,
                   aborted, closer, waited, missed>>

BackoffElapses(c) ==
    /\ Step(c, "backoff", "post")
    /\ UNCHANGED <<attempts, result, sem, wg, stats, accepting, aborted, closer,
                   waited, missed>>

\* Mutant: the aborted delivery is not counted.
BackoffAbortUncounted(c) ==
    /\ Step(c, "backoff", "leaving")
    /\ aborted
    /\ result' = [result EXCEPT ![c] = "failed"]
    /\ UNCHANGED <<attempts, sem, wg, stats, accepting, aborted, closer, waited,
                   missed>>

\* The shutdown context expired during the backoff: deliver returns false.
BackoffAborts(c) ==
    /\ Step(c, "backoff", "leaving")
    /\ aborted
    /\ result' = [result EXCEPT ![c] = "failed"]
    /\ failed' = failed + 1
    /\ UNCHANGED <<attempts, sem, wg, enqueued, delivered, dropped, inFlight,
                   accepting, aborted, closer, waited, missed>>

\* Mutant: the token stays in sem.
LeaveKeepsToken(c) ==
    /\ Step(c, "leaving", "done")
    /\ inFlight' = inFlight - 1
    /\ wg' = wg - 1
    /\ UNCHANGED <<attempts, result, sem, enqueued, delivered, failed, dropped,
                   accepting, aborted, closer, waited, missed>>

\* The deferred calls: sem, inFlight, wg.
Leave(c) ==
    /\ Step(c, "leaving", "done")
    /\ sem' = sem - 1
    /\ inFlight' = inFlight - 1
    /\ wg' = wg - 1
    /\ UNCHANGED <<attempts, result, enqueued, delivered, failed, dropped, accepting,
                   aborted, closer, waited, missed>>

-----------------------------------------------------------------------------
(* Close, deferred in main with a 30 s context, and the exit after it      *)

\* Mutant: Close waits without refusing new calls.
CloseBeginsOpen ==
    /\ closer = "open"
    /\ closer' = "closing"
    /\ UNCHANGED <<pc, attempts, result, sem, wg, stats, accepting, aborted, waited,
                   missed>>

CloseBegins ==
    /\ closer = "open"
    /\ closer' = "closing"
    /\ accepting' = FALSE
    /\ UNCHANGED <<pc, attempts, result, sem, wg, stats, aborted, waited, missed>>

\* wg.Wait returns in the helper goroutine, which closes done.
WaitReturns ==
    /\ closer = "closing"
    /\ ~waited
    /\ wg = 0
    /\ waited' = TRUE
    /\ missed' = {c \in Calls : pc[c] \in {"checked", "enqueued"}}
    /\ UNCHANGED <<pc, attempts, result, sem, wg, stats, accepting, aborted, closer>>

CloseDrained ==
    /\ closer = "closing"
    /\ waited
    /\ closer' = "drained"
    /\ UNCHANGED <<pc, attempts, result, sem, wg, stats, accepting, aborted, waited,
                   missed>>

\* The shutdown context expires first.
CloseExpired ==
    /\ closer = "closing"
    /\ closer' = "expired"
    /\ aborted' = TRUE
    /\ UNCHANGED <<pc, attempts, result, sem, wg, stats, accepting, waited, missed>>

\* run returns and the process ends with every goroutine in it.
Exit ==
    /\ closer \in {"drained", "expired"}
    /\ closer' = "exited"
    /\ UNCHANGED <<pc, attempts, result, sem, wg, stats, accepting, aborted, waited,
                   missed>>

-----------------------------------------------------------------------------
CallNext(c) ==
    \/ FireRejected(c) \/ FireChecked(c) \/ FireCounts(c) \/ FireStarts(c)
    \/ Acquire(c)
    \/ PostDelivered(c) \/ PostRetries(c) \/ PostGivesUp(c)
    \/ BackoffElapses(c) \/ BackoffAborts(c)
    \/ Leave(c)

CloseNext == CloseBegins \/ WaitReturns \/ CloseDrained \/ CloseExpired \/ Exit

Next == (\E c \in Calls : CallNext(c)) \/ CloseNext

Spec == Init /\ [][Next]_vars

\* A goroutine that has been started is scheduled; postOnce ends by its timeout and
\* a backoff by its timer.  Nothing makes anybody call Fire or Close.
Delivery(c) == pc[c] # "idle" /\ CallNext(c)
FairSpec == Spec /\ \A c \in Calls : WF_vars(Delivery(c))

-----------------------------------------------------------------------------
(* Properties                                                              *)

Posting == {c \in Calls : pc[c] \in {"post", "backoff", "leaving"}}
Unfinished == {c \in Calls : pc[c] \in {"enqueued", "waiting", "post", "backoff"}}

\* At most Concurrency deliveries are past the sem channel, and its tokens are
\* exactly theirs: none is lost on an error or abort path.
TokensMatch == sem = Cardinality(Posting) /\ sem <= Concurrency

\* Every accepted call is counted as delivered or failed exactly once, whichever way
\* its goroutine ends.
StatsBalance == enqueued = delivered + failed + Cardinality(Unfinished)

\* A delivery is given up only after MaxRetry attempts, or because Close's context
\* expired.
FailureExplained ==
    \A c \in Calls : result[c] = "failed" => attempts[c] = MaxRetry \/ aborted

\* Once Close has drained, the only goroutines left are calls that had passed the
\* accepting check but not reached wg.Add when wg.Wait returned.
DrainCovers == waited => Running \subseteq missed

\* A delivery that started ends, or the process does.
DeliveriesEnd ==
    \A c \in Calls : pc[c] = "waiting" ~> (pc[c] = "done" \/ Exited)
=============================================================================

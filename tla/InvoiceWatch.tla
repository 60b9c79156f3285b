---------------------------- MODULE InvoiceWatch ----------------------------
(* internal/core/invoicewatch: an account with pending invoices gets its   *)
(* auto-top-up retried, a few times per window, then one warning.          *)
EXTENDS Clock, Sequences

CONSTANTS
    Payers,        \* the active accounts
    RetryWindow, MaxRetriesPerWindow,
    NoBudget

RetryState == [windowStart: Nat, count: 0..MaxRetriesPerWindow, alerted: BOOLEAN]

ASSUME InvoiceAssumption ==
    /\ RetryWindow \in Nat /\ MaxRetriesPerWindow \in Nat \ {0}
    /\ NoBudget \notin RetryState

VARIABLES
    states,        \* account -> its retryState, or NoBudget
    watching,      \* account -> watchOne is past the fetch
    retriesAt,     \* account -> the times of the retries sent, in order (history)
    warnedAt       \* account -> the times of the exhaustion warnings (history)

invoiceVars == <<states, watching, retriesAt, warnedAt>>

InvoiceInit ==
    /\ states = [a \in Payers |-> NoBudget]
    /\ watching = [a \in Payers |-> FALSE]
    /\ retriesAt = [a \in Payers |-> <<>>]
    /\ warnedAt = retriesAt

\* watchOne's fetch reports pending invoices; an error or an empty list ends
\* it with nothing done.
FetchPending(a) ==
    /\ ~watching[a]
    /\ watching' = [watching EXCEPT ![a] = TRUE]
    /\ UNCHANGED <<states, retriesAt, warnedAt>>

\* Mutant: the window is one unit short.
CurrentShort(a) ==
    IF states[a] = NoBudget \/ now - states[a].windowStart + 1 >= RetryWindow
    THEN [windowStart |-> now, count |-> 0, alerted |-> FALSE]
    ELSE states[a]

\* reserveRetry's window: it starts with the first call after the last one
\* elapsed.
Current(a) ==
    IF states[a] = NoBudget \/ now - states[a].windowStart >= RetryWindow
    THEN [windowStart |-> now, count |-> 0, alerted |-> FALSE]
    ELSE states[a]

\* reserveRetry with budget left, then RetryAutoTopUp, whose outcome is only
\* logged.
ReserveRetry(a) ==
    /\ watching[a]
    /\ Current(a).count < MaxRetriesPerWindow
    /\ states' = [states EXCEPT ![a] = [Current(a) EXCEPT !.count = @ + 1]]
    /\ retriesAt' = [retriesAt EXCEPT ![a] = Append(@, now)]
    /\ watching' = [watching EXCEPT ![a] = FALSE]
    /\ UNCHANGED warnedAt

\* reserveRetry without budget, then alertExhausted: flagged before it is
\* sent, and a failed Send is only logged.
AlertExhausted(a) ==
    /\ watching[a]
    /\ Current(a).count >= MaxRetriesPerWindow
    /\ warnedAt' = [warnedAt EXCEPT ![a] = IF states[a].alerted THEN @ ELSE Append(@, now)]
    /\ states' = [states EXCEPT ![a].alerted = TRUE]
    /\ watching' = [watching EXCEPT ![a] = FALSE]
    /\ UNCHANGED retriesAt

\* The states are in memory.
InvoiceRestart ==
    /\ states' = [a \in Payers |-> NoBudget]
    /\ watching' = [a \in Payers |-> FALSE]
    /\ UNCHANGED <<retriesAt, warnedAt>>

InvoiceNext == \E a \in Payers:
    FetchPending(a) \/ ReserveRetry(a) \/ AlertExhausted(a)

\* invoicewatch.go:39 "in a rolling window": the window is fixed and starts
\* lazily, so what the code keeps is weaker.  A stretch of RetryWindow meets
\* the retries of two windows but never all of both, and each restart grants
\* one more budget: that many retries, and one more, take RetryWindow.
RetriesBounded ==
    LET most == 2 * MaxRetriesPerWindow - 1 + MaxRetriesPerWindow * restarts
    IN  \A a \in Payers: \A i, j \in DOMAIN retriesAt[a]:
            j = i + most => retriesAt[a][j] - retriesAt[a][i] >= RetryWindow

\* alertExhausted "at most once per 24h window": every warning is paid for by
\* a whole budget of retries of its own, sent before it.
WarnedAfterBudget ==
    \A a \in Payers: \A i \in DOMAIN warnedAt[a]: LET paid == MaxRetriesPerWindow * i IN
        paid \in DOMAIN retriesAt[a] /\ retriesAt[a][paid] <= warnedAt[a][i]

\* watchOne: what an account is retried and warned in any stretch of time.
InvoiceBudgetKept == RetriesBounded /\ WarnedAfterBudget
=============================================================================

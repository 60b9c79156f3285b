----------------------------- MODULE Replenish -----------------------------
(* internal/core/replenish: every interval one look at the pool, and an    *)
(* operator alert for each signal it raises, at most one per dedup window. *)
EXTENDS Clock, FiniteSetsExt

CONSTANTS
    Stock,          \* the accounts of the pool
    Conditions,     \* what an account's row can say, as records
    CreditFloor, ExhaustionPct, PlanEndingDays, PlanEndingThreshold,
    MinUnlimPool, DedupWindow,
    Lossy           \* signals whose alerts may be lost in this instance

Signals == {"S1:unlim", "S2:credit_exhaustion", "S3:grace", "S3:blocked", "S5:plans_ending"}
ASSUME ReplenishAssumption == DedupWindow \in Nat \ {0} /\ Lossy \subseteq Signals

Quiet == -1

VARIABLES
    shelf,        \* account -> its row
    scan,         \* [pc, rows]: the pass under way and the rows it listed
    lastFired,    \* Replenish.muted: when the signal last went to the notifier
    toldAt,       \* when the operator was last told of it by this process (history)
    lostAt        \* when an alert about it last failed (history)

alerts == <<lastFired, toldAt, lostAt>>
replenishVars == <<shelf, scan, alerts>>

NoAlerts == [s \in Signals |-> Quiet]
NoScan == [pc |-> "idle", rows |-> {}]

ReplenishInit ==
    /\ shelf = [a \in Stock |-> CHOOSE c \in Conditions: c.active]   \* RowChanges reaches the rest
    /\ scan = NoScan
    /\ lastFired = NoAlerts /\ toldAt = NoAlerts /\ lostAt = NoAlerts
----------------------------------------------------------------------------
(* The signals, over a list of active rows *)

Exhausted(rows) == {r \in rows: r[2].credits + r[2].subscription \div 100 < CreditFloor}
CreditExhaustion(rows) ==
    rows # {} /\ Cardinality(Exhausted(rows)) * 100 > ExhaustionPct * Cardinality(rows)

PlansEnding(rows) ==
    Cardinality({r \in rows: r[2].ends # 0 /\ r[2].ends < now + PlanEndingDays}) > PlanEndingThreshold

GraceAccounts(rows) == \E r \in rows: r[2].grace
FlaggedAccounts(rows) == \E r \in rows: r[2].flagged

CountActiveUnlim == Cardinality({a \in Stock: shelf[a].active /\ shelf[a].unlim > now})

\* The signals a pass raises from the rows it listed.
RaisedBy(rows) ==
    {s \in Signals: \/ s = "S2:credit_exhaustion" /\ CreditExhaustion(rows)
                    \/ s = "S5:plans_ending" /\ PlansEnding(rows)
                    \/ s = "S3:grace" /\ GraceAccounts(rows)
                    \/ s = "S3:blocked" /\ FlaggedAccounts(rows)}
----------------------------------------------------------------------------
(* once *)

\* List(status = active), with the columns each row had then.
ListActive == {<<a, shelf[a]>>: a \in {b \in Stock: shelf[b].active}}
StartScan ==
    /\ scan.pc = "idle"
    /\ scan' = [pc |-> "rows", rows |-> ListActive]
    /\ UNCHANGED <<shelf, alerts>>
\* A failed list costs this pass its row signals, not the pool depth.
ListFails ==
    /\ scan.pc = "idle"
    /\ scan' = [NoScan EXCEPT !.pc = "unlim"]
    /\ UNCHANGED <<shelf, alerts>>

\* Mutant: one key for both S3 signals.
MutedByEither(s) ==
    \E k \in (IF s \in {"S3:grace", "S3:blocked"} THEN {"S3:grace", "S3:blocked"} ELSE {s}):
        lastFired[k] # Quiet /\ now - lastFired[k] < DedupWindow
MutedSignal(s) == lastFired[s] # Quiet /\ now - lastFired[s] < DedupWindow

\* fire for each raised signal: the mute is recorded before the alert is
\* sent, and a failed Send is only logged.
Fire(raised) == LET fired == {s \in raised: ~MutedSignal(s)} IN
    \E lost \in SUBSET (fired \cap Lossy):
        /\ lastFired' = [s \in Signals |-> IF s \in fired THEN now ELSE lastFired[s]]
        /\ toldAt' = [s \in Signals |-> IF s \in fired \ lost THEN now ELSE toldAt[s]]
        /\ lostAt' = [s \in Signals |-> IF s \in lost THEN now ELSE lostAt[s]]

CheckRows ==
    /\ scan.pc = "rows"
    /\ Fire(RaisedBy(scan.rows))
    /\ scan' = [NoScan EXCEPT !.pc = "unlim"]
    /\ UNCHANGED shelf

CheckUnlimPools ==
    /\ scan.pc = "unlim"
    /\ Fire(IF CountActiveUnlim < MinUnlimPool THEN {"S1:unlim"} ELSE {})
    /\ scan' = NoScan
    /\ UNCHANGED shelf
CountFails ==
    /\ scan.pc = "unlim"
    /\ scan' = NoScan
    /\ UNCHANGED <<shelf, alerts>>

\* The rest of the program updates a row.
RowChanges(a, c) ==
    /\ shelf[a] # c
    /\ shelf' = [shelf EXCEPT ![a] = c]
    /\ UNCHANGED <<scan, alerts>>

ReplenishRestart ==
    /\ scan' = NoScan
    /\ lastFired' = NoAlerts /\ toldAt' = NoAlerts /\ lostAt' = NoAlerts
    /\ UNCHANGED shelf

ReplenishNext ==
    \/ StartScan \/ ListFails \/ CheckRows \/ CheckUnlimPools \/ CountFails
    \/ \E a \in Stock, c \in Conditions: RowChanges(a, c)

\* replenish.go: "the same signal fires at most once per 24h. A process
\* restart re-arms every signal (one extra alert)".
ToldOnce(s) ==
    toldAt'[s] \notin {toldAt[s], Quiet} /\ toldAt[s] # Quiet
    => toldAt'[s] - toldAt[s] >= DedupWindow

\* A pass that sees a shortage leaves the operator told of it within the window, unless an
\* alert about this very shortage failed within the window: what other signals raised, sent
\* or lost, and what was listed in earlier passes, silences nobody.
Within(t) == t # Quiet /\ now - t < DedupWindow
Told(s) ==
    \/ CheckRows /\ s \in RaisedBy(scan.rows)
    \/ CheckUnlimPools /\ s = "S1:unlim" /\ CountActiveUnlim < MinUnlimPool
    => Within(toldAt'[s]) \/ Within(lostAt'[s])

\* fire: an operator is told of a shortage within its window, or its alert was lost, and
\* never twice in a window.
AlertsKept == [][\A s \in Signals: ToldOnce(s) /\ Told(s)]_replenishVars
=============================================================================

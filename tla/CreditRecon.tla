---------------------------- MODULE CreditRecon ----------------------------
(* internal/core/creditrecon: once a day each account's spend of the month *)
(* of yesterday, upstream's against our own, and one warning per account   *)
(* and month when they are further apart than the tolerance.               *)
EXTENDS Clock, FiniteSetsExt

CONSTANTS
    Spenders,
    MonthDays, PruneDays,
    FloorH, RelativePct,   \* the tolerance: an amount, and percent of upstream's
    MaxSpent               \* bound on the totals of a month

\* A key is kept for sixty days, the days its month is the target and one more.
ASSUME ReconAssumption ==
    /\ MonthDays \in Nat \ {0} /\ PruneDays \in Nat /\ MonthDays + 1 < PruneDays /\ MaxSpent \in Nat

Months == 0..(MaxTime \div MonthDays)
ReconKeys == Spenders \X Months
NotMuted == -1

VARIABLES
    pass,        \* account -> its reconOne: step, month, what it read
    reconMuted,  \* account, month -> time of its warning, or NotMuted
    warned       \* account, month -> warnings sent (history)

reconVars == <<pass, reconMuted, warned>>

Idle == [step |-> "idle", month |-> 0, upstream |-> 0, day |-> 0]

ReconInit ==
    /\ pass = [a \in Spenders |-> Idle]
    /\ reconMuted = [k \in ReconKeys |-> NotMuted]
    /\ warned = [k \in ReconKeys |-> 0]

MonthOf(t) == t \div MonthDays

\* targetWindow: the month yesterday was in.
TargetWindow == IF now = 0 THEN 0 ELSE MonthOf(now - 1)

\* once, for one account; the window is fixed before the fan-out.
StartRecon(a) ==
    /\ pass[a].step = "idle"
    /\ pass' = [pass EXCEPT ![a] = [Idle EXCEPT !.step = "fetch", !.month = TargetWindow,
                                              !.day = now]]
    /\ UNCHANGED <<reconMuted, warned>>

\* FetchCreditLedgerStatistics: the month's total, or zero for a body that was
\* cut short.
FetchLedger(a) ==
    /\ pass[a].step = "fetch"
    /\ \E total \in 0..MaxSpent:
         pass' = [pass EXCEPT ![a].step = "sum", ![a].upstream = total]
    /\ UNCHANGED <<reconMuted, warned>>

\* Either read fails: the account is left for tomorrow.
ReconFails(a) ==
    /\ pass[a].step \in {"fetch", "sum"}
    /\ pass' = [pass EXCEPT ![a] = Idle]
    /\ UNCHANGED <<reconMuted, warned>>

ThresholdH(upstream) ==
    IF upstream <= 0 THEN FloorH ELSE Max({FloorH, (upstream * RelativePct) \div 100})

Mismatch(upstream, local) ==
    LET diff == upstream - local
    IN  (IF diff < 0 THEN -diff ELSE diff) > ThresholdH(upstream)

\* Mutant: pruning forgets everything but today's.
PrunedShort(t) == t # NotMuted /\ now - t >= 1
Pruned(t) == t # NotMuted /\ now - t >= PruneDays

\* reconOne from the sum of our usage events on: reserveAlert mutes the key for good, and
\* prunes old keys when it reserves one.
ReconOne(a) == LET k == <<a, pass[a].month>> IN
    /\ pass[a].step = "sum"
    /\ pass' = [pass EXCEPT ![a] = Idle]
    /\ \E local \in 0..MaxSpent:
       IF Mismatch(pass[a].upstream, local) /\ reconMuted[k] = NotMuted
       THEN /\ reconMuted' = [x \in ReconKeys |->
                                IF x = k THEN now
                                ELSE IF Pruned(reconMuted[x]) THEN NotMuted ELSE reconMuted[x]]
            /\ warned' = [warned EXCEPT ![k] = @ + 1]
       ELSE UNCHANGED <<reconMuted, warned>>

ReconRestart ==
    /\ pass' = [a \in Spenders |-> Idle]
    /\ reconMuted' = [k \in ReconKeys |-> NotMuted]
    /\ UNCHANGED warned

\* A pass is over within the day it started or the next: its calls time out.
PassesInTime == \A a \in Spenders: pass[a].step # "idle" => now = pass[a].day

ReconNext == \E a \in Spenders:
    StartRecon(a) \/ FetchLedger(a) \/ ReconFails(a) \/ ReconOne(a)

\* reserveAlert "already alerted this account for this month": however other
\* accounts' warnings prune the map, a process warns of an account's month
\* once: the key outlives the days it is the target month.
ReconWarnsOnce == \A k \in ReconKeys: warned[k] <= 1 + restarts
=============================================================================

------------------------------ MODULE Failover ------------------------------
(***************************************************************************)
(* failover.Controller and Recoverer over the accounts and                 *)
(* account_failover_events tables, with the operator's account actions.    *)
(*                                                                         *)
(* Reporters are the goroutines that call Record*: requests, pollworker,   *)
(* refresher.  A step is one database statement.  Time is abstract: an     *)
(* event leaves its window, and a cooldown ends, at any moment.  The       *)
(* configuration is fixed, with both mechanisms enabled.  Every writer of  *)
(* accounts.status is here: MarkStatus, MarkThrottled, RecoverThrottled    *)
(* and Upsert, which writes whatever status its caller holds.              *)
(***************************************************************************)
EXTENDS Integers, FiniteSets

CONSTANTS
    Accounts,
    Reporters,          \* goroutines that report upstream outcomes
    CfgFailLimit,       \* [failover.consecutive].fail_limit, 0 when unset
    FallbackFailLimit,  \* [pool].fail_streak_threshold, 0 when unset
    FailLimitOverride,  \* per account, 0 when there is no override
    JudgeCount,         \* throttle events in the judge window that park
    EvictCount,         \* blacklist events in the evict window that disable
    OutageLimit,        \* recent disables that stop further ones
    Faults,             \* statements that may fail in this instance
    MaxInputs           \* bound on reports and operator actions together

ASSUME AccountsAssumption == IsFiniteSet(Accounts)
ASSUME ReportersAssumption == IsFiniteSet(Reporters)
ASSUME LimitsAssumption ==
    /\ CfgFailLimit \in Nat /\ FallbackFailLimit \in Nat
    /\ FailLimitOverride \in [Accounts -> Nat]
    /\ JudgeCount \in Nat \ {0} /\ EvictCount \in Nat \ {0}
    /\ OutageLimit \in Nat \ {0}
ASSUME BoundsAssumption == MaxInputs \in Nat
ASSUME FaultNamesAssumption == Faults \subseteq {"event", "count", "mark", "guard", "reset"}

VARIABLES
    \* accounts
    status, until, streak,
    \* account_failover_events, as the windows see them
    throttles,    \* throttle events in the judge window
    blacklists,   \* blacklist events in the evict window
    marks,        \* accounts with a consec_fail / evict event in the outage window
    \* goroutines
    pc, target,   \* where each reporter is, and about which account
    op, opAcct,   \* where the operator's RecoverAccount is
    held,         \* per account, the status in the row a PATCH has read
    inputs,       \* reports and operator actions so far
    \* history, read by the properties only
    isolated,     \* taken out of rotation, no operator has brought it back since
    parked,       \* throttled since it was isolated
    stale,        \* status written since the pending PATCH read the row
    upserted,     \* an Upsert from such a row put it back in rotation since
    slate,        \* "recovering" / "clean" while only RecoverAccount wrote about it
    blind,        \* disables let through by a guard whose count failed
    unrecorded,   \* accounts with a disable in the outage window whose event was lost
    missed        \* how many such events were lost

account == <<status, until, streak>>
events == <<throttles, blacklists, marks>>
isolation == <<isolated, parked, stale, upserted>>
outage == <<blind, unrecorded, missed>>
history == <<isolation, slate, outage>>
operator == <<op, opAcct, held>>
vars == <<account, events, pc, target, operator, inputs, history>>

NoAccount == "none"
NoRow == "none"
Statuses == {"active", "suspended", "banned", "throttled", "disabled"}
InRotation == {"active", "throttled"}   \* now, or once the cooldown ends
ReporterPC == {"idle", "judge", "blacklist", "park", "evict", "guard", "event", "flip"}

TypeOK ==
    /\ status \in [Accounts -> Statuses]
    /\ until \in [Accounts -> {"none", "future", "past"}]
    /\ streak \in [Accounts -> Nat]
    /\ throttles \in [Accounts -> Nat] /\ blacklists \in [Accounts -> Nat]
    /\ marks \subseteq Accounts
    /\ pc \in [Reporters -> ReporterPC]
    /\ target \in [Reporters -> Accounts \union {NoAccount}]
    /\ op \in {"idle", "mark", "reset", "delete"}
    /\ opAcct \in Accounts \union {NoAccount}
    /\ inputs \in 0..MaxInputs
    /\ held \in [Accounts -> Statuses \union {NoRow}]
    /\ isolated \subseteq Accounts /\ parked \subseteq Accounts
    /\ stale \subseteq Accounts /\ upserted \subseteq Accounts
    /\ slate \in [Accounts -> {"no", "recovering", "clean"}]
    /\ blind \in Nat /\ missed \in Nat
    /\ unrecorded \subseteq Accounts

Init ==
    /\ status = [a \in Accounts |-> "active"]
    /\ until = [a \in Accounts |-> "none"]
    /\ streak = [a \in Accounts |-> 0]
    /\ throttles = [a \in Accounts |-> 0] /\ blacklists = [a \in Accounts |-> 0]
    /\ marks = {}
    /\ pc = [r \in Reporters |-> "idle"]
    /\ target = [r \in Reporters |-> NoAccount]
    /\ op = "idle" /\ opAcct = NoAccount
    /\ inputs = 0
    /\ held = [a \in Accounts |-> NoRow]
    /\ isolated = {} /\ parked = {} /\ stale = {} /\ upserted = {}
    /\ slate = [a \in Accounts |-> "no"]
    /\ blind = 0 /\ unrecorded = {} /\ missed = 0

-----------------------------------------------------------------------------
(* Configuration and classification                                        *)

\* resolve: the account's override, else the global value, else the fallback, else 3.
FailLimit(a) ==
    IF FailLimitOverride[a] > 0 THEN FailLimitOverride[a]
    ELSE IF CfgFailLimit > 0 THEN CfgFailLimit
    ELSE IF FallbackFailLimit > 0 THEN FallbackFailLimit ELSE 3

\* What an upstream error says, as the sentinels, network errors and markers tell.
Errors == {"rate_limit", "unauthorized", "forbidden", "bad_body", "server_error",
           "timeout", "network", "datadome", "other"}
Classify(e) ==
    CASE e = "rate_limit" -> "throttle"
      [] e \in {"unauthorized", "network", "datadome"} -> "failure"
      [] OTHER -> "ignore"

\* The reason of a failure event: statusFromErr gives 401 or 0 for the errors that
\* Classify lets through, so it is never one CountRecentDisables looks for.
FailureReason(e) == IF e = "unauthorized" THEN "auth_failed" ELSE "network"
DisableReasons == {"consec_fail", "evict"}

-----------------------------------------------------------------------------
(* Statements                                                              *)

\* Something other than RecoverAccount wrote about a.
Touch(a) == slate' = [slate EXCEPT ![a] = "no"]

\* The rows PATCHes hold of S no longer say what the table says.
Outdate(S) == stale' = stale \union {a \in S : held[a] # NoRow}

\* MarkStatus to a status other than active: bumps fail_streak, keeps throttled_until.
MarkIsolated(a, s) ==
    /\ status' = [status EXCEPT ![a] = s]
    /\ streak' = [streak EXCEPT ![a] = @ + 1]
    /\ isolated' = isolated \union {a}
    /\ parked' = parked \ {a} /\ upserted' = upserted \ {a}
    /\ Outdate({a}) /\ Touch(a)
    /\ UNCHANGED <<until, outage>>

\* MarkStatus(active): clears throttled_until, keeps fail_streak.
MarkActive(a) ==
    /\ status' = [status EXCEPT ![a] = "active"]
    /\ until' = [until EXCEPT ![a] = "none"]
    /\ isolated' = isolated \ {a}
    /\ Outdate({a})
    /\ UNCHANGED <<streak, parked, upserted, outage>>

\* MarkThrottled: whatever the status was.
MarkThrottled(a) ==
    /\ status' = [status EXCEPT ![a] = "throttled"]
    /\ until' = [until EXCEPT ![a] = "future"]
    /\ parked' = parked \union {a}
    /\ Outdate({a}) /\ Touch(a)
    /\ UNCHANGED <<streak, isolated, upserted, outage>>

\* Upsert of an existing row: status = excluded.status, while throttled_until,
\* status_reason and fail_streak stay.
Upsert(a, s) ==
    /\ status' = [status EXCEPT ![a] = s]
    /\ Touch(a)
    /\ UNCHANGED <<until, streak, outage>>

\* UPDATE ... RETURNING fail_streak: streak'[a] is what the caller gets.
IncrFailStreak(a) == streak' = [streak EXCEPT ![a] = @ + 1]
ResetFailStreak(a) == streak' = [streak EXCEPT ![a] = 0]

\* Reporter r moves to label; a report that ends forgets its account.
Goto(r, a, label) ==
    /\ pc' = [pc EXCEPT ![r] = label]
    /\ target' = [target EXCEPT ![r] = IF label = "idle" THEN NoAccount ELSE a]

Move(r, label) == Goto(r, target[r], label)

Input == inputs < MaxInputs /\ inputs' = inputs + 1

\* An idle goroutine has something to report.
Begin(r) == pc[r] = "idle" /\ Input

-----------------------------------------------------------------------------
(* Controller                                                              *)

RecordSuccess(r, a) ==
    /\ Begin(r)
    /\ ResetFailStreak(a)
    /\ UNCHANGED <<status, until, events, pc, target, operator, history>>

\* Insert of the failure event (its reason does not mark), then IncrFailStreak,
\* which returns the new streak.
RecordFailure(r, a, e) ==
    /\ Begin(r)
    /\ Classify(e) = "failure"
    /\ IncrFailStreak(a)
    /\ Goto(r, a, IF streak'[a] >= FailLimit(a) THEN "guard" ELSE "idle")
    /\ marks' = IF FailureReason(e) \in DisableReasons THEN marks \union {a} ELSE marks
    /\ Touch(a)
    /\ UNCHANGED <<status, until, throttles, blacklists, operator, isolation, outage>>

\* Insert of the throttle event.
RecordThrottle(r, a, e) ==
    /\ Begin(r)
    /\ Classify(e) = "throttle"
    /\ \/ throttles' = [throttles EXCEPT ![a] = @ + 1]
       \/ "event" \in Faults /\ UNCHANGED throttles
    /\ Goto(r, a, "judge")
    /\ Touch(a)
    /\ UNCHANGED <<account, blacklists, marks, operator, isolation, outage>>

Judge(r) ==
    /\ pc[r] = "judge"
    /\ \/ Move(r, IF throttles[target[r]] >= JudgeCount THEN "blacklist" ELSE "idle")
       \/ "count" \in Faults /\ Move(r, "idle")
    /\ UNCHANGED <<account, events, operator, inputs, history>>

\* Insert of the blacklist event.
Blacklist(r) ==
    /\ pc[r] = "blacklist"
    /\ \/ blacklists' = [blacklists EXCEPT ![target[r]] = @ + 1]
       \/ "event" \in Faults /\ UNCHANGED blacklists
    /\ Move(r, "park")
    /\ Touch(target[r])
    /\ UNCHANGED <<account, throttles, marks, operator, inputs, isolation,
                   outage>>

Park(r) ==
    /\ pc[r] = "park"
    /\ \/ MarkThrottled(target[r]) /\ Move(r, "evict")
       \/ "mark" \in Faults /\ Move(r, "idle") /\ UNCHANGED <<account, history>>
    /\ UNCHANGED <<events, operator, inputs>>

Evict(r) ==
    /\ pc[r] = "evict"
    /\ \/ Move(r, IF blacklists[target[r]] >= EvictCount THEN "guard" ELSE "idle")
       \/ "count" \in Faults /\ Move(r, "idle")
    /\ UNCHANGED <<account, events, operator, inputs, history>>

\* Mutant: the guard trips one disable late.
GuardLate(r) ==
    /\ pc[r] = "guard"
    /\ Move(r, IF Cardinality(marks) > OutageLimit THEN "idle" ELSE "event")
    /\ UNCHANGED <<account, events, operator, inputs, history>>

\* outageGuardTripped: a failed count lets the disable through.
Guard(r) ==
    /\ pc[r] = "guard"
    /\ \/ /\ Move(r, IF Cardinality(marks) >= OutageLimit THEN "idle" ELSE "event")
          /\ UNCHANGED blind
       \/ /\ "guard" \in Faults
          /\ Move(r, "event")
          /\ blind' = blind + 1
    /\ UNCHANGED <<account, events, operator, inputs, isolation, slate, unrecorded, missed>>

\* disable, first statement: the event the guard counts.
DisableEvent(r) ==
    /\ pc[r] = "event"
    /\ \/ marks' = marks \union {target[r]} /\ UNCHANGED <<unrecorded, missed>>
       \/ /\ "event" \in Faults
          /\ unrecorded' = unrecorded \union {target[r]}
          /\ missed' = missed + 1
          /\ UNCHANGED marks
    /\ Move(r, "flip")
    /\ Touch(target[r])
    /\ UNCHANGED <<account, throttles, blacklists, operator, inputs, isolation, blind>>

\* disable, second statement: whether or not the first one failed.
DisableFlip(r) ==
    /\ pc[r] = "flip"
    /\ Move(r, "idle")
    /\ \/ MarkIsolated(target[r], "disabled")
       \/ "mark" \in Faults /\ UNCHANGED <<account, history>>
    /\ UNCHANGED <<events, operator, inputs>>

ReporterNext(r) ==
    \/ \E a \in Accounts : RecordSuccess(r, a)
    \/ \E a \in Accounts, e \in Errors :
          RecordFailure(r, a, e) \/ RecordThrottle(r, a, e)
    \/ Judge(r) \/ Blacklist(r) \/ Park(r) \/ Evict(r)
    \/ Guard(r) \/ DisableEvent(r) \/ DisableFlip(r)

-----------------------------------------------------------------------------
(* Recoverer                                                               *)

Cooled == {a \in Accounts : status[a] = "throttled" /\ until[a] = "past"}

CooledAnyStatus == {a \in Accounts : until[a] = "past"}

\* Mutant: the UPDATE forgets the status in its WHERE.
RecoverThrottledAny ==
    /\ status' = [a \in Accounts |-> IF a \in CooledAnyStatus THEN "active" ELSE status[a]]
    /\ until' = [a \in Accounts |-> IF a \in CooledAnyStatus THEN "none" ELSE until[a]]
    /\ Outdate(CooledAnyStatus)
    /\ UNCHANGED <<streak, events, pc, target, operator, inputs, isolated, parked,
                   upserted, slate, outage>>

\* One tick: a single UPDATE over every account whose cooldown has ended.
RecoverThrottled ==
    /\ status' = [a \in Accounts |-> IF a \in Cooled THEN "active" ELSE status[a]]
    /\ until' = [a \in Accounts |-> IF a \in Cooled THEN "none" ELSE until[a]]
    /\ Outdate(Cooled)
    /\ UNCHANGED <<streak, events, pc, target, operator, inputs, isolated, parked,
                   upserted, slate, outage>>

-----------------------------------------------------------------------------
(* Operator                                                                *)

\* Pause and SoftDelete.
PauseOrDelete(a, s) ==
    /\ Input
    /\ s \in {"suspended", "banned"}
    /\ MarkIsolated(a, s)
    /\ UNCHANGED <<events, pc, target, op, opAcct, held>>

Resume(a) ==
    /\ Input
    /\ MarkActive(a)
    /\ Touch(a)
    /\ UNCHANGED <<events, pc, target, op, opAcct, held>>

\* RecoverAccount reads the row and refuses any other status.
RecoverAccount(a) ==
    /\ Input
    /\ op = "idle"
    /\ status[a] \in {"disabled", "throttled"}
    /\ op' = "mark" /\ opAcct' = a
    /\ UNCHANGED <<account, events, pc, target, held, history>>

RecoverMark ==
    /\ op = "mark"
    /\ \/ /\ MarkActive(opAcct)
          /\ slate' = [slate EXCEPT ![opAcct] = "recovering"]
          /\ op' = "reset" /\ UNCHANGED opAcct
       \/ /\ "mark" \in Faults
          /\ op' = "idle" /\ opAcct' = NoAccount
          /\ UNCHANGED <<account, history>>
    /\ UNCHANGED <<events, pc, target, held, inputs>>

\* A failed reset or delete is logged and the recovery goes on.
RecoverReset ==
    /\ op = "reset"
    /\ op' = "delete"
    /\ \/ ResetFailStreak(opAcct) /\ UNCHANGED slate
       \/ "reset" \in Faults /\ Touch(opAcct) /\ UNCHANGED streak
    /\ UNCHANGED <<status, until, events, pc, target, opAcct, held, inputs, isolation,
                   outage>>

\* DeleteForAccount.
RecoverDelete ==
    /\ op = "delete"
    /\ op' = "idle" /\ opAcct' = NoAccount
    /\ \/ /\ throttles' = [throttles EXCEPT ![opAcct] = 0]
          /\ blacklists' = [blacklists EXCEPT ![opAcct] = 0]
          /\ marks' = marks \ {opAcct}
          /\ slate' = [slate EXCEPT ![opAcct] = IF @ = "recovering" THEN "clean" ELSE @]
       \/ "reset" \in Faults /\ Touch(opAcct) /\ UNCHANGED events
    /\ UNCHANGED <<account, pc, target, held, inputs, isolation, outage>>

\* PATCH /admin/accounts/{id} reads the whole row, then decodes the request.
PatchRead(a) ==
    /\ Input
    /\ held[a] = NoRow
    /\ held' = [held EXCEPT ![a] = status[a]]
    /\ stale' = stale \ {a}
    /\ UNCHANGED <<account, events, pc, target, op, opAcct, isolated, parked,
                   upserted, slate, outage>>

\* It writes the whole row back, with the status it read.
PatchWrite(a) ==
    /\ held[a] # NoRow
    /\ held' = [held EXCEPT ![a] = NoRow]
    /\ Upsert(a, held[a])
    /\ isolated' = IF held[a] \in InRotation THEN isolated ELSE isolated \union {a}
    /\ parked' = IF held[a] \in InRotation THEN parked ELSE parked \ {a}
    /\ upserted' = IF held[a] \notin InRotation THEN upserted \ {a}
                   ELSE IF a \in stale THEN upserted \union {a} ELSE upserted
    /\ stale' = stale \ {a}
    /\ UNCHANGED <<events, pc, target, op, opAcct, inputs>>

\* A request that is refused, or whose statement fails, writes nothing.
PatchEnds(a) ==
    /\ held[a] # NoRow
    /\ held' = [held EXCEPT ![a] = NoRow]
    /\ stale' = stale \ {a}
    /\ UNCHANGED <<account, events, pc, target, op, opAcct, inputs, isolated, parked,
                   upserted, slate, outage>>

\* Import with ?upsert=true, and the registrar for an account it registers again: an
\* operator brings the account back, active, whatever its row says.
Reimport(a) ==
    /\ Input
    /\ Upsert(a, "active")
    /\ isolated' = isolated \ {a}
    /\ Outdate({a})
    /\ UNCHANGED <<events, pc, target, op, opAcct, held, parked, upserted>>

OperatorNext ==
    \/ \E a \in Accounts : Resume(a) \/ RecoverAccount(a) \/ Reimport(a)
    \/ \E a \in Accounts : PatchRead(a) \/ PatchWrite(a) \/ PatchEnds(a)
    \/ \E a \in Accounts, s \in Statuses : PauseOrDelete(a, s)
    \/ RecoverMark \/ RecoverReset \/ RecoverDelete

-----------------------------------------------------------------------------
(* Time                                                                    *)

CooldownEnds(a) ==
    /\ until[a] = "future"
    /\ until' = [until EXCEPT ![a] = "past"]
    /\ UNCHANGED <<status, streak, events, pc, target, operator, inputs, history>>

\* The oldest event of a window leaves it.
ThrottleAges(a) ==
    /\ throttles[a] > 0
    /\ throttles' = [throttles EXCEPT ![a] = @ - 1]
    /\ UNCHANGED <<account, blacklists, marks, pc, target, operator, inputs, history>>

BlacklistAges(a) ==
    /\ blacklists[a] > 0
    /\ blacklists' = [blacklists EXCEPT ![a] = @ - 1]
    /\ UNCHANGED <<account, throttles, marks, pc, target, operator, inputs, history>>

MarkAges(a) ==
    /\ a \in marks
    /\ marks' = marks \ {a}
    /\ UNCHANGED <<account, throttles, blacklists, pc, target, operator, inputs, history>>

\* A disable whose event was lost leaves the window all the same.
LostAges(a) ==
    /\ a \in unrecorded
    /\ unrecorded' = unrecorded \ {a}
    /\ UNCHANGED <<account, events, pc, target, operator, inputs, isolation, slate, blind,
                   missed>>

TimeNext ==
    \E a \in Accounts :
       CooldownEnds(a) \/ ThrottleAges(a) \/ BlacklistAges(a) \/ MarkAges(a) \/ LostAges(a)

-----------------------------------------------------------------------------
Next == (\E r \in Reporters : ReporterNext(r)) \/ RecoverThrottled \/ OperatorNext \/ TimeNext

Spec == Init /\ [][Next]_vars

-----------------------------------------------------------------------------
(* Properties                                                              *)

\* Reporters past the outage guard that have not written their event yet.
Deciding == {r \in Reporters : pc[r] = "event"}

\* The accounts a disable was decided about within the outage window, on record or not.
Disabled == marks \union unrecorded

\* During an outage the pool loses fewer accounts per window than the guard's limit
\* plus the goroutines that can be between its check and its event.  Each count that
\* failed (the disable goes through) and each event that was lost (the guard never
\* sees it) costs at most one account more.
GuardSlack ==
    Cardinality(Disabled) + Cardinality(Deciding)
        < OutageLimit + Cardinality(Reporters) + blind + missed

\* An account that was taken out of rotation is back without an operator's resume,
\* recovery or import only if a throttle report overwrote its status, or a PATCH wrote
\* back a row it had read before the status changed.  The recoverer by itself never
\* touches a disabled, suspended or banned row, and a PATCH that read the row after
\* the account was taken out leaves it out.
IsolationExplained ==
    \A a \in isolated : status[a] \in InRotation => a \in parked \union upserted

\* A throttled account has a deadline the recoverer will see, unless a PATCH wrote the
\* status back after the cooldown had ended.
ThrottledHasDeadline ==
    \A a \in Accounts : status[a] = "throttled" => until[a] # "none" \/ a \in upserted

\* After RecoverAccount, while nobody else wrote about the account, nothing is held
\* against it: it is active, with no streak, no window and no mark.
CleanSlate ==
    \A a \in Accounts : slate[a] = "clean" =>
        /\ status[a] = "active" /\ until[a] = "none" /\ streak[a] = 0
        /\ throttles[a] = 0 /\ blacklists[a] = 0 /\ a \notin marks
=============================================================================

-------------------------------- MODULE Pool --------------------------------
(***************************************************************************)
(* Admission: the key and group gates of proxy.Generate, its spillover     *)
(* over the key's groups, AccountStore.PickAndLock, and what comes back    *)
(* when the job ends: the slot, the charge, the monthly reset.             *)
(*                                                                         *)
(* A request takes one step per transaction or statement.  SQLite runs in  *)
(* WAL mode with deferred transactions: PickAndLock reads a snapshot       *)
(* (Select) and may write only if nobody committed since (Write).  Any     *)
(* eligible account may be chosen, so what holds here holds for every      *)
(* route strategy.  How a job runs between pick and end is the subject of  *)
(* JobLifecycle.                                                           *)
(***************************************************************************)
EXTENDS Integers, FiniteSets, Sequences

CONSTANTS
    Accounts, Groups, Keys, Models,
    Requests,           \* requests and jobs that are live at the same time
    AccountRow,         \* accounts as they are at the start
    GroupRow,           \* columns of account_groups, with the members
    KeyRow,             \* quota, and the key's groups in spillover order
    ModelSpec,          \* registry entries
    PluginCalls,        \* <<key, model, group>> of calls of /internal/execute
    Settings,           \* load_balance.balance_headroom_pct as stored
    DefaultAccountCap,  \* [pool].max_in_flight_per_account, 0 = unset
    BalanceValues,      \* subscription balances in this instance
    MinCost, MaxCharge, \* bounds of an estimate and of a charge
    Faults,             \* statements that may fail in this instance
    MaxStarts, MaxChanges, MaxMonths   \* bounds

NoGroup == "default"
NoAccount == "none"
NoKey == "none"
NoModel == "none"

Plans == {"free", "starter", "basic", "pro", "plus", "creator", "team", "scale",
          "ultimate", "ultra", "enterprise"}

ASSUME SetsAssumption ==
    /\ IsFiniteSet(Accounts) /\ IsFiniteSet(Requests) /\ Requests # {}
    /\ NoGroup \notin Groups /\ NoAccount \notin Accounts
ASSUME AccountsAssumption ==
    AccountRow \in [Accounts -> [plan : Plans, hasUnlim : BOOLEAN, maxConcurrent : Nat,
                                 balance : BalanceValues]]
ASSUME GroupsAssumption ==
    GroupRow \in [Groups -> [members : SUBSET Accounts, cap : Nat, accountCap : Nat,
                             budget : Nat, refused : SUBSET Models]]
ASSUME KeysAssumption ==
    /\ KeyRow \in [Keys -> [quota : Nat, groups : Seq(Groups \union {NoGroup})]]
    /\ \A k \in Keys : KeyRow[k].groups # <<>>
    /\ PluginCalls \subseteq Keys \X Models \X (Groups \union {NoGroup})
ASSUME ModelsAssumption ==
    /\ ModelSpec \in [Models -> [cost : Nat, minPlan : Plans, paid : BOOLEAN, ultra : BOOLEAN,
                                 unlim : BOOLEAN]]
    /\ MinCost \in Nat /\ MaxCharge \in Nat /\ MinCost <= MaxCharge
    /\ \A m \in Models : MinCost <= ModelSpec[m].cost
ASSUME SettingsAssumption ==
    /\ Settings \in [stored : BOOLEAN, headroomPct : Nat]
    /\ DefaultAccountCap \in Nat /\ BalanceValues \subseteq Nat
ASSUME BoundsAssumption ==
    /\ MaxStarts \in Nat /\ MaxChanges \in Nat /\ MaxMonths \in Nat
    /\ Faults \subseteq {"policy", "charge", "poll"}

VARIABLES
    \* accounts
    inFlight, usable, balance,
    \* account_groups.monthly_credit_used, api_keys.monthly_used
    used, keyUsed,
    \* requests
    pc, key, model, cand, grp, acct, charge,
    policyRead,    \* requests that read their group's row: its gates and caps apply
    stale,         \* requests whose open transaction somebody overtook
    \* month reset, bounds
    pending, month, starts, changes,
    \* history, read by the properties only
    early,         \* running jobs whose slot a failed poll gave back
    drift,         \* number of slots given back before their job ended
    open,          \* number of group rows that could not be read
    ungated,       \* number of requests that carried no quota
    charged        \* groups charged since the month began

accounts == <<inFlight, usable, balance>>
ledgers == <<used, keyUsed, charged>>
request == <<key, model, cand, grp, acct, charge, policyRead>>
calendar == <<pending, month>>
bounds == <<starts, changes>>
history == <<early, drift, open, ungated>>
vars == <<accounts, ledgers, pc, request, stale, calendar, bounds, history>>

RequestPC == {"idle", "policy", "select", "write", "running", "meterKey", "meterGroup"}

TypeOK ==
    /\ inFlight \in [Accounts -> Nat]
    /\ usable \subseteq Accounts /\ balance \in [Accounts -> BalanceValues]
    /\ used \in [Groups -> Nat] /\ keyUsed \in [Keys -> Nat] /\ charged \subseteq Groups
    /\ pc \in [Requests -> RequestPC]
    /\ key \in [Requests -> Keys \union {NoKey}]
    /\ model \in [Requests -> Models \union {NoModel}]
    /\ cand \in [Requests -> Nat]
    /\ grp \in [Requests -> Groups \union {NoGroup}]
    /\ acct \in [Requests -> Accounts \union {NoAccount}]
    /\ charge \in [Requests -> 0..MaxCharge]
    /\ policyRead \subseteq Requests /\ stale \subseteq Requests
    /\ pending \subseteq Keys /\ month \in Nat
    /\ starts \in Nat /\ changes \in Nat
    /\ early \subseteq Requests
    /\ drift \in Nat /\ open \in Nat /\ ungated \in Nat

Init ==
    /\ inFlight = [a \in Accounts |-> 0]
    /\ usable = Accounts /\ balance = [a \in Accounts |-> AccountRow[a].balance]
    /\ used = [g \in Groups |-> 0] /\ keyUsed = [k \in Keys |-> 0]
    /\ pc = [r \in Requests |-> "idle"]
    /\ key = [r \in Requests |-> NoKey] /\ model = [r \in Requests |-> NoModel]
    /\ cand = [r \in Requests |-> 0] /\ grp = [r \in Requests |-> NoGroup]
    /\ acct = [r \in Requests |-> NoAccount] /\ charge = [r \in Requests |-> 0]
    /\ policyRead = {} /\ stale = {}
    /\ pending = {} /\ month = 0 /\ starts = 0 /\ changes = 0
    /\ early = {} /\ drift = 0 /\ open = 0 /\ ungated = 0 /\ charged = {}

-----------------------------------------------------------------------------
(* Gates                                                                   *)

\* Mutant: the gate leaves out the cost of the request itself, as HasBudget(0) does.
KeyGateNoReserve(k, m) == KeyRow[k].quota > 0 => keyUsed[k] <= KeyRow[k].quota

\* enforceKeyGates; exactly the quota passes.
KeyGate(k, m) == KeyRow[k].quota > 0 => keyUsed[k] + ModelSpec[m].cost <= KeyRow[k].quota

\* Mutant: the gate leaves out the cost of the request itself.
GroupGateNoReserve(g, m) ==
    /\ m \notin GroupRow[g].refused
    /\ GroupRow[g].budget > 0 => used[g] <= GroupRow[g].budget

\* enforceGroupGates: model patterns, then the budget.
GroupGate(g, m) ==
    /\ m \notin GroupRow[g].refused
    /\ GroupRow[g].budget > 0 => used[g] + ModelSpec[m].cost <= GroupRow[g].budget

-----------------------------------------------------------------------------
(* PickAndLock: what its statements compute                                *)

\* PlanType.TierRank and the CASE of the plan floor and of the tier ordering.
TierRank(plan) ==
    CASE plan = "free" -> 0 [] plan = "starter" -> 1 [] plan = "basic" -> 2
      [] plan = "pro" -> 3 [] plan = "plus" -> 4 [] OTHER -> 5

\* SUM(in_flight_jobs) over the members of g is the number of these pairs.
Slots(g) == UNION {{a} \X (1..inFlight[a]) : a \in GroupRow[g].members}

\* Mutant: one job too many.
GroupFullLate(r) ==
    /\ r \in policyRead
    /\ GroupRow[grp[r]].cap > 0
    /\ Cardinality(Slots(grp[r])) > GroupRow[grp[r]].cap

GroupFull(r) ==
    /\ r \in policyRead
    /\ GroupRow[grp[r]].cap > 0
    /\ Cardinality(Slots(grp[r])) >= GroupRow[grp[r]].cap

\* The group's cap per account, else the deployment's, else 5.
PerAccountCap(r) ==
    IF r \in policyRead /\ GroupRow[grp[r]].accountCap > 0 THEN GroupRow[grp[r]].accountCap
    ELSE IF DefaultAccountCap > 0 THEN DefaultAccountCap ELSE 5

HasRoom(r, a) ==
    /\ inFlight[a] < PerAccountCap(r)
    /\ AccountRow[a].maxConcurrent = 0 \/ inFlight[a] < AccountRow[a].maxConcurrent

\* loadbalance.Resolve drops a stored percentage outside 100..500.
HeadroomPct == IF Settings.headroomPct \in 100..500 THEN Settings.headroomPct ELSE 120

\* Without settings the buffer is a fifth of the estimate, rounded down.
MinBalance(m) ==
    LET cost == ModelSpec[m].cost
    IN  IF Settings.stored THEN (cost * HeadroomPct + 99) \div 100 ELSE cost + cost \div 5

PlanMeets(plan, m) ==
    /\ ModelSpec[m].paid => plan \notin {"free", "starter", "basic"}
    /\ ModelSpec[m].ultra => TierRank(plan) = 5
    /\ TierRank(plan) >= TierRank(ModelSpec[m].minPlan)

InScope(a, g) == g = NoGroup \/ a \in GroupRow[g].members

Eligible(r) ==
    {a \in usable :
        /\ HasRoom(r, a)
        /\ balance[a] >= MinBalance(model[r])
        /\ PlanMeets(AccountRow[a].plan, model[r])
        /\ ModelSpec[model[r]].unlim => AccountRow[a].hasUnlim
        /\ InScope(a, grp[r])}

-----------------------------------------------------------------------------
(* Requests                                                                *)

\* A commit overtakes the transactions that are open.
Overtake(r) == stale' = {q \in Requests : pc[q] = "write"} \ {r}

Goto(r, label) == pc' = [pc EXCEPT ![r] = label]

\* The request is over; nothing of it is kept.
End(r) ==
    /\ Goto(r, "idle")
    /\ key' = [key EXCEPT ![r] = NoKey] /\ model' = [model EXCEPT ![r] = NoModel]
    /\ cand' = [cand EXCEPT ![r] = 0] /\ grp' = [grp EXCEPT ![r] = NoGroup]
    /\ acct' = [acct EXCEPT ![r] = NoAccount] /\ charge' = [charge EXCEPT ![r] = 0]
    /\ policyRead' = policyRead \ {r} /\ early' = early \ {r}

\* A refusal by one group moves on to the next one (every refusal is
\* isSpilloverEligible); the last group's refusal is the answer.
Spill(r) ==
    LET groups == KeyRow[key[r]].groups
    IN  IF cand[r] < Len(groups)
        THEN /\ Goto(r, "policy")
             /\ cand' = [cand EXCEPT ![r] = @ + 1]
             /\ grp' = [grp EXCEPT ![r] = groups[cand[r] + 1]]
             /\ policyRead' = policyRead \ {r}
             /\ UNCHANGED <<key, model, acct, charge, early>>
        ELSE End(r)

\* Authentication reads the key's row.  enforceKeyGates looks at that snapshot and at the
\* request alone, so its verdict is known with the read; between the read and the
\* request's next statement everybody else may step.  A request that passes enters the
\* loop over the key's groups.
Start(r, k, m) ==
    /\ pc[r] = "idle" /\ starts < MaxStarts
    /\ KeyGate(k, m)
    /\ Goto(r, "policy")
    /\ key' = [key EXCEPT ![r] = k] /\ model' = [model EXCEPT ![r] = m]
    /\ cand' = [cand EXCEPT ![r] = 1]
    /\ grp' = [grp EXCEPT ![r] = KeyRow[k].groups[1]]
    /\ starts' = starts + 1
    /\ UNCHANGED <<accounts, ledgers, acct, charge, policyRead, stale, calendar, changes, history>>

\* POST /internal/execute charges a key whose quota it does not carry, and tries the one
\* group its body names: there is no further candidate.
Execute(r, k, m, g) ==
    /\ pc[r] = "idle" /\ starts < MaxStarts
    /\ Goto(r, "policy")
    /\ key' = [key EXCEPT ![r] = k] /\ model' = [model EXCEPT ![r] = m]
    /\ cand' = [cand EXCEPT ![r] = Len(KeyRow[k].groups)]
    /\ grp' = [grp EXCEPT ![r] = g]
    /\ starts' = starts + 1 /\ ungated' = ungated + 1
    /\ UNCHANGED <<accounts, ledgers, acct, charge, policyRead, stale, calendar, changes,
                   early, drift, open>>

\* resolveGroupPolicy reads the row, and the gates let the request through ...
ReadPolicy(r) ==
    /\ pc[r] = "policy" /\ grp[r] # NoGroup
    /\ GroupGate(grp[r], model[r])
    /\ Goto(r, "select")
    /\ policyRead' = policyRead \union {r}
    /\ UNCHANGED <<accounts, ledgers, key, model, cand, grp, acct, charge, stale, calendar,
                   bounds, history>>

\* ... or refuse it.
GateRefuses(r) ==
    /\ pc[r] = "policy" /\ grp[r] # NoGroup
    /\ ~GroupGate(grp[r], model[r])
    /\ Spill(r)
    /\ UNCHANGED <<accounts, ledgers, stale, calendar, bounds, drift, open, ungated>>

\* The global pool has no policy.  A row that cannot be read counts as none.
NoPolicy(r) ==
    /\ pc[r] = "policy"
    /\ \/ grp[r] = NoGroup /\ open' = open
       \/ grp[r] # NoGroup /\ "policy" \in Faults /\ open' = open + 1
    /\ Goto(r, "select")
    /\ UNCHANGED <<accounts, ledgers, request, stale, calendar, bounds, early, drift,
                   ungated>>

\* PickAndLock reads its snapshot and finds an account: the first in the order of the
\* group's route strategy, here any of the eligible ones ...
Select(r) ==
    /\ pc[r] = "select"
    /\ ~GroupFull(r)
    /\ \E a \in Eligible(r) : acct' = [acct EXCEPT ![r] = a]
    /\ Goto(r, "write")
    /\ stale' = stale \ {r}
    /\ UNCHANGED <<accounts, ledgers, key, model, cand, grp, charge, policyRead, calendar,
                   bounds, history>>

\* ... or ErrGroupConcurrencyMax or ErrNoEligibleAccount.
SelectRefuses(r) ==
    /\ pc[r] = "select"
    /\ GroupFull(r) \/ Eligible(r) = {}
    /\ Spill(r)
    /\ UNCHANGED <<accounts, ledgers, stale, calendar, bounds, drift, open, ungated>>

\* The UPDATE and COMMIT of PickAndLock.
Write(r) ==
    /\ pc[r] = "write" /\ r \notin stale
    /\ inFlight' = [inFlight EXCEPT ![acct[r]] = @ + 1]
    /\ Goto(r, "running")
    /\ Overtake(r)
    /\ UNCHANGED <<usable, balance, ledgers, request, calendar, bounds, history>>

\* A statement of PickAndLock fails: SQLITE_BUSY because somebody overtook the snapshot
\* or holds the lock.  That is not an error of this group, so the request ends.
PickFails(r) ==
    /\ pc[r] \in {"select", "write"}
    /\ End(r)
    /\ stale' = stale \ {r}
    /\ UNCHANGED <<accounts, ledgers, calendar, bounds, drift, open, ungated>>

-----------------------------------------------------------------------------
(* The end of a job                                                        *)

\* UpdateInFlight(-1), clamped at zero.
GiveBack(a) == inFlight' = [inFlight EXCEPT ![a] = IF @ > 0 THEN @ - 1 ELSE 0]

\* The upstream refused the job: the slot goes back, nothing is charged.
CreateFails(r) ==
    /\ pc[r] = "running" /\ r \notin early
    /\ GiveBack(acct[r])
    /\ End(r)
    /\ Overtake(r)
    /\ UNCHANGED <<usable, balance, ledgers, calendar, bounds, drift, open, ungated>>

\* The synchronous poll failed: Generate gives the slot back and returns while the
\* job runs on under the pollworker.
PollFails(r) ==
    /\ pc[r] = "running" /\ r \notin early /\ "poll" \in Faults
    /\ GiveBack(acct[r])
    /\ early' = early \union {r} /\ drift' = drift + 1
    /\ Overtake(r)
    /\ UNCHANGED <<usable, balance, ledgers, pc, request, calendar, bounds, open, ungated>>

\* The observer that wins the terminal transition gives the slot back, then meters.
Finish(r) ==
    /\ pc[r] = "running"
    /\ GiveBack(acct[r])
    /\ Goto(r, "meterKey")
    /\ early' = early \ {r}
    /\ Overtake(r)
    /\ UNCHANGED <<usable, balance, ledgers, request, calendar, bounds, drift, open, ungated>>

\* OnJobTerminal charges c to the key.  Nothing is written for a charge of zero, and
\* a failed increment is only logged.
MeterKey(r, c) ==
    /\ pc[r] = "meterKey"
    /\ charge' = [charge EXCEPT ![r] = c]
    /\ \/ keyUsed' = [keyUsed EXCEPT ![key[r]] = @ + c]
       \/ c > 0 /\ "charge" \in Faults /\ keyUsed' = keyUsed
    /\ Goto(r, "meterGroup")
    /\ Overtake(r)
    /\ UNCHANGED <<accounts, used, charged, key, model, cand, grp, acct, policyRead, calendar,
                   bounds, history>>

\* The same charge goes to the group that served the request.
MeterGroup(r) ==
    /\ pc[r] = "meterGroup"
    /\ LET g == grp[r]
       IN \/ /\ g # NoGroup
             /\ used' = [used EXCEPT ![g] = @ + charge[r]]
             /\ charged' = IF charge[r] > 0 THEN charged \union {g} ELSE charged
          \/ /\ g = NoGroup \/ (charge[r] > 0 /\ "charge" \in Faults)
             /\ UNCHANGED <<used, charged>>
    /\ End(r)
    /\ Overtake(r)
    /\ UNCHANGED <<accounts, keyUsed, calendar, bounds, drift, open, ungated>>

-----------------------------------------------------------------------------
(* The rest of the program                                                 *)

\* Failover or the operator takes an account out of rotation or brings it back.
ChangeStatus(a) ==
    /\ changes < MaxChanges
    /\ usable' = IF a \in usable THEN usable \ {a} ELSE usable \union {a}
    /\ changes' = changes + 1
    /\ stale' = {q \in Requests : pc[q] = "write"}
    /\ UNCHANGED <<inFlight, balance, ledgers, pc, request, calendar, starts, history>>

\* The refresher stores another balance.
ChangeBalance(a, b) ==
    /\ changes < MaxChanges
    /\ b # balance[a]
    /\ balance' = [balance EXCEPT ![a] = b]
    /\ changes' = changes + 1
    /\ stale' = {q \in Requests : pc[q] = "write"}
    /\ UNCHANGED <<inFlight, usable, ledgers, pc, request, calendar, starts, history>>

\* A month begins and resetAll goes through the keys, once.
NewMonth ==
    /\ month < MaxMonths
    /\ month' = month + 1
    /\ charged' = {}
    /\ pending' = Keys
    /\ UNCHANGED <<accounts, used, keyUsed, pc, request, stale, bounds, history>>

\* ResetMonthlyUsage for one key of the pass, in any order.  A reset that fails
\* is one that is not taken.
ResetKey(k) ==
    /\ k \in pending
    /\ pending' = pending \ {k}
    /\ keyUsed' = [keyUsed EXCEPT ![k] = 0]
    /\ stale' = {q \in Requests : pc[q] = "write"}
    /\ UNCHANGED <<accounts, used, charged, pc, request, month, bounds, history>>

RequestNext(r) ==
    \/ \E k \in Keys, m \in Models : Start(r, k, m)
    \/ \E c \in PluginCalls : Execute(r, c[1], c[2], c[3])
    \/ ReadPolicy(r) \/ GateRefuses(r) \/ NoPolicy(r)
    \/ Select(r) \/ SelectRefuses(r) \/ Write(r) \/ PickFails(r)
    \/ CreateFails(r) \/ PollFails(r) \/ Finish(r)
    \/ \E c \in 0..MaxCharge : MeterKey(r, c)
    \/ MeterGroup(r)

Next ==
    \/ \E r \in Requests : RequestNext(r)
    \/ \E a \in Accounts : ChangeStatus(a)
    \/ \E a \in Accounts, b \in BalanceValues : ChangeBalance(a, b)
    \/ NewMonth
    \/ \E k \in Keys : ResetKey(k)

Spec == Init /\ [][Next]_vars

-----------------------------------------------------------------------------
(* Properties                                                              *)

Holders == {r \in Requests : pc[r] = "running"}

\* A group's max_concurrent_jobs bounds the jobs admitted under its policy, whoever
\* else uses its accounts and however picks interleave (PickAndLock's first check);
\* each slot that a failed poll gave back too early (service.go:582) can add one.
GroupCapHolds ==
    \A g \in Groups : GroupRow[g].cap > 0 =>
        Cardinality({r \in Holders \intersect policyRead : grp[r] = g}) <= GroupRow[g].cap + drift

\* accounts.max_concurrent bounds the jobs on the account through all groups together,
\* with the same allowance.
AccountCapHolds ==
    \A a \in Accounts : AccountRow[a].maxConcurrent > 0 =>
        Cardinality({r \in Holders : acct[r] = a}) <= AccountRow[a].maxConcurrent + drift

\* Requests that passed the gates and whose charge is still to come.
AdmittedBy(g) ==
    {r \in Requests : grp[r] = g
        /\ pc[r] \in {"select", "write", "running", "meterKey", "meterGroup"}}
AdmittedWith(k) ==
    {r \in Requests : key[r] = k
        /\ pc[r] \in {"policy", "select", "write", "running", "meterKey"}}

\* The budget gate reads monthly_credit_used, which only grows when jobs end, so a
\* budget is overrun; but by less than one charge per live request, and one for each
\* time the group's row could not be read.
GroupOverrunBounded ==
    \A g \in Groups : GroupRow[g].budget > 0 =>
        used[g] + MaxCharge * Cardinality(AdmittedBy(g))
            <= GroupRow[g].budget - MinCost + MaxCharge * (Cardinality(Requests) + open)

\* The same for a key's monthly quota: the gate sees what authentication read, so a
\* request may be let in on a counter that others have moved since, but the overrun stays
\* below one charge per live request, and one for each call of /internal/execute, which
\* no quota stops (execute.go:84).
KeyOverrunBounded ==
    \A k \in Keys : KeyRow[k].quota > 0 =>
        keyUsed[k] + MaxCharge * Cardinality(AdmittedWith(k))
            <= KeyRow[k].quota - MinCost + MaxCharge * (Cardinality(Requests) + ungated)

\* docs/POOL-AND-CPA.md gives a group a budget per month: a group
\* that was charged nothing this month has nothing held against it.
BudgetIsMonthly == \A g \in Groups : used[g] > 0 => g \in charged

=============================================================================

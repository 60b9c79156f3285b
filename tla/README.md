# higgsgo: models and proofs

higgsgo turns a pool of upstream accounts into one API. A client asks for an image
or a video; higgsgo picks an account, reserves one of its concurrency slots, creates
the job upstream, follows it to its end, charges the API key and its group, gives the
slot back and calls the client's webhook. This directory holds TLA+ models of the
parts of that machinery where goroutines, the database and failures meet, TLC
configurations for them, and TLAPS proofs.

Everything is translated from the code under `src/`. `PROJECT.json` maps each
definition to its lines.

## 1. Inventory

All components run in one process (`cmd/higgsgo/main.go`). They share one SQLite
database and call each other directly; there is no message queue. Every goroutine
below runs until the process ends, and `main` does not wait for them at shutdown.

| Component | State it keeps | Operations | Talks to | What is hard, and what makes it correct |
|---|---|---|---|---|
| proxy `Generate` (`core/proxy`) | one goroutine per request; `unlock` once-guard, `jobPersisted` | pick, create, persist, poll, finish | account, job and usage stores, upstream client, metering, webhooks, failover | races the pollworker for the end of the same job; every early return has to give back what it holds. One owner per terminal transition; every slot returned; nothing charged twice |
| pollworker (`core/pollworker`) | the tick's snapshot | `tick`, `pollOne`, `markTimeout` | the same stores and services | works on a snapshot while requests move on. Every row ends |
| job store | `jobs` rows | `Create`, `TryMarkTerminal` (CAS), `UpdateStatus` (no guard), `ListPending`, `Purge` | - | guarded and unguarded writes of one column |
| account store | `accounts` rows: `in_flight_jobs`, `status`, `throttled_until`, `fail_streak`, balance, plan | `PickAndLock`, `Unlock`, `UpdateInFlight`, `ResetAllInFlight`, `Mark*`, `RecoverThrottled`, `*FailStreak` | - | caps and clamps; independent writers of `status` |
| metering (`core/metering`) | `usage_events`, key and group counters | `OnJobTerminal` | stores | four statements without a transaction; a crash or a failure in between |
| webhook dispatcher (`core/webhook`) | `sem`, `WaitGroup`, counters, two channels | `Fire`, `deliver`, `Close`, `Stats` | HTTP targets | shutdown races callers. Tokens come back, every delivery is counted, `Close` drains |
| failover (`core/failover`) | `failover_events`, streaks | `RecordSuccess`, `RecordFailure`, `RecordThrottle`, recoverer | account and failover stores | check-then-act outage guard; throttle, disable, recovery and the whole-row `Upsert` of PATCH and import write the same column |
| upstream client (`core/upstream`) | - | create, upload, poll, fetch; one retry after 401 | JWT cache, client pool | a late answer racing a timeout; a body read after its deadline. At most one effect upstream per call |
| JWT cache (`core/jwt`) | entry per account, lock per entry | `Get`, `Invalidate` | upstream auth | invalidation racing a refresh; a lock held across a mint. One mint at a time, the retry uses a new token |
| client pool (`adapters/httpclient`) | client or build error per account | `Resolve` | - | falling back to the shared client; a lookup without concurrency of its own, not modelled |
| bearer manager (`core/bearer`) | current and previous bearer, grace, one row | `Load`, `Rotate`, `Accepts` | settings store | four atomics and no lock. No bearer outlives its grace, none is refused early |
| API keys (`apikey_store`, `admin/keys`, CPA plugin) | `api_keys` rows | create, rotate, pause, resume, revoke, patch, reset, charge; partner register and delete | stores | a request runs on a snapshot while the row changes. Admission at an instant; revocation is final |
| groups (`group_store`, `admin/groups`) | `account_groups`, members, bindings | CRUD, `IncrementUsed` | metering | load-merge-write against a counter. No charge lost, no dangling link |
| key resolution (`middleware`, `v1`) | - | authenticate, playground gates, impersonation, `resolveGroup` | keys, groups | a confined key that ends up in the global pool |
| month reset | - | one statement per key | key store | check-then-act budgets |
| rate limit (`middleware/ratelimit`) | bucket per key | `allow` | - | clock read outside the lock, refill arithmetic, eviction |
| model registry (`modelregistry/jsonstatic`) | catalogue, overrides, dynamic costs | load, reload, override, `Resolve`, `List` | cost sync, proxy, v1 | concurrent reloads; the same merge written three times |
| cost sync (`core/costsync`, `pricing_store`) | snapshots with their rules | fetch, normalise, save, push | upstream, registry | two views of one table, two writes |
| pricing (`purchase_batches`, `pricing_decisions`, `pricing_floor_suggestions`, `downstream_pricing`) | batches, decisions, observations | CRUD, floor, tiers and expressions of the feed | stores | precedence of prices, rounding, tiers that shadow each other |
| registrar (`registrar/higgsfield`, `plugins/register`) | `registrations` rows, sem slots, one driver process | enqueue, trigger, poll, flow, retry, reclaim at boot | account store, driver | context of a finished request; two pollers; a child that outlives the process |
| claimer | - | gifts, activations | upstream | one failure must not keep back the rest |
| refresher | account columns | wallet, user, activations, notice | upstream, failover | overlapping passes; a partial pass |
| invoice watch, promo watch, credit reconciliation, replenish | muted keys and budgets in memory | one pass per tick | upstream, notifier | windows, restarts, a mute recorded before a failed send |
| regression probes | `model_health` | choose, probe, record | proxy | the ticker and the trigger at once |
| resolver, load balance | settings | lookups | - | mostly data |
| audit, notifiers, observability, web UI, CLI | - | output, presentation | - | little control of their own |

The hazards list of `PROJECT.json` gives the lines at which this bites, and the
properties aimed at each.

## 2. Plan

In order of importance; what is done has its section below.

1. **`JobLifecycle`** (done) with its abstract specification **`UsageLedger`**.
2. **`Webhook`** (done).
3. **`Failover`** (done).
4. **`Pool`** (done).
5. **`Session`** (done): JWT cache, the retry after a 401, uploads; abstract
   specification **`AtMostOnce`**; **`UpstreamReplies`** for what a reply means.
6. **`Access`** (done): **`KeyAccess`** over **`GroupStore`**, **`BearerManager`**,
   **`RateLimit`**, **`ModelCatalog`** over **`CatalogRefs`** and **`CostTable`**,
   **`Pricing`**.
7. **`Upkeep`** (done): the tickers, **`InvoiceWatch`**, **`PromoWatch`**, **`CreditRecon`**,
   **`Refresher`**, **`Replenish`**, **`Regression`**, under one **`Clock`**.
8. **`Supply`** (done): **`Registrar`** and **`Claimer`**.
9. Open: the orderings of the route strategies and the amounts metering computes, as
   operators against a reference definition; a composition of `Pool` and `JobLifecycle`
   through an abstract slot counter, so that the slack `drift` of `Pool` is bound to the
   early releases of `JobLifecycle`.

Every safety property the runs check is to become a theorem, component by component;
section 5 says which are and what keeps the others from it.

## 3. Modules and code

A step is what no other goroutine can come between: one database statement or
transaction, one channel or mutex operation, one upstream call. Failures of statements
are steps of their own, enabled by the constant `Faults`, so that an instance says
which statements may fail. Variables grouped under "history" are only read by
properties.

### JobLifecycle and UsageLedger

One thread per request (`Service.Generate` after the pick) and one for the pollworker.
`pc` follows the code top to bottom: pick, `CreateJob`, `Jobs.Create`, poll, terminal
CAS, release, usage event, back-fill, key, group, webhook. The side effects are the same
in both callers, so `Effects(t)` takes the thread as a parameter; `Release`,
`MeterInsert` ... `Fire` are its steps. The worker's tick takes a snapshot
(`Tick`: `batch`, `snap`, `late`) and works through it (`PollOne...`).
`CasWins`/`CasLoses`/`CasErrs` are `TryMarkTerminal`; `UpdateStatus` is the unguarded
write. `Restart` loses all memory and zeroes `in_flight_jobs`, as `main` does at boot.
`Purge` deletes old rows. Upstream (`UpstreamProgress`) is external and may do anything
that moves forward, or nothing.

Every v1 handler runs `Generate` under the HTTP request's context. A request in `Leavers`
may lose its client (`ClientLeaves`, recorded in `gone`); from then on each statement and
upstream call of that request fails, and only `unlock()`, which has a context of its own,
and the webhook dispatcher still work. `dropped` is history: such a request won the
terminal CAS and could not meter any more.

Charges are counted in jobs, not credits: the properties are about how often, not how
much. A request creates at most one job, so the two share a name.

`UsageLedger` is what accounting promises: one usage event per job, counters that move
by one event and never run ahead of the events. `ImplementsLedger` says that the
interleaved statements of `JobLifecycle` do exactly this.

### Webhook

A call of `Fire` passes the `accepting` check, counts itself, does `wg.Add` and starts
a goroutine (three steps: `FireChecked`, `FireCounts`, `FireStarts`), which waits for
`sem` (`Acquire`), posts, backs off and leaves. `Close` closes `accepting`, waits, and
either drains or expires; `Exit` is `run` returning after it, which ends every
goroutine. Payload and signature are data; the length of the backoff is time.

### Failover

A reporter is a goroutine inside `RecordSuccess`, `RecordFailure` or `RecordThrottle`;
each database statement of these is a step, because another reporter, the recoverer or
the operator can come between. Windows of events are counts that lose their oldest
member (`ThrottleAges`, ...), `throttled_until` is none, future or past. Every writer of
`accounts.status` is there: the reports, the recoverer, pause, resume, recover and delete,
an import (`Reimport`) and the PATCH that reads a row (`PatchRead`), changes a column and
writes the whole of it back (`PatchWrite`), so that `held` may be older than the row.
`MaxInputs` bounds reports and operator actions together. History: `isolated`, `parked`
and `upserted`, who was taken out of rotation and whose status a throttle report or a
stale write-back then overwrote (`stale` says which held rows have been overtaken);
`slate`, who was recovered with nobody writing since; `blind`, how often the guard could
not count; `unrecorded` and `missed`, the disables whose event could not be inserted.

### Pool

A request passes `enforceKeyGates` (`Start`; the gate reads nothing but the row it was
given, so the instant the row was read is the instant that counts, and `Start` is both),
or comes from the plugin's `/internal/execute` without a quota gate (`Execute`, of the
calls `PluginCalls`; `ungated` counts them), then per candidate group
`resolveGroupPolicy` and `enforceGroupGates` (`ReadPolicy`, `GateRefuses`, `NoPolicy`),
then `PickAndLock`. Every refusal moves on to the next group (`Spill`), an error of the
database does not (`PickFails`). The transaction is deferred and the database in WAL
mode, so it is two steps: `Select` reads a snapshot; `Write` may only commit if nobody
committed in between (`stale`). That rule belongs to SQLite and is marked external.
`Select` takes any eligible account: the order of a route strategy decides which of
them, and what is shown here holds for all strategies. The life of the job in between
is `JobLifecycle`'s; `Pool` keeps what it does to slots and budgets: `CreateFails`,
`PollFails` (the slot goes back, the job runs on), `Finish`, `MeterKey`, `MeterGroup`.

`SUM(in_flight_jobs)` over a group is the cardinality of `Slots(g)`, a set of
(account, number) pairs, which needs no recursion and can be reasoned about.
Members, caps, budgets and the groups of a key are constants: editing them is CRUD
between requests. A release that fails is left out here (it only makes the caps
tighter; `JobLifecycle` has it), and so are restarts.

The definitions named like another with a suffix (`CasWinsAnyRow`, `GetMissUnlocked`, ...)
are the plausible mistakes `PROJECT.json` lists under "mutants": TLC finds the property
violated when one of them takes the place of the definition below it.

### Session, UpstreamReplies, AtMostOnce

A call of `CreateJob` or `UploadImage` is a thread: `GetHit`/`GetMiss`/`MintOk`/`MintFails`
are `Minter.Get` under the entry's lock. A mint is two steps, Clerk's (`Issue`, when the
lifetime starts) and the arrival of the reply (`MintOk`), so a token ages on the way and
`Minter.Get` may hand out a fresh one that is past its slack; `Drift` is what the clocks
of the host and of upstream differ by. `Send`
and `Returned` are the two halves of an HTTP exchange with `Process`, upstream's own step,
between them. So a caller may give up on something upstream then does. `RetryOn401` and
`Invalidate` are the second attempt. Tokens expire, are revoked (`Revoke`) and flushed by
the operator (`HandleRefreshJWT`). Which HTTP client and address an exchange leaves by
is left out. `UpstreamReplies` gives, endpoint by endpoint, what the
client makes of a status and a body, a body cut off by the deadline included.
`AtMostOnce` is what a caller may rely on; `ImplementsAtMostOnce` is the refinement, with
the reports of an exchange grouped into ok, refused and unknown.

### Access: KeyAccess, GroupStore, BearerManager, RateLimit, ModelCatalog, Pricing

`Access` puts side by side what shares a process but no rows; `focus` names the part a
behaviour is about, so the instance is the sum and not the product of its parts.

- `GroupStore`: rows, members, bindings; PUT is `LoadGroup` then `UpdateGroup`.
- `KeyAccess`: the row operations of `apikey_store.go` as functions on a row (`Revoke`,
  `Pause`, ...), the handlers that apply them, the two-step rotation, the partner delete
  statement by statement, and requests: `Send`, `Authenticate` (which takes the snapshot
  the rest of the request works with), `ResolveGroup`, `Generate` (the quota gate),
  `Finish` (the charge). `seen` and `room` record what some instant of a request's life
  allowed, and what usage is explained by quotas.
- `BearerManager`: every atomic store of `Rotate` and every load of `Accepts` is a step.
- `RateLimit`: `Arrive` reads the clock, `Allow` runs under the mutex, up to `LockLag`
  later. The assumption `Burst <= RPS * (IdleEviction - 2 * LockLag)` says that a bucket
  idle long enough to be evicted is full again; ten minutes and the default rate satisfy it.
- `ModelCatalog`: files, override rows, the registry's copies, reloads with their two
  reads, cost sync with its two writes, quotes. The code merges files and overrides in three
  places, and so does the model: `ResolveAliased`, `ResolveModel` and `ListEntry`. `held`,
  `lone`, `alone` and `lapse` are history about which write the list in memory is from and
  how reloads overlapped, `loaded` the files since the boot. `CatalogRefs` and `CostTable` are the pure
  parts: walking a JSON tree along a catalogRef, and the two walks of a price table. The
  values of an enum are a set (the code drops duplicates, and nothing depends on their
  order), and a cost array is the sequence of its nodes in the order of the walk, each
  with the node it is nested in. `CatalogAssumption` asks for a first catalogue and a first
  price table, and for prices that are integers: they may be zero or negative.
- `Pricing`: one model with its variants. Batches and the effective unit cost (`\div` where
  the code truncates), decisions and their precedence over observations, the tiers of the
  feed and the order of their guards (`Readable` keeps to expressions the contract's grammar
  allows, which a tier without dimensions is not), the two lookups behind a floor warning.
  `PricingAssumption` says what the handlers refuse: a batch is of at least one account and
  paid for and its credits are not negative (POST and PUT both end in the checks of
  `buildBatchFromRequest`, after the merge); a posted price is not negative. Official observations may have any price.

### Upkeep: Clock, InvoiceWatch, PromoWatch, CreditRecon, Refresher, Replenish, Regression

The goroutines `main` starts, each with its pass as one action per fetch and write. They
share the clock and the restart that empties their maps; `focus` as above. `Refresher`
numbers upstream's reports, so that a column says which report it was written from;
`Activations` is the key construction `ReplaceUnlimActivations` depends on, used by the
claimer too. A refresher's failure is `Strike`, which raises the streak, and `Decides`,
which compares it and sets out to disable; jobs and other writers move the same column in
between (`OthersRaise`, `RecordSuccess`; `MaxStreak` bounds it). `standing` keeps the streak,
who is deciding and on what grounds; the status that follows is `Failover`'s. `Replenish`
keeps when a signal was last told (`toldAt`) and last lost to a failed send (`lostAt`);
`Lossy` are the signals whose send may fail. What a watcher sent is kept as a log of the times it was sent at
(`retriesAt`, `warnedAt`, `firedAt`), so that a bound can be stated for any stretch of
time. The assumptions relate the windows the way the configuration does: a deal is near
its end for as long as a mute lasts (`PromoAssumption`), a muted month is not forgotten
while a pass can still be about it (`ReconAssumption`).

### Supply: Registrar, Claimer

`Registrar` has the table, the handlers (`Enqueue`, `Retry`), the worker's poll from its
ticker and from every trigger (`TakeSlot`, `SpawnProcess`), the flow statement by
statement, the driver process and reboots. A flow started by a trigger carries the
context of the HTTP request, so `Replies` may kill it. `Claimer` follows one account: the
code claims for each separately.

## 4. Runs

All instances are the smallest in which the interesting cases meet; symmetry is used
only over interchangeable constants (`ReporterSymmetry`, `RequestSymmetry`, `MCSymmetry`,
`UpkeepSymmetry`) and never with liveness.

| Run | Instance, and why it is enough | Checks |
|---|---|---|
| `jobs_safe` | a sync and an async request on one account with cap 1, so that the second waits for the first's slot; two outcomes, one of them (`nsfw`) a name the CAS refuses; the sync client may leave; a crash anywhere, purging | `CasWinsExplained`: a second won CAS needs a revived row; `SlotAccounting`: the slot column is off by what was released early or lost, and no more; `ImplementsLedger` |
| `jobs_faults` | one request whose client may leave, every statement may fail, one crash: the worker and the request are the two actors | `EffectsOwned`: every webhook and release has an owner; `BillingConserved`: counters and events agree up to the statements that failed |
| `jobs_live` | one job, its client may leave, upstream may never end it, two crashes, fairness | `RowsSettle`, `SlotsDrain`; `JobsAccounted` for behaviours without a crash, unless the client left between the request's won CAS and its usage event |
| `webhook` | three calls, two delivery slots (one call has to wait), three attempts, `Close` at any moment, fairness | `StatsBalance`, `DrainCovers`, `DeliveriesEnd` |
| `failover` | two accounts with different limits, two reporters, three reports and operator actions in all, all faults | `GuardSlack`, `IsolationExplained` |
| `pool` | two requests live at a time, three in all; two groups that share an account, one with cap, budget and pattern; one key that spills and one on the global pool; a plugin's call on the global pool without a quota gate; group policies, charges and polls that fail; a status or balance change, a month | `GroupCapHolds`, `GroupOverrunBounded`, `KeyOverrunBounded` |
| `session` | a create and an upload on one account, tokens that live two ticks with a slack of two, the host's clock one tick behind, one revocation or flush, three mints; fairness | `TokensAccounted`, `ImplementsAtMostOnce`, `CallsEnd` |
| `access` | see below | ten properties, by part |
| `upkeep` | a clock of four units against windows of two, so that a window lapses and another begins; one restart; two refresher passes and two pool rows that are alike; a signal whose send may fail; see `MCUpkeep` for deals, reports, rows and models | `InvoiceBudgetKept`, `PromoAlertsBounded`, `ReconWarnsOnce`, `RefreshExplained`, `SampleRotates`, `ColumnsAdvance`, `AlertsKept` |
| `supply` | one registration with two slots, the loop and one request, one retry, one failed statement, one reboot; one gift and two activations; fairness. Two registrations were checked once for safety (4.8 million states) and showed nothing the one does not | `SupplyExplained`, `SuccessKept`, `PendingTakenUp`, `GrantsGetClaimed` |

`access`, part by part:

| Part | Instance | Checks |
|---|---|---|
| keys | one partner key and one operator key, two requests of any kind, two rotations at once, two secrets, quota 0 or 2, charges 1 and 2 around an estimate of 1, two administrative writes | `AdmittedAtAnInstant`, `OverspendBounded` |
| groups | two groups, one editor, one account | `GroupSpendKept`, `ConfinementExplained` |
| bearer | three bearers, two rotators, grace 2 of 3 time units, a reboot | `RotationSafe` |
| rate | two keys, two requests waiting, burst 2, rate 1, eviction after 4, lock lag 1, six instants | `RateBounded` |
| catalogue and prices | two catalogue files, three overrides, two handlers, three price tables (one that rounds to nothing), a reboot | `ServedAsStored`, `PricesOnRecord` |
| feed | four observations, five postings of an operator (one per request, one with a mode), three decisions within three seconds | `FeedBillsRight`, `FloorSound` (`SavedAsSuggested`) |
| floor | two batches out of four purchases, three writes | `FloorSound` |

Properties that are one promise with several parts are conjunctions, each part with its
own name and comment in the module:

| Property | Parts |
|---|---|
| `TokensAccounted` (`Session`) | the type invariant; `RetryUsesNewToken`; `MintsExplained`; `RefusalExplained` |
| `RotationSafe` (`BearerManager`) | `GraceBounded`, `NoFalseRefusal`, `SurvivesRestart` |
| `ServedAsStored` (`Access`) | the type invariant; `OverridesServed`, `GateExplained` (`GateAsShown`), `ListMatchesResolve` (`ListAsResolved`) |
| `PricesOnRecord` (`ModelCatalog`) | `QuoteWhole`, `OverlayOnRecord` |
| `FeedBillsRight` (`Pricing`) | `SupersededNotBilled`, `VariantBilledItsTier` |
| `FloorSound` (`Pricing`) | `FloorWithinBatches`, `TakenOutStaysOut`, `SavedAsSuggested` |
| `InvoiceBudgetKept` (`InvoiceWatch`) | `RetriesBounded`, `WarnedAfterBudget` |
| `RefreshExplained` (`Upkeep`) | the type invariant; `StrikesExplained`, `UnlimSetWhole`, `GraceExplained` |
| `AlertsKept` (`Replenish`) | `ToldOnce`, `Told` |
| `SupplyExplained` (`Supply`) | the type invariant; `SuccessHasAccount`, `OrphansExplained`, `TriedOncePerPass` |

What a theorem of section 5 establishes for every instance has a run where the instance
shows more than the theorem's statement (the case does happen, a mutant breaks it). The
type invariants of the proved modules, `TokensMatch`, `FailureExplained`,
`ThrottledHasDeadline`, `CleanSlate`, `AccountCapHolds`, `NoDanglingLinks`, `DeletedKeysStayRevoked` and `RevokedIsFinal` are left to their
theorems.

`CHECK_DEADLOCK FALSE` stands where the system may stop: the webhook process exits, and
the instances of `Pool`, `Session`, `Access`, `Upkeep` and `Supply` run out of what their
bounds allow.

Violations. Each states what a comment or a document says; TLC shows a behaviour of the
code that does otherwise.

| Run | Says | The code |
|---|---|---|
| `pool_month` | docs/POOL-AND-CPA.md:96, :137, a monthly budget per group | nothing ever resets `monthly_credit_used` of a group |
| `register_twice` | registration_store.go:9, :16, `NextPending` claims the oldest pending row, "SELECT+UPDATE ... safe under BEGIN IMMEDIATE" | `NextPending` only selects; `MarkRunning` is a later statement of another goroutine, so one poll hands the same row to every free slot |

### Bounds

Constants named `Max...` cap what is unbounded in the code (restarts, reports, requests,
edits, time, snapshots); they appear as guards. Each is large enough for the case a
property is about to happen and, where it is about a window, for the window to lapse and
begin again; the mutants show that each property can fail within them. The theorems hold
for every value.

### Fairness

- `JobLifecycle!FairSpec`: the Go scheduler runs a goroutine that can run (`RequestNext`),
  the worker's ticker keeps ticking and `pollOne` ends because its HTTP client has a
  timeout (`WorkerNext`), and time passes (`JobDeadlinePasses`). Upstream is owed no
  fairness, nor are purges, restarts or clients that leave.
- `Webhook!FairSpec`: a delivery that was started is scheduled and its POST ends
  (`http.Client` has a timeout, the backoff is a timer). Callers need not call `Fire` and
  nobody need call `Close`.
- `Session!FairSpec`: a call's own steps are weakly fair (every send ends in an answer or
  a timeout); taking the entry's lock is strongly fair, because `sync.Mutex` hands the lock
  to a waiter that has starved for a millisecond.
- `Supply`: the worker's ticker, polls and flows are weakly fair: they wait for nothing but
  the database and a driver call with a timeout. `GrantsGetClaimed` assumes in addition
  that upstream answers a call that is repeated for ever without an error at times
  (strong fairness of `FetchGiftList`, `FetchActs`, `ClaimGiftOk`, `ClaimActOk`). That is a
  statement about the network; what the run shows is that the code gives every unclaimed
  item its call again, whatever failed before it in the list.

## 5. Proofs

Eight modules: `JobLifecycleProofs`, `WebhookProofs`, `FailoverProofs`, `PoolProofs`,
`AccessProofs`, `SessionProofs`, `SupplyProofs` and `UpkeepProofs`.
They hold for all finite sets of jobs, calls, reporters, requests or rows, all faults and
bounds, under the named assumptions of the module (finite sets, natural numbers, the
thread names disjoint, the relations between windows section 3 names). Each flattens
`Next` into lemmas that say what a step does, proves types first, and then adds what an
invariant needs to be inductive.

- **JobLifecycle.** `IInv = TypeOK /\ WellFormed`: `WellFormed` says what a thread knows
  at each label (an account after the pick, a finished status while it runs side effects).
  `CasWinsExplained` needs `WinsInv` (a live row has one win less to its credit);
  `EffectsOwned` needs `EffectsInv`, which adds the effects a thread has the right to and
  has not run; `SlotAccounting` needs that a request before its pick holds nothing;
  `BillingConserved` becomes `BillingInv` over counts of threads by label, with one lemma
  on how a step changes such a count. The refinement follows step by step: an insert is
  `RecordUsage`, an increment is `ChargeKey` or `ChargeGroup`, enabled because
  `BillingInv` leaves room for it, everything else is a stutter.
- **Webhook.** `WInv`: every gauge (`sem`, the wait group, the in-flight and
  enqueued counters) equals the number of goroutines at the labels where the code holds
  it; attempts stay below `MaxRetry` until the end; after `Close` began nobody passes the
  check. Types of the gauges follow from the counts.
- **Failover.** `IInv = TypeOK /\ Targets`. `GuardSlack` is inductive over it: a reporter
  that enters the gap between guard and event saw fewer marks than the limit, at most
  all reporters are in the gap, and `Disabled` holds the decisions on record (`marks`) and
  those whose event was lost (`unrecorded`); `blind` and `missed` pay for what the guard
  could not count or see. `IsolationExplained` needs `HeldInv`: a row held by a PATCH that
  nobody overtook has the status the table has. `CleanSlate` needs `SlateInv`, which follows the three
  statements of a recovery in progress.
- **Pool.** `IInv = TypeOK /\ WellFormed`. The caps need `CapInv`: the counters cover the
  running jobs up to `drift` (`AccountCovered`, `GroupCovered`), and a snapshot nobody
  overtook still has the room it saw (`Fresh`) - this is where the transaction matters.
  Lemmas `StepKinds` and `OpenKinds` classify the steps by what they do to slots, so that
  the counting is done once per kind. The two budget bounds are inductive as they stand:
  the gate leaves `MinCost` of room, and each live request adds at most `MaxCharge`, and so
  does each unreadable group row (`open`) or each call of the plugin (`ungated`).
- **KeyAccess**, with `GroupStore`. `KeySpec` lets requests, the operator's work on keys and
  on groups interleave freely. `NextCases` groups the steps; `KeyWrites` shows that every
  step writes at most one key row, and never from revoked to something else, from which
  `RevokedIsFinal` follows. `Inv` joins types with parts that do not read each other:
  `GroupsInv` (both group properties are inductive with the types: an editor's copy always
  has `exists`); `DeleteInv` (what a delete in progress has revoked so far); `AdmitInv`
  (a request that still has a gate to pass and would pass it was allowed at some instant;
  `GateOfSnapshot` is its core: the gate on the snapshot is the gate on the row at the
  instant the snapshot was taken); `ConfineInv` (a request in the whole pool met an instant
  at which nothing confined it); `QuotaInv` (what the requests past the gate may still
  charge, on top of the usage, stays below the room their quotas gave: each of them takes
  one `MaxCharge` off what is left).
- **BearerManager.** `GraceInv` follows a rotation between its loads and stores, during
  which time stands still; `AloneInv` says, while rotations do not cross, which of the row,
  the current and the previous bearer are already the new one; `CheckInv` is about a caller
  between two loads: a bearer that at most one rotation touched is in memory or kept.
- **RateLimit.** `BucketInv` is the potential: what a bucket holds and what was admitted
  since any instant is paid for by the burst and the refill up to the bucket's clock, and a
  bucket is gone only after it had the time to fill up. `Refills` and `Evicted` are its
  cases; the clock read before the mutex costs `LockLag` once.
- **Session.** `LockInv` (the lock's holder alone mints), `IssuedInv` (a token on its way
  belongs to a call that waits for it), `TokenInv` (serials grow, so the retry's token is
  newer than the refused one), `MintInv` (each token issued is cached, on its way, lapsed,
  wasted or dropped, and every drop is explained by a refusal or a flush: a count of the
  calls on their way to drop), `ExchInv` (what is performed and reported at each label). The
  refinement of `AtMostOnce` follows step by step: an answer is `Tell`, upstream's step is
  `Perform`, everything else a stutter.
- **Supply.** `AccountInv` (the account goes in before the registration is closed),
  `SharedInv` (a row that was never shared has one flow, which says where the row stands)
  and `OrphansExplained` are inductive together; `ClaimInv` needs that the list of gifts
  has no repetitions, which is a fact about `SetToSeq` (`Listing`).
- **Upkeep.** The watchers share lemmas about logs of times (`Log`, `Gaps`, `Recent`: how
  many entries are younger than a window, and what appending one does). `BudgetInv` ties
  the count in memory to the last entries of the log; a restart allows one more budget.
  `DealInv` and `MonthInv` are the argument why a mute that lapses cannot be spent again:
  the deal is over, or no pass is about the month any more. `FiredTimes` orders, for
  each signal of `Replenish`, the mute, the last alert told and the last one lost. `AloneInv`
  is behind `ColumnsAdvance`: a pass that ran alone holds nothing older than the row.
  `StrikeInv` is behind `StrikesExplained`: the streak stays behind its grounds by one for
  each pass that has counted a failure already and may count a second. `RotateInv` is
  the rank argument for the sample: `Ahead(m)` are the models with an older probe (or as
  old and listed earlier); each tick that leaves `m` out probes `SampleSize` of them, which
  then are behind it, so `SampleSize * missed + |Ahead|` does not grow except with the
  losses `slack` counts. `PickedFirst` shows, without induction, that the first
  `SampleSize` of the sorted list are those with fewer than that ahead of them.

- **ModelCatalog**. `CatalogInv`: `OverrideInv` says that the list in memory is the one
  read after the write recorded in `held`, and who has still to read a later one; `LoneInv`,
  that a reload no other overlapped read what is still the table; `FilesInv`, that the
  locks in force are those of the files loaded since the boot and nothing else;
  `PushInv`, which table the newest snapshot is of and, between the two writes of a sync,
  the one before it. `ServedAsStored` takes in addition facts about the three merges:
  `BuiltHonest` (a spec that requires a paid plan states one, through the floors of the
  files), `ReplannedSound` and `PricedSound` (an override and a price keep that),
  `AliasSound` (so does an alias) and `MergesAgree` (the merge of the list is the merge of a
  request, though they are written apart). `ItemIdWalkIsFlat` is about the two parsers of a
  catalogue: on one of items without other identifiers, the walk along `item.id` finds what
  the flat parser finds. `PricesOnRecord` needs
  `FloorsMatch`: rounding is monotonic, so the cheapest price of a tree rounds to the
  cheapest of the rules saved, and the two walks visit the same nodes.
- **Pricing**. `PricingInv` has the types, the verdict a save got, and that a batch taken
  out stays out unless a PUT had read it before. `NewestBills` and `OwnTierFirst` are about
  the feed: a tier carries the newest decision of its variant, and the first tier whose
  guard a priced variant passes is its own or the one that leaves only the mode open. `FloorBetween` is that the quotient of the sums lies between the
  quotients of the parts, for a sum the definition of which is a recursive function over
  subsets: `SubsetSteps`, `SumsExist` and `SumIsOne` say by induction on the proper subset
  relation that such a function exists and is unique, `Scaled`, `SumsCompare` and
  `Quotients` do the arithmetic of a truncated mean.
- **Access**, the whole. `PartsAsSpecified`: every behaviour of the server satisfies the
  specification of each part, since a step of one part is a stutter of the others. With it
  `PartsKeepTheirWord` carries the theorems above over to `Spec`, the specification the
  run checks, and `AlwaysServedAsStored` has the ranges of all rows in it (`SecretInv`,
  `BudgetInv`, `ScopeInv`, `TokensInv`: which secrets, usages, groups and tokens occur).

All invariants of the passing runs are theorems, and so are the action properties and
refinements `ImplementsLedger`, `ImplementsAtMostOnce`, `SuccessKept`, `ColumnsAdvance` and
`AlertsKept`; `PROJECT.json` lists them. Only model-checked are the liveness properties
(`RowsSettle`, `SlotsDrain`, `JobsAccounted`, `DeliveriesEnd`, `CallsEnd`,
`PendingTakenUp`, `GrantsGetClaimed`), which are out of the prover's reach: they need
fairness and ENABLED. So are the two properties the code violates, of course.

## 6. Observations

Met while reading; no run is about them.

- The boot reset zeroes `in_flight_jobs` because jobs from before a crash "are dead - no
  goroutine is polling them" (main.go:142-144), but `ListPending` picks them up again.
  Until they end they run uncounted, and their release takes a slot from a later job.
  `SlotAccounting` bounds this by `over`.
- A delivery waiting for a slot when the shutdown context expires gets no attempt,
  against webhook.go:172-174.
- A crash between the won CAS and metering or the webhook loses them: there is no
  outbox. `JobsAccounted` is therefore stated for behaviours without a restart.
- So does a client that leaves in that window lose the metering, since `Generate` runs
  under its context (`dropped`, which `JobsAccounted` exempts), against service.go:676-679,
  which "would rather double-write" than drop the accounting row. If it leaves between
  upstream's answer and `Jobs.Create`, a job runs upstream that no row knows of. If it
  leaves before the CAS, the failed CAS counts as won: the slot is released and the webhook
  fired once by the request and once more by the worker.
- The sync path writes upstream's `nsfw` and `terminated` under their own names, which
  `TryMarkTerminal` refuses; the request then goes on as if it had won.
- The guard's failure path lets a disable through although its comment says "we just
  don't disable" (controller.go:357-361); an unreadable group row lifts all limits of the
  group for that request (service.go:1000).
- "budget is self-limiting" (service.go:1055) holds only for requests one after the
  other; `GroupOverrunBounded` gives the bound for concurrent ones.
- A pick that loses its snapshot is refused instead of retried or spilled.
- After a failed poll the request and later the worker give the same slot back
  (service.go:582), against "Unlock is exactly-once" (347) and "so we don't
  double-decrement" (695); `SlotAccounting` bounds it. The worker's unguarded progress
  write can make a finished row live again, so that a second CAS wins and a second webhook
  goes out, against service.go:643; `CasWinsExplained` names that as the only way, and
  `BillingConserved` shows that nothing is charged twice.
- A `Fire` between its check and `wg.Add` is accepted and not waited for, against
  webhook.go:186; `DrainCovers` says that only calls in that window are missed.
- A late 429 parks a disabled account and the recoverer then makes it active, against
  account.go:91 "Only an operator can bring a disabled account back". PATCH writes back the
  whole row it read (admin/accounts.go:182-235), so an edit that read the row before a
  disable undoes it. `IsolationExplained` shows that these are the only two ways besides the
  operator's own resume, recovery and import. Two reporters can both pass the
  outage guard before either writes its event (controller.go:385), and an account is
  disabled although its event could not be inserted (controller.go:391-397), which the guard
  never counts; `GuardSlack` bounds both.

Upstream exchanges.

- `doWithRetry` cancels its deadline as it returns, before the caller reads the body; a
  body cut to nothing is then read as "no notice", "no offer" or a ledger of zero.
- An account's requests are to leave by one address (pool.go:18-23, client.go:805-808
  "the sticky IP promised at registration time"), but the minter (main.go:251, jwt.go:175)
  and the S3 upload (client.go:704) use the shared client.
- A token that was just minted is handed out without the slack check (jwt.go:118-123), so
  after a mint that took most of a lifetime upstream refuses it; `RefusalExplained` names
  this, the time between `Get` and the arrival, and revocation as the only causes.
- Two activations of the same bundle have the same key, so `ReplaceUnlimActivations` rolls
  back every time. Overlapping refreshes can write an older report over a newer one;
  `ColumnsAdvance` says when. The refresher never reports a success, and a dead session
  counts as two failures per pass, so the "consecutive" failures of refresher.go:166 need not
  be consecutive: good passes do not end the chain, and failed jobs lengthen it.
- `total_plan_credits` has two writers, against account_store.go:216-218.

Keys, groups, bearer.

- The partner delete skips paused keys (delete.go:32), which can be resumed afterwards,
  against delete.go:9 "revoking every api_keys row"; `DeletedKeysStayRevoked` is about the
  others.
- `/internal/execute` passes neither the budget nor the quota gate; impersonation skips
  the check of authentication but not `enforceKeyGates`; `HasBudget(0)` admits a key whose
  usage equals its quota. There is one rate limiter per route group, hence four buckets
  per key.
- A group named in the body is used whether or not the key is bound to it. Deleting a
  key's only group, or a failed listing, widens it to the global pool;
  `ConfinementExplained` shows that there is no third way. `PUT /groups` can lose another
  operator's edit of a field, though never a charge.
- Overlapping rotations can leave memory and database with different bearers
  (`SurvivesRestart` excludes them by `crossed`); a second rotation within 30 seconds ends
  the first bearer's grace, against settings.go:83.

Catalogue and prices.

- An override that clears `starter_locked` does not open the model to starter accounts:
  `Generate` asks `Registry.StarterLocked`, whose set only grows until a restart. Any
  override, a note included, re-derives the minimum plan and loses the floor of the extras
  file. A reload that read its list before another's can store it after, so that a saved
  override is not served until the next reload, against model_overrides.go:17-21;
  `OverridesServed` says that this and a failed reload are the only reasons, and that the
  list is never older than what a reload without overlap brought.
- A tier without dimensions is emitted without a guard (downstream_pricing.go:373-377), a
  form outside the grammar of docs/PRICING-DOWNSTREAM-CONTRACT.md:437-445 (the test at
  downstream_pricing_test.go:191 expects it). `FeedBillsRight` is about `Readable`
  expressions, those without such a tier.
- One price that rounds to zero hundredths makes `SaveSnapshot` refuse the whole snapshot,
  so prices stand still until upstream changes it.
- A tier without a mode sorts before those with one, so a request that names the mode is
  billed the price without it (the contract's section 5 asks for exact equality);
  `VariantBilledItsTier` shows that no other tier is shadowed. The merge key leaves out
  the duration, the expression's also the unit. Of two decisions in one second either may
  win. The suggested floor and the warning on save may differ where no rule names the
  resolution (`SavedAsSuggested`).
- "rounding error of at most 1" of the unit cost does not hold: credits are cut to whole
  ones first; `FloorWithinBatches` has the bound that does.

Tickers and registration.

- The invoice retry window is fixed and starts at the first retry, so up to five retries
  fall within 24 hours; a restart grants a new budget; a failed send loses the warning for
  the window. Replenish records the mute before it sends (replenish.go:252-261), so a failed
  send leaves a signal muted with nobody told; `AlertsKept` says that a shortage stays untold
  only if its own alert was lost. A mismatch alert in mid-month mutes that of the full month.
- `TriggerSweep` ignores its sample size.
- Flows started by a trigger die with the request's context, and `MarkFailed` on the dead
  context leaves the row running until the next boot (`OrphansExplained`). The driver's
  child outlives the process and keeps its port, so the next boot has no worker.
  `Upsert` makes a disabled account active again (`SuccessKept` says when).

## 7. Not modelled

- Request parsing and response shaping of the v1 dialects, request bodies, media roles:
  data. What a request passes before and after is in `KeyAccess`, `Pool`, `JobLifecycle`.
- Markup and cost arithmetic of metering, and the orderings of the route strategies: the
  models let any charge and any eligible account happen. Regular expressions: a group's
  patterns are the set of models it refuses.
- What importing, exporting and editing accounts by hand does to columns other than the
  status, settings other than the bearer, the
  default strategy and the headroom: single statements that nothing else depends on the
  order of.
- Audit log, notifiers, metrics, transport and TLS fingerprints, the web UI and the CLI:
  output, pure I/O or clients of the API. The browser behind the registration driver is an
  outcome of `DriverAnswers` or `DriverFails`.
- Which HTTP client, proxy and address an exchange leaves by (section 6 has the exceptions
  met): a function of the account and the call site.
- Configuration parsing, and changing failover thresholds while the process runs.

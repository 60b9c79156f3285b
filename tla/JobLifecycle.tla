---------------------------- MODULE JobLifecycle ----------------------------
(***************************************************************************)
(* The life of a generation job: proxy.Service.Generate (one thread per    *)
(* request), the background pollworker, the jobs / accounts / usage_events *)
(* tables they share, and a restart of the process.                        *)
(*                                                                         *)
(* A step is one database statement or one upstream call: everything that  *)
(* another goroutine can come between.  A request creates at most one job, *)
(* so requests and jobs share their names.  The request thread and the     *)
(* worker run the same side effects once they own a terminal transition    *)
(* (release the slot, meter, fire the webhook); those actions take the     *)
(* thread as a parameter.                                                  *)
(*                                                                         *)
(* The v1 handlers and the CPA plugin hand Generate the context of their   *)
(* HTTP request.  Once the client has left, every statement and upstream   *)
(* call of that request fails; only unlock(), on a context of its own, and *)
(* Webhooks.Fire, which takes none, still go through.                      *)
(***************************************************************************)
EXTENDS Integers, FiniteSets

CONSTANTS
    Jobs,          \* requests, and the jobs they create
    AsyncJobs,     \* requests served on the async path
    Accounts,      \* pool accounts
    Worker,        \* the pollworker goroutine
    AccountCap,    \* effective per-account concurrency cap of PickAndLock
    Outcomes,      \* terminal <<status, refunded>> pairs upstream may reach
    Faults,        \* database statements that may fail in this instance
    Leavers,       \* requests whose client may go away in this instance
    MaxRestarts    \* bound on process restarts

LiveStatuses == {"pending", "queued", "in_progress"}
TerminalStatuses == {"completed", "failed", "refunded", "timeout"}
UpstreamTerminal == {"completed", "failed", "nsfw", "terminated"}
NoRow == "none"
FaultNames == {"create_row", "cas", "update", "release", "insert", "key", "group",
               "get_account", "reset"}

ASSUME JobsAssumption == IsFiniteSet(Jobs) /\ AsyncJobs \subseteq Jobs
ASSUME WorkerAssumption == Worker \notin Jobs
ASSUME CapAssumption == AccountCap \in Nat \ {0}
ASSUME OutcomesAssumption == Outcomes \subseteq (UpstreamTerminal \X BOOLEAN)
ASSUME FaultsAssumption == Faults \subseteq FaultNames
ASSUME LeaversAssumption == Leavers \subseteq Jobs
ASSUME RestartsAssumption == MaxRestarts \in Nat

Threads == Jobs \union {Worker}

VARIABLES
    \* database
    row,        \* jobs.status of each job, or NoRow
    inFlight,   \* accounts.in_flight_jobs
    billed,     \* jobs with a usage_events row (UNIQUE on higgsgo_job_id)
    cfEvents,   \* requests with a usage event under a minted "cf" id
    keyUsed,    \* api_keys.monthly_used, in jobs charged
    groupUsed,  \* groups.monthly_credit_used, in jobs charged
    \* upstream (external)
    up,         \* <<status, refunded>> of the upstream job
    \* process memory
    pc,         \* program counter of every thread
    acct,       \* account a request holds, or NoRow
    persisted,  \* jobPersisted of a request
    cur,        \* job the worker is handling
    seen,       \* status the thread last read or is about to record
    batch,      \* jobs of the current tick still to poll
    snap,       \* status each of them had in ListPending
    late,       \* those past JobDeadline when the tick began
    \* clock
    overdue,    \* jobs older than JobDeadline
    restarts,
    gone,       \* requests whose client has left, so their context is cancelled
    \* history, read by the properties only
    holds,      \* jobs whose reserved slot no statement has given back
    over,       \* per account: releases of a slot that was not held
    wins,       \* per job: terminal CAS won
    bypass,     \* per job: side effects run without a won CAS
    early,      \* per job: slot released on an error path, no CAS run
    revived,    \* per job: UpdateStatus took a finished row back to live
    releases,   \* per job: slot releases that reached the accounts row
    fires,      \* per job: webhooks handed to the dispatcher
    dropped     \* requests that won the CAS and could not meter: the client had left

db == <<row, inFlight, billed, cfEvents, keyUsed, groupUsed>>
memory == <<pc, acct, persisted, cur, seen, batch, snap, late>>
history == <<holds, over, wins, bypass, early, revived, releases, fires, dropped>>
vars == <<db, up, memory, overdue, restarts, gone, history>>

Bump(f, x) == [f EXCEPT ![x] = @ + 1]
Goto(t, label) == pc' = [pc EXCEPT ![t] = label]
JobOf(t) == IF t = Worker THEN cur ELSE t
IsTerminal(s) == s \in TerminalStatuses

HeldOn(a) == {j \in holds : acct[j] = a}

RowVal == {NoRow} \union LiveStatuses \union TerminalStatuses \union UpstreamTerminal
SeenVal == RowVal \union {"error"}
RequestPC == {"start", "create", "persist", "poll", "create_failed",
              "error_release", "done"}
EffectPC == {"cas", "release", "meter", "backfill", "key", "group", "fire"}
WorkerPC == {"idle", "next", "fetched"}

TypeOK ==
    /\ row \in [Jobs -> RowVal]
    /\ inFlight \in [Accounts -> Nat]
    /\ billed \subseteq Jobs /\ cfEvents \subseteq Jobs
    /\ keyUsed \in Nat /\ groupUsed \in Nat
    /\ up \in [Jobs -> ({NoRow} \union LiveStatuses \union UpstreamTerminal) \X BOOLEAN]
    /\ pc \in [Threads -> RequestPC \union EffectPC \union WorkerPC]
    /\ acct \in [Jobs -> Accounts \union {NoRow}]
    /\ persisted \in [Jobs -> BOOLEAN]
    /\ cur \in Jobs \union {NoRow}
    /\ seen \in [Threads -> SeenVal]
    /\ batch \subseteq Jobs /\ late \subseteq Jobs /\ overdue \subseteq Jobs
    /\ snap \in [Jobs -> RowVal]
    /\ restarts \in 0..MaxRestarts
    /\ gone \subseteq Jobs /\ dropped \subseteq Jobs
    /\ holds \subseteq Jobs
    /\ over \in [Accounts -> Nat]
    /\ wins \in [Jobs -> Nat] /\ bypass \in [Jobs -> Nat] /\ early \in [Jobs -> Nat]
    /\ revived \in [Jobs -> Nat] /\ releases \in [Jobs -> Nat] /\ fires \in [Jobs -> Nat]

Init ==
    /\ row = [j \in Jobs |-> NoRow]
    /\ inFlight = [a \in Accounts |-> 0]
    /\ billed = {} /\ cfEvents = {} /\ keyUsed = 0 /\ groupUsed = 0
    /\ up = [j \in Jobs |-> <<NoRow, FALSE>>]
    /\ pc = [t \in Threads |-> IF t = Worker THEN "idle" ELSE "start"]
    /\ acct = [j \in Jobs |-> NoRow]
    /\ persisted = [j \in Jobs |-> FALSE]
    /\ cur = NoRow
    /\ seen = [t \in Threads |-> NoRow]
    /\ batch = {} /\ late = {} /\ overdue = {}
    /\ snap = [j \in Jobs |-> NoRow]
    /\ restarts = 0
    /\ gone = {} /\ dropped = {}
    /\ holds = {}
    /\ over = [a \in Accounts |-> 0]
    /\ wins = [j \in Jobs |-> 0] /\ bypass = [j \in Jobs |-> 0]
    /\ early = [j \in Jobs |-> 0] /\ revived = [j \in Jobs |-> 0]
    /\ releases = [j \in Jobs |-> 0] /\ fires = [j \in Jobs |-> 0]

-----------------------------------------------------------------------------
(* Statements of the stores, used by the actions below.                    *)

\* A statement of thread t fails: one of this instance's faults, or its context is done.
Fails(t, fault) == fault \in Faults \/ t \in gone

\* History of a release of job j's slot.
Released(j) ==
    /\ holds' = holds \ {j}
    /\ over' = IF j \in holds THEN over ELSE Bump(over, acct[j])
    /\ releases' = Bump(releases, j)

\* Mutant: clamps at one.
UpdateInFlightClampsAtOne(j) ==
    /\ inFlight' = [inFlight EXCEPT ![acct[j]] = IF @ > 1 THEN @ - 1 ELSE @]
    /\ Released(j)

\* AccountStore.UpdateInFlight(-1) / Unlock for job j, clamped at zero.
UpdateInFlight(j) ==
    LET a == acct[j] IN
    /\ inFlight' = [inFlight EXCEPT ![a] = IF @ > 0 THEN @ - 1 ELSE 0]
    /\ Released(j)

\* JobStore.UpdateStatus by t: no guard on the current status.  A missing row, like any
\* error, changes nothing, and every caller goes on.
UpdateStatus(t, j, s) ==
    \/ /\ row[j] # NoRow /\ t \notin gone
       /\ row' = [row EXCEPT ![j] = s]
       /\ revived' = IF row[j] \notin LiveStatuses /\ s \in LiveStatuses
                     THEN Bump(revived, j) ELSE revived
    \/ /\ row[j] = NoRow \/ Fails(t, "update")
       /\ UNCHANGED <<row, revived>>

\* The three results of JobStore.TryMarkTerminal(j, live statuses, s) by t; the last two
\* need a statement that ran.
CasErrs(t, s) == ~IsTerminal(s) \/ Fails(t, "cas")
\* Mutant: the UPDATE lost its status guard.
CasWinsAnyRow(j, s) == IsTerminal(s) /\ row[j] # NoRow

CasWins(j, s) == IsTerminal(s) /\ row[j] \in LiveStatuses
CasLoses(j, s) == IsTerminal(s) /\ row[j] \notin LiveStatuses

-----------------------------------------------------------------------------
(* proxy.Service.Generate                                                  *)

\* PickAndLock in its transaction: an account below its cap gains a job.
PickAndLock(r, a) ==
    /\ pc[r] = "start"
    /\ inFlight[a] < AccountCap
    /\ inFlight' = Bump(inFlight, a)
    /\ acct' = [acct EXCEPT ![r] = a]
    /\ holds' = holds \union {r}
    /\ Goto(r, "create")
    /\ UNCHANGED <<row, billed, cfEvents, keyUsed, groupUsed, up, persisted, cur,
                   seen, batch, snap, late, overdue, restarts, gone, over, wins, bypass,
                   early, revived, releases, fires, dropped>>

\* No account has room (ErrNoEligibleAccount): nothing was reserved.
PickFails(r) ==
    /\ pc[r] = "start"
    /\ \A a \in Accounts : inFlight[a] >= AccountCap
    /\ Goto(r, "done")
    /\ UNCHANGED <<db, up, acct, persisted, cur, seen, batch, snap, late, overdue,
                   restarts, gone, history>>

CreateJob(r) ==
    /\ pc[r] = "create" /\ r \notin gone
    /\ up' = [up EXCEPT ![r] = <<"queued", FALSE>>]
    /\ Goto(r, "persist")
    /\ UNCHANGED <<db, acct, persisted, cur, seen, batch, snap, late, overdue,
                   restarts, gone, history>>

\* CreateJob failed: a usage event under a fresh "cf" id (zero cost, so neither
\* counter moves; the back-fill finds no row), then the slot is released.
CreateJobFails(r) ==
    /\ pc[r] = "create"
    /\ \/ r \notin gone /\ cfEvents' = cfEvents \union {r}
       \/ Fails(r, "insert") /\ UNCHANGED cfEvents
    /\ Goto(r, "create_failed")
    /\ UNCHANGED <<row, inFlight, billed, keyUsed, groupUsed, up, acct, persisted,
                   cur, seen, batch, snap, late, overdue, restarts, gone, history>>

\* Jobs.Create, then the async hand-off when it landed.
PersistJob(r) ==
    /\ pc[r] = "persist" /\ r \notin gone
    /\ row' = [row EXCEPT ![r] = "queued"]
    /\ persisted' = [persisted EXCEPT ![r] = TRUE]
    /\ Goto(r, IF r \in AsyncJobs THEN "done" ELSE "poll")
    /\ UNCHANGED <<inFlight, billed, cfEvents, keyUsed, groupUsed, up, acct, cur,
                   seen, batch, snap, late, overdue, restarts, gone, history>>

\* Jobs.Create failed: async degrades to the sync poll.
PersistJobFails(r) ==
    /\ pc[r] = "persist"
    /\ Fails(r, "create_row")
    /\ Goto(r, "poll")
    /\ UNCHANGED <<db, up, acct, persisted, cur, seen, batch, snap, late, overdue,
                   restarts, gone, history>>

\* The status Generate derives from PollUntilTerminal's answer: only "failed"
\* is renamed, "nsfw" and "terminated" stay as upstream wrote them.
SyncStatus(u) == IF u[1] = "failed" /\ u[2] THEN "refunded" ELSE u[1]

\* PollUntilTerminal returned a terminal job.  Without a jobs row there is no
\* CAS and the thread is its own winner.
PollTerminal(r) ==
    /\ pc[r] = "poll" /\ r \notin gone
    /\ up[r][1] \in UpstreamTerminal
    /\ seen' = [seen EXCEPT ![r] = SyncStatus(up[r])]
    /\ Goto(r, IF persisted[r] THEN "cas" ELSE "release")
    /\ bypass' = IF persisted[r] THEN bypass ELSE Bump(bypass, r)
    /\ UNCHANGED <<db, up, acct, persisted, cur, batch, snap, late, overdue, restarts, gone,
                   holds, over, wins, early, revived, releases, fires, dropped>>

\* PollUntilTerminal gave up: sync deadline, cancelled context, or FetchJob error.
PollFails(r) ==
    /\ pc[r] = "poll"
    /\ Goto(r, "error_release")
    /\ UNCHANGED <<db, up, acct, persisted, cur, seen, batch, snap, late, overdue,
                   restarts, gone, history>>

\* Mutant: an error return without its unlock().
ErrorReturnKeepsSlot(r) ==
    /\ pc[r] \in {"error_release", "create_failed"}
    /\ Goto(r, "done")
    /\ UNCHANGED <<db, up, acct, persisted, cur, seen, batch, snap, late, overdue,
                   restarts, gone, history>>

\* unlock() on an error path: no CAS ran, the jobs row is left as it is.
ErrorRelease(r) ==
    /\ pc[r] \in {"error_release", "create_failed"}
    /\ \/ /\ UpdateInFlight(r)
          /\ early' = Bump(early, r)
       \/ /\ "release" \in Faults
          /\ UNCHANGED <<inFlight, holds, over, releases, early>>
    /\ Goto(r, "done")
    /\ UNCHANGED <<row, billed, cfEvents, keyUsed, groupUsed, up, acct, persisted, cur,
                   seen, batch, snap, late, overdue, restarts, gone, wins, bypass, revived,
                   fires, dropped>>

\* TryMarkTerminal by the request: an error counts as a win.
SyncCas(r) ==
    /\ pc[r] = "cas"
    /\ r \in Jobs
    /\ \/ /\ CasErrs(r, seen[r])
          /\ Goto(r, "release")
          /\ bypass' = Bump(bypass, r)
          /\ UNCHANGED <<row, wins>>
       \/ /\ r \notin gone /\ CasWins(r, seen[r])
          /\ Goto(r, "release")
          /\ row' = [row EXCEPT ![r] = seen[r]]
          /\ wins' = Bump(wins, r)
          /\ UNCHANGED bypass
       \/ /\ r \notin gone /\ CasLoses(r, seen[r])
          /\ Goto(r, "done")
          /\ UNCHANGED <<row, wins, bypass>>
    /\ UNCHANGED <<inFlight, billed, cfEvents, keyUsed, groupUsed, up, acct, persisted,
                   cur, seen, batch, snap, late, overdue, restarts, gone, holds, over, early,
                   revived, releases, fires, dropped>>

-----------------------------------------------------------------------------
(* pollworker.Worker                                                       *)

\* tick: ListPending, and the clock reading every poll of the tick uses.
Tick ==
    /\ pc[Worker] = "idle"
    /\ batch' = {j \in Jobs : row[j] \in LiveStatuses}
    /\ snap' = [j \in Jobs |-> IF row[j] \in LiveStatuses THEN row[j] ELSE NoRow]
    /\ late' = overdue \intersect batch'
    /\ Goto(Worker, "next")
    /\ UNCHANGED <<db, up, acct, persisted, cur, seen, overdue, restarts, gone, history>>

TickEnds ==
    /\ pc[Worker] = "next"
    /\ batch = {}
    /\ Goto(Worker, "idle")
    /\ cur' = NoRow
    /\ seen' = [seen EXCEPT ![Worker] = NoRow]
    /\ snap' = [j \in Jobs |-> NoRow]
    /\ late' = {}
    /\ UNCHANGED <<db, up, acct, persisted, batch, overdue, restarts, gone, history>>

\* The loop moves to job j of the snapshot.
Take(j) ==
    /\ pc[Worker] = "next"
    /\ j \in batch
    /\ batch' = batch \ {j}
    /\ cur' = j

\* Mutant: the deadline check returns without markTimeout.
PollOneIgnoresDeadline(j) ==
    /\ Take(j)
    /\ j \in late
    /\ UNCHANGED <<db, up, pc, acct, persisted, seen, snap, late, overdue, restarts, gone,
                   history>>

\* pollOne finds the deadline passed and enters markTimeout.
PollOneTimeout(j) ==
    /\ Take(j)
    /\ j \in late
    /\ seen' = [seen EXCEPT ![Worker] = "timeout"]
    /\ Goto(Worker, "cas")
    /\ UNCHANGED <<db, up, acct, persisted, snap, late, overdue, restarts, gone, history>>

\* pollOne returns early: polled too recently, or the account row is unreadable.
PollOneSkips(j) ==
    /\ Take(j)
    /\ j \notin late
    /\ UNCHANGED <<db, up, pc, acct, persisted, seen, snap, late, overdue, restarts, gone,
                   history>>

\* FetchStatus answers with the upstream status of this moment, or fails.
PollOneFetch(j) ==
    /\ Take(j)
    /\ j \notin late
    /\ \E s \in {up[j][1], "error"} : seen' = [seen EXCEPT ![Worker] = s]
    /\ Goto(Worker, "fetched")
    /\ UNCHANGED <<db, up, acct, persisted, snap, late, overdue, restarts, gone, history>>

\* The unguarded writes: the snapshot's status after a fetch error, the new
\* status after progress.
PollOneProgress ==
    /\ pc[Worker] = "fetched"
    /\ seen[Worker] \notin UpstreamTerminal
    /\ IF seen[Worker] = "error"
       THEN UpdateStatus(Worker, cur, snap[cur])
       ELSE IF seen[Worker] # snap[cur]
            THEN UpdateStatus(Worker, cur, seen[Worker])
            ELSE UNCHANGED <<row, revived>>
    /\ Goto(Worker, "next")
    /\ UNCHANGED <<inFlight, billed, cfEvents, keyUsed, groupUsed, up, acct, persisted,
                   cur, seen, batch, snap, late, overdue, restarts, gone, holds, over, wins,
                   bypass, early, releases, fires, dropped>>

\* domainStatus: every unsuccessful upstream end is failed, or refunded.
DomainStatus(u) ==
    IF u[1] = "completed" THEN "completed" ELSE IF u[2] THEN "refunded" ELSE "failed"

\* Terminal upstream: FetchJob reads the refund flag, or fails until next tick.
PollOneFetchJob ==
    /\ pc[Worker] = "fetched"
    /\ seen[Worker] \in UpstreamTerminal
    /\ \/ /\ seen' = [seen EXCEPT ![Worker] = DomainStatus(<<seen[Worker], up[cur][2]>>)]
          /\ Goto(Worker, "cas")
       \/ /\ Goto(Worker, "next")
          /\ UNCHANGED seen
    /\ UNCHANGED <<db, up, acct, persisted, cur, batch, snap, late, overdue, restarts, gone,
                   history>>

\* Mutant: a worker that wins the CAS forgets the side effects.
WorkerCasNoEffects ==
    /\ pc[Worker] = "cas"
    /\ Goto(Worker, "next")
    /\ IF CasWins(cur, seen[Worker])
       THEN row' = [row EXCEPT ![cur] = seen[Worker]] /\ wins' = Bump(wins, cur)
       ELSE UNCHANGED <<row, wins>>
    /\ UNCHANGED <<inFlight, billed, cfEvents, keyUsed, groupUsed, up, acct, persisted,
                   cur, seen, batch, snap, late, overdue, restarts, gone, holds, over, bypass,
                   early, revived, releases, fires, dropped>>

\* Mutant: the worker, like the request, takes a failed CAS for a win.
WorkerCasErrorWins ==
    /\ pc[Worker] = "cas"
    /\ \/ /\ CasErrs(Worker, seen[Worker])
          /\ Goto(Worker, "release")
          /\ UNCHANGED <<row, wins>>
       \/ /\ CasWins(cur, seen[Worker])
          /\ Goto(Worker, "release")
          /\ row' = [row EXCEPT ![cur] = seen[Worker]]
          /\ wins' = Bump(wins, cur)
    /\ UNCHANGED <<inFlight, billed, cfEvents, keyUsed, groupUsed, up, acct, persisted,
                   cur, seen, batch, snap, late, overdue, restarts, gone, holds, over, bypass,
                   early, revived, releases, fires, dropped>>

\* TryMarkTerminal by the worker: an error leaves the job to the next tick.
WorkerCas ==
    /\ pc[Worker] = "cas"
    /\ \/ /\ CasErrs(Worker, seen[Worker]) \/ CasLoses(cur, seen[Worker])
          /\ Goto(Worker, "next")
          /\ UNCHANGED <<row, wins>>
       \/ /\ CasWins(cur, seen[Worker])
          /\ Goto(Worker, "release")
          /\ row' = [row EXCEPT ![cur] = seen[Worker]]
          /\ wins' = Bump(wins, cur)
    /\ UNCHANGED <<inFlight, billed, cfEvents, keyUsed, groupUsed, up, acct, persisted,
                   cur, seen, batch, snap, late, overdue, restarts, gone, holds, over, bypass,
                   early, revived, releases, fires, dropped>>

-----------------------------------------------------------------------------
(* Side effects of the owner of a terminal transition, request or worker.  *)

\* unlock() / releaseInFlight.  markTimeout meters only if the account is readable.
Release(t) ==
    /\ pc[t] = "release"
    /\ \/ UpdateInFlight(JobOf(t))
       \/ "release" \in Faults /\ UNCHANGED <<inFlight, holds, over, releases>>
    /\ \/ Goto(t, "meter")
       \/ t = Worker /\ seen[t] = "timeout" /\ "get_account" \in Faults /\ Goto(t, "fire")
    /\ UNCHANGED <<row, billed, cfEvents, keyUsed, groupUsed, up, acct, persisted, cur,
                   seen, batch, snap, late, overdue, restarts, gone, wins, bypass, early,
                   revived, fires, dropped>>

\* Mutant: a duplicate usage event does not stop the metering pipeline.
MeterInsertGoesOn(t) ==
    /\ pc[t] = "meter"
    /\ billed' = billed \union {JobOf(t)}
    /\ Goto(t, "backfill")
    /\ UNCHANGED <<row, inFlight, cfEvents, keyUsed, groupUsed, up, acct, persisted, cur,
                   seen, batch, snap, late, overdue, restarts, gone, history>>

\* OnJobTerminal, usage_events insert: a duplicate, like any insert error, returns
\* before the counters are touched.
MeterInsert(t) ==
    /\ pc[t] = "meter"
    /\ \/ /\ t \notin gone /\ JobOf(t) \notin billed
          /\ billed' = billed \union {JobOf(t)}
          /\ Goto(t, "backfill")
          /\ UNCHANGED dropped
       \/ /\ JobOf(t) \in billed \/ Fails(t, "insert")
          /\ Goto(t, "fire")
          /\ dropped' = IF t \in gone /\ bypass[t] = 0 THEN dropped \union {t} ELSE dropped
          /\ UNCHANGED billed
    /\ UNCHANGED <<row, inFlight, cfEvents, keyUsed, groupUsed, up, acct, persisted, cur,
                   seen, batch, snap, late, overdue, restarts, gone, holds, over, wins,
                   bypass, early, revived, releases, fires>>

\* OnJobTerminal, credits written back with an unguarded UpdateStatus.
MeterBackfill(t) ==
    /\ pc[t] = "backfill"
    /\ UpdateStatus(t, JobOf(t), seen[t])
    /\ Goto(t, "key")
    /\ UNCHANGED <<inFlight, billed, cfEvents, keyUsed, groupUsed, up, acct, persisted,
                   cur, seen, batch, snap, late, overdue, restarts, gone, holds, over, wins,
                   bypass, early, releases, fires, dropped>>

MeterKey(t) ==
    /\ pc[t] = "key"
    /\ \/ t \notin gone /\ keyUsed' = keyUsed + 1
       \/ Fails(t, "key") /\ UNCHANGED keyUsed
    /\ Goto(t, "group")
    /\ UNCHANGED <<row, inFlight, billed, cfEvents, groupUsed, up, acct, persisted, cur,
                   seen, batch, snap, late, overdue, restarts, gone, history>>

MeterGroup(t) ==
    /\ pc[t] = "group"
    /\ \/ t \notin gone /\ groupUsed' = groupUsed + 1
       \/ Fails(t, "group") /\ UNCHANGED groupUsed
    /\ Goto(t, "fire")
    /\ UNCHANGED <<row, inFlight, billed, cfEvents, keyUsed, up, acct, persisted, cur,
                   seen, batch, snap, late, overdue, restarts, gone, history>>

\* Webhooks.Fire; the request returns its response, the worker its loop.
Fire(t) ==
    /\ pc[t] = "fire"
    /\ fires' = Bump(fires, JobOf(t))
    /\ Goto(t, IF t = Worker THEN "next" ELSE "done")
    /\ UNCHANGED <<db, up, acct, persisted, cur, seen, batch, snap, late, overdue,
                   restarts, gone, holds, over, wins, bypass, early, revived, releases, dropped>>

Effects(t) ==
    Release(t) \/ MeterInsert(t) \/ MeterBackfill(t) \/ MeterKey(t) \/ MeterGroup(t) \/ Fire(t)

-----------------------------------------------------------------------------
(* Environment                                                             *)

\* External: upstream runs the job and ends it with one of Outcomes.
UpstreamProgress(j) ==
    /\ \/ /\ up[j][1] = "queued"
          /\ up' = [up EXCEPT ![j] = <<"in_progress", FALSE>>]
       \/ /\ up[j][1] = "in_progress"
          /\ \E o \in Outcomes : up' = [up EXCEPT ![j] = o]
    /\ UNCHANGED <<db, memory, overdue, restarts, gone, history>>

\* The client of a request in progress goes away: net/http cancels r.Context().  Before
\* the pick nothing is at stake.
ClientLeaves(r) ==
    /\ r \in Leavers
    /\ pc[r] \notin {"start", "done"}
    /\ r \notin gone
    /\ gone' = gone \union {r}
    /\ UNCHANGED <<db, up, memory, overdue, restarts, history>>

\* The job's request_ts falls JobDeadline behind the clock.
JobDeadlinePasses(j) ==
    /\ row[j] # NoRow
    /\ j \notin overdue
    /\ overdue' = overdue \union {j}
    /\ UNCHANGED <<db, up, memory, restarts, gone, history>>

\* An operator purges a finished row; usage events stay.
Purge(j) ==
    /\ IsTerminal(row[j])
    /\ row' = [row EXCEPT ![j] = NoRow]
    /\ UNCHANGED <<inFlight, billed, cfEvents, keyUsed, groupUsed, up, memory, overdue,
                   restarts, gone, history>>

\* The process dies and boots: every goroutine is gone, the database stays, and
\* ResetAllInFlight runs before the worker and the servers start.
Restart ==
    /\ restarts < MaxRestarts
    /\ restarts' = restarts + 1
    /\ \/ inFlight' = [a \in Accounts |-> 0] /\ holds' = {}
       \/ "reset" \in Faults /\ UNCHANGED <<inFlight, holds>>
    /\ pc' = [t \in Threads |-> IF t = Worker THEN "idle"
                               ELSE IF pc[t] = "start" THEN "start" ELSE "done"]
    /\ persisted' = [j \in Jobs |-> FALSE]
    /\ cur' = NoRow
    /\ seen' = [t \in Threads |-> NoRow]
    /\ snap' = [j \in Jobs |-> NoRow]
    /\ batch' = {} /\ late' = {}
    /\ UNCHANGED <<row, billed, cfEvents, keyUsed, groupUsed, up, acct, overdue, gone,
                   over, wins, bypass, early, revived, releases, fires, dropped>>

-----------------------------------------------------------------------------
RequestNext(r) ==
    \/ \E a \in Accounts : PickAndLock(r, a)
    \/ PickFails(r)
    \/ CreateJob(r) \/ CreateJobFails(r)
    \/ PersistJob(r) \/ PersistJobFails(r)
    \/ PollTerminal(r) \/ PollFails(r)
    \/ ErrorRelease(r)
    \/ SyncCas(r)
    \/ Effects(r)

WorkerNext ==
    \/ Tick \/ TickEnds
    \/ \E j \in Jobs : PollOneTimeout(j) \/ PollOneSkips(j) \/ PollOneFetch(j)
    \/ PollOneProgress \/ PollOneFetchJob
    \/ WorkerCas
    \/ Effects(Worker)

Next ==
    \/ \E r \in Jobs : RequestNext(r)
    \/ WorkerNext
    \/ \E j \in Jobs :
          UpstreamProgress(j) \/ ClientLeaves(j) \/ JobDeadlinePasses(j) \/ Purge(j)
    \/ Restart

Spec == Init /\ [][Next]_vars

\* Goroutines are scheduled, the worker's ticker keeps ticking, time passes.
\* Upstream owes nothing: a job it never finishes is closed by the deadline.
Fairness ==
    /\ \A r \in Jobs : WF_vars(RequestNext(r)) /\ WF_vars(JobDeadlinePasses(r))
    /\ WF_vars(WorkerNext)

FairSpec == Spec /\ Fairness

-----------------------------------------------------------------------------
(* Properties                                                              *)

\* A terminal row changes hands only through UpdateStatus: every CAS win beyond
\* the first was preceded by an unguarded write that put the row back to live.
CasWinsExplained == \A j \in Jobs : wins[j] <= revived[j] + 1

\* Webhooks and slot releases are owned: each webhook by a won CAS or by a request
\* that saw the CAS fail or had no row; a release also by an error path.
EffectsOwned ==
    \A j \in Jobs :
        /\ fires[j] <= wins[j] + bypass[j]
        /\ releases[j] <= wins[j] + bypass[j] + early[j]

\* in_flight_jobs never counts a slot nobody holds, and falls short of the slots
\* held by at most the number of releases of slots that were not held.
SlotAccounting ==
    \A a \in Accounts :
        /\ inFlight[a] <= Cardinality(HeldOn(a))
        /\ Cardinality(HeldOn(a)) <= inFlight[a] + over[a]

\* Threads between the usage event of a job and the counter it still has to bump.
AwaitingKey == {t \in Threads : pc[t] \in {"backfill", "key"}}
AwaitingGroup == {t \in Threads : pc[t] \in {"backfill", "key", "group"}}

\* The key and group counters count exactly the usage events, less the increments
\* still to run.  A restart, a failed statement of OnJobTerminal, or a client that left
\* during its job's metering can only lose increments, each of the last kind one of its
\* own; nothing repeats an increment.
BillingConserved ==
    /\ keyUsed + Cardinality(AwaitingKey) <= Cardinality(billed)
    /\ groupUsed + Cardinality(AwaitingGroup) <= Cardinality(billed)
    /\ restarts = 0 /\ "key" \notin Faults =>
          Cardinality(billed \ gone) <= keyUsed + Cardinality(AwaitingKey)
    /\ restarts = 0 /\ "group" \notin Faults =>
          Cardinality(billed \ gone) <= groupUsed + Cardinality(AwaitingGroup)

\* The tables implement the abstract ledger: one usage event per job, counters that
\* never run ahead of the events.
Ledger == INSTANCE UsageLedger
ImplementsLedger == Ledger!LedgerSpec

\* Every job row eventually leaves the live statuses for good: upstream ends it,
\* or the pollworker's deadline does.
RowsSettle == <>[](\A j \in Jobs : row[j] \notin LiveStatuses)

\* Every reserved slot is eventually given back on every account.
SlotsDrain == <>[](\A a \in Accounts : inFlight[a] = 0)

\* A job with a row is eventually metered and its caller notified, unless the process
\* dies: a crash between the won CAS and its side effects loses them.  A client that
\* leaves costs nothing as long as the CAS is still to come: the request's own failed
\* CAS leaves the row to the worker.  Only if it leaves between the won CAS and the
\* usage event is the job never metered, and the notice still goes out.
JobsAccounted ==
    \A j \in Jobs :
        (row[j] # NoRow) ~>
            (restarts > 0 \/ (fires[j] >= 1 /\ j \in billed \union dropped))
=============================================================================

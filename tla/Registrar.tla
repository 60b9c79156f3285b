----------------------------- MODULE Registrar -----------------------------
(* Account registration: the registrations table (registration_store.go),    *)
(* the admin handlers over it, the bridge to plugins/register, its worker     *)
(* and flow, and the Node driver the flow calls.  The worker's loop and every *)
(* Trigger poll at once; a triggered poll, and the flows it starts, live in   *)
(* the context of the HTTP request that triggered it.                         *)
EXTENDS Integers, FiniteSets

CONSTANTS
    Regs,          \* registration ids, in the order of insertion: 1..n
    Flows,         \* the worker's sem slots: cfg.MaxConcurrent of them
    Requests,      \* concurrent POST /registrations and /retry requests
    Loop,          \* the worker's own ticker loop, a poller beside the requests
    MaxRetries, MaxFaults, MaxStarts   \* bounds on retries, failed statements, boots

ASSUME RegistrarAssumption ==
    /\ IsFiniteSet(Regs) /\ Regs = 1..Cardinality(Regs) /\ Loop \notin Requests
    /\ MaxRetries \in Nat /\ MaxFaults \in Nat /\ MaxStarts \in Nat \ {0}

Pollers == Requests \cup {Loop}

VARIABLES
    regs,        \* registrations: the status of each row
    pool,        \* registration -> the accounts row its sign-up left
    poller,      \* poller -> [pc, alive, retry, read]: where it is, and its context
    flow,        \* slot -> [pc, r, of, id]: the row it works on, and whose context
    child,       \* a Node driver runs and holds its port
    worker,      \* this process has a worker
    starts, retries, faults,
    shared,      \* rows two flows had at once, or a stale retry reset (history)
    stranded     \* running rows whose flow could not close them (history)

regVars == <<regs, pool, poller, flow, child, worker, starts, retries, faults, shared, stranded>>

NoPoller == [pc |-> "idle", alive |-> FALSE, reg |-> 0, read |-> "none"]
LoopReady == [NoPoller EXCEPT !.alive = TRUE]
NoFlow == [pc |-> "free", r |-> 0, of |-> Loop, id |-> FALSE]
Ready == [p \in Pollers |-> IF p = Loop THEN LoopReady ELSE NoPoller]

RegInit ==
    /\ regs = [r \in Regs |-> "none"] /\ pool = [r \in Regs |-> "none"]
    /\ poller = Ready /\ flow = [f \in Flows |-> NoFlow]
    /\ child = TRUE /\ worker = TRUE
    /\ starts = 1 /\ retries = 0 /\ faults = 0 /\ shared = {} /\ stranded = {}

On(r) == {f \in Flows: flow[f].r = r}
Pending == {r \in Regs: regs[r] = "pending"}
Fault == faults < MaxFaults /\ faults' = faults + 1
SetFlow(f, rec) == flow' = [flow EXCEPT ![f] = rec]
SetPoller(p, rec) == poller' = [poller EXCEPT ![p] = rec]
SetReg(r, row) == regs' = [regs EXCEPT ![r] = row]
\* A flow gone while its row still says running.
Strands(f) == stranded' = IF regs[flow[f].r] = "running" /\ On(flow[f].r) = {f}
                          THEN stranded \cup {flow[f].r} ELSE stranded
----------------------------------------------------------------------------
(* The table *)

MarkRunning(st) == "running"
MarkCompleted(st) == "success"
MarkFailed(st) == "failed"
ResetToPending(st) == "pending"
ReclaimStaleRunning(table) ==
    [r \in Regs |-> IF table[r] = "running" THEN ResetToPending(table[r]) ELSE table[r]]

\* The oldest pending row, which it does not claim.
NextPending == CHOOSE r \in Pending: \A q \in Pending: r <= q
----------------------------------------------------------------------------
(* The admin handlers *)

\* A request slot nothing of an earlier request lives on in.
Fresh(p) == /\ p \in Requests /\ poller[p].pc = "idle" /\ ~poller[p].alive
            /\ \A f \in Flows: flow[f].of # p

\* INSERT: a pending row with the next id.
InsertPending ==
    \E r \in Regs:
        /\ regs[r] = "none" /\ \A q \in Regs: q < r => regs[q] # "none"
        /\ SetReg(r, "pending")
\* registrar.Enqueue nudges the worker, if there is one.
Triggered == [NoPoller EXCEPT !.pc = IF worker THEN "poll" ELSE "idle", !.alive = TRUE]

\* POST /registrations, or one line of a bulk import: the validated row is
\* inserted, and a poll started in the request's context.
Enqueue(p) ==
    /\ Fresh(p)
    /\ InsertPending
    /\ SetPoller(p, Triggered)
    /\ UNCHANGED <<pool, flow, child, worker, starts, retries, faults, shared, stranded>>

\* POST /registrations/{id}/retry looks at the row, then resets it.
RetryReads(p, r) ==
    /\ Fresh(p) /\ retries < MaxRetries
    /\ regs[r] # "none"
    /\ SetPoller(p, [pc |-> "retry", alive |-> TRUE, reg |-> r, read |-> regs[r]])
    /\ retries' = retries + 1
    /\ UNCHANGED <<regs, pool, flow, child, worker, starts, faults, shared, stranded>>

\* Mutant: any row is reset.
RetriesAny(status) == TRUE
Retries(status) == status \notin {"success", "pending"}

Retry(p) ==
    /\ poller[p].pc = "retry"
    /\ LET r == poller[p].reg
           reset == Retries(poller[p].read)
       IN /\ regs' = IF reset THEN [regs EXCEPT ![r] = ResetToPending(@)] ELSE regs
          /\ shared' = IF reset /\ (On(r) # {} \/ regs[r] # poller[p].read)
                       THEN shared \cup {r} ELSE shared
          /\ stranded' = IF reset THEN stranded \ {r} ELSE stranded
          /\ SetPoller(p, IF reset /\ worker THEN [poller[p] EXCEPT !.pc = "poll"] ELSE NoPoller)
    /\ UNCHANGED <<pool, flow, child, worker, starts, retries, faults>>

\* The reply goes out and net/http cancels the request's context; the poll and
\* the flows it started go on with a dead one.
Replies(p) ==
    /\ p \in Requests /\ poller[p].alive /\ poller[p].pc # "retry"
    /\ SetPoller(p, [poller[p] EXCEPT !.alive = FALSE])
    /\ UNCHANGED <<regs, pool, flow, child, worker, starts, retries, faults, shared, stranded>>
----------------------------------------------------------------------------
(* Worker.poll *)

\* Start's ticker.
LoopTicks ==
    /\ worker /\ poller[Loop].pc = "idle"
    /\ SetPoller(Loop, [LoopReady EXCEPT !.pc = "poll"])
    /\ UNCHANGED <<regs, pool, flow, child, worker, starts, retries, faults, shared, stranded>>

Stops(p) == SetPoller(p, [poller[p] EXCEPT !.pc = "idle"])

AtCapacity(p) ==
    /\ poller[p].pc = "poll" /\ \A f \in Flows: flow[f].pc # "free"
    /\ Stops(p)
    /\ UNCHANGED <<regs, pool, flow, child, worker, starts, retries, faults, shared, stranded>>
TakeSlot(p) ==
    /\ poller[p].pc = "poll"
    /\ \E f \in Flows:
        /\ flow[f].pc = "free"
        /\ SetFlow(f, [NoFlow EXCEPT !.pc = "query", !.of = p])
    /\ SetPoller(p, [poller[p] EXCEPT !.pc = "query"])
    /\ UNCHANGED <<regs, pool, child, worker, starts, retries, faults, shared, stranded>>

Queries(f, p) == flow[f].pc = "query" /\ flow[f].of = p /\ poller[p].pc = "query"

\* A row: process takes over the slot, and the loop goes round again.
SpawnProcess(f, p) ==
    /\ Queries(f, p) /\ poller[p].alive /\ Pending # {}
    /\ SetFlow(f, [flow[f] EXCEPT !.pc = "mark", !.r = NextPending])
    /\ SetPoller(p, [poller[p] EXCEPT !.pc = "poll"])
    /\ shared' = IF On(NextPending) # {} THEN shared \cup {NextPending} ELSE shared
    /\ UNCHANGED <<regs, pool, child, worker, starts, retries, faults, stranded>>
\* Mutant: the slot is kept.
NothingKeepsSlot(f, p) ==
    /\ Queries(f, p)
    /\ \/ Pending = {} /\ UNCHANGED faults
       \/ ~poller[p].alive /\ UNCHANGED faults
       \/ Fault
    /\ Stops(p)
    /\ UNCHANGED <<flow, regs, pool, child, worker, starts, retries, shared, stranded>>
\* No row, a failed query, or a context that is over: the slot goes back.
NothingPicked(f, p) ==
    /\ Queries(f, p)
    /\ \/ Pending = {} /\ UNCHANGED faults
       \/ ~poller[p].alive /\ UNCHANGED faults
       \/ Fault
    /\ SetFlow(f, NoFlow) /\ Stops(p)
    /\ UNCHANGED <<regs, pool, child, worker, starts, retries, shared, stranded>>
----------------------------------------------------------------------------
(* Worker.process and Flow.Execute *)

Lives(f) == poller[flow[f].of].alive
Leaves(f) == SetFlow(f, NoFlow) /\ Strands(f)

ExecuteMarks(f) ==
    /\ flow[f].pc = "mark" /\ Lives(f)
    /\ SetReg(flow[f].r, MarkRunning(regs[flow[f].r]))
    /\ SetFlow(f, [flow[f] EXCEPT !.pc = "drive"])
    /\ stranded' = stranded \ {flow[f].r}
    /\ UNCHANGED <<pool, poller, child, worker, starts, retries, faults, shared>>
MarkRunningFails(f) ==
    /\ flow[f].pc = "mark"
    /\ (IF Lives(f) THEN Fault ELSE UNCHANGED faults)
    /\ Leaves(f)
    /\ UNCHANGED <<regs, pool, poller, child, worker, starts, retries, shared>>

\* NodeDriver.Register, an answer within the client's five minutes: an account
\* with its id, an answer that lacks one, or an error of any kind.
DriverAnswers(f) ==
    /\ flow[f].pc = "drive" /\ Lives(f) /\ child
    /\ \E id \in BOOLEAN: SetFlow(f, [flow[f] EXCEPT !.pc = "upsert", !.id = id])
    /\ UNCHANGED <<regs, pool, poller, child, worker, starts, retries, faults, shared, stranded>>
DriverFails(f) ==
    /\ flow[f].pc = "drive"
    /\ SetFlow(f, [flow[f] EXCEPT !.pc = "fail"])
    /\ UNCHANGED <<regs, pool, poller, child, worker, starts, retries, faults, shared, stranded>>

\* A failed attempt is marked so, and its slot freed.
ExecuteFails(f) ==
    /\ flow[f].pc = "fail" /\ Lives(f)
    /\ SetReg(flow[f].r, MarkFailed(regs[flow[f].r]))
    /\ SetFlow(f, NoFlow)
    /\ UNCHANGED <<pool, poller, child, worker, starts, retries, faults, shared, stranded>>
\* MarkFailed itself fails, its error ignored: the row stays as it is.
MarkFailedFails(f) ==
    /\ flow[f].pc = "fail"
    /\ (IF Lives(f) THEN Fault ELSE UNCHANGED faults)
    /\ Leaves(f)
    /\ UNCHANGED <<regs, pool, poller, child, worker, starts, retries, shared>>

\* Mutant: the registration first.
CompleteFirst(f) ==
    /\ flow[f].pc = "upsert" /\ Lives(f) /\ flow[f].id
    /\ SetReg(flow[f].r, MarkCompleted(regs[flow[f].r]))
    /\ SetFlow(f, [flow[f] EXCEPT !.pc = "complete"])
    /\ UNCHANGED <<pool, poller, child, worker, starts, retries, faults, shared, stranded>>
\* storeAdapter.MarkCompleted: first the account, made active whatever the row
\* said before, then the registration.
UpsertAccountFromResult(f) ==
    /\ flow[f].pc = "upsert" /\ Lives(f) /\ flow[f].id
    /\ pool' = [pool EXCEPT ![flow[f].r] = "active"]
    /\ SetFlow(f, [flow[f] EXCEPT !.pc = "complete"])
    /\ UNCHANGED <<regs, poller, child, worker, starts, retries, faults, shared, stranded>>
ExecuteCompletes(f) ==
    /\ flow[f].pc = "complete" /\ Lives(f)
    /\ SetReg(flow[f].r, MarkCompleted(regs[flow[f].r]))
    /\ SetFlow(f, NoFlow)
    /\ UNCHANGED <<pool, poller, child, worker, starts, retries, faults, shared, stranded>>
\* Either write fails, or there is no account id to write under: Execute
\* returns the error and marks nothing.
MarkCompletedFails(f) ==
    /\ flow[f].pc \in {"upsert", "complete"}
    /\ (IF Lives(f) /\ (flow[f].id \/ flow[f].pc = "complete") THEN Fault ELSE UNCHANGED faults)
    /\ Leaves(f)
    /\ UNCHANGED <<regs, pool, poller, child, worker, starts, retries, shared>>
----------------------------------------------------------------------------
(* The process *)

\* camoufox.New: the port must be free for a driver of our own.
DriverStarts == ~child

\* The process ends -- the driver, in a process group of its own, does not --
\* and boots again: buildRegistrar, then Start, which reclaims running rows.
RegReboot ==
    /\ starts < MaxStarts /\ starts' = starts + 1
    /\ worker' = DriverStarts
    /\ child' \in {TRUE, child}
    /\ worker' => child'
    /\ flow' = [f \in Flows |-> NoFlow] /\ poller' = Ready
    /\ \/ regs' = ReclaimStaleRunning(regs) /\ stranded' = {} /\ UNCHANGED faults
       \/ Fault /\ UNCHANGED regs /\ stranded' = {r \in Regs: regs[r] = "running"}
    /\ UNCHANGED <<pool, retries, shared>>

\* The driver dies, or someone kills what an earlier process left behind.
ChildDies ==
    /\ child /\ child' = FALSE
    /\ UNCHANGED <<regs, pool, poller, flow, worker, starts, retries, faults, shared, stranded>>

\* The operator takes an account out of the pool.
OperatorDisables(r) ==
    /\ pool[r] = "active"
    /\ pool' = [pool EXCEPT ![r] = "disabled"]
    /\ UNCHANGED <<regs, poller, flow, child, worker, starts, retries, faults, shared, stranded>>

PollStep(p) == AtCapacity(p) \/ TakeSlot(p)
                 \/ \E f \in Flows: SpawnProcess(f, p) \/ NothingPicked(f, p)
FlowStep(f) == \/ ExecuteMarks(f) \/ MarkRunningFails(f) \/ DriverAnswers(f) \/ DriverFails(f)
               \/ ExecuteFails(f) \/ MarkFailedFails(f)
               \/ UpsertAccountFromResult(f) \/ ExecuteCompletes(f) \/ MarkCompletedFails(f)

RegNext ==
    \/ \E p \in Requests: Enqueue(p) \/ Replies(p) \/ Retry(p) \/ \E r \in Regs: RetryReads(p, r)
    \/ LoopTicks \/ \E p \in Pollers: PollStep(p)
    \/ \E f \in Flows: FlowStep(f)
    \/ RegReboot \/ ChildDies \/ \E r \in Regs: OperatorDisables(r)
----------------------------------------------------------------------------
RegTypeOK ==
    /\ regs \in [Regs -> {"none", "pending", "running", "success", "failed"}]
    /\ pool \in [Regs -> {"none", "active", "disabled"}]
    /\ \A f \in Flows: flow[f].r = 0 <=> flow[f].pc \in {"free", "query"}

(* A registration that succeeded stays so, and its account is not signed up  *)
(* a second time (which would put it back into the pool against an           *)
(* operator's disable), unless two flows had the row at once or a retry      *)
(* acted on a status it had read too early.                                  *)
SuccessKept ==
    [][\A r \in Regs:
        regs[r] = "success" /\ (regs'[r] # "success" \/ (pool[r] = "disabled" /\ pool'[r] = "active"))
            => r \in shared']_regVars

(* The account of a successful registration is in the pool: a crash or a     *)
(* failed statement between the two writes never leaves a dangling id.       *)
SuccessHasAccount == \A r \in Regs: regs[r] = "success" => pool[r] # "none"

(* A row that says running has a flow at work on it, unless that flow was    *)
(* unable to close it: its request's context had ended, a statement failed,  *)
(* or the driver's answer had no account id.  In particular a boot leaves    *)
(* no row behind that the dead process was working on.                       *)
OrphansExplained == \A r \in Regs: regs[r] = "running" /\ On(r) = {} => r \in stranded

(* What registration_store.go says of the queue: a worker claims the oldest  *)
(* pending row, so no two work on the same one.                              *)
OneFlowPerRow == \A r \in Regs: Cardinality(On(r)) <= 1

(* Every queued row is taken up, unless the process has no worker: no slot   *)
(* is lost on any path, however many requests triggered polls of their own.  *)
PendingTakenUp == \A r \in Regs: regs[r] = "pending" ~> (regs[r] # "pending" \/ ~worker)
============================================================================

------------------------- MODULE JobLifecycleProofs -------------------------
(***************************************************************************)
(* Theorems about JobLifecycle for every set of jobs and accounts, every   *)
(* set of faults and every number of restarts.                             *)
(***************************************************************************)
EXTENDS JobLifecycle, FiniteSetTheorems, TLAPS

\* What the threads know: past the pick a request has an account, a row names one,
\* the worker polls jobs it listed as live, and a thread that runs side effects
\* carries a finished status.
WellFormed ==
    /\ \A r \in Jobs : pc[r] \notin {"start", "done"} => acct[r] \in Accounts
    /\ \A j \in Jobs : row[j] # NoRow => acct[j] \in Accounts
    /\ \A j \in batch : acct[j] \in Accounts /\ snap[j] \in LiveStatuses
    /\ pc[Worker] \notin {"idle", "next"} =>
          cur \in Jobs /\ acct[cur] \in Accounts /\ snap[cur] \in LiveStatuses
    /\ \A j \in holds : acct[j] \in Accounts
    /\ \A t \in Threads :
          pc[t] \in EffectPC => seen[t] \in TerminalStatuses \union UpstreamTerminal

IInv == TypeOK /\ WellFormed

-----------------------------------------------------------------------------
(* The steps, flattened                                                    *)

\* Next as one flat disjunction, for the case splits below.
LEMMA NextCases ==
  ASSUME Next
  PROVE  \/ \E r \in Jobs, a \in Accounts : PickAndLock(r, a)
         \/ \E r \in Jobs : PickFails(r)
         \/ \E r \in Jobs : CreateJob(r)
         \/ \E r \in Jobs : CreateJobFails(r)
         \/ \E r \in Jobs : PersistJob(r)
         \/ \E r \in Jobs : PersistJobFails(r)
         \/ \E r \in Jobs : PollTerminal(r)
         \/ \E r \in Jobs : PollFails(r)
         \/ \E r \in Jobs : ErrorRelease(r)
         \/ \E r \in Jobs : SyncCas(r)
         \/ \E t \in Threads : Effects(t)
         \/ Tick
         \/ TickEnds
         \/ \E j \in Jobs : PollOneTimeout(j)
         \/ \E j \in Jobs : PollOneSkips(j)
         \/ \E j \in Jobs : PollOneFetch(j)
         \/ PollOneProgress
         \/ PollOneFetchJob
         \/ WorkerCas
         \/ \E j \in Jobs : UpstreamProgress(j)
         \/ \E j \in Jobs : ClientLeaves(j)
         \/ \E j \in Jobs : JobDeadlinePasses(j)
         \/ \E j \in Jobs : Purge(j)
         \/ Restart
  <1>1. ASSUME NEW r \in Jobs, RequestNext(r)
        PROVE  \/ \E a \in Accounts : PickAndLock(r, a)
               \/ PickFails(r) \/ CreateJob(r) \/ CreateJobFails(r) \/ PersistJob(r)
               \/ PersistJobFails(r) \/ PollTerminal(r) \/ PollFails(r)
               \/ ErrorRelease(r) \/ SyncCas(r) \/ Effects(r)
    BY <1>1 DEF RequestNext
  <1>2. ASSUME WorkerNext
        PROVE  \/ Tick \/ TickEnds
               \/ \E j \in Jobs : PollOneTimeout(j)
               \/ \E j \in Jobs : PollOneSkips(j)
               \/ \E j \in Jobs : PollOneFetch(j)
               \/ PollOneProgress \/ PollOneFetchJob \/ WorkerCas \/ Effects(Worker)
    BY <1>2 DEF WorkerNext
  <1> QED
    BY <1>1, <1>2 DEF Next, Threads

-----------------------------------------------------------------------------
(* Type correctness                                                        *)

\* The initial state satisfies the inductive invariant.
LEMMA InitIInv == Init => IInv
  <1> SUFFICES ASSUME Init PROVE IInv
    OBVIOUS
  <1>1. row \in [Jobs -> RowVal] /\ snap \in [Jobs -> RowVal]
    BY DEF Init, RowVal
  <1>2. up \in [Jobs -> ({NoRow} \union LiveStatuses \union UpstreamTerminal) \X BOOLEAN]
    BY DEF Init
  <1>3. pc \in [Threads -> RequestPC \union EffectPC \union WorkerPC]
    BY DEF Init, RequestPC, WorkerPC
  <1>4. seen \in [Threads -> SeenVal] /\ acct \in [Jobs -> Accounts \union {NoRow}]
    BY DEF Init, SeenVal, RowVal
  <1>5. restarts \in 0..MaxRestarts
    BY RestartsAssumption DEF Init
  <1>6. persisted \in [Jobs -> BOOLEAN]
    BY DEF Init
  <1>7. TypeOK
    BY <1>1, <1>2, <1>3, <1>4, <1>5, <1>6 DEF Init, TypeOK
  <1>8. WellFormed
    BY WorkerAssumption DEF Init, WellFormed, Threads, EffectPC
  <1> QED
    BY <1>7, <1>8 DEF IInv

\* A release of the slot of a job that has an account keeps the counters natural.
LEMMA ReleaseTypes ==
  ASSUME TypeOK, NEW j \in Jobs, acct[j] \in Accounts, UpdateInFlight(j)
  PROVE  /\ inFlight' \in [Accounts -> Nat]
         /\ holds' \subseteq Jobs
         /\ over' \in [Accounts -> Nat]
         /\ releases' \in [Jobs -> Nat]
  BY DEF TypeOK, UpdateInFlight, Released, Bump

\* UpdateStatus writes a status the table may hold.
LEMMA UpdateStatusTypes ==
  ASSUME TypeOK, NEW t \in Threads, NEW j \in Jobs, NEW s \in RowVal, UpdateStatus(t, j, s)
  PROVE  row' \in [Jobs -> RowVal] /\ revived' \in [Jobs -> Nat]
  <1>1. /\ row' = row \/ row' = [row EXCEPT ![j] = s]
        /\ revived' = revived \/ revived' = Bump(revived, j)
    BY DEF UpdateStatus
  <1>2. row \in [Jobs -> RowVal] /\ revived \in [Jobs -> Nat]
    BY DEF TypeOK
  <1> QED
    BY <1>1, <1>2 DEF Bump

\* A thread that runs side effects does so for a job that has an account.
LEMMA EffectJob ==
  ASSUME IInv, NEW t \in Threads, pc[t] \in EffectPC
  PROVE  JobOf(t) \in Jobs /\ acct[JobOf(t)] \in Accounts /\ seen[t] \in RowVal
  BY WorkerAssumption DEF IInv, WellFormed, Threads, JobOf, EffectPC, RowVal

\* Every step of a request thread before it owns a terminal transition.
LEMMA RequestTypeOK ==
  ASSUME IInv, NEW r \in Jobs
  PROVE  /\ \A a \in Accounts : PickAndLock(r, a) => TypeOK'
         /\ PickFails(r) \/ CreateJob(r) \/ CreateJobFails(r) => TypeOK'
         /\ PersistJob(r) \/ PersistJobFails(r) => TypeOK'
         /\ PollTerminal(r) \/ PollFails(r) => TypeOK'
         /\ ErrorRelease(r) \/ SyncCas(r) => TypeOK'
  <1>0. TypeOK
    BY DEF IInv
  <1> USE <1>0, WorkerAssumption DEF TypeOK, Threads, Goto, Bump, RowVal, SeenVal, RequestPC,
          EffectPC, WorkerPC
  <1>1. ASSUME NEW a \in Accounts, PickAndLock(r, a) PROVE TypeOK'
    BY <1>1 DEF PickAndLock
  <1>2. ASSUME PickFails(r) PROVE TypeOK'
    BY <1>2 DEF PickFails, db, history
  <1>3. ASSUME CreateJob(r) PROVE TypeOK'
    BY <1>3 DEF CreateJob, db, history, LiveStatuses
  <1>4. ASSUME CreateJobFails(r) PROVE TypeOK'
    BY <1>4 DEF CreateJobFails, history
  <1>5. ASSUME PersistJob(r) PROVE TypeOK'
    BY <1>5 DEF PersistJob, history, LiveStatuses
  <1>6. ASSUME PersistJobFails(r) PROVE TypeOK'
    BY <1>6 DEF PersistJobFails, db, history
  <1>7. ASSUME PollTerminal(r) PROVE TypeOK'
    BY <1>7 DEF PollTerminal, db, SyncStatus, TerminalStatuses, UpstreamTerminal
  <1>8. ASSUME PollFails(r) PROVE TypeOK'
    BY <1>8 DEF PollFails, db, history
  <1>9. ASSUME ErrorRelease(r) PROVE TypeOK'
    <2>1. CASE UpdateInFlight(r) /\ early' = Bump(early, r)
      <3>1. acct[r] \in Accounts
        BY <1>9 DEF ErrorRelease, IInv, WellFormed
      <3> QED
        BY <1>9, <2>1, <3>1, ReleaseTypes DEF ErrorRelease
    <2>2. CASE UNCHANGED <<inFlight, holds, over, releases, early>>
      BY <1>9, <2>2 DEF ErrorRelease
    <2> QED
      BY <1>9, <2>1, <2>2 DEF ErrorRelease
  <1>10. ASSUME SyncCas(r) PROVE TypeOK'
    <2>1. row' \in [Jobs -> RowVal]
      BY <1>10 DEF SyncCas, CasWins, IsTerminal
    <2>2. wins' \in [Jobs -> Nat] /\ bypass' \in [Jobs -> Nat]
      <3>1. /\ wins' = wins \/ wins' = [wins EXCEPT ![r] = @ + 1]
            /\ bypass' = bypass \/ bypass' = [bypass EXCEPT ![r] = @ + 1]
        BY <1>10 DEF SyncCas
      <3>2. wins \in [Jobs -> Nat] /\ bypass \in [Jobs -> Nat]
        BY <1>0
      <3> HIDE DEF TypeOK
      <3> QED
        BY <3>1, <3>2
    <2>3. pc' \in [Threads -> RequestPC \union EffectPC \union WorkerPC]
      <3>1. Goto(r, "release") \/ Goto(r, "done")
        BY <1>10 DEF SyncCas
      <3> QED
        BY <3>1 DEF Goto, TypeOK, RequestPC, EffectPC
    <2>4. UNCHANGED <<inFlight, billed, cfEvents, keyUsed, groupUsed, up, acct, persisted,
                   cur, seen, batch, snap, late, overdue, restarts, gone, holds, over, early,
                   revived, releases, fires, dropped>>
      BY <1>10 DEF SyncCas
    <2> QED
      BY <2>1, <2>2, <2>3, <2>4
  <1> QED
    BY <1>1, <1>2, <1>3, <1>4, <1>5, <1>6, <1>7, <1>8, <1>9, <1>10

\* Every side effect, by a request or by the worker.
LEMMA EffectsTypeOK ==
  ASSUME IInv, NEW t \in Threads, Effects(t)
  PROVE  TypeOK'
  <1>0. TypeOK
    BY DEF IInv
  <1>00. pc[t] \in EffectPC
    BY DEF Effects, Release, MeterInsert, MeterBackfill, MeterKey, MeterGroup, Fire, EffectPC
  <1>000. JobOf(t) \in Jobs /\ acct[JobOf(t)] \in Accounts /\ seen[t] \in RowVal
    BY <1>00, EffectJob
  <1> USE <1>0 DEF TypeOK, Goto, EffectPC, RequestPC, WorkerPC
  <1>1. CASE Release(t)
    <2>1. CASE UpdateInFlight(JobOf(t))
      BY <1>1, <2>1, <1>000, ReleaseTypes DEF Release
    <2>2. CASE UNCHANGED <<inFlight, holds, over, releases>>
      BY <1>1, <2>2 DEF Release
    <2> QED
      BY <1>1, <2>1, <2>2 DEF Release
  <1>2. CASE MeterInsert(t)
    BY <1>2, <1>000 DEF MeterInsert
  <1>3. CASE MeterBackfill(t)
    BY <1>3, <1>000, UpdateStatusTypes DEF MeterBackfill
  <1>4. CASE MeterKey(t)
    BY <1>4 DEF MeterKey, history
  <1>5. CASE MeterGroup(t)
    BY <1>5 DEF MeterGroup, history
  <1>6. CASE Fire(t)
    BY <1>6, <1>000 DEF Fire, db, Bump
  <1> QED
    BY <1>1, <1>2, <1>3, <1>4, <1>5, <1>6 DEF Effects

\* Every step of the worker's loop.
LEMMA WorkerTypeOK ==
  ASSUME IInv
  PROVE  /\ Tick \/ TickEnds => TypeOK'
         /\ \A j \in Jobs : PollOneTimeout(j) \/ PollOneSkips(j) \/ PollOneFetch(j) => TypeOK'
         /\ PollOneProgress \/ PollOneFetchJob \/ WorkerCas => TypeOK'
  <1>0. TypeOK
    BY DEF IInv
  <1> USE <1>0 DEF TypeOK, Threads, Goto, RowVal, SeenVal, EffectPC, RequestPC, WorkerPC
  <1>1. ASSUME Tick PROVE TypeOK'
    BY <1>1 DEF Tick, db, history
  <1>2. ASSUME TickEnds PROVE TypeOK'
    BY <1>2 DEF TickEnds, db, history
  <1>3. ASSUME NEW j \in Jobs, PollOneTimeout(j) PROVE TypeOK'
    BY <1>3 DEF PollOneTimeout, Take, db, history, TerminalStatuses
  <1>4. ASSUME NEW j \in Jobs, PollOneSkips(j) PROVE TypeOK'
    BY <1>4 DEF PollOneSkips, Take, db, history
  <1>5. ASSUME NEW j \in Jobs, PollOneFetch(j) PROVE TypeOK'
    <2>1. up[j][1] \in SeenVal
      OBVIOUS
    <2> QED
      BY <1>5, <2>1 DEF PollOneFetch, Take, db, history
  <1>6. ASSUME PollOneProgress PROVE TypeOK'
    <2>1. cur \in Jobs
      BY <1>6 DEF PollOneProgress, IInv, WellFormed
    <2>2. row' \in [Jobs -> RowVal] /\ revived' \in [Jobs -> Nat]
      <3>1. CASE seen[Worker] = "error"
        BY <1>6, <2>1, <3>1, UpdateStatusTypes DEF PollOneProgress
      <3>2. CASE seen[Worker] # "error" /\ seen[Worker] # snap[cur]
        BY <1>6, <2>1, <3>2, UpdateStatusTypes DEF PollOneProgress
      <3>3. CASE seen[Worker] # "error" /\ seen[Worker] = snap[cur]
        BY <1>6, <3>3 DEF PollOneProgress
      <3> QED
        BY <3>1, <3>2, <3>3
    <2> QED
      BY <1>6, <2>2 DEF PollOneProgress
  <1>7. ASSUME PollOneFetchJob PROVE TypeOK'
    BY <1>7 DEF PollOneFetchJob, DomainStatus, db, history, TerminalStatuses
  <1>8. ASSUME WorkerCas PROVE TypeOK'
    <2>1. row' \in [Jobs -> RowVal]
      BY <1>8 DEF WorkerCas, CasWins, IsTerminal
    <2>2. wins' \in [Jobs -> Nat]
      <3>1. cur \in Jobs
        BY <1>8 DEF WorkerCas, IInv, WellFormed
      <3> QED
        BY <1>8, <3>1 DEF WorkerCas, Bump
    <2>3. pc' \in [Threads -> RequestPC \union EffectPC \union WorkerPC]
      BY <1>8 DEF WorkerCas
    <2>4. UNCHANGED <<inFlight, billed, cfEvents, keyUsed, groupUsed, up, acct, persisted,
                   cur, seen, batch, snap, late, overdue, restarts, gone, holds, over, bypass,
                   early, revived, releases, fires, dropped>>
      BY <1>8 DEF WorkerCas
    <2> QED
      BY <2>1, <2>2, <2>3, <2>4
  <1> QED
    BY <1>1, <1>2, <1>3, <1>4, <1>5, <1>6, <1>7, <1>8

\* Upstream, the clock, the operator and a restart.
LEMMA EnvironmentTypeOK ==
  ASSUME IInv
  PROVE  /\ \A j \in Jobs :
               UpstreamProgress(j) \/ ClientLeaves(j) \/ JobDeadlinePasses(j) \/ Purge(j)
                 => TypeOK'
         /\ Restart => TypeOK'
  <1>0. TypeOK
    BY DEF IInv
  <1> USE <1>0 DEF TypeOK, memory, history
  <1>1. ASSUME NEW j \in Jobs, UpstreamProgress(j) PROVE TypeOK'
    <2> DEFINE UpVal == ({NoRow} \union LiveStatuses \union UpstreamTerminal) \X BOOLEAN
    <2>1. PICK u \in UpVal : up' = [up EXCEPT ![j] = u]
      <3>1. <<"in_progress", FALSE>> \in UpVal
        BY DEF LiveStatuses
      <3>2. \A o \in Outcomes : o \in UpVal
        BY OutcomesAssumption
      <3> QED
        BY <1>1, <3>1, <3>2 DEF UpstreamProgress
    <2>2. up' \in [Jobs -> UpVal]
      BY <2>1
    <2> QED
      BY <1>1, <2>2 DEF UpstreamProgress, db
  <1>2. ASSUME NEW j \in Jobs, ClientLeaves(j) \/ JobDeadlinePasses(j) PROVE TypeOK'
    BY <1>2 DEF ClientLeaves, JobDeadlinePasses, db
  <1>3. ASSUME NEW j \in Jobs, Purge(j) PROVE TypeOK'
    BY <1>3 DEF Purge, RowVal
  <1>4. ASSUME Restart PROVE TypeOK'
    <2>1. restarts' \in 0..MaxRestarts
      BY <1>4, RestartsAssumption DEF Restart
    <2>2. pc' \in [Threads -> RequestPC \union EffectPC \union WorkerPC]
      BY <1>4 DEF Restart, RequestPC, WorkerPC
    <2>3. seen' \in [Threads -> SeenVal] /\ snap' \in [Jobs -> RowVal]
      BY <1>4 DEF Restart, SeenVal, RowVal
    <2>4. inFlight' \in [Accounts -> Nat] /\ holds' \subseteq Jobs
      BY <1>4 DEF Restart
    <2>5. persisted' \in [Jobs -> BOOLEAN]
      BY <1>4 DEF Restart
    <2> QED
      BY <1>4, <2>1, <2>2, <2>3, <2>4, <2>5 DEF Restart
  <1> QED
    BY <1>1, <1>2, <1>3, <1>4

\* Every step keeps the types.
LEMMA NextTypeOK ==
  ASSUME IInv, [Next]_vars
  PROVE  TypeOK'
  <1>1. CASE Next
    BY <1>1, NextCases, RequestTypeOK, EffectsTypeOK, WorkerTypeOK, EnvironmentTypeOK
  <1>2. CASE UNCHANGED vars
    BY <1>2 DEF IInv, TypeOK, vars, db, memory, history
  <1> QED
    BY <1>1, <1>2

-----------------------------------------------------------------------------
(* What the threads know                                                   *)

\* Steps that leave the worker and the sets of jobs alone: only the request's own
\* program counter, account and status move.
LEMMA RequestWellFormed ==
  ASSUME IInv, NEW r \in Jobs
  PROVE  /\ \A a \in Accounts : PickAndLock(r, a) => WellFormed'
         /\ PickFails(r) \/ CreateJob(r) \/ CreateJobFails(r) => WellFormed'
         /\ PersistJob(r) \/ PersistJobFails(r) => WellFormed'
         /\ PollTerminal(r) \/ PollFails(r) => WellFormed'
         /\ ErrorRelease(r) \/ SyncCas(r) => WellFormed'
  <1> USE WorkerAssumption DEF IInv, TypeOK, WellFormed, Threads, Goto, EffectPC
  <1>1. ASSUME NEW a \in Accounts, PickAndLock(r, a) PROVE WellFormed'
    BY <1>1 DEF PickAndLock
  <1>2. ASSUME PickFails(r) PROVE WellFormed'
    BY <1>2 DEF PickFails, db, history
  <1>3. ASSUME CreateJob(r) PROVE WellFormed'
    BY <1>3 DEF CreateJob, db, history
  <1>4. ASSUME CreateJobFails(r) PROVE WellFormed'
    BY <1>4 DEF CreateJobFails, history
  <1>5. ASSUME PersistJob(r) PROVE WellFormed'
    BY <1>5 DEF PersistJob, history
  <1>6. ASSUME PersistJobFails(r) PROVE WellFormed'
    BY <1>6 DEF PersistJobFails, db, history
  <1>7. ASSUME PollTerminal(r) PROVE WellFormed'
    BY <1>7 DEF PollTerminal, db, SyncStatus, TerminalStatuses
  <1>8. ASSUME PollFails(r) PROVE WellFormed'
    BY <1>8 DEF PollFails, db, history
  <1>9. ASSUME ErrorRelease(r) PROVE WellFormed'
    BY <1>9 DEF ErrorRelease, UpdateInFlight, Released
  <1>10. ASSUME SyncCas(r) PROVE WellFormed'
    BY <1>10 DEF SyncCas
  <1> QED
    BY <1>1, <1>2, <1>3, <1>4, <1>5, <1>6, <1>7, <1>8, <1>9, <1>10

\* The side effects keep what the threads know.
LEMMA EffectsWellFormed ==
  ASSUME IInv, NEW t \in Threads, Effects(t)
  PROVE  WellFormed'
  <1> USE WorkerAssumption DEF IInv, TypeOK, WellFormed, Threads, Goto, EffectPC
  <1>1. CASE Release(t)
    BY <1>1 DEF Release, UpdateInFlight, Released
  <1>2. CASE MeterInsert(t)
    BY <1>2 DEF MeterInsert
  <1>3. CASE MeterBackfill(t)
    BY <1>3 DEF MeterBackfill, UpdateStatus
  <1>4. CASE MeterKey(t)
    BY <1>4 DEF MeterKey, history
  <1>5. CASE MeterGroup(t)
    BY <1>5 DEF MeterGroup, history
  <1>6. CASE Fire(t)
    BY <1>6 DEF Fire, db
  <1> QED
    BY <1>1, <1>2, <1>3, <1>4, <1>5, <1>6 DEF Effects

\* So do the worker's steps.
LEMMA WorkerWellFormed ==
  ASSUME IInv
  PROVE  /\ Tick \/ TickEnds => WellFormed'
         /\ \A j \in Jobs : PollOneTimeout(j) \/ PollOneSkips(j) \/ PollOneFetch(j) => WellFormed'
         /\ PollOneProgress \/ PollOneFetchJob \/ WorkerCas => WellFormed'
  <1> USE WorkerAssumption DEF IInv, TypeOK, WellFormed, Threads, Goto, EffectPC
  <1>1. ASSUME Tick PROVE WellFormed'
    BY <1>1 DEF Tick, db, history, LiveStatuses, NoRow
  <1>2. ASSUME TickEnds PROVE WellFormed'
    BY <1>2 DEF TickEnds, db, history
  <1>3. ASSUME NEW j \in Jobs, PollOneTimeout(j) PROVE WellFormed'
    BY <1>3 DEF PollOneTimeout, Take, db, history, TerminalStatuses
  <1>4. ASSUME NEW j \in Jobs, PollOneSkips(j) PROVE WellFormed'
    BY <1>4 DEF PollOneSkips, Take, db, history
  <1>5. ASSUME NEW j \in Jobs, PollOneFetch(j) PROVE WellFormed'
    BY <1>5 DEF PollOneFetch, Take, db, history
  <1>6. ASSUME PollOneProgress PROVE WellFormed'
    BY <1>6 DEF PollOneProgress, UpdateStatus
  <1>7. ASSUME PollOneFetchJob PROVE WellFormed'
    BY <1>7 DEF PollOneFetchJob, DomainStatus, db, history, TerminalStatuses
  <1>8. ASSUME WorkerCas PROVE WellFormed'
    BY <1>8 DEF WorkerCas, CasWins
  <1> QED
    BY <1>1, <1>2, <1>3, <1>4, <1>5, <1>6, <1>7, <1>8

\* So do upstream, the clock, a purge and a restart.
LEMMA EnvironmentWellFormed ==
  ASSUME IInv
  PROVE  /\ \A j \in Jobs :
               UpstreamProgress(j) \/ ClientLeaves(j) \/ JobDeadlinePasses(j) \/ Purge(j)
                 => WellFormed'
         /\ Restart => WellFormed'
  <1> USE WorkerAssumption DEF IInv, TypeOK, WellFormed, Threads, EffectPC, memory, history
  <1>1. ASSUME NEW j \in Jobs, UpstreamProgress(j) PROVE WellFormed'
    BY <1>1 DEF UpstreamProgress, db
  <1>2. ASSUME NEW j \in Jobs, ClientLeaves(j) \/ JobDeadlinePasses(j) PROVE WellFormed'
    BY <1>2 DEF ClientLeaves, JobDeadlinePasses, db
  <1>3. ASSUME NEW j \in Jobs, Purge(j) PROVE WellFormed'
    BY <1>3 DEF Purge
  <1>4. ASSUME Restart PROVE WellFormed'
    BY <1>4 DEF Restart
  <1> QED
    BY <1>1, <1>2, <1>3, <1>4

\* Every step keeps the inductive invariant.
LEMMA NextIInv ==
  ASSUME IInv, [Next]_vars
  PROVE  IInv'
  <1>1. WellFormed'
    <2>1. CASE Next
      BY <2>1, NextCases, RequestWellFormed, EffectsWellFormed, WorkerWellFormed,
         EnvironmentWellFormed
    <2>2. CASE UNCHANGED vars
      BY <2>2 DEF IInv, WellFormed, vars, db, memory, history
    <2> QED
      BY <2>1, <2>2
  <1> QED
    BY <1>1, NextTypeOK DEF IInv

\* The inductive invariant holds in every reachable state.
LEMMA SpecIInv == Spec => []IInv
  <1>1. IInv /\ [Next]_vars => IInv'
    BY NextIInv
  <1> QED
    BY <1>1, InitIInv, PTL DEF Spec

\* Every variable keeps its type in every reachable state: the counters stay natural
\* numbers although releases are not paired with reservations, and a row only ever
\* holds a status the code writes.
THEOREM TypeCorrectness == Spec => []TypeOK
  <1>1. IInv => TypeOK
    BY DEF IInv
  <1> QED
    BY <1>1, SpecIInv, PTL

-----------------------------------------------------------------------------
(* Who may win the terminal CAS, and who may run its side effects          *)

\* A live row has had all its CAS wins undone; before the row is created there
\* are none.
WinsInv ==
    \A j \in Jobs :
        /\ wins[j] <= revived[j] + (IF row[j] \in LiveStatuses THEN 0 ELSE 1)
        /\ pc[j] \in {"start", "create", "persist"} => row[j] = NoRow /\ wins[j] = 0

\* Side effects a thread has the right to and has not run yet.
Running(j, labels) ==
    (IF pc[j] \in labels THEN 1 ELSE 0)
      + (IF pc[Worker] \in labels /\ cur = j THEN 1 ELSE 0)
BeforeFire == {"release", "meter", "backfill", "key", "group", "fire"}

EffectsInv ==
    \A j \in Jobs :
        /\ fires[j] + Running(j, BeforeFire) <= wins[j] + bypass[j]
        /\ releases[j] + Running(j, {"release"}) <= wins[j] + bypass[j] + early[j]

\* Nothing is won or fired initially.
LEMMA InitWins == Init => WinsInv /\ EffectsInv
  BY WorkerAssumption DEF Init, WinsInv, EffectsInv, Running, BeforeFire, Threads,
     LiveStatuses, NoRow

\* UpdateStatus pays for a row it revives with revived.
LEMMA UpdateStatusWins ==
  ASSUME IInv, WinsInv, NEW t \in Threads, NEW i \in Jobs, NEW s \in RowVal,
         UpdateStatus(t, i, s),
         row[i] # NoRow => pc[i] \notin {"start", "create", "persist"},
         NEW j \in Jobs
  PROVE  wins[j] <= revived'[j] + (IF row'[j] \in LiveStatuses THEN 0 ELSE 1)
  <1>1. wins[j] <= revived[j] + (IF row[j] \in LiveStatuses THEN 0 ELSE 1)
    BY DEF WinsInv
  <1>2. CASE UNCHANGED <<row, revived>>
    BY <1>1, <1>2
  <1>3. CASE /\ row' = [row EXCEPT ![i] = s]
             /\ revived' = IF row[i] \notin LiveStatuses /\ s \in LiveStatuses
                           THEN Bump(revived, i) ELSE revived
    <2>1. row \in [Jobs -> RowVal] /\ revived \in [Jobs -> Nat] /\ wins \in [Jobs -> Nat]
      BY DEF IInv, TypeOK
    <2> QED
      BY <1>1, <1>3, <2>1 DEF Bump
  <1> QED
    BY <1>2, <1>3 DEF UpdateStatus

\* Every step keeps the bound on CAS wins.
LEMMA NextWins ==
  ASSUME IInv, WinsInv, [Next]_vars
  PROVE  WinsInv'
  <1> USE WorkerAssumption DEF IInv, TypeOK, Threads, Goto
  <1>0. CASE UNCHANGED vars
    BY <1>0 DEF WinsInv, vars, db, memory, history
  <1>1. ASSUME NEW r \in Jobs, NEW a \in Accounts, PickAndLock(r, a) PROVE WinsInv'
    BY <1>1 DEF PickAndLock, WinsInv
  <1>2. ASSUME NEW r \in Jobs,
               PickFails(r) \/ CreateJob(r) \/ CreateJobFails(r) \/ PersistJobFails(r)
                 \/ PollTerminal(r) \/ PollFails(r)
        PROVE  WinsInv'
    BY <1>2 DEF PickFails, CreateJob, CreateJobFails, PersistJobFails, PollTerminal,
                PollFails, WinsInv, db, history
  <1>3. ASSUME NEW r \in Jobs, PersistJob(r) PROVE WinsInv'
    BY <1>3 DEF PersistJob, WinsInv, history
  <1>4. ASSUME NEW r \in Jobs, ErrorRelease(r) PROVE WinsInv'
    BY <1>4 DEF ErrorRelease, WinsInv
  <1>5. ASSUME NEW r \in Jobs, SyncCas(r) PROVE WinsInv'
    <2>1. /\ pc[r] = "cas" /\ revived' = revived
          /\ \E l \in {"release", "done"} : pc' = [pc EXCEPT ![r] = l]
      BY <1>5 DEF SyncCas
    <2>2. CASE UNCHANGED <<row, wins>>
      BY <2>1, <2>2 DEF WinsInv
    <2>3. CASE CasWins(r, seen[r]) /\ row' = [row EXCEPT ![r] = seen[r]] /\ wins' = Bump(wins, r)
      BY <2>1, <2>3 DEF CasWins, IsTerminal, TerminalStatuses, LiveStatuses, WinsInv, Bump
    <2> QED
      BY <1>5, <2>2, <2>3 DEF SyncCas
  <1>6. ASSUME NEW t \in Threads, Effects(t) PROVE WinsInv'
    <2>1. CASE MeterBackfill(t)
      BY <1>6, <2>1, EffectJob, UpdateStatusWins DEF MeterBackfill, WinsInv, EffectPC, UpdateStatus
    <2>2. CASE Release(t) \/ MeterInsert(t) \/ MeterKey(t) \/ MeterGroup(t) \/ Fire(t)
      BY <2>2 DEF Release, MeterInsert, MeterKey, MeterGroup, Fire, WinsInv, db, history
    <2> QED
      BY <1>6, <2>1, <2>2 DEF Effects
  <1>7. ASSUME Tick \/ TickEnds \/ PollOneFetchJob PROVE WinsInv'
    BY <1>7 DEF Tick, TickEnds, PollOneFetchJob, WinsInv, db, history
  <1>8. ASSUME NEW j \in Jobs, PollOneTimeout(j) \/ PollOneSkips(j) \/ PollOneFetch(j)
        PROVE  WinsInv'
    BY <1>8 DEF PollOneTimeout, PollOneSkips, PollOneFetch, Take, WinsInv, db, history
  <1>9. ASSUME PollOneProgress PROVE WinsInv'
    <2>1. cur \in Jobs /\ snap[cur] \in RowVal
      BY <1>9 DEF PollOneProgress, WellFormed
    <2>2. CASE UNCHANGED <<row, revived>>
      BY <1>9, <2>2 DEF PollOneProgress, WinsInv
    <2>3. ASSUME NEW s \in RowVal, UpdateStatus(Worker, cur, s) PROVE WinsInv'
      BY <1>9, <2>1, <2>3, UpdateStatusWins DEF PollOneProgress, WinsInv, UpdateStatus
    <2>4. seen[Worker] = "error" \/ seen[Worker] \in RowVal
      BY DEF SeenVal
    <2> QED
      BY <1>9, <2>1, <2>2, <2>3, <2>4 DEF PollOneProgress
  <1>10. ASSUME WorkerCas PROVE WinsInv'
    <2>1. cur \in Jobs
      BY <1>10 DEF WorkerCas, WellFormed
    <2>2. CASE UNCHANGED <<row, wins>>
      BY <1>10, <2>2 DEF WorkerCas, WinsInv
    <2>3. CASE CasWins(cur, seen[Worker]) /\ row' = [row EXCEPT ![cur] = seen[Worker]]
                 /\ wins' = Bump(wins, cur)
      <3>1. pc' = [pc EXCEPT ![Worker] = pc'[Worker]] /\ revived' = revived
        BY <1>10 DEF WorkerCas
      <3> QED
        BY <2>1, <2>3, <3>1 DEF CasWins, IsTerminal, TerminalStatuses, LiveStatuses, NoRow,
           WinsInv, Bump
    <2> QED
      BY <1>10, <2>2, <2>3 DEF WorkerCas
  <1>11. ASSUME NEW j \in Jobs, UpstreamProgress(j) \/ ClientLeaves(j) \/ JobDeadlinePasses(j)
         PROVE  WinsInv'
    BY <1>11 DEF UpstreamProgress, ClientLeaves, JobDeadlinePasses, WinsInv, db, memory, history
  <1>12. ASSUME NEW j \in Jobs, Purge(j) PROVE WinsInv'
    BY <1>12 DEF Purge, WinsInv, memory, history, IsTerminal, TerminalStatuses, LiveStatuses, NoRow
  <1>13. ASSUME Restart PROVE WinsInv'
    BY <1>13 DEF Restart, WinsInv
  <1> QED
    BY NextCases, <1>0, <1>1, <1>2, <1>3, <1>4, <1>5, <1>6, <1>7, <1>8, <1>9, <1>10, <1>11,
       <1>12, <1>13

\* Every terminal CAS beyond a job's first follows a write that revived its row.
THEOREM CasWinsAreExplained == Spec => []CasWinsExplained
  <1>1. IInv /\ WinsInv => CasWinsExplained
    BY DEF IInv, TypeOK, WinsInv, CasWinsExplained
  <1>2. IInv /\ WinsInv /\ [Next]_vars => WinsInv'
    BY NextWins
  <1>3. Init => WinsInv
    BY InitWins
  <1> QED
    BY <1>1, <1>2, <1>3, SpecIInv, PTL DEF Spec

\* Every step keeps the bounds on webhooks and releases.
LEMMA NextEffects ==
  ASSUME IInv, EffectsInv, [Next]_vars
  PROVE  EffectsInv'
  <1> USE WorkerAssumption DEF IInv, TypeOK, Threads, Goto, EffectsInv, Running, BeforeFire
  <1>0. CASE UNCHANGED vars
    BY <1>0 DEF vars, db, memory, history
  <1>1. ASSUME NEW r \in Jobs, NEW a \in Accounts, PickAndLock(r, a) PROVE EffectsInv'
    BY <1>1 DEF PickAndLock
  <1>2. ASSUME NEW r \in Jobs,
               PickFails(r) \/ CreateJob(r) \/ CreateJobFails(r) \/ PersistJobFails(r)
                 \/ PollFails(r)
        PROVE  EffectsInv'
    <2>1. CASE PickFails(r)
      BY <2>1 DEF PickFails, db, history
    <2>2. CASE CreateJob(r)
      BY <2>2 DEF CreateJob, db, history
    <2>3. CASE CreateJobFails(r)
      BY <2>3 DEF CreateJobFails, db, history
    <2>4. CASE PersistJobFails(r)
      BY <2>4 DEF PersistJobFails, db, history
    <2>5. CASE PollFails(r)
      BY <2>5 DEF PollFails, db, history
    <2> QED
      BY <1>2, <2>1, <2>2, <2>3, <2>4, <2>5
  <1>3. ASSUME NEW r \in Jobs, PersistJob(r) PROVE EffectsInv'
    BY <1>3 DEF PersistJob, history
  <1>4. ASSUME NEW r \in Jobs, PollTerminal(r) PROVE EffectsInv'
    BY <1>4 DEF PollTerminal, Bump, db
  <1>5. ASSUME NEW r \in Jobs, ErrorRelease(r) PROVE EffectsInv'
    BY <1>5 DEF ErrorRelease, UpdateInFlight, Released, Bump
  <1>6. ASSUME NEW r \in Jobs, SyncCas(r) PROVE EffectsInv'
    BY <1>6, SMTT(30) DEF SyncCas, Bump
  <1>7. ASSUME NEW t \in Threads, Effects(t) PROVE EffectsInv'
    <2>1. JobOf(t) \in Jobs
      <3>1. pc[t] \in EffectPC
        BY <1>7 DEF Effects, Release, MeterInsert, MeterBackfill, MeterKey, MeterGroup, Fire,
           EffectPC
      <3> QED
        BY <3>1, EffectJob
    <2> USE <2>1 DEF JobOf
    <2>2. CASE Release(t)
      <3>1. /\ pc[t] = "release" /\ \E l \in {"meter", "fire"} : pc' = [pc EXCEPT ![t] = l]
            /\ UNCHANGED <<cur, wins, bypass, early, fires>>
            /\ releases' = releases \/ releases' = [releases EXCEPT ![JobOf(t)] = @ + 1]
        BY <2>2 DEF Release, UpdateInFlight, Released, Bump
      <3> QED
        BY <3>1, SMTT(30)
    <2>3. CASE MeterInsert(t)
      <3>1. /\ pc[t] = "meter" /\ \E l \in {"backfill", "fire"} : pc' = [pc EXCEPT ![t] = l]
            /\ UNCHANGED <<cur, wins, bypass, early, releases, fires>>
        BY <2>3 DEF MeterInsert
      <3> QED
        BY <3>1, SMTT(30)
    <2>4. CASE MeterBackfill(t)
      BY <2>4 DEF MeterBackfill
    <2>5. CASE MeterKey(t)
      BY <2>5 DEF MeterKey, history
    <2>6. CASE MeterGroup(t)
      BY <2>6 DEF MeterGroup, history
    <2>7. CASE Fire(t)
      BY <2>7 DEF Fire, Bump
    <2> QED
      BY <1>7, <2>2, <2>3, <2>4, <2>5, <2>6, <2>7 DEF Effects
  <1>8. ASSUME Tick \/ TickEnds PROVE EffectsInv'
    BY <1>8 DEF Tick, TickEnds, db, history
  <1>9. ASSUME NEW j \in Jobs, PollOneTimeout(j) \/ PollOneSkips(j) \/ PollOneFetch(j)
        PROVE  EffectsInv'
    BY <1>9 DEF PollOneTimeout, PollOneSkips, PollOneFetch, Take, db, history
  <1>10. ASSUME PollOneProgress PROVE EffectsInv'
    BY <1>10 DEF PollOneProgress
  <1>11. ASSUME PollOneFetchJob PROVE EffectsInv'
    BY <1>11 DEF PollOneFetchJob, history
  <1>12. ASSUME WorkerCas PROVE EffectsInv'
    BY <1>12 DEF WorkerCas, Bump, WellFormed
  <1>13. ASSUME NEW j \in Jobs,
                UpstreamProgress(j) \/ ClientLeaves(j) \/ JobDeadlinePasses(j) \/ Purge(j)
         PROVE  EffectsInv'
    BY <1>13 DEF UpstreamProgress, ClientLeaves, JobDeadlinePasses, Purge, db, memory, history
  <1>14. ASSUME Restart PROVE EffectsInv'
    <2>1. \A t \in Threads : pc'[t] \notin BeforeFire
      BY <1>14 DEF Restart
    <2>2. UNCHANGED <<fires, releases, wins, bypass, early>>
      BY <1>14 DEF Restart
    <2>3. ASSUME NEW j \in Jobs PROVE Running(j, BeforeFire)' = 0 /\ Running(j, {"release"})' = 0
      BY <2>1
    <2>4. ASSUME NEW j \in Jobs, NEW labels PROVE Running(j, labels) \in Nat
      OBVIOUS
    <2> HIDE DEF Running
    <2> QED
      BY <2>2, <2>3, <2>4
  <1> QED
    BY NextCases, <1>0, <1>1, <1>2, <1>3, <1>4, <1>5, <1>6, <1>7, <1>8, <1>9, <1>10, <1>11,
       <1>12, <1>13, <1>14

\* No webhook is fired and no slot released without a won CAS, a request that could
\* not run one, or (for the slot) an error return.
THEOREM EffectsAreOwned == Spec => []EffectsOwned
  <1>1. ASSUME IInv, EffectsInv PROVE EffectsOwned
    <2>1. /\ fires \in [Jobs -> Nat] /\ releases \in [Jobs -> Nat] /\ wins \in [Jobs -> Nat]
          /\ bypass \in [Jobs -> Nat] /\ early \in [Jobs -> Nat]
      BY <1>1 DEF IInv, TypeOK
    <2>2. \A j \in Jobs : Running(j, BeforeFire) \in Nat /\ Running(j, {"release"}) \in Nat
      BY DEF Running
    <2> QED
      BY <1>1, <2>1, <2>2 DEF EffectsInv, EffectsOwned
  <1>2. IInv /\ EffectsInv /\ [Next]_vars => EffectsInv'
    BY NextEffects
  <1>3. Init => EffectsInv
    BY InitWins
  <1> QED
    BY <1>1, <1>2, <1>3, SpecIInv, PTL DEF Spec

-----------------------------------------------------------------------------
(* The in_flight_jobs counter against the slots reserved                   *)

\* The slots of an account are bounded by its counter and its surplus releases; a
\* request that has not picked holds none.
SlotsInv ==
    /\ SlotAccounting
    /\ \A r \in Jobs : pc[r] = "start" => r \notin holds

\* The slots held on an account are finitely many.
LEMMA HeldOnFinite ==
  ASSUME IInv, NEW a
  PROVE  IsFiniteSet(HeldOn(a)) /\ Cardinality(HeldOn(a)) \in Nat
  <1>1. IsFiniteSet(HeldOn(a))
    BY JobsAssumption, FS_Subset DEF IInv, TypeOK, HeldOn
  <1> QED
    BY <1>1, FS_CardinalityType

\* No slot is held initially.
LEMMA InitSlots == Init => SlotsInv
  <1> SUFFICES ASSUME Init PROVE SlotsInv
    OBVIOUS
  <1>1. \A a \in Accounts : HeldOn(a) = {}
    BY DEF Init, HeldOn
  <1> QED
    BY <1>1, FS_EmptySet DEF Init, SlotsInv, SlotAccounting

\* Giving a slot back: a held one leaves the account's set and the counter drops with
\* it; a slot that is not held only adds to the surplus.
LEMMA ReleaseSlots ==
  ASSUME IInv, SlotAccounting, NEW j \in Jobs, acct[j] \in Accounts, UpdateInFlight(j),
         UNCHANGED acct
  PROVE  SlotAccounting'
  <1> SUFFICES ASSUME NEW a \in Accounts
               PROVE  /\ inFlight'[a] <= Cardinality(HeldOn(a)')
                      /\ Cardinality(HeldOn(a)') <= inFlight'[a] + over'[a]
    BY DEF SlotAccounting, HeldOn
  <1>1. /\ inFlight[a] \in Nat /\ over[a] \in Nat
        /\ inFlight[a] <= Cardinality(HeldOn(a))
        /\ Cardinality(HeldOn(a)) <= inFlight[a] + over[a]
    BY DEF IInv, TypeOK, SlotAccounting
  <1>2. Cardinality(HeldOn(a)) \in Nat /\ IsFiniteSet(HeldOn(a))
    BY HeldOnFinite
  <1>3. CASE a # acct[j]
    <2>1. HeldOn(a)' = HeldOn(a)
      BY <1>3 DEF HeldOn, UpdateInFlight, Released
    <2>2. inFlight'[a] = inFlight[a] /\ over'[a] = over[a]
      BY <1>3 DEF IInv, TypeOK, UpdateInFlight, Released, Bump
    <2> QED
      BY <1>1, <2>1, <2>2
  <1>4. CASE a = acct[j] /\ j \in holds
    <2>1. HeldOn(a)' = HeldOn(a) \ {j} /\ j \in HeldOn(a)
      BY <1>4 DEF HeldOn, UpdateInFlight, Released
    <2>2. Cardinality(HeldOn(a)') = Cardinality(HeldOn(a)) - 1
      BY <1>2, <2>1, FS_RemoveElement
    <2>3. inFlight'[a] = IF inFlight[a] > 0 THEN inFlight[a] - 1 ELSE 0
      BY <1>4 DEF IInv, TypeOK, UpdateInFlight
    <2>4. over'[a] = over[a]
      BY <1>4 DEF UpdateInFlight, Released
    <2>5. Cardinality(HeldOn(a)) >= 1
      <3>1. Cardinality(HeldOn(a)) # 0
        BY <1>2, <2>1, FS_EmptySet
      <3> QED
        BY <1>2, <3>1
    <2> QED
      BY <1>1, <1>2, <2>2, <2>3, <2>4, <2>5
  <1>5. CASE a = acct[j] /\ j \notin holds
    <2>1. HeldOn(a)' = HeldOn(a)
      BY <1>5 DEF HeldOn, UpdateInFlight, Released
    <2>2. inFlight'[a] = IF inFlight[a] > 0 THEN inFlight[a] - 1 ELSE 0
      BY <1>5 DEF IInv, TypeOK, UpdateInFlight
    <2>3. over'[a] = over[a] + 1
      BY <1>5 DEF IInv, TypeOK, UpdateInFlight, Released, Bump
    <2> QED
      BY <1>1, <1>2, <2>1, <2>2, <2>3
  <1> QED
    BY <1>3, <1>4, <1>5

\* Reserving a slot: a request that held none joins the account's set.
LEMMA PickSlots ==
  ASSUME IInv, SlotsInv, NEW r \in Jobs, NEW b \in Accounts, PickAndLock(r, b)
  PROVE  SlotAccounting'
  <1> SUFFICES ASSUME NEW a \in Accounts
               PROVE  /\ inFlight'[a] <= Cardinality(HeldOn(a)')
                      /\ Cardinality(HeldOn(a)') <= inFlight'[a] + over'[a]
    BY DEF SlotAccounting, HeldOn
  <1>1. /\ inFlight[a] \in Nat /\ over[a] \in Nat
        /\ inFlight[a] <= Cardinality(HeldOn(a))
        /\ Cardinality(HeldOn(a)) <= inFlight[a] + over[a]
    BY DEF IInv, TypeOK, SlotsInv, SlotAccounting
  <1>2. Cardinality(HeldOn(a)) \in Nat /\ IsFiniteSet(HeldOn(a))
    BY HeldOnFinite
  <1>3. r \notin holds
    BY DEF SlotsInv, PickAndLock
  <1>4. over'[a] = over[a]
    BY DEF PickAndLock
  <1>5. CASE a # b
    <2>1. HeldOn(a)' = HeldOn(a)
      BY <1>3, <1>5 DEF IInv, TypeOK, HeldOn, PickAndLock
    <2>2. inFlight'[a] = inFlight[a]
      BY <1>5 DEF IInv, TypeOK, PickAndLock, Bump
    <2> QED
      BY <1>1, <1>4, <2>1, <2>2
  <1>6. CASE a = b
    <2>1. HeldOn(a)' = HeldOn(a) \union {r} /\ r \notin HeldOn(a)
      BY <1>3, <1>6 DEF IInv, TypeOK, HeldOn, PickAndLock
    <2>2. Cardinality(HeldOn(a)') = Cardinality(HeldOn(a)) + 1
      BY <1>2, <2>1, FS_AddElement
    <2>3. inFlight'[a] = inFlight[a] + 1
      BY <1>6 DEF IInv, TypeOK, PickAndLock, Bump
    <2> QED
      BY <1>1, <1>2, <1>4, <2>2, <2>3
  <1> QED
    BY <1>5, <1>6

\* Every step keeps the bounds on the slots.
LEMMA NextSlots ==
  ASSUME IInv, SlotsInv, [Next]_vars
  PROVE  SlotsInv'
  <1> USE WorkerAssumption DEF Threads, Goto
  <1>0. ASSUME UNCHANGED <<inFlight, holds, over, acct>>,
               \A r \in Jobs : pc'[r] = "start" => pc[r] = "start"
        PROVE  SlotsInv'
    BY <1>0 DEF SlotsInv, SlotAccounting, HeldOn
  <1>1. ASSUME NEW r \in Jobs, NEW a \in Accounts, PickAndLock(r, a) PROVE SlotsInv'
    <2>1. \A q \in Jobs : pc'[q] = "start" => q \notin holds'
      BY <1>1 DEF PickAndLock, SlotsInv, IInv, TypeOK
    <2> QED
      BY <1>1, <2>1, PickSlots DEF SlotsInv
  <1>2. ASSUME NEW r \in Jobs,
               PickFails(r) \/ CreateJob(r) \/ CreateJobFails(r) \/ PersistJob(r)
                 \/ PersistJobFails(r) \/ PollTerminal(r) \/ PollFails(r) \/ SyncCas(r)
        PROVE  SlotsInv'
    BY <1>0, <1>2 DEF PickFails, CreateJob, CreateJobFails, PersistJob, PersistJobFails,
       PollTerminal, PollFails, SyncCas, db, history, IInv, TypeOK
  <1>3. ASSUME NEW r \in Jobs, ErrorRelease(r) PROVE SlotsInv'
    <2>1. acct[r] \in Accounts /\ UNCHANGED acct
      BY <1>3 DEF ErrorRelease, IInv, WellFormed
    <2>2. \A q \in Jobs : pc'[q] = "start" => pc[q] = "start"
      BY <1>3 DEF ErrorRelease, IInv, TypeOK
    <2>3. CASE UpdateInFlight(r)
      BY <2>1, <2>2, <2>3, ReleaseSlots DEF SlotsInv, UpdateInFlight, Released
    <2>4. CASE UNCHANGED <<inFlight, holds, over>>
      BY <1>0, <2>1, <2>2, <2>4
    <2> QED
      BY <1>3, <2>3, <2>4 DEF ErrorRelease
  <1>4. ASSUME NEW t \in Threads, Effects(t) PROVE SlotsInv'
    <2>1. UNCHANGED acct
      BY <1>4 DEF Effects, Release, MeterInsert, MeterBackfill, MeterKey, MeterGroup, Fire
    <2>2. \A q \in Jobs : pc'[q] = "start" => pc[q] = "start"
      BY <1>4 DEF Effects, Release, MeterInsert, MeterBackfill, MeterKey, MeterGroup, Fire,
         IInv, TypeOK
    <2>3. CASE Release(t)
      <3>1. JobOf(t) \in Jobs /\ acct[JobOf(t)] \in Accounts
        BY <2>3, EffectJob DEF Release, EffectPC
      <3>2. CASE UpdateInFlight(JobOf(t))
        BY <2>1, <2>2, <3>1, <3>2, ReleaseSlots DEF SlotsInv, UpdateInFlight, Released
      <3>3. CASE UNCHANGED <<inFlight, holds, over>>
        BY <1>0, <2>1, <2>2, <3>3
      <3> QED
        BY <2>3, <3>2, <3>3 DEF Release
    <2>4. CASE MeterInsert(t) \/ MeterBackfill(t) \/ MeterKey(t) \/ MeterGroup(t) \/ Fire(t)
      BY <1>0, <2>1, <2>2, <2>4 DEF MeterInsert, MeterBackfill, MeterKey, MeterGroup, Fire,
         db, history
    <2> QED
      BY <1>4, <2>3, <2>4 DEF Effects
  <1>5. ASSUME Tick \/ TickEnds \/ PollOneProgress \/ PollOneFetchJob \/ WorkerCas
        PROVE  SlotsInv'
    BY <1>0, <1>5 DEF Tick, TickEnds, PollOneProgress, PollOneFetchJob, WorkerCas, db,
       history, IInv, TypeOK
  <1>6. ASSUME NEW j \in Jobs,
               PollOneTimeout(j) \/ PollOneSkips(j) \/ PollOneFetch(j)
                 \/ UpstreamProgress(j) \/ ClientLeaves(j) \/ JobDeadlinePasses(j) \/ Purge(j)
        PROVE  SlotsInv'
    BY <1>0, <1>6 DEF PollOneTimeout, PollOneSkips, PollOneFetch, Take, UpstreamProgress,
       ClientLeaves, JobDeadlinePasses, Purge, db, memory, history, IInv, TypeOK
  <1>7. ASSUME Restart PROVE SlotsInv'
    <2>1. \A q \in Jobs : pc'[q] = "start" => pc[q] = "start"
      BY <1>7 DEF Restart
    <2>2. CASE UNCHANGED <<inFlight, holds>>
      BY <1>0, <1>7, <2>1, <2>2 DEF Restart
    <2>3. CASE inFlight' = [a \in Accounts |-> 0] /\ holds' = {}
      <3>1. \A a \in Accounts : HeldOn(a)' = {} /\ over'[a] \in Nat
        BY <1>7, <2>3 DEF Restart, HeldOn, IInv, TypeOK
      <3>2. \A a \in Accounts : inFlight'[a] = 0 /\ Cardinality(HeldOn(a)') = 0
        BY <2>3, <3>1, FS_EmptySet
      <3>3. SlotAccounting'
        BY <3>1, <3>2 DEF SlotAccounting, HeldOn
      <3> QED
        BY <2>3, <3>3 DEF SlotsInv
    <2> QED
      BY <1>7, <2>2, <2>3 DEF Restart
  <1>8. CASE UNCHANGED vars
    BY <1>0, <1>8 DEF vars, db, memory, history
  <1> QED
    BY NextCases, <1>1, <1>2, <1>3, <1>4, <1>5, <1>6, <1>7, <1>8

\* in_flight_jobs never counts a slot that is not held, and is short of the held ones
\* by at most the surplus releases.
THEOREM SlotsAreAccounted == Spec => []SlotAccounting
  <1>1. IInv /\ SlotsInv => SlotAccounting
    BY DEF SlotsInv
  <1>2. IInv /\ SlotsInv /\ [Next]_vars => SlotsInv'
    BY NextSlots
  <1>3. Init => SlotsInv
    BY InitSlots
  <1> QED
    BY <1>1, <1>2, <1>3, SpecIInv, PTL DEF Spec

-----------------------------------------------------------------------------
(* The spending counters against the usage events                          *)

\* Threads whose program counter is one of the labels.
At(labels) == {t \in Threads : pc[t] \in labels}
Count(labels) == Cardinality(At(labels))

\* Jobs billed by a request whose client has left and that is not, or no longer, on its
\* way to a counter.
Skipped(labels) == {r \in gone \intersect billed : pc[r] \notin labels}
Charging == {"backfill", "key", "group"}

\* BillingConserved, in terms of these counts; a thread charges only for a job billed.
BillingInv ==
    /\ keyUsed + Count({"backfill", "key"}) <= Cardinality(billed)
    /\ groupUsed + Count({"backfill", "key", "group"}) <= Cardinality(billed)
    /\ restarts = 0 /\ "key" \notin Faults =>
          Cardinality(billed) <=
              keyUsed + Count({"backfill", "key"}) + Cardinality(Skipped({"backfill", "key"}))
    /\ restarts = 0 /\ "group" \notin Faults =>
          Cardinality(billed) <=
              groupUsed + Count({"backfill", "key", "group"})
                + Cardinality(Skipped({"backfill", "key", "group"}))
    /\ \A r \in Jobs : pc[r] \in Charging => r \in billed

\* The threads, and the jobs billed, are finitely many.
LEMMA CountFinite ==
  ASSUME IInv
  PROVE  /\ \A L : IsFiniteSet(At(L)) /\ Count(L) \in Nat
         /\ IsFiniteSet(billed) /\ Cardinality(billed) \in Nat
  <1>1. IsFiniteSet(Threads)
    BY JobsAssumption, FS_AddElement DEF Threads
  <1>2. \A L : IsFiniteSet(At(L))
    BY <1>1, FS_Subset DEF At
  <1>3. IsFiniteSet(billed)
    BY JobsAssumption, FS_Subset DEF IInv, TypeOK
  <1> QED
    BY <1>2, <1>3, FS_CardinalityType DEF Count

\* What a thread's move does to the number of threads at a set of labels.
LEMMA GotoCount ==
  ASSUME IInv, NEW t \in Threads, NEW l, Goto(t, l), NEW L
  PROVE  Count(L)' = Count(L) + (IF l \in L THEN 1 ELSE 0) - (IF pc[t] \in L THEN 1 ELSE 0)
  <1>1. IsFiniteSet(At(L)) /\ Count(L) \in Nat
    BY CountFinite
  <1>2. CASE l \in L /\ pc[t] \notin L
    <2>1. At(L)' = At(L) \union {t} /\ t \notin At(L)
      BY <1>2 DEF At, Goto, IInv, TypeOK
    <2> QED
      BY <1>1, <1>2, <2>1, FS_AddElement DEF Count
  <1>3. CASE l \notin L /\ pc[t] \in L
    <2>1. At(L)' = At(L) \ {t} /\ t \in At(L)
      BY <1>3 DEF At, Goto, IInv, TypeOK
    <2> QED
      BY <1>1, <1>3, <2>1, FS_RemoveElement, SMTT(30) DEF Count
  <1>4. CASE (l \in L) <=> (pc[t] \in L)
    <2>1. At(L)' = At(L)
      BY <1>4 DEF At, Goto, IInv, TypeOK
    <2> QED
      BY <1>1, <1>4, <2>1 DEF Count
  <1> QED
    BY <1>2, <1>3, <1>4

\* The jobs skipped are finitely many.
LEMMA SkippedFinite ==
  ASSUME IInv
  PROVE  \A L : IsFiniteSet(Skipped(L)) /\ Cardinality(Skipped(L)) \in Nat
  <1>1. \A L : IsFiniteSet(Skipped(L))
    BY JobsAssumption, FS_Subset DEF Skipped, IInv, TypeOK
  <1> QED
    BY <1>1, FS_CardinalityType

\* A step that lets no request that charges back into the labels keeps the skipped ones.
LEMMA SkippedGrows ==
  ASSUME IInv, IInv', NEW L, billed \subseteq billed', gone \subseteq gone',
         \A r \in gone : pc[r] \notin L => pc'[r] \notin L
  PROVE  /\ Cardinality(Skipped(L)) \in Nat /\ Cardinality(Skipped(L)') \in Nat
         /\ Cardinality(Skipped(L)) <= Cardinality(Skipped(L)')
  <1>1. Skipped(L) \subseteq Skipped(L)'
    BY DEF Skipped
  <1>2. IsFiniteSet(Skipped(L)) /\ Cardinality(Skipped(L)) \in Nat
    BY SkippedFinite
  <1>3. IsFiniteSet(Skipped(L)')
    BY JobsAssumption, FS_Subset DEF Skipped, IInv, TypeOK
  <1> QED
    BY <1>1, <1>2, <1>3, FS_Subset, FS_CardinalityType

\* A step that leaves the counters alone and moves no thread into, within or out of
\* the charging labels keeps the balance.
LEMMA QuietBilling ==
  ASSUME IInv, IInv', BillingInv, UNCHANGED <<billed, keyUsed, groupUsed, restarts>>,
         gone \subseteq gone',
         \/ UNCHANGED pc
         \/ \E t \in Threads, l \in (RequestPC \union EffectPC \union WorkerPC) \ Charging :
               Goto(t, l) /\ pc[t] \notin Charging
  PROVE  BillingInv'
  <1>1. \A L \in SUBSET Charging : Count(L)' = Count(L)
    <2>1. CASE UNCHANGED pc
      BY <2>1 DEF Count, At
    <2>2. ASSUME NEW t \in Threads,
                 NEW l \in (RequestPC \union EffectPC \union WorkerPC) \ Charging,
                 Goto(t, l), pc[t] \notin Charging
          PROVE  \A L \in SUBSET Charging : Count(L)' = Count(L)
      BY <2>2, GotoCount, CountFinite
    <2> QED
      BY <2>1, <2>2
  <1>2. /\ Count({"backfill", "key"})' = Count({"backfill", "key"})
        /\ Count({"backfill", "key", "group"})' = Count({"backfill", "key", "group"})
    BY <1>1 DEF Charging
  <1>3. \A r \in Threads : pc'[r] = pc[r] \/ (pc[r] \notin Charging /\ pc'[r] \notin Charging)
    BY DEF Goto, IInv, TypeOK
  <1>4. gone \subseteq Threads /\ Jobs \subseteq Threads
    BY DEF IInv, TypeOK, Threads
  <1>5. \A L \in SUBSET Charging :
           /\ Cardinality(Skipped(L)) \in Nat /\ Cardinality(Skipped(L)') \in Nat
           /\ Cardinality(Skipped(L)) <= Cardinality(Skipped(L)')
    BY <1>3, <1>4, SkippedGrows
  <1>6. \A r \in Jobs : pc'[r] \in Charging => r \in billed'
    BY <1>3, <1>4 DEF BillingInv
  <1>7. /\ Cardinality(Skipped({"backfill", "key"})) \in Nat
        /\ Cardinality(Skipped({"backfill", "key"})') \in Nat
        /\ Cardinality(Skipped({"backfill", "key"})) <= Cardinality(Skipped({"backfill", "key"})')
        /\ Cardinality(Skipped({"backfill", "key", "group"})) \in Nat
        /\ Cardinality(Skipped({"backfill", "key", "group"})') \in Nat
        /\ Cardinality(Skipped({"backfill", "key", "group"}))
             <= Cardinality(Skipped({"backfill", "key", "group"})')
    BY <1>5 DEF Charging
  <1>8. /\ keyUsed \in Nat /\ groupUsed \in Nat /\ Cardinality(billed) \in Nat
        /\ Count({"backfill", "key"}) \in Nat /\ Count({"backfill", "key", "group"}) \in Nat
    BY CountFinite DEF IInv, TypeOK
  <1> QED
    BY <1>2, <1>6, <1>7, <1>8 DEF BillingInv

\* The three steps that charge, and the insert before them, keep the balance.
LEMMA EffectsBilling ==
  ASSUME IInv, IInv', BillingInv, NEW t \in Threads, Effects(t)
  PROVE  BillingInv'
  <1> DEFINE K == {"backfill", "key"}
             B == {"backfill", "key", "group"}
             SK == Cardinality(Skipped(K))
             SB == Cardinality(Skipped(B))
  <1>0. /\ Count(K) \in Nat /\ Count(B) \in Nat /\ SK \in Nat /\ SB \in Nat
        /\ IsFiniteSet(billed) /\ Cardinality(billed) \in Nat
        /\ keyUsed \in Nat /\ groupUsed \in Nat
    BY CountFinite, SkippedFinite DEF IInv, TypeOK
  <1>1. /\ keyUsed + Count(K) <= Cardinality(billed)
        /\ groupUsed + Count(B) <= Cardinality(billed)
        /\ restarts = 0 /\ "key" \notin Faults => Cardinality(billed) <= keyUsed + Count(K) + SK
        /\ restarts = 0 /\ "group" \notin Faults => Cardinality(billed) <= groupUsed + Count(B) + SB
        /\ \A r \in Jobs : pc[r] \in Charging => r \in billed
    BY DEF BillingInv
  <1>2. ASSUME /\ keyUsed' + Count(K)' <= Cardinality(billed')
               /\ groupUsed' + Count(B)' <= Cardinality(billed')
               /\ restarts' = 0 /\ "key" \notin Faults =>
                     Cardinality(billed') <= keyUsed' + Count(K)' + SK'
               /\ restarts' = 0 /\ "group" \notin Faults =>
                     Cardinality(billed') <= groupUsed' + Count(B)' + SB'
               /\ \A r \in Jobs : pc'[r] \in Charging => r \in billed'
        PROVE  BillingInv'
    BY <1>2 DEF BillingInv
  <1>3. /\ gone' = gone /\ restarts' = restarts /\ billed \subseteq billed'
        /\ \A r \in Threads : r # t => pc'[r] = pc[r]
        /\ Jobs \subseteq Threads /\ gone \subseteq Jobs /\ Worker \notin gone
    BY WorkerAssumption DEF Effects, Release, MeterInsert, MeterBackfill, MeterKey, MeterGroup,
       Fire, Goto, db, history, IInv, TypeOK, Threads
  <1>4. CASE Release(t)
    <2>1. pc[t] \notin Charging /\ \E l \in {"meter", "fire"} : Goto(t, l)
      BY <1>4 DEF Release, Charging
    <2>2. UNCHANGED <<billed, keyUsed, groupUsed, restarts, gone>>
      BY <1>4 DEF Release
    <2> QED
      BY <2>1, <2>2, QuietBilling DEF Charging, EffectPC
  <1>5. CASE MeterInsert(t)
    <2>1. pc[t] = "meter" /\ UNCHANGED <<keyUsed, groupUsed, restarts, gone>>
      BY <1>5 DEF MeterInsert
    <2>2. CASE /\ t \notin gone /\ JobOf(t) \notin billed
               /\ billed' = billed \union {JobOf(t)} /\ Goto(t, "backfill")
      <3>1. Cardinality(billed') = Cardinality(billed) + 1
        BY <1>0, <2>2, FS_AddElement
      <3>2. /\ Count(K)' = Count(K) + 1 /\ Count(B)' = Count(B) + 1
        BY <1>0, <2>1, <2>2, GotoCount
      <3>3. /\ SK' \in Nat /\ SK <= SK' /\ SB' \in Nat /\ SB <= SB'
        BY <1>3, <2>2, SkippedGrows
      <3>4. \A r \in Jobs : pc'[r] \in Charging => r \in billed'
        BY <1>1, <1>3, <2>2, WorkerAssumption DEF JobOf, Threads
      <3> HIDE DEF K, B, SK, SB
      <3> QED
        BY <1>0, <1>1, <1>2, <2>1, <3>1, <3>2, <3>3, <3>4
    <2>3. CASE Goto(t, "fire") /\ UNCHANGED billed
      BY <2>1, <2>3, QuietBilling DEF Charging, EffectPC
    <2> QED
      BY <1>5, <2>2, <2>3 DEF MeterInsert
  <1>6. CASE MeterBackfill(t)
    <2>1. /\ pc[t] = "backfill" /\ Goto(t, "key")
          /\ UNCHANGED <<billed, keyUsed, groupUsed, restarts>>
      BY <1>6 DEF MeterBackfill
    <2>2. /\ Count(K)' = Count(K) /\ Count(B)' = Count(B)
      BY <1>0, <2>1, GotoCount
    <2>3. pc'[t] = "key"
      BY <2>1 DEF Goto, IInv, TypeOK
    <2>4. /\ SK' \in Nat /\ SK <= SK' /\ SB' \in Nat /\ SB <= SB'
      BY <1>3, <2>1, SkippedGrows
    <2>5. \A r \in Jobs : pc'[r] \in Charging => r \in billed'
      BY <1>1, <1>3, <2>1 DEF Charging
    <2> HIDE DEF K, B, SK, SB
    <2> QED
      BY <1>0, <1>1, <1>2, <2>1, <2>2, <2>4, <2>5
  <1>7. CASE MeterKey(t)
    <2>1. /\ pc[t] = "key" /\ Goto(t, "group")
          /\ \/ t \notin gone /\ keyUsed' = keyUsed + 1
             \/ ("key" \in Faults \/ t \in gone) /\ keyUsed' = keyUsed
          /\ UNCHANGED <<billed, groupUsed, restarts>>
      BY <1>7 DEF MeterKey, Fails
    <2>2. Count(K)' = Count(K) - 1 /\ Count(B)' = Count(B)
      BY <1>0, <2>1, GotoCount
    <2>3. pc'[t] = "group"
      BY <2>1 DEF Goto, IInv, TypeOK
    <2>4. SB' \in Nat /\ SB <= SB'
      BY <1>3, <2>1, SkippedGrows
    <2>5. \A r \in Jobs : pc'[r] \in Charging => r \in billed'
      BY <1>1, <1>3, <2>1 DEF Charging
    <2>6. SK' \in Nat /\ SK' = SK + (IF t \in gone THEN 1 ELSE 0)
      <3>1. CASE t \in gone
        <4>1. Skipped(K)' = Skipped(K) \union {t} /\ t \notin Skipped(K)
          BY <1>1, <1>3, <2>1, <2>3, <3>1 DEF Skipped, Charging
        <4> QED
          BY <1>0, <3>1, <4>1, SkippedFinite, FS_AddElement
      <3>2. CASE t \notin gone
        <4>1. Skipped(K)' = Skipped(K)
          BY <1>3, <2>1, <3>2 DEF Skipped
        <4> QED
          BY <1>0, <3>2, <4>1
      <3> QED
        BY <3>1, <3>2
    <2> HIDE DEF K, B, SK, SB
    <2> QED
      BY <1>0, <1>1, <1>2, <2>1, <2>2, <2>4, <2>5, <2>6
  <1>8. CASE MeterGroup(t)
    <2>1. /\ pc[t] = "group" /\ Goto(t, "fire")
          /\ \/ t \notin gone /\ groupUsed' = groupUsed + 1
             \/ ("group" \in Faults \/ t \in gone) /\ groupUsed' = groupUsed
          /\ UNCHANGED <<billed, keyUsed, restarts>>
      BY <1>8 DEF MeterGroup, Fails
    <2>2. Count(K)' = Count(K) /\ Count(B)' = Count(B) - 1
      BY <1>0, <2>1, GotoCount
    <2>3. pc'[t] = "fire"
      BY <2>1 DEF Goto, IInv, TypeOK
    <2>4. SK' \in Nat /\ SK <= SK'
      BY <1>3, <2>1, <2>3, SkippedGrows
    <2>5. \A r \in Jobs : pc'[r] \in Charging => r \in billed'
      BY <1>1, <1>3, <2>1 DEF Charging
    <2>6. SB' \in Nat /\ SB' = SB + (IF t \in gone THEN 1 ELSE 0)
      <3>1. CASE t \in gone
        <4>1. Skipped(B)' = Skipped(B) \union {t} /\ t \notin Skipped(B)
          BY <1>1, <1>3, <2>1, <2>3, <3>1 DEF Skipped, Charging
        <4> QED
          BY <1>0, <3>1, <4>1, SkippedFinite, FS_AddElement
      <3>2. CASE t \notin gone
        <4>1. Skipped(B)' = Skipped(B)
          BY <1>3, <2>1, <3>2 DEF Skipped
        <4> QED
          BY <1>0, <3>2, <4>1
      <3> QED
        BY <3>1, <3>2
    <2> HIDE DEF K, B, SK, SB
    <2> QED
      BY <1>0, <1>1, <1>2, <1>3, <2>1, <2>2, <2>4, <2>5, <2>6
  <1>9. CASE Fire(t)
    <2>1. pc[t] \notin Charging /\ \E l \in {"next", "done"} : Goto(t, l)
      BY <1>9 DEF Fire, Charging
    <2>2. UNCHANGED <<billed, keyUsed, groupUsed, restarts, gone>>
      BY <1>9 DEF Fire, db
    <2> QED
      BY <2>1, <2>2, QuietBilling DEF Charging, WorkerPC, RequestPC
  <1> QED
    BY <1>4, <1>5, <1>6, <1>7, <1>8, <1>9 DEF Effects

\* Every step keeps the balance; a restart forgets the increments still to run.
LEMMA NextBilling ==
  ASSUME IInv, IInv', BillingInv, [Next]_vars
  PROVE  BillingInv'
  <1> USE WorkerAssumption DEF Threads, Charging, RequestPC, EffectPC, WorkerPC
  <1>1. ASSUME NEW r \in Jobs, NEW a \in Accounts, PickAndLock(r, a) PROVE BillingInv'
    BY <1>1, QuietBilling DEF PickAndLock
  <1>2. ASSUME NEW r \in Jobs,
               PickFails(r) \/ CreateJob(r) \/ CreateJobFails(r) \/ PersistJob(r)
                 \/ PersistJobFails(r) \/ PollTerminal(r) \/ PollFails(r)
                 \/ ErrorRelease(r) \/ SyncCas(r)
        PROVE  BillingInv'
    <2>1. UNCHANGED <<billed, keyUsed, groupUsed, restarts, gone>>
      BY <1>2 DEF PickFails, CreateJob, CreateJobFails, PersistJob, PersistJobFails,
         PollTerminal, PollFails, ErrorRelease, SyncCas, db
    <2>2. pc[r] \notin Charging
      BY <1>2 DEF PickFails, CreateJob, CreateJobFails, PersistJob, PersistJobFails,
         PollTerminal, PollFails, ErrorRelease, SyncCas
    <2>3. \E l \in {"done", "persist", "create_failed", "poll", "cas", "release",
                    "error_release"} : Goto(r, l)
      BY <1>2 DEF PickFails, CreateJob, CreateJobFails, PersistJob, PersistJobFails,
         PollTerminal, PollFails, ErrorRelease, SyncCas
    <2> QED
      BY <2>1, <2>2, <2>3, QuietBilling
  <1>3. ASSUME NEW t \in Threads, Effects(t) PROVE BillingInv'
    BY <1>3, EffectsBilling
  <1>4. ASSUME Tick \/ TickEnds \/ PollOneProgress \/ PollOneFetchJob \/ WorkerCas
        PROVE  BillingInv'
    <2>1. UNCHANGED <<billed, keyUsed, groupUsed, restarts, gone>> /\ pc[Worker] \notin Charging
      BY <1>4 DEF Tick, TickEnds, PollOneProgress, PollOneFetchJob, WorkerCas, db
    <2>2. \E l \in {"next", "idle", "cas", "release"} : Goto(Worker, l)
      BY <1>4 DEF Tick, TickEnds, PollOneProgress, PollOneFetchJob, WorkerCas
    <2> QED
      BY <2>1, <2>2, QuietBilling
  <1>5. ASSUME NEW j \in Jobs, PollOneTimeout(j) \/ PollOneSkips(j) \/ PollOneFetch(j)
        PROVE  BillingInv'
    <2>1. UNCHANGED <<billed, keyUsed, groupUsed, restarts, gone>> /\ pc[Worker] = "next"
      BY <1>5 DEF PollOneTimeout, PollOneSkips, PollOneFetch, Take, db
    <2>2. UNCHANGED pc \/ \E l \in {"cas", "fetched"} : Goto(Worker, l)
      BY <1>5 DEF PollOneTimeout, PollOneSkips, PollOneFetch
    <2> QED
      BY <2>1, <2>2, QuietBilling
  <1>6. ASSUME NEW j \in Jobs,
               UpstreamProgress(j) \/ ClientLeaves(j) \/ JobDeadlinePasses(j) \/ Purge(j)
        PROVE  BillingInv'
    BY <1>6, QuietBilling DEF UpstreamProgress, ClientLeaves, JobDeadlinePasses, Purge, db, memory
  <1>7. ASSUME Restart PROVE BillingInv'
    <2>1. \A t \in Threads : pc'[t] \notin Charging
      BY <1>7 DEF Restart
    <2>2. \A L \in SUBSET Charging : At(L)' = {}
      BY <2>1 DEF At
    <2>3. /\ Count({"backfill", "key"})' = 0
          /\ Count({"backfill", "key", "group"})' = 0
      BY <2>2, FS_EmptySet DEF Count
    <2>4. UNCHANGED <<billed, keyUsed, groupUsed>> /\ restarts' # 0
      BY <1>7, RestartsAssumption DEF Restart, IInv, TypeOK
    <2>5. /\ keyUsed \in Nat /\ groupUsed \in Nat /\ Cardinality(billed) \in Nat
          /\ Count({"backfill", "key"}) \in Nat
          /\ Count({"backfill", "key", "group"}) \in Nat
      BY CountFinite DEF IInv, TypeOK
    <2>6. \A r \in Jobs : pc'[r] \notin Charging
      BY <2>1 DEF Threads
    <2> QED
      BY <2>3, <2>4, <2>5, <2>6 DEF BillingInv
  <1>8. CASE UNCHANGED vars
    BY <1>8, QuietBilling DEF vars, db, memory
  <1> QED
    BY NextCases, <1>1, <1>2, <1>3, <1>4, <1>5, <1>6, <1>7, <1>8

\* The balance holds in every reachable state.
LEMMA SpecBilling == Spec => []BillingInv
  <1>1. Init => BillingInv
    <2> SUFFICES ASSUME Init PROVE BillingInv
      OBVIOUS
    <2>1. At({"backfill", "key"}) = {} /\ At({"backfill", "key", "group"}) = {}
      BY DEF Init, At
    <2>2. \A r \in Jobs : pc[r] \notin Charging
      BY WorkerAssumption DEF Init, Threads, Charging
    <2>3. /\ keyUsed = 0 /\ groupUsed = 0 /\ billed = {}
          /\ Skipped({"backfill", "key"}) = {} /\ Skipped({"backfill", "key", "group"}) = {}
      BY DEF Init, Skipped
    <2> QED
      BY <2>1, <2>2, <2>3, FS_EmptySet DEF BillingInv, Count
  <1>2. IInv /\ BillingInv /\ [Next]_vars => BillingInv'
    BY NextIInv, NextBilling
  <1> QED
    BY <1>1, <1>2, SpecIInv, PTL DEF Spec

\* Usage events and the two spending counters agree up to the increments still to run;
\* a restart, or a client that leaves while its job is metered, loses increments and never
\* repeats one.
THEOREM BillingIsConserved == Spec => []BillingConserved
  <1>1. IInv /\ BillingInv => BillingConserved
    <2> SUFFICES ASSUME IInv, BillingInv PROVE BillingConserved
      OBVIOUS
    <2>1. AwaitingKey = At({"backfill", "key"}) /\ AwaitingGroup = At({"backfill", "key", "group"})
      BY DEF AwaitingKey, AwaitingGroup, At
    <2>2. \A L : Cardinality(billed \ gone) + Cardinality(Skipped(L)) <= Cardinality(billed)
      <3> SUFFICES ASSUME NEW L
                   PROVE  Cardinality(billed \ gone) + Cardinality(Skipped(L))
                            <= Cardinality(billed)
        OBVIOUS
      <3>1. IsFiniteSet(billed) /\ IsFiniteSet(billed \ gone) /\ IsFiniteSet(Skipped(L))
        BY CountFinite, SkippedFinite, FS_Subset
      <3>2. (billed \ gone) \intersect Skipped(L) = {}
        BY DEF Skipped
      <3>3. (billed \ gone) \union Skipped(L) \subseteq billed
        BY DEF Skipped
      <3>4. Cardinality((billed \ gone) \union Skipped(L))
              = Cardinality(billed \ gone) + Cardinality(Skipped(L))
        <4>1. Cardinality((billed \ gone) \union Skipped(L))
                = Cardinality(billed \ gone) + Cardinality(Skipped(L))
                    - Cardinality((billed \ gone) \intersect Skipped(L))
          BY <3>1, FS_Union
        <4>2. Cardinality((billed \ gone) \intersect Skipped(L)) = 0
          BY <3>2, FS_EmptySet
        <4>3. Cardinality(billed \ gone) \in Nat /\ Cardinality(Skipped(L)) \in Nat
          BY <3>1, FS_CardinalityType
        <4> QED
          BY <4>1, <4>2, <4>3
      <3> QED
        BY <3>1, <3>3, <3>4, FS_Subset
    <2>3. /\ keyUsed \in Nat /\ groupUsed \in Nat /\ Cardinality(billed) \in Nat
          /\ Cardinality(billed \ gone) \in Nat
          /\ \A L : Count(L) \in Nat /\ Cardinality(Skipped(L)) \in Nat
      BY CountFinite, SkippedFinite, FS_Subset, FS_CardinalityType DEF IInv, TypeOK
    <2> QED
      BY <2>1, <2>2, <2>3 DEF BillingInv, BillingConserved, Count
  <1> QED
    BY <1>1, SpecIInv, SpecBilling, PTL

\* A thread at a label makes the count of that label positive.
LEMMA CountPositive ==
  ASSUME IInv, NEW t \in Threads, NEW L, pc[t] \in L
  PROVE  Count(L) \in Nat /\ Count(L) >= 1
  <1>1. IsFiniteSet(At(L)) /\ Count(L) \in Nat
    BY CountFinite
  <1>2. At(L) # {}
    BY DEF At
  <1>3. Count(L) # 0
    BY <1>1, <1>2, FS_EmptySet DEF Count
  <1> QED
    BY <1>1, <1>3

\* The ledger's Cardinality is the standard one.
LEMMA LedgerCardinality == Ledger!Cardinality(billed) = Cardinality(billed)
  BY DEF Ledger!Cardinality, Cardinality

\* Requests, worker, purges and restarts together implement the abstract ledger: an
\* insert is its RecordUsage, an increment its ChargeKey or ChargeGroup.
THEOREM LedgerIsImplemented == Spec => ImplementsLedger
  <1> USE DEF Ledger!LedgerNext, Ledger!RecordUsage, Ledger!ChargeKey, Ledger!ChargeGroup,
              Ledger!ledgerVars
  <1>1. Init => Ledger!LedgerInit
    BY DEF Init, Ledger!LedgerInit
  <1>2. ASSUME IInv, BillingInv, [Next]_vars PROVE [Ledger!LedgerNext]_Ledger!ledgerVars
    <2>1. ASSUME NEW t \in Threads, Effects(t)
          PROVE  [Ledger!LedgerNext]_Ledger!ledgerVars
      <3>1. CASE MeterInsert(t)
        <4>1. JobOf(t) \in Jobs /\ UNCHANGED <<keyUsed, groupUsed>>
          BY <1>2, <3>1, EffectJob DEF MeterInsert, EffectPC
        <4> QED
          BY <3>1, <4>1 DEF MeterInsert
      <3>2. CASE MeterKey(t)
        <4>1. keyUsed < Cardinality(billed)
          <5>1. pc[t] \in {"backfill", "key"}
            BY <3>2 DEF MeterKey
          <5>2. Count({"backfill", "key"}) \in Nat /\ Count({"backfill", "key"}) >= 1
            BY <1>2, <5>1, CountPositive
          <5>3. /\ keyUsed \in Nat /\ Cardinality(billed) \in Nat
                /\ keyUsed + Count({"backfill", "key"}) <= Cardinality(billed)
            BY <1>2, CountFinite DEF BillingInv, IInv, TypeOK
          <5> QED
            BY <5>2, <5>3
        <4> QED
          BY <3>2, <4>1, LedgerCardinality DEF MeterKey
      <3>3. CASE MeterGroup(t)
        <4>1. groupUsed < Cardinality(billed)
          <5>1. pc[t] \in {"backfill", "key", "group"}
            BY <3>3 DEF MeterGroup
          <5>2. /\ Count({"backfill", "key", "group"}) \in Nat
                /\ Count({"backfill", "key", "group"}) >= 1
            BY <1>2, <5>1, CountPositive
          <5>3. /\ groupUsed \in Nat /\ Cardinality(billed) \in Nat
                /\ groupUsed + Count({"backfill", "key", "group"}) <= Cardinality(billed)
            BY <1>2, CountFinite DEF BillingInv, IInv, TypeOK
          <5> QED
            BY <5>2, <5>3
        <4> QED
          BY <3>3, <4>1, LedgerCardinality DEF MeterGroup
      <3>4. CASE Release(t) \/ MeterBackfill(t) \/ Fire(t)
        BY <3>4 DEF Release, MeterBackfill, Fire, db
      <3> QED
        BY <2>1, <3>1, <3>2, <3>3, <3>4 DEF Effects
    <2>2. ASSUME NEW r \in Jobs,
                 \/ \E a \in Accounts : PickAndLock(r, a)
                 \/ PickFails(r) \/ CreateJob(r) \/ CreateJobFails(r) \/ PersistJob(r)
                 \/ PersistJobFails(r) \/ PollTerminal(r) \/ PollFails(r)
                 \/ ErrorRelease(r) \/ SyncCas(r)
          PROVE  UNCHANGED <<billed, keyUsed, groupUsed>>
      BY <2>2 DEF PickAndLock, PickFails, CreateJob, CreateJobFails, PersistJob,
         PersistJobFails, PollTerminal, PollFails, ErrorRelease, SyncCas, db
    <2>3. ASSUME \/ Tick \/ TickEnds \/ PollOneProgress \/ PollOneFetchJob \/ WorkerCas
                 \/ Restart \/ UNCHANGED vars
          PROVE  UNCHANGED <<billed, keyUsed, groupUsed>>
      BY <2>3 DEF Tick, TickEnds, PollOneProgress, PollOneFetchJob, WorkerCas, Restart,
         vars, db
    <2>4. ASSUME NEW j \in Jobs,
                 PollOneTimeout(j) \/ PollOneSkips(j) \/ PollOneFetch(j)
                   \/ UpstreamProgress(j) \/ ClientLeaves(j) \/ JobDeadlinePasses(j) \/ Purge(j)
          PROVE  UNCHANGED <<billed, keyUsed, groupUsed>>
      BY <2>4 DEF PollOneTimeout, PollOneSkips, PollOneFetch, UpstreamProgress,
         ClientLeaves, JobDeadlinePasses, Purge, db
    <2> QED
      BY <1>2, NextCases, <2>1, <2>2, <2>3, <2>4
  <1> QED
    BY <1>1, <1>2, SpecIInv, SpecBilling, PTL DEF Spec, ImplementsLedger, Ledger!LedgerSpec
=============================================================================

---------------------------- MODULE SupplyProofs ----------------------------
(* What registration and the claimer guarantee for any number of rows,      *)
(* slots, requests, retries, failed statements, boots, gifts and grants.    *)
EXTENDS Supply, FiniteSetTheorems, WellFoundedInduction, TLAPS

FlowPCs == {"free", "query", "mark", "drive", "fail", "upsert", "complete"}
RowStates == {"none", "pending", "running", "success", "failed"}
FlowRecs == [pc: FlowPCs, r: Regs \cup {0}, of: Pollers, id: BOOLEAN]
PollRecs == [pc: {"idle", "poll", "query", "retry"}, alive: BOOLEAN, reg: Regs \cup {0}, read: RowStates]

RegTypes ==
    /\ regs \in [Regs -> RowStates]
    /\ pool \in [Regs -> {"none", "active", "disabled"}]
    /\ poller \in [Pollers -> PollRecs]
    /\ flow \in [Flows -> FlowRecs]
    /\ shared \subseteq Regs /\ stranded \subseteq Regs
    /\ \A f \in Flows: flow[f].r = 0 <=> flow[f].pc \in {"free", "query"}
    /\ \A p \in Pollers: poller[p].pc = "retry" => poller[p].reg \in Regs

LEMMA RegsArePositive == Regs \subseteq Nat /\ 0 \notin Regs
  BY RegistrarAssumption, FS_CardinalityType

LEMMA NextPendingIsPending == ASSUME Pending # {} PROVE NextPending \in Pending
  <1>1. Pending \subseteq Nat
    BY RegsArePositive DEF Pending
  <1>2. PICK x \in Pending: \A y \in Pending: ~(<<y, x>> \in OpToRel(<, Nat))
    BY <1>1, NatLessThanWellFounded, WFMin
  <1>3. \A y \in Pending: x <= y
    <2>1. \A y \in Pending: ~(y < x)
      BY <1>1, <1>2 DEF OpToRel
    <2> QED
      BY <1>1, <2>1
  <1> QED
    BY <1>3 DEF NextPending
----------------------------------------------------------------------------
(* What a step does to the rows and the flows, pointwise. *)

\* Slot f goes to q with row r, the other slots keep theirs.
Moves(f, q, r) ==
    /\ flow'[f].pc = q /\ flow'[f].r = r
    /\ \A g \in Flows \ {f}: flow'[g] = flow[g]
Sets(r, st) == regs'[r] = st /\ \A q \in Regs \ {r}: regs'[q] = regs[q]

KeepsAll == UNCHANGED <<regs, pool, flow, shared, stranded>>
Inserts(r) == regs[r] = "none" /\ Sets(r, "pending") /\ UNCHANGED <<pool, flow, shared, stranded>>
Resets(r) ==
    /\ Sets(r, "pending")
    /\ shared \subseteq shared' /\ (On(r) # {} \/ regs[r] = "success" => r \in shared')
    /\ stranded' = stranded \ {r} /\ UNCHANGED <<pool, flow>>
Shifts(f) ==
    /\ flow[f].pc \in {"free", "query"} /\ UNCHANGED <<regs, pool, shared, stranded>>
    /\ Moves(f, "query", 0) \/ Moves(f, "free", 0)
Spawns(f, r) ==
    /\ flow[f].pc = "query" /\ regs[r] = "pending" /\ Moves(f, "mark", r)
    /\ shared \subseteq shared' /\ (On(r) # {} => r \in shared') /\ UNCHANGED <<regs, pool, stranded>>
Marks(f) ==
    /\ flow[f].pc = "mark" /\ Moves(f, "drive", flow[f].r) /\ Sets(flow[f].r, "running")
    /\ stranded' = stranded \ {flow[f].r} /\ UNCHANGED <<pool, shared>>
Drives(f) ==
    /\ flow[f].pc = "drive" /\ UNCHANGED <<regs, pool, shared, stranded>>
    /\ Moves(f, "upsert", flow[f].r) \/ Moves(f, "fail", flow[f].r)
GivesUp(f) ==
    /\ flow[f].pc \in {"mark", "fail", "upsert", "complete"} /\ Moves(f, "free", 0)
    /\ Strands(f) /\ UNCHANGED <<regs, pool, shared>>
Fails(f) ==
    /\ flow[f].pc = "fail" /\ Moves(f, "free", 0) /\ Sets(flow[f].r, "failed")
    /\ UNCHANGED <<pool, shared, stranded>>
Upserts(f) ==
    /\ flow[f].pc = "upsert" /\ Moves(f, "complete", flow[f].r)
    /\ pool'[flow[f].r] = "active" /\ \A q \in Regs \ {flow[f].r}: pool'[q] = pool[q]
    /\ UNCHANGED <<regs, shared, stranded>>
Completes(f) ==
    /\ flow[f].pc = "complete" /\ Moves(f, "free", 0) /\ Sets(flow[f].r, "success")
    /\ UNCHANGED <<pool, shared, stranded>>
Reboots ==
    /\ \A f \in Flows: flow'[f].pc = "free" /\ flow'[f].r = 0
    /\ \A r \in Regs: regs'[r] = regs[r] \/ (regs[r] = "running" /\ regs'[r] = "pending")
    /\ \A r \in Regs: regs'[r] = "running" => r \in stranded'
    /\ UNCHANGED <<pool, shared>>
Disables(r) ==
    /\ pool[r] = "active" /\ pool'[r] = "disabled" /\ \A q \in Regs \ {r}: pool'[q] = pool[q]
    /\ UNCHANGED <<regs, flow, shared, stranded>>

RegStep ==
    \/ KeepsAll \/ Reboots
    \/ \E r \in Regs: Inserts(r) \/ Resets(r) \/ Disables(r) \/ \E f \in Flows: Spawns(f, r)
    \/ \E f \in Flows: \/ Shifts(f) \/ Marks(f) \/ Drives(f) \/ GivesUp(f) \/ Fails(f)
                        \/ Upserts(f) \/ Completes(f)

LEMMA FlowMoves ==
  ASSUME RegTypes, NEW f \in Flows, NEW rec \in FlowRecs, SetFlow(f, rec),
         rec.r = 0 <=> rec.pc \in {"free", "query"}
  PROVE  /\ Moves(f, rec.pc, rec.r) /\ flow' \in [Flows -> FlowRecs]
         /\ \A g \in Flows: flow'[g].r = 0 <=> flow'[g].pc \in {"free", "query"}
  <1>1. flow \in [Flows -> FlowRecs] /\ flow' = [flow EXCEPT ![f] = rec]
    BY DEF RegTypes, SetFlow
  <1>2. flow'[f] = rec /\ (\A g \in Flows \ {f}: flow'[g] = flow[g]) /\ flow' \in [Flows -> FlowRecs]
    BY <1>1
  <1> QED
    BY <1>2 DEF Moves, RegTypes

LEMMA PollerMoves ==
  ASSUME RegTypes, NEW p \in Pollers, NEW rec \in PollRecs, SetPoller(p, rec),
         rec.pc = "retry" => rec.reg \in Regs
  PROVE  /\ poller' \in [Pollers -> PollRecs]
         /\ \A q \in Pollers: poller'[q].pc = "retry" => poller'[q].reg \in Regs
  <1>1. poller \in [Pollers -> PollRecs] /\ poller' = [poller EXCEPT ![p] = rec]
    BY DEF RegTypes, SetPoller
  <1>2. poller'[p] = rec /\ (\A q \in Pollers \ {p}: poller'[q] = poller[q]) /\ poller' \in [Pollers -> PollRecs]
    BY <1>1
  <1> QED
    BY <1>2 DEF RegTypes

LEMMA RowSets ==
  ASSUME RegTypes, NEW r \in Regs, NEW st \in RowStates, SetReg(r, st)
  PROVE  Sets(r, st) /\ regs' \in [Regs -> RowStates]
  BY DEF RegTypes, SetReg, Sets

LEMMA Records ==
  /\ NoFlow \in FlowRecs /\ NoFlow.pc = "free" /\ NoFlow.r = 0
  /\ NoPoller \in PollRecs /\ NoPoller.pc = "idle" /\ LoopReady \in PollRecs /\ LoopReady.pc = "idle"
  /\ \A rec \in PollRecs: \A q \in {"idle", "poll", "query"}:
        [rec EXCEPT !.pc = q] \in PollRecs /\ [rec EXCEPT !.pc = q].pc = q
  /\ \A rec \in PollRecs: \A b \in BOOLEAN:
        [rec EXCEPT !.alive = b] \in PollRecs /\ [rec EXCEPT !.alive = b].pc = rec.pc
        /\ [rec EXCEPT !.alive = b].reg = rec.reg
  /\ \A rec \in FlowRecs: \A q \in FlowPCs:
        [rec EXCEPT !.pc = q] \in FlowRecs /\ [rec EXCEPT !.pc = q].pc = q /\ [rec EXCEPT !.pc = q].r = rec.r
  <1>1. Loop \in Pollers
    BY DEF Pollers
  <1>2. NoFlow \in FlowRecs /\ NoFlow.pc = "free" /\ NoFlow.r = 0
    BY <1>1 DEF NoFlow, FlowRecs, FlowPCs
  <1>3. NoPoller \in PollRecs /\ NoPoller.pc = "idle"
    BY DEF NoPoller, PollRecs, RowStates
  <1>4. LoopReady \in PollRecs /\ LoopReady.pc = "idle"
    BY <1>3 DEF LoopReady, PollRecs
  <1> QED
    BY <1>2, <1>3, <1>4 DEF PollRecs, FlowRecs

LEMMA RegStepOf == ASSUME RegTypes, RegNext PROVE RegTypes' /\ RegStep
  <1>0. /\ \A f \in Flows: flow[f] \in FlowRecs /\ (flow[f].r # 0 => flow[f].r \in Regs)
        /\ \A p \in Pollers: poller[p] \in PollRecs
        /\ Loop \in Pollers /\ Requests \subseteq Pollers
    BY DEF RegTypes, Pollers, FlowRecs
  <1>1. ASSUME NEW p \in Requests, Enqueue(p) PROVE RegTypes' /\ RegStep
    <2>1. PICK r \in Regs: regs[r] = "none" /\ SetReg(r, "pending")
      BY <1>1 DEF Enqueue, InsertPending
    <2>2. Sets(r, "pending") /\ regs' \in [Regs -> RowStates]
      BY <2>1, RowSets DEF RowStates
    <2>3. Triggered \in PollRecs /\ Triggered.pc # "retry"
      BY DEF Triggered, NoPoller, PollRecs, RowStates
    <2>4. SetPoller(p, Triggered) /\ UNCHANGED <<pool, flow, shared, stranded>>
      BY <1>1 DEF Enqueue
    <2>5. /\ poller' \in [Pollers -> PollRecs]
          /\ \A q \in Pollers: poller'[q].pc = "retry" => poller'[q].reg \in Regs
      BY <1>0, <2>3, <2>4, PollerMoves
    <2>6. Inserts(r)
      BY <2>1, <2>2, <2>4 DEF Inserts
    <2> QED
      BY <2>2, <2>4, <2>5, <2>6 DEF RegTypes, RegStep
  \* A step of a poller alone.
  <1>p. ASSUME NEW p \in Pollers, NEW rec \in PollRecs, SetPoller(p, rec), rec.pc = "retry" => rec.reg \in Regs,
               KeepsAll
        PROVE  RegTypes' /\ RegStep
    <2>1. /\ poller' \in [Pollers -> PollRecs]
          /\ \A q \in Pollers: poller'[q].pc = "retry" => poller'[q].reg \in Regs
      BY <1>p, PollerMoves
    <2> QED
      BY <1>p, <2>1 DEF RegTypes, RegStep, KeepsAll
  <1>2. ASSUME NEW p \in Requests, Replies(p) PROVE RegTypes' /\ RegStep
    <2>1. [poller[p] EXCEPT !.alive = FALSE] \in PollRecs /\ [poller[p] EXCEPT !.alive = FALSE].pc = poller[p].pc
      BY <1>0, Records
    <2>2. poller[p].pc # "retry" /\ SetPoller(p, [poller[p] EXCEPT !.alive = FALSE]) /\ KeepsAll
      BY <1>2 DEF Replies, KeepsAll
    <2> QED
      BY <1>0, <1>p, <2>1, <2>2
  <1>3. ASSUME NEW p \in Requests, NEW r \in Regs, RetryReads(p, r) PROVE RegTypes' /\ RegStep
    <2> DEFINE rec == [pc |-> "retry", alive |-> TRUE, reg |-> r, read |-> regs[r]]
    <2>1. rec \in PollRecs /\ rec.reg \in Regs
      BY DEF RegTypes, PollRecs
    <2>2. SetPoller(p, rec) /\ KeepsAll
      BY <1>3 DEF RetryReads, KeepsAll
    <2> HIDE DEF rec
    <2> QED
      BY <1>0, <1>p, <2>1, <2>2
  <1>4. ASSUME NEW p \in Requests, Retry(p) PROVE RegTypes' /\ RegStep
    <2> DEFINE r == poller[p].reg
               reset == Retries(poller[p].read)
               rec == IF reset /\ worker THEN [poller[p] EXCEPT !.pc = "poll"] ELSE NoPoller
    <2>1. r \in Regs
      BY <1>0, <1>4 DEF Retry, RegTypes
    <2>2. rec \in PollRecs /\ rec.pc # "retry"
      BY <1>0, Records
    <2>3. SetPoller(p, rec) /\ UNCHANGED <<pool, flow>>
      BY <1>4 DEF Retry
    <2>4. /\ poller' \in [Pollers -> PollRecs]
          /\ \A q \in Pollers: poller'[q].pc = "retry" => poller'[q].reg \in Regs
      <3> HIDE DEF rec
      <3> QED
        BY <1>0, <2>2, <2>3, PollerMoves
    <2>5. CASE reset
      <3>1. /\ regs' = [regs EXCEPT ![r] = "pending"] /\ stranded' = stranded \ {r}
            /\ shared' = IF On(r) # {} \/ regs[r] # poller[p].read THEN shared \cup {r} ELSE shared
        BY <1>4, <2>5 DEF Retry, ResetToPending
      <3>2. poller[p].read # "success"
        BY <2>5 DEF Retries
      <3>3. Sets(r, "pending") /\ regs' \in [Regs -> RowStates]
        BY <2>1, <3>1, RowSets DEF SetReg, RowStates
      <3>4. Resets(r)
        BY <2>3, <3>1, <3>2, <3>3 DEF Resets
      <3>5. shared' \subseteq Regs /\ stranded' \subseteq Regs
        BY <2>1, <3>1 DEF RegTypes
      <3> HIDE DEF r, reset, rec
      <3> QED
        BY <2>1, <2>3, <2>4, <3>3, <3>4, <3>5 DEF RegTypes, RegStep
    <2>6. CASE ~reset
      <3>1. KeepsAll
        BY <1>4, <2>6 DEF Retry, KeepsAll
      <3> QED
        BY <2>4, <3>1 DEF RegTypes, RegStep, KeepsAll
    <2> QED
      BY <2>5, <2>6
  <1>5. CASE LoopTicks
    <2>1. [LoopReady EXCEPT !.pc = "poll"] \in PollRecs /\ [LoopReady EXCEPT !.pc = "poll"].pc = "poll"
      BY Records
    <2>2. SetPoller(Loop, [LoopReady EXCEPT !.pc = "poll"]) /\ KeepsAll
      BY <1>5 DEF LoopTicks, KeepsAll
    <2> QED
      BY <1>0, <1>p, <2>1, <2>2
  <1>s. ASSUME NEW p \in Pollers, NEW q \in {"idle", "poll", "query"}, SetPoller(p, [poller[p] EXCEPT !.pc = q])
        PROVE  /\ poller' \in [Pollers -> PollRecs]
               /\ \A x \in Pollers: poller'[x].pc = "retry" => poller'[x].reg \in Regs
    <2>0. poller[p] \in PollRecs
      BY <1>0
    <2>1. [poller[p] EXCEPT !.pc = q] \in PollRecs /\ [poller[p] EXCEPT !.pc = q].pc = q
      BY <2>0, Records
    <2>2. [poller[p] EXCEPT !.pc = q].pc # "retry"
      BY <2>1
    <2> QED
      BY <1>s, <2>1, <2>2, PollerMoves
  <1>6. ASSUME NEW p \in Pollers, AtCapacity(p) PROVE RegTypes' /\ RegStep
    <2>1. SetPoller(p, [poller[p] EXCEPT !.pc = "idle"]) /\ KeepsAll
      BY <1>6 DEF AtCapacity, Stops, KeepsAll
    <2> QED
      BY <1>s, <2>1 DEF RegTypes, RegStep, KeepsAll
  <1>7. ASSUME NEW p \in Pollers, TakeSlot(p) PROVE RegTypes' /\ RegStep
    <2> DEFINE rec == [NoFlow EXCEPT !.pc = "query", !.of = p]
    <2>1. PICK f \in Flows: flow[f].pc = "free" /\ SetFlow(f, rec)
      BY <1>7 DEF TakeSlot
    <2>2. rec \in FlowRecs /\ rec.pc = "query" /\ rec.r = 0
      BY Records DEF FlowRecs, FlowPCs
    <2>3. SetPoller(p, [poller[p] EXCEPT !.pc = "query"]) /\ UNCHANGED <<regs, pool, shared, stranded>>
      BY <1>7 DEF TakeSlot
    <2> HIDE DEF rec
    <2>4. /\ Moves(f, "query", 0) /\ flow' \in [Flows -> FlowRecs]
          /\ \A g \in Flows: flow'[g].r = 0 <=> flow'[g].pc \in {"free", "query"}
      BY <2>1, <2>2, FlowMoves
    <2>5. Shifts(f)
      BY <2>1, <2>3, <2>4 DEF Shifts
    <2> QED
      BY <1>s, <2>3, <2>4, <2>5 DEF RegTypes, RegStep
  <1>8. ASSUME NEW p \in Pollers, NEW f \in Flows, SpawnProcess(f, p) PROVE RegTypes' /\ RegStep
    <2> DEFINE r == NextPending
               rec == [flow[f] EXCEPT !.pc = "mark", !.r = r]
    <2>1. r \in Regs /\ regs[r] = "pending" /\ r # 0
      BY <1>8, NextPendingIsPending, RegsArePositive DEF SpawnProcess, Pending
    <2>2. rec \in FlowRecs /\ rec.pc = "mark" /\ rec.r = r
      BY <1>0, <2>1 DEF FlowRecs, FlowPCs
    <2>3. /\ SetFlow(f, rec) /\ flow[f].pc = "query" /\ SetPoller(p, [poller[p] EXCEPT !.pc = "poll"])
          /\ shared' = IF On(r) # {} THEN shared \cup {r} ELSE shared
          /\ UNCHANGED <<regs, pool, stranded>>
      BY <1>8 DEF SpawnProcess, Queries
    <2> HIDE DEF rec, r
    <2>4. /\ Moves(f, "mark", r) /\ flow' \in [Flows -> FlowRecs]
          /\ \A g \in Flows: flow'[g].r = 0 <=> flow'[g].pc \in {"free", "query"}
      BY <2>1, <2>2, <2>3, FlowMoves
    <2>5. Spawns(f, r)
      BY <2>1, <2>3, <2>4 DEF Spawns
    <2>6. shared' \subseteq Regs
      BY <2>1, <2>3 DEF RegTypes
    <2> QED
      BY <1>s, <2>1, <2>3, <2>4, <2>5, <2>6 DEF RegTypes, RegStep
  <1>n. ASSUME NEW f \in Flows, SetFlow(f, NoFlow)
        PROVE  /\ Moves(f, "free", 0) /\ flow' \in [Flows -> FlowRecs]
               /\ \A g \in Flows: flow'[g].r = 0 <=> flow'[g].pc \in {"free", "query"}
    BY <1>n, FlowMoves, Records
  <1>9. ASSUME NEW p \in Pollers, NEW f \in Flows, NothingPicked(f, p) PROVE RegTypes' /\ RegStep
    <2>1. /\ flow[f].pc = "query" /\ SetFlow(f, NoFlow) /\ SetPoller(p, [poller[p] EXCEPT !.pc = "idle"])
          /\ UNCHANGED <<regs, pool, shared, stranded>>
      BY <1>9 DEF NothingPicked, Queries, Stops
    <2>2. Shifts(f)
      BY <1>n, <2>1 DEF Shifts
    <2> QED
      BY <1>n, <1>s, <2>1, <2>2 DEF RegTypes, RegStep
  \* A flow at work has a row.
  <1>r. ASSUME NEW f \in Flows, flow[f].pc \in {"mark", "drive", "fail", "upsert", "complete"}
        PROVE  flow[f].r \in Regs /\ flow[f].r # 0
    BY <1>0, <1>r DEF RegTypes
  <1>m. ASSUME NEW f \in Flows, NEW q \in {"drive", "fail", "upsert", "complete"}, flow[f].r # 0,
               SetFlow(f, [flow[f] EXCEPT !.pc = q])
        PROVE  /\ Moves(f, q, flow[f].r) /\ flow' \in [Flows -> FlowRecs]
               /\ \A g \in Flows: flow'[g].r = 0 <=> flow'[g].pc \in {"free", "query"}
    <2> DEFINE rec == [flow[f] EXCEPT !.pc = q]
    <2>0. q \in FlowPCs /\ flow[f] \in FlowRecs
      BY <1>0, <1>m DEF FlowPCs
    <2>1. rec \in FlowRecs /\ rec.pc = q /\ rec.r = flow[f].r
      BY <2>0 DEF FlowRecs
    <2> HIDE DEF rec
    <2> QED
      BY <1>m, <2>1, FlowMoves DEF rec
  <1>10. ASSUME NEW f \in Flows, ExecuteMarks(f) PROVE RegTypes' /\ RegStep
    <2>1. /\ flow[f].pc = "mark" /\ SetReg(flow[f].r, "running") /\ SetFlow(f, [flow[f] EXCEPT !.pc = "drive"])
          /\ stranded' = stranded \ {flow[f].r} /\ UNCHANGED <<pool, poller, shared>>
      BY <1>10 DEF ExecuteMarks, MarkRunning
    <2>2. Sets(flow[f].r, "running") /\ regs' \in [Regs -> RowStates]
      BY <1>r, <2>1, RowSets DEF RowStates
    <2>3. Marks(f)
      BY <1>m, <1>r, <2>1, <2>2 DEF Marks
    <2> QED
      BY <1>m, <1>r, <2>1, <2>2, <2>3 DEF RegTypes, RegStep
  <1>11. ASSUME NEW f \in Flows, MarkRunningFails(f) \/ MarkFailedFails(f) \/ MarkCompletedFails(f) PROVE RegTypes' /\ RegStep
    <2>1. /\ flow[f].pc \in {"mark", "fail", "upsert", "complete"} /\ SetFlow(f, NoFlow) /\ Strands(f)
          /\ UNCHANGED <<regs, pool, poller, shared>>
      BY <1>11 DEF MarkRunningFails, MarkFailedFails, MarkCompletedFails, Leaves
    <2>2. GivesUp(f)
      BY <1>n, <2>1 DEF GivesUp
    <2>3. stranded' \subseteq Regs
      BY <1>r, <2>1 DEF Strands, RegTypes
    <2> QED
      BY <1>n, <2>1, <2>2, <2>3 DEF RegTypes, RegStep
  <1>12. ASSUME NEW f \in Flows, DriverAnswers(f) PROVE RegTypes' /\ RegStep
    <2>1. PICK id \in BOOLEAN: SetFlow(f, [flow[f] EXCEPT !.pc = "upsert", !.id = id])
      BY <1>12 DEF DriverAnswers
    <2>2. flow[f].pc = "drive" /\ UNCHANGED <<regs, pool, poller, shared, stranded>>
      BY <1>12 DEF DriverAnswers
    <2> DEFINE rec == [flow[f] EXCEPT !.pc = "upsert", !.id = id]
    <2>3. rec \in FlowRecs /\ rec.pc = "upsert" /\ rec.r = flow[f].r
      BY <1>0 DEF FlowRecs, FlowPCs
    <2>4. SetFlow(f, rec)
      BY <2>1
    <2> HIDE DEF rec
    <2>5. /\ Moves(f, "upsert", flow[f].r) /\ flow' \in [Flows -> FlowRecs]
          /\ \A g \in Flows: flow'[g].r = 0 <=> flow'[g].pc \in {"free", "query"}
      BY <1>r, <2>2, <2>3, <2>4, FlowMoves
    <2>6. Drives(f)
      BY <2>2, <2>5 DEF Drives
    <2> QED
      BY <2>2, <2>5, <2>6 DEF RegTypes, RegStep
  <1>13. ASSUME NEW f \in Flows, DriverFails(f) PROVE RegTypes' /\ RegStep
    <2>1. flow[f].pc = "drive" /\ SetFlow(f, [flow[f] EXCEPT !.pc = "fail"]) /\ UNCHANGED <<regs, pool, poller, shared, stranded>>
      BY <1>13 DEF DriverFails
    <2>2. Drives(f)
      BY <1>m, <1>r, <2>1 DEF Drives
    <2> QED
      BY <1>m, <1>r, <2>1, <2>2 DEF RegTypes, RegStep
  <1>14. ASSUME NEW f \in Flows, ExecuteFails(f) PROVE RegTypes' /\ RegStep
    <2>1. flow[f].pc = "fail" /\ SetReg(flow[f].r, "failed") /\ SetFlow(f, NoFlow) /\ UNCHANGED <<pool, poller, shared, stranded>>
      BY <1>14 DEF ExecuteFails, MarkFailed
    <2>2. Sets(flow[f].r, "failed") /\ regs' \in [Regs -> RowStates]
      BY <1>r, <2>1, RowSets DEF RowStates
    <2>3. Fails(f)
      BY <1>n, <2>1, <2>2 DEF Fails
    <2> QED
      BY <1>n, <2>1, <2>2, <2>3 DEF RegTypes, RegStep
  <1>15. ASSUME NEW f \in Flows, UpsertAccountFromResult(f) PROVE RegTypes' /\ RegStep
    <2>1. /\ flow[f].pc = "upsert" /\ pool' = [pool EXCEPT ![flow[f].r] = "active"]
          /\ SetFlow(f, [flow[f] EXCEPT !.pc = "complete"]) /\ UNCHANGED <<regs, poller, shared, stranded>>
      BY <1>15 DEF UpsertAccountFromResult
    <2>2. /\ pool'[flow[f].r] = "active" /\ \A q \in Regs \ {flow[f].r}: pool'[q] = pool[q]
          /\ pool' \in [Regs -> {"none", "active", "disabled"}]
      BY <1>r, <2>1 DEF RegTypes
    <2>3. Upserts(f)
      BY <1>m, <1>r, <2>1, <2>2 DEF Upserts
    <2> QED
      BY <1>m, <1>r, <2>1, <2>2, <2>3 DEF RegTypes, RegStep
  <1>16. ASSUME NEW f \in Flows, ExecuteCompletes(f) PROVE RegTypes' /\ RegStep
    <2>1. flow[f].pc = "complete" /\ SetReg(flow[f].r, "success") /\ SetFlow(f, NoFlow) /\ UNCHANGED <<pool, poller, shared, stranded>>
      BY <1>16 DEF ExecuteCompletes, MarkCompleted
    <2>2. Sets(flow[f].r, "success") /\ regs' \in [Regs -> RowStates]
      BY <1>r, <2>1, RowSets DEF RowStates
    <2>3. Completes(f)
      BY <1>n, <2>1, <2>2 DEF Completes
    <2> QED
      BY <1>n, <2>1, <2>2, <2>3 DEF RegTypes, RegStep
  <1>17. CASE RegReboot
    <2>1. /\ flow' = [f \in Flows |-> NoFlow] /\ poller' = Ready /\ UNCHANGED <<pool, shared>>
          /\ \/ regs' = ReclaimStaleRunning(regs) /\ stranded' = {}
             \/ regs' = regs /\ stranded' = {r \in Regs: regs[r] = "running"}
      BY <1>17 DEF RegReboot
    <2>2. flow' \in [Flows -> FlowRecs] /\ \A f \in Flows: flow'[f].pc = "free" /\ flow'[f].r = 0
      BY <2>1, Records
    <2>3. poller' \in [Pollers -> PollRecs] /\ \A p \in Pollers: poller'[p].pc = "idle"
      BY <2>1, Records DEF Ready
    <2>4. /\ regs' \in [Regs -> RowStates] /\ stranded' \subseteq Regs
          /\ \A r \in Regs: regs'[r] = regs[r] \/ (regs[r] = "running" /\ regs'[r] = "pending")
          /\ \A r \in Regs: regs'[r] = "running" => r \in stranded'
      BY <2>1 DEF RegTypes, ReclaimStaleRunning, ResetToPending, RowStates
    <2>5. Reboots
      BY <2>1, <2>2, <2>4 DEF Reboots
    <2> QED
      BY <2>1, <2>2, <2>3, <2>4, <2>5 DEF RegTypes, RegStep
  <1>18. CASE ChildDies
    BY <1>18 DEF ChildDies, RegTypes, RegStep, KeepsAll
  <1>19. ASSUME NEW r \in Regs, OperatorDisables(r) PROVE RegTypes' /\ RegStep
    <2>1. /\ pool[r] = "active" /\ pool' = [pool EXCEPT ![r] = "disabled"] /\ UNCHANGED <<regs, poller, flow, shared, stranded>>
      BY <1>19 DEF OperatorDisables
    <2>2. pool' \in [Regs -> {"none", "active", "disabled"}] /\ Disables(r)
      BY <2>1 DEF RegTypes, Disables
    <2> QED
      BY <2>1, <2>2 DEF RegTypes, RegStep
  <1> QED
    BY <1>1, <1>2, <1>3, <1>4, <1>5, <1>6, <1>7, <1>8, <1>9, <1>10, <1>11, <1>12, <1>13, <1>14, <1>15, <1>16, <1>17, <1>18, <1>19
       DEF RegNext, PollStep, FlowStep
----------------------------------------------------------------------------
(* The rows *)

\* The account goes in before the registration is closed.
AccountInv ==
    /\ SuccessHasAccount
    /\ \A f \in Flows: flow[f].pc = "complete" => pool[flow[f].r] # "none"

\* A row that was never shared has one flow at most, and says where it is.
SharedInv ==
    \A r \in Regs \ shared: \A f \in Flows: flow[f].r = r =>
        /\ \A g \in Flows: flow[g].r = r => f = g
        /\ regs[r] = IF flow[f].pc = "mark" THEN "pending" ELSE "running"

LEMMA AccountInvNext == ASSUME RegTypes, AccountInv, RegStep PROVE AccountInv'
  <1> USE DEF RegTypes, AccountInv, SuccessHasAccount
  <1>1. CASE KeepsAll
    BY <1>1 DEF KeepsAll
  <1>2. CASE Reboots
    BY <1>2 DEF Reboots
  <1>3. ASSUME NEW r \in Regs, Inserts(r) \/ Resets(r) PROVE AccountInv'
    BY <1>3 DEF Inserts, Resets, Sets
  <1>4. ASSUME NEW r \in Regs, Disables(r) PROVE AccountInv'
    <2>1. \A q \in Regs: pool[q] # "none" => pool'[q] # "none"
      BY <1>4 DEF Disables
    <2>2. \A g \in Flows: flow[g].pc = "complete" => flow[g].r \in Regs
      BY DEF FlowRecs
    <2>3. UNCHANGED <<regs, flow>>
      BY <1>4 DEF Disables
    <2> QED
      BY <2>1, <2>2, <2>3
  <1>5. ASSUME NEW r \in Regs, NEW f \in Flows, Spawns(f, r) PROVE AccountInv'
    BY <1>5 DEF Spawns, Moves
  <1>6. ASSUME NEW f \in Flows, Shifts(f) \/ Drives(f) \/ GivesUp(f) PROVE AccountInv'
    BY <1>6 DEF Shifts, Drives, GivesUp, Moves
  <1>7. ASSUME NEW f \in Flows, Marks(f) \/ Fails(f) PROVE AccountInv'
    BY <1>7 DEF Marks, Fails, Moves, Sets
  <1>8. ASSUME NEW f \in Flows, Upserts(f) PROVE AccountInv'
    <2>1. \A r \in Regs: pool[r] # "none" => pool'[r] # "none"
      BY <1>8 DEF Upserts
    <2>2. \A g \in Flows: flow[g].pc = "complete" => flow[g].r \in Regs
      BY DEF FlowRecs
    <2> QED
      BY <1>8, <2>1, <2>2 DEF Upserts, Moves
  <1>9. ASSUME NEW f \in Flows, Completes(f) PROVE AccountInv'
    <2>1. pool[flow[f].r] # "none" /\ flow'[f].pc = "free" /\ UNCHANGED pool
      BY <1>9 DEF Completes, Moves
    <2>2. \A g \in Flows: flow'[g].pc = "complete" => flow'[g] = flow[g]
      BY <1>9, <2>1 DEF Completes, Moves
    <2>3. \A q \in Regs: regs'[q] = "success" => q = flow[f].r \/ regs[q] = "success"
      BY <1>9 DEF Completes, Sets
    <2> QED
      BY <2>1, <2>2, <2>3
  <1> QED
    BY <1>1, <1>2, <1>3, <1>4, <1>5, <1>6, <1>7, <1>8, <1>9 DEF RegStep

LEMMA OrphansNext == ASSUME RegTypes, OrphansExplained, RegStep PROVE OrphansExplained'
  <1> USE RegsArePositive DEF OrphansExplained, On
  <1>1. CASE KeepsAll
    BY <1>1 DEF KeepsAll
  <1>2. CASE Reboots
    BY <1>2 DEF Reboots
  <1>3. ASSUME NEW r \in Regs, Inserts(r) \/ Resets(r) \/ Disables(r) PROVE OrphansExplained'
    BY <1>3 DEF Inserts, Resets, Disables, Sets
  <1>5. ASSUME NEW r \in Regs, NEW f \in Flows, Spawns(f, r) PROVE OrphansExplained'
    <2>1. flow[f].r = 0 /\ \A g \in Flows \ {f}: flow'[g] = flow[g]
      BY <1>5 DEF Spawns, Moves, RegTypes
    <2>2. ASSUME NEW q \in Regs PROVE On(q) \subseteq On(q)'
      BY <2>1
    <2> QED
      BY <1>5, <2>2 DEF Spawns
  <1>6. ASSUME NEW f \in Flows, Shifts(f) PROVE OrphansExplained'
    <2>1. flow[f].r = 0 /\ flow'[f].r = 0 /\ \A g \in Flows \ {f}: flow'[g] = flow[g]
      BY <1>6 DEF Shifts, Moves, RegTypes
    <2>2. ASSUME NEW r \in Regs PROVE On(r)' = On(r)
      BY <2>1
    <2> QED
      BY <1>6, <2>2 DEF Shifts
  <1>7. ASSUME NEW f \in Flows, Drives(f) \/ Upserts(f) PROVE OrphansExplained'
    <2>1. UNCHANGED <<regs, stranded>> /\ flow'[f].r = flow[f].r /\ \A g \in Flows \ {f}: flow'[g] = flow[g]
      BY <1>7 DEF Drives, Upserts, Moves
    <2>2. ASSUME NEW r \in Regs PROVE On(r)' = On(r)
      BY <2>1
    <2> QED
      BY <2>1, <2>2
  <1>8. ASSUME NEW f \in Flows, Marks(f) PROVE OrphansExplained'
    <2>1. flow'[f].r = flow[f].r /\ \A g \in Flows \ {f}: flow'[g] = flow[g]
      BY <1>8 DEF Marks, Moves
    <2>2. ASSUME NEW r \in Regs PROVE On(r)' = On(r)
      BY <2>1
    <2>3. \A r \in Regs: regs'[r] = "running" /\ On(r) = {} =>
            r # flow[f].r /\ regs[r] = "running" /\ (r \in stranded => r \in stranded')
      BY <1>8 DEF Marks, Sets
    <2> QED
      BY <2>2, <2>3
  <1>9. ASSUME NEW f \in Flows, GivesUp(f) PROVE OrphansExplained'
    <2> SUFFICES ASSUME NEW r \in Regs, regs'[r] = "running", On(r)' = {} PROVE r \in stranded'
      OBVIOUS
    <2>1. \A g \in Flows \ {f}: flow[g].r # r
      BY <1>9 DEF GivesUp, Moves
    <2>2. regs[r] = "running" /\ stranded \subseteq stranded'
      BY <1>9 DEF GivesUp, Strands
    <2>3. CASE flow[f].r = r
      <3>1. On(r) = {f}
        BY <2>1, <2>3
      <3> QED
        BY <1>9, <2>2, <2>3, <3>1 DEF GivesUp, Strands
    <2>4. CASE flow[f].r # r
      BY <2>1, <2>2, <2>4
    <2> QED
      BY <2>3, <2>4
  <1>10. ASSUME NEW f \in Flows, Fails(f) \/ Completes(f) PROVE OrphansExplained'
    BY <1>10 DEF Fails, Completes, Moves, Sets
  <1> QED
    BY <1>1, <1>2, <1>3, <1>5, <1>6, <1>7, <1>8, <1>9, <1>10 DEF RegStep

LEMMA SharedInvNext == ASSUME RegTypes, SharedInv, RegStep PROVE SharedInv'
  <1> USE RegsArePositive DEF SharedInv, On
  <1>1. CASE KeepsAll
    BY <1>1 DEF KeepsAll
  <1>2. CASE Reboots
    BY <1>2 DEF Reboots
  <1>3. ASSUME NEW r \in Regs, Inserts(r) PROVE SharedInv'
    BY <1>3 DEF Inserts, Sets
  <1>4. ASSUME NEW r \in Regs, Resets(r) PROVE SharedInv'
    BY <1>4 DEF Resets, Sets
  <1>5. ASSUME NEW r \in Regs, Disables(r) PROVE SharedInv'
    <2>1. UNCHANGED <<regs, flow, shared>>
      BY <1>5 DEF Disables
    <2> QED
      BY <2>1
  <1>6. ASSUME NEW r \in Regs, NEW f \in Flows, Spawns(f, r) PROVE SharedInv'
    <2>1. flow[f].r = 0 /\ r # 0
      BY <1>6 DEF Spawns, RegTypes
    <2> QED
      BY <1>6, <2>1 DEF Spawns, Moves
  <1>7. ASSUME NEW f \in Flows, Shifts(f) PROVE SharedInv'
    <2>1. flow'[f].r = 0 /\ (\A g \in Flows \ {f}: flow'[g] = flow[g]) /\ UNCHANGED <<regs, shared>>
      BY <1>7 DEF Shifts, Moves
    <2>2. ASSUME NEW r \in Regs \ shared, NEW g \in Flows, flow'[g].r = r
          PROVE  /\ \A h \in Flows: flow'[h].r = r => g = h
                 /\ regs'[r] = IF flow'[g].pc = "mark" THEN "pending" ELSE "running"
      <3>1. g # f /\ flow'[g] = flow[g] /\ flow[g].r = r /\ r \notin shared
        BY <2>1, <2>2
      <3>2. /\ \A h \in Flows: flow[h].r = r => g = h
            /\ regs[r] = IF flow[g].pc = "mark" THEN "pending" ELSE "running"
        BY <3>1
      <3>3. \A h \in Flows: flow'[h].r = r => flow[h].r = r
        BY <2>1
      <3> QED
        BY <2>1, <3>1, <3>2, <3>3
    <2> QED
      BY <2>1, <2>2
  <1>8. ASSUME NEW f \in Flows, Drives(f) \/ Upserts(f) PROVE SharedInv'
    BY <1>8 DEF Drives, Upserts, Moves
  <1>9. ASSUME NEW f \in Flows, Marks(f) PROVE SharedInv'
    <2>1. /\ flow'[f].r = flow[f].r /\ flow'[f].pc = "drive" /\ (\A g \in Flows \ {f}: flow'[g] = flow[g])
          /\ UNCHANGED shared
      BY <1>9 DEF Marks, Moves
    <2>2. regs'[flow[f].r] = "running" /\ \A q \in Regs \ {flow[f].r}: regs'[q] = regs[q]
      BY <1>9 DEF Marks, Sets
    <2>3. ASSUME NEW r \in Regs \ shared, NEW g \in Flows, flow'[g].r = r
          PROVE  /\ \A h \in Flows: flow'[h].r = r => g = h
                 /\ regs'[r] = IF flow'[g].pc = "mark" THEN "pending" ELSE "running"
      <3>1. flow[g].r = r /\ r \notin shared /\ \A h \in Flows: flow'[h].r = flow[h].r
        BY <2>1, <2>3
      <3>2. \A h \in Flows: flow'[h].r = r => g = h
        BY <3>1
      <3>3. CASE g = f
        BY <2>1, <2>2, <3>1, <3>3
      <3>4. CASE g # f
        <4>1. flow[f].r # r
          BY <3>1, <3>4
        <4> QED
          BY <2>1, <2>2, <3>1, <3>4, <4>1
      <3> QED
        BY <3>2, <3>3, <3>4
    <2> QED
      BY <2>1, <2>3
  <1>10. ASSUME NEW f \in Flows, GivesUp(f) PROVE SharedInv'
    <2>1. flow'[f].r = 0 /\ (\A g \in Flows \ {f}: flow'[g] = flow[g]) /\ UNCHANGED <<regs, shared>>
      BY <1>10 DEF GivesUp, Moves
    <2>2. ASSUME NEW r \in Regs \ shared, NEW g \in Flows, flow'[g].r = r
          PROVE  /\ \A h \in Flows: flow'[h].r = r => g = h
                 /\ regs'[r] = IF flow'[g].pc = "mark" THEN "pending" ELSE "running"
      <3>1. g # f /\ flow'[g] = flow[g] /\ flow[g].r = r /\ r \notin shared
        BY <2>1, <2>2
      <3>2. /\ \A h \in Flows: flow[h].r = r => g = h
            /\ regs[r] = IF flow[g].pc = "mark" THEN "pending" ELSE "running"
        BY <3>1
      <3>3. \A h \in Flows: flow'[h].r = r => flow[h].r = r
        BY <2>1
      <3> QED
        BY <2>1, <3>1, <3>2, <3>3
    <2> QED
      BY <2>1, <2>2
  <1>11. ASSUME NEW f \in Flows, Fails(f) \/ Completes(f) PROVE SharedInv'
    <2>0. flow'[f].r = 0 /\ shared' = shared /\ \A g \in Flows \ {f}: flow'[g] = flow[g]
      BY <1>11 DEF Fails, Completes, Moves
    <2>1. \A q \in Regs \ {flow[f].r}: regs'[q] = regs[q]
      BY <1>11 DEF Fails, Completes, Sets
    <2> SUFFICES ASSUME NEW r \in Regs \ shared, NEW g \in Flows, flow'[g].r = r
                 PROVE  /\ \A h \in Flows: flow'[h].r = r => g = h
                        /\ regs'[r] = IF flow'[g].pc = "mark" THEN "pending" ELSE "running"
      BY <2>0
    <2>2. g # f /\ flow'[g] = flow[g] /\ flow[g].r = r /\ r \notin shared
      BY <2>0
    <2>3. \A h \in Flows: flow[h].r = r => g = h
      BY <2>2
    <2>4. regs[r] = IF flow[g].pc = "mark" THEN "pending" ELSE "running"
      BY <2>2
    <2>5. \A h \in Flows: flow'[h].r = r => flow[h].r = r
      BY <2>0
    <2>6. flow[f].r # r
      BY <2>2, <2>3
    <2> QED
      BY <2>1, <2>2, <2>3, <2>4, <2>5, <2>6
  <1> QED
    BY <1>1, <1>2, <1>3, <1>4, <1>5, <1>6, <1>7, <1>8, <1>9, <1>10, <1>11 DEF RegStep

\* The step that takes a success back, or its account out of the operator's hands.
LEMMA SuccessStep ==
  ASSUME RegTypes, SharedInv, RegStep, NEW r \in Regs, regs[r] = "success",
         regs'[r] # "success" \/ (pool[r] = "disabled" /\ pool'[r] = "active")
  PROVE  r \in shared'
  <1>0. \A f \in Flows: flow[f].r = r => r \in shared
    BY DEF SharedInv, On
  <1>1. CASE KeepsAll \/ Reboots
    BY <1>1 DEF KeepsAll, Reboots
  <1>2. ASSUME NEW q \in Regs, Inserts(q) \/ Resets(q) \/ Disables(q) PROVE r \in shared'
    BY <1>2 DEF Inserts, Resets, Disables, Sets
  <1>3. ASSUME NEW q \in Regs, NEW f \in Flows, Spawns(f, q) PROVE r \in shared'
    BY <1>3 DEF Spawns
  <1>4. ASSUME NEW f \in Flows, Shifts(f) \/ Drives(f) \/ GivesUp(f) PROVE r \in shared'
    BY <1>4 DEF Shifts, Drives, GivesUp
  <1>5. ASSUME NEW f \in Flows, Marks(f) \/ Fails(f) \/ Completes(f) PROVE r \in shared'
    BY <1>0, <1>5 DEF Marks, Fails, Completes, Sets
  <1>6. ASSUME NEW f \in Flows, Upserts(f) PROVE r \in shared'
    BY <1>0, <1>6 DEF Upserts
  <1> QED
    BY <1>1, <1>2, <1>3, <1>4, <1>5, <1>6 DEF RegStep
----------------------------------------------------------------------------
(* The claimer *)

\* The gifts still to be claimed are distinct and untried; in the second half
\* of a pass every activation that was tried is in the code's `seen`.
ClaimInv ==
    /\ claimed \subseteq GiftIds \cup GrantIds /\ done \subseteq GrantIds /\ cpc \in {"idle", "gifts", "acts"}
    /\ tried \in [GiftIds \cup GrantIds -> 0..1]
    /\ cpc = "gifts" => /\ todo \in Seq(GiftIds) /\ \A x \in GrantIds: tried[x] = 0
                        /\ \A i, j \in 1..Len(todo): todo[i] = todo[j] => i = j
                        /\ \A i \in 1..Len(todo): tried[todo[i]] = 0
    /\ cpc = "acts" => \A x \in GrantIds \ done: tried[x] = 0

\* SetToSeq lists a finite set without repetition.
LEMMA Listing ==
  ASSUME NEW S, IsFiniteSet(S)
  PROVE  /\ SetToSeq(S) \in Seq(S)
         /\ \A i, j \in 1..Len(SetToSeq(S)): SetToSeq(S)[i] = SetToSeq(S)[j] => i = j
  <1>1. Cardinality(S) \in Nat /\ ExistsBijection(1..Cardinality(S), S)
    BY FS_CardinalityType
  <1>2. PICK f \in [1..Cardinality(S) -> S]: IsInjective(f)
    BY <1>1 DEF ExistsBijection, Bijection, Injection, IsInjective
  <1>3. SetToSeq(S) \in [1..Cardinality(S) -> S] /\ IsInjective(SetToSeq(S))
    BY <1>2 DEF SetToSeq
  <1> HIDE DEF SetToSeq
  <1>4. SetToSeq(S) \in Seq(S) /\ Len(SetToSeq(S)) = Cardinality(S)
    BY <1>1, <1>3
  <1> QED
    BY <1>1, <1>3, <1>4 DEF IsInjective

LEMMA ClaimInvNext == ASSUME ClaimInv, ClaimNext PROVE ClaimInv'
  <1> USE ClaimerAssumption DEF ClaimInv
  <1>1. CASE FetchGiftList
    <2>1. IsFiniteSet(GiftIds \ claimed)
      BY FS_Subset
    <2>2. todo' = SetToSeq(GiftIds \ claimed) /\ cpc' = "gifts" /\ done' = {} /\ UNCHANGED claimed
          /\ tried' = [x \in GiftIds \cup GrantIds |-> 0]
      BY <1>1 DEF FetchGiftList
    <2>3. todo' \in Seq(GiftIds \ claimed) /\ \A i, j \in 1..Len(todo'): todo'[i] = todo'[j] => i = j
      <3>1. /\ SetToSeq(GiftIds \ claimed) \in Seq(GiftIds \ claimed)
            /\ \A i, j \in 1..Len(SetToSeq(GiftIds \ claimed)):
                  SetToSeq(GiftIds \ claimed)[i] = SetToSeq(GiftIds \ claimed)[j] => i = j
        BY ONLY <2>1, Listing
      <3> QED
        BY ONLY <2>2, <3>1
    <2>4. todo' \in Seq(GiftIds) /\ \A i \in 1..Len(todo'): todo'[i] \in GiftIds
      <3>1. todo' \in Seq(GiftIds \ claimed) => todo' \in [1..Len(todo') -> GiftIds \ claimed] /\ Len(todo') \in Nat
        OBVIOUS
      <3>2. todo' \in [1..Len(todo') -> GiftIds] /\ Len(todo') \in Nat
        BY <2>3, <3>1
      <3> QED
        BY <3>2
    <2>5. claimed' \subseteq GiftIds \cup GrantIds /\ done' \subseteq GrantIds
      BY <2>2
    <2>6. tried' \in [GiftIds \cup GrantIds -> 0..1] /\ \A x \in GiftIds \cup GrantIds: tried'[x] = 0
      BY <2>2
    <2> HIDE DEF ClaimInv
    <2>7. \A i \in 1..Len(todo'): tried'[todo'[i]] = 0
      BY <2>4, <2>6
    <2> QED
      BY <2>2, <2>3, <2>4, <2>5, <2>6, <2>7 DEF ClaimInv
  <1>2. CASE FetchGiftListFails
    BY <1>2 DEF FetchGiftListFails
  <1>3. ASSUME NEW g \in GiftIds, ClaimGiftOk(g) \/ ClaimGiftFails(g) PROVE ClaimInv'
    <2>1. /\ cpc = "gifts" /\ todo # <<>> /\ g = Head(todo) /\ todo' = Tail(todo)
          /\ tried' = [tried EXCEPT ![g] = @ + 1] /\ UNCHANGED <<cpc, done>> /\ claimed' \subseteq claimed \cup {g}
      BY <1>3 DEF ClaimGiftOk, ClaimGiftFails, Tries
    <2>2. todo \in Seq(GiftIds) /\ 1 \in 1..Len(todo) /\ g = todo[1] /\ tried[g] = 0
      BY <2>1
    <2>3. /\ todo' \in Seq(GiftIds) /\ Len(todo') = Len(todo) - 1
          /\ \A i \in 1..Len(todo'): todo'[i] = todo[i + 1] /\ i + 1 \in 1..Len(todo)
      BY <2>1, <2>2
    <2>4. \A i \in 1..Len(todo'): todo'[i] # g /\ todo'[i] \in GiftIds
      BY <2>1, <2>2, <2>3
    <2>5. tried' \in [GiftIds \cup GrantIds -> 0..1] /\ \A x \in (GiftIds \cup GrantIds) \ {g}: tried'[x] = tried[x]
      BY <2>1, <2>2
    <2>6. \A i \in 1..Len(todo'): tried'[todo'[i]] = 0
      <3>1. \A k \in 1..Len(todo): tried[todo[k]] = 0
        BY <2>1
      <3> QED
        BY <2>3, <2>4, <2>5, <3>1
    <2>7. \A i, j \in 1..Len(todo'): todo'[i] = todo'[j] => i = j
      <3>1. \A k, l \in 1..Len(todo): todo[k] = todo[l] => k = l
        BY <2>1
      <3>2. ASSUME NEW i \in 1..Len(todo'), NEW j \in 1..Len(todo'), todo'[i] = todo'[j] PROVE i = j
        <4>1. i + 1 = j + 1
          BY <2>3, <3>1, <3>2
        <4> QED
          BY <4>1
      <3> QED
        BY <3>2
    <2>8. claimed' \subseteq GiftIds \cup GrantIds /\ \A x \in GrantIds: tried'[x] = 0
      BY <2>1, <2>5
    <2> QED
      BY <2>1, <2>3, <2>5, <2>6, <2>7, <2>8
  <1>4. CASE FetchActs
    BY <1>4 DEF FetchActs
  <1>5. CASE FetchActsFails \/ ActSkipped \/ ClaimPassEnds
    BY <1>5 DEF FetchActsFails, ActSkipped, ClaimPassEnds
  <1>6. ASSUME NEW x \in GrantIds, ClaimActOk(x) \/ ClaimActFails(x) PROVE ClaimInv'
    <2>1. /\ cpc = "acts" /\ x \notin done /\ done' = done \cup {x} /\ UNCHANGED cpc
          /\ tried' = [tried EXCEPT ![x] = @ + 1] /\ claimed' \subseteq claimed \cup {x}
      BY <1>6 DEF ClaimActOk, ClaimActFails, Tries, NotYet
    <2>2. tried[x] = 0
      BY <2>1
    <2>3. tried' \in [GiftIds \cup GrantIds -> 0..1] /\ \A y \in (GiftIds \cup GrantIds) \ {x}: tried'[y] = tried[y]
      BY <2>1, <2>2
    <2> QED
      BY <2>1, <2>3
  <1>7. CASE SubscriptionChanges
    BY <1>7 DEF SubscriptionChanges
  <1>8. ASSUME NEW x \in GiftIds \cup GrantIds, ClaimedElsewhere(x) PROVE ClaimInv'
    BY <1>8 DEF ClaimedElsewhere
  <1> QED
    BY <1>1, <1>2, <1>3, <1>4, <1>5, <1>6, <1>7, <1>8 DEF ClaimNext, ClaimStep
----------------------------------------------------------------------------
(* The theorems *)

SupplyInv == RegTypes /\ AccountInv /\ OrphansExplained /\ SharedInv /\ ClaimInv

LEMMA SupplyInvInit == Init => SupplyInv
  <1> SUFFICES ASSUME Init PROVE SupplyInv
    OBVIOUS
  <1>1. RegTypes
    <2>1. flow \in [Flows -> FlowRecs] /\ \A f \in Flows: flow[f].pc = "free" /\ flow[f].r = 0
      BY Records DEF Init, RegInit
    <2>2. poller \in [Pollers -> PollRecs] /\ \A p \in Pollers: poller[p].pc = "idle"
      BY Records DEF Init, RegInit, Ready
    <2> QED
      BY <2>1, <2>2 DEF Init, RegInit, RegTypes, RowStates
  <1>2. \A f \in Flows: flow[f].pc = "free" /\ flow[f].r = 0
    BY Records DEF Init, RegInit
  <1>3. AccountInv /\ OrphansExplained /\ SharedInv
    BY <1>2, RegsArePositive DEF Init, RegInit, AccountInv, SuccessHasAccount, OrphansExplained, SharedInv, On
  <1>4. ClaimInv
    BY DEF Init, ClaimInit, ClaimInv
  <1> QED
    BY <1>1, <1>3, <1>4 DEF SupplyInv

LEMMA SupplyInvNext == SupplyInv /\ [Next]_vars => SupplyInv'
  <1> SUFFICES ASSUME SupplyInv, [Next]_vars PROVE SupplyInv'
    OBVIOUS
  <1>1. RegTypes' /\ AccountInv' /\ OrphansExplained' /\ SharedInv'
    <2>1. CASE RegNext
      BY <2>1, RegStepOf, AccountInvNext, OrphansNext, SharedInvNext DEF SupplyInv
    <2>2. CASE UNCHANGED regVars
      <3>1. KeepsAll /\ RegTypes'
        BY <2>2 DEF SupplyInv, RegTypes, KeepsAll, regVars
      <3> QED
        BY <3>1, AccountInvNext, OrphansNext, SharedInvNext DEF SupplyInv, RegStep
    <2> QED
      BY <2>1, <2>2 DEF Next, Registering, Claiming, vars
  <1>2. ClaimInv'
    <2>1. CASE UNCHANGED claimVars
      BY <2>1 DEF SupplyInv, ClaimInv, claimVars
    <2> QED
      BY <2>1, ClaimInvNext DEF SupplyInv, Next, Registering, Claiming, vars
  <1> QED
    BY <1>1, <1>2 DEF SupplyInv

THEOREM SupplyInvariant == Spec => []SupplyInv
  BY SupplyInvInit, SupplyInvNext, PTL DEF Spec

\* plugins/register, registration_store.go and internal/core/claimer: whatever
\* crashes, fails or is triggered twice, a successful registration has its
\* account, a running row without a flow is one its flow could not close, and a
\* pass of the claimer sends one call per gift and per activation.
THEOREM SupplyAlwaysExplained == Spec => []SupplyExplained
  <1>1. SupplyInv => SupplyExplained
    <2> SUFFICES ASSUME SupplyInv PROVE SupplyExplained
      OBVIOUS
    <2>1. RegTypeOK
      BY DEF SupplyInv, RegTypes, RegTypeOK, RowStates
    <2>2. TriedOncePerPass
      BY DEF SupplyInv, ClaimInv, TriedOncePerPass
    <2> QED
      BY <2>1, <2>2 DEF SupplyInv, ClaimInv, AccountInv, SupplyExplained, SupplyTypeOK
  <1> QED
    BY <1>1, SupplyInvariant, PTL

\* The registrations table under concurrent polls, retries and reboots: a
\* success is taken back, or an account the operator disabled put back into the
\* pool, only for a row two flows had at once or a stale retry reset.
THEOREM SuccessAlwaysKept == Spec => SuccessKept
  <1>1. SupplyInv /\ [Next]_vars =>
          [\A r \in Regs:
             regs[r] = "success" /\ (regs'[r] # "success" \/ (pool[r] = "disabled" /\ pool'[r] = "active"))
                 => r \in shared']_regVars
    <2> SUFFICES ASSUME SupplyInv, RegNext, NEW r \in Regs, regs[r] = "success",
                        regs'[r] # "success" \/ (pool[r] = "disabled" /\ pool'[r] = "active")
                 PROVE  r \in shared'
      BY DEF Next, Registering, Claiming, vars
    <2> QED
      BY RegStepOf, SuccessStep DEF SupplyInv
  <1> QED
    BY <1>1, SupplyInvariant, PTL DEF Spec, SuccessKept
============================================================================

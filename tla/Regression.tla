---------------------------- MODULE Regression ----------------------------
(* internal/core/regression and the model_health table: the ticker and the *)
(* admin trigger each probe the image models whose last recorded probe is  *)
(* oldest, a few per pass.                                                 *)
EXTENDS Integers, Sequences, FiniteSetsExt, SequencesExt

CONSTANTS
    Models,          \* the registry's list, in the order of their JST
    ImageModels,     \* those isImageModel accepts
    SampleSize, Concurrency,
    Probers,         \* the ticker's loop and the admin trigger
    MaxProbes, MaxLost   \* bounds

ASSUME RegressionAssumption ==
    /\ Models \in Seq(Range(Models)) /\ ImageModels \subseteq Range(Models) /\ IsFiniteSet(ImageModels)
    /\ SampleSize \in Nat \ {0} /\ Concurrency \in Nat \ {0} /\ MaxProbes \in Nat /\ MaxLost \in Nat

VARIABLES
    health,      \* model -> checked_at of its newest row, 0 for none
    probing,     \* pass -> the candidates it still has to record
    begun,       \* pass -> when it started each of them, 0 for not yet
    stamp,       \* probes started so far: the clock
    missed,      \* model -> ticks since one last picked it (history)
    slack        \* failed reads and writes, and passes that overlapped (history)

NotBegun == [m \in Range(Models) |-> 0]

regressVars == <<health, probing, begun, stamp, missed, slack>>

RegressInit ==
    /\ health = [m \in Range(Models) |-> 0]
    /\ probing = [p \in Probers |-> {}] /\ begun = [p \in Probers |-> NotBegun]
    /\ stamp = 0 /\ missed = [m \in Range(Models) |-> 0] /\ slack = 0

Position(m) == CHOOSE i \in DOMAIN Models: Models[i] = m

\* Never probed first, then the longest ago, then by JST.
NewestFirst(latest, m, n) == latest[m] > latest[n] \/ (latest[m] = latest[n] /\ Position(m) < Position(n))
Before(latest, m, n) == latest[m] < latest[n] \/ (latest[m] = latest[n] /\ Position(m) < Position(n))

IsImageModel(m) == m \in ImageModels

\* pickCandidates, given what Latest answered for each model.
PickCandidates(latest) ==
    LET filtered == {m \in Range(Models): IsImageModel(m)}
    IN  {m \in filtered: Cardinality({n \in filtered: n # m /\ Before(latest, n, m)}) < SampleSize}

\* A failed Latest makes a model look as if it had never been probed.
Lookups(lost) == [m \in Range(Models) |-> IF m \in lost THEN 0 ELSE health[m]]

RegressTick(p) ==
    /\ probing[p] = {} /\ stamp < MaxProbes
    /\ \E lost \in SUBSET ImageModels:
        /\ slack + Cardinality(lost) <= MaxLost
        /\ probing' = [probing EXCEPT ![p] = PickCandidates(Lookups(lost))]
        /\ slack' = slack + Cardinality(lost)
                    + (IF \E q \in Probers: probing[q] # {} THEN 1 ELSE 0)
    /\ missed' = [m \in Range(Models) |-> IF m \in probing'[p] THEN 0 ELSE missed[m] + 1]
    /\ begun' = [begun EXCEPT ![p] = NotBegun]
    /\ UNCHANGED <<health, stamp>>

InFlight(p) == {m \in probing[p]: begun[p][m] # 0}

\* The semaphore lets Concurrency probes of a pass run at once.
ProbeStarts(p, m) ==
    /\ m \in probing[p] \ InFlight(p) /\ Cardinality(InFlight(p)) < Concurrency
    /\ stamp < MaxProbes /\ stamp' = stamp + 1
    /\ begun' = [begun EXCEPT ![p][m] = stamp + 1]
    /\ UNCHANGED <<health, probing, missed, slack>>

\* A probe ends, whatever its verdict, and Insert records it under the time
\* it was started at.
ProbeRecorded(p, m) ==
    /\ m \in InFlight(p)
    /\ probing' = [probing EXCEPT ![p] = @ \ {m}]
    /\ health' = [health EXCEPT ![m] = Max({@, begun[p][m]})]
    /\ UNCHANGED <<begun, stamp, missed, slack>>
\* The Insert fails: the trigger's thirty seconds are over, or the database.
InsertFails(p, m) ==
    /\ m \in InFlight(p) /\ slack < MaxLost
    /\ probing' = [probing EXCEPT ![p] = @ \ {m}]
    /\ slack' = slack + 1
    /\ UNCHANGED <<health, begun, stamp, missed>>

RegressNext ==
    \E p \in Probers:
        \/ RegressTick(p)
        \/ \E m \in Range(Models): ProbeStarts(p, m) \/ ProbeRecorded(p, m) \/ InsertFails(p, m)

\* regression.go: the sample rotates through the whole image catalogue.  A
\* model is picked again within as many ticks as it takes to go round once;
\* each failed read or write and each overlapping pass costs one tick at most.
SampleRotates ==
    LET rounds == (Cardinality(ImageModels) + SampleSize - 1) \div SampleSize
    IN  \A m \in ImageModels: missed[m] < rounds + slack
=============================================================================

---------------------------- MODULE UsageLedger ----------------------------
(***************************************************************************)
(* What accounting promises, whatever the order in which requests, the     *)
(* pollworker and restarts run: a job gets at most one usage event, and    *)
(* the spending counters move one event at a time, never ahead of them.    *)
(***************************************************************************)
EXTENDS Integers, FiniteSets

CONSTANT Jobs

VARIABLES
    billed,     \* jobs with a usage event
    keyUsed,    \* events charged to the API key
    groupUsed   \* events charged to the group

ledgerVars == <<billed, keyUsed, groupUsed>>

LedgerInit == billed = {} /\ keyUsed = 0 /\ groupUsed = 0

\* The usage event of one job is inserted, once.
RecordUsage(j) ==
    /\ j \notin billed
    /\ billed' = billed \union {j}
    /\ UNCHANGED <<keyUsed, groupUsed>>

\* An event is charged to the key, and to the group.
ChargeKey ==
    /\ keyUsed < Cardinality(billed)
    /\ keyUsed' = keyUsed + 1
    /\ UNCHANGED <<billed, groupUsed>>

ChargeGroup ==
    /\ groupUsed < Cardinality(billed)
    /\ groupUsed' = groupUsed + 1
    /\ UNCHANGED <<billed, keyUsed>>

LedgerNext == (\E j \in Jobs : RecordUsage(j)) \/ ChargeKey \/ ChargeGroup

LedgerSpec == LedgerInit /\ [][LedgerNext]_ledgerVars
=============================================================================

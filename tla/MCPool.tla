------------------------------- MODULE MCPool -------------------------------
(* A group with a cap, a budget and a pattern, sharing an account with an  *)
(* uncapped one; a key that spills from the first into the second and one  *)
(* on the global pool.                                                     *)
EXTENDS Pool, TLC

CONSTANTS a1, a2, g1, g2, k1, k2, m1, m2, r1, r2

TheAccounts ==
    a1 :> [plan |-> "pro", hasUnlim |-> FALSE, maxConcurrent |-> 2, balance |-> 3]
    @@ a2 :> [plan |-> "ultra", hasUnlim |-> TRUE, maxConcurrent |-> 1, balance |-> 1]

TheGroups ==
    g1 :> [members |-> {a1}, cap |-> 1, accountCap |-> 0, budget |-> 1, refused |-> {m2}]
    @@ g2 :> [members |-> {a1, a2}, cap |-> 2, accountCap |-> 2, budget |-> 0, refused |-> {}]

TheKeys ==
    k1 :> [quota |-> 1, groups |-> <<g1, g2>>]
    @@ k2 :> [quota |-> 1, groups |-> <<NoGroup>>]

ThePluginCalls == {<<k2, m1, NoGroup>>}

TheModels ==
    m1 :> [cost |-> 1, minPlan |-> "starter", paid |-> TRUE, ultra |-> FALSE, unlim |-> FALSE]
    @@ m2 :> [cost |-> 2, minPlan |-> "free", paid |-> FALSE, ultra |-> TRUE, unlim |-> TRUE]

TheSettings == [stored |-> TRUE, headroomPct |-> 120]

RequestSymmetry == Permutations({r1, r2})
=============================================================================

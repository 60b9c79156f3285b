----------------------------- MODULE MCFailover -----------------------------
(* Instances of Failover for TLC.                                          *)
EXTENDS Failover, TLC

CONSTANTS a1, a2, r1, r2

\* a1 is disabled by its first failure, the others by their second.
StrictA1 == [a \in Accounts |-> IF a = a1 THEN 1 ELSE 0]

\* The reporters are interchangeable.
ReporterSymmetry == Permutations(Reporters)
=============================================================================

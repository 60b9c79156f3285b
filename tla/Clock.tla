------------------------------- MODULE Clock -------------------------------
(* What the background watchers share: the wall clock, and the process     *)
(* that forgets their in-memory maps when it restarts.                     *)
EXTENDS Integers

CONSTANTS MaxTime, MaxRestarts    \* bounds

ASSUME ClockAssumption == MaxTime \in Nat /\ MaxRestarts \in Nat

VARIABLES now, restarts

clock == <<now, restarts>>

ClockInit == now = 0 /\ restarts = 0

Passes == now < MaxTime /\ now' = now + 1 /\ UNCHANGED restarts

Restarts == restarts < MaxRestarts /\ restarts' = restarts + 1 /\ UNCHANGED now
=============================================================================

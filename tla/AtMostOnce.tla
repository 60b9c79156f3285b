----------------------------- MODULE AtMostOnce -----------------------------
(* What a caller of the upstream client may rely on for one exchange that  *)
(* changes something upstream (a job created, a media slot reserved or     *)
(* committed): upstream performs it at most once, "ok" is reported only    *)
(* after it was performed, and a typed refusal only when it never will be. *)
(* Everything else is reported as "unknown".                               *)
EXTENDS Naturals

CONSTANT Exchanges

VARIABLES performed, report

avars == <<performed, report>>

AInit ==
    /\ performed = [x \in Exchanges |-> 0]
    /\ report = [x \in Exchanges |-> "none"]

Perform(x) ==
    /\ performed[x] = 0
    /\ report[x] \in {"none", "unknown"}
    /\ performed' = [performed EXCEPT ![x] = 1]
    /\ UNCHANGED report

Tell(x, r) ==
    /\ report[x] = "none"
    /\ r = "ok" => performed[x] = 1
    /\ r = "refused" => performed[x] = 0
    /\ report' = [report EXCEPT ![x] = r]
    /\ UNCHANGED performed

ANext == \E x \in Exchanges: Perform(x) \/ \E r \in {"ok", "refused", "unknown"}: Tell(x, r)

ASpec == AInit /\ [][ANext]_avars
=============================================================================

------------------------------- MODULE Upkeep -------------------------------
(* The background goroutines cmd/higgsgo/main.go starts beside the         *)
(* pollworker, in one process under one clock.  They share no in-memory    *)
(* state but the process itself, so a behaviour follows one of them.       *)
EXTENDS InvoiceWatch, PromoWatch, CreditRecon, Refresher, Replenish, Regression

VARIABLE focus   \* the goroutine this behaviour is about

vars == <<clock, invoiceVars, promoVars, reconVars, refreshVars, replenishVars, regressVars, focus>>

Init ==
    /\ ClockInit
    /\ InvoiceInit /\ PromoInit /\ ReconInit /\ RefreshInit /\ ReplenishInit /\ RegressInit
    /\ focus \in {"invoice", "promo", "recon", "refresh", "replenish", "regress"}

Timed == {"invoice", "promo", "recon", "replenish"}

\* The watchers' maps and marks, which a step of another of them leaves alone.
Others(f) ==
    /\ f # "invoice" => UNCHANGED invoiceVars
    /\ f # "promo" => UNCHANGED promoVars
    /\ f # "recon" => UNCHANGED reconVars
    /\ f # "refresh" => UNCHANGED refreshVars
    /\ f # "replenish" => UNCHANGED replenishVars
    /\ f # "regress" => UNCHANGED regressVars
    /\ UNCHANGED focus

Tick ==
    /\ focus \in Timed
    /\ Passes /\ PassesInTime
    /\ Others("none")

\* The process dies and starts again: the watchers start with empty maps.
Restart ==
    /\ focus \in Timed
    /\ Restarts
    /\ InvoiceRestart /\ PromoRestart /\ ReconRestart /\ ReplenishRestart
    /\ UNCHANGED <<refreshVars, regressVars, focus>>

Follows(f) == focus = f /\ Others(f) /\ UNCHANGED clock

InvoiceStep == Follows("invoice") /\ InvoiceNext
PromoStep == Follows("promo") /\ PromoNext
ReconStep == Follows("recon") /\ ReconNext
RefreshStep == Follows("refresh") /\ RefreshNext
ReplenishStep == Follows("replenish") /\ ReplenishNext
RegressStep == Follows("regress") /\ RegressNext

Next ==
    \/ Tick \/ Restart
    \/ InvoiceStep \/ PromoStep \/ ReconStep \/ RefreshStep \/ ReplenishStep \/ RegressStep

Spec == Init /\ [][Next]_vars
----------------------------------------------------------------------------
UpkeepTypeOK ==
    /\ now \in 0..MaxTime /\ restarts \in 0..MaxRestarts
    /\ states \in [Payers -> RetryState \cup {NoBudget}]
    /\ watching \in [Payers -> BOOLEAN]
    /\ seenOffer \in Offers \cup {NoOffer}
    /\ step \in {"idle", "promo", "cashback", "offer", "decide", "decideOffer"}
    /\ seen \in Deals \cup {NoDeal}
    /\ (step = "decide" <=> seen # NoDeal)
    /\ muted \in [Keys -> 0..MaxTime \cup {Never}]
    /\ pass \in [Spenders -> [step: {"idle", "fetch", "sum"}, month: Months,
                              upstream: 0..MaxSpent, day: 0..MaxTime]]
    /\ reconMuted \in [ReconKeys -> 0..MaxTime \cup {NotMuted}]
    /\ version \in Versions /\ streak \in Nat /\ deciding \in [Refreshers -> {"none", "founded", "hasty"}]
    /\ columns \in [Columns -> Versions]
    /\ grace.token \in {"", "grace", "enforcement", "access_lose", "card_declined", "backup_card"}
    /\ crossed \subseteq Refreshers
    /\ scan.pc \in {"idle", "rows", "unlim"} /\ lastFired \in [Signals -> 0..MaxTime \cup {Quiet}]
    /\ health \in [Range(Models) -> 0..MaxProbes]
    /\ \A p \in Probers: probing[p] \subseteq ImageModels /\ Cardinality(InFlight(p)) <= Concurrency

\* What the refresher leaves in an account's row comes from whole reports and
\* from failures that happened, whatever fails, is cut off or overlaps.
RefreshExplained == UpkeepTypeOK /\ StrikesExplained /\ UnlimSetWhole /\ GraceExplained
=============================================================================

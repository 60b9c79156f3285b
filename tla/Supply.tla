------------------------------- MODULE Supply -------------------------------
(* Where accounts and their credits come from: the registration worker,    *)
(* and the claimer of gifts and unlim activations.  Two goroutines of one  *)
(* process that share no state, so a behaviour follows one of them.        *)
EXTENDS Registrar, Claimer

VARIABLE focus

vars == <<regVars, claimVars, focus>>

Init == RegInit /\ ClaimInit /\ focus \in {"register", "claim"}

Registering(A) == focus = "register" /\ A /\ UNCHANGED <<claimVars, focus>>
Claiming(A) == focus = "claim" /\ A /\ UNCHANGED <<regVars, focus>>

Next == Registering(RegNext) \/ Claiming(ClaimNext)

\* The worker's ticker keeps firing, and a poll or a flow that started goes
\* on: it waits on nothing but the database and a client with a timeout.  The
\* claimer's ticker fires too, and a call of its that is made again and again
\* is answered without an error at times.
Fairness ==
    /\ WF_vars(Registering(LoopTicks))
    /\ \A p \in Pollers: WF_vars(Registering(PollStep(p)))
    /\ \A f \in Flows: WF_vars(Registering(FlowStep(f)))
    /\ WF_vars(Claiming(ClaimStep))
    /\ SF_vars(Claiming(FetchGiftList)) /\ SF_vars(Claiming(FetchActs))
    /\ \A g \in GiftIds: SF_vars(Claiming(ClaimGiftOk(g)))
    /\ \A x \in GrantIds: SF_vars(Claiming(ClaimActOk(x)))

Spec == Init /\ [][Next]_vars /\ Fairness
----------------------------------------------------------------------------
SupplyTypeOK ==
    /\ RegTypeOK
    /\ claimed \subseteq GiftIds \cup GrantIds /\ done \subseteq GrantIds
    /\ cpc \in {"idle", "gifts", "acts"}

\* The claimer's promise, in the behaviours that follow the claimer.
GrantsGetClaimed == focus = "claim" => ClaimsSucceed

\* No crash, failed statement or repeated row leaves a registration or a claim
\* half done without a trace.
SupplyExplained == SupplyTypeOK /\ SuccessHasAccount /\ OrphansExplained /\ TriedOncePerPass
=============================================================================

------------------------------ MODULE MCUpkeep ------------------------------
(* Days and months of a few units, three deals, three offers; two reports, *)
(* the second with two activations of the same bundle; a pool of two rows  *)
(* with three conditions between them; four image models and a video one.  *)
EXTENDS Upkeep

CONSTANTS p1, p2, k1, b1, b2, soul, kling

TheKinds == p1 :> "promo" @@ p2 :> "promo" @@ k1 :> "cashback"
TheDeadlines == p1 :> 3 @@ p2 :> 0 @@ k1 :> 4

Offer(status, modal, final, allowed) ==
    [status |-> status, modal |-> modal, original |-> 100, final |-> final, allowed |-> allowed]
TheOffers == {Offer("show", TRUE, 59, 0), Offer("show", TRUE, 60, 0), Offer("show", FALSE, 50, 1)}

Act(id, bundle, models) == [id |-> id, bundle |-> bundle, models |-> models, claimed |-> FALSE]
TheReports == <<
    [notice |-> "add_card_grace_notice", acts |-> <<Act(b1, "all_above", <<soul, kling>>)>>],
    [notice |-> "hide", acts |-> <<Act(b1, "one", <<soul>>), Act(b2, "one", <<kling>>)>>]>>

TheModels == <<"flux", "seedream", "soul", "veo3", "z_image">>
OnShelf(on, credits, ends, risk, flagged, until) ==
    [active |-> on, credits |-> credits, subscription |-> 100, ends |-> ends,
     grace |-> risk, flagged |-> flagged, unlim |-> until]
TheConditions == {OnShelf(FALSE, 0, 1, TRUE, TRUE, 9), OnShelf(TRUE, 0, 2, FALSE, TRUE, 1),
                  OnShelf(TRUE, 5, 0, TRUE, FALSE, 9)}

\* The two refresher passes are alike, and so are the two accounts of the pool.
UpkeepSymmetry == Permutations(Refreshers) \cup Permutations(Stock)
=============================================================================

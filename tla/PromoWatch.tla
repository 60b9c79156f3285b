----------------------------- MODULE PromoWatch -----------------------------
(* internal/core/promowatch: per account three looks at upstream, each     *)
(* warning about something of value that is about to lapse, and each kept  *)
(* from repeating itself by a muted key.                                   *)
EXTENDS Clock, Sequences

CONSTANTS
    Deals,                  \* personal promos and cashback challenges
    DealKind, Deadline,     \* "promo" or "cashback"; 0 for no deadline
    NearExpiry, MutedWindow,
    DeepDiscountPct, Offers,
    NoDeal

OfferKey == "twodayoffer"
Keys == Deals \cup {OfferKey}
Never == -1
NoOffer == [status |-> "hide", modal |-> FALSE, original |-> 0, final |-> 0, allowed |-> 0]

ASSUME PromoAssumption ==
    /\ NoDeal \notin Deals /\ OfferKey \notin Deals
    /\ DealKind \in [Deals -> {"promo", "cashback"}] /\ Deadline \in [Deals -> Nat]
    /\ NearExpiry \in Nat /\ MutedWindow \in Nat /\ NearExpiry <= MutedWindow   \* both a day

VARIABLES
    step,        \* "idle" or the look that is next
    seen,        \* what the running look fetched: a deal, or NoDeal
    seenOffer,
    muted,       \* key -> time of its last warning, or Never
    firedAt      \* key -> the times of its warnings, in order (history)

promoVars == <<step, seen, seenOffer, muted, firedAt>>

PromoInit ==
    /\ step = "idle"
    /\ seen = NoDeal
    /\ seenOffer = NoOffer
    /\ muted = [k \in Keys |-> Never]
    /\ firedAt = [k \in Keys |-> <<>>]

----------------------------------------------------------------------------
(* watchOne *)

\* once, for this account.
WatchPromos ==
    /\ step = "idle"
    /\ step' = "promo"
    /\ UNCHANGED <<seen, seenOffer, muted, firedAt>>

After(s) == CASE s = "promo" -> "cashback" [] s = "cashback" -> "offer" [] OTHER -> "idle"

\* A failed fetch ends this look only, and so does finding no deal, one that
\* was viewed or is not in progress, or a hidden offer.
Skip(s) ==
    /\ step = s
    /\ step' = After(s)
    /\ UNCHANGED <<seen, seenOffer, muted, firedAt>>

\* FetchPersonalPromo reports a promo that is not viewed yet, or
\* FetchCashbackChallenge a challenge in progress.
FetchDeal(d) ==
    /\ step = DealKind[d]
    /\ seen' = d
    /\ step' = "decide"
    /\ UNCHANGED <<seenOffer, muted, firedAt>>

\* Mutant: a deadline that just passed still counts as near.
WithinNearExpiryOrPast(deadline) == deadline >= now /\ deadline - now <= NearExpiry
WithinNearExpiry(deadline) == deadline > now /\ deadline - now <= NearExpiry

Muted(key) == muted[key] # Never /\ now - muted[key] < MutedWindow

\* reserveAlert of a key that is not muted, pruning what has lapsed.
ReserveAlert(key) ==
    muted' = [k \in Keys |-> IF k = key THEN now
                             ELSE IF muted[k] # Never /\ now - muted[k] >= MutedWindow THEN Never
                             ELSE muted[k]]

\* The sent warning; a failed Send is only logged.
Notify(key) == firedAt' = [firedAt EXCEPT ![key] = Append(@, now)]

\* checkPersonalPromo and checkCashbackChallenge, from the fetched deal on.
CheckDeal ==
    /\ step = "decide"
    /\ step' = After(DealKind[seen])
    /\ seen' = NoDeal
    /\ IF Deadline[seen] # 0 /\ WithinNearExpiry(Deadline[seen]) /\ ~Muted(seen)
       THEN ReserveAlert(seen) /\ Notify(seen)
       ELSE UNCHANGED <<muted, firedAt>>
    /\ UNCHANGED seenOffer

TwoDayOfferDiscountPct(o) ==
    IF o.original <= 0 \/ o.original <= o.final THEN 0
    ELSE ((o.original - o.final) * 100) \div o.original

FetchOffer(o) ==
    /\ step = "offer"
    /\ seenOffer' = o
    /\ step' = "decideOffer"
    /\ UNCHANGED <<seen, muted, firedAt>>

Valuable(o) ==
    /\ o.status \notin {"", "hide"}
    /\ o.modal
    /\ TwoDayOfferDiscountPct(o) > DeepDiscountPct \/ o.allowed > 0

CheckTwoDayOffer ==
    /\ step = "decideOffer"
    /\ step' = "idle"
    /\ seenOffer' = NoOffer
    /\ IF Valuable(seenOffer) /\ ~Muted(OfferKey)
       THEN ReserveAlert(OfferKey) /\ Notify(OfferKey)
       ELSE UNCHANGED <<muted, firedAt>>
    /\ UNCHANGED seen

PromoRestart ==
    /\ step' = "idle"
    /\ seen' = NoDeal
    /\ seenOffer' = NoOffer
    /\ muted' = [k \in Keys |-> Never]
    /\ UNCHANGED firedAt

PromoNext ==
    \/ WatchPromos \/ CheckDeal \/ CheckTwoDayOffer
    \/ \E d \in Deals: FetchDeal(d)
    \/ \E o \in Offers: FetchOffer(o)
    \/ \E s \in {"promo", "cashback", "offer"}: Skip(s)

\* promowatch.go: a deal is announced once in the life of the process, in its
\* last day and never after its deadline, although the mute lapses: by the
\* time it does the deadline has passed.  The offer, which has no deadline of
\* its own, is announced at most once per mutedWindow.
PromoAlertsBounded ==
    /\ \A d \in Deals:
          /\ Len(firedAt[d]) <= 1 + restarts
          /\ \A i \in DOMAIN firedAt[d]:
                firedAt[d][i] < Deadline[d] /\ Deadline[d] - firedAt[d][i] <= NearExpiry
    /\ \A i, j \in DOMAIN firedAt[OfferKey]: j = i + 1 + restarts =>
          firedAt[OfferKey][j] - firedAt[OfferKey][i] >= MutedWindow
=============================================================================

------------------------------ MODULE Pricing ------------------------------
(* What a credit costs and what a call is sold for, for one model: the       *)
(* purchase batches and the floor they give, the operator's price decisions, *)
(* and the tiered feed downstream bills by (purchase_batches.go,             *)
(* pricing_decisions.go, pricing_floor_suggestions.go,                       *)
(* downstream_pricing.go).  Times are whole seconds, as the store keeps      *)
(* them.                                                                     *)
EXTENDS Integers, Sequences, FiniteSets, Functions

CONSTANTS
    Observations,   \* official_price_observations, in the order they are listed
    CostRules,      \* the newest snapshot's rules for the model, in that order
    Postings,       \* the prices operators post: a variant and its price
    BatchIds,
    NewBatches,     \* the batches operators enter
    Repricing,      \* the amounts they correct total_paid to
    Fallback,       \* floor_reference_unit_cost_micros
    MarkupTenths,   \* floor_markup_multiplier, in tenths
    MaxDecisions, MaxPriceClock, MaxBatchWrites

VARIABLES
    decisions,      \* model_price_decisions: posting, second, and the rank of its random id
    priceClock,
    post,           \* the last POST of a decision: [pc, d, cost, verdict]
    batches,        \* purchase_batches: id -> row, NoBatch for none
    put,            \* one PUT of a batch: [pc, id, row, patch]
    batchWrites,
    out, stale      \* batches an operator deleted or retired; those of them a
                    \* PUT that had read them before wrote back (history)

Resolutions == {"1080p", "720p", ""}
AudioStates == {"on", "off", ""}
Modes == {"pro", "std", ""}
\* What the handlers that write a batch refuse: a purchase of no account or
\* for nothing, and negative credits.
BatchRows == [active: BOOLEAN, class: STRING, promo: STRING, credits: Nat, accounts: Nat \ {0}, paid: Nat \ {0}]
ObservationRows ==
    [res: Resolutions, audio: AudioStates, mode: Modes, unit: STRING, dur: Nat, price: Int, estimated: BOOLEAN]
ASSUME PricingAssumption ==
    /\ IsFiniteSet(BatchIds) /\ NewBatches \subseteq BatchRows /\ Repricing \subseteq Nat \ {0}
    /\ Postings \subseteq [res: Resolutions, audio: AudioStates, mode: Modes, unit: STRING, dur: Nat, price: Nat]
    /\ Observations \in Seq(ObservationRows)

pricingVars == <<decisions, priceClock, post, batches, put, batchWrites, out, stale>>

NoBatch == [active |-> FALSE, class |-> "none", promo |-> "none", credits |-> 0, accounts |-> 0, paid |-> 0]
NoPut == [pc |-> "idle", id |-> CHOOSE b \in BatchIds: TRUE, row |-> NoBatch, patch |-> 0]
NoPost == [pc |-> "idle", d |-> 0, cost |-> 0, verdict |-> ""]

Variant(r) == <<r.res, r.audio, r.mode, r.unit, r.dur>>
Listed(r)  == <<r.res, r.audio, r.mode, r.unit>>     \* the merge's key
Tier(r)    == <<r.res, r.audio, r.mode>>             \* the expression's
----------------------------------------------------------------------------
(* The floor *)

Eligible(b) ==
    b.active /\ b.class = "normal" /\ b.promo = "none" /\ b.credits > 0 /\ b.paid > 0 /\ b.accounts > 0

\* Credits are summed in hundredths and cut to whole ones before the division.
EffectiveUnitCost ==
    LET own == {b \in BatchIds: Eligible(batches[b])}
        paid == SumFunction([b \in own |-> batches[b].paid])
        credits == SumFunction([b \in own |-> batches[b].credits * batches[b].accounts]) \div 100
    IN  IF credits = 0 THEN Fallback ELSE paid \div credits

FloorOf(credits, cost) == (((credits * cost) \div 100) * MarkupTenths) \div 10

\* The mode an upstream without resolutions means by one.
FoldedMode(res) == CASE res = "1080p" -> "pro" [] res = "720p" -> "std" [] OTHER -> ""

\* Rules by their place in the list, which decides between several.
Exact(v) == {i \in DOMAIN CostRules: Variant(CostRules[i]) = Variant(v)}
Loose(v) ==
    {i \in DOMAIN CostRules:
        LET r == CostRules[i] IN r.res = "" /\ v.res # "" /\ r.audio = v.audio /\ r.dur = v.dur}
Folded(v) == {i \in Loose(v): CostRules[i].mode = FoldedMode(v.res)}
FirstCredits(fit) == CostRules[CHOOSE i \in fit: \A j \in fit: i <= j].credits

\* The credits a save is judged by, 0 when no rule fits.
LookupVariantCredits(v) ==
    IF Exact(v) # {} THEN FirstCredits(Exact(v))
    ELSE IF Folded(v) # {} THEN FirstCredits(Folded(v))
    ELSE IF Loose(v) # {} THEN FirstCredits(Loose(v))
    ELSE 0

\* Those the suggestions show. Their fold asks for the unit too, and their
\* last resort takes any rule, in the order of a map.
LookupCreditsForFloor(v) ==
    LET folded == {i \in Folded(v): CostRules[i].unit = v.unit}
    IN  IF Exact(v) # {} THEN {FirstCredits(Exact(v))}
        ELSE IF folded # {} THEN {FirstCredits(folded)}
        ELSE IF Loose(v) # {} THEN {CostRules[i].credits: i \in Loose(v)}
        ELSE {0}

Verdict(credits, price, cost) ==
    IF cost <= 0 THEN "unchecked"
    ELSE IF credits = 0 THEN "cost_rule_missing"
    ELSE IF price < FloorOf(credits, cost) THEN "below" ELSE "fine"
----------------------------------------------------------------------------
(* The feed *)

Newer(c, d) == c.at > d.at \/ (c.at = d.at /\ c.rank > d.rank)
ListLatestPriceDecisions ==
    {i \in DOMAIN decisions: ~\E j \in DOMAIN decisions:
        Variant(decisions[j]) = Variant(decisions[i]) /\ Newer(decisions[j], decisions[i])}

\* Of a key's decisions the longest duration is listed last, and stays.
Overrides ==
    {i \in ListLatestPriceDecisions:
        /\ decisions[i].price > 0
        /\ ~\E j \in ListLatestPriceDecisions:
            decisions[j].price > 0 /\ Listed(decisions[j]) = Listed(decisions[i]) /\ decisions[j].dur > decisions[i].dur}
\* Of a key's observations the first that counts.
Usable(i) == Observations[i].price > 0 /\ ~Observations[i].estimated
Observed ==
    {i \in DOMAIN Observations: Usable(i) /\
        ~\E j \in 1..(i - 1): Usable(j) /\ Listed(Observations[j]) = Listed(Observations[i])}

\* Rows of a tier: observations nobody overrode, then overrides; the last one
\* stays, and which of several units that is depends on a map's order.
OverrideRows(k) == {decisions[i]: i \in {j \in Overrides: Tier(decisions[j]) = k}}
ObservedRows(k) == {Observations[i]: i \in {j \in Observed: Tier(Observations[j]) = k}}
TierRows(k) == IF OverrideRows(k) # {} THEN OverrideRows(k) ELSE ObservedRows(k)
Tiers == {Tier(decisions[i]): i \in Overrides} \cup {Tier(Observations[i]): i \in Observed}

ResolutionRank(r) == IF r = "1080p" THEN 200 ELSE IF r = "720p" THEN 100 ELSE 0
AudioRank(a) == IF a = "on" THEN 3 ELSE IF a = "off" THEN 1 ELSE 0
ModeRank(m) == IF m = "pro" THEN 1 ELSE IF m = "std" THEN 2 ELSE 0    \* alphabetic
\* Mutant: the tier without audio goes first.
BeforeQuietFirst(s, t) ==
    \/ ResolutionRank(s[1]) > ResolutionRank(t[1])
    \/ s[1] = t[1] /\ AudioRank(s[2]) < AudioRank(t[2])
    \/ s[1] = t[1] /\ s[2] = t[2] /\ ModeRank(s[3]) < ModeRank(t[3])
Before(s, t) ==
    \/ ResolutionRank(s[1]) > ResolutionRank(t[1])
    \/ s[1] = t[1] /\ AudioRank(s[2]) > AudioRank(t[2])
    \/ s[1] = t[1] /\ s[2] = t[2] /\ ModeRank(s[3]) < ModeRank(t[3])

\* A tier that names no dimension is written with neither a guard nor a "?",
\* a form the contract's grammar does not have: how downstream reads such an
\* expression is its own affair.
Readable == <<"", "", "">> \notin Tiers
\* has() of each dimension the tier names.
Guard(t, request) == \A i \in 1..3: t[i] # "" => request[i] = t[i]
\* The tier a readable expression gives a request: the first whose guard holds.
BilledTier(request) ==
    LET open == {t \in Tiers: Guard(t, request)}
    IN  CHOOSE t \in open: \A s \in open: s = t \/ Before(t, s)
----------------------------------------------------------------------------
PricingInit ==
    /\ decisions = <<>> /\ priceClock = 0 /\ post = NoPost
    /\ batches = [b \in BatchIds |-> NoBatch] /\ put = NoPut
    /\ batchWrites = 0 /\ out = {} /\ stale = {}

OnlyDecisions == UNCHANGED <<batches, put, batchWrites, out, stale>>
OnlyBatches == UNCHANGED <<decisions, priceClock, post>>

\* CreatePricingDecision: the row is appended, its id random ...
RecordPriceDecision(p, rank) ==
    /\ post.pc # "warn" /\ Len(decisions) < MaxDecisions
    /\ \A i \in DOMAIN decisions: decisions[i].at = priceClock => decisions[i].rank # rank
    /\ decisions' = Append(decisions, [res |-> p.res, audio |-> p.audio, mode |-> p.mode, unit |-> p.unit,
                                       dur |-> p.dur, price |-> p.price, at |-> priceClock, rank |-> rank])
    /\ post' = [NoPost EXCEPT !.pc = "warn", !.d = Len(decisions) + 1]
    /\ OnlyDecisions /\ UNCHANGED priceClock
\* ... and the answer says whether it is below the floor by then.
RetailFloorWarnings ==
    LET d == decisions[post.d]
    IN  /\ post.pc = "warn"
        /\ post' = [post EXCEPT !.pc = "done", !.cost = EffectiveUnitCost,
                        !.verdict = Verdict(LookupVariantCredits(d), d.price, EffectiveUnitCost)]
        /\ OnlyDecisions /\ UNCHANGED <<decisions, priceClock>>
PriceTick ==
    /\ priceClock < MaxPriceClock /\ priceClock' = priceClock + 1
    /\ OnlyDecisions /\ UNCHANGED <<decisions, post>>

WritesBatch(b, row) ==
    /\ batchWrites < MaxBatchWrites /\ batchWrites' = batchWrites + 1
    /\ batches' = [batches EXCEPT ![b] = row]

\* POST with an id of its own choosing replaces the row that has it.
CreatePurchaseBatch(b, row) ==
    /\ WritesBatch(b, row)
    /\ out' = out \ {b} /\ stale' = stale \ {b}
    /\ OnlyBatches /\ UNCHANGED put
DeletePurchaseBatch(b) ==
    /\ batches[b] # NoBatch /\ WritesBatch(b, NoBatch)
    /\ out' = out \cup {b} /\ stale' = stale \ {b}
    /\ OnlyBatches /\ UNCHANGED put
\* PUT: the row is read, merged with the request and written back whole;
\* patch 0 retires the batch, any other corrects what was paid.
GetPurchaseBatch(b, patch) ==
    /\ put.pc = "idle" /\ batches[b] # NoBatch
    /\ put' = [pc |-> "write", id |-> b, row |-> batches[b], patch |-> patch]
    /\ OnlyBatches /\ UNCHANGED <<batches, batchWrites, out, stale>>
\* Mutant: an update starts from the defaults of a new row.
BuildAfresh(row, patch) ==
    IF patch = 0 THEN [row EXCEPT !.active = FALSE] ELSE [row EXCEPT !.active = TRUE, !.paid = patch]
BuildBatchFromRequest(row, patch) ==
    IF patch = 0 THEN [row EXCEPT !.active = FALSE] ELSE [row EXCEPT !.paid = patch]
UpdatePurchaseBatch ==
    LET row == BuildBatchFromRequest(put.row, put.patch)
    IN  /\ put.pc = "write" /\ WritesBatch(put.id, row)
        /\ put' = NoPut
        /\ out' = IF put.patch = 0 THEN out \cup {put.id} ELSE out
        /\ stale' = IF put.patch = 0 THEN stale \ {put.id}
                    ELSE IF put.id \in out /\ put.row.active THEN stale \cup {put.id} ELSE stale
        /\ OnlyBatches

Posts == \E p \in Postings, rank \in 1..2: RecordPriceDecision(p, rank)
FeedNext == Posts \/ RetailFloorWarnings \/ PriceTick
FloorNext ==
    \/ (decisions = <<>> /\ Posts) \/ RetailFloorWarnings
    \/ \E b \in BatchIds:
        \/ DeletePurchaseBatch(b) \/ \E row \in NewBatches: CreatePurchaseBatch(b, row)
        \/ \E patch \in Repricing \cup {0}: GetPurchaseBatch(b, patch)
    \/ UpdatePurchaseBatch
PricingNext == FeedNext \/ FloorNext
PricingSpec == PricingInit /\ [][PricingNext]_pricingVars
----------------------------------------------------------------------------
(* "The newest wins on read": no tier carries a decision that another one   *)
(* for the same variant replaced in a later second, and none carries an     *)
(* official price while a decision for the tier is in force.  Within one     *)
(* second the random id decides.                                            *)
SupersededNotBilled ==
    decisions # <<>> => \A k \in Tiers: \A row \in TierRows(k):
        /\ row \in ObservedRows(k) => OverrideRows(k) = {}
        /\ row \in OverrideRows(k) => \A j \in DOMAIN decisions:
             Variant(decisions[j]) = Variant(row) => decisions[j].at <= row.at

(* Once operators set prices beside the official ones, and while no tier of *)
(* the model is without dimensions, a request that names a priced variant   *)
(* is billed by that variant's tier, although guards leave out what a tier   *)
(* leaves open; only a tier with the same resolution and audio and no mode   *)
(* is asked before it.                                                      *)
VariantBilledItsTier ==
    decisions # <<>> /\ Readable => \A k \in Tiers:
        BilledTier(k) = k \/ (k[3] # "" /\ BilledTier(k) = <<k[1], k[2], "">>)

(* The suggestions table and the answer to a save judge a price alike, with *)
(* the cost unchanged, although each looks its credits up its own way.  They *)
(* may differ only where the rules that fit name no resolution and have     *)
(* another unit, or none of them has the mode the resolution stands for.    *)
SavedAsSuggested ==
    LET d == decisions[post.d]
        open == (\E i \in Loose(d): CostRules[i].unit # d.unit) \/ Folded(d) = {}
    IN  (post.pc = "done" /\ post.cost = EffectiveUnitCost) =>
            \/ Exact(d) = {} /\ Loose(d) # {} /\ open
            \/ \A credits \in LookupCreditsForFloor(d): Verdict(credits, d.price, post.cost) = post.verdict

Plain(b) == b.active /\ b.class = "normal" /\ b.promo = "none" /\ b.credits > 0
(* The floor's unit cost lies between the cheapest and the dearest plain    *)
(* purchase, up to the credit that cutting the sum to whole credits loses;  *)
(* without a plain purchase of a whole credit it is the configured one.     *)
FloorWithinBatches ==
    LET own == {batches[b]: b \in {c \in BatchIds: Plain(batches[c])}}
        whole == SumFunction([b \in {c \in BatchIds: Plain(batches[c])} |->
                                 batches[b].credits * batches[b].accounts]) \div 100
    IN  batchWrites > 0 =>
        IF whole = 0 THEN EffectiveUnitCost = Fallback
        ELSE /\ \E b \in own: (EffectiveUnitCost + 1) * b.credits * b.accounts > b.paid * 100
             /\ \E b \in own: EffectiveUnitCost * b.credits * b.accounts * whole <= b.paid * 100 * (whole + 1)

(* A batch the operator deleted or retired stops counting towards the floor *)
(* for good, unless a PUT that had read it before wrote it back.            *)
TakenOutStaysOut == \A b \in out \ stale: ~batches[b].active

(* The feed bills each variant by the price in force for it, as far as the   *)
(* expression it sends is one of the contract's.                            *)
FeedBillsRight == SupersededNotBilled /\ VariantBilledItsTier

(* The floor is that of the purchases in force, and is judged alike by the  *)
(* page that suggests a price and the handler that saves it.                *)
FloorSound == FloorWithinBatches /\ TakenOutStaysOut /\ SavedAsSuggested
=============================================================================

------------------------------ MODULE Claimer ------------------------------
(* internal/core/claimer: every interval each account's unclaimed gifts    *)
(* and unlim activations are claimed, one call each, an error of one never *)
(* keeping back the next.  One account: accounts are claimed separately.   *)
EXTENDS Activations

CONSTANTS
    GiftIds,
    Grants          \* upstream's activations, in order, as [id, bundle, models]

GrantIds == {Grants[n].id: n \in DOMAIN Grants}

\* Gifts and activations are two lists with ids of their own.
ASSUME ClaimerAssumption == IsFiniteSet(GiftIds) /\ GiftIds \cap GrantIds = {}

VARIABLES
    claimed,        \* gifts and activations already claimed (external)
    subscribed,     \* the account has a subscription that blocks gifts (external)
    cpc,            \* "idle", "gifts" or "acts": what the pass claims next
    todo,           \* the fetched list, from where the pass is
    done,           \* activation ids the pass has claimed: `seen`
    tried           \* id -> claim calls sent in this pass (history)

claimVars == <<claimed, subscribed, cpc, todo, done, tried>>

ClaimInit ==
    /\ claimed = {} /\ subscribed = FALSE
    /\ cpc = "idle" /\ todo = <<>> /\ done = {}
    /\ tried = [x \in GiftIds \cup GrantIds |-> 0]

\* Another tool claims, and the subscription starts or ends. (external)
ClaimedElsewhere(x) ==
    /\ x \notin claimed
    /\ claimed' = claimed \cup {x}
    /\ UNCHANGED <<subscribed, cpc, todo, done, tried>>
SubscriptionChanges ==
    /\ subscribed' = ~subscribed
    /\ UNCHANGED <<claimed, cpc, todo, done, tried>>

\* Mutant: the test of the claimed flag is the wrong way around.
FetchGiftListInverted ==
    /\ cpc = "idle"
    /\ cpc' = "gifts"
    /\ todo' = SetToSeq(GiftIds \cap claimed)
    /\ done' = {}
    /\ tried' = [x \in DOMAIN tried |-> 0]
    /\ UNCHANGED <<claimed, subscribed>>

\* claimGifts up to the list, without the gifts it reports as claimed.
FetchGiftList ==
    /\ cpc = "idle"
    /\ cpc' = "gifts"
    /\ todo' = SetToSeq(GiftIds \ claimed)
    /\ done' = {}
    /\ tried' = [x \in DOMAIN tried |-> 0]
    /\ UNCHANGED <<claimed, subscribed>>

\* The list cannot be read: claimGifts returns, claimUnlimActivations runs.
FetchGiftListFails ==
    /\ cpc = "idle"
    /\ cpc' = "gifts"
    /\ todo' = <<>>
    /\ done' = {}
    /\ tried' = [x \in DOMAIN tried |-> 0]
    /\ UNCHANGED <<claimed, subscribed>>

Tries(x) == tried' = [tried EXCEPT ![x] = @ + 1]

\* ClaimGift of the next gift is accepted ...
ClaimGiftOk(g) ==
    /\ cpc = "gifts" /\ todo # <<>> /\ g = Head(todo)
    /\ g \notin claimed /\ ~subscribed
    /\ claimed' = claimed \cup {g}
    /\ todo' = Tail(todo)
    /\ Tries(g)
    /\ UNCHANGED <<subscribed, cpc, done>>

\* ... refused as already claimed or for the active subscription, or fails.
ClaimGiftFails(g) ==
    /\ cpc = "gifts" /\ todo # <<>> /\ g = Head(todo)
    /\ todo' = Tail(todo)
    /\ Tries(g)
    /\ UNCHANGED <<claimed, subscribed, cpc, done>>

Listed == Flatten([n \in DOMAIN Grants |->
    [id |-> Grants[n].id, bundle |-> Grants[n].bundle, models |-> Grants[n].models,
     claimed |-> Grants[n].id \in claimed]])

\* claimUnlimActivations up to the list.
FetchActs ==
    /\ cpc = "gifts" /\ todo = <<>>
    /\ cpc' = "acts"
    /\ todo' = Listed
    /\ UNCHANGED <<claimed, subscribed, done, tried>>
FetchActsFails ==
    /\ cpc = "gifts" /\ todo = <<>>
    /\ cpc' = "idle"
    /\ UNCHANGED <<claimed, subscribed, todo, done, tried>>

NotYet(row) == ~row.claimed /\ row.id \notin done

ActSkipped ==
    /\ cpc = "acts" /\ todo # <<>> /\ ~NotYet(Head(todo))
    /\ todo' = Tail(todo)
    /\ UNCHANGED <<claimed, subscribed, cpc, done, tried>>

ClaimActOk(x) ==
    /\ cpc = "acts" /\ todo # <<>> /\ NotYet(Head(todo)) /\ x = Head(todo).id
    /\ done' = done \cup {x}
    /\ claimed' = claimed \cup {x}
    /\ todo' = Tail(todo)
    /\ Tries(x)
    /\ UNCHANGED <<subscribed, cpc>>
ClaimActFails(x) ==
    /\ cpc = "acts" /\ todo # <<>> /\ NotYet(Head(todo)) /\ x = Head(todo).id
    /\ done' = done \cup {x}
    /\ todo' = Tail(todo)
    /\ Tries(x)
    /\ UNCHANGED <<claimed, subscribed, cpc>>

ClaimPassEnds ==
    /\ cpc = "acts" /\ todo = <<>>
    /\ cpc' = "idle"
    /\ UNCHANGED <<claimed, subscribed, todo, done, tried>>

ClaimStep ==
    \/ FetchGiftList \/ FetchGiftListFails \/ FetchActs \/ FetchActsFails
    \/ ActSkipped \/ ClaimPassEnds
    \/ \E g \in GiftIds: ClaimGiftOk(g) \/ ClaimGiftFails(g)
    \/ \E x \in GrantIds: ClaimActOk(x) \/ ClaimActFails(x)

ClaimNext ==
    \/ ClaimStep
    \/ SubscriptionChanges
    \/ \E x \in GiftIds \cup GrantIds: ClaimedElsewhere(x)

\* claimUnlimActivations "we claim each unique id once", although an
\* activation has a row per endpoint; and one call per gift: what the pass
\* sends again it sends in the next pass, to a list fetched anew.
TriedOncePerPass == \A x \in DOMAIN tried: tried[x] <= 1

\* once isolates errors: whatever else fails in the passes, an activation is
\* claimed in the end, and a gift is when no subscription stays in its way.
ClaimsSucceed ==
    /\ <>[](~subscribed) => <>(GiftIds \subseteq claimed)
    /\ <>(GrantIds \subseteq claimed)
=============================================================================

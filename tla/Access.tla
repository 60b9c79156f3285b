------------------------------- MODULE Access -------------------------------
(* What the API lets in and what it serves: the admin bearer, the api keys   *)
(* and the groups they draw from, the rate limit, the model catalogue, the   *)
(* prices on it and the feed downstream bills by.  The parts share the       *)
(* process and its database but no rows, so a behaviour follows one of them. *)
EXTENDS KeyAccess, BearerManager, RateLimit, ModelCatalog, Pricing

VARIABLE focus

vars == <<keyVars, bearerVars, rateVars, catalogVars, pricingVars, focus>>

Init ==
    /\ KeyInit /\ BearerInit /\ RateInit /\ CatalogInit /\ PricingInit
    /\ focus \in {"bearer", "keys", "groups", "rate", "catalog", "prices", "feed", "floor"}

\* A step of one part leaves the others alone.
Of(part, A) ==
    /\ focus = part /\ A /\ UNCHANGED focus
    /\ part \notin {"keys", "groups"} => UNCHANGED keyVars
    /\ part # "bearer" => UNCHANGED bearerVars
    /\ part # "rate" => UNCHANGED rateVars
    /\ part \notin {"catalog", "prices"} => UNCHANGED catalogVars
    /\ part \notin {"feed", "floor"} => UNCHANGED pricingVars

BearerStep  == Of("bearer", BearerNext)
KeysStep    == Of("keys", KeysNext)
GroupsStep  == Of("groups", GroupsNext)
RateStep    == Of("rate", RateNext)
CatalogStep == Of("catalog", CatalogNext)
PricesStep  == Of("prices", PricesNext)
FeedStep    == Of("feed", FeedNext)
FloorStep   == Of("floor", FloorNext)

Next == BearerStep \/ KeysStep \/ GroupsStep \/ RateStep \/ CatalogStep \/ PricesStep
        \/ FeedStep \/ FloorStep

Spec == Init /\ [][Next]_vars
----------------------------------------------------------------------------
AccessTypeOK ==
    /\ keys \in [Keys -> [st: KeyStatuses, secret: 0..MaxSecrets, used: Nat, quota: Quotas \cup {0},
                          scope: Scopes, group: Groups \cup {NoGroup}]]
    /\ minted \in [Keys -> 0..MaxSecrets]
    /\ \A k \in Keys: (keys[k].st = "none") = (keys[k].secret = 0)
    /\ deleting.left \subseteq deleting.listed /\ barred \subseteq PartnerKeys
    /\ \A r \in Reqs: req[r].pc \in {"idle", "sent", "known", "scoped", "running"}
    /\ \A r \in Reqs: req[r].pc \in {"scoped", "running"} => req[r].scope # <<>>
    /\ groups \in [Groups -> [exists: BOOLEAN, budget: Budgets, route: Strategies, used: Nat]]
    /\ members \subseteq Accounts \X Groups /\ bindings \subseteq Keys \X Groups
    /\ current \in Bearers /\ stored \in Bearers \cup {Absent} /\ previous \in Bearers \cup {Absent}
    /\ \A c \in Callers: buckets[c].tokens \in -1..Burst
    /\ {catalog, disk} \subseteq DOMAIN Files /\ dynamicCosts \in {0} \cup DOMAIN Tariffs
    /\ DOMAIN table = Names /\ DOMAIN overrides = Names
    /\ \A h \in Handlers: handler[h].pc \in {"idle", "upsert", "read", "swap", "list", "store"}
    /\ held <= writes /\ loaded \subseteq DOMAIN Files
    /\ \A i, j \in DOMAIN decisions: i < j => decisions[i].at <= decisions[j].at
    /\ post.d \in 0..Len(decisions) /\ (post.pc = "idle") = (post.d = 0)
    /\ stale \subseteq out /\ \A b \in BatchIds: batches[b] = NoBatch \/ batches[b].paid > 0

\* ModelCatalog's two properties of the merged view, in the behaviours that
\* change it: the plan shown is the plan asked for, and the list is what a
\* request gets.
GateExplained == focus = "catalog" => GateAsShown
ListMatchesResolve == focus = "catalog" => ListAsResolved

(* What the registry serves is what the files and the override table said   *)
(* at a reload, and how old that may be, through reloads that overlap, fail  *)
(* or are cut off by a reboot: a lone one brings the newest.  The list and a *)
(* request agree on it, and the gate asks for what they show, but for locks  *)
(* of files loaded since the boot.                                          *)
ServedAsStored ==
    AccessTypeOK /\ OverridesServed /\ GateExplained /\ ListMatchesResolve
============================================================================

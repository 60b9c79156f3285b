---------------------------- MODULE ModelCatalog ----------------------------
(* The model registry and what is layered on it: the catalogue files, the    *)
(* operator's overrides in the database, and the prices cost sync pushes.    *)
(* Every write of an override reloads the registry, POST /models/reload      *)
(* does, and reloads run at once.                                            *)
EXTENDS CatalogRefs, CostTable

CONSTANTS
    Files,        \* the catalogue's successive contents on disk
    Puts,         \* the PUTs operators send: an alias, flags to set and to clear
    Tariffs,      \* upstream's successive price tables, JST -> its cost nodes
    Handlers,     \* admin requests at work at once
    MaxPuts, MaxSnapshots, MaxReboots   \* bounds

ASSUME CatalogAssumption ==
    /\ 1 \in DOMAIN Files /\ 1 \in DOMAIN Tariffs /\ 0 \notin DOMAIN Tariffs
    /\ \A v \in DOMAIN Tariffs: \A j \in DOMAIN Tariffs[v]: \A i \in DOMAIN Tariffs[v][j]:
        LET price == Tariffs[v][j][i].price IN \A c \in DOMAIN price: price[c] \in Int

Ranks == [free |-> 0, starter |-> 1, basic |-> 2, pro |-> 3, plus |-> 4, ultra |-> 5]
NoPatch == [set |-> {}, clear |-> {}, row |-> FALSE]
Names == UNION {{m.alias: m \in Files[v].models} \cup {n.alias: n \in Files[v].aliases}: v \in DOMAIN Files}

VARIABLES
    disk,         \* the version of the files on disk
    table,        \* model_overrides: alias -> patch
    catalog,      \* the version byAlias and aliases were built from
    overrides,    \* Registry.overrides
    locked,       \* Registry.locked
    dynamicCosts, \* the tariff pushed last, 0 for none
    handler,      \* handler -> where its request is, and what it carries
    tariff,       \* the price table upstream serves (external)
    snapshots,    \* pricing_snapshots with their rules: [v, rules]
    sync,         \* cost sync: [pc, v]
    quote,        \* one GET /v1/pricing/catalog: [pc, label, rules]
    writes, reboots,
    held, lone, lapse, loaded
        \* history: the writes the list in memory was read after, and those before
        \* the last reload that ran alone; whether a reload failed, or stored an
        \* older list, since; the versions of the files loaded since the boot

catalogVars == <<disk, table, catalog, overrides, locked, dynamicCosts, handler, tariff,
                 snapshots, sync, quote, writes, reboots, held, lone, lapse, loaded>>
history == <<held, lone, lapse, loaded>>

\* alone: no other reload has been at work since this one began (history)
IdleHandler == [pc |-> "idle", alias |-> "", patch |-> NoPatch, v |-> 0, rows |-> <<>>, at |-> 0,
                alone |-> FALSE]
NoOverrides == [a \in Names |-> NoPatch]
----------------------------------------------------------------------------
(* What Reload builds from the files *)

DeriveMinPlan(flags) ==
    IF "requires_ultra" \in flags THEN "ultra" ELSE IF flags # {} THEN "pro" ELSE "free"
TierRank(p) == IF p \in DOMAIN Ranks THEN Ranks[p] ELSE 0
Stricter(p, q) == IF TierRank(q) > TierRank(p) THEN q ELSE p

Dead(v, alias) == \E x \in Files[v].extras: x.alias = alias /\ x.dead
Floor(v, alias) ==
    LET own == {x \in Files[v].extras: x.alias = alias}
    IN  IF own = {} THEN "free" ELSE (CHOOSE x \in own: TRUE).floor

\* byAlias, of each version: the models whose endpoint is not dead.
ByAlias ==
    [v \in DOMAIN Files |->
        LET live == {m \in Files[v].models: ~Dead(v, m.alias)}
            Spec(m) == [alias |-> m.alias, jst |-> m.jst, of |-> "", flags |-> m.flags, cost |-> m.cost,
                        plan |-> Stricter(DeriveMinPlan(m.flags), Floor(v, m.alias)),
                        enum |-> EnumOf(m.ref, Files[v].trees)]
        IN  [a \in {m.alias: m \in live} |-> Spec(CHOOSE m \in live: m.alias = a)]]

LockedReplaced(v) == {m.jst: m \in {n \in Files[v].models: ~Dead(v, n.alias) /\ "starter_locked" \in n.flags}}
Locks(v) == locked \cup LockedReplaced(v)

\* aliases: the entries Resolve follows.
Transparent(v, alias) == {n \in Files[v].aliases: n.alias = alias /\ n.transparent /\ n.base \in DOMAIN ByAlias[v]}
----------------------------------------------------------------------------
(* Resolve and List *)

ApplyOverride(spec, patch) == [spec EXCEPT !.flags = (@ \cup patch.set) \ patch.clear]

Replanned(spec) == [spec EXCEPT !.plan = DeriveMinPlan(spec.flags)]

\* FetchJobSetCostCatalog, of each table: a floor for every JST that has a
\* price (one that rounds to nothing is as good as none), the rules of all.
MinCosts ==
    [v \in DOMAIN Tariffs |->
        LET priced == {j \in DOMAIN Tariffs[v]: ReduceJobSetCost(Tariffs[v][j]) > 0}
        IN  [j \in priced |-> ReduceJobSetCost(Tariffs[v][j])]]
RulesOf ==
    [v \in DOMAIN Tariffs |->
        UNION {{[jst |-> j, rule |-> r]: r \in NormalizeJobSetCostRules(Tariffs[v][j])}:
               j \in DOMAIN Tariffs[v]}]

ApplyDynamicCost(spec) ==
    IF dynamicCosts # 0 /\ spec.jst \in DOMAIN MinCosts[dynamicCosts]
    THEN [spec EXCEPT !.cost = MinCosts[dynamicCosts][spec.jst]] ELSE spec

\* An alias keeps its base's tier unless it states its own.
AliasSpec(n) ==
    LET base == [ByAlias[catalog][n.base] EXCEPT !.of = n.base]
    IN  IF n.tiered THEN [base EXCEPT !.flags = n.flags, !.plan = DeriveMinPlan(n.flags)] ELSE base

\* Resolve merges in one way for an alias and in another for a model.
ResolveAliased(n, alias) ==
    LET c == AliasSpec(n) IN
    ApplyDynamicCost(IF overrides[alias].row THEN Replanned(ApplyOverride(c, overrides[alias])) ELSE c)
ResolveModel(alias) ==
    LET spec == ByAlias[catalog][alias]
        repriced == dynamicCosts # 0 /\ spec.jst \in DOMAIN MinCosts[dynamicCosts]
    IN  CASE overrides[alias].row -> ApplyDynamicCost(Replanned(ApplyOverride(spec, overrides[alias])))
          [] ~overrides[alias].row /\ repriced -> [spec EXCEPT !.cost = MinCosts[dynamicCosts][spec.jst]]
          [] OTHER -> spec

Resolvable(alias) == Transparent(catalog, alias) # {} \/ alias \in DOMAIN ByAlias[catalog]
Resolve(alias) ==
    IF Transparent(catalog, alias) # {}
    THEN ResolveAliased(CHOOSE n \in Transparent(catalog, alias): TRUE, alias)
    ELSE ResolveModel(alias)

\* List merges in a third.
ListEntry(a) ==
    LET c == ByAlias[catalog][a]
        merged == IF overrides[a].row THEN Replanned(ApplyOverride(c, overrides[a])) ELSE c
    IN  ApplyDynamicCost(merged)
List == {ListEntry(a): a \in DOMAIN ByAlias[catalog]}

StarterLocked(jst) == jst \in locked
\* What Generate asks of an account: the plan floor, and a paid plan.
PickFloor(spec) ==
    IF StarterLocked(spec.jst) \/ "requires_paid" \in spec.flags THEN Stricter(spec.plan, "pro") ELSE spec.plan
----------------------------------------------------------------------------
(* The admin handlers and Reload *)

CatalogInit ==
    /\ disk = 1 /\ table = NoOverrides
    /\ catalog = 1 /\ overrides = NoOverrides /\ locked = LockedReplaced(1)
    /\ dynamicCosts = 1       \* cost sync runs at once after a boot
    /\ handler = [h \in Handlers |-> IdleHandler]
    /\ tariff = 1 /\ snapshots = <<[v |-> 1, rules |-> RulesOf[1]]>>
    /\ sync = [pc |-> "idle", v |-> 0]
    /\ quote = [pc |-> "idle", label |-> 0, rules |-> {}]
    /\ writes = 0 /\ reboots = 0 /\ held = 0 /\ lone = 0 /\ lapse = FALSE /\ loaded = {1}

Steps(h, rec) == handler' = [handler EXCEPT ![h] = rec]
InReload(h) == handler[h].pc \in {"read", "swap", "list", "store"}
\* A reload begins: it is alone if no other is at work, and no other is any more.
Begins(h) ==
    handler' = [g \in Handlers |->
        IF g = h THEN [IdleHandler EXCEPT !.pc = "read", !.alone = \A o \in Handlers \ {h}: ~InReload(o)]
        ELSE [handler[g] EXCEPT !.alone = FALSE]]
\* What a step of a handler leaves alone.
OnlyRegistry == UNCHANGED <<dynamicCosts, tariff, snapshots, sync, quote, reboots>>

\* PUT looks the alias up before it writes.
PutChecks(h, put) ==
    /\ handler[h].pc = "idle" /\ writes < MaxPuts /\ Resolvable(put.alias)
    /\ Steps(h, [IdleHandler EXCEPT !.pc = "upsert", !.alias = put.alias,
                     !.patch = [set |-> put.set, clear |-> put.clear, row |-> TRUE]])
    /\ OnlyRegistry /\ UNCHANGED <<disk, table, catalog, overrides, locked, writes, history>>
Upsert(h) ==
    /\ handler[h].pc = "upsert"
    /\ table' = [table EXCEPT ![handler[h].alias] = handler[h].patch]
    /\ writes' = writes + 1
    /\ Begins(h)
    /\ OnlyRegistry /\ UNCHANGED <<disk, catalog, overrides, locked, history>>
UpsertFails(h) ==
    /\ handler[h].pc = "upsert" /\ Steps(h, IdleHandler)
    /\ OnlyRegistry /\ UNCHANGED <<disk, table, catalog, overrides, locked, writes, history>>

\* Mutant: no refreshRegistry.
DeleteUnrefreshed(h, alias) ==
    /\ handler[h].pc = "idle" /\ table[alias].row /\ writes < MaxPuts
    /\ table' = [table EXCEPT ![alias] = NoPatch]
    /\ writes' = writes + 1
    /\ UNCHANGED handler
    /\ OnlyRegistry /\ UNCHANGED <<disk, catalog, overrides, locked, history>>
\* (of an alias without a row it is only a reload: PostReload)
Delete(h, alias) ==
    /\ handler[h].pc = "idle" /\ table[alias].row /\ writes < MaxPuts
    /\ table' = [table EXCEPT ![alias] = NoPatch]
    /\ writes' = writes + 1
    /\ Begins(h)
    /\ OnlyRegistry /\ UNCHANGED <<disk, catalog, overrides, locked, history>>

PostReload(h) ==
    /\ handler[h].pc = "idle"
    /\ Begins(h)
    /\ OnlyRegistry /\ UNCHANGED <<disk, table, catalog, overrides, locked, writes, history>>

ReadFiles(h) ==
    /\ handler[h].pc = "read"
    /\ Steps(h, [handler[h] EXCEPT !.pc = "swap", !.v = disk])
    /\ OnlyRegistry /\ UNCHANGED <<disk, table, catalog, overrides, locked, writes, history>>
\* A file that cannot be read or parsed, or later the list: Reload returns,
\* and what it swapped by then stays.
ReloadFails(h) ==
    /\ handler[h].pc \in {"read", "list"}
    /\ Steps(h, IdleHandler)
    /\ lapse' = TRUE
    /\ OnlyRegistry /\ UNCHANGED <<disk, table, catalog, overrides, locked, writes, held, lone, loaded>>

SwapCatalog(h) ==
    /\ handler[h].pc = "swap"
    /\ catalog' = handler[h].v /\ locked' = Locks(handler[h].v)
    /\ loaded' = loaded \cup {handler[h].v}
    /\ Steps(h, [handler[h] EXCEPT !.pc = "list", !.v = 0])
    /\ OnlyRegistry /\ UNCHANGED <<disk, table, overrides, writes, held, lone, lapse>>

\* The overrides are listed outside the lock, and stored under it later.
ListOverrides(h) ==
    /\ handler[h].pc = "list"
    /\ Steps(h, [handler[h] EXCEPT !.pc = "store", !.rows = table, !.at = writes])
    /\ OnlyRegistry /\ UNCHANGED <<disk, table, catalog, overrides, locked, writes, history>>
StoreOverrides(h) ==
    /\ handler[h].pc = "store"
    /\ overrides' = handler[h].rows
    /\ held' = handler[h].at
    /\ lone' = IF handler[h].alone THEN handler[h].at ELSE lone
    /\ lapse' = (handler[h].at # writes /\ (lapse \/ handler[h].at < held))
    /\ Steps(h, IdleHandler)
    /\ OnlyRegistry /\ UNCHANGED <<disk, table, catalog, locked, writes, loaded>>
----------------------------------------------------------------------------
(* Cost sync, and the catalogue of prices *)

OnlyPrices == UNCHANGED <<disk, table, catalog, overrides, locked, handler, writes, reboots, history>>

SyncFetches ==
    /\ sync.pc = "idle" /\ Len(snapshots) < MaxSnapshots
    /\ DOMAIN MinCosts[tariff] # {}
    /\ sync' = [pc |-> "save", v |-> tariff]
    /\ OnlyPrices /\ UNCHANGED <<dynamicCosts, tariff, snapshots, quote>>

\* SaveSnapshot: the snapshot and all its rules in one transaction, refused
\* whole for one rule whose price rounds to nothing.
SaveSnapshot ==
    /\ sync.pc = "save" /\ \A r \in RulesOf[sync.v]: r.rule.credits > 0
    /\ snapshots' = Append(snapshots, [v |-> sync.v, rules |-> RulesOf[sync.v]])
    /\ sync' = [sync EXCEPT !.pc = "push"]
    /\ OnlyPrices /\ UNCHANGED <<dynamicCosts, tariff, quote>>
SaveFails ==
    /\ sync.pc = "save"
    /\ sync' = [sync EXCEPT !.pc = "idle"]
    /\ OnlyPrices /\ UNCHANGED <<snapshots, dynamicCosts, tariff, quote>>

SetDynamicCosts ==
    /\ sync.pc = "push"
    /\ dynamicCosts' = sync.v
    /\ sync' = [sync EXCEPT !.pc = "idle"]
    /\ OnlyPrices /\ UNCHANGED <<snapshots, tariff, quote>>

\* HandlePricingCatalog: the newest snapshot, then the newest one's rules.
LatestSnapshot ==
    /\ quote.pc # "rules" /\ snapshots # <<>>
    /\ quote' = [pc |-> "rules", label |-> Len(snapshots), rules |-> {}]
    /\ OnlyPrices /\ UNCHANGED <<dynamicCosts, tariff, snapshots, sync>>
ListLatestRules ==
    /\ quote.pc = "rules"
    /\ quote' = [quote EXCEPT !.pc = "sent", !.rules = snapshots[Len(snapshots)].rules]
    /\ OnlyPrices /\ UNCHANGED <<dynamicCosts, tariff, snapshots, sync>>

\* Upstream changes its prices. (external)
TariffChanges ==
    /\ tariff + 1 \in DOMAIN Tariffs /\ tariff' = tariff + 1
    /\ OnlyPrices /\ UNCHANGED <<dynamicCosts, snapshots, sync, quote>>
\* dump-verified-models.mjs writes the files anew. (external)
FilesChange ==
    /\ disk + 1 \in DOMAIN Files /\ disk' = disk + 1
    /\ UNCHANGED <<table, catalog, overrides, locked, dynamicCosts, handler, tariff, snapshots, sync, quote,
                   writes, reboots, history>>

\* The process boots: New loads the files, main wires the overrides and
\* reloads; a failed list leaves the registry without them.
CatalogReboot ==
    /\ reboots < MaxReboots /\ reboots' = reboots + 1
    /\ catalog' = disk /\ locked' = LockedReplaced(disk) /\ loaded' = {disk}
    /\ \/ overrides' = table /\ held' = writes /\ lone' = writes /\ lapse' = FALSE
       \/ overrides' = NoOverrides /\ held' = 0 /\ lone' = 0 /\ lapse' = TRUE
    /\ dynamicCosts' = 0 /\ sync' = [pc |-> "idle", v |-> 0]
    /\ handler' = [h \in Handlers |-> IdleHandler]
    /\ quote' = [pc |-> "idle", label |-> 0, rules |-> {}]
    /\ UNCHANGED <<disk, table, tariff, snapshots, writes>>

ReloadStep(h) == \/ PostReload(h) \/ ReadFiles(h) \/ ReloadFails(h) \/ SwapCatalog(h)
                 \/ ListOverrides(h) \/ StoreOverrides(h)
CatalogNext ==
    \/ \E h \in Handlers:
        \/ ReloadStep(h) \/ Upsert(h) \/ UpsertFails(h)
        \/ (\E a \in Names: Delete(h, a)) \/ \E p \in Puts: PutChecks(h, p)
    \/ FilesChange \/ CatalogReboot
PricesNext ==
    \/ SyncFetches \/ SaveSnapshot \/ SaveFails \/ SetDynamicCosts
    \/ LatestSnapshot \/ ListLatestRules \/ TariffChanges \/ CatalogReboot
CatalogSpec == CatalogInit /\ [][CatalogNext \/ PricesNext]_catalogVars
----------------------------------------------------------------------------
AtRest == \A h \in Handlers: handler[h].pc = "idle"

(* The registry's overrides are those of the table after some write: never  *)
(* of an older one than a reload that ran alone has read, and, with no      *)
(* request at work, of the newest one unless a reload failed or one that    *)
(* listed them earlier stored them later.  The overlap is possible, and     *)
(* then the handler's "otherwise the very next /v1/models call would still  *)
(* serve the pre-write view" is what happens, until the next reload.        *)
OverridesServed ==
    /\ lone <= held
    /\ held = writes => overrides = table
    /\ AtRest /\ held # writes => lapse

LockedSinceBoot == UNION {LockedReplaced(v): v \in loaded}

(* What an account must have to be picked for a model is the plan that      *)
(* /v1/models shows for it, raised to a paid one if a version of the files   *)
(* loaded since the boot locked its JST: a lock outlives the override that   *)
(* lifts it and the reload that drops it, and every reload adds its own.     *)
GateAsShown ==
    /\ catalog \in loaded
    /\ \A a \in Names: Resolvable(a) =>
        LET shown == Resolve(a) IN
        PickFloor(shown) = IF shown.jst \in LockedSinceBoot THEN Stricter(shown.plan, "pro") ELSE shown.plan

(* The model list and a request for a model agree on its gate, its plan and *)
(* its price, whatever is layered on it: the merge is written three times.  *)
ListAsResolved ==
    \A spec \in List: Transparent(catalog, spec.alias) = {} => Resolve(spec.alias) = spec

(* The rules a price quote shows are those of one whole snapshot, never of  *)
(* one half written, and never of an older one than its label names.        *)
QuoteWhole ==
    quote.pc = "sent" =>
        \E i \in DOMAIN snapshots: i >= quote.label /\ quote.rules = RulesOf[snapshots[i].v]

FloorOn(snapshot, j) ==
    LET prices == {r.rule.credits: r \in {x \in snapshot.rules: x.jst = j}}
    IN  CHOOSE p \in prices: \A q \in prices: p <= q
OnRecord(snapshot) ==
    /\ snapshot.v = dynamicCosts
    /\ \A j \in DOMAIN MinCosts[dynamicCosts]: MinCosts[dynamicCosts][j] = FloorOn(snapshot, j)

(* The prices requests are gated on are on record: the floor pushed for each *)
(* JST is the cheapest of the rules saved for it, which another walk of the  *)
(* table found, in the newest snapshot, or in the one before while a sync is *)
(* between its two writes.                                                   *)
OverlayOnRecord ==
    dynamicCosts # 0 =>
        \/ OnRecord(snapshots[Len(snapshots)])
        \/ sync.pc = "push" /\ OnRecord(snapshots[Len(snapshots) - 1])

(* Every price shown or gated on is that of one saved snapshot, through     *)
(* syncs, failed saves and crashes between the two writes of a sync.        *)
PricesOnRecord == QuoteWhole /\ OverlayOnRecord
=============================================================================

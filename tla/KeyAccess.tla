----------------------------- MODULE KeyAccess -----------------------------
(* API keys: their rows (sqlite/apikey_store.go), the operator's and the CPA *)
(* platform's handlers over them (admin/keys.go, api/cpaplugin), and what a  *)
(* request goes through before proxy.Generate: authentication, the           *)
(* playground's scope gates, group resolution and the quota gate.            *)
EXTENDS GroupStore

CONSTANTS
    PartnerKeys,   \* the keys a CPA partner registers
    Provisioned,   \* the keys that exist at the start
    Reqs,          \* concurrent requests
    Rotations,     \* concurrent POST /keys/{id}/rotate requests
    Quotas,        \* values of monthly_quota, 0 for none
    Est,           \* the model's estimated cost
    Charges,       \* what a job may be charged, markup included
    MaxSends,      \* requests sent in a behaviour
    MaxSecrets,    \* secrets ever minted per key
    NoGroup        \* the global pool

ASSUME KeyAssumption ==
    /\ PartnerKeys \subseteq Keys /\ Provisioned \subseteq Keys /\ Quotas \subseteq Nat
    /\ Est \in Charges \ {0} /\ Charges \subseteq Nat /\ \E c \in Charges: \A d \in Charges: d <= c
    /\ Reqs # {} /\ IsFiniteSet(Reqs) /\ MaxSends \in Nat
    /\ MaxSecrets \in Nat \ {0} /\ NoGroup \notin Groups

MaxCharge == CHOOSE c \in Charges: \A d \in Charges: d <= c

VARIABLES
    keys,       \* api_keys rows; secret stands for key_hash
    minted,     \* key -> the secrets generated so far
    rotating,   \* rotation -> the key and the secret it minted
    deleting,   \* DELETE /internal/{partner}: the keys it listed and has left
    req,        \* the requests
    sends,
    barred,     \* the keys a finished partner delete found active (history)
    seen,       \* request -> what some instant of its life allowed (history)
    room        \* key -> the usage its quotas and ungated calls explain (history)

keyVars == <<keys, minted, rotating, deleting, req, sends, barred, seen, room, groupVars>>

Scopes == {"none", "cheap", "full"}
KeyStatuses == {"none", "active", "paused", "revoked"}
Kinds == {"v1", "playground", "impersonate", "execute"}
NoRotation == [on |-> FALSE, k |-> CHOOSE k \in Keys: TRUE, secret |-> 0]
NotDeleting == [on |-> FALSE, left |-> {}, listed |-> {}, errors |-> FALSE]

\* A request: the key and secret it presents, how dear its model is, and the
\* snapshot of the key that authentication put in its context.
NoSnap == [used |-> 0, quota |-> 0, scope |-> "none", group |-> NoGroup]
NoReq == [pc |-> "idle", kind |-> "v1", k |-> CHOOSE k \in Keys: TRUE, secret |-> 0,
          cheap |-> TRUE, snap |-> NoSnap, scope |-> <<>>, blind |-> FALSE]
NotSeen == [allowed |-> FALSE, unconfined |-> FALSE]
NoCap == 0 - 1     \* the key has had no quota at some time

KeyInit ==
    /\ GroupInit
    /\ \E quota \in Quotas:
        keys = [k \in Keys |-> [st |-> IF k \in Provisioned THEN "active" ELSE "none",
                                secret |-> IF k \in Provisioned THEN 1 ELSE 0, used |-> 0,
                                quota |-> IF k \in Provisioned THEN quota ELSE 0,
                                scope |-> "none", group |-> NoGroup]]
    /\ minted = [k \in Keys |-> keys[k].secret]
    /\ room = [k \in Keys |-> IF keys[k].quota = 0 THEN NoCap ELSE keys[k].quota]
    /\ rotating = [t \in Rotations |-> NoRotation]
    /\ deleting = NotDeleting /\ barred = {}
    /\ req = [r \in Reqs |-> NoReq] /\ sends = 0 /\ seen = [r \in Reqs |-> NotSeen]

AllowsModel(scope, cheap) == scope = "full" \/ (scope = "cheap" /\ cheap)
HasBudget(row, charge) == row.quota = 0 \/ row.used + charge <= row.quota

OnlyKeys == UNCHANGED <<rotating, deleting, req, sends, barred, groups, members, bindings, editing, spent>>
Writes(k, row) == keys' = [keys EXCEPT ![k] = row]

\* Generate: a fresh secret of the key.
Mint(k) == minted[k] < MaxSecrets /\ minted' = [minted EXCEPT ![k] = @ + 1]

NewKeyRow(secret, quota, scope, group) ==
    [st |-> "active", secret |-> secret, used |-> 0, quota |-> quota, scope |-> scope, group |-> group]

\* POST /admin/keys: an active key of no partner, without a group of its own.
CreateKey(k, quota, scope) ==
    /\ Edits /\ keys[k].st = "none" /\ k \notin PartnerKeys /\ Mint(k)
    /\ Writes(k, NewKeyRow(minted'[k], quota, scope, NoGroup))
    /\ OnlyKeys
\* POST /internal/register: a partner's key, perhaps with a group of its own.
HandleRegister(k, quota, group) ==
    /\ Edits /\ keys[k].st = "none" /\ k \in PartnerKeys /\ Mint(k)
    /\ Writes(k, NewKeyRow(minted'[k], quota, "none", group))
    /\ OnlyKeys

Exists(k) == keys[k].st # "none"

\* The store's status transitions.
Revoke(row) == [row EXCEPT !.st = "revoked"]
Pause(row) == IF row.st = "active" THEN [row EXCEPT !.st = "paused"] ELSE row
Resume(row) == IF row.st = "paused" THEN [row EXCEPT !.st = "active"] ELSE row
ResetMonthlyUsage(row) == [row EXCEPT !.used = 0]
IncrementTwice(row, charge) == [row EXCEPT !.used = @ + 2 * charge]
IncrementUsage(row, charge) == [row EXCEPT !.used = @ + charge]
UpdatePlaygroundScope(row, scope) == [row EXCEPT !.scope = scope]
UpdateMeta(row, quota) == [row EXCEPT !.quota = quota]

\* The operator's handlers: each is one statement on an existing row.
Rewrite(k, row) == Edits /\ Exists(k) /\ row # keys[k] /\ Writes(k, row) /\ UNCHANGED minted /\ OnlyKeys
RevokeKey(k) == Rewrite(k, Revoke(keys[k]))
PauseKey(k) == Rewrite(k, Pause(keys[k]))
ResumeKey(k) == Rewrite(k, Resume(keys[k]))
ResetUsage(k) == Rewrite(k, ResetMonthlyUsage(keys[k]))
Patch(k, quota) == Rewrite(k, UpdateMeta(keys[k], quota))
SetPlaygroundScope(k, scope) == Rewrite(k, UpdatePlaygroundScope(keys[k], scope))

\* Rotate: read the row for its kind and mint, then swap the hash -- of any
\* row, revoked ones too.
RotateMints(t, k) ==
    /\ Edits /\ ~rotating[t].on /\ Exists(k) /\ Mint(k)
    /\ rotating' = [rotating EXCEPT ![t] = [on |-> TRUE, k |-> k, secret |-> minted'[k]]]
    /\ UNCHANGED <<keys, deleting, req, sends, barred, groups, members, bindings, editing, spent>>
RotateSwaps(t) ==
    /\ rotating[t].on
    /\ Writes(rotating[t].k, [keys[rotating[t].k] EXCEPT !.secret = rotating[t].secret])
    /\ rotating' = [rotating EXCEPT ![t] = NoRotation]
    /\ UNCHANGED <<minted, deleting, req, sends, barred, groupVars>>

\* DELETE /internal/{partner}: list the partner's keys, then revoke the ones
\* the listing showed active, one statement each; errors are skipped over.
ListByCPAPartner == {k \in PartnerKeys: Exists(k)}
HandleDelete ==
    /\ Edits /\ ~deleting.on
    /\ LET listed == ListByCPAPartner
           active == {k \in listed: keys[k].st = "active"}
       IN /\ listed # {}
          /\ deleting' = [on |-> TRUE, left |-> active, listed |-> active, errors |-> FALSE]
    /\ UNCHANGED <<keys, minted, rotating, req, sends, barred, groups, members, bindings, editing, spent>>
DeleteRevokes(k) ==
    /\ deleting.on /\ k \in deleting.left
    /\ Writes(k, Revoke(keys[k]))
    /\ deleting' = [deleting EXCEPT !.left = @ \ {k}]
    /\ UNCHANGED <<minted, rotating, req, sends, barred, groupVars>>
DeleteSkips(k) ==
    /\ deleting.on /\ k \in deleting.left
    /\ deleting' = [deleting EXCEPT !.left = @ \ {k}, !.errors = TRUE]
    /\ UNCHANGED <<keys, minted, rotating, req, sends, barred, groupVars>>
DeleteEnds ==
    /\ deleting.on /\ deleting.left = {}
    /\ barred' = IF deleting.errors THEN barred ELSE barred \cup deleting.listed
    /\ deleting' = NotDeleting
    /\ UNCHANGED <<keys, minted, rotating, req, sends, groupVars>>
----------------------------------------------------------------------------
OnlyReq == UNCHANGED <<keys, minted, rotating, deleting, sends, barred, groupVars>>
Moves(r, rec) == req' = [req EXCEPT ![r] = rec]
Refused(r) == Moves(r, NoReq)

\* A caller sends a request with a secret it was once given, or, through the
\* admin bearer or the internal bearer, names a key by its id.
Send(r, kind, k, secret, cheap) ==
    /\ req[r].pc = "idle" /\ secret \in 1..minted[k]
    /\ kind \in {"impersonate", "execute"} => secret = 1
    /\ kind \in {"v1", "execute"} => cheap   \* only the playground asks the price
    /\ Moves(r, [NoReq EXCEPT !.pc = "sent", !.kind = kind, !.k = k, !.secret = secret, !.cheap = cheap])
    /\ sends < MaxSends /\ sends' = sends + 1
    /\ UNCHANGED <<keys, minted, rotating, deleting, barred, groupVars>>

Snapshot(row) == [used |-> row.used, quota |-> row.quota, scope |-> row.scope, group |-> row.group]

\* APIKeyAuth: the hash must match, the status be active, the budget not spent.
APIKeyAuth(row, secret) == row.secret = secret /\ row.st = "active" /\ HasBudget(row, 0)
\* PlaygroundAuth and PlaygroundGate; the handler checks the model's cost.
PlaygroundAuth(row, secret) == APIKeyAuth(row, secret)
PlaygroundGate(row) == row.scope \in {"cheap", "full"}
HandlePlaygroundExecute(row, cheap) == AllowsModel(row.scope, cheap)
\* resolveExecutionIdentity of an admin that names a key; no budget is looked at.
ImpersonateAnyScope(row, cheap) == row.st = "active"
ResolveExecutionIdentity(row, cheap) ==
    row.st = "active" /\ PlaygroundGate(row) /\ HandlePlaygroundExecute(row, cheap)
\* resolveExecuteKey: a key named by id, or the partner's first active one.
ResolveExecuteKey(row) == row.st = "active"

Admits(row, q) ==
    CASE q.kind = "v1" -> APIKeyAuth(row, q.secret)
      [] q.kind = "playground" -> PlaygroundAuth(row, q.secret) /\ PlaygroundGate(row)
                               /\ HandlePlaygroundExecute(row, q.cheap)
      [] q.kind = "impersonate" -> ResolveExecutionIdentity(row, q.cheap)
      [] q.kind = "execute" -> ResolveExecuteKey(row)

\* The key is looked up once; its snapshot rides in the request's context.
Authenticate(r) ==
    LET q == req[r] row == keys[q.k]
    IN /\ q.pc = "sent"
       /\ IF Admits(row, q) THEN Moves(r, [q EXCEPT !.pc = "known", !.snap = Snapshot(row)])
          ELSE Refused(r)
       /\ OnlyReq

\* resolveGroup: a group named in the body, the key's own, the bound ones by
\* name, or the global pool -- which is also where a failed listing leads.
\* /internal/execute passes the body's group on and resolves nothing.
ScopeUnlessOne(q, pinned, bound) ==
    IF pinned # NoGroup THEN <<pinned>>
    ELSE IF q.snap.group # NoGroup THEN <<q.snap.group>>
    ELSE IF Len(bound) # 1 THEN <<NoGroup>> ELSE bound
Scope(q, pinned, bound) ==
    IF pinned # NoGroup THEN <<pinned>>
    ELSE IF q.kind = "execute" THEN <<NoGroup>>
    ELSE IF q.snap.group # NoGroup THEN <<q.snap.group>>
    ELSE IF bound = <<>> THEN <<NoGroup>> ELSE bound

ResolveGroup(r, pinned) ==
    LET q == req[r]
    IN /\ q.pc = "known"
       /\ Moves(r, [q EXCEPT !.pc = "scoped", !.blind = pinned # NoGroup,
                             !.scope = Scope(q, pinned, ListGroupsForAPIKey(q.k))])
       /\ OnlyReq
ResolveGroupFails(r) ==
    LET q == req[r]
    IN /\ q.pc = "known" /\ q.kind # "execute" /\ q.snap.group = NoGroup
       /\ Moves(r, [q EXCEPT !.pc = "scoped", !.blind = TRUE, !.scope = Scope(q, NoGroup, <<>>)])
       /\ OnlyReq

\* enforceKeyGates, on the snapshot; an execute call carries no quota.
Carried(q) == IF q.kind = "execute" THEN NoSnap ELSE q.snap
EnforceKeyGates(q) == HasBudget(Carried(q), Est)

Generate(r) ==
    /\ req[r].pc = "scoped"
    /\ IF EnforceKeyGates(req[r]) THEN Moves(r, [req[r] EXCEPT !.pc = "running"]) ELSE Refused(r)
    /\ OnlyReq

\* The job ends: metering charges the key and the group it ran in (the first
\* of its scope; spillover to the others is Pool's).
Finish(r, charge) ==
    LET q == req[r]
    IN /\ q.pc = "running"
       /\ Writes(q.k, IncrementUsage(keys[q.k], charge))
       /\ IF q.scope[1] = NoGroup THEN UNCHANGED <<groups, spent>> ELSE IncrementUsed(q.scope[1], charge)
       /\ Refused(r)
       /\ UNCHANGED <<minted, rotating, deleting, sends, barred, members, bindings, editing, edits>>

\* What would let the request through at this instant, and what would leave
\* it the whole pool.
Allowed(row, q) ==
    /\ row.st = "active"
    /\ q.kind \in {"v1", "playground"} => row.secret = q.secret
    /\ q.kind \in {"playground", "impersonate"} => row.scope = "full" \/ (row.scope = "cheap" /\ q.cheap)
    /\ q.kind # "execute" => row.quota = 0 \/ row.used + Est <= row.quota
Unconfined(row, q, bound) == q.kind = "execute" \/ (row.group = NoGroup /\ \A b \in bound: b[1] # q.k)

Larger(x, y) == IF x > y THEN x ELSE y

\* The history variables look at every step's outcome.
Watch ==
    /\ seen' = [r \in Reqs |->
           LET q == req'[r]
           IN IF q.pc = "idle" THEN NotSeen
              ELSE [allowed |-> seen[r].allowed \/ (q.pc = "sent" /\ Allowed(keys'[q.k], q)),
                    unconfined |-> seen[r].unconfined \/ Unconfined(keys'[q.k], q, bindings')]]
    /\ room' = [k \in Keys |->
           LET ungated == \E r \in Reqs: req[r].pc = "running" /\ req'[r].pc = "idle"
                                         /\ req[r].kind = "execute" /\ req[r].k = k
               quota == keys'[k].quota
           IN IF quota = 0 \/ (room[k] = NoCap /\ Exists(k)) THEN NoCap
              ELSE Larger(room[k], quota) + (IF ungated THEN keys'[k].used - keys[k].used ELSE 0)]

KeyAdmin ==
    \/ \E k \in Keys:
        \/ \E quota \in Quotas: \/ \E s \in Scopes: CreateKey(k, quota, s)
                                \/ \E g \in Groups \cup {NoGroup}: HandleRegister(k, quota, g)
                                \/ Patch(k, quota)
        \/ RevokeKey(k) \/ PauseKey(k) \/ ResumeKey(k) \/ ResetUsage(k)
        \/ \E s \in Scopes: SetPlaygroundScope(k, s)
        \/ \E t \in Rotations: RotateMints(t, k)
        \/ DeleteRevokes(k) \/ DeleteSkips(k)
    \/ \E t \in Rotations: RotateSwaps(t)
    \/ HandleDelete \/ DeleteEnds
GroupStep ==
    /\ GroupAdmin({k \in Keys: Exists(k)}) \/ GroupSave
    /\ UNCHANGED <<keys, minted, rotating, deleting, req, sends, barred>>
Request(r, kinds, pins) ==
    \/ \E kind \in kinds, k \in Keys, s \in 1..MaxSecrets, c \in BOOLEAN: Send(r, kind, k, s, c)
    \/ Authenticate(r)
    \/ \E g \in pins: ResolveGroup(r, g)
    \/ ResolveGroupFails(r) \/ Generate(r)
    \/ \E charge \in Charges: Finish(r, charge)

\* Requests race the operator's work on keys, or on groups.
KeysNext == (KeyAdmin \/ \E r \in Reqs: Request(r, Kinds, {NoGroup})) /\ Watch
GroupsNext == (GroupStep \/ \E r \in Reqs: Request(r, {"v1", "execute"}, Groups \cup {NoGroup})) /\ Watch

\* Keys and groups together, as the proofs take them.
KeyNext == KeysNext \/ GroupsNext
KeySpec == KeyInit /\ [][KeyNext]_keyVars
----------------------------------------------------------------------------
(* Every request that runs was permitted at one instant between its arrival *)
(* and its authentication: the secret it presents was the key's, the key    *)
(* active, its playground scope wide enough and its quota not spent.  A     *)
(* secret rotated out, or a key revoked, before the request was sent never  *)
(* runs anything, whatever rotations and operators interleave with it.      *)
AdmittedAtAnInstant ==
    \A r \in Reqs: req[r].pc = "running" => seen[r].allowed

(* What a key may overspend its monthly quota by is bounded by the requests *)
(* in flight at once: each passed the gate on a snapshot taken before the   *)
(* others were charged.  What /internal/execute spends comes on top: it     *)
(* passes no gate.                                                          *)
OverspendBounded ==
    \A k \in Keys: Exists(k) /\ room[k] # NoCap
        => keys[k].used <= room[k] - Est + MaxCharge * Cardinality(Reqs)

(* A finished partner delete that met no error leaves every key it found    *)
(* active revoked for good, whatever the operator did to them meanwhile.    *)
DeletedKeysStayRevoked == \A k \in barred: keys[k].st = "revoked"

(* Revocation is final: no pause, resume, rotation or patch of a stale page *)
(* brings a revoked key back.                                               *)
RevokedIsFinal == [][\A k \in Keys: keys[k].st = "revoked" => keys'[k].st = "revoked"]_keyVars

(* A key confined to groups runs in the whole pool only if, at some instant  *)
(* of the request, nothing confined it (its last group was deleted under it, *)
(* say), or the listing of its groups failed.                                *)
ConfinementExplained ==
    \A r \in Reqs: req[r].pc \in {"scoped", "running"} /\ req[r].scope[1] = NoGroup
        => req[r].blind \/ seen[r].unconfined
============================================================================

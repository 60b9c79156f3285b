--------------------------- MODULE AccessProofs ---------------------------
(* What the API lets in and what it serves: keys and groups (KeyAccess), the *)
(* admin bearer (BearerManager), the rate limit (RateLimit), the registry    *)
(* and the prices on it (ModelCatalog), the feed and the floor (Pricing), and *)
(* all of them together (Access), for any keys, groups, requests, charges,   *)
(* rotations, rates, catalogue files, price tables, decisions and batches.   *)
EXTENDS Access, FiniteSetTheorems, WellFoundedInduction, TLAPS

AnyKey == Keys \cup {CHOOSE k \in Keys: TRUE}
KeyRows == [st: KeyStatuses, secret: Nat, used: Nat, quota: Nat, scope: Scopes,
            group: Groups \cup {NoGroup}]
GroupRows == [exists: BOOLEAN, budget: Nat, route: Strategies, used: Nat]
Loaded == [on: {TRUE}, g: Groups, row: [exists: {TRUE}, budget: Nat, route: Strategies, used: Nat]]
Snaps == [used: Nat, quota: Nat, scope: Scopes, group: Groups \cup {NoGroup}]
PCs == {"idle", "sent", "known", "scoped", "running"}

\* A request's record; what its scope holds is left open.
ReqRecs(scope, blind) ==
    [pc: PCs, kind: Kinds, k: AnyKey, secret: Nat, cheap: BOOLEAN, snap: Snaps, scope: {scope}, blind: {blind}]
ReqOK(q) == q \in ReqRecs(q.scope, q.blind) /\ (q.pc # "idle" => q.k \in Keys)

KeysOK == keys \in [Keys -> KeyRows] /\ minted \in [Keys -> Nat]
RotatingOK ==
    /\ rotating \in [Rotations -> [on: BOOLEAN, k: AnyKey, secret: Nat]]
    /\ \A t \in Rotations: rotating[t].on => rotating[t].k \in Keys
DeletingOK ==
    /\ deleting \in [on: BOOLEAN, left: SUBSET PartnerKeys, listed: SUBSET PartnerKeys, errors: BOOLEAN]
    /\ barred \subseteq PartnerKeys
GroupsOK ==
    /\ groups \in [Groups -> GroupRows]
    /\ spent \in [Groups -> Nat]
    /\ editing \in [Editors -> {Closed} \cup Loaded]
    /\ members \subseteq Accounts \X Groups /\ bindings \subseteq Keys \X Groups
ReqsOK == DOMAIN req = Reqs /\ \A r \in Reqs: ReqOK(req[r])

Types == KeysOK /\ RotatingOK /\ DeletingOK /\ GroupsOK /\ ReqsOK

LEMMA TypesInit == KeyInit => Types
<1> SUFFICES ASSUME KeyInit PROVE Types
    OBVIOUS
<1> USE GroupAssumption, KeyAssumption
<1>1. GroupsOK
    BY DEF KeyInit, GroupInit, GroupsOK, NewGroupRow, GroupRows, Strategies
<1>2. KeysOK
    BY DEF KeyInit, KeysOK, KeyRows, KeyStatuses, Scopes
<1>3. RotatingOK
    BY DEF KeyInit, RotatingOK, NoRotation, AnyKey
<1>4. DeletingOK
    BY DEF KeyInit, DeletingOK, NotDeleting
<1>5. ReqsOK
    BY DEF KeyInit, ReqsOK, ReqOK, ReqRecs, NoReq, NoSnap, Snaps, PCs, Kinds, Scopes, AnyKey
<1> QED
    BY <1>1, <1>2, <1>3, <1>4, <1>5 DEF Types
----------------------------------------------------------------------------
\* A step is one of these; the requests of both compositions are taken
\* together, and so are the operator's one-statement rewrites of a row.
Rewrites ==
    \E k \in Keys:
        \/ RevokeKey(k) \/ PauseKey(k) \/ ResumeKey(k) \/ ResetUsage(k)
        \/ \E quota \in Quotas: Patch(k, quota)
        \/ \E s \in Scopes: SetPlaygroundScope(k, s)
Makes ==
    \E k \in Keys, quota \in Quotas:
        \/ \E s \in Scopes: CreateKey(k, quota, s)
        \/ \E g \in Groups \cup {NoGroup}: HandleRegister(k, quota, g)
Rotates ==
    \/ \E t \in Rotations, k \in Keys: RotateMints(t, k)
    \/ \E t \in Rotations: RotateSwaps(t)
Deletes ==
    \/ HandleDelete \/ DeleteEnds
    \/ \E k \in Keys: DeleteRevokes(k) \/ DeleteSkips(k)
Sends ==
    \E r \in Reqs, kind \in Kinds, k \in Keys, s \in 1..MaxSecrets, c \in BOOLEAN: Send(r, kind, k, s, c)
Advances ==
    \E r \in Reqs:
        \/ Authenticate(r) \/ ResolveGroupFails(r) \/ Generate(r)
        \/ \E g \in Groups \cup {NoGroup}: ResolveGroup(r, g)
Finishes == \E r \in Reqs, charge \in Charges: Finish(r, charge)

LEMMA NextCases ==
  ASSUME KeyNext
  PROVE  Watch /\ (Rewrites \/ Makes \/ Rotates \/ Deletes \/ GroupStep \/ Sends \/ Advances \/ Finishes)
  <1>1. CASE KeysNext
    <2>1. CASE KeyAdmin
        BY <1>1, <2>1 DEF KeysNext, KeyAdmin, Rewrites, Makes, Rotates, Deletes
    <2>2. CASE \E r \in Reqs: Request(r, Kinds, {NoGroup})
        BY <1>1, <2>2 DEF KeysNext, Request, Sends, Advances, Finishes
    <2> QED
        BY <1>1, <2>1, <2>2 DEF KeysNext
  <1>2. CASE GroupsNext
    <2>1. CASE GroupStep
        BY <1>2, <2>1 DEF GroupsNext
    <2>2. CASE \E r \in Reqs: Request(r, {"v1", "execute"}, Groups \cup {NoGroup})
        BY <1>2, <2>2 DEF GroupsNext, Request, Sends, Advances, Finishes, Kinds
    <2> QED
        BY <1>2, <2>1, <2>2 DEF GroupsNext
  <1> QED
    BY <1>1, <1>2 DEF KeyNext

\* What a rewrite or a charge makes of a row, and what it never does.
RowStep(old, new) ==
    /\ new \in KeyRows
    /\ old.st = "revoked" => new.st = "revoked"
    /\ old.st # "none" => new.st # "none" /\ new.group = old.group
\* Only a charge raises a row's usage.
RowEdit(old, new) == RowStep(old, new) /\ new.used \in {old.used, 0}

LEMMA RowRewrites ==
  ASSUME NEW row \in KeyRows, NEW quota \in Nat, NEW s \in Scopes, NEW n \in Nat
  PROVE  /\ RowEdit(row, Revoke(row)) /\ Revoke(row).st = "revoked"
         /\ RowEdit(row, Pause(row)) /\ RowEdit(row, Resume(row))
         /\ RowEdit(row, ResetMonthlyUsage(row)) /\ RowStep(row, IncrementUsage(row, n))
         /\ RowEdit(row, UpdatePlaygroundScope(row, s)) /\ RowEdit(row, UpdateMeta(row, quota))
         /\ RowEdit(row, [row EXCEPT !.secret = n])
         /\ IncrementUsage(row, n).used = row.used + n /\ IncrementUsage(row, n).quota = row.quota
  BY DEF KeyRows, KeyStatuses, RowEdit, RowStep, Revoke, Pause, Resume, ResetMonthlyUsage, IncrementUsage,
         UpdatePlaygroundScope, UpdateMeta

\* Every step writes at most one key row, and in one of these ways.
LEMMA KeyWrites ==
  ASSUME Types, KeyNext
  PROVE  \/ UNCHANGED keys
         \/ \E k \in Keys, new \in KeyRows:
               RowStep(keys[k], new) /\ (Finishes \/ RowEdit(keys[k], new)) /\ keys' = [keys EXCEPT ![k] = new]
  <1> USE GroupAssumption, KeyAssumption
  <1> DEFINE Done == \/ UNCHANGED keys
                     \/ \E k \in Keys, new \in KeyRows:
                          RowStep(keys[k], new) /\ (Finishes \/ RowEdit(keys[k], new)) /\ keys' = [keys EXCEPT ![k] = new]
  <1>0. \A k \in Keys: keys[k] \in KeyRows
    BY DEF Types, KeysOK
  <1>w. ASSUME NEW k \in Keys, NEW new, RowEdit(keys[k], new), Writes(k, new) PROVE Done
    BY <1>w DEF Writes, RowEdit, RowStep
  <1>1. CASE Rewrites
    <2>1. PICK k \in Keys:
            \/ RevokeKey(k) \/ PauseKey(k) \/ ResumeKey(k) \/ ResetUsage(k)
            \/ \E quota \in Quotas: Patch(k, quota)
            \/ \E s \in Scopes: SetPlaygroundScope(k, s)
        BY <1>1 DEF Rewrites
    <2>2. keys[k] \in KeyRows
        BY <1>0
    <2>a. CASE RevokeKey(k)
        BY <1>w, <2>2, <2>a, RowRewrites DEF RevokeKey, Rewrite, Scopes
    <2>b. CASE PauseKey(k)
        BY <1>w, <2>2, <2>b, RowRewrites DEF PauseKey, Rewrite, Scopes
    <2>c. CASE ResumeKey(k)
        BY <1>w, <2>2, <2>c, RowRewrites DEF ResumeKey, Rewrite, Scopes
    <2>d. CASE ResetUsage(k)
        BY <1>w, <2>2, <2>d, RowRewrites DEF ResetUsage, Rewrite, Scopes
    <2>e. ASSUME NEW quota \in Quotas, Patch(k, quota) PROVE Done
      <3>1. quota \in Nat /\ "none" \in Scopes
        BY DEF Scopes
      <3>2. RowEdit(keys[k], UpdateMeta(keys[k], quota))
        BY <2>2, <3>1, RowRewrites
      <3> QED
        BY <1>w, <2>e, <3>2 DEF Patch, Rewrite
    <2>f. ASSUME NEW s \in Scopes, SetPlaygroundScope(k, s) PROVE Done
      <3>2. RowEdit(keys[k], UpdatePlaygroundScope(keys[k], s))
        BY <2>2, RowRewrites
      <3> QED
        BY <1>w, <2>f, <3>2 DEF SetPlaygroundScope, Rewrite
    <2> QED
        BY <2>1, <2>a, <2>b, <2>c, <2>d, <2>e, <2>f
  <1>2. CASE Makes
    <2>1. ASSUME NEW k \in Keys, NEW quota \in Quotas, NEW s \in Scopes, NEW g \in Groups \cup {NoGroup},
                 Mint(k), keys[k].st = "none"
          PROVE  RowEdit(keys[k], NewKeyRow(minted'[k], quota, s, g))
        BY <2>1 DEF RowEdit, RowStep, NewKeyRow, KeyRows, KeyStatuses, Mint, Types, KeysOK
    <2>2. ASSUME NEW k \in Keys, NEW quota \in Quotas, NEW s \in Scopes, CreateKey(k, quota, s) PROVE Done
      <3>1. RowEdit(keys[k], NewKeyRow(minted'[k], quota, s, NoGroup))
        BY <2>1, <2>2 DEF CreateKey
      <3> QED
        BY <1>w, <2>2, <3>1 DEF CreateKey
    <2>3. ASSUME NEW k \in Keys, NEW quota \in Quotas, NEW g \in Groups \cup {NoGroup}, HandleRegister(k, quota, g)
          PROVE  Done
      <3>0. "none" \in Scopes
        BY DEF Scopes
      <3>1. RowEdit(keys[k], NewKeyRow(minted'[k], quota, "none", g))
        BY <2>1, <2>3, <3>0 DEF HandleRegister
      <3> QED
        BY <1>w, <2>3, <3>1 DEF HandleRegister
    <2> QED
        BY <1>2, <2>2, <2>3 DEF Makes
  <1>3. CASE Rotates
    <2>1. ASSUME NEW t \in Rotations, NEW k \in Keys, RotateMints(t, k) PROVE Done
        BY <2>1 DEF RotateMints
    <2>2. ASSUME NEW t \in Rotations, RotateSwaps(t) PROVE Done
      <3>1. rotating[t].k \in Keys /\ rotating[t].secret \in Nat
        BY <2>2 DEF RotateSwaps, Types, RotatingOK
      <3>2. RowEdit(keys[rotating[t].k], [keys[rotating[t].k] EXCEPT !.secret = rotating[t].secret])
        BY <1>0, <3>1, RowRewrites DEF Scopes
      <3> QED
        BY <1>w, <2>2, <3>1, <3>2 DEF RotateSwaps
    <2> QED
        BY <1>3, <2>1, <2>2 DEF Rotates
  <1>4. CASE Deletes
    <2>1. ASSUME NEW k \in Keys, DeleteRevokes(k) PROVE Done
      <3>1. RowEdit(keys[k], Revoke(keys[k]))
        BY <1>0, RowRewrites DEF Scopes
      <3> QED
        BY <1>w, <2>1, <3>1 DEF DeleteRevokes
    <2> QED
        BY <1>4, <2>1 DEF Deletes, HandleDelete, DeleteEnds, DeleteSkips
  <1>5. CASE GroupStep
    BY <1>5 DEF GroupStep
  <1>6. CASE Sends
    BY <1>6 DEF Sends, Send
  <1>7. CASE Advances
    BY <1>7 DEF Advances, Authenticate, ResolveGroupFails, Generate, ResolveGroup, OnlyReq
  <1>8. CASE Finishes
    <2>1. PICK r \in Reqs, charge \in Charges: Finish(r, charge)
        BY <1>8 DEF Finishes
    <2>2. req[r].k \in Keys /\ charge \in Nat
        BY <2>1 DEF Finish, Types, ReqsOK, ReqOK
    <2>3. RowStep(keys[req[r].k], IncrementUsage(keys[req[r].k], charge))
        BY <1>0, <2>2, RowRewrites DEF Scopes
    <2> QED
        BY <1>8, <2>1, <2>2, <2>3 DEF Finish, Writes, RowStep
  <1> QED
    BY <1>1, <1>2, <1>3, <1>4, <1>5, <1>6, <1>7, <1>8, NextCases
----------------------------------------------------------------------------
\* Types are preserved, part by part.
LEMMA KeysOKNext == ASSUME Types, KeyNext PROVE KeysOK'
  <1>1. keys' \in [Keys -> KeyRows]
    BY KeyWrites DEF Types, KeysOK
  <1>2. minted' \in [Keys -> Nat]
    <2>1. UNCHANGED minted \/ \E k \in Keys: Mint(k)
      BY NextCases DEF Rewrites, RevokeKey, PauseKey, ResumeKey, ResetUsage, Patch,
         SetPlaygroundScope, Rewrite, Makes, CreateKey, HandleRegister, Rotates, RotateMints,
         RotateSwaps, Deletes, HandleDelete, DeleteEnds, DeleteRevokes, DeleteSkips, GroupStep, Sends, Send,
         Advances, Authenticate, ResolveGroupFails, Generate, ResolveGroup, OnlyReq, Finishes, Finish
    <2> QED
      BY <2>1 DEF Types, KeysOK, Mint
  <1> QED
    BY <1>1, <1>2 DEF KeysOK

LEMMA RotatingOKNext == ASSUME Types, KeyNext PROVE RotatingOK'
  <1>1. CASE Rotates
    <2>1. ASSUME NEW t \in Rotations, NEW k \in Keys, RotateMints(t, k) PROVE RotatingOK'
      <3>1. minted'[k] \in Nat /\ k \in AnyKey
        BY <2>1, KeysOKNext DEF KeysOK, AnyKey
      <3> QED
        BY <2>1, <3>1 DEF RotateMints, Types, RotatingOK
    <2>2. ASSUME NEW t \in Rotations, RotateSwaps(t) PROVE RotatingOK'
        BY <2>2 DEF RotateSwaps, NoRotation, Types, RotatingOK, AnyKey
    <2> QED
        BY <1>1, <2>1, <2>2 DEF Rotates
  <1>2. CASE ~Rotates
    <2>1. UNCHANGED rotating
      BY <1>2, NextCases DEF Rewrites, RevokeKey, PauseKey, ResumeKey, ResetUsage, Patch, OnlyKeys,
         SetPlaygroundScope, Rewrite, Makes, CreateKey, HandleRegister,
         Deletes, HandleDelete, DeleteEnds, DeleteRevokes, DeleteSkips, GroupStep, Sends, Send,
         Advances, Authenticate, ResolveGroupFails, Generate, ResolveGroup, OnlyReq, Finishes, Finish
    <2> QED
      BY <2>1 DEF Types, RotatingOK
  <1> QED
    BY <1>1, <1>2

\* Only the partner delete touches what it is about.
LEMMA DeletingFrame == ASSUME KeyNext, ~Deletes PROVE UNCHANGED <<deleting, barred>>
  BY NextCases DEF Rewrites, RevokeKey, PauseKey, ResumeKey, ResetUsage, Patch, OnlyKeys,
     SetPlaygroundScope, Rewrite, Makes, CreateKey, HandleRegister, Rotates, RotateMints, RotateSwaps,
     GroupStep, Sends, Send,
     Advances, Authenticate, ResolveGroupFails, Generate, ResolveGroup, OnlyReq, Finishes, Finish

LEMMA DeletingOKNext == ASSUME Types, KeyNext PROVE DeletingOK'
  <1>1. CASE Deletes
    <2>1. CASE HandleDelete
        BY <2>1 DEF HandleDelete, ListByCPAPartner, Types, DeletingOK
    <2>2. CASE DeleteEnds
        BY <2>2 DEF DeleteEnds, NotDeleting, Types, DeletingOK
    <2>3. CASE \E k \in Keys: DeleteRevokes(k) \/ DeleteSkips(k)
        BY <2>3 DEF DeleteRevokes, DeleteSkips, Types, DeletingOK
    <2> QED
        BY <1>1, <2>1, <2>2, <2>3 DEF Deletes
  <1>2. CASE ~Deletes
    BY <1>2, DeletingFrame DEF Types, DeletingOK
  <1> QED
    BY <1>1, <1>2

\* The groups' tables are written by GroupStep, and by the charge of Finish.
LEMMA GroupsFrame == ASSUME KeyNext, ~GroupStep, ~Finishes PROVE UNCHANGED <<groups, members, bindings, editing, spent>>
  BY NextCases DEF Rewrites, RevokeKey, PauseKey, ResumeKey, ResetUsage, Patch, OnlyKeys,
     SetPlaygroundScope, Rewrite, Makes, CreateKey, HandleRegister, Rotates, RotateMints, RotateSwaps,
     Deletes, HandleDelete, DeleteEnds, DeleteRevokes, DeleteSkips, groupVars, Sends, Send,
     Advances, Authenticate, ResolveGroupFails, Generate, ResolveGroup, OnlyReq

\* Types and both properties of the groups' tables go together: no step of
\* these tables reads anything else.
GroupsInv == GroupsOK /\ NoDanglingLinks /\ GroupSpendKept

LEMMA ChargedGroup ==
  ASSUME NEW row \in GroupRows, NEW n \in Nat
  PROVE  LET new == [row EXCEPT !.used = @ + n]
         IN new \in GroupRows /\ new.exists = row.exists /\ new.used = row.used + n
  BY DEF GroupRows

LEMMA GroupsInvNext == ASSUME Types, GroupsInv, KeyNext PROVE GroupsInv'
  <1> USE GroupAssumption, KeyAssumption
  <1>1. CASE GroupStep
    <2>1. ASSUME NEW g \in Groups, NEW p \in Strategies \cup {"unset"}, CreateGroup(g, p) PROVE GroupsInv'
      <3>1. NewGroupRow(0, ResolveDefaultRouteStrategy(p)) \in GroupRows
        BY DEF NewGroupRow, GroupRows, ResolveDefaultRouteStrategy, Strategies
      <3> QED
        BY <2>1, <3>1 DEF CreateGroup, GroupsInv, GroupsOK, NoDanglingLinks, GroupSpendKept, NewGroupRow
    <2>2. ASSUME NEW g \in Groups, DeleteGroup(g) PROVE GroupsInv'
      <3>1. NoGroupRow \in GroupRows
        BY DEF NoGroupRow, GroupRows, Strategies
      <3>2. GroupsOK' /\ GroupSpendKept'
        BY <2>2, <3>1 DEF DeleteGroup, Cascade, GroupsInv, GroupsOK, GroupSpendKept, NoGroupRow
      <3>3. NoDanglingLinks'
        BY <2>2 DEF DeleteGroup, Cascade, GroupsInv, GroupsOK, NoDanglingLinks
      <3> QED
        BY <3>2, <3>3 DEF GroupsInv
    <2>3. ASSUME NEW e \in Editors, NEW g \in Groups, LoadGroup(e, g) PROVE GroupsInv'
      <3>1. [on |-> TRUE, g |-> g, row |-> groups[g]] \in Loaded
        BY <2>3 DEF LoadGroup, Loaded, GroupsInv, GroupsOK, GroupRows
      <3> QED
        BY <2>3, <3>1 DEF LoadGroup, GroupsInv, GroupsOK, NoDanglingLinks, GroupSpendKept
    <2>4. ASSUME NEW g \in Groups, NEW a \in Accounts, AddMember(g, a) \/ RemoveMember(g, a) PROVE GroupsInv'
        BY <2>4 DEF AddMember, RemoveMember, GroupsInv, GroupsOK, NoDanglingLinks, GroupSpendKept
    <2>5. ASSUME NEW g \in Groups, NEW k \in Keys, BindAPIKey(k, g) \/ UnbindAPIKey(k, g) PROVE GroupsInv'
        BY <2>5 DEF BindAPIKey, UnbindAPIKey, GroupsInv, GroupsOK, NoDanglingLinks, GroupSpendKept
    <2>6. ASSUME NEW e \in Editors, NEW b \in Budgets, NEW rt \in Strategies, UpdateGroup(e, b, rt)
          PROVE  GroupsInv'
      <3> DEFINE g == editing[e].g
                 merged == [editing[e].row EXCEPT !.budget = b, !.route = rt]
                 new == Updated(groups[g], merged)
      <3>1. editing[e] \in Loaded
        BY <2>6 DEF UpdateGroup, GroupsInv, GroupsOK, Closed
      <3>2. g \in Groups /\ b \in Nat /\ groups[g] \in GroupRows
        BY <3>1 DEF Loaded, GroupsInv, GroupsOK
      <3>3. new \in GroupRows /\ new.exists /\ new.used = groups[g].used
        BY <3>1, <3>2 DEF Loaded, GroupRows, Updated
      <3>4. groups' = IF groups[g].exists THEN [groups EXCEPT ![g] = new] ELSE groups
        BY <2>6 DEF UpdateGroup
      <3>5. editing' \in [Editors -> {Closed} \cup Loaded]
        BY <2>6 DEF UpdateGroup, GroupsInv, GroupsOK
      <3>6. UNCHANGED <<members, bindings, spent>>
        BY <2>6 DEF UpdateGroup
      <3> HIDE DEF g, merged, new
      <3> QED
        BY <3>2, <3>3, <3>4, <3>5, <3>6 DEF GroupsInv, GroupsOK, NoDanglingLinks, GroupSpendKept
    <2> QED
        BY <1>1, <2>1, <2>2, <2>3, <2>4, <2>5, <2>6 DEF GroupStep, GroupAdmin, GroupSave
  <1>2. CASE Finishes
    <2>1. PICK r \in Reqs, charge \in Charges: Finish(r, charge)
        BY <1>2 DEF Finishes
    <2>2. charge \in Nat /\ UNCHANGED <<members, bindings, editing>>
        BY <2>1 DEF Finish
    <2>3. CASE UNCHANGED <<groups, spent>>
        BY <2>2, <2>3 DEF GroupsInv, GroupsOK, NoDanglingLinks, GroupSpendKept
    <2>4. CASE IncrementUsed(req[r].scope[1], charge)
      <3> DEFINE g == req[r].scope[1]
      <3>1. CASE g \in Groups
        <4> DEFINE new == [groups[g] EXCEPT !.used = @ + charge]
        <4>1. groups[g] \in GroupRows
          BY <3>1 DEF GroupsInv, GroupsOK
        <4>2. new \in GroupRows /\ new.exists = groups[g].exists /\ new.used = groups[g].used + charge
          BY <2>2, <4>1, ChargedGroup
        <4>3. /\ groups' = IF groups[g].exists THEN [groups EXCEPT ![g] = new] ELSE groups
              /\ spent' = IF groups[g].exists THEN [spent EXCEPT ![g] = @ + charge] ELSE spent
          BY <2>4 DEF IncrementUsed
        <4> HIDE DEF g, new
        <4>4. GroupsOK'
          BY <2>2, <3>1, <4>2, <4>3 DEF GroupsInv, GroupsOK
        <4>5. NoDanglingLinks'
          BY <2>2, <3>1, <4>2, <4>3 DEF GroupsInv, GroupsOK, NoDanglingLinks
        <4>6. GroupSpendKept'
          BY <2>2, <3>1, <4>2, <4>3 DEF GroupsInv, GroupsOK, GroupSpendKept
        <4> QED
          BY <4>4, <4>5, <4>6 DEF GroupsInv
      <3>2. CASE g \notin Groups
        <4>1. UNCHANGED <<groups, spent>>
          BY <2>4, <3>2 DEF IncrementUsed, GroupsInv, GroupsOK
        <4> QED
          BY <2>3, <4>1
      <3> QED
        BY <3>1, <3>2
    <2> QED
        BY <2>1, <2>3, <2>4 DEF Finish
  <1>3. CASE ~GroupStep /\ ~Finishes
    BY <1>3, GroupsFrame DEF GroupsInv, GroupsOK, NoDanglingLinks, GroupSpendKept
  <1> QED
    BY <1>1, <1>2, <1>3
----------------------------------------------------------------------------
LEMMA ReqsFrame ==
  ASSUME KeyNext, ~Sends, ~Advances, ~Finishes
  PROVE  UNCHANGED req
  BY NextCases DEF Rewrites, RevokeKey, PauseKey, ResumeKey, ResetUsage, Patch, OnlyKeys,
     SetPlaygroundScope, Rewrite, Makes, CreateKey, HandleRegister, Rotates, RotateMints, RotateSwaps,
     Deletes, HandleDelete, DeleteEnds, DeleteRevokes, DeleteSkips, GroupStep

\* A request keeps its kind, its key and the snapshot it carries.
Same(q, n) == n.kind = q.kind /\ n.k = q.k /\ n.snap = q.snap

\* The four ways a request's record is rewritten.
SentRec(kind, k, s, c) == [NoReq EXCEPT !.pc = "sent", !.kind = kind, !.k = k, !.secret = s, !.cheap = c]
KnownRec(q, snap) == [q EXCEPT !.pc = "known", !.snap = snap]
ScopedRec(q, b, sc) == [q EXCEPT !.pc = "scoped", !.blind = b, !.scope = sc]
RunningRec(q) == [q EXCEPT !.pc = "running"]

LEMMA SentOK ==
  ASSUME NEW kind \in Kinds, NEW k \in Keys, NEW s \in Nat, NEW c \in BOOLEAN
  PROVE  LET n == SentRec(kind, k, s, c)
         IN ReqOK(n) /\ n.pc = "sent" /\ n.k = k
  BY DEF SentRec, NoReq, NoSnap, ReqOK, ReqRecs, Snaps, PCs, Kinds, Scopes, AnyKey
LEMMA KnownOK ==
  ASSUME NEW q, ReqOK(q), q.k \in Keys, NEW snap \in Snaps
  PROVE  LET n == KnownRec(q, snap)
         IN ReqOK(n) /\ n.pc = "known" /\ n.snap = snap /\ n.kind = q.kind /\ n.k = q.k
  BY DEF KnownRec, ScopedRec, RunningRec, ReqOK, ReqRecs, PCs
LEMMA ScopedOK ==
  ASSUME NEW q, ReqOK(q), q.k \in Keys, NEW b, NEW sc
  PROVE  LET n == ScopedRec(q, b, sc)
         IN /\ ReqOK(n) /\ n.pc = "scoped" /\ n.snap = q.snap /\ n.kind = q.kind /\ n.k = q.k
            /\ n.blind = b /\ n.scope = sc
  BY DEF KnownRec, ScopedRec, RunningRec, ReqOK, ReqRecs, PCs
LEMMA RunningOK ==
  ASSUME NEW q, ReqOK(q), q.k \in Keys
  PROVE  LET n == RunningRec(q)
         IN ReqOK(n) /\ n.pc = "running" /\ Same(q, n) /\ n.scope = q.scope /\ n.blind = q.blind
  BY DEF KnownRec, ScopedRec, RunningRec, ReqOK, ReqRecs, PCs, Same

LEMMA IdleReq == ReqOK(NoReq) /\ NoReq.pc = "idle"
  BY DEF NoReq, NoSnap, ReqOK, ReqRecs, Snaps, PCs, Kinds, Scopes, AnyKey

\* Nothing confines the request: no group of the key's own, none bound to it.
Free(q) == q.kind = "execute" \/ (q.snap.group = NoGroup /\ \A b \in bindings: b[1] # q.k)

\* What a request goes through: it is sent, admitted on a row it then carries
\* a snapshot of, scoped, started on that snapshot, or it ends.
ReqStep(r) ==
    LET q == req[r] n == req'[r]
    IN \/ n = q
       \/ n = NoReq
       \/ n.pc = "sent" /\ n.k \in Keys /\ minted[n.k] # 0
       \/ /\ q.pc = "sent" /\ Admits(keys[q.k], q) /\ n.pc = "known"
          /\ n.snap = Snapshot(keys[q.k]) /\ n.kind = q.kind /\ n.k = q.k
       \/ /\ q.pc = "known" /\ n.pc = "scoped" /\ Same(q, n) /\ UNCHANGED bindings
          /\ n.scope[1] = NoGroup => n.blind \/ Free(q)
       \/ /\ q.pc = "scoped" /\ n.pc = "running" /\ EnforceKeyGates(q) /\ Same(q, n)
          /\ n.scope = q.scope /\ n.blind = q.blind

\* The listing of a key's groups is empty only when none is bound to it.
LEMMA BoundGroups ==
  ASSUME GroupsOK, NEW k \in Keys
  PROVE  LET l == ListGroupsForAPIKey(k)
         IN /\ l = <<>> => \A b \in bindings: b[1] # k
            /\ l # <<>> => l[1] \in Groups
  <1> USE GroupAssumption
  <1> DEFINE bound == {i \in DOMAIN NameOrder: <<k, NameOrder[i]>> \in bindings}
             l == ListGroupsForAPIKey(k)
  <1>1. bound \subseteq 1..Len(NameOrder) /\ IsFiniteSet(1..Len(NameOrder))
    BY FS_Interval
  <1>2. IsFiniteSet(bound) /\ Cardinality(bound) \in Nat
    BY <1>1, FS_Subset, FS_CardinalityType
  <1>3. DOMAIN l = 1..Cardinality(bound)
    BY DEF ListGroupsForAPIKey
  <1>4. CASE bound = {}
    <2>1. \A b \in bindings: b[1] # k
      BY <1>4 DEF GroupsOK, Groups
    <2>2. Cardinality(bound) = 0
      BY <1>4, FS_EmptySet
    <2>3. DOMAIN l = {}
      <3> HIDE DEF bound, l
      <3>1. 1..Cardinality(bound) = {}
        BY <2>2
      <3> QED
        BY <1>3, <3>1
    <2>4. l = [n \in {} |-> 0]
      BY <2>3 DEF ListGroupsForAPIKey
    <2>5. <<>> = [n \in {} |-> 0]
      OBVIOUS
    <2> QED
      BY <2>1, <2>4, <2>5
  <1>5. CASE bound # {}
    <2>1. Cardinality(bound) >= 1
      <3> HIDE DEF bound
      <3> QED
        BY <1>2, <1>5, FS_EmptySet
    <2>2. PICK m \in bound: \A j \in bound: ~(j < m)
      <3>1. IsWellFoundedOn(OpToRel(<, Nat), Nat)
        BY NatLessThanWellFounded
      <3>2. bound \subseteq Nat
        BY <1>1
      <3>3. PICK x \in bound: \A y \in bound: ~(<<y, x>> \in OpToRel(<, Nat))
        BY <1>5, <3>1, <3>2, WFMin
      <3> QED
        BY <3>2, <3>3 DEF OpToRel
    <2>3. {j \in bound: j <= m} = {m}
      <3>1. bound \subseteq Nat
        BY <1>1
      <3> HIDE DEF bound
      <3>2. \A j \in bound: j <= m => j = m
        BY <2>2, <3>1
      <3>3. m <= m
        BY <3>1
      <3> QED
        BY <3>2, <3>3
    <2>4. Cardinality({j \in bound: j <= m}) = 1
      BY <2>3, FS_Singleton
    <2>5. (CHOOSE i \in bound: Cardinality({j \in bound: j <= i}) = 1) \in bound
      BY <2>4
    <2>6. 1 \in DOMAIN l
      BY <1>2, <1>3, <2>1
    <2>7. l[1] = NameOrder[CHOOSE i \in bound: Cardinality({j \in bound: j <= i}) = 1]
      BY <1>2, <2>1 DEF ListGroupsForAPIKey
    <2>8. l[1] \in Groups
      BY <2>5, <2>7 DEF Groups
    <2>9. l # <<>>
      BY <2>6
    <2> QED
      BY <2>8, <2>9
  <1> QED
    BY <1>4, <1>5

LEMMA ReqSteps ==
  ASSUME Types, KeyNext
  PROVE  ReqsOK' /\ \A r \in Reqs: ReqStep(r)
  <1> USE GroupAssumption, KeyAssumption
  <1> DEFINE Done == ReqsOK' /\ \A r \in Reqs: ReqStep(r)
  <1>0. DOMAIN req = Reqs /\ \A r \in Reqs: ReqOK(req[r])
    BY DEF Types, ReqsOK
  <1>1. ASSUME NEW r \in Reqs, NEW n, Moves(r, n), ReqOK(n), req'[r] = n => ReqStep(r) PROVE Done
    <2>1. DOMAIN req' = Reqs /\ req'[r] = n /\ \A x \in Reqs \ {r}: req'[x] = req[x]
      BY <1>0, <1>1 DEF Moves
    <2> QED
      BY <1>0, <1>1, <2>1 DEF ReqsOK, ReqStep
  <1>2. ASSUME NEW r \in Reqs, Refused(r) PROVE Done
    BY <1>1, <1>2, IdleReq DEF Refused, ReqStep
  <1>3. CASE Sends
    <2>1. PICK r \in Reqs, kind \in Kinds, k \in Keys, s \in 1..MaxSecrets, c \in BOOLEAN: Send(r, kind, k, s, c)
        BY <1>3 DEF Sends
    <2> DEFINE n == SentRec(kind, k, s, c)
    <2>2. ReqOK(n) /\ n.pc = "sent" /\ n.k = k
      <3>1. s \in Nat
        OBVIOUS
      <3> QED
        BY <3>1, SentOK
    <2>3. Moves(r, n)
        BY <2>1 DEF Send, SentRec
    <2>4. minted[k] # 0
        BY <2>1 DEF Send
    <2> HIDE DEF n
    <2> QED
        BY <1>1, <2>2, <2>3, <2>4 DEF ReqStep
  <1>4. CASE Advances
    <2>1. ASSUME NEW r \in Reqs, Authenticate(r) PROVE Done
      <3> DEFINE q == req[r]
                 n == KnownRec(q, Snapshot(keys[q.k]))
      <3>1. CASE Refused(r)
        BY <1>2, <3>1
      <3>2. CASE Admits(keys[q.k], q) /\ Moves(r, n)
        <4>1. q.pc = "sent" /\ q.k \in Keys /\ ReqOK(q)
          BY <1>0, <2>1 DEF Authenticate, ReqOK
        <4>2. Snapshot(keys[q.k]) \in Snaps
          BY <4>1 DEF Types, KeysOK, KeyRows, Snapshot, Snaps
        <4>3. ReqOK(n) /\ n.pc = "known" /\ n.snap = Snapshot(keys[q.k]) /\ n.kind = q.kind /\ n.k = q.k
          BY <4>1, <4>2, KnownOK
        <4> HIDE DEF n
        <4> QED
          BY <1>1, <3>2, <4>1, <4>3 DEF ReqStep
      <3> QED
        BY <2>1, <3>1, <3>2 DEF Authenticate, KnownRec
    <2>2. ASSUME NEW r \in Reqs, NEW b, NEW sc, req[r].pc = "known", sc[1] = NoGroup => b \/ Free(req[r]),
                 Moves(r, ScopedRec(req[r], b, sc)), UNCHANGED bindings
          PROVE  Done
      <3> DEFINE q == req[r]
                 n == ScopedRec(q, b, sc)
      <3>1. ReqOK(q) /\ q.k \in Keys
        BY <1>0, <2>2 DEF ReqOK
      <3>2. /\ ReqOK(n) /\ n.pc = "scoped" /\ n.snap = q.snap /\ n.kind = q.kind /\ n.k = q.k
            /\ n.blind = b /\ n.scope = sc
        BY <3>1, ScopedOK
      <3> HIDE DEF n
      <3> QED
        BY <1>1, <2>2, <3>2 DEF ReqStep, n, Same
    <2>3. ASSUME NEW r \in Reqs, ResolveGroupFails(r) PROVE Done
        BY <2>2, <2>3 DEF ResolveGroupFails, ScopedRec, OnlyReq, groupVars
    <2>4. ASSUME NEW r \in Reqs, NEW g \in Groups \cup {NoGroup}, ResolveGroup(r, g) PROVE Done
      <3> DEFINE q == req[r]
                 l == ListGroupsForAPIKey(q.k)
      <3>1. q.k \in Keys /\ ReqOK(q)
        BY <1>0, <2>4 DEF ResolveGroup, ReqOK
      <3>2. /\ l = <<>> => \A b \in bindings: b[1] # q.k
            /\ l # <<>> => l[1] \in Groups
        BY <3>1, BoundGroups DEF Types
      <3> HIDE DEF l
      <3>3. Scope(q, g, l)[1] = NoGroup => g # NoGroup \/ Free(q)
        BY <3>2 DEF Scope, Free
      <3>4. q.pc = "known" /\ Moves(r, ScopedRec(q, g # NoGroup, Scope(q, g, l)))
            /\ UNCHANGED bindings
        BY <2>4 DEF ResolveGroup, ScopedRec, OnlyReq, groupVars, l
      <3> QED
        BY <2>2, <3>3, <3>4
    <2>5. ASSUME NEW r \in Reqs, Generate(r) PROVE Done
      <3> DEFINE q == req[r]
                 n == RunningRec(q)
      <3>1. CASE Refused(r)
        BY <1>2, <3>1
      <3>2. CASE EnforceKeyGates(q) /\ Moves(r, n)
        <4>1. q.pc = "scoped" /\ ReqOK(q)
          BY <1>0, <2>5 DEF Generate
        <4>2. ReqOK(n) /\ n.pc = "running" /\ Same(q, n) /\ n.scope = q.scope /\ n.blind = q.blind
          BY <4>1, RunningOK DEF ReqOK
        <4> HIDE DEF n
        <4> QED
          BY <1>1, <3>2, <4>1, <4>2 DEF ReqStep
      <3> QED
        BY <2>5, <3>1, <3>2 DEF Generate, RunningRec
    <2> QED
        BY <1>4, <2>1, <2>3, <2>4, <2>5 DEF Advances
  <1>5. CASE Finishes
    BY <1>2, <1>5 DEF Finishes, Finish
  <1>6. CASE ~Sends /\ ~Advances /\ ~Finishes
    BY <1>0, <1>6, ReqsFrame DEF ReqsOK, ReqStep
  <1> QED
    BY <1>3, <1>4, <1>5, <1>6

\* Whether a request still to pass a gate would be admitted by it, some
\* instant of its life allowed it.
Explained(r) ==
    LET q == req[r]
    IN /\ q.pc = "sent" /\ Allowed(keys[q.k], q) => seen[r].allowed
       /\ q.pc \in {"known", "scoped"} /\ EnforceKeyGates(q) => seen[r].allowed
       /\ q.pc = "running" => seen[r].allowed
AdmitInv == DOMAIN seen = Reqs /\ \A r \in Reqs: Explained(r)

\* The snapshot's gate and the row's are one, at the instant it is taken.
LEMMA GateOfSnapshot ==
  ASSUME NEW row \in KeyRows, NEW q, NEW n, ReqOK(q), Admits(row, q),
         n.kind = q.kind, n.snap = Snapshot(row), EnforceKeyGates(n)
  PROVE  Allowed(row, q)
  <1>1. q.kind # "execute" => row.quota = 0 \/ row.used + Est <= row.quota
    BY DEF EnforceKeyGates, Carried, HasBudget, Snapshot
  <1>2. /\ row.st = "active"
        /\ q.kind \in {"v1", "playground"} => row.secret = q.secret
        /\ q.kind \in {"playground", "impersonate"} => row.scope = "full" \/ (row.scope = "cheap" /\ q.cheap)
    <2>0. q.kind \in {"v1", "playground", "impersonate", "execute"}
      BY DEF ReqOK, ReqRecs, Kinds
    <2>1. CASE q.kind = "v1"
      BY <2>1 DEF Admits, APIKeyAuth
    <2>2. CASE q.kind = "playground"
      BY <2>2 DEF Admits, PlaygroundAuth, APIKeyAuth, HandlePlaygroundExecute, AllowsModel
    <2>3. CASE q.kind = "impersonate"
      BY <2>3 DEF Admits, ResolveExecutionIdentity, HandlePlaygroundExecute, AllowsModel
    <2>4. CASE q.kind = "execute"
      BY <2>4 DEF Admits, ResolveExecuteKey
    <2> QED
      BY <2>0, <2>1, <2>2, <2>3, <2>4
  <1> QED
    BY <1>1, <1>2 DEF Allowed

LEMMA AdmitInvNext == ASSUME Types, AdmitInv, KeyNext PROVE AdmitInv'
  <1>1. Watch
    BY NextCases
  <1>2. DOMAIN seen' = Reqs
    BY <1>1 DEF Watch
  <1>3. ASSUME NEW r \in Reqs PROVE Explained(r)'
    <2> DEFINE q == req[r]
               n == req'[r]
    <2>1. n.pc # "idle" =>
            seen'[r].allowed = (seen[r].allowed \/ (n.pc = "sent" /\ Allowed(keys'[n.k], n)))
      BY <1>1 DEF Watch
    <2>2. ReqStep(r) /\ Explained(r) /\ ReqOK(q)
      BY ReqSteps DEF AdmitInv, Types, ReqsOK
    <2>3. n.pc = "sent" /\ Allowed(keys'[n.k], n) => seen'[r].allowed
      BY <2>1
    <2>4. ASSUME n.pc \in {"known", "scoped"}, EnforceKeyGates(n) PROVE seen'[r].allowed
      <3>1. SUFFICES seen[r].allowed
        BY <2>1, <2>4
      <3>2. CASE n = q
        BY <2>2, <2>4, <3>2 DEF Explained
      <3>3. CASE q.pc = "sent" /\ Admits(keys[q.k], q) /\ n.snap = Snapshot(keys[q.k]) /\ n.kind = q.kind
        <4>1. keys[q.k] \in KeyRows
          BY <2>2, <3>3 DEF ReqOK, Types, KeysOK
        <4>2. Allowed(keys[q.k], q)
          BY <2>2, <2>4, <3>3, <4>1, GateOfSnapshot
        <4> QED
          BY <2>2, <3>3, <4>2 DEF Explained
      <3>4. CASE q.pc = "known" /\ n.pc = "scoped" /\ Same(q, n)
        <4>1. EnforceKeyGates(q)
          BY <2>4, <3>4 DEF EnforceKeyGates, Carried, Same
        <4> QED
          BY <2>2, <3>4, <4>1 DEF Explained
      <3> QED
        BY <2>2, <2>4, <3>2, <3>3, <3>4, IdleReq DEF ReqStep
    <2>5. ASSUME n.pc = "running" PROVE seen'[r].allowed
      <3>1. seen[r].allowed
        BY <2>2, <2>5, IdleReq DEF ReqStep, Explained
      <3> QED
        BY <2>1, <2>5, <3>1
    <2>6. (EnforceKeyGates(q))' = EnforceKeyGates(n) /\ Allowed(keys[q.k], q)' = Allowed(keys'[n.k], n)
      BY DEF EnforceKeyGates, Carried, Allowed
    <2> QED
      BY <2>3, <2>4, <2>5, <2>6 DEF Explained
  <1> QED
    BY <1>2, <1>3 DEF AdmitInv
----------------------------------------------------------------------------
\* A partner delete in progress: what it has revoked stays revoked, and what it
\* has left it listed.
DeleteInv ==
    /\ \A k \in barred: keys[k].st = "revoked"
    /\ deleting.on /\ ~deleting.errors =>
         \A k \in deleting.listed \ deleting.left: keys[k].st = "revoked"

LEMMA RevokedStays == ASSUME Types, KeyNext, NEW k \in Keys, keys[k].st = "revoked" PROVE keys'[k].st = "revoked"
  BY KeyWrites DEF Types, KeysOK, RowStep

LEMMA DeleteInvNext == ASSUME Types, DeleteInv, KeyNext PROVE DeleteInv'
  <1> USE KeyAssumption
  <1>0. \A k \in PartnerKeys: keys[k].st = "revoked" => keys'[k].st = "revoked"
    BY RevokedStays
  <1>1. CASE Deletes
    <2>1. CASE HandleDelete
        BY <1>0, <2>1 DEF HandleDelete, DeleteInv, Types, DeletingOK
    <2>2. CASE DeleteEnds
        BY <1>0, <2>2 DEF DeleteEnds, NotDeleting, DeleteInv, Types, DeletingOK
    <2>3. ASSUME NEW k \in Keys, DeleteRevokes(k) PROVE DeleteInv'
      <3>1. keys'[k].st = "revoked"
        BY <2>3, RowRewrites DEF DeleteRevokes, Writes, Types, KeysOK, Scopes
      <3>2. /\ deleting'.left = deleting.left \ {k} /\ deleting'.listed = deleting.listed
            /\ deleting'.on = deleting.on /\ deleting'.errors = deleting.errors /\ barred' = barred
        BY <2>3 DEF DeleteRevokes, Types, DeletingOK
      <3> QED
        BY <1>0, <3>1, <3>2 DEF DeleteInv, Types, DeletingOK
    <2>4. ASSUME NEW k \in Keys, DeleteSkips(k) PROVE DeleteInv'
      <3>1. deleting'.errors /\ barred' = barred
        BY <2>4 DEF DeleteSkips, Types, DeletingOK
      <3> QED
        BY <1>0, <3>1 DEF DeleteInv, Types, DeletingOK
    <2> QED
        BY <1>1, <2>1, <2>2, <2>3, <2>4 DEF Deletes
  <1>2. CASE ~Deletes
    BY <1>0, <1>2, DeletingFrame DEF DeleteInv, Types, DeletingOK
  <1> QED
    BY <1>1, <1>2

----------------------------------------------------------------------------
\* One key's row over a step.
LEMMA RowSteps ==
  ASSUME Types, KeyNext, NEW k \in Keys
  PROVE  /\ keys[k] \in KeyRows /\ keys'[k] \in KeyRows
         /\ keys[k].st # "none" => keys'[k].st # "none" /\ keys'[k].group = keys[k].group
         /\ ~Finishes => keys'[k].used \in {keys[k].used, 0}
  BY KeyWrites DEF Types, KeysOK, RowStep, RowEdit

LEMMA MintSteps ==
  ASSUME Types, KeyNext, NEW k \in Keys
  PROVE  minted'[k] = minted[k] \/ keys'[k].st # "none"
  <1>1. CASE Makes
    BY <1>1 DEF Makes, CreateKey, HandleRegister, Mint, Writes, NewKeyRow, Types, KeysOK
  <1>2. CASE Rotates
    BY <1>2 DEF Rotates, RotateMints, RotateSwaps, Exists, Mint, Types, KeysOK
  <1>3. CASE ~Makes /\ ~Rotates
    BY <1>3, NextCases DEF Rewrites, RevokeKey, PauseKey, ResumeKey, ResetUsage, Patch, OnlyKeys,
       SetPlaygroundScope, Rewrite, Deletes, HandleDelete, DeleteEnds, DeleteRevokes, DeleteSkips, GroupStep,
       Sends, Send, Advances, Authenticate, ResolveGroupFails, Generate, ResolveGroup, OnlyReq, Finishes, Finish
  <1> QED
    BY <1>1, <1>2, <1>3

\* A key no handler made has no secret, no usage and no request.
ExistInv ==
    /\ \A k \in Keys: ~Exists(k) => minted[k] = 0 /\ keys[k].used = 0
    /\ \A r \in Reqs: req[r].pc # "idle" => Exists(req[r].k)

LEMMA ExistInvNext == ASSUME Types, ExistInv, KeyNext PROVE ExistInv'
  <1>1. ASSUME NEW k \in Keys, ~Exists(k)' PROVE minted'[k] = 0 /\ keys'[k].used = 0
    <2>1. ~Exists(k) /\ keys'[k].st = "none"
      BY <1>1, RowSteps DEF Exists
    <2>2. minted'[k] = 0
      BY <2>1, MintSteps DEF ExistInv
    <2>3. CASE Finishes
      <3>1. PICK r \in Reqs, charge \in Charges: Finish(r, charge)
        BY <2>3 DEF Finishes
      <3>2. req[r].k # k /\ keys'[k] = keys[k]
        BY <2>1, <3>1 DEF Finish, Writes, ExistInv, Types, KeysOK
      <3> QED
        BY <2>1, <2>2, <3>2 DEF ExistInv
    <2>4. CASE ~Finishes
      BY <2>1, <2>2, <2>4, RowSteps DEF ExistInv
    <2> QED
      BY <2>3, <2>4
  <1>2. ASSUME NEW r \in Reqs, req'[r].pc # "idle" PROVE keys'[req'[r].k].st # "none"
    <2>1. ReqStep(r) /\ ReqOK(req[r])
      BY ReqSteps DEF Types, ReqsOK
    <2>2. req'[r].k \in Keys /\ keys[req'[r].k].st # "none"
      BY <1>2, <2>1, IdleReq DEF ReqStep, ReqOK, ExistInv, Exists, Same
    <2> QED
      BY <2>2, RowSteps
  <1> QED
    BY <1>1, <1>2 DEF ExistInv, Exists
----------------------------------------------------------------------------
\* A snapshot's group is the row's, which never changes; a request in the
\* whole pool met an instant at which nothing confined it.
ConfineInv ==
    \A r \in Reqs:
        /\ req[r].pc = "known" => req[r].snap.group = keys[req[r].k].group
        /\ req[r].pc \in {"scoped", "running"} /\ req[r].scope[1] = NoGroup => req[r].blind \/ seen[r].unconfined

LEMMA ConfineInvNext == ASSUME Types, ExistInv, ConfineInv, KeyNext PROVE ConfineInv'
  <1> SUFFICES ASSUME NEW r \in Reqs
               PROVE  /\ req'[r].pc = "known" => req'[r].snap.group = keys'[req'[r].k].group
                      /\ req'[r].pc \in {"scoped", "running"} /\ req'[r].scope[1] = NoGroup
                            => req'[r].blind \/ seen'[r].unconfined
    BY DEF ConfineInv
  <1> DEFINE q == req[r]
             n == req'[r]
  <1>1. ReqStep(r) /\ ReqOK(q)
    BY ReqSteps DEF Types, ReqsOK
  <1>2. n.pc # "idle" =>
          seen'[r].unconfined = (seen[r].unconfined \/ Unconfined(keys'[n.k], n, bindings'))
    BY NextCases DEF Watch
  <1>3. ASSUME q.pc # "idle" PROVE q.k \in Keys /\ keys'[q.k].group = keys[q.k].group
    BY <1>1, <1>3, RowSteps DEF ReqOK, ExistInv, Exists
  <1>4. ASSUME n.pc = "known" PROVE n.snap.group = keys'[n.k].group
    <2>1. CASE n = q
      BY <1>3, <1>4, <2>1 DEF ConfineInv
    <2>2. CASE q.pc = "sent" /\ n.snap = Snapshot(keys[q.k]) /\ n.k = q.k
      BY <1>3, <2>2 DEF Snapshot
    <2> QED
      BY <1>1, <1>4, <2>1, <2>2, IdleReq DEF ReqStep
  <1>5. ASSUME n.pc \in {"scoped", "running"}, n.scope[1] = NoGroup PROVE n.blind \/ seen'[r].unconfined
    <2>1. CASE n = q \/ (q.pc = "scoped" /\ n.pc = "running" /\ n.scope = q.scope /\ n.blind = q.blind)
      BY <1>2, <1>5, <2>1 DEF ConfineInv
    <2>2. CASE q.pc = "known" /\ Same(q, n) /\ UNCHANGED bindings /\ Free(q)
      <3>1. q.snap.group = keys[q.k].group /\ keys'[n.k].group = keys[q.k].group
        BY <1>3, <2>2 DEF ConfineInv, Same
      <3>2. Unconfined(keys'[n.k], n, bindings')
        BY <2>2, <3>1 DEF Unconfined, Free, Same
      <3> QED
        BY <1>2, <1>5, <3>2
    <2> QED
      BY <1>1, <1>5, <2>1, <2>2, IdleReq DEF ReqStep
  <1> QED
    BY <1>4, <1>5
----------------------------------------------------------------------------
\* The requests that passed, or will pass, a key's quota gate.
Gated(k) == {r \in Reqs: /\ req[r].pc \in {"known", "scoped", "running"} /\ req[r].kind # "execute"
                         /\ req[r].k = k /\ EnforceKeyGates(req[r])}

\* Each of them carries a quota that the key's room covers; what the key has
\* spent leaves the room each of them may still take.
Covered(k) ==
    /\ keys[k].quota # 0 /\ keys[k].quota <= room[k]
    /\ \A r \in Gated(k): req[r].snap.quota # 0 /\ req[r].snap.quota <= room[k]
    /\ keys[k].used <= room[k] - Est + MaxCharge * (Cardinality(Reqs) - Cardinality(Gated(k)))
QuotaInv ==
    /\ room \in [Keys -> Int]
    /\ \A r \in Reqs: req[r].pc = "running" => EnforceKeyGates(req[r])
    /\ \A k \in Keys: Exists(k) /\ room[k] # NoCap => Covered(k)

LEMMA Multiples ==
  ASSUME NEW m \in Nat, NEW a \in Int, NEW b \in Int
  PROVE  /\ m * a \in Int
         /\ a <= b => m * a <= m * b
         /\ m * (a + 1) = m * a + m
         /\ m * (a + b) = m * a + m * b
         /\ 1 <= a => m <= m * a
         /\ 0 <= a => 0 <= m * a
  OBVIOUS

LEMMA DearestCharge == MaxCharge \in Nat /\ Est \in Nat /\ Est # 0 /\ Est <= MaxCharge /\ \A c \in Charges: c <= MaxCharge
  BY KeyAssumption DEF MaxCharge

LEMMA GatedSize ==
  ASSUME NEW k
  PROVE  /\ IsFiniteSet(Gated(k)) /\ Cardinality(Gated(k)) \in Nat
         /\ Cardinality(Gated(k)) <= Cardinality(Reqs)
         /\ Cardinality(Reqs) \in Nat /\ Cardinality(Reqs) >= 1
  <1>1. IsFiniteSet(Reqs) /\ Reqs # {}
    BY KeyAssumption
  <1>2. Gated(k) \subseteq Reqs
    BY DEF Gated
  <1>3. IsFiniteSet(Gated(k)) /\ Cardinality(Gated(k)) <= Cardinality(Reqs)
    BY <1>1, <1>2, FS_Subset
  <1>4. Cardinality(Gated(k)) \in Nat /\ Cardinality(Reqs) \in Nat
    BY <1>1, <1>3, FS_CardinalityType
  <1>5. Cardinality(Reqs) # 0
    BY <1>1, FS_EmptySet
  <1> QED
    BY <1>3, <1>4, <1>5

\* A request enters a key's gated set only by authenticating.
LEMMA GatedSteps ==
  ASSUME Types, QuotaInv, KeyNext, NEW k \in Keys, NEW r \in Gated(k)'
  PROVE  \/ r \in Gated(k) /\ req'[r].snap = req[r].snap
         \/ /\ req[r].pc = "sent" /\ req[r].k = k /\ req'[r].snap = Snapshot(keys[k])
            /\ keys[k].quota = 0 \/ keys[k].used + Est <= keys[k].quota
  <1> DEFINE q == req[r]
             n == req'[r]
  <1>1. /\ r \in Reqs /\ n.pc \in {"known", "scoped", "running"} /\ n.kind # "execute" /\ n.k = k
        /\ EnforceKeyGates(n)
    BY DEF Gated, EnforceKeyGates, Carried
  <1>2. ReqStep(r) /\ ReqOK(q)
    BY <1>1, ReqSteps DEF Types, ReqsOK
  <1>3. CASE n = q
    BY <1>1, <1>3 DEF Gated
  <1>4. CASE q.pc \in {"known", "scoped"} /\ Same(q, n)
    BY <1>1, <1>4 DEF Gated, Same, EnforceKeyGates, Carried
  <1>5. CASE q.pc = "sent" /\ n.snap = Snapshot(keys[q.k]) /\ n.kind = q.kind /\ n.k = q.k
    BY <1>1, <1>5 DEF EnforceKeyGates, Carried, HasBudget, Snapshot
  <1> QED
    BY <1>1, <1>2, <1>3, <1>4, <1>5, IdleReq DEF ReqStep

\* Only a charge ends a run.
LEMMA RunEnds ==
  ASSUME Types, KeyNext, NEW r \in Reqs, req[r].pc = "running", req'[r].pc = "idle"
  PROVE  Finishes
  <1>1. CASE Sends
    BY <1>1 DEF Sends, Send, Moves, Types, ReqsOK
  <1>2. CASE Advances
    BY <1>2 DEF Advances, Authenticate, ResolveGroupFails, Generate, ResolveGroup, Moves, Refused, Types, ReqsOK
  <1> QED
    BY <1>1, <1>2, ReqsFrame

\* What Watch makes of a capped key's room.
LEMMA RoomSteps ==
  ASSUME Types, ExistInv, QuotaInv, KeyNext, NEW k \in Keys, Exists(k)', room'[k] # NoCap
  PROVE  /\ keys'[k].quota # 0
         /\ Exists(k) => room[k] # NoCap /\ Covered(k)
         /\ ~Finishes => room'[k] = Larger(room[k], keys'[k].quota)
         /\ ~Exists(k) => room'[k] = Larger(room[k], keys'[k].quota)
  <1> DEFINE ungated == \E r \in Reqs: req[r].pc = "running" /\ req'[r].pc = "idle"
                                         /\ req[r].kind = "execute" /\ req[r].k = k
  <1>1. room'[k] = IF keys'[k].quota = 0 \/ (room[k] = NoCap /\ Exists(k)) THEN NoCap
                   ELSE Larger(room[k], keys'[k].quota) + (IF ungated THEN keys'[k].used - keys[k].used ELSE 0)
    BY NextCases DEF Watch
  <1>2. keys'[k].quota # 0 /\ (Exists(k) => room[k] # NoCap)
    BY <1>1
  <1>3. ungated => Finishes /\ Exists(k)
    BY RunEnds DEF ExistInv
  <1>4. Larger(room[k], keys'[k].quota) \in Int
    BY RowSteps DEF Larger, QuotaInv, KeyRows
  <1> HIDE DEF ungated
  <1>5. ~ungated => room'[k] = Larger(room[k], keys'[k].quota)
    BY <1>1, <1>2, <1>4
  <1> QED
    BY <1>2, <1>3, <1>5 DEF QuotaInv

\* A step that charges nobody.
LEMMA CoveredUncharged ==
  ASSUME Types, ExistInv, QuotaInv, KeyNext, ~Finishes, NEW k \in Keys, Exists(k)', room'[k] # NoCap
  PROVE  Covered(k)'
  <1> DEFINE new == keys'[k]
             N == Cardinality(Reqs)
             G == Cardinality(Gated(k))
             H == Cardinality(Gated(k)')
  <1>1. /\ new.quota # 0 /\ new.quota \in Nat /\ keys[k].quota \in Nat /\ new.used \in Nat
        /\ keys[k].used \in Nat /\ room[k] \in Int /\ room'[k] = Larger(room[k], new.quota)
        /\ new.used \in {keys[k].used, 0}
    BY RowSteps, RoomSteps DEF KeyRows, QuotaInv
  <1>2. room'[k] \in Int /\ room'[k] >= room[k] /\ room'[k] >= new.quota
    BY <1>1 DEF Larger
  <1>3. G \in Nat /\ N \in Nat /\ N >= 1 /\ IsFiniteSet(Gated(k)) /\ G <= N
    BY GatedSize
  <1>4. H \in Nat /\ H <= N
    BY GatedSize, FS_Subset, FS_CardinalityType, KeyAssumption DEF Gated
  <1>5. MaxCharge \in Nat /\ Est \in Nat /\ Est <= MaxCharge
    BY DearestCharge
  <1> HIDE DEF N, G, H
  <1>6. CASE ~Exists(k)
    <2>1. Gated(k)' = {}
      <3>1. SUFFICES ASSUME NEW r \in Gated(k)' PROVE FALSE
        OBVIOUS
      <3>2. r \in Reqs /\ req[r].k = k /\ req[r].pc # "idle"
        BY GatedSteps DEF Gated
      <3> QED
        BY <1>6, <3>2 DEF ExistInv
    <2>2. H = 0
      BY <2>1, FS_EmptySet DEF H
    <2>3. new.used = 0
      BY <1>1, <1>6 DEF ExistInv
    <2>4. MaxCharge <= MaxCharge * (N - H)
      BY <1>3, <1>5, <2>2, Multiples
    <2>5. new.used <= room'[k] - Est + MaxCharge * (N - H)
      <3>1. MaxCharge * (N - H) \in Int
        BY <1>3, <1>4, <1>5, Multiples
      <3> QED
        BY <1>1, <1>2, <1>5, <2>3, <2>4, <3>1
    <2> QED
      BY <1>1, <1>2, <2>1, <2>5 DEF Covered, N, H
  <1>7. CASE Exists(k)
    <2>1. Covered(k)
      BY <1>7, RoomSteps
    <2>2. ASSUME NEW r \in Gated(k)' PROVE req'[r].snap.quota # 0 /\ req'[r].snap.quota <= room'[k] /\ Est <= room'[k]
      <3>1. CASE r \in Gated(k) /\ req'[r].snap = req[r].snap
        <4>1. req[r].snap.quota # 0 /\ req[r].snap.quota <= room[k]
          BY <2>1, <3>1 DEF Covered
        <4>2. req[r].snap \in Snaps /\ EnforceKeyGates(req[r]) /\ req[r].kind # "execute"
          BY <3>1 DEF Gated, Types, ReqsOK, ReqOK, ReqRecs
        <4>3. Est <= req[r].snap.quota
          BY <1>5, <4>1, <4>2 DEF EnforceKeyGates, Carried, HasBudget, Snaps
        <4>4. req[r].snap.quota \in Nat
          BY <4>2 DEF Snaps
        <4> QED
          BY <1>1, <1>2, <1>5, <3>1, <4>1, <4>3, <4>4
      <3>2. CASE req'[r].snap = Snapshot(keys[k]) /\ (keys[k].quota = 0 \/ keys[k].used + Est <= keys[k].quota)
        <4>1. req'[r].snap.quota = keys[k].quota
          BY <3>2 DEF Snapshot
        <4> QED
          BY <1>1, <1>2, <1>5, <2>1, <3>2, <4>1 DEF Covered
      <3> QED
        BY <3>1, <3>2, GatedSteps
    <2>3. new.used <= room'[k] - Est + MaxCharge * (N - H)
      <3>0. MaxCharge * (N - H) \in Int /\ 0 <= MaxCharge * (N - H)
        <4>1. N - H \in Int /\ 0 <= N - H
          BY <1>3, <1>4
        <4> QED
          BY <1>5, <4>1, Multiples
      <3>1. CASE new.used = 0
        <4>1. CASE Gated(k)' = {}
          <5>1. H = 0
            BY <4>1, FS_EmptySet DEF H
          <5>2. MaxCharge <= MaxCharge * (N - H)
            BY <1>3, <1>5, <5>1, Multiples
          <5> QED
            BY <1>1, <1>2, <1>5, <3>0, <3>1, <5>2
        <4>2. CASE Gated(k)' # {}
          BY <1>1, <1>2, <1>5, <2>2, <3>0, <3>1, <4>2
        <4> QED
          BY <4>1, <4>2
      <3>2. CASE new.used = keys[k].used
        <4>1. CASE Gated(k)' \subseteq Gated(k)
          <5>1. H <= G
            BY <1>3, <4>1, FS_Subset DEF G, H
          <5>2. N - G \in Int /\ N - H \in Int /\ N - G <= N - H
            BY <1>3, <1>4, <5>1
          <5>3. MaxCharge * (N - G) <= MaxCharge * (N - H) /\ MaxCharge * (N - G) \in Int
            BY <1>5, <5>2, Multiples
          <5>4. keys[k].used <= room[k] - Est + MaxCharge * (N - G)
            BY <2>1 DEF Covered, N, G
          <5> QED
            BY <1>1, <1>2, <1>5, <3>0, <3>2, <5>3, <5>4
        <4>2. CASE \E r \in Gated(k)': r \notin Gated(k)
          <5>1. keys[k].quota = 0 \/ keys[k].used + Est <= keys[k].quota
            BY <4>2, GatedSteps
          <5>2. keys[k].used + Est <= room[k]
            BY <1>1, <1>5, <2>1, <5>1 DEF Covered
          <5> QED
            BY <1>1, <1>2, <1>5, <3>0, <3>2, <5>2
        <4> QED
          BY <4>1, <4>2
      <3> QED
        BY <1>1, <3>1, <3>2
    <2> QED
      BY <1>1, <1>2, <2>2, <2>3 DEF Covered, N, H
  <1> QED
    BY <1>6, <1>7

\* A charge: of another key, of an ungated call, or of a gated one, which
\* then no longer waits to be charged.
LEMMA CoveredCharged ==
  ASSUME Types, ExistInv, QuotaInv, KeyNext, NEW f \in Reqs, NEW charge \in Charges, Finish(f, charge),
         NEW k \in Keys, Exists(k)', room'[k] # NoCap
  PROVE  Covered(k)'
  <1> DEFINE N == Cardinality(Reqs)
             G == Cardinality(Gated(k))
             H == Cardinality(Gated(k)')
             c == req[f].k
  <1>1. charge \in Nat /\ charge <= MaxCharge /\ MaxCharge \in Nat /\ Est \in Nat
    BY KeyAssumption, DearestCharge
  <1>2. /\ c \in Keys /\ keys[c] \in KeyRows /\ keys[c].st # "none" /\ EnforceKeyGates(req[f])
        /\ keys' = [keys EXCEPT ![c] = IncrementUsage(keys[c], charge)]
        /\ req' = [req EXCEPT ![f] = NoReq] /\ req[f].pc = "running"
    BY DEF Finish, Writes, Refused, Moves, Types, ReqsOK, ReqOK, KeysOK, QuotaInv, ExistInv, Exists
  <1>3. /\ c = k => keys'[k].used = keys[k].used + charge /\ keys'[k].quota = keys[k].quota
        /\ c # k => keys'[k] = keys[k]
    <2>1. DOMAIN keys = Keys
      BY DEF Types, KeysOK
    <2>2. /\ IncrementUsage(keys[c], charge).used = keys[c].used + charge
          /\ IncrementUsage(keys[c], charge).quota = keys[c].quota
      BY <1>1, <1>2, RowRewrites DEF Scopes
    <2> QED
      BY <1>2, <2>1, <2>2
  <1>4. req'[f] = NoReq /\ \A r \in Reqs \ {f}: req'[r] = req[r]
    BY <1>2 DEF Types, ReqsOK
  <1>5. Exists(k)
    BY <1>2, <1>3 DEF Exists
  <1>6. Covered(k) /\ room[k] # NoCap /\ keys'[k].quota # 0
    BY <1>5, RoomSteps
  <1>7. /\ keys[k].used \in Nat /\ keys[k].quota \in Nat /\ room[k] \in Int
        /\ keys'[k].used \in Nat
    BY RowSteps DEF KeyRows, QuotaInv
  <1>8. /\ c = k /\ req[f].kind = "execute" => room'[k] = room[k] + charge
        /\ c # k \/ req[f].kind # "execute" => room'[k] = room[k]
    <2> DEFINE ungated == \E r \in Reqs: req[r].pc = "running" /\ req'[r].pc = "idle"
                                           /\ req[r].kind = "execute" /\ req[r].k = k
    <2>1. room'[k] = IF keys'[k].quota = 0 \/ (room[k] = NoCap /\ Exists(k)) THEN NoCap
                     ELSE Larger(room[k], keys'[k].quota) + (IF ungated THEN keys'[k].used - keys[k].used ELSE 0)
      BY NextCases DEF Watch
    <2>2. ungated <=> c = k /\ req[f].kind = "execute"
      BY <1>2, <1>4, IdleReq
    <2> HIDE DEF ungated
    <2>3. Larger(room[k], keys'[k].quota) = room[k]
      BY <1>3, <1>6, <1>7 DEF Larger, Covered
    <2> QED
      BY <1>1, <1>3, <1>5, <1>6, <1>7, <2>1, <2>2, <2>3
  <1>9. Gated(k)' = Gated(k) \ {f} /\ (f \in Gated(k) <=> c = k /\ req[f].kind # "execute")
    <2>1. f \notin Gated(k)'
      BY <1>4, IdleReq DEF Gated
    <2>2. \A r \in Reqs \ {f}: r \in Gated(k)' <=> r \in Gated(k)
      BY <1>4 DEF Gated, EnforceKeyGates, Carried
    <2>3. Gated(k)' \subseteq Reqs /\ Gated(k) \subseteq Reqs
      BY DEF Gated
    <2> QED
      BY <1>2, <2>1, <2>2, <2>3 DEF Gated
  <1>10. G \in Nat /\ N \in Nat /\ IsFiniteSet(Gated(k)) /\ G <= N
    BY GatedSize
  <1>11. keys[k].used <= room[k] - Est + MaxCharge * (N - G) /\ MaxCharge * (N - G) \in Int
    <2>1. N - G \in Int
      BY <1>10
    <2> QED
      BY <1>1, <1>6, <2>1, Multiples DEF Covered
  <1>12. \A r \in Gated(k)': req'[r].snap.quota # 0 /\ req'[r].snap.quota <= room'[k]
    <2>1. SUFFICES ASSUME NEW r \in Gated(k)' PROVE req'[r].snap.quota # 0 /\ req'[r].snap.quota <= room'[k]
      OBVIOUS
    <2>2. r \in Gated(k) /\ req'[r] = req[r]
      BY <1>4, <1>9 DEF Gated
    <2>3. req[r].snap.quota \in Nat
      BY <2>2 DEF Gated, Types, ReqsOK, ReqOK, ReqRecs, Snaps
    <2> QED
      BY <1>1, <1>6, <1>7, <1>8, <2>2, <2>3 DEF Covered
  <1> HIDE DEF N, G, H, c
  <1>13. keys'[k].used <= room'[k] - Est + MaxCharge * (N - H)
    <2>1. CASE c = k /\ req[f].kind # "execute"
      <3>1. H = G - 1
        BY <1>9, <1>10, <2>1, FS_RemoveElement DEF G, H
      <3>2. N - H = (N - G) + 1 /\ N - G \in Int
        BY <1>10, <3>1
      <3>3. MaxCharge * (N - H) = MaxCharge * (N - G) + MaxCharge
        BY <1>1, <3>2, Multiples
      <3> QED
        BY <1>1, <1>3, <1>7, <1>8, <1>11, <2>1, <3>3
    <2>2. CASE c # k \/ req[f].kind = "execute"
      <3>1. H = G
        BY <1>9, <2>2 DEF G, H
      <3> QED
        BY <1>1, <1>3, <1>7, <1>8, <1>11, <2>2, <3>1
    <2> QED
      BY <2>1, <2>2
  <1>14. keys'[k].quota <= room'[k]
    BY <1>1, <1>3, <1>6, <1>7, <1>8 DEF Covered
  <1> QED
    BY <1>6, <1>12, <1>13, <1>14 DEF Covered, N, H

LEMMA QuotaInvNext == ASSUME Types, ExistInv, QuotaInv, KeyNext PROVE QuotaInv'
  <1>1. room' \in [Keys -> Int]
    <2>1. Watch
      BY NextCases
    <2>2. \A k \in Keys: keys'[k] \in KeyRows /\ keys[k] \in KeyRows /\ room[k] \in Int
      BY RowSteps DEF QuotaInv
    <2> QED
      BY <2>1, <2>2 DEF Watch, Larger, NoCap, KeyRows
  <1>2. ASSUME NEW r \in Reqs, req'[r].pc = "running" PROVE EnforceKeyGates(req[r])'
    <2>1. ReqStep(r)
      BY ReqSteps
    <2>2. EnforceKeyGates(req[r])' = EnforceKeyGates(req'[r])
      BY DEF EnforceKeyGates, Carried
    <2>3. EnforceKeyGates(req'[r])
      BY <1>2, <2>1, IdleReq DEF ReqStep, QuotaInv, EnforceKeyGates, Carried, Same
    <2> QED
      BY <2>2, <2>3
  <1>3. ASSUME NEW k \in Keys, Exists(k)', room'[k] # NoCap PROVE Covered(k)'
    BY <1>3, CoveredUncharged, CoveredCharged DEF Finishes
  <1> QED
    BY <1>1, <1>2, <1>3 DEF QuotaInv, NoCap
----------------------------------------------------------------------------
Inv == Types /\ GroupsInv /\ AdmitInv /\ DeleteInv /\ ExistInv /\ ConfineInv /\ QuotaInv

LEMMA InvInit == KeyInit => Inv
<1> SUFFICES ASSUME KeyInit PROVE Inv
    OBVIOUS
<1>1. Types
    BY TypesInit
<1>2. GroupsInv
    BY <1>1 DEF KeyInit, GroupInit, GroupsInv, Types, NoDanglingLinks, GroupSpendKept, NewGroupRow
<1>3. AdmitInv
    BY DEF KeyInit, AdmitInv, Explained, NoReq
<1>4. DeleteInv
    BY DEF KeyInit, DeleteInv, NotDeleting
<1>5. ExistInv
    BY DEF KeyInit, ExistInv, Exists, NoReq
<1>6. ConfineInv
    BY DEF KeyInit, ConfineInv, NoReq
<1>7. QuotaInv
    <2>1. room \in [Keys -> Int]
        BY <1>1 DEF KeyInit, Types, KeysOK, KeyRows, NoCap
    <2>2. ASSUME NEW k \in Keys, room[k] # NoCap PROVE Covered(k)
      <3>1. Gated(k) = {}
        BY DEF KeyInit, Gated, NoReq
      <3>2. Cardinality(Gated(k)) = 0
        BY <3>1, FS_EmptySet
      <3>3. /\ keys[k].quota # 0 /\ room[k] = keys[k].quota /\ keys[k].used = 0 /\ keys[k].quota \in Nat
        BY <1>1, <2>2 DEF KeyInit, Types, KeysOK, KeyRows
      <3>4. MaxCharge * (Cardinality(Reqs) - Cardinality(Gated(k))) \in Int
            /\ MaxCharge <= MaxCharge * (Cardinality(Reqs) - Cardinality(Gated(k)))
        <4>1. Cardinality(Reqs) - Cardinality(Gated(k)) \in Int /\ 1 <= Cardinality(Reqs) - Cardinality(Gated(k))
          BY <3>2, GatedSize
        <4> QED
          BY <4>1, DearestCharge, Multiples
      <3> QED
        BY <3>1, <3>3, <3>4, DearestCharge DEF Covered
    <2> QED
        BY <2>1, <2>2 DEF KeyInit, NoReq, QuotaInv
<1> QED
    BY <1>1, <1>2, <1>3, <1>4, <1>5, <1>6, <1>7 DEF Inv

LEMMA InvNext == Inv /\ [KeyNext]_keyVars => Inv'
<1> SUFFICES ASSUME Inv, [KeyNext]_keyVars PROVE Inv'
    OBVIOUS
<1>1. CASE KeyNext
    <2>1. Types'
        BY <1>1, KeysOKNext, RotatingOKNext, DeletingOKNext, GroupsInvNext, ReqSteps DEF Inv, Types, GroupsInv
    <2> QED
        BY <1>1, <2>1, GroupsInvNext, AdmitInvNext, DeleteInvNext, ExistInvNext, ConfineInvNext,
           QuotaInvNext DEF Inv
<1>2. CASE UNCHANGED keyVars
    <2>0. UNCHANGED <<keys, minted, rotating, deleting, req, barred, seen, room, groups, members, bindings, editing, spent>>
        BY <1>2 DEF keyVars, groupVars
    <2>1. Types'
        BY <2>0 DEF Inv, Types, KeysOK, RotatingOK, DeletingOK, GroupsOK, ReqsOK
    <2>2. GroupsInv'
        BY <2>0 DEF Inv, GroupsInv, GroupsOK, NoDanglingLinks, GroupSpendKept
    <2>3. AdmitInv'
        BY <2>0 DEF Inv, AdmitInv, Explained, EnforceKeyGates, Carried, Allowed
    <2>4. DeleteInv'
        BY <2>0 DEF Inv, DeleteInv
    <2>5. ExistInv' /\ ConfineInv'
        BY <2>0 DEF Inv, ExistInv, Exists, ConfineInv
    <2>6. QuotaInv'
        BY <2>0 DEF Inv, QuotaInv, Exists, Covered, Gated, EnforceKeyGates, Carried, NoCap
    <2> QED
        BY <2>1, <2>2, <2>3, <2>4, <2>5, <2>6 DEF Inv
<1> QED
    BY <1>1, <1>2

(* Types, the groups' tables, admission and the partner delete together:    *)
(* the inductive invariant of keys and groups, for any interleaving of the  *)
(* admin, CPA and request handlers.                                         *)
THEOREM AlwaysInv == KeySpec => []Inv
  BY InvInit, InvNext, PTL DEF KeySpec

(* No member and no binding ever names a deleted group, whatever requests   *)
(* and operators do to the tables of group_store.go at once.                *)
THEOREM LinksNeverDangle == KeySpec => []NoDanglingLinks
  <1>1. Inv => NoDanglingLinks
    BY DEF Inv, GroupsInv
  <1> QED
    BY <1>1, AlwaysInv, PTL

(* A PUT /groups/{id} that loaded its row before a charge never writes the  *)
(* charge away.                                                             *)
THEOREM SpendNeverLost == KeySpec => []GroupSpendKept
  <1>1. Inv => GroupSpendKept
    BY DEF Inv, GroupsInv
  <1> QED
    BY <1>1, AlwaysInv, PTL

(* Whatever is rotated, revoked, patched or charged while a request is on   *)
(* its way through authentication, group resolution and enforceKeyGates, it *)
(* runs only if its key permitted it at one instant after it was sent.      *)
THEOREM AlwaysAdmittedAtAnInstant == KeySpec => []AdmittedAtAnInstant
  <1>1. Inv => AdmittedAtAnInstant
    BY DEF Inv, AdmitInv, Explained, AdmittedAtAnInstant
  <1> QED
    BY <1>1, AlwaysInv, PTL

(* A partner's keys that a clean HandleDelete found active are revoked for  *)
(* good.                                                                    *)
THEOREM DeletedStayRevoked == KeySpec => []DeletedKeysStayRevoked
  <1>1. Inv => DeletedKeysStayRevoked
    BY DEF Inv, DeleteInv, DeletedKeysStayRevoked
  <1> QED
    BY <1>1, AlwaysInv, PTL

(* No statement of apikey_store.go brings a revoked key back.               *)
THEOREM RevocationIsFinal == KeySpec => RevokedIsFinal
  <1>1. Inv /\ [KeyNext]_keyVars => [\A k \in Keys: keys[k].st = "revoked" => keys'[k].st = "revoked"]_keyVars
    BY RevokedStays DEF Inv
  <1> QED
    BY <1>1, AlwaysInv, PTL DEF KeySpec, RevokedIsFinal

(* A key bound to groups, or given one of its own, runs in the whole pool   *)
(* only through resolveGroup's failed listing, a group its caller pinned,   *)
(* or an instant of the request at which nothing confined it.               *)
THEOREM AlwaysConfinementExplained == KeySpec => []ConfinementExplained
  <1>1. Inv => ConfinementExplained
    BY DEF Inv, ConfineInv, ConfinementExplained
  <1> QED
    BY <1>1, AlwaysInv, PTL

(* enforceKeyGates looks at a snapshot, so requests in flight together may  *)
(* overspend a monthly quota: by no more than the dearest charge for each   *)
(* request the server runs at once, whatever the quotas, the charges and    *)
(* the number of requests; only /internal/execute comes on top.             *)
THEOREM OverspendAlwaysBounded == KeySpec => []OverspendBounded
  <1>1. Inv => OverspendBounded
    <2>1. SUFFICES ASSUME Inv, NEW k \in Keys, Exists(k), room[k] # NoCap
                   PROVE  keys[k].used <= room[k] - Est + MaxCharge * Cardinality(Reqs)
      BY DEF OverspendBounded
    <2> DEFINE N == Cardinality(Reqs)
               G == Cardinality(Gated(k))
    <2>2. keys[k].used <= room[k] - Est + MaxCharge * (N - G)
      BY <2>1 DEF Inv, QuotaInv, Covered
    <2>3. N \in Nat /\ G \in Nat /\ MaxCharge \in Nat /\ Est \in Nat
      BY GatedSize, DearestCharge
    <2> HIDE DEF N, G
    <2>4. MaxCharge * (N - G) <= MaxCharge * N /\ MaxCharge * (N - G) \in Int /\ MaxCharge * N \in Int
      <3>1. N - G \in Int /\ N - G <= N
        BY <2>3
      <3> QED
        BY <2>3, <3>1, Multiples
    <2>5. room[k] \in Int /\ keys[k].used \in Nat
      BY <2>1 DEF Inv, QuotaInv, Types, KeysOK, KeyRows
    <2> QED
      BY <2>2, <2>3, <2>4, <2>5 DEF N
  <1> QED
    BY <1>1, AlwaysInv, PTL
----------------------------------------------------------------------------
(* The admin bearer.                                                        *)
RotPCs == {"idle", "persist", "old", "prev", "expiry", "swap"}
CheckPCs == {"none", "current", "deadline", "previous", "ok", "refused"}
BearerTypes ==
    /\ current \in Bearers /\ previous \in Bearers \cup {Absent} /\ stored \in Bearers \cup {Absent}
    /\ prevExpiry \in Nat /\ time \in Nat /\ crossed \in BOOLEAN
    /\ rot \in [Rotators -> [pc: RotPCs, new: Bearers, old: Bearers]]
    /\ check \in [pc: CheckPCs, cand: Bearers, live: BOOLEAN, touched: Nat]
    /\ lastCurrent \in [Bearers -> Int]

\* Time stands still while a rotation is between its loads and stores, so the
\* bearer it read was current now; so was the previous one, until the expiry
\* that belongs to it is stored.
GraceInv ==
    /\ \A b \in Bearers: lastCurrent[b] <= time
    /\ lastCurrent[current] = time
    /\ \A o \in InMemory: lastCurrent[rot[o].old] = time
    /\ prevExpiry <= time + GraceWindow
    /\ previous # Absent => prevExpiry <= lastCurrent[previous] + GraceWindow
    /\ previous # Absent /\ (\E o \in Rotators: rot[o].pc = "expiry") => lastCurrent[previous] = time

\* One rotation at a time: the row holds its bearer from the write on, and
\* memory catches up at the swap.
AloneInv ==
    ~crossed =>
        /\ \A o, p \in Mid: o = p
        /\ \A o \in Mid: rot[o].pc # "persist" => stored = rot[o].new
        /\ (\A o \in Mid: rot[o].pc = "persist") => current = Load(stored)
        /\ \A o \in InMemory: rot[o].old = current
        /\ \A o \in Mid: rot[o].pc \in {"expiry", "swap"}
                         => previous = IF Replaces(o) THEN rot[o].old ELSE Absent
        /\ \A o \in Mid: rot[o].pc = "swap" => prevExpiry = IF Replaces(o) THEN time + GraceWindow ELSE 0

\* A caller whose bearer at most one rotation replaced finds it, in memory or
\* as the previous one.
Swapping == \E o \in Rotators: rot[o].pc \in {"expiry", "swap"}
Kept == ~Swapping /\ previous = check.cand /\ time < prevExpiry
CheckInv ==
    ~crossed /\ check.touched < 2 =>
        /\ check.pc = "current" /\ check.touched = 0 => ~Swapping /\ current = check.cand
        /\ check.pc = "current" /\ check.touched = 1 => current = check.cand \/ Kept
        /\ check.pc \in {"deadline", "previous"} => check.touched = 1 /\ Kept
        /\ check.pc = "previous" => check.live
        /\ check.pc # "refused"

BearerInv == BearerTypes /\ GraceInv /\ AloneInv /\ CheckInv

LEMMA BearerInvInit == BearerInit => BearerInv
<1> SUFFICES ASSUME BearerInit PROVE BearerInv
    OBVIOUS
<1> USE BearerAssumption
<1>1. BearerTypes
  <2>1. NoCheck \in [pc: CheckPCs, cand: Bearers, live: BOOLEAN, touched: Nat]
    BY DEF NoCheck, CheckPCs
  <2>2. Idle \in [pc: RotPCs, new: Bearers, old: Bearers]
    BY DEF Idle, RotPCs
  <2>3. Never \in Int
    BY DEF Never
  <2>4. /\ current \in Bearers /\ previous \in Bearers \cup {Absent} /\ stored \in Bearers \cup {Absent}
        /\ prevExpiry \in Nat /\ time \in Nat /\ crossed \in BOOLEAN
    BY DEF BearerInit, Load
  <2>5. lastCurrent \in [Bearers -> Int]
    BY <2>3 DEF BearerInit
  <2>6. rot = [o \in Rotators |-> Idle] /\ check = NoCheck
    BY DEF BearerInit
  <2> QED
    BY <2>1, <2>2, <2>4, <2>5, <2>6 DEF BearerTypes
<1>2. GraceInv
    BY DEF BearerInit, GraceInv, Load, Idle, InMemory, Never
<1>3. AloneInv
    BY DEF BearerInit, AloneInv, Load, Idle, Mid, InMemory
<1>4. CheckInv
    BY DEF BearerInit, CheckInv, NoCheck
<1> QED
    BY <1>1, <1>2, <1>3, <1>4 DEF BearerInv

LEMMA BearerTypesNext == ASSUME BearerTypes, BearerNext PROVE BearerTypes'
  <1> USE BearerAssumption DEF BearerTypes
  <1>a. Idle \in [pc: RotPCs, new: Bearers, old: Bearers] /\ Load(stored) \in Bearers
    BY DEF Idle, RotPCs, Load
  <1>b. NoCheck \in [pc: CheckPCs, cand: Bearers, live: BOOLEAN, touched: Nat]
    BY DEF NoCheck, CheckPCs
  <1>c. ASSUME NEW n \in Nat PROVE [check EXCEPT !.touched = n] \in [pc: CheckPCs, cand: Bearers, live: BOOLEAN, touched: Nat]
    OBVIOUS
  <1>1. ASSUME NEW o \in Rotators, NEW shown \in Bearers, NEW new \in Bearers, RotateBearer(o, shown, new)
        PROVE  BearerTypes'
    <2>1. [Idle EXCEPT !.pc = "persist", !.new = new] \in [pc: RotPCs, new: Bearers, old: Bearers]
      BY <1>a DEF RotPCs
    <2> QED
      BY <1>1, <2>1 DEF RotateBearer
  <1>2. ASSUME NEW o \in Rotators, Persist(o) \/ PersistFails(o) \/ ReadOld(o) PROVE BearerTypes'
    BY <1>2, <1>a DEF Persist, PersistFails, ReadOld, RotPCs
  <1>3. ASSUME NEW o \in Rotators, StorePrevious(o) PROVE BearerTypes'
    <2>1. (IF check.touched < 2 THEN check.touched + 1 ELSE check.touched) \in Nat
      OBVIOUS
    <2>2. check' = [check EXCEPT !.touched = IF check.touched < 2 THEN check.touched + 1 ELSE check.touched]
      BY <1>3 DEF StorePrevious
    <2>3. check' \in [pc: CheckPCs, cand: Bearers, live: BOOLEAN, touched: Nat]
      BY <1>c, <2>1, <2>2
    <2> QED
      BY <1>3, <2>3 DEF StorePrevious, RotPCs
  <1>4. ASSUME NEW o \in Rotators, StoreExpiry(o) \/ SetCurrent(o) PROVE BearerTypes'
    BY <1>4, <1>a DEF StoreExpiry, SetCurrent, RotPCs
  <1>5. CASE CheckCurrent
    <2>1. Cardinality({o \in Rotators: rot[o].pc \in {"expiry", "swap"}}) \in Nat
      BY FS_Subset, FS_CardinalityType
    <2> QED
      BY <1>5, <2>1 DEF CheckCurrent, CheckPCs
  <1>6. CASE CheckDeadline \/ CheckPrevious \/ CheckVerdict
    <2>1. \E pc \in CheckPCs, live \in BOOLEAN: check' = [check EXCEPT !.pc = pc, !.live = live]
      <3>1. check = [check EXCEPT !.live = check.live] /\ check.live \in BOOLEAN
        OBVIOUS
      <3>2. \A pc: [check EXCEPT !.pc = pc] = [check EXCEPT !.pc = pc, !.live = check.live]
        OBVIOUS
      <3>3. (time < prevExpiry) \in BOOLEAN
        OBVIOUS
      <3>4. CASE CheckDeadline
        BY <3>1, <3>2, <3>4 DEF CheckDeadline, CheckPCs
      <3>5. CASE CheckPrevious
        <4>1. check' = [check EXCEPT !.pc = "previous", !.live = time < prevExpiry]
          BY <3>5 DEF CheckPrevious
        <4> QED
          BY <3>3, <4>1 DEF CheckPCs
      <3>6. CASE CheckVerdict
        BY <3>1, <3>2, <3>6 DEF CheckVerdict, CheckPCs
      <3> QED
        BY <1>6, <3>4, <3>5, <3>6
    <2>2. check' \in [pc: CheckPCs, cand: Bearers, live: BOOLEAN, touched: Nat]
      BY <2>1
    <2> QED
      BY <1>6, <2>2 DEF CheckDeadline, CheckPrevious, CheckVerdict
  <1>7. CASE BearerTick
    BY <1>7 DEF BearerTick
  <1>8. CASE Reboot
    <2>0. /\ current' = Load(stored) /\ previous' = Absent /\ prevExpiry' = 0 /\ crossed' = FALSE
          /\ lastCurrent' = [lastCurrent EXCEPT ![Load(stored)] = time] /\ stored' = stored /\ time' = time
      BY <1>8 DEF Reboot
    <2>1. /\ current' \in Bearers /\ previous' \in Bearers \cup {Absent} /\ stored' \in Bearers \cup {Absent}
          /\ prevExpiry' \in Nat /\ time' \in Nat
      BY <1>a, <2>0
    <2>c. crossed' \in BOOLEAN
      BY <2>0
    <2>l. lastCurrent' \in [Bearers -> Int]
      BY <1>a, <2>0
    <2>2. rot' = [o \in Rotators |-> Idle] /\ check' = NoCheck
      BY <1>8 DEF Reboot
    <2> QED
      BY <1>a, <1>b, <2>1, <2>2, <2>c, <2>l
  <1> QED
    BY <1>1, <1>2, <1>3, <1>4, <1>5, <1>6, <1>7, <1>8 DEF BearerNext

LEMMA GraceInvNext == ASSUME BearerTypes, GraceInv, BearerNext PROVE GraceInv'
  <1> USE BearerAssumption DEF BearerTypes, GraceInv, InMemory
  <1>1. ASSUME NEW o \in Rotators, NEW shown \in Bearers, NEW new \in Bearers, RotateBearer(o, shown, new)
        PROVE  GraceInv'
    BY <1>1 DEF RotateBearer, Idle
  <1>2. ASSUME NEW o \in Rotators, Persist(o) \/ PersistFails(o) \/ ReadOld(o) PROVE GraceInv'
    BY <1>2 DEF Persist, PersistFails, ReadOld, Idle
  <1>3. ASSUME NEW o \in Rotators, StorePrevious(o) PROVE GraceInv'
    BY <1>3 DEF StorePrevious
  <1>4. ASSUME NEW o \in Rotators, StoreExpiry(o) PROVE GraceInv'
    BY <1>4 DEF StoreExpiry
  <1>5. ASSUME NEW o \in Rotators, SetCurrent(o) PROVE GraceInv'
    BY <1>5 DEF SetCurrent, Idle
  <1>6. CASE CheckCurrent \/ CheckDeadline \/ CheckPrevious \/ CheckVerdict
    BY <1>6 DEF CheckCurrent, CheckDeadline, CheckPrevious, CheckVerdict
  <1>7. CASE BearerTick
    BY <1>7 DEF BearerTick
  <1>8. CASE Reboot
    BY <1>8 DEF Reboot, Idle, Load
  <1> QED
    BY <1>1, <1>2, <1>3, <1>4, <1>5, <1>6, <1>7, <1>8 DEF BearerNext

LEMMA AloneInvNext == ASSUME BearerTypes, AloneInv, BearerNext PROVE AloneInv'
  <1> USE BearerAssumption DEF BearerTypes, AloneInv, InMemory, Mid
  <1>1. ASSUME NEW o \in Rotators, NEW shown \in Bearers, NEW new \in Bearers, RotateBearer(o, shown, new)
        PROVE  AloneInv'
    BY <1>1 DEF RotateBearer, Idle, Replaces
  <1>2. ASSUME NEW o \in Rotators, Persist(o) \/ PersistFails(o) \/ ReadOld(o) PROVE AloneInv'
    BY <1>2 DEF Persist, PersistFails, ReadOld, Idle, Replaces
  <1>3. ASSUME NEW o \in Rotators, StorePrevious(o) PROVE AloneInv'
    BY <1>3 DEF StorePrevious, Replaces
  <1>4. ASSUME NEW o \in Rotators, StoreExpiry(o) PROVE AloneInv'
    BY <1>4 DEF StoreExpiry, Replaces
  <1>5. ASSUME NEW o \in Rotators, SetCurrent(o) PROVE AloneInv'
    BY <1>5 DEF SetCurrent, Idle, Replaces, Load
  <1>6. CASE CheckCurrent \/ CheckDeadline \/ CheckPrevious \/ CheckVerdict
    BY <1>6 DEF CheckCurrent, CheckDeadline, CheckPrevious, CheckVerdict, Replaces
  <1>7. CASE BearerTick
    BY <1>7 DEF BearerTick, Replaces
  <1>8. CASE Reboot
    BY <1>8 DEF Reboot, Idle, Load
  <1> QED
    BY <1>1, <1>2, <1>3, <1>4, <1>5, <1>6, <1>7, <1>8 DEF BearerNext

LEMMA CheckInvNext == ASSUME BearerTypes, AloneInv, CheckInv, BearerNext PROVE CheckInv'
  <1> USE BearerAssumption DEF BearerTypes, CheckInv, Kept, Swapping
  <1>1. ASSUME NEW o \in Rotators, NEW shown \in Bearers, NEW new \in Bearers, RotateBearer(o, shown, new)
        PROVE  CheckInv'
    BY <1>1 DEF RotateBearer, Idle
  <1>2. ASSUME NEW o \in Rotators, Persist(o) \/ PersistFails(o) \/ ReadOld(o) PROVE CheckInv'
    <2>1. CASE Persist(o)
      BY <2>1 DEF Persist, Idle
    <2>2. CASE PersistFails(o)
      BY <2>2 DEF PersistFails, Idle
    <2>3. CASE ReadOld(o)
      BY <2>3 DEF ReadOld, Idle
    <2> QED
      BY <1>2, <2>1, <2>2, <2>3
  <1>3. ASSUME NEW o \in Rotators, StorePrevious(o) PROVE CheckInv'
    <2>1. check' = [check EXCEPT !.touched = IF check.touched < 2 THEN check.touched + 1 ELSE check.touched]
      BY <1>3 DEF StorePrevious
    <2>2. /\ check'.pc = check.pc /\ check'.cand = check.cand /\ check'.live = check.live
          /\ check'.touched = IF check.touched < 2 THEN check.touched + 1 ELSE check.touched
      BY <2>1
    <2>3. check'.touched # 0 /\ (check'.touched < 2 => check'.touched = 1 /\ check.touched = 0)
      BY <2>2
    <2>4. current' = current /\ crossed' = crossed
      BY <1>3 DEF StorePrevious
    <2>5. ~crossed /\ check.touched = 0 => check.pc \notin {"deadline", "previous", "refused"}
                                          /\ (check.pc = "current" => current = check.cand)
      BY DEF CheckInv
    <2> QED
      BY <2>2, <2>3, <2>4, <2>5
  <1>s. ASSUME Swapping, ~crossed, check.touched < 2
        PROVE  /\ check.pc \notin {"deadline", "previous", "refused"}
               /\ check.pc = "current" => check.touched = 1 /\ current = check.cand
    BY <1>s
  <1>4. ASSUME NEW o \in Rotators, StoreExpiry(o) PROVE CheckInv'
    <2>1. Swapping /\ UNCHANGED <<current, check, crossed>>
      BY <1>4 DEF StoreExpiry
    <2> QED
      BY <1>s, <2>1
  <1>5. ASSUME NEW o \in Rotators, SetCurrent(o) PROVE CheckInv'
    <2>1. /\ Swapping /\ rot[o].pc = "swap" /\ current' = rot[o].new /\ rot' = [rot EXCEPT ![o] = Idle]
          /\ UNCHANGED <<previous, prevExpiry, check, crossed, time>>
      BY <1>5 DEF SetCurrent
    <2>2. ASSUME ~crossed
          PROVE  /\ ~Swapping' /\ rot[o].old = current
                 /\ previous = IF Replaces(o) THEN rot[o].old ELSE Absent
                 /\ prevExpiry = IF Replaces(o) THEN time + GraceWindow ELSE 0
      <3>1. \A p \in Rotators: rot[p].pc # "idle" => p = o
        BY <2>1, <2>2 DEF AloneInv, Mid
      <3>2. ~Swapping'
        BY <2>1, <3>1 DEF Idle
      <3> QED
        BY <2>1, <2>2, <3>2 DEF AloneInv, Mid, InMemory
    <2>3. ASSUME ~crossed, current = check.cand PROVE current' = check.cand \/ Kept'
      <3>1. CASE Replaces(o)
        BY <2>1, <2>2, <2>3, <3>1
      <3>2. CASE ~Replaces(o)
        BY <2>1, <2>2, <2>3, <3>2 DEF Replaces
      <3> QED
        BY <3>1, <3>2
    <2> QED
      BY <1>s, <2>1, <2>3
  <1>6. CASE CheckCurrent
    <2> DEFINE E == {o \in Rotators: rot[o].pc \in {"expiry", "swap"}}
    <2>1. IsFiniteSet(E) /\ (Cardinality(E) = 0 => E = {})
      <3>1. IsFiniteSet(E)
        BY FS_Subset
      <3> HIDE DEF E
      <3> QED
        BY <3>1, FS_EmptySet
    <2>2. /\ check'.pc = "current" /\ check'.cand = current /\ check'.touched = Cardinality(E)
          /\ UNCHANGED <<current, rot>>
      BY <1>6 DEF CheckCurrent
    <2> QED
      BY <2>1, <2>2
  <1>7. CASE CheckDeadline \/ CheckPrevious \/ CheckVerdict
    <2>1. /\ UNCHANGED <<current, previous, prevExpiry, rot, time, crossed>>
          /\ check'.cand = check.cand /\ check'.touched = check.touched
      BY <1>7 DEF CheckDeadline, CheckPrevious, CheckVerdict
    <2>2. Kept' = Kept
      BY <2>1
    <2>3. CASE CheckDeadline
      <3>1. check.pc = "current" /\ check'.pc = IF check.cand = current THEN "ok" ELSE "deadline"
        BY <2>3 DEF CheckDeadline
      <3>2. check.touched = 0 \/ check.touched = 1 \/ ~(check.touched < 2)
        OBVIOUS
      <3> QED
        BY <2>1, <2>2, <3>1, <3>2
    <2>4. CASE CheckPrevious
      <3>1. check.pc = "deadline" /\ check'.pc = "previous" /\ check'.live = (time < prevExpiry)
        BY <2>4 DEF CheckPrevious
      <3> QED
        BY <2>1, <2>2, <3>1
    <2>5. CASE CheckVerdict
      <3>1. check.pc = "previous" /\ check'.pc = IF check.live /\ previous = check.cand THEN "ok" ELSE "refused"
        BY <2>5 DEF CheckVerdict
      <3> QED
        BY <2>1, <2>2, <3>1
    <2> QED
      BY <1>7, <2>3, <2>4, <2>5
  <1>8. CASE BearerTick
    BY <1>8 DEF BearerTick
  <1>9. CASE Reboot
    BY <1>9 DEF Reboot, NoCheck
  <1> QED
    BY <1>1, <1>2, <1>3, <1>4, <1>5, <1>6, <1>7, <1>8, <1>9 DEF BearerNext

LEMMA BearerInvNext == BearerInv /\ [BearerNext]_bearerVars => BearerInv'
<1> SUFFICES ASSUME BearerInv, [BearerNext]_bearerVars PROVE BearerInv'
    OBVIOUS
<1>1. CASE BearerNext
    BY <1>1, BearerTypesNext, GraceInvNext, AloneInvNext, CheckInvNext DEF BearerInv
<1>2. CASE UNCHANGED bearerVars
    BY <1>2 DEF bearerVars, BearerInv, BearerTypes, GraceInv, AloneInv, CheckInv, Mid, InMemory, Replaces, Kept, Swapping
<1> QED
    BY <1>1, <1>2

(* However many rotations store the three atomics of bearer.Manager at once, *)
(* whatever restarts, no bearer outlives its grace window, a caller is       *)
(* refused the bearer it was given only when two rotations replaced it or    *)
(* crossed, and between rotations memory and the row agree.                  *)
THEOREM RotationAlwaysSafe == BearerSpec => []RotationSafe
  <1>1. BearerInv => RotationSafe
    <2> SUFFICES ASSUME BearerInv PROVE RotationSafe
      OBVIOUS
    <2>1. GraceBounded
      BY BearerAssumption DEF BearerInv, BearerTypes, GraceInv, GraceBounded, Accepts, PreviousIfActive
    <2>2. NoFalseRefusal
      BY DEF BearerInv, BearerTypes, CheckInv, NoFalseRefusal
    <2>3. SurvivesRestart
      BY DEF BearerInv, AloneInv, SurvivesRestart
    <2> QED
      BY <2>1, <2>2, <2>3 DEF RotationSafe
  <1> QED
    BY <1>1, BearerInvInit, BearerInvNext, PTL DEF BearerSpec
----------------------------------------------------------------------------
(* The rate limit.                                                          *)
Bucket == buckets[Watched]
RateTypes ==
    /\ buckets \in [Callers -> [tokens: Int, last: Int, lastSeen: Int]]
    /\ waiting \in [Arrivals -> [on: BOOLEAN, caller: Callers, now: Int]]
    /\ seconds \in Nat /\ admitted \in Seq(Nat)
    /\ \A a \in Arrivals: waiting[a].on => seconds - LockLag <= waiting[a].now /\ waiting[a].now <= seconds
    /\ \A i \in DOMAIN admitted: admitted[i] <= seconds

\* The admissions since the i-th one.
Since(i) == Len(admitted) - i + 1

\* What a bucket holds, together with what was admitted since any instant, is
\* what the burst and the refill up to its last refill account for; a bucket
\* is gone only after it had the time to fill up.
BucketInv ==
    IF Bucket.tokens < 0 THEN \A i \in DOMAIN admitted: Since(i) <= RPS * (seconds - admitted[i])
    ELSE /\ Bucket.tokens <= Burst /\ Bucket.last <= seconds /\ Bucket.last <= Bucket.lastSeen + LockLag
         /\ \A i \in DOMAIN admitted:
                /\ 0 <= Bucket.last - admitted[i] + LockLag
                /\ Since(i) + Bucket.tokens <= Burst + RPS * (Bucket.last - admitted[i] + LockLag)

RateInv == RateTypes /\ BucketInv /\ RateBounded

LEMMA RateInvInit == RateInit => RateInv
<1> SUFFICES ASSUME RateInit PROVE RateInv
    OBVIOUS
<1> USE RateAssumption
<1>1. RateTypes
    BY DEF RateInit, RateTypes, NoBucket, NotWaiting
<1>2. BucketInv /\ RateBounded
    BY DEF RateInit, BucketInv, RateBounded, Bucket, NoBucket
<1> QED
    BY <1>1, <1>2 DEF RateInv

\* Refilling never hands out more than the time that passed is worth.
LEMMA Refills ==
  ASSUME RateTypes, BucketInv, NEW n \in Int, seconds - LockLag <= n, n <= seconds
  PROVE  LET b == Refilled(Bucket, n)
         IN /\ b \in [tokens: Int, last: Int, lastSeen: Int] /\ 0 <= b.tokens /\ b.tokens <= Burst
            /\ n <= b.last /\ b.last <= seconds /\ b.last <= b.lastSeen + LockLag
            /\ \A i \in DOMAIN admitted:
                  /\ 0 <= b.last - admitted[i] + LockLag
                  /\ Since(i) + b.tokens <= Burst + RPS * (b.last - admitted[i] + LockLag)
  <1> DEFINE b == Refilled(Bucket, n)
  <1> USE RateAssumption
  <1>0. Bucket \in [tokens: Int, last: Int, lastSeen: Int] /\ seconds \in Nat /\ admitted \in Seq(Nat)
    BY DEF RateTypes, Bucket
  <1>i. ASSUME NEW i \in DOMAIN admitted
        PROVE  admitted[i] \in Nat /\ admitted[i] <= seconds /\ Since(i) \in Int
    BY <1>0 DEF RateTypes, Since
  <1>1. CASE Bucket.tokens < 0
    <2>1. b = [tokens |-> Burst, last |-> n, lastSeen |-> n]
      BY <1>1 DEF Refilled
    <2>2. ASSUME NEW i \in DOMAIN admitted
          PROVE  /\ 0 <= n - admitted[i] + LockLag
                 /\ Since(i) + Burst <= Burst + RPS * (n - admitted[i] + LockLag)
      <3>1. Since(i) <= RPS * (seconds - admitted[i])
        BY <1>1 DEF BucketInv
      <3>2. /\ seconds - admitted[i] \in Int /\ n - admitted[i] + LockLag \in Int
            /\ seconds - admitted[i] <= n - admitted[i] + LockLag /\ 0 <= n - admitted[i] + LockLag
        <4>1. \A w, x, y, z \in Int:
                 x - z <= y /\ w <= x =>
                    x - w \in Int /\ y - w + z \in Int /\ x - w <= y - w + z /\ 0 <= y - w + z
          BY ONLY TRUE
        <4>2. /\ seconds \in Int /\ admitted[i] \in Int /\ LockLag \in Int /\ n \in Int
              /\ seconds - LockLag <= n /\ admitted[i] <= seconds
          BY <1>0, <1>i
        <4> QED
          BY ONLY <4>1, <4>2
      <3>3. /\ RPS * (seconds - admitted[i]) <= RPS * (n - admitted[i] + LockLag)
            /\ RPS * (seconds - admitted[i]) \in Int /\ RPS * (n - admitted[i] + LockLag) \in Int
        BY <3>2, Multiples
      <3> QED
        BY <1>i, <3>1, <3>2, <3>3
    <2> QED
      BY <1>0, <2>1, <2>2
  <1>2. CASE Bucket.tokens >= 0 /\ n > Bucket.last
    <2> DEFINE t == Bucket.tokens
               l == Bucket.last
    <2>1. b = [tokens |-> Least(t + RPS * (n - l), Burst), last |-> n, lastSeen |-> n]
      BY <1>0, <1>2 DEF Refilled
    <2>2. t \in Int /\ l \in Int /\ t >= 0 /\ n > l /\ n - l \in Int /\ 0 <= n - l
      BY <1>0, <1>2
    <2> HIDE DEF t, l
    <2>3. RPS * (n - l) \in Int /\ 0 <= RPS * (n - l)
      BY <2>2, Multiples
    <2> DEFINE new == Least(t + RPS * (n - l), Burst)
    <2>4. new \in Int /\ 0 <= new /\ new <= Burst /\ new <= t + RPS * (n - l)
      BY <2>2, <2>3 DEF Least
    <2> HIDE DEF new
    <2>5. ASSUME NEW i \in DOMAIN admitted
          PROVE  /\ 0 <= n - admitted[i] + LockLag
                 /\ Since(i) + new <= Burst + RPS * (n - admitted[i] + LockLag)
      <3> DEFINE x == l - admitted[i] + LockLag
      <3>1. Since(i) + t <= Burst + RPS * x /\ 0 <= x
        BY <1>0, <1>2 DEF BucketInv, t, l
      <3>2. x \in Int /\ n - admitted[i] + LockLag = x + (n - l)
        BY <1>i, <2>2
      <3> HIDE DEF x
      <3>3. RPS * (x + (n - l)) = RPS * x + RPS * (n - l) /\ RPS * x \in Int
        BY <2>2, <3>2, Multiples
      <3> QED
        BY <1>i, <2>2, <2>3, <2>4, <3>1, <3>2, <3>3
    <2>6. b = [tokens |-> new, last |-> n, lastSeen |-> n]
      BY <2>1 DEF new
    <2> QED
      BY <1>0, <2>4, <2>5, <2>6
  <1>3. CASE Bucket.tokens >= 0 /\ ~(n > Bucket.last)
    <2>1. b = [Bucket EXCEPT !.lastSeen = n]
      BY <1>0, <1>3 DEF Refilled
    <2>2. b \in [tokens: Int, last: Int, lastSeen: Int] /\ b.tokens = Bucket.tokens /\ b.last = Bucket.last /\ b.lastSeen = n
      BY <1>0, <2>1
    <2> HIDE DEF b
    <2>3. Bucket.tokens <= Burst /\ Bucket.last <= seconds
      BY <1>0, <1>3 DEF BucketInv
    <2>4. \A i \in DOMAIN admitted:
                /\ 0 <= Bucket.last - admitted[i] + LockLag
                /\ Since(i) + Bucket.tokens <= Burst + RPS * (Bucket.last - admitted[i] + LockLag)
      BY <1>0, <1>3 DEF BucketInv
    <2> QED
      BY <1>0, <1>3, <2>2, <2>3, <2>4 DEF b
  <1> QED
    BY <1>0, <1>1, <1>2, <1>3

\* A bucket evicted by another key's request would have filled up.
LEMMA Evicted ==
  ASSUME RateTypes, BucketInv, NEW n \in Int, n <= seconds, n - Bucket.lastSeen > IdleEviction,
         NEW i \in DOMAIN admitted
  PROVE  Since(i) <= RPS * (seconds - admitted[i])
  <1> USE RateAssumption
  <1>0. /\ Bucket \in [tokens: Int, last: Int, lastSeen: Int] /\ seconds \in Nat /\ admitted[i] \in Nat
        /\ Since(i) \in Int
    BY DEF RateTypes, Bucket, Since
  <1>1. CASE Bucket.tokens < 0
    BY <1>1 DEF BucketInv
  <1>2. CASE Bucket.tokens >= 0
    <2> DEFINE x == Bucket.last - admitted[i] + LockLag
               y == IdleEviction - 2 * LockLag
               z == seconds - admitted[i]
    <2>1. Since(i) + Bucket.tokens <= Burst + RPS * x /\ Bucket.last <= Bucket.lastSeen + LockLag
      BY <1>0, <1>2 DEF BucketInv
    <2>2. x \in Int /\ y \in Int /\ z \in Int /\ y + x <= z
      BY <1>0, <2>1
    <2>3. Burst <= RPS * y
      OBVIOUS
    <2> HIDE DEF x, y, z
    <2>4. /\ RPS * (y + x) = RPS * y + RPS * x /\ RPS * x \in Int /\ RPS * y \in Int /\ RPS * z \in Int
          /\ RPS * (y + x) <= RPS * z
      BY <2>2, Multiples
    <2>5. Since(i) <= RPS * z
      BY <1>0, <1>2, <2>1, <2>3, <2>4
    <2> QED
      BY <2>5 DEF z
  <1> QED
    BY <1>0, <1>1, <1>2

LEMMA RateNumbers == Watched \in Callers /\ RPS \in Nat /\ Burst \in Nat /\ LockLag \in Nat
  BY RateAssumption

LEMMA AllowKeeps == ASSUME RateInv, NEW a \in Arrivals, Allow(a) PROVE RateInv'
  <1> USE RateNumbers
  <1> DEFINE c == waiting[a].caller
             n == waiting[a].now
             kept == Evict(c, n)
             b == Refilled(kept[c], n)
             new == IF b.tokens >= 1 THEN [b EXCEPT !.tokens = @ - 1] ELSE b
             L == Len(admitted)
             BT == [tokens: Int, last: Int, lastSeen: Int]
  <1>0. /\ buckets \in [Callers -> BT] /\ seconds \in Nat /\ admitted \in Seq(Nat)
        /\ \A i \in DOMAIN admitted: admitted[i] <= seconds /\ admitted[i] \in Nat
        /\ c \in Callers /\ n \in Int /\ seconds - LockLag <= n /\ n <= seconds
    <2>1. waiting[a].on /\ waiting[a] \in [on: BOOLEAN, caller: Callers, now: Int]
      BY DEF RateInv, RateTypes, Allow
    <2>2. c \in Callers /\ n \in Int /\ seconds - LockLag <= n /\ n <= seconds
      BY <2>1 DEF RateInv, RateTypes
    <2>3. /\ buckets \in [Callers -> BT] /\ seconds \in Nat /\ admitted \in Seq(Nat)
          /\ \A i \in DOMAIN admitted: admitted[i] <= seconds
      BY DEF RateInv, RateTypes
    <2>4. \A i \in DOMAIN admitted: admitted[i] \in Nat
      BY <2>3
    <2> QED
      BY <2>2, <2>3, <2>4
  <1>n. seconds \in Nat /\ n \in Int /\ seconds - LockLag <= n /\ n <= seconds
    BY <1>0
  <1>1. /\ buckets' = [kept EXCEPT ![c] = new] /\ seconds' = seconds
        /\ admitted' = IF c = Watched /\ b.tokens >= 1 THEN Append(admitted, seconds) ELSE admitted
        /\ waiting' = [waiting EXCEPT ![a] = NotWaiting(Watched)]
    BY DEF Allow
  <1>2. kept[c] = buckets[c] /\ kept \in [Callers -> BT]
    BY <1>0 DEF Evict, NoBucket
  <1>3. kept[Watched] = IF Watched # c /\ n - Bucket.lastSeen > IdleEviction THEN NoBucket ELSE Bucket
    BY DEF Evict, Bucket
  <1>4. b \in BT /\ new \in BT
    <2>1. buckets[c] \in BT
      BY <1>0
    <2>2. Refilled(buckets[c], n) \in BT
      <3> DEFINE d == n - buckets[c].last
      <3>1. d \in Int
        BY <1>0, <2>1
      <3> HIDE DEF d
      <3>2. RPS * d \in Int
        BY <3>1, Multiples
      <3>3. Least(buckets[c].tokens + RPS * d, Burst) \in Int
        BY <2>1, <3>2 DEF Least
      <3>4. [tokens |-> Least(buckets[c].tokens + RPS * d, Burst), last |-> n, lastSeen |-> n] \in BT
        BY <1>0, <3>3
      <3>5. [tokens |-> Burst, last |-> n, lastSeen |-> n] \in BT /\ [buckets[c] EXCEPT !.lastSeen = n] \in BT
        <4> HIDE DEF n, c
        <4> QED
          BY <1>n, <2>1
      <3> QED
        BY <3>4, <3>5 DEF Refilled, d
    <2> QED
      BY <1>2, <2>2
  <1> HIDE DEF kept, b, n
  <1>5. waiting' \in [Arrivals -> [on: BOOLEAN, caller: Callers, now: Int]]
        /\ \A x \in Arrivals: waiting'[x].on => waiting'[x] = waiting[x]
    BY <1>1 DEF RateInv, RateTypes, NotWaiting
  <1>6. buckets' \in [Callers -> BT]
    BY <1>0, <1>1, <1>2, <1>4
  <1>7. /\ admitted' \in Seq(Nat)
        /\ \A i \in DOMAIN admitted': admitted'[i] <= seconds'
    <2>1. CASE admitted' = admitted
      BY <1>0, <1>1, <2>1
    <2>2. CASE admitted' = Append(admitted, seconds)
      <3>1. admitted' \in Seq(Nat) /\ DOMAIN admitted' = 1..(L + 1) /\ DOMAIN admitted = 1..L /\ L \in Nat
        BY <1>0, <2>2
      <3>2. \A i \in 1..(L + 1): admitted'[i] = IF i = L + 1 THEN seconds ELSE admitted[i]
        BY <1>0, <2>2, <3>1
      <3> QED
        BY <1>0, <1>1, <3>1, <3>2
    <2> QED
      BY <1>1, <2>1, <2>2
  <1>8. RateTypes'
    BY <1>0, <1>1, <1>5, <1>6, <1>7 DEF RateInv, RateTypes
  <1>9. CASE c # Watched
    <2>1. admitted' = admitted /\ Bucket' = kept[Watched]
      BY <1>1, <1>2, <1>9 DEF Bucket
    <2>2. CASE Bucket' = NoBucket /\ n - Bucket.lastSeen > IdleEviction
      <3>1. Bucket'.tokens < 0
        BY <2>2 DEF NoBucket
      <3>2. \A i \in DOMAIN admitted: Since(i)' = Since(i) /\ Since(i) <= RPS * (seconds - admitted[i])
        BY <1>0, <2>1, <2>2, Evicted DEF RateInv, Since
      <3>3. BucketInv'
        BY <1>1, <2>1, <3>1, <3>2 DEF BucketInv
      <3> QED
        BY <1>8, <2>1, <3>3 DEF RateInv, RateBounded
    <2>3. CASE Bucket' = Bucket
      BY <1>1, <1>8, <2>1, <2>3 DEF RateInv, BucketInv, RateBounded, Since
    <2> QED
      BY <1>3, <2>1, <2>2, <2>3
  <1>10. CASE c = Watched
    <2>0. b = Refilled(Bucket, n)
      BY <1>2, <1>10 DEF Bucket, b
    <2>1. /\ 0 <= b.tokens /\ b.tokens <= Burst
          /\ n <= b.last /\ b.last <= seconds /\ b.last <= b.lastSeen + LockLag
      BY <1>0, <2>0, Refills DEF RateInv
    <2>q. \A i \in DOMAIN admitted:
                  /\ 0 <= b.last - admitted[i] + LockLag
                  /\ Since(i) + b.tokens <= Burst + RPS * (b.last - admitted[i] + LockLag)
      BY <1>0, <2>0, Refills DEF RateInv
    <2>2. Bucket' = new
      BY <1>0, <1>1, <1>2, <1>10 DEF Bucket
    <2>3. CASE b.tokens >= 1
      <3>1. /\ admitted' = Append(admitted, seconds) /\ Len(admitted') = L + 1 /\ L \in Nat
            /\ DOMAIN admitted = 1..L /\ DOMAIN admitted' = 1..(L + 1) /\ admitted'[L + 1] = seconds
            /\ \A i \in 1..L: admitted'[i] = admitted[i]
        BY <1>0, <1>1, <1>10, <2>3
      <3>2. /\ Bucket'.tokens = b.tokens - 1 /\ Bucket'.last = b.last /\ Bucket'.lastSeen = b.lastSeen
        BY <1>4, <2>2, <2>3
      <3>t. b.tokens \in Int /\ b.last \in Int /\ b.lastSeen \in Int
        BY <1>4
      <3>3. ASSUME NEW i \in 1..(L + 1)
            PROVE  /\ 0 <= b.last - admitted'[i] + LockLag
                   /\ L + 1 - i + 1 + (b.tokens - 1) <= Burst + RPS * (b.last - admitted'[i] + LockLag)
                   /\ b.last - admitted'[i] + LockLag \in Int
        <4>1. CASE i = L + 1
          <5> DEFINE x == b.last - seconds + LockLag
          <5>1. x \in Int /\ 0 <= x
            BY <1>n, <2>1, <3>t
          <5> HIDE DEF x
          <5>2. 0 <= RPS * x /\ RPS * x \in Int
            BY <5>1, Multiples
          <5>3. L + 1 - i + 1 + (b.tokens - 1) <= Burst + RPS * x
            BY <2>1, <3>1, <3>t, <4>1, <5>2
          <5> QED
            BY <3>1, <4>1, <5>1, <5>3 DEF x
        <4>2. CASE i \in 1..L
          <5>1. /\ 0 <= b.last - admitted[i] + LockLag /\ admitted[i] \in Nat
                /\ L - i + 1 + b.tokens <= Burst + RPS * (b.last - admitted[i] + LockLag)
            BY <1>0, <2>q, <3>1, <4>2 DEF Since
          <5>2. b.last - admitted[i] + LockLag \in Int
            BY <3>t, <5>1
          <5>3. L + 1 - i + 1 + (b.tokens - 1) = L - i + 1 + b.tokens
            BY <3>1, <3>t
          <5> QED
            BY <3>1, <4>2, <5>1, <5>2, <5>3
        <4> QED
          BY <3>1, <4>1, <4>2
      <3>4. BucketInv'
        <4>1. ~(Bucket'.tokens < 0) /\ Bucket'.tokens <= Burst /\ Bucket'.last <= seconds' /\ Bucket'.last <= Bucket'.lastSeen + LockLag
          BY <1>1, <2>1, <2>3, <3>2, <3>t
        <4>2. \A i \in DOMAIN admitted': Since(i)' = L + 1 - i + 1
          BY <3>1 DEF Since
        <4> QED
          BY <3>1, <3>2, <3>3, <4>1, <4>2 DEF BucketInv
      <3>5. RateBounded'
        <4>1. SUFFICES ASSUME NEW i \in 1..(L + 1), NEW j \in 1..(L + 1), i <= j
                       PROVE  j - i + 1 <= Burst + RPS * (admitted'[j] - admitted'[i] + LockLag)
          BY <3>1 DEF RateBounded
        <4>2. CASE j = L + 1
          <5> DEFINE x == b.last - admitted'[i] + LockLag
                     y == seconds - admitted'[i] + LockLag
          <5>0. admitted'[i] \in Nat
            BY <1>7, <3>1
          <5>1. x \in Int /\ y \in Int /\ x <= y
            <6>1. \A p, q, r, z \in Int: p <= q => p - r + z \in Int /\ q - r + z \in Int /\ p - r + z <= q - r + z
              BY ONLY TRUE
            <6>2. b.last \in Int /\ seconds \in Int /\ admitted'[i] \in Int /\ LockLag \in Int /\ b.last <= seconds
              BY <1>n, <2>1, <3>t, <5>0
            <6> QED
              BY ONLY <6>1, <6>2
          <5>b. L + 1 - i + 1 + (b.tokens - 1) <= Burst + RPS * x
            BY <3>3
          <5> HIDE DEF x, y
          <5>2. RPS * x <= RPS * y /\ RPS * x \in Int /\ RPS * y \in Int
            BY <5>1, Multiples
          <5>3. j - i + 1 <= Burst + RPS * y
            BY <2>1, <2>3, <3>1, <3>t, <4>2, <5>b, <5>2
          <5> QED
            BY <3>1, <4>2, <5>3 DEF y
        <4>3. CASE j \in 1..L
          <5>1. i \in 1..L /\ admitted'[i] = admitted[i] /\ admitted'[j] = admitted[j]
            BY <3>1, <4>1, <4>3
          <5>2. j - i + 1 <= Burst + RPS * (admitted[j] - admitted[i] + LockLag)
            BY <3>1, <4>1, <4>3, <5>1 DEF RateInv, RateBounded
          <5> QED
            BY <5>1, <5>2
        <4> QED
          BY <3>1, <4>2, <4>3
      <3> QED
        BY <1>8, <3>4, <3>5 DEF RateInv
    <2>4. CASE ~(b.tokens >= 1)
      <3>1. admitted' = admitted /\ Bucket' = b
        BY <1>1, <2>2, <2>4
      <3>2. BucketInv'
        BY <1>1, <1>4, <2>1, <2>q, <3>1 DEF BucketInv, Since
      <3> QED
        BY <1>8, <3>1, <3>2 DEF RateInv, RateBounded
    <2> QED
      BY <2>3, <2>4
  <1> QED
    BY <1>9, <1>10

LEMMA RateInvNext == RateInv /\ [RateNext]_rateVars => RateInv'
<1> SUFFICES ASSUME RateInv, [RateNext]_rateVars PROVE RateInv'
    OBVIOUS
<1> USE RateNumbers
<1>1. ASSUME NEW a \in Arrivals, NEW c \in Callers, Arrive(a, c) PROVE RateInv'
  <2>1. RateTypes'
    <3>1. waiting' = [waiting EXCEPT ![a] = [on |-> TRUE, caller |-> c, now |-> seconds]] /\ UNCHANGED <<buckets, seconds, admitted>>
      BY <1>1 DEF Arrive
    <3>2. [on |-> TRUE, caller |-> c, now |-> seconds] \in [on: BOOLEAN, caller: Callers, now: Int]
      BY DEF RateInv, RateTypes
    <3>3. waiting' \in [Arrivals -> [on: BOOLEAN, caller: Callers, now: Int]]
      BY <3>1, <3>2 DEF RateInv, RateTypes
    <3>4. \A z \in Arrivals: waiting'[z].on => seconds - LockLag <= waiting'[z].now /\ waiting'[z].now <= seconds
      BY <3>1 DEF RateInv, RateTypes
    <3> QED
      BY <3>1, <3>3, <3>4 DEF RateInv, RateTypes
  <2>2. BucketInv' /\ RateBounded'
    BY <1>1 DEF Arrive, RateInv, BucketInv, RateBounded, Bucket, Since
  <2> QED
    BY <2>1, <2>2 DEF RateInv
<1>2. CASE RateTick
  <2>1. RateTypes'
    BY <1>2 DEF RateTick, RateInv, RateTypes
  <2>2. ASSUME NEW i \in DOMAIN admitted, Since(i) <= RPS * (seconds - admitted[i])
        PROVE  Since(i) <= RPS * (seconds' - admitted[i])
    <3> DEFINE x == seconds - admitted[i]
    <3>1. x \in Int /\ seconds' - admitted[i] = x + 1 /\ Since(i) \in Int
      BY <1>2 DEF RateTick, RateInv, RateTypes, Since
    <3> HIDE DEF x
    <3>2. RPS * (x + 1) = RPS * x + RPS /\ RPS * x \in Int
      BY <3>1, Multiples
    <3>3. Since(i) <= RPS * x
      BY <2>2 DEF x
    <3> QED
      BY <3>1, <3>2, <3>3
  <2>3. BucketInv' /\ RateBounded'
    <3>1. seconds' = seconds + 1 /\ UNCHANGED <<buckets, admitted>> /\ seconds \in Nat
      BY <1>2 DEF RateTick, RateInv, RateTypes
    <3>2. Bucket.tokens \in Int /\ Bucket.last \in Int
      BY DEF RateInv, RateTypes, Bucket
    <3>3. BucketInv'
      <4>1. Bucket' = Bucket /\ \A i \in DOMAIN admitted: Since(i)' = Since(i)
        BY <3>1 DEF Bucket, Since
      <4>2. CASE Bucket.tokens < 0
        <5>1. \A i \in DOMAIN admitted: Since(i) <= RPS * (seconds' - admitted[i])
          BY <2>2, <4>2 DEF RateInv, BucketInv
        <5>3. DOMAIN admitted' = DOMAIN admitted /\ \A i \in DOMAIN admitted: admitted'[i] = admitted[i]
          BY <3>1
        <5>2. Bucket'.tokens < 0
          BY <4>1, <4>2
        <5> QED
          BY <4>1, <5>1, <5>2, <5>3 DEF BucketInv
      <4>3. CASE ~(Bucket.tokens < 0)
        <5>1. Bucket.last <= seconds + 1
          BY <3>1, <3>2, <4>3 DEF RateInv, BucketInv
        <5>2. /\ Bucket.tokens <= Burst /\ Bucket.last <= Bucket.lastSeen + LockLag
              /\ \A i \in DOMAIN admitted:
                    /\ 0 <= Bucket.last - admitted[i] + LockLag
                    /\ Since(i) + Bucket.tokens <= Burst + RPS * (Bucket.last - admitted[i] + LockLag)
          BY <4>3 DEF RateInv, BucketInv
        <5> QED
          BY <3>1, <4>1, <4>3, <5>1, <5>2 DEF BucketInv
      <4> QED
        BY <4>2, <4>3
    <3> QED
      BY <3>1, <3>3 DEF RateInv, RateBounded
  <2> QED
    BY <2>1, <2>3 DEF RateInv
<1>3. CASE UNCHANGED rateVars
    BY <1>3 DEF rateVars, RateInv, RateTypes, BucketInv, RateBounded, Bucket, Since
<1> QED
    BY <1>1, <1>2, <1>3, AllowKeeps DEF RateNext

(* Over any span of any behaviour, whatever the rate, the burst, the number *)
(* of requests that wait for the mutex and the keys whose requests evict    *)
(* others, a key is admitted at most its burst and the refill of that span. *)
THEOREM RateAlwaysBounded == RateSpec => []RateBounded
  <1>1. RateInv => RateBounded
    BY DEF RateInv
  <1> QED
    BY <1>1, RateInvInit, RateInvNext, PTL DEF RateSpec
----------------------------------------------------------------------------
(* The model registry and the prices on it.                                 *)

HandlerPCs == {"idle", "upsert", "read", "swap", "list", "store"}
ReloadPCs == {"read", "swap", "list", "store"}
HandlerOK(q) ==
    /\ DOMAIN q = {"pc", "alias", "patch", "v", "rows", "at", "alone"} /\ q.pc \in HandlerPCs /\ q.alone \in BOOLEAN
    /\ q.pc = "swap" => q.v \in DOMAIN Files
    /\ q.pc = "store" => DOMAIN q.rows = Names /\ q.at \in Nat
RegistryTypes ==
    /\ disk \in DOMAIN Files
    /\ DOMAIN table = Names /\ DOMAIN overrides = Names
    /\ DOMAIN handler = Handlers /\ \A h \in Handlers: HandlerOK(handler[h])
    /\ writes \in Nat /\ held \in 0..writes /\ lone \in 0..held

\* What is in memory of the files: the last version loaded, and the locks of
\* all of them since the boot.
FilesInv ==
    /\ loaded \subseteq DOMAIN Files /\ catalog \in loaded
    /\ locked = LockedSinceBoot

\* Some handler has yet to read the overrides, or has read them as they are.
Reloading == \E h \in Handlers: handler[h].pc \in {"read", "swap", "list"} \/ (handler[h].pc = "store" /\ handler[h].at = writes)
Carries(q) == q.pc = "store" => lone <= q.at /\ q.at <= writes /\ (q.at = writes => q.rows = table)
\* A reload that is alone is the only one, and what it read is still the table.
LoneInv ==
    \A h \in Handlers: handler[h].alone =>
        /\ InReload(h) /\ \A o \in Handlers \ {h}: ~InReload(o)
        /\ handler[h].pc = "store" => handler[h].at = writes
OverrideInv ==
    /\ \A h \in Handlers: Carries(handler[h])
    /\ writes = 0 => table = NoOverrides
    /\ held = writes => overrides = table
    /\ ~lapse => held = writes \/ Reloading
RegistryInv == RegistryTypes /\ LoneInv /\ OverrideInv

LEMMA IdleOK == HandlerOK(IdleHandler) /\ IdleHandler.pc = "idle" /\ IdleHandler.alone = FALSE
  BY DEF HandlerOK, IdleHandler, HandlerPCs

LEMMA RegistryInit == CatalogInit => RegistryInv /\ FilesInv
  <1> SUFFICES ASSUME CatalogInit PROVE RegistryInv /\ FilesInv
    OBVIOUS
  <1>1. DOMAIN handler = Handlers /\ \A h \in Handlers: handler[h] = IdleHandler
    BY DEF CatalogInit
  <1>2. DOMAIN NoOverrides = Names
    BY DEF NoOverrides
  <1>3. disk = 1 /\ catalog = 1 /\ table = NoOverrides /\ overrides = NoOverrides /\ writes = 0 /\ held = 0
        /\ lone = 0 /\ lapse = FALSE /\ loaded = {1} /\ locked = LockedReplaced(1)
    BY DEF CatalogInit
  <1>4. RegistryTypes
    BY <1>1, <1>2, <1>3, IdleOK, CatalogAssumption DEF RegistryTypes
  <1>5. LoneInv /\ OverrideInv
    BY <1>1, <1>3, IdleOK DEF LoneInv, OverrideInv, Carries
  <1>6. FilesInv
    BY <1>3, CatalogAssumption DEF FilesInv, LockedSinceBoot
  <1> QED
    BY <1>4, <1>5, <1>6 DEF RegistryInv

\* A step of the handler h that begins no reload and writes none of table,
\* overrides and writes.
LEMMA HandlerMoves ==
  ASSUME RegistryInv, NEW h \in Handlers, NEW q, HandlerOK(q), Steps(h, q),
         UNCHANGED <<disk, table, overrides, writes, held, lone, lapse>>,
         Carries(q),
         q.pc \in ReloadPCs => InReload(h),
         q.alone => handler[h].alone /\ q.pc \in ReloadPCs /\ (q.pc = "store" => q.at = writes),
         handler[h].pc \in {"idle", "upsert"}
           \/ q.pc \in {"read", "swap", "list"} \/ (q.pc = "store" /\ q.at = writes)
  PROVE  RegistryInv'
  <1> USE DEF RegistryInv, Steps
  <1>1. DOMAIN handler' = Handlers /\ handler'[h] = q /\ \A o \in Handlers \ {h}: handler'[o] = handler[o]
    BY DEF RegistryTypes
  <1>2. RegistryTypes'
    BY <1>1 DEF RegistryTypes, HandlerOK
  <1>3. \A o \in Handlers: Carries(handler[o])'
    BY <1>1 DEF OverrideInv, Carries
  <1>4. Reloading => Reloading'
    <2> SUFFICES ASSUME Reloading PROVE Reloading'
      OBVIOUS
    <2>1. PICK o \in Handlers: handler[o].pc \in {"read", "swap", "list"} \/ (handler[o].pc = "store" /\ handler[o].at = writes)
      BY DEF Reloading
    <2>2. CASE o = h
      BY <1>1, <2>1, <2>2 DEF Reloading
    <2>3. CASE o # h
      BY <1>1, <2>1, <2>3 DEF Reloading
    <2> QED
      BY <2>2, <2>3
  <1>5. OverrideInv'
    BY <1>3, <1>4 DEF OverrideInv
  <1>6. \A o \in Handlers: InReload(o)' => InReload(o)
    BY <1>1 DEF InReload, ReloadPCs
  <1>7. LoneInv'
    <2> SUFFICES ASSUME NEW o \in Handlers, handler'[o].alone
                 PROVE  InReload(o)' /\ (\A p \in Handlers \ {o}: ~InReload(p)')
                        /\ (handler'[o].pc = "store" => handler'[o].at = writes')
      BY DEF LoneInv
    <2>1. handler[o].alone
      BY <1>1
    <2>2. (\A p \in Handlers \ {o}: ~InReload(p)) /\ (handler[o].pc = "store" => handler[o].at = writes) /\ InReload(o)
      BY <2>1 DEF LoneInv
    <2>3. \A p \in Handlers \ {o}: ~InReload(p)'
      BY <1>6, <2>2
    <2>4. CASE o = h
      BY <1>1, <2>3, <2>4 DEF InReload, ReloadPCs
    <2>5. CASE o # h
      BY <1>1, <2>2, <2>3, <2>5 DEF InReload
    <2> QED
      BY <2>4, <2>5
  <1> QED
    BY <1>2, <1>5, <1>7

\* A reload begins, after a write of the table or after none.
LEMMA BeginKeeps ==
  ASSUME RegistryInv, NEW h \in Handlers, ~InReload(h), Begins(h),
         DOMAIN table' = Names, UNCHANGED <<disk, overrides, held, lone, lapse>>,
         UNCHANGED <<table, writes>> \/ writes' = writes + 1
  PROVE  RegistryInv'
  <1> USE DEF RegistryInv
  <1> DEFINE q == [IdleHandler EXCEPT !.pc = "read", !.alone = \A o \in Handlers \ {h}: ~InReload(o)]
  <1>1. DOMAIN handler' = Handlers /\ handler'[h] = q
        /\ \A o \in Handlers \ {h}: handler'[o] = [handler[o] EXCEPT !.alone = FALSE]
    BY DEF Begins
  <1>2. HandlerOK(q) /\ q.pc = "read" /\ q.alone = (\A o \in Handlers \ {h}: ~InReload(o))
    BY DEF HandlerOK, IdleHandler, HandlerPCs
  <1> HIDE DEF q
  <1>3. \A o \in Handlers \ {h}: HandlerOK(handler'[o]) /\ handler'[o].alone = FALSE /\ handler'[o].pc = handler[o].pc
                                 /\ handler'[o].at = handler[o].at /\ handler'[o].rows = handler[o].rows
    <2> TAKE o \in Handlers \ {h}
    <2> DEFINE r == handler[o]
    <2>1. HandlerOK(r) /\ handler'[o] = [r EXCEPT !.alone = FALSE]
      BY <1>1 DEF RegistryTypes
    <2> HIDE DEF r
    <2>2. LET n == [r EXCEPT !.alone = FALSE]
          IN  HandlerOK(n) /\ n.alone = FALSE /\ n.pc = r.pc /\ n.at = r.at /\ n.rows = r.rows
      BY <2>1 DEF HandlerOK
    <2> QED
      BY <2>1, <2>2 DEF r
  <1>4. writes \in Nat /\ writes' \in Nat /\ writes' >= writes /\ held \in 0..writes /\ lone \in 0..held
    BY DEF RegistryTypes
  <1>5. RegistryTypes'
    <2>1. \A o \in Handlers: HandlerOK(handler'[o])
      BY <1>1, <1>2, <1>3
    <2>2. \A o \in Handlers: HandlerOK(handler[o])'
      BY <2>1 DEF HandlerOK
    <2>3. held' \in 0..writes' /\ lone' \in 0..held'
      BY <1>4
    <2> QED
      BY <1>1, <1>4, <2>2, <2>3 DEF RegistryTypes
  <1>6. LoneInv'
    <2>1. ASSUME NEW o \in Handlers, handler'[o].alone PROVE o = h /\ \A p \in Handlers \ {h}: ~InReload(p)'
      BY <1>1, <1>2, <1>3, <2>1 DEF InReload
    <2> QED
      BY <1>1, <1>2, <2>1 DEF LoneInv, InReload
  <1>7. \A o \in Handlers: Carries(handler[o])'
    <2> SUFFICES ASSUME NEW o \in Handlers, handler'[o].pc = "store"
                 PROVE  lone' <= handler'[o].at /\ handler'[o].at <= writes' /\ (handler'[o].at = writes' => handler'[o].rows = table')
      BY DEF Carries
    <2>1. o # h /\ handler[o].pc = "store" /\ handler'[o].at = handler[o].at /\ handler'[o].rows = handler[o].rows
      BY <1>1, <1>2, <1>3
    <2>2. handler[o].at \in Nat /\ handler[o].at <= writes /\ lone <= handler[o].at
          /\ (handler[o].at = writes => handler[o].rows = table)
      BY <2>1 DEF RegistryTypes, HandlerOK, OverrideInv, Carries
    <2> QED
      BY <1>4, <2>1, <2>2
  <1>8. Reloading'
    BY <1>1, <1>2 DEF Reloading
  <1>9. OverrideInv'
    BY <1>4, <1>7, <1>8 DEF OverrideInv
  <1> QED
    BY <1>5, <1>6, <1>9

\* The steps of a handler that write neither the table nor the list in
\* memory keep the invariant.
LEMMA RegistryMoves ==
  ASSUME RegistryInv, NEW h \in Handlers
  PROVE  /\ \A p \in Puts: PutChecks(h, p) => RegistryInv'
         /\ UpsertFails(h) \/ PostReload(h) \/ ReadFiles(h) \/ SwapCatalog(h) \/ ListOverrides(h) => RegistryInv'
  <1> USE DEF RegistryInv
  <1>0. HandlerOK(handler[h]) /\ disk \in DOMAIN Files /\ writes \in Nat /\ lone <= writes /\ DOMAIN table = Names
    BY DEF RegistryTypes
  <1>1. ASSUME NEW p \in Puts, PutChecks(h, p) PROVE RegistryInv'
    <2> DEFINE q == [IdleHandler EXCEPT !.pc = "upsert", !.alias = p.alias,
                         !.patch = [set |-> p.set, clear |-> p.clear, row |-> TRUE]]
    <2>1. HandlerOK(q) /\ Carries(q) /\ q.pc \notin ReloadPCs /\ ~q.alone
      BY DEF HandlerOK, IdleHandler, HandlerPCs, ReloadPCs, Carries
    <2>2. Steps(h, q) /\ UNCHANGED <<disk, table, overrides, writes, held, lone, lapse>> /\ handler[h].pc = "idle"
      BY <1>1 DEF PutChecks, history
    <2> HIDE DEF q, RegistryInv
    <2> QED
      BY <1>0, <2>1, <2>2, HandlerMoves
  <1>2. ASSUME UpsertFails(h) PROVE RegistryInv'
    <2>1. Steps(h, IdleHandler) /\ UNCHANGED <<disk, table, overrides, writes, held, lone, lapse>> /\ handler[h].pc = "upsert"
      BY <1>2 DEF UpsertFails, history
    <2>2. Carries(IdleHandler) /\ IdleHandler.pc \notin ReloadPCs
      BY DEF IdleHandler, Carries, ReloadPCs
    <2> HIDE DEF RegistryInv
    <2> QED
      BY <1>0, <2>1, <2>2, IdleOK, HandlerMoves
  <1>3. ASSUME PostReload(h) PROVE RegistryInv'
    <2>1. Begins(h) /\ ~InReload(h) /\ UNCHANGED <<disk, table, overrides, writes, held, lone, lapse>>
      BY <1>3 DEF PostReload, history, InReload
    <2> HIDE DEF RegistryInv
    <2> QED
      BY <1>0, <2>1, BeginKeeps
  <1>4. ASSUME ReadFiles(h) PROVE RegistryInv'
    <2> DEFINE q == [handler[h] EXCEPT !.pc = "swap", !.v = disk]
    <2>1. HandlerOK(q) /\ Carries(q) /\ q.pc = "swap" /\ q.alone = handler[h].alone
      BY <1>0 DEF HandlerOK, HandlerPCs, Carries
    <2>2. Steps(h, q) /\ UNCHANGED <<disk, table, overrides, writes, held, lone, lapse>> /\ InReload(h)
      BY <1>4 DEF ReadFiles, history, InReload
    <2> HIDE DEF q, RegistryInv
    <2> QED
      BY <1>0, <2>1, <2>2, HandlerMoves DEF ReloadPCs
  <1>5. ASSUME SwapCatalog(h) PROVE RegistryInv'
    <2> DEFINE q == [handler[h] EXCEPT !.pc = "list", !.v = 0]
    <2>1. HandlerOK(q) /\ Carries(q) /\ q.pc = "list" /\ q.alone = handler[h].alone
      BY <1>0 DEF HandlerOK, HandlerPCs, Carries
    <2>2. Steps(h, q) /\ UNCHANGED <<disk, table, overrides, writes, held, lone, lapse>> /\ InReload(h)
      BY <1>5 DEF SwapCatalog, InReload
    <2> HIDE DEF q, RegistryInv
    <2> QED
      BY <1>0, <2>1, <2>2, HandlerMoves DEF ReloadPCs
  <1>6. ASSUME ListOverrides(h) PROVE RegistryInv'
    <2> DEFINE q == [handler[h] EXCEPT !.pc = "store", !.rows = table, !.at = writes]
    <2>1. HandlerOK(q) /\ Carries(q) /\ q.pc = "store" /\ q.at = writes /\ q.alone = handler[h].alone
      BY <1>0 DEF HandlerOK, HandlerPCs, Carries
    <2>2. Steps(h, q) /\ UNCHANGED <<disk, table, overrides, writes, held, lone, lapse>> /\ InReload(h)
      BY <1>6 DEF ListOverrides, history, InReload
    <2> HIDE DEF q, RegistryInv
    <2> QED
      BY <1>0, <2>1, <2>2, HandlerMoves DEF ReloadPCs
  <1> QED
    BY <1>1, <1>2, <1>3, <1>4, <1>5, <1>6

\* So does the one that stores the list, of whatever age.
LEMMA StoreKeeps == ASSUME RegistryInv, NEW h \in Handlers, StoreOverrides(h) PROVE RegistryInv'
  <1> USE DEF RegistryInv
  <1>0. /\ handler[h].pc = "store" /\ overrides' = handler[h].rows /\ held' = handler[h].at
        /\ lone' = IF handler[h].alone THEN handler[h].at ELSE lone
        /\ lapse' = (handler[h].at # writes /\ (lapse \/ handler[h].at < held))
        /\ handler' = [handler EXCEPT ![h] = IdleHandler]
        /\ UNCHANGED <<disk, table, writes>>
    BY DEF StoreOverrides, Steps
  <1>1. DOMAIN handler' = Handlers /\ handler'[h] = IdleHandler /\ \A o \in Handlers \ {h}: handler'[o] = handler[o]
    BY <1>0 DEF RegistryTypes
  <1>2. DOMAIN handler[h].rows = Names /\ handler[h].at \in lone..writes /\ (handler[h].at = writes => handler[h].rows = table)
        /\ lone \in Nat /\ writes \in Nat
    BY <1>0 DEF RegistryTypes, HandlerOK, OverrideInv, Carries
  <1>3. RegistryTypes'
    <2>1. held' \in 0..writes' /\ lone' \in 0..held'
      BY <1>0, <1>2
    <2> QED
      BY <1>0, <1>1, <1>2, <2>1, IdleOK DEF RegistryTypes, HandlerOK
  <1>4. \A o \in Handlers: Carries(handler[o])'
    <2> SUFFICES ASSUME NEW o \in Handlers, handler'[o].pc = "store"
                 PROVE  lone' <= handler'[o].at /\ handler'[o].at <= writes' /\ (handler'[o].at = writes' => handler'[o].rows = table')
      BY DEF Carries
    <2>1. o # h /\ handler'[o] = handler[o]
      BY <1>1, IdleOK
    <2>2. lone <= handler[o].at /\ handler[o].at <= writes /\ (handler[o].at = writes => handler[o].rows = table)
      BY <2>1 DEF OverrideInv, Carries
    <2>3. ~handler[h].alone
      BY <2>1 DEF LoneInv, InReload
    <2> QED
      BY <1>0, <2>1, <2>2, <2>3
  <1>5. ~lapse' => held' = writes' \/ Reloading'
    <2> SUFFICES ASSUME ~lapse', handler[h].at # writes PROVE Reloading'
      BY <1>0
    <2>1. ~lapse /\ ~(handler[h].at < held)
      BY <1>0
    <2>2. held # writes
      BY <1>2, <2>1 DEF RegistryTypes
    <2>3. PICK o \in Handlers: handler[o].pc \in {"read", "swap", "list"} \/ (handler[o].pc = "store" /\ handler[o].at = writes)
      BY <2>1, <2>2 DEF OverrideInv, Reloading
    <2>4. o # h
      BY <1>0, <2>3
    <2> QED
      BY <1>0, <1>1, <2>3, <2>4 DEF Reloading
  <1>6. OverrideInv'
    BY <1>0, <1>2, <1>4, <1>5 DEF OverrideInv
  <1>7. LoneInv'
    <2>1. \A o \in Handlers: InReload(o)' => o # h /\ InReload(o)
      BY <1>1, IdleOK DEF InReload
    <2> QED
      BY <1>0, <1>1, <2>1, IdleOK DEF LoneInv, InReload
  <1> QED
    BY <1>3, <1>6, <1>7

LEMMA RegistryNext == RegistryInv /\ [CatalogNext \/ PricesNext]_catalogVars => RegistryInv'
  <1> SUFFICES ASSUME RegistryInv, [CatalogNext \/ PricesNext]_catalogVars PROVE RegistryInv'
    OBVIOUS
  <1>0. DOMAIN table = Names
    BY DEF RegistryInv, RegistryTypes
  <1>1. CASE UNCHANGED <<disk, table, overrides, handler, writes, held, lone, lapse>>
    BY <1>1 DEF RegistryInv, RegistryTypes, LoneInv, OverrideInv, Reloading, Carries, InReload
  <1>2. ASSUME NEW h \in Handlers, Upsert(h) PROVE RegistryInv'
    <2>1. Begins(h) /\ ~InReload(h) /\ writes' = writes + 1 /\ UNCHANGED <<disk, overrides, held, lone, lapse>>
          /\ table' = [table EXCEPT ![handler[h].alias] = handler[h].patch]
      BY <1>2 DEF Upsert, history, InReload
    <2>2. DOMAIN table' = Names
      BY <1>0, <2>1
    <2> QED
      BY <2>1, <2>2, BeginKeeps
  <1>3. ASSUME NEW h \in Handlers, NEW a \in Names, Delete(h, a) PROVE RegistryInv'
    <2>1. Begins(h) /\ ~InReload(h) /\ writes' = writes + 1 /\ UNCHANGED <<disk, overrides, held, lone, lapse>>
          /\ table' = [table EXCEPT ![a] = NoPatch]
      BY <1>3 DEF Delete, history, InReload
    <2>2. DOMAIN table' = Names
      BY <1>0, <2>1
    <2> QED
      BY <2>1, <2>2, BeginKeeps
  <1>4. ASSUME NEW h \in Handlers, ReloadFails(h) PROVE RegistryInv'
    <2>1. handler' = [handler EXCEPT ![h] = IdleHandler] /\ lapse' = TRUE
          /\ UNCHANGED <<disk, table, overrides, writes, held, lone>>
      BY <1>4 DEF ReloadFails, Steps
    <2>2. DOMAIN handler' = Handlers /\ handler'[h] = IdleHandler /\ \A o \in Handlers \ {h}: handler'[o] = handler[o]
      BY <2>1 DEF RegistryInv, RegistryTypes
    <2>3. RegistryTypes'
      BY <2>1, <2>2, IdleOK DEF RegistryInv, RegistryTypes, HandlerOK
    <2>4. OverrideInv'
      BY <2>1, <2>2, IdleOK DEF RegistryInv, OverrideInv, Carries
    <2>5. \A o \in Handlers: InReload(o)' => InReload(o)
      BY <2>2, IdleOK DEF InReload
    <2>6. LoneInv'
      BY <2>1, <2>2, <2>5, IdleOK DEF RegistryInv, LoneInv, InReload
    <2> QED
      BY <2>3, <2>4, <2>6 DEF RegistryInv
  <1>5. CASE FilesChange
    <2>1. disk' \in DOMAIN Files /\ UNCHANGED <<table, overrides, handler, writes, held, lone, lapse>>
      BY <1>5 DEF FilesChange, history
    <2> QED
      BY <2>1 DEF RegistryInv, RegistryTypes, LoneInv, OverrideInv, Reloading, Carries, InReload
  <1>6. CASE CatalogReboot
    <2>1. handler' = [h \in Handlers |-> IdleHandler] /\ UNCHANGED <<disk, table, writes>>
          /\ \/ overrides' = table /\ held' = writes /\ lone' = writes /\ lapse' = FALSE
             \/ overrides' = NoOverrides /\ held' = 0 /\ lone' = 0 /\ lapse' = TRUE
      BY <1>6 DEF CatalogReboot
    <2>2. \A h \in Handlers: handler'[h] = IdleHandler
      BY <2>1
    <2>3. RegistryTypes'
      <3>1. \A h \in Handlers: HandlerOK(handler[h])'
        BY <2>2, IdleOK DEF HandlerOK
      <3>2. DOMAIN NoOverrides = Names
        BY DEF NoOverrides
      <3>3. DOMAIN overrides' = Names /\ held' \in 0..writes' /\ lone' \in 0..held' /\ writes' \in Nat
        BY <2>1, <3>2 DEF RegistryInv, RegistryTypes
      <3> QED
        BY <2>1, <3>1, <3>3 DEF RegistryInv, RegistryTypes
    <2>4. OverrideInv' /\ LoneInv'
      BY <2>1, <2>2, IdleOK DEF RegistryInv, OverrideInv, Carries, LoneInv
    <2> QED
      BY <2>3, <2>4 DEF RegistryInv
  <1>7. ASSUME NEW h \in Handlers, PostReload(h) \/ ReadFiles(h) \/ SwapCatalog(h) \/ ListOverrides(h) \/ UpsertFails(h)
        PROVE RegistryInv'
    BY <1>7, RegistryMoves
  <1>8. ASSUME NEW h \in Handlers, NEW p \in Puts, PutChecks(h, p) PROVE RegistryInv'
    BY <1>8, RegistryMoves
  <1>9. ASSUME NEW h \in Handlers, StoreOverrides(h) PROVE RegistryInv'
    BY <1>9, StoreKeeps
  <1>10. CASE UNCHANGED catalogVars
    BY <1>1, <1>10 DEF catalogVars
  <1>11. CASE CatalogNext
    BY <1>11, <1>2, <1>3, <1>4, <1>5, <1>6, <1>7, <1>8, <1>9 DEF CatalogNext, ReloadStep
  <1>12. CASE PricesNext
    BY <1>12, <1>1, <1>6 DEF PricesNext, SyncFetches, SaveSnapshot, SaveFails, SetDynamicCosts, LatestSnapshot,
       ListLatestRules, TariffChanges, OnlyPrices, history
  <1> QED
    BY <1>10, <1>11, <1>12

\* The files: a reload swaps the catalogue it read in and adds its locks, a
\* boot starts anew, and nothing else touches them.
LEMMA FilesNext == RegistryInv /\ FilesInv /\ [CatalogNext \/ PricesNext]_catalogVars => FilesInv'
  <1> SUFFICES ASSUME RegistryInv, FilesInv, [CatalogNext \/ PricesNext]_catalogVars PROVE FilesInv'
    OBVIOUS
  <1>1. CASE UNCHANGED <<catalog, locked, loaded>>
    BY <1>1 DEF FilesInv, LockedSinceBoot
  <1>2. ASSUME NEW h \in Handlers, SwapCatalog(h) PROVE FilesInv'
    <2> DEFINE v == handler[h].v
    <2>1. catalog' = v /\ locked' = locked \cup LockedReplaced(v) /\ loaded' = loaded \cup {v} /\ v \in DOMAIN Files
      BY <1>2 DEF SwapCatalog, Locks, RegistryInv, RegistryTypes, HandlerOK
    <2> HIDE DEF v
    <2> DEFINE before == UNION {LockedReplaced(w): w \in loaded}
               after == UNION {LockedReplaced(w): w \in loaded \cup {v}}
               own == LockedReplaced(v)
    <2>2. \A x: x \in after <=> x \in before \/ x \in own
      OBVIOUS
    <2> HIDE DEF before, after, own
    <2>3. after = before \cup own
      BY <2>2
    <2> USE DEF before, after, own
    <2> QED
      BY <2>1, <2>3 DEF FilesInv, LockedSinceBoot
  <1>3. CASE CatalogReboot
    <2>1. catalog' = disk /\ locked' = LockedReplaced(disk) /\ loaded' = {disk} /\ disk \in DOMAIN Files
      BY <1>3 DEF CatalogReboot, RegistryInv, RegistryTypes
    <2> QED
      BY <2>1 DEF FilesInv, LockedSinceBoot
  <1>4. CASE PricesNext
    BY <1>4, <1>1, <1>3 DEF PricesNext, SyncFetches, SaveSnapshot, SaveFails, SetDynamicCosts, LatestSnapshot,
       ListLatestRules, TariffChanges, OnlyPrices, history
  <1>5. CASE CatalogNext
    <2>1. ASSUME NEW h \in Handlers,
                 PostReload(h) \/ ReadFiles(h) \/ ReloadFails(h) \/ ListOverrides(h) \/ StoreOverrides(h)
                   \/ Upsert(h) \/ UpsertFails(h) \/ (\E a \in Names: Delete(h, a)) \/ \E p \in Puts: PutChecks(h, p)
          PROVE  UNCHANGED <<catalog, locked, loaded>>
      BY <2>1 DEF PostReload, ReadFiles, ReloadFails, ListOverrides, StoreOverrides, Upsert, UpsertFails, Delete,
         PutChecks, history
    <2>2. FilesChange => UNCHANGED <<catalog, locked, loaded>>
      BY DEF FilesChange, history
    <2> QED
      BY <1>1, <1>2, <1>3, <1>5, <2>1, <2>2 DEF CatalogNext, ReloadStep
  <1> QED
    BY <1>1, <1>4, <1>5 DEF catalogVars

----------------------------------------------------------------------------
(* What the registry merges.                                                *)

LEMMA TierRanks ==
  /\ \A p: TierRank(p) \in Nat
  /\ TierRank("pro") = 3 /\ TierRank("ultra") = 5
  BY DEF TierRank, Ranks

\* Of two plans the stricter is never below the first.
LEMMA StricterRanks == \A p, q: TierRank(Stricter(p, q)) >= TierRank(p)
  BY TierRanks DEF Stricter

\* A spec that demands a paid plan shows one.
Honest(spec) == "requires_paid" \in spec.flags => TierRank(spec.plan) >= 3

\* The plan derived from the flags is a paid one where they ask for one.
LEMMA PaidPlans == \A flags: "requires_paid" \in flags => TierRank(DeriveMinPlan(flags)) >= 3
  BY TierRanks DEF DeriveMinPlan

\* What a spec is built from keeps that: the files, an override, a price,
\* an alias.
LEMMA BuiltHonest ==
  ASSUME NEW v \in DOMAIN Files, NEW a \in DOMAIN ByAlias[v]
  PROVE  /\ Honest(ByAlias[v][a]) /\ ByAlias[v][a].alias = a
         /\ DOMAIN ByAlias[v][a] = {"alias", "jst", "of", "flags", "cost", "plan", "enum"}
  <1> DEFINE live == {m \in Files[v].models: ~Dead(v, m.alias)}
             m == CHOOSE n \in live: n.alias = a
             plan == Stricter(DeriveMinPlan(m.flags), Floor(v, m.alias))
             enum == EnumOf(m.ref, Files[v].trees)
             row == [alias |-> m.alias, jst |-> m.jst, of |-> "", flags |-> m.flags, cost |-> m.cost,
                     plan |-> plan, enum |-> enum]
  <1>1. ByAlias[v][a] = row /\ \E n \in live: n.alias = a
    BY DEF ByAlias
  <1>2. m.alias = a
    <2>1. \E n \in live: n.alias = a
      BY <1>1
    <2> HIDE DEF live
    <2> QED
      BY <2>1
  <1>3. "requires_paid" \in m.flags => TierRank(plan) >= 3
    <2> HIDE DEF m
    <2>1. "requires_paid" \in m.flags => TierRank(DeriveMinPlan(m.flags)) >= 3
      BY PaidPlans
    <2>2. TierRank(plan) >= TierRank(DeriveMinPlan(m.flags)) /\ TierRank(plan) \in Nat
          /\ TierRank(DeriveMinPlan(m.flags)) \in Nat
      BY StricterRanks, TierRanks
    <2> QED
      BY <2>1, <2>2
  <1> HIDE DEF m, plan, enum, live
  <1>4. row.flags = m.flags /\ row.plan = plan /\ row.alias = m.alias
        /\ DOMAIN row = {"alias", "jst", "of", "flags", "cost", "plan", "enum"}
    OBVIOUS
  <1> HIDE DEF row
  <1> QED
    BY <1>1, <1>2, <1>3, <1>4 DEF Honest

Fields(spec) == DOMAIN spec = {"alias", "jst", "of", "flags", "cost", "plan", "enum"}
\* A spec that has them all, is honest, and is of that model.
Sound(spec, alias) == Fields(spec) /\ Honest(spec) /\ spec.alias = alias

\* An override and the plan derived anew.
LEMMA ReplannedSound ==
  ASSUME NEW spec, NEW patch, NEW alias, Sound(spec, alias)
  PROVE  Sound(Replanned(ApplyOverride(spec, patch)), alias)
  <1> DEFINE flags == (spec.flags \cup patch.set) \ patch.clear
             c == [spec EXCEPT !.flags = flags]
  <1>1. ApplyOverride(spec, patch) = c
    BY DEF ApplyOverride
  <1>2. Fields(c) /\ c.flags = flags /\ c.alias = alias
    BY DEF Fields, Sound
  <1>3. Replanned(c) = [c EXCEPT !.plan = DeriveMinPlan(flags)]
    BY <1>2 DEF Replanned
  <1> HIDE DEF c, flags
  <1>4. Replanned(c).flags = flags /\ Replanned(c).plan = DeriveMinPlan(flags) /\ Replanned(c).alias = alias /\ Fields(Replanned(c))
    BY <1>2, <1>3 DEF Fields
  <1> QED
    BY <1>1, <1>4, PaidPlans DEF Honest, Sound

LEMMA PricedSound ==
  ASSUME NEW spec, NEW alias, Sound(spec, alias)
  PROVE  Sound(ApplyDynamicCost(spec), alias)
  BY DEF ApplyDynamicCost, Sound, Honest, Fields

LEMMA AliasSound ==
  ASSUME catalog \in DOMAIN Files, NEW n \in UNION {Transparent(catalog, a): a \in Names}
  PROVE  Sound(AliasSpec(n), AliasSpec(n).alias)
  <1> DEFINE base == [ByAlias[catalog][n.base] EXCEPT !.of = n.base]
  <1>1. n.base \in DOMAIN ByAlias[catalog]
    BY DEF Transparent
  <1>2. Fields(ByAlias[catalog][n.base]) /\ Honest(ByAlias[catalog][n.base])
    BY <1>1, BuiltHonest DEF Fields
  <1>3. Fields(base) /\ Honest(base)
    BY <1>2 DEF Fields, Honest
  <1> HIDE DEF base
  <1>4. CASE n.tiered
    <2>1. AliasSpec(n) = [base EXCEPT !.flags = n.flags, !.plan = DeriveMinPlan(n.flags)]
      BY <1>4 DEF AliasSpec, base
    <2>2. AliasSpec(n).flags = n.flags /\ AliasSpec(n).plan = DeriveMinPlan(n.flags) /\ Fields(AliasSpec(n))
      BY <1>3, <2>1 DEF Fields
    <2> QED
      BY <2>2, PaidPlans DEF Honest, Sound
  <1>5. CASE ~n.tiered
    BY <1>3, <1>5 DEF AliasSpec, base, Sound
  <1> QED
    BY <1>4, <1>5

\* What the third of the merges gives is what the second does.
LEMMA MergesAgree ==
  ASSUME catalog \in DOMAIN Files, NEW a \in DOMAIN ByAlias[catalog]
  PROVE  ResolveModel(a) = ListEntry(a) /\ Sound(ListEntry(a), a)
  <1> DEFINE c == ByAlias[catalog][a]
             merged == IF overrides[a].row THEN Replanned(ApplyOverride(c, overrides[a])) ELSE c
  <1>1. Sound(c, a)
    BY BuiltHonest DEF Sound, Fields
  <1>2. Sound(merged, a)
    BY <1>1, ReplannedSound
  <1>3. ListEntry(a) = ApplyDynamicCost(merged)
    BY DEF ListEntry
  <1> HIDE DEF merged
  <1>4. Sound(ListEntry(a), a)
    BY <1>2, <1>3, PricedSound
  <1> DEFINE row == overrides[a].row
             repriced == dynamicCosts # 0 /\ c.jst \in DOMAIN MinCosts[dynamicCosts]
             overridden == ApplyDynamicCost(Replanned(ApplyOverride(c, overrides[a])))
             priced == [c EXCEPT !.cost = MinCosts[dynamicCosts][c.jst]]
  <1>5. ResolveModel(a) = CASE row -> overridden [] ~row /\ repriced -> priced [] OTHER -> c
    BY DEF ResolveModel
  <1>6. ListEntry(a) = IF row THEN overridden ELSE IF repriced THEN priced ELSE c
    BY DEF ListEntry, ApplyDynamicCost
  <1> HIDE DEF row, repriced, overridden, priced, c
  <1>7. ResolveModel(a) = ListEntry(a)
    BY <1>5, <1>6
  <1> QED
    BY <1>4, <1>7

\* So the gate adds to the plan that is shown what the locks do, and no more.
LEMMA GateShown == FilesInv => GateAsShown
  <1> SUFFICES ASSUME FilesInv, NEW a \in Names, Resolvable(a)
               PROVE  PickFloor(Resolve(a)) = IF Resolve(a).jst \in locked THEN Stricter(Resolve(a).plan, "pro") ELSE Resolve(a).plan
    BY DEF FilesInv, GateAsShown
  <1>0. catalog \in DOMAIN Files
    BY DEF FilesInv
  <1>1. Honest(Resolve(a))
    <2>1. CASE Transparent(catalog, a) # {}
      <3> DEFINE n == CHOOSE n \in Transparent(catalog, a): TRUE
                 c == AliasSpec(n)
                 merged == IF overrides[a].row THEN Replanned(ApplyOverride(c, overrides[a])) ELSE c
      <3>1. n \in Transparent(catalog, a)
        BY <2>1
      <3>2. Resolve(a) = ApplyDynamicCost(merged)
        BY <2>1 DEF Resolve, ResolveAliased
      <3> HIDE DEF n
      <3>3. Sound(c, c.alias)
        BY <1>0, <3>1, AliasSound
      <3>4. Sound(merged, c.alias)
        BY <3>3, ReplannedSound
      <3> HIDE DEF merged, c
      <3> QED
        BY <3>2, <3>4, PricedSound DEF Sound
    <2>2. CASE Transparent(catalog, a) = {}
      <3>1. a \in DOMAIN ByAlias[catalog] /\ Resolve(a) = ResolveModel(a)
        BY <2>2 DEF Resolvable, Resolve
      <3> QED
        BY <1>0, <3>1, MergesAgree DEF Sound
    <2> QED
      BY <2>1, <2>2
  <1>2. TierRank(Resolve(a).plan) >= 3 => Stricter(Resolve(a).plan, "pro") = Resolve(a).plan
    BY TierRanks DEF Stricter
  <1> QED
    BY <1>1, <1>2 DEF PickFloor, Honest, StarterLocked

\* A listed spec that no alias shadows is the one a request resolves to.
LEMMA ListAgrees == FilesInv => ListAsResolved
  <1> SUFFICES ASSUME FilesInv, NEW spec \in List, Transparent(catalog, spec.alias) = {}
               PROVE  Resolve(spec.alias) = spec
    BY DEF ListAsResolved
  <1>1. PICK a \in DOMAIN ByAlias[catalog]: spec = ListEntry(a)
    BY DEF List
  <1>2. ResolveModel(a) = spec /\ spec.alias = a
    BY <1>1, MergesAgree DEF FilesInv, Sound
  <1> QED
    BY <1>2 DEF Resolve

\* A path of two segments is walked in two steps.
LEMMA TwoSegments ==
  ASSUME NEW tree
  PROVE  Reached(tree, <<"item", "id">>)[2] = Descend(ExpandItems({tree}), "id")
  <1> DEFINE path == <<"item", "id">>
             f == [i \in 0..2 |-> IF i = 0 THEN {tree} ELSE IF i = 1 THEN ExpandItems({tree})
                                  ELSE Descend(ExpandItems({tree}), "id")]
             Walked(at) == at = [i \in 0..Len(path) |->
                IF i = 0 THEN {tree}
                ELSE IF path[i] = "item" THEN ExpandItems(at[i - 1]) ELSE Descend(at[i - 1], path[i])]
  <1>1. Len(path) = 2 /\ path[1] = "item" /\ path[2] = "id" /\ 0..2 = {0, 1, 2}
    OBVIOUS
  <1>2. Walked(f)
    BY <1>1
  <1>3. Walked(Reached(tree, path))
    <2>1. Reached(tree, path) = CHOOSE at: Walked(at)
      BY DEF Reached
    <2> HIDE DEF Walked, f
    <2> QED
      BY <1>2, <2>1
  <1> DEFINE g == Reached(tree, path)
  <1> HIDE DEF g
  <1>4. Walked(g)
    BY <1>3 DEF g
  <1>5. g[0] = {tree}
    BY <1>1, <1>4
  <1>6. g[1] = ExpandItems({tree})
    BY <1>1, <1>4, <1>5
  <1>7. g[2] = Descend(g[1], "id")
    BY <1>1, <1>4
  <1> QED
    BY <1>6, <1>7 DEF g

(* The walk a template's ref names, along "item.id", gives the identifiers  *)
(* the flat reading of the same file gives, for every document whose items  *)
(* are objects that hold no other identifier: the enum a body is checked    *)
(* against does not depend on which of the two parsers built it.            *)
THEOREM ItemIdWalkIsFlat ==
  ASSUME NEW tree, \A i \in Elements(tree): i.t = "obj" /\ DOMAIN i.f \cap {"job_id", "preset_id"} = {}
  PROVE  ExtractFromCatalogTree(tree, <<"item", "id">>) = ParseCatalogIDs(tree)
  <1> DEFINE items == Elements(tree)
             ids == UNION {Child(i, "id"): i \in items}
  <1>1. ExpandItems({tree}) = items
    BY DEF ExpandItems
  <1>2. Descend(items, "id") = ids
    BY DEF Descend
  <1>3. ExtractFromCatalogTree(tree, <<"item", "id">>) = NonEmpty(Texts(ids))
    <2>1. Len(<<"item", "id">>) = 2
      OBVIOUS
    <2> QED
      BY <1>1, <1>2, <2>1, TwoSegments DEF ExtractFromCatalogTree
  <1>4. ParseCatalogIDs(tree) = NonEmpty({PickCatalogID(i): i \in items})
    BY DEF ParseCatalogIDs
  <1>5. \A i \in items: PickCatalogID(i) = IF HasText(i, "id") THEN i.f["id"].s ELSE ""
    BY DEF PickCatalogID, HasText, Has
  <1>6. \A s: s \in NonEmpty(Texts(ids)) <=> \E i \in items: HasText(i, "id") /\ s = i.f["id"].s
    BY DEF NonEmpty, Texts, Child, HasText, Has
  <1>7. \A s: s \in NonEmpty({PickCatalogID(i): i \in items}) <=> \E i \in items: HasText(i, "id") /\ s = i.f["id"].s
    BY <1>5 DEF NonEmpty, HasText
  <1> QED
    BY <1>3, <1>4, <1>6, <1>7

----------------------------------------------------------------------------
(* The prices requests are gated on.                                        *)

\* A set of numbers has a least one.
LEMMA LeastOf ==
  ASSUME NEW S \in SUBSET Nat, S # {}
  PROVE  \E m \in S: \A q \in S: m <= q
  <1>1. IsWellFoundedOn(OpToRel(<, Nat), Nat)
    BY NatLessThanWellFounded
  <1>2. PICK m \in S: \A q \in S: ~(<<q, m>> \in OpToRel(<, Nat))
    BY <1>1, WFMin
  <1>3. \A q \in S: ~(q < m)
    BY <1>2 DEF OpToRel
  <1> QED
    BY <1>3

\* Rounding keeps the order of prices, so the least price rounds to the
\* least of the rounded ones.
LEMMA Rounding == \A p, q \in Int: p <= q => Hundredths(p) \in Int /\ Hundredths(p) <= Hundredths(q)
  BY DEF Hundredths

\* The floor pushed for a model is the cheapest of the rules saved for it.
LEMMA FloorsMatch ==
  ASSUME NEW v \in DOMAIN Tariffs, NEW j \in DOMAIN MinCosts[v], NEW snapshot, snapshot.rules = RulesOf[v]
  PROVE  MinCosts[v][j] = FloorOn(snapshot, j)
  <1> DEFINE nodes == Tariffs[v][j]
             prices == {p \in Walk(nodes): p > 0}
             least == CHOOSE p \in prices: \A q \in prices: p <= q
             credits == {r.rule.credits: r \in {x \in snapshot.rules: x.jst = j}}
  <1>1. j \in DOMAIN Tariffs[v] /\ MinCosts[v][j] = ReduceJobSetCost(nodes) /\ ReduceJobSetCost(nodes) > 0
    BY DEF MinCosts
  <1>2. \A i \in DOMAIN nodes: \A c \in DOMAIN nodes[i].price: nodes[i].price[c] \in Int
    BY <1>1, CatalogAssumption
  <1>3. prices \subseteq Nat
    BY <1>2 DEF Walk
  <1>4. prices # {} /\ MinCosts[v][j] = Hundredths(least)
    BY <1>1 DEF ReduceJobSetCost
  <1>5. least \in prices /\ \A q \in prices: least <= q
    <2> HIDE DEF prices
    <2> QED
      BY <1>3, <1>4, LeastOf
  <1>6. \A x: x \in credits <=> \E p \in prices: x = Hundredths(p)
    <2>1. {x.rule: x \in {y \in RulesOf[v]: y.jst = j}} = NormalizeJobSetCostRules(nodes)
      <3>1. RulesOf[v] = UNION {{[jst |-> k, rule |-> r]: r \in NormalizeJobSetCostRules(Tariffs[v][k])}: k \in DOMAIN Tariffs[v]}
        BY DEF RulesOf
      <3> DEFINE Rated(k, r) == [jst |-> k, rule |-> r]
      <3>2. \A x: x \in RulesOf[v] <=> \E k \in DOMAIN Tariffs[v]: \E r \in NormalizeJobSetCostRules(Tariffs[v][k]): x = Rated(k, r)
        BY <3>1
      <3>3. \A k, r: Rated(k, r).jst = k /\ Rated(k, r).rule = r
        OBVIOUS
      <3> HIDE DEF Rated
      <3>4. ASSUME NEW y \in RulesOf[v], y.jst = j PROVE y.rule \in NormalizeJobSetCostRules(nodes)
        BY <3>2, <3>3, <3>4
      <3>5. ASSUME NEW r \in NormalizeJobSetCostRules(nodes) PROVE \E y \in RulesOf[v]: y.jst = j /\ y.rule = r
        <4>1. Rated(j, r) \in RulesOf[v]
          BY <1>1, <3>2
        <4> QED
          BY <3>3, <4>1
      <3> HIDE DEF nodes
      <3> QED
        BY <3>4, <3>5
    <2>2. \A r: r \in NormalizeJobSetCostRules(nodes) <=> \E i \in DOMAIN nodes: \E c \in Priced(nodes[i]):
             r = [component |-> c, credits |-> Hundredths(nodes[i].price[c]), dims |-> Dimensions(nodes)[i]]
      BY DEF NormalizeJobSetCostRules, NormalizeCostNode
    <2>3. \A p: p \in prices <=> \E i \in DOMAIN nodes: \E c \in Priced(nodes[i]): p = nodes[i].price[c]
      BY DEF Walk, Priced
    <2>4. \A x: x \in credits <=> \E r \in NormalizeJobSetCostRules(nodes): x = r.credits
      <3>1. credits = {r.credits: r \in {x.rule: x \in {y \in RulesOf[v]: y.jst = j}}}
        OBVIOUS
      <3> QED
        BY <2>1, <3>1
    <2> HIDE DEF credits, prices, nodes
    <2>5. ASSUME NEW x \in credits PROVE \E p \in prices: x = Hundredths(p)
      <3>1. PICK r \in NormalizeJobSetCostRules(nodes): x = r.credits
        BY <2>4
      <3>2. PICK i \in DOMAIN nodes: \E c \in Priced(nodes[i]):
              r = [component |-> c, credits |-> Hundredths(nodes[i].price[c]), dims |-> Dimensions(nodes)[i]]
        BY <2>2
      <3>3. PICK c \in Priced(nodes[i]):
              r = [component |-> c, credits |-> Hundredths(nodes[i].price[c]), dims |-> Dimensions(nodes)[i]]
        BY <3>2
      <3>4. x = Hundredths(nodes[i].price[c])
        BY <3>1, <3>3
      <3> QED
        BY <2>3, <3>4
    <2>6. ASSUME NEW p \in prices PROVE Hundredths(p) \in credits
      <3>1. PICK i \in DOMAIN nodes: \E c \in Priced(nodes[i]): p = nodes[i].price[c]
        BY <2>3
      <3>2. PICK c \in Priced(nodes[i]): p = nodes[i].price[c]
        BY <3>1
      <3> DEFINE r == [component |-> c, credits |-> Hundredths(nodes[i].price[c]), dims |-> Dimensions(nodes)[i]]
      <3>3. r \in NormalizeJobSetCostRules(nodes)
        BY <2>2
      <3>4. r.credits = Hundredths(p)
        BY <3>2
      <3> HIDE DEF r
      <3> QED
        BY <2>4, <3>3, <3>4
    <2> QED
      BY <2>5, <2>6
  <1> HIDE DEF least, prices, credits
  <1>7. Hundredths(least) \in credits /\ \A q \in credits: Hundredths(least) <= q /\ q \in Int
    BY <1>3, <1>5, <1>6, Rounding
  <1>8. (CHOOSE p \in credits: \A q \in credits: p <= q) = Hundredths(least)
    <2>1. \A p \in credits: (\A q \in credits: p <= q) => p = Hundredths(least)
      BY <1>7
    <2> QED
      BY <1>7, <2>1
  <1> QED
    BY <1>4, <1>8 DEF FloorOn, credits


SnapshotOf(w) == [v |-> w, rules |-> RulesOf[w]]
SnapshotRows == {SnapshotOf(w): w \in DOMAIN Tariffs}
Newest == snapshots[Len(snapshots)]
PriceTypes ==
    /\ dynamicCosts \in {0} \cup DOMAIN Tariffs /\ tariff \in DOMAIN Tariffs
    /\ DOMAIN sync = {"pc", "v"} /\ (sync.pc # "idle" => sync.v \in DOMAIN Tariffs)
    /\ snapshots \in Seq(SnapshotRows) /\ snapshots # <<>>
    /\ DOMAIN quote = {"pc", "label", "rules"} /\ quote.label \in 0..Len(snapshots)
\* Which table the newest snapshot is of, and the one before in mid-sync.
PushInv ==
    /\ sync.pc = "push" =>
        /\ Newest.v = sync.v
        /\ dynamicCosts # 0 => Len(snapshots) >= 2 /\ snapshots[Len(snapshots) - 1].v = dynamicCosts
    /\ sync.pc # "push" /\ dynamicCosts # 0 => Newest.v = dynamicCosts
PriceInv == PriceTypes /\ PushInv /\ QuoteWhole

LEMMA SnapshotFields == \A w \in DOMAIN Tariffs: SnapshotOf(w).v = w /\ SnapshotOf(w).rules = RulesOf[w]
  BY DEF SnapshotOf
LEMMA SnapshotsOK ==
  ASSUME PriceTypes
  PROVE  /\ Len(snapshots) \in Nat \ {0} /\ DOMAIN snapshots = 1..Len(snapshots)
         /\ \A i \in DOMAIN snapshots: snapshots[i].v \in DOMAIN Tariffs /\ snapshots[i].rules = RulesOf[snapshots[i].v]
  <1>1. Len(snapshots) \in Nat \ {0} /\ DOMAIN snapshots = 1..Len(snapshots)
    BY DEF PriceTypes
  <1>2. \A i \in DOMAIN snapshots: snapshots[i] \in SnapshotRows
    BY DEF PriceTypes
  <1>3. \A i \in DOMAIN snapshots: \E w \in DOMAIN Tariffs: snapshots[i] = SnapshotOf(w)
    BY <1>2 DEF SnapshotRows
  <1> QED
    BY <1>1, <1>3, SnapshotFields

LEMMA PriceInit == CatalogInit => PriceInv
  <1> SUFFICES ASSUME CatalogInit PROVE PriceInv
    OBVIOUS
  <1>1. /\ dynamicCosts = 1 /\ tariff = 1 /\ snapshots = <<SnapshotOf(1)>> /\ sync = [pc |-> "idle", v |-> 0]
        /\ quote = [pc |-> "idle", label |-> 0, rules |-> {}]
    BY DEF CatalogInit, SnapshotOf
  <1>2. 1 \in DOMAIN Tariffs /\ SnapshotOf(1) \in SnapshotRows /\ SnapshotOf(1).v = 1
    BY CatalogAssumption, SnapshotFields DEF SnapshotRows
  <1>3. snapshots \in Seq(SnapshotRows) /\ Len(snapshots) = 1 /\ snapshots # <<>> /\ snapshots[1] = SnapshotOf(1)
    BY <1>1, <1>2
  <1>4. PriceTypes
    BY <1>1, <1>2, <1>3 DEF PriceTypes
  <1>5. PushInv
    BY <1>1, <1>2, <1>3 DEF PushInv, Newest
  <1>6. QuoteWhole
    BY <1>1 DEF QuoteWhole
  <1> QED
    BY <1>4, <1>5, <1>6 DEF PriceInv

\* A table is saved whole before it is pushed.
LEMMA SavedSnapshot ==
  ASSUME PriceInv, SaveSnapshot PROVE PriceInv'
  <1> USE DEF PriceInv
  <1>1. /\ sync.pc = "save" /\ snapshots' = Append(snapshots, SnapshotOf(sync.v))
        /\ sync' = [sync EXCEPT !.pc = "push"] /\ UNCHANGED <<dynamicCosts, tariff, quote>>
    BY DEF SaveSnapshot, SnapshotOf
  <1>2. sync.v \in DOMAIN Tariffs /\ SnapshotOf(sync.v) \in SnapshotRows /\ SnapshotOf(sync.v).v = sync.v
    BY <1>1, SnapshotFields DEF PriceTypes, SnapshotRows
  <1>3. Len(snapshots) \in Nat \ {0} /\ DOMAIN snapshots = 1..Len(snapshots) /\ snapshots \in Seq(SnapshotRows)
    BY SnapshotsOK DEF PriceTypes
  <1>4. /\ snapshots' \in Seq(SnapshotRows) /\ Len(snapshots') = Len(snapshots) + 1
        /\ snapshots'[Len(snapshots) + 1] = SnapshotOf(sync.v) /\ DOMAIN snapshots' = 1..(Len(snapshots) + 1)
        /\ \A i \in DOMAIN snapshots: snapshots'[i] = snapshots[i]
    <2> HIDE DEF PriceInv
    <2> QED
      BY <1>1, <1>2, <1>3
  <1>5. DOMAIN sync' = {"pc", "v"} /\ sync'.pc = "push" /\ sync'.v = sync.v
    BY <1>1 DEF PriceTypes
  <1>6. PriceTypes'
    BY <1>1, <1>2, <1>3, <1>4, <1>5 DEF PriceTypes
  <1>7. PushInv'
    <2>1. dynamicCosts # 0 => snapshots[Len(snapshots)].v = dynamicCosts
      BY <1>1 DEF PushInv, Newest
    <2>2. snapshots'[Len(snapshots')] = SnapshotOf(sync.v) /\ Len(snapshots') - 1 = Len(snapshots) /\ Len(snapshots') >= 2
          /\ snapshots'[Len(snapshots)] = snapshots[Len(snapshots)]
      BY <1>3, <1>4
    <2> QED
      BY <1>1, <1>2, <1>5, <2>1, <2>2 DEF PushInv, Newest
  <1>8. QuoteWhole'
    BY <1>1, <1>3, <1>4 DEF QuoteWhole
  <1> QED
    BY <1>6, <1>7, <1>8

LEMMA PriceNext == PriceInv /\ [CatalogNext \/ PricesNext]_catalogVars => PriceInv'
  <1> SUFFICES ASSUME PriceInv, [CatalogNext \/ PricesNext]_catalogVars PROVE PriceInv'
    OBVIOUS
  <1> USE DEF PriceInv
  <1>1. CASE UNCHANGED <<dynamicCosts, tariff, snapshots, sync, quote>>
    BY <1>1 DEF PriceTypes, PushInv, Newest, QuoteWhole
  <1>2. CASE SyncFetches
    <2>1. sync.pc = "idle" /\ sync' = [pc |-> "save", v |-> tariff] /\ UNCHANGED <<dynamicCosts, tariff, snapshots, quote>>
      BY <1>2 DEF SyncFetches
    <2>2. DOMAIN sync' = {"pc", "v"} /\ sync'.pc = "save" /\ sync'.v = tariff
      BY <2>1
    <2>3. PriceTypes'
      BY <2>1, <2>2 DEF PriceTypes
    <2>4. PushInv' /\ QuoteWhole'
      BY <2>1, <2>2 DEF PushInv, Newest, QuoteWhole
    <2> QED
      BY <2>3, <2>4
  <1>3. CASE SaveSnapshot
    BY <1>3, SavedSnapshot
  <1>4. CASE SaveFails
    <2>1. sync.pc = "save" /\ sync' = [sync EXCEPT !.pc = "idle"] /\ UNCHANGED <<dynamicCosts, tariff, snapshots, quote>>
      BY <1>4 DEF SaveFails
    <2>2. DOMAIN sync' = {"pc", "v"} /\ sync'.pc = "idle"
      BY <2>1 DEF PriceTypes
    <2>3. PriceTypes'
      BY <2>1, <2>2 DEF PriceTypes
    <2>4. PushInv' /\ QuoteWhole'
      BY <2>1, <2>2 DEF PushInv, Newest, QuoteWhole
    <2> QED
      BY <2>3, <2>4
  <1>5. CASE SetDynamicCosts
    <2>1. sync.pc = "push" /\ dynamicCosts' = sync.v /\ sync' = [sync EXCEPT !.pc = "idle"]
          /\ UNCHANGED <<tariff, snapshots, quote>>
      BY <1>5 DEF SetDynamicCosts
    <2>2. DOMAIN sync' = {"pc", "v"} /\ sync'.pc = "idle" /\ sync.v \in DOMAIN Tariffs
      BY <2>1 DEF PriceTypes
    <2>3. PriceTypes'
      BY <2>1, <2>2 DEF PriceTypes
    <2>4. PushInv' /\ QuoteWhole'
      BY <2>1, <2>2 DEF PushInv, Newest, QuoteWhole
    <2> QED
      BY <2>3, <2>4
  <1>6. CASE LatestSnapshot
    <2>1. quote' = [pc |-> "rules", label |-> Len(snapshots), rules |-> {}]
          /\ UNCHANGED <<dynamicCosts, tariff, snapshots, sync>>
      BY <1>6 DEF LatestSnapshot
    <2>2. DOMAIN quote' = {"pc", "label", "rules"} /\ quote'.pc = "rules" /\ quote'.label = Len(snapshots)
      BY <2>1
    <2>3. quote'.label \in 0..Len(snapshots')
      BY <2>1, <2>2, SnapshotsOK
    <2>4. PriceTypes'
      BY <2>1, <2>2, <2>3 DEF PriceTypes
    <2>5. PushInv' /\ QuoteWhole'
      BY <2>1, <2>2 DEF PushInv, Newest, QuoteWhole
    <2> QED
      BY <2>4, <2>5
  <1>7. CASE ListLatestRules
    <2>1. quote' = [quote EXCEPT !.pc = "sent", !.rules = Newest.rules]
          /\ UNCHANGED <<dynamicCosts, tariff, snapshots, sync>>
      BY <1>7 DEF ListLatestRules, Newest
    <2>2. DOMAIN quote' = {"pc", "label", "rules"} /\ quote'.label = quote.label /\ quote'.rules = Newest.rules
      BY <2>1 DEF PriceTypes
    <2>3. PriceTypes'
      BY <2>1, <2>2 DEF PriceTypes
    <2>4. PushInv'
      BY <2>1 DEF PushInv, Newest
    <2>5. QuoteWhole'
      <3>1. Len(snapshots) \in DOMAIN snapshots /\ Len(snapshots) >= quote.label
        BY SnapshotsOK DEF PriceTypes
      <3>2. Newest.rules = RulesOf[snapshots[Len(snapshots)].v]
        BY <3>1, SnapshotsOK DEF Newest
      <3> QED
        BY <2>1, <2>2, <3>1, <3>2 DEF QuoteWhole
    <2> QED
      BY <2>3, <2>4, <2>5
  <1>8. CASE TariffChanges
    <2>1. tariff' \in DOMAIN Tariffs /\ UNCHANGED <<dynamicCosts, snapshots, sync, quote>>
      BY <1>8 DEF TariffChanges
    <2> QED
      BY <2>1 DEF PriceTypes, PushInv, Newest, QuoteWhole
  <1>9. CASE CatalogReboot
    <2>1. dynamicCosts' = 0 /\ sync' = [pc |-> "idle", v |-> 0] /\ UNCHANGED <<tariff, snapshots>>
          /\ quote' = [pc |-> "idle", label |-> 0, rules |-> {}]
      BY <1>9 DEF CatalogReboot
    <2>2. DOMAIN sync' = {"pc", "v"} /\ sync'.pc = "idle" /\ DOMAIN quote' = {"pc", "label", "rules"}
          /\ quote'.pc = "idle" /\ quote'.label = 0
      BY <2>1
    <2>3. PriceTypes'
      BY <2>1, <2>2, SnapshotsOK DEF PriceTypes
    <2>4. PushInv' /\ QuoteWhole'
      BY <2>1, <2>2 DEF PushInv, QuoteWhole
    <2> QED
      BY <2>3, <2>4
  <1>10. CASE UNCHANGED catalogVars
    BY <1>1, <1>10 DEF catalogVars
  <1> HIDE DEF PriceInv
  <1>11. CASE CatalogNext
    BY <1>11, <1>1, <1>9 DEF CatalogNext, ReloadStep, PostReload, ReadFiles, ReloadFails, SwapCatalog, ListOverrides,
       StoreOverrides, Upsert, UpsertFails, Delete, PutChecks, FilesChange, OnlyRegistry
  <1>12. CASE PricesNext
    BY <1>12, <1>2, <1>3, <1>4, <1>5, <1>6, <1>7, <1>8, <1>9 DEF PricesNext
  <1> QED
    BY <1>10, <1>11, <1>12

\* The prices in force are those of the newest snapshot, or of the one
\* before it while a sync has yet to push.
LEMMA OverlayRecorded == PriceInv => OverlayOnRecord
  <1> SUFFICES ASSUME PriceInv, dynamicCosts # 0
               PROVE  \/ OnRecord(snapshots[Len(snapshots)])
                      \/ sync.pc = "push" /\ OnRecord(snapshots[Len(snapshots) - 1])
    BY DEF OverlayOnRecord
  <1>1. ASSUME NEW i \in DOMAIN snapshots, snapshots[i].v = dynamicCosts PROVE OnRecord(snapshots[i])
    <2>1. dynamicCosts \in DOMAIN Tariffs /\ snapshots[i].rules = RulesOf[dynamicCosts]
      BY <1>1, SnapshotsOK DEF PriceInv, PriceTypes
    <2>2. \A j \in DOMAIN MinCosts[dynamicCosts]: MinCosts[dynamicCosts][j] = FloorOn(snapshots[i], j)
      BY <2>1, FloorsMatch
    <2> QED
      BY <1>1, <2>2 DEF OnRecord
  <1>2. Len(snapshots) \in DOMAIN snapshots
    BY SnapshotsOK DEF PriceInv
  <1>3. CASE sync.pc # "push"
    BY <1>1, <1>2, <1>3 DEF PriceInv, PushInv, Newest
  <1>4. CASE sync.pc = "push"
    <2>1. Len(snapshots) - 1 \in DOMAIN snapshots /\ snapshots[Len(snapshots) - 1].v = dynamicCosts
      BY <1>4, SnapshotsOK DEF PriceInv, PushInv
    <2> QED
      BY <1>1, <1>4, <2>1
  <1> QED
    BY <1>3, <1>4

CatalogInv == RegistryInv /\ FilesInv /\ PriceInv
(* The inductive invariant of the registry and of the prices pushed to it:  *)
(* who still has overrides to read, and which table the newest snapshot is  *)
(* of, through overlapping reloads, failed writes and restarts.             *)
THEOREM AlwaysCatalogInv == CatalogSpec => []CatalogInv
  <1>1. CatalogInit => CatalogInv
    BY RegistryInit, PriceInit DEF CatalogInv
  <1>2. CatalogInv /\ [CatalogNext \/ PricesNext]_catalogVars => CatalogInv'
    BY RegistryNext, FilesNext, PriceNext DEF CatalogInv
  <1> QED
    BY <1>1, <1>2, PTL DEF CatalogSpec

(* Whatever tables upstream serves, every catalogue quoted and every dynamic *)
(* floor is that of one saved snapshot: cost sync saves before it pushes,   *)
(* and reduces a tree to the cheapest of the rules it saves.                *)
THEOREM PricesAlwaysOnRecord == CatalogSpec => []PricesOnRecord
  <1>1. CatalogInv => PricesOnRecord
    BY OverlayRecorded DEF CatalogInv, PriceInv, PricesOnRecord
  <1> QED
    BY <1>1, AlwaysCatalogInv, PTL

\* The list in memory is the table's as of some write, the gate asks for the
\* plan shown and the locks, and list and request agree.
LEMMA ServedInv == CatalogInv => OverridesServed /\ GateAsShown /\ ListAsResolved
  <1> SUFFICES ASSUME CatalogInv PROVE OverridesServed /\ GateAsShown /\ ListAsResolved
    OBVIOUS
  <1>1. lone <= held /\ (held = writes => overrides = table)
    BY DEF CatalogInv, RegistryInv, RegistryTypes, OverrideInv
  <1>2. AtRest /\ held # writes => lapse
    BY DEF CatalogInv, RegistryInv, OverrideInv, AtRest, Reloading
  <1> QED
    BY <1>1, <1>2, GateShown, ListAgrees DEF CatalogInv, OverridesServed
----------------------------------------------------------------------------
(* What downstream is billed and the floor it is judged by.                 *)

Decided == [res: Resolutions, audio: AudioStates, mode: Modes, unit: STRING, dur: Nat, price: Nat,
            at: Nat, rank: 1..2]
Rows == BatchRows \cup {NoBatch}
DecisionTypes ==
    /\ decisions \in Seq(Decided) /\ priceClock \in Nat
    /\ \A i, j \in DOMAIN decisions: i < j => decisions[i].at <= decisions[j].at
    /\ \A i \in DOMAIN decisions: decisions[i].at <= priceClock
    /\ DOMAIN post = {"pc", "d", "cost", "verdict"}
    /\ post.d \in 0..Len(decisions) /\ (post.pc = "idle") = (post.d = 0)
BatchTypes ==
    /\ batches \in [BatchIds -> Rows] /\ batchWrites \in Nat
    /\ put.pc = "write" => put.id \in BatchIds /\ put.row \in BatchRows /\ put.patch \in Repricing \cup {0}
    /\ stale \subseteq out /\ out \subseteq BatchIds
\* The verdict an answer gave is the one its rules and its cost give.
Judged ==
    post.pc = "done" =>
        post.verdict = Verdict(LookupVariantCredits(decisions[post.d]), decisions[post.d].price, post.cost)
PricingInv == DecisionTypes /\ BatchTypes /\ Judged /\ TakenOutStaysOut

LEMMA PricingInvInit == PricingInit => PricingInv
  <1> SUFFICES ASSUME PricingInit PROVE PricingInv
    OBVIOUS
  <1>1. DecisionTypes
    <2>1. decisions = <<>> /\ priceClock = 0 /\ post = NoPost
      BY DEF PricingInit
    <2>2. decisions \in Seq(Decided) /\ Len(decisions) = 0 /\ DOMAIN decisions = {}
      BY <2>1
    <2>3. DOMAIN post = {"pc", "d", "cost", "verdict"} /\ post.pc = "idle" /\ post.d = 0
      BY <2>1 DEF NoPost
    <2> QED
      BY <2>1, <2>2, <2>3 DEF DecisionTypes
  <1>2. BatchTypes
    <2>1. NoBatch \in Rows /\ NoPut.pc = "idle"
      BY DEF Rows, NoPut
    <2> QED
      BY <2>1 DEF PricingInit, BatchTypes
  <1>3. Judged
    BY DEF PricingInit, Judged, NoPost
  <1>4. TakenOutStaysOut
    BY DEF PricingInit, TakenOutStaysOut
  <1> QED
    BY <1>1, <1>2, <1>3, <1>4 DEF PricingInv

LEMMA DecidedFields ==
  ASSUME DecisionTypes
  PROVE  \A i \in DOMAIN decisions: decisions[i] \in Decided /\ decisions[i].at \in Nat
  <1>1. \A i \in DOMAIN decisions: decisions[i] \in Decided
    BY DEF DecisionTypes
  <1>2. \A d \in Decided: d.at \in Nat
    BY DEF Decided
  <1> QED
    BY <1>1, <1>2

LEMMA DecisionSteps ==
  ASSUME DecisionTypes, Judged, PricingNext
  PROVE  DecisionTypes' /\ Judged'
  <1> USE DEF DecisionTypes, Judged
  <1>1. CASE UNCHANGED <<decisions, priceClock, post>>
    BY <1>1
  <1>2. ASSUME NEW p \in Postings, NEW rank \in 1..2, RecordPriceDecision(p, rank)
        PROVE  DecisionTypes' /\ Judged'
    <2> DEFINE d == [res |-> p.res, audio |-> p.audio, mode |-> p.mode, unit |-> p.unit,
                     dur |-> p.dur, price |-> p.price, at |-> priceClock, rank |-> rank]
    <2>1. decisions' = Append(decisions, d) /\ priceClock' = priceClock
          /\ post' = [NoPost EXCEPT !.pc = "warn", !.d = Len(decisions) + 1]
      BY <1>2 DEF RecordPriceDecision
    <2>2. d \in Decided
      BY PricingAssumption DEF Decided
    <2>3. d.at = priceClock
      OBVIOUS
    <2> HIDE DEF d
    <2>4. decisions' \in Seq(Decided) /\ Len(decisions') = Len(decisions) + 1
      BY <2>1, <2>2
    <2>5. \A i \in DOMAIN decisions': (i \in DOMAIN decisions /\ decisions'[i] = decisions[i])
                                       \/ (i = Len(decisions) + 1 /\ decisions'[i] = d)
      BY <2>1, <2>2
    <2>6. post'.pc = "warn" /\ post'.d = Len(decisions) + 1
      BY <2>1 DEF NoPost
    <2>7. \A i \in DOMAIN decisions: decisions[i].at \in Nat
      BY DecidedFields
    <2>8. \A i, j \in DOMAIN decisions': i < j => decisions'[i].at <= decisions'[j].at
      BY <2>3, <2>4, <2>5, <2>7
    <2>9. \A i \in DOMAIN decisions': decisions'[i].at <= priceClock'
      BY <2>1, <2>3, <2>5, <2>7
    <2>10. DecisionTypes'
      <3>1. Len(decisions) \in Nat /\ priceClock' \in Nat /\ DOMAIN post' = {"pc", "d", "cost", "verdict"}
        BY <2>1 DEF NoPost
      <3>2. post'.d \in 0..Len(decisions') /\ (post'.pc = "idle") = (post'.d = 0)
        BY <3>1, <2>4, <2>6
      <3> QED
        BY <3>1, <3>2, <2>4, <2>8, <2>9
    <2> QED
      BY <2>6, <2>10
  <1>3. CASE RetailFloorWarnings
    <2>1. UNCHANGED <<decisions, priceClock>> /\ post.pc = "warn"
          /\ post' = [post EXCEPT !.pc = "done", !.cost = EffectiveUnitCost,
                          !.verdict = Verdict(LookupVariantCredits(decisions[post.d]),
                                              decisions[post.d].price, EffectiveUnitCost)]
      BY <1>3 DEF RetailFloorWarnings
    <2> QED
      BY <2>1
  <1>4. CASE PriceTick
    <2>1. UNCHANGED <<decisions, post>> /\ priceClock' = priceClock + 1
      BY <1>4 DEF PriceTick
    <2>2. \A i \in DOMAIN decisions: decisions[i].at \in Nat
      BY DecidedFields
    <2> QED
      BY <2>1, <2>2
  <1> QED
    BY <1>1, <1>2, <1>3, <1>4
    DEF PricingNext, FeedNext, FloorNext, Posts, OnlyBatches, CreatePurchaseBatch, DeletePurchaseBatch,
        GetPurchaseBatch, UpdatePurchaseBatch

LEMMA BatchSteps ==
  ASSUME BatchTypes, TakenOutStaysOut, PricingNext
  PROVE  BatchTypes' /\ TakenOutStaysOut'
  <1> USE DEF BatchTypes, TakenOutStaysOut
  <1>1. CASE UNCHANGED <<batches, put, batchWrites, out, stale>>
    BY <1>1
  <1>2. ASSUME NEW b \in BatchIds, NEW row \in NewBatches, CreatePurchaseBatch(b, row)
        PROVE  BatchTypes' /\ TakenOutStaysOut'
    <2>1. row \in Rows
      BY PricingAssumption DEF Rows
    <2>2. batchWrites' = batchWrites + 1 /\ batches' = [batches EXCEPT ![b] = row]
          /\ out' = out \ {b} /\ stale' = stale \ {b} /\ put' = put
      BY <1>2 DEF CreatePurchaseBatch, WritesBatch
    <2> HIDE DEF TakenOutStaysOut
    <2>3. BatchTypes'
      BY <2>1, <2>2
    <2>4. TakenOutStaysOut'
      BY <2>2 DEF TakenOutStaysOut
    <2> QED
      BY <2>3, <2>4
  <1>3. ASSUME NEW b \in BatchIds, DeletePurchaseBatch(b)
        PROVE  BatchTypes' /\ TakenOutStaysOut'
    <2>1. NoBatch \in Rows /\ NoBatch.active = FALSE
      BY DEF Rows, NoBatch
    <2>2. batchWrites' = batchWrites + 1 /\ batches' = [batches EXCEPT ![b] = NoBatch]
          /\ out' = out \cup {b} /\ stale' = stale \ {b} /\ put' = put
      BY <1>3 DEF DeletePurchaseBatch, WritesBatch
    <2> HIDE DEF TakenOutStaysOut
    <2>3. BatchTypes'
      BY <2>1, <2>2
    <2>4. TakenOutStaysOut'
      BY <2>1, <2>2 DEF TakenOutStaysOut
    <2> QED
      BY <2>3, <2>4
  <1>4. ASSUME NEW b \in BatchIds, NEW patch \in Repricing \cup {0}, GetPurchaseBatch(b, patch)
        PROVE  BatchTypes' /\ TakenOutStaysOut'
    <2>1. batches[b] \in BatchRows
      BY <1>4 DEF GetPurchaseBatch, Rows
    <2>2. put' = [pc |-> "write", id |-> b, row |-> batches[b], patch |-> patch]
          /\ UNCHANGED <<batches, batchWrites, out, stale>>
      BY <1>4 DEF GetPurchaseBatch
    <2> QED
      BY <2>1, <2>2
  <1>5. CASE UpdatePurchaseBatch
    <2> DEFINE row == BuildBatchFromRequest(put.row, put.patch)
    <2>1. put.pc = "write" /\ put.id \in BatchIds /\ put.row \in BatchRows /\ put.patch \in Repricing \cup {0}
      BY <1>5 DEF UpdatePurchaseBatch
    <2>2. row \in BatchRows /\ row.active = (put.row.active /\ put.patch # 0)
      <3>1. CASE put.patch = 0
        BY <2>1, <3>1 DEF BuildBatchFromRequest, BatchRows
      <3>2. CASE put.patch # 0
        <4>1. put.patch \in Nat \ {0}
          BY <2>1, <3>2, PricingAssumption
        <4> QED
          BY <2>1, <3>2, <4>1 DEF BuildBatchFromRequest, BatchRows
      <3> QED
        BY <3>1, <3>2
    <2>3. batchWrites' = batchWrites + 1 /\ batches' = [batches EXCEPT ![put.id] = row] /\ put' = NoPut
          /\ out' = (IF put.patch = 0 THEN out \cup {put.id} ELSE out)
          /\ stale' = (IF put.patch = 0 THEN stale \ {put.id}
                       ELSE IF put.id \in out /\ put.row.active THEN stale \cup {put.id} ELSE stale)
      BY <1>5 DEF UpdatePurchaseBatch, WritesBatch
    <2> HIDE DEF TakenOutStaysOut, row
    <2>4. BatchTypes'
      BY <2>1, <2>2, <2>3 DEF Rows, NoPut
    <2>5. TakenOutStaysOut'
      <3> SUFFICES ASSUME NEW b \in out' \ stale' PROVE ~batches'[b].active
        BY DEF TakenOutStaysOut
      <3>1. CASE b = put.id
        <4>1. batches'[b] = row
          BY <2>1, <2>3, <3>1
        <4>2. put.patch # 0 => ~put.row.active
          BY <2>3, <3>1
        <4> QED
          BY <2>2, <4>1, <4>2
      <3>2. CASE b # put.id
        <4>1. b \in out \ stale
          BY <2>3, <3>2
        <4>2. batches'[b] = batches[b]
          BY <2>3, <3>2, <4>1
        <4> QED
          BY <4>1, <4>2 DEF TakenOutStaysOut
      <3> QED
        BY <3>1, <3>2
    <2> QED
      BY <2>4, <2>5
  <1> HIDE DEF BatchTypes, TakenOutStaysOut
  <1>6. (Posts \/ RetailFloorWarnings \/ PriceTick) => UNCHANGED <<batches, put, batchWrites, out, stale>>
    BY DEF Posts, RecordPriceDecision, RetailFloorWarnings, PriceTick, OnlyDecisions
  <1> QED
    BY <1>1, <1>2, <1>3, <1>4, <1>5, <1>6 DEF PricingNext, FeedNext, FloorNext

LEMMA PricingInvNext == PricingInv /\ [PricingNext]_pricingVars => PricingInv'
  <1>1. CASE PricingNext
    BY <1>1, DecisionSteps, BatchSteps DEF PricingInv
  <1>2. CASE UNCHANGED pricingVars
    BY <1>2 DEF PricingInv, pricingVars, DecisionTypes, BatchTypes, Judged, TakenOutStaysOut
  <1> QED
    BY <1>1, <1>2

(* The inductive invariant of the decisions, the batches and the answers to *)
(* saves, for any postings, batches and interleaving of PUTs with deletes.  *)
THEOREM AlwaysPricingInv == PricingSpec => []PricingInv
  <1> QED
    BY PricingInvInit, PricingInvNext, PTL DEF PricingSpec

----------------------------------------------------------------------------
\* Where both lookups find credits, they find the same.
LEMMA JudgedAlike == DecisionTypes /\ Judged => SavedAsSuggested
  <1> SUFFICES ASSUME DecisionTypes, Judged PROVE SavedAsSuggested
    OBVIOUS
  <1> DEFINE d == decisions[post.d]
             unit == {i \in Folded(d): CostRules[i].unit = d.unit}
             open == (\E i \in Loose(d): CostRules[i].unit # d.unit) \/ Folded(d) = {}
  <1> SUFFICES ASSUME post.pc = "done", ~(Exact(d) = {} /\ Loose(d) # {} /\ open)
               PROVE  \A credits \in LookupCreditsForFloor(d): Verdict(credits, d.price, post.cost) = post.verdict
    BY DEF SavedAsSuggested
  <1>1. post.verdict = Verdict(LookupVariantCredits(d), d.price, post.cost)
    BY DEF Judged
  <1>2. Folded(d) \subseteq Loose(d)
    BY DEF Folded
  <1>3. ASSUME ~open PROVE unit = Folded(d)
    BY <1>2, <1>3
  <1>4. LookupCreditsForFloor(d) = {LookupVariantCredits(d)}
    <2> HIDE DEF d
    <2>1. CASE Exact(d) # {}
      BY <2>1 DEF LookupCreditsForFloor, LookupVariantCredits
    <2>2. CASE Exact(d) = {} /\ Loose(d) = {}
      BY <1>2, <2>2 DEF LookupCreditsForFloor, LookupVariantCredits
    <2>3. CASE Exact(d) = {} /\ Loose(d) # {}
      <3>1. unit = Folded(d) /\ Folded(d) # {}
        BY <1>3, <2>3
      <3> QED
        BY <2>3, <3>1 DEF LookupCreditsForFloor, LookupVariantCredits
    <2> QED
      BY <2>1, <2>2, <2>3
  <1> QED
    BY <1>1, <1>4

LEMMA ObservationFields == \A i \in DOMAIN Observations: Observations[i] \in ObservationRows
  BY PricingAssumption

\* A tier carries the newest decision of its variant, official prices only
\* where nobody decided.
LEMMA NewestBills == DecisionTypes => SupersededNotBilled
  <1> SUFFICES ASSUME DecisionTypes, NEW k \in Tiers, NEW row \in TierRows(k)
               PROVE  /\ row \in ObservedRows(k) => OverrideRows(k) = {}
                      /\ row \in OverrideRows(k) => \A j \in DOMAIN decisions:
                           Variant(decisions[j]) = Variant(row) => decisions[j].at <= row.at
    BY DEF SupersededNotBilled
  <1>1. ASSUME row \in ObservedRows(k), OverrideRows(k) # {} PROVE FALSE
    <2>1. row \in OverrideRows(k)
      BY <1>1 DEF TierRows
    <2>2. PICK i \in DOMAIN decisions: row = decisions[i]
      BY <2>1 DEF OverrideRows, Overrides, ListLatestPriceDecisions
    <2>3. "at" \in DOMAIN row
      BY <2>2, DecidedFields DEF Decided
    <2>4. PICK o \in DOMAIN Observations: row = Observations[o]
      BY <1>1 DEF ObservedRows, Observed
    <2>5. "at" \notin DOMAIN row
      BY <2>4, ObservationFields DEF ObservationRows
    <2> QED
      BY <2>3, <2>5
  <1>2. ASSUME row \in OverrideRows(k), NEW j \in DOMAIN decisions, Variant(decisions[j]) = Variant(row)
        PROVE  decisions[j].at <= row.at
    <2>1. PICK i \in ListLatestPriceDecisions: row = decisions[i]
      BY <1>2 DEF OverrideRows, Overrides
    <2>2. ~(decisions[j].at > row.at)
      BY <1>2, <2>1 DEF ListLatestPriceDecisions, Newer
    <2>3. i \in DOMAIN decisions
      BY DEF ListLatestPriceDecisions
    <2> QED
      BY <2>1, <2>2, <2>3, DecidedFields
  <1> QED
    BY <1>1, <1>2

LEMMA TierWords == ASSUME DecisionTypes, NEW t \in Tiers PROVE t \in Resolutions \X AudioStates \X Modes
  <1>1. CASE \E i \in Overrides: t = Tier(decisions[i])
    <2>1. PICK i \in DOMAIN decisions: t = Tier(decisions[i])
      BY <1>1 DEF Overrides, ListLatestPriceDecisions
    <2>2. decisions[i] \in Decided
      BY DecidedFields
    <2> QED
      BY <2>1, <2>2 DEF Tier, Decided
  <1>2. CASE \E i \in Observed: t = Tier(Observations[i])
    <2>1. PICK i \in DOMAIN Observations: t = Tier(Observations[i])
      BY <1>2 DEF Observed
    <2>2. Observations[i].res \in Resolutions /\ Observations[i].audio \in AudioStates
          /\ Observations[i].mode \in Modes
      BY ObservationFields DEF ObservationRows
    <2> QED
      BY <2>1, <2>2 DEF Tier
  <1> QED
    BY <1>1, <1>2 DEF Tiers

\* What a tier consists of, and how the sort ranks what it leaves open.
LEMMA TierParts ==
  ASSUME NEW t \in Resolutions \X AudioStates \X Modes
  PROVE  t[1] \in Resolutions /\ t[2] \in AudioStates /\ t[3] \in Modes /\ t = <<t[1], t[2], t[3]>>
  OBVIOUS
LEMMA OpenLast ==
  /\ \A r \in Resolutions: r # "" => ResolutionRank(r) > ResolutionRank("")
  /\ \A a \in AudioStates: a # "" => AudioRank(a) > AudioRank("")
  /\ \A m \in Modes: m # "" => ModeRank("") < ModeRank(m)
  BY DEF ResolutionRank, AudioRank, ModeRank, Resolutions, AudioStates, Modes
LEMMA GuardParts ==
  ASSUME NEW t, NEW k
  PROVE  Guard(t, k) <=> (t[1] # "" => k[1] = t[1]) /\ (t[2] # "" => k[2] = t[2]) /\ (t[3] # "" => k[3] = t[3])
  <1>1. 1..3 = {1, 2, 3}
    OBVIOUS
  <1> QED
    BY <1>1 DEF Guard

\* Of the tiers whose guard a priced variant passes the sort puts its own
\* first, or the one that leaves only its mode open.
LEMMA OwnTierFirst == DecisionTypes => VariantBilledItsTier
  <1> SUFFICES ASSUME DecisionTypes, NEW k \in Tiers
               PROVE  BilledTier(k) = k \/ (k[3] # "" /\ BilledTier(k) = <<k[1], k[2], "">>)
    BY DEF VariantBilledItsTier
  <1> DEFINE Words == Resolutions \X AudioStates \X Modes
             open == {t \in Tiers: Guard(t, k)}
             wide == <<k[1], k[2], "">>
             first == IF wide \in Tiers THEN wide ELSE k
  <1>1. open \subseteq Words /\ k \in Words
    BY TierWords
  <1>2. \A t \in open: t[1] \in {"", k[1]} /\ t[2] \in {"", k[2]} /\ t[3] \in {"", k[3]}
    BY GuardParts
  <1>3. k \in open /\ first \in open
    <2>1. wide[1] = k[1] /\ wide[2] = k[2] /\ wide[3] = ""
      OBVIOUS
    <2> HIDE DEF wide
    <2>2. Guard(k, k) /\ Guard(wide, k)
      BY <2>1, GuardParts
    <2> QED
      BY <2>2
  <1>4. \A s, t \in Words: Before(s, t) => ~Before(t, s) /\ s # t
    <2> SUFFICES ASSUME NEW s \in Words, NEW t \in Words, Before(s, t) PROVE ~Before(t, s) /\ s # t
      OBVIOUS
    <2>1. \A w \in Words: ResolutionRank(w[1]) \in Nat /\ AudioRank(w[2]) \in Nat /\ ModeRank(w[3]) \in Nat
      BY TierParts DEF ResolutionRank, AudioRank, ModeRank
    <2> HIDE DEF Words
    <2> QED
      BY <2>1 DEF Before
  <1>5. \A t \in open: t = first \/ Before(first, t)
    <2> SUFFICES ASSUME NEW t \in open, t # first PROVE Before(first, t)
      OBVIOUS
    <2>1. t \in Words /\ t[1] \in {"", k[1]} /\ t[2] \in {"", k[2]} /\ t[3] \in {"", k[3]}
      BY <1>1, <1>2
    <2>2. first[1] = k[1] /\ first[2] = k[2] /\ first[3] \in {"", k[3]}
      OBVIOUS
    <2>3. k[1] \in Resolutions /\ k[2] \in AudioStates /\ k[3] \in Modes /\ k = <<k[1], k[2], k[3]>>
      BY <1>1, TierParts
    <2>4. t = <<t[1], t[2], t[3]>>
      BY <2>1, TierParts
    <2> HIDE DEF first, open, Words
    <2>5. CASE t[1] # k[1]
      <3>1. t[1] = "" /\ k[1] # ""
        BY <2>1, <2>5
      <3> QED
        BY <2>2, <2>3, <3>1, OpenLast DEF Before
    <2>6. CASE t[1] = k[1] /\ t[2] # k[2]
      <3>1. t[2] = "" /\ k[2] # ""
        BY <2>1, <2>6
      <3> QED
        BY <2>2, <2>3, <2>6, <3>1, OpenLast DEF Before
    <2>7. CASE t[1] = k[1] /\ t[2] = k[2]
      <3>1. CASE t[3] = ""
        <4>1. t = wide /\ wide \in Tiers
          BY <2>4, <2>7, <3>1 DEF open
        <4> QED
          BY <4>1 DEF first
      <3>2. CASE t[3] # "" /\ t[3] = k[3]
        <4>1. t = k
          BY <2>3, <2>4, <2>7, <3>2
        <4>2. first = wide
          BY <4>1 DEF first
        <4>3. first[3] = ""
          BY <4>2
        <4> QED
          BY <2>2, <2>3, <2>7, <3>2, <4>3, OpenLast DEF Before
      <3> QED
        BY <2>1, <3>1, <3>2
    <2> QED
      BY <2>1, <2>5, <2>6, <2>7
  <1> DEFINE P(t) == \A s \in open: s = t \/ Before(t, s)
  <1>6. BilledTier(k) \in open /\ P(BilledTier(k))
    <2>1. BilledTier(k) = CHOOSE t \in open: P(t)
      BY DEF BilledTier
    <2>2. \E t \in open: P(t)
      BY <1>3, <1>5
    <2> HIDE DEF open, P
    <2> QED
      BY <2>1, <2>2
  <1>7. BilledTier(k) = first
    <2> HIDE DEF open, first, Words
    <2> QED
      BY <1>1, <1>3, <1>4, <1>5, <1>6
  <1>8. first = k \/ (k[3] # "" /\ first = wide)
    BY <1>1, TierParts
  <1> QED
    BY <1>7, <1>8

----------------------------------------------------------------------------
(* Sums over a finite set, which the library takes one chosen element at a  *)
(* time.                                                                    *)
Picked(s) == CHOOSE x \in s: TRUE
SumsUp(g, f, S) == g = [s \in SUBSET S |-> IF s = {} THEN 0 ELSE f[Picked(s)] + g[s \ {Picked(s)}]]

\* A property of the empty set that the removal of the chosen element
\* brings with it is one of every subset.
LEMMA SubsetSteps ==
  ASSUME NEW S, IsFiniteSet(S), NEW X, {} \in X,
         \A s \in SUBSET S: s # {} /\ s \ {Picked(s)} \in X => s \in X
  PROVE  SUBSET S \subseteq X
  <1> SUFFICES ASSUME NEW bad \in SUBSET S, bad \notin X PROVE FALSE
    OBVIOUS
  <1> DEFINE Sizes == {n \in Nat: \E s \in SUBSET S: s \notin X /\ Cardinality(s) = n}
  <1>1. \A s \in SUBSET S: IsFiniteSet(s) /\ Cardinality(s) \in Nat
    BY FS_Subset, FS_CardinalityType
  <1>2. Cardinality(bad) \in Sizes
    BY <1>1
  <1>3. PICK m \in Sizes: \A j \in Sizes: ~(j < m)
    <2>1. IsWellFoundedOn(OpToRel(<, Nat), Nat)
      BY NatLessThanWellFounded
    <2>2. Sizes \subseteq Nat /\ Sizes # {}
      BY <1>2
    <2> HIDE DEF Sizes
    <2>3. PICK x \in Sizes: \A y \in Sizes: ~(<<y, x>> \in OpToRel(<, Nat))
      BY <2>1, <2>2, WFMin
    <2> QED
      BY <2>2, <2>3 DEF OpToRel
  <1>4. PICK s \in SUBSET S: s \notin X /\ Cardinality(s) = m
    OBVIOUS
  <1>5. s # {} /\ Picked(s) \in s
    BY <1>4 DEF Picked
  <1>6. Cardinality(s \ {Picked(s)}) = m - 1
    BY <1>1, <1>4, <1>5, FS_RemoveElement
  <1>7. s \ {Picked(s)} \notin X
    BY <1>4, <1>5
  <1>8. m - 1 \in Sizes
    BY <1>1, <1>6, <1>7
  <1>9. m \in Nat /\ m - 1 < m
    OBVIOUS
  <1> QED
    BY <1>3, <1>8, <1>9

\* Such a function exists: on the subsets of at most n elements for each n.
LEMMA SumsExist ==
  ASSUME NEW S, IsFiniteSet(S), NEW f
  PROVE  \E g: SumsUp(g, f, S)
  <1> DEFINE Level(n) == {s \in SUBSET S: Cardinality(s) <= n}
             On(g, n) == g = [s \in Level(n) |-> IF s = {} THEN 0 ELSE f[Picked(s)] + g[s \ {Picked(s)}]]
             Bad == {n \in Nat: ~\E g: On(g, n)}
  <1>1. \A s \in SUBSET S: IsFiniteSet(s) /\ Cardinality(s) \in Nat /\ (Cardinality(s) = 0 <=> s = {})
    BY FS_Subset, FS_CardinalityType, FS_EmptySet
  <1>2. \A s \in SUBSET S: s # {} => Cardinality(s \ {Picked(s)}) = Cardinality(s) - 1
    BY <1>1, FS_RemoveElement DEF Picked
  <1>3. \E g: On(g, 0)
    <2> DEFINE g == [s \in Level(0) |-> 0]
    <2>1. \A s \in Level(0): s = {}
      BY <1>1
    <2>2. On(g, 0)
      BY <2>1
    <2> QED
      BY <2>2
  <1>4. ASSUME NEW n \in Nat, NEW g, On(g, n) PROVE \E h: On(h, n + 1)
    <2> DEFINE h == [s \in Level(n + 1) |-> IF s = {} THEN 0 ELSE f[Picked(s)] + g[s \ {Picked(s)}]]
    <2>1. \A s \in Level(n): s \in Level(n + 1)
      BY <1>1
    <2>2. \A s \in Level(n): g[s] = IF s = {} THEN 0 ELSE f[Picked(s)] + g[s \ {Picked(s)}]
      BY <1>4
    <2>3. \A s \in Level(n): g[s] = h[s]
      BY <2>1, <2>2
    <2>4. \A s \in Level(n + 1): s # {} => s \ {Picked(s)} \in Level(n)
      BY <1>1, <1>2
    <2>5. On(h, n + 1)
      BY <2>3, <2>4
    <2> QED
      BY <2>5
  <1>5. Bad = {}
    <2> SUFFICES ASSUME Bad # {} PROVE FALSE
      OBVIOUS
    <2>1. Bad \subseteq Nat
      OBVIOUS
    <2>2. PICK m \in Bad: \A j \in Bad: m <= j
      <3> HIDE DEF Bad
      <3> QED
        BY <2>1, LeastOf
    <2>3. m # 0 /\ m \in Nat
      <3>1. 0 \notin Bad
        <4> HIDE DEF On
        <4> QED
          BY <1>3
      <3> HIDE DEF Bad
      <3> QED
        BY <2>1, <3>1
    <2>4. m - 1 \in Nat /\ ~(m <= m - 1) /\ (m - 1) + 1 = m
      BY <2>3
    <2>5. m - 1 \notin Bad
      <3> HIDE DEF Bad
      <3> QED
        BY <2>2, <2>4
    <2>6. PICK g: On(g, m - 1)
      BY <2>4, <2>5
    <2>7. \E h: On(h, (m - 1) + 1)
      <3> HIDE DEF On
      <3> QED
        BY <1>4, <2>4, <2>6
    <2>8. \E h: On(h, m)
      <3> HIDE DEF On
      <3> QED
        BY <2>4, <2>7
    <2>9. ~\E h: On(h, m)
      <3> HIDE DEF On
      <3> QED
        OBVIOUS
    <2> QED
      BY <2>8, <2>9
  <1>6. PICK g: On(g, Cardinality(S))
    BY <1>1, <1>5
  <1>7. Level(Cardinality(S)) = SUBSET S
    BY FS_Subset
  <1> QED
    BY <1>6, <1>7 DEF SumsUp

\* The folded sum is one of those functions.
LEMMA SumIsOne ==
  ASSUME NEW S, IsFiniteSet(S), NEW f \in [S -> Int]
  PROVE  \E g \in [SUBSET S -> Int]: SumsUp(g, f, S) /\ SumFunction(f) = g[S]
  <1> DEFINE g == CHOOSE h: SumsUp(h, f, S)
  <1>1. SumsUp(g, f, S)
    BY SumsExist
  <1>2. SumFunction(f) = g[S]
    BY DEF SumFunction, SumFunctionOnSet, FoldFunctionOnSet, MapThenFoldSet, SumsUp, Picked
  <1> HIDE DEF g
  <1> DEFINE X == {s \in SUBSET S: g[s] \in Int}
  <1>3. \A s \in SUBSET S: g[s] = IF s = {} THEN 0 ELSE f[Picked(s)] + g[s \ {Picked(s)}]
    BY <1>1 DEF SumsUp
  <1>4. {} \in X
    <2>1. {} \in SUBSET S
      OBVIOUS
    <2>2. g[{}] = 0
      BY <1>3, <2>1
    <2> QED
      BY <2>1, <2>2
  <1>5. \A s \in SUBSET S: s # {} /\ s \ {Picked(s)} \in X => s \in X
    <2> SUFFICES ASSUME NEW s \in SUBSET S, s # {}, s \ {Picked(s)} \in X PROVE s \in X
      OBVIOUS
    <2>1. Picked(s) \in S
      BY DEF Picked
    <2>2. f[Picked(s)] \in Int /\ g[s \ {Picked(s)}] \in Int
      BY <2>1
    <2>3. g[s] = f[Picked(s)] + g[s \ {Picked(s)}]
      BY <1>3
    <2>4. g[s] \in Int
      BY <2>2, <2>3
    <2> QED
      BY <2>4
  <1>6. SUBSET S \subseteq X
    <2> HIDE DEF X
    <2> QED
      BY <1>4, <1>5, SubsetSteps
  <1>7. g \in [SUBSET S -> Int]
    <2>1. g = [s \in SUBSET S |-> g[s]]
      BY <1>1 DEF SumsUp
    <2>2. \A s \in SUBSET S: g[s] \in Int
      BY <1>6
    <2> QED
      BY <2>1, <2>2
  <1> QED
    BY <1>1, <1>2, <1>7

\* A bound on each term, scaled, is one on the sum.
LEMMA Scaled ==
  ASSUME NEW a \in Int, NEW k \in Int, NEW x \in Int, NEW y \in Int, NEW u \in Int, NEW v \in Int,
         a * x <= k * y, a * u <= k * v
  PROVE  a * (x + u) <= k * (y + v)
  <1>1. a * (x + u) = a * x + a * u /\ k * (y + v) = k * y + k * v
    OBVIOUS
  <1>2. a * x \in Int /\ a * u \in Int /\ k * y \in Int /\ k * v \in Int
    OBVIOUS
  <1> QED
    BY <1>1, <1>2

\* What holds of every term, scaled, holds of the sums.
LEMMA SumsCompare ==
  ASSUME NEW S, IsFiniteSet(S), NEW f \in [S -> Int], NEW h \in [S -> Int], NEW a \in Int, NEW k \in Int,
         \A x \in S: a * f[x] <= k * h[x]
  PROVE  /\ SumFunction(f) \in Int /\ SumFunction(h) \in Int
         /\ a * SumFunction(f) <= k * SumFunction(h)
         /\ S = {} => SumFunction(f) = 0
  <1>1. PICK F \in [SUBSET S -> Int]: SumsUp(F, f, S) /\ SumFunction(f) = F[S]
    BY SumIsOne
  <1>2. PICK H \in [SUBSET S -> Int]: SumsUp(H, h, S) /\ SumFunction(h) = H[S]
    BY SumIsOne
  <1>3. \A s \in SUBSET S: /\ F[s] = IF s = {} THEN 0 ELSE f[Picked(s)] + F[s \ {Picked(s)}]
                           /\ H[s] = IF s = {} THEN 0 ELSE h[Picked(s)] + H[s \ {Picked(s)}]
    BY <1>1, <1>2 DEF SumsUp
  <1> DEFINE X == {s \in SUBSET S: a * F[s] <= k * H[s]}
  <1>4. {} \in X
    <2>1. {} \in SUBSET S
      OBVIOUS
    <2>2. F[{}] = 0 /\ H[{}] = 0
      BY <1>3, <2>1
    <2>3. a * 0 = 0 /\ k * 0 = 0
      OBVIOUS
    <2> QED
      BY <2>1, <2>2, <2>3
  <1>5. \A s \in SUBSET S: s # {} /\ s \ {Picked(s)} \in X => s \in X
    <2> SUFFICES ASSUME NEW s \in SUBSET S, s # {}, s \ {Picked(s)} \in X PROVE s \in X
      OBVIOUS
    <2> DEFINE rest == s \ {Picked(s)}
    <2>1. Picked(s) \in S /\ rest \in SUBSET S
      BY DEF Picked
    <2>2. F[s] = f[Picked(s)] + F[rest] /\ H[s] = h[Picked(s)] + H[rest]
      BY <1>3
    <2>3. f[Picked(s)] \in Int /\ h[Picked(s)] \in Int /\ F[rest] \in Int /\ H[rest] \in Int
          /\ a * f[Picked(s)] <= k * h[Picked(s)] /\ a * F[rest] <= k * H[rest]
      BY <2>1
    <2>4. a * F[s] <= k * H[s]
      <3> HIDE DEF rest
      <3> QED
        BY <2>2, <2>3, Scaled
    <2> QED
      BY <2>4
  <1>6. SUBSET S \subseteq X
    <2> HIDE DEF X
    <2> QED
      BY <1>4, <1>5, SubsetSteps
  <1>7. S \in X
    BY <1>6
  <1>8. F[S] \in Int /\ H[S] \in Int
    OBVIOUS
  <1> QED
    BY <1>1, <1>2, <1>3, <1>7, <1>8

LEMMA SumIsNat ==
  ASSUME NEW S, IsFiniteSet(S), NEW f \in [S -> Nat]
  PROVE  SumFunction(f) \in Nat /\ (S = {} => SumFunction(f) = 0)
  <1>1. f \in [S -> Int] /\ 0 \in Int /\ 1 \in Int
    OBVIOUS
  <1>2. \A x \in S: 0 * f[x] <= 1 * f[x]
    OBVIOUS
  <1>3. SumFunction(f) \in Int /\ 0 * SumFunction(f) <= 1 * SumFunction(f) /\ (S = {} => SumFunction(f) = 0)
    BY <1>1, <1>2, SumsCompare
  <1> QED
    BY <1>3

\* One term is on the side its sum is on.
LEMMA SomeAbove ==
  ASSUME NEW S, IsFiniteSet(S), NEW f \in [S -> Nat], NEW h \in [S -> Nat], NEW a \in Nat, NEW k \in Nat,
         k * SumFunction(h) < a * SumFunction(f)
  PROVE  \E x \in S: k * h[x] < a * f[x]
  <1>1. SUFFICES ASSUME ~\E x \in S: k * h[x] < a * f[x] PROVE FALSE
    OBVIOUS
  <1>2. f \in [S -> Int] /\ h \in [S -> Int] /\ a \in Int /\ k \in Int
    OBVIOUS
  <1>3. \A x \in S: a * f[x] <= k * h[x]
    <2> SUFFICES ASSUME NEW x \in S PROVE a * f[x] <= k * h[x]
      OBVIOUS
    <2>1. ~(k * h[x] < a * f[x]) /\ k * h[x] \in Int /\ a * f[x] \in Int
      BY <1>1, <1>2
    <2> QED
      BY <2>1
  <1>4. a * SumFunction(f) <= k * SumFunction(h) /\ SumFunction(f) \in Int /\ SumFunction(h) \in Int
    BY <1>2, <1>3, SumsCompare
  <1>5. a * SumFunction(f) \in Int /\ k * SumFunction(h) \in Int
    BY <1>2, <1>4
  <1> QED
    BY <1>4, <1>5

\* A mean rounded down, of payments over credits in hundredths cut to whole
\* ones: below it plus one, and above it up to the credit that is cut.
Mean(c, C, P, W) ==
    /\ C \in Nat \ {0} /\ c \in Nat
    /\ 100 * P < (c + 1) * W
    /\ c * C <= P /\ W < 100 * (C + 1)
LEMMA Quotients ==
  ASSUME NEW P \in Nat, NEW W \in Nat, NEW C \in Nat \ {0}, NEW c \in Nat,
         100 * C <= W, P < (c + 1) * C
  PROVE  100 * P < (c + 1) * W
  <1>1. 100 * P < (c + 1) * (100 * C)
    BY SMTT(30)
  <1>2. (c + 1) * (100 * C) <= (c + 1) * W
    BY Multiples
  <1>3. (c + 1) * (100 * C) \in Int /\ (c + 1) * W \in Int
    OBVIOUS
  <1> QED
    BY <1>1, <1>2, <1>3
LEMMA MeanBounds ==
  ASSUME NEW P \in Nat, NEW W \in Nat, NEW C, NEW c, C = W \div 100, C # 0, c = P \div C
  PROVE  Mean(c, C, P, W)
  <1>1. C \in Nat \ {0} /\ 100 * C <= W /\ W < 100 * (C + 1)
    OBVIOUS
  <1>2. c \in Nat /\ c * C <= P /\ P < (c + 1) * C
    BY <1>1, SMTT(30)
  <1> QED
    BY <1>1, <1>2, Quotients DEF Mean

LEMMA Regroup ==
  /\ \A n, x, y \in Nat: n * x * y = n * (x * y)
  /\ \A n, x, y, m \in Nat: n * x * y * m = (n * m) * (x * y)
  /\ \A p, m \in Nat: p * 100 * m = (100 * m) * p
  OBVIOUS

\* The mean of the plain purchases lies between their least and their most.
LEMMA FloorBetween == BatchTypes => FloorWithinBatches
  <1> SUFFICES ASSUME BatchTypes PROVE FloorWithinBatches
    OBVIOUS
  <1> DEFINE ids == {c \in BatchIds: Plain(batches[c])}
             own == {batches[b]: b \in ids}
             paid == [b \in ids |-> batches[b].paid]
             worth == [b \in ids |-> batches[b].credits * batches[b].accounts]
             W == SumFunction(worth)
             P == SumFunction(paid)
             C == W \div 100
             c == EffectiveUnitCost
  <1>1. \A b \in ids: batches[b].paid \in Nat \ {0} /\ batches[b].credits \in Nat /\ batches[b].accounts \in Nat \ {0}
    <2> SUFFICES ASSUME NEW b \in ids
                 PROVE  batches[b].paid \in Nat \ {0} /\ batches[b].credits \in Nat /\ batches[b].accounts \in Nat \ {0}
      OBVIOUS
    <2>1. batches[b] \in Rows /\ batches[b].active
      BY DEF BatchTypes, Plain
    <2>2. batches[b] \in BatchRows
      BY <2>1 DEF Rows, NoBatch
    <2> QED
      BY <2>2 DEF BatchRows
  <1>2. {b \in BatchIds: Eligible(batches[b])} = ids
    <2>1. \A b \in BatchIds: Eligible(batches[b]) => b \in ids
      BY DEF Eligible, Plain
    <2>2. \A b \in ids: b \in BatchIds /\ Eligible(batches[b])
      BY <1>1 DEF Eligible, Plain
    <2> QED
      BY <2>1, <2>2
  <1>3. c = IF C = 0 THEN Fallback ELSE P \div C
    BY <1>2 DEF EffectiveUnitCost
  <1>4. IsFiniteSet(ids)
    BY PricingAssumption, FS_Subset
  <1>5. /\ paid \in [ids -> Nat] /\ worth \in [ids -> Nat]
        /\ \A b \in ids: paid[b] = batches[b].paid /\ worth[b] = batches[b].credits * batches[b].accounts
                         /\ paid[b] \in Nat \ {0} /\ worth[b] \in Nat
    <2>1. \A b \in ids: batches[b].credits * batches[b].accounts \in Nat
      BY <1>1
    <2> HIDE DEF ids
    <2> QED
      BY <1>1, <2>1
  <1> HIDE DEF ids, paid, worth, c
  <1>6. P \in Nat /\ W \in Nat /\ (ids = {} => W = 0)
    BY <1>4, <1>5, SumIsNat
  <1> HIDE DEF P, W, C
  <1>7. ASSUME C # 0
        PROVE  /\ \E b \in own: (c + 1) * b.credits * b.accounts > b.paid * 100
               /\ \E b \in own: c * b.credits * b.accounts * C <= b.paid * 100 * (C + 1)
    <2>1. /\ C \in Nat \ {0} /\ c \in Nat
          /\ 100 * P < (c + 1) * W
          /\ c * C <= P /\ W < 100 * (C + 1)
      <3>1. C = W \div 100
        BY DEF C
      <3>2. c = P \div C
        BY <1>3, <1>7
      <3>3. Mean(c, C, P, W)
        BY <1>6, <1>7, <3>1, <3>2, MeanBounds
      <3> QED
        BY <3>3 DEF Mean
    <2>2. \E b \in ids: 100 * paid[b] < (c + 1) * worth[b]
      <3>1. c + 1 \in Nat /\ 100 \in Nat
        BY <2>1
      <3> QED
        BY <1>4, <1>5, <2>1, <3>1, SomeAbove DEF W, P
    <2> DEFINE a == 100 * (C + 1)
               k == c * C
    <2>3. a \in Nat \ {0} /\ k \in Nat
      BY <2>1
    <2>4. \E b \in ids: k * worth[b] <= a * paid[b]
      <3>1. CASE k = 0
        <4>1. PICK b \in ids: TRUE
          BY <1>6, <1>7 DEF C
        <4> HIDE DEF a, k
        <4>2. k * worth[b] = 0 /\ a * paid[b] \in Nat
          BY <1>5, <2>3, <3>1
        <4> QED
          BY <4>2
      <3>2. CASE k # 0
        <4>1. k <= P /\ W < a
          BY <2>1
        <4> HIDE DEF a, k
        <4>2. k * W < k * a
          BY <1>6, <2>3, <3>2, <4>1
        <4>3. a * k <= a * P
          BY <1>6, <2>3, <4>1
        <4>4. k * W < a * P
          <5>1. a * k \in Int /\ a * P \in Int /\ k * W \in Int /\ k * a = a * k
            BY <1>6, <2>3
          <5> QED
            BY <4>2, <4>3, <5>1
        <4>5. \E b \in ids: k * worth[b] < a * paid[b]
          BY <1>4, <1>5, <2>3, <4>4, SomeAbove DEF W, P
        <4>6. \A b \in ids: k * worth[b] \in Int /\ a * paid[b] \in Int
          BY <1>5, <2>3
        <4> QED
          BY <4>5, <4>6
      <3> QED
        BY <3>1, <3>2
    <2>5. PICK b \in ids: 100 * paid[b] < (c + 1) * worth[b]
      BY <2>2
    <2>6. PICK d \in ids: (c * C) * worth[d] <= (100 * (C + 1)) * paid[d]
      BY <2>4
    <2>7. (c + 1) * batches[b].credits * batches[b].accounts > batches[b].paid * 100
      <3>1. (c + 1) * batches[b].credits * batches[b].accounts = (c + 1) * worth[b] /\ batches[b].paid * 100 = 100 * paid[b]
        BY <1>1, <1>5, <2>1, Regroup
      <3> QED
        BY <2>5, <3>1
    <2>8. c * batches[d].credits * batches[d].accounts * C <= batches[d].paid * 100 * (C + 1)
      <3>1. batches[d].credits \in Nat /\ batches[d].accounts \in Nat /\ batches[d].paid \in Nat /\ C + 1 \in Nat
        BY <1>1, <2>1
      <3>2. c * batches[d].credits * batches[d].accounts * C = (c * C) * worth[d]
        BY <1>5, <2>1, <3>1, Regroup
      <3>3. batches[d].paid * 100 * (C + 1) = (100 * (C + 1)) * paid[d]
        BY <1>5, <3>1, Regroup
      <3> QED
        BY <2>6, <3>2, <3>3
    <2>9. batches[b] \in own /\ batches[d] \in own
      OBVIOUS
    <2> QED
      BY <2>7, <2>8, <2>9
  <1> QED
    BY <1>3, <1>7 DEF FloorWithinBatches, ids, worth, W, C, c

(* However many decisions and official prices a model has, in any order and *)
(* number of seconds, the tiers of downstream_pricing.go carry the newest   *)
(* decision of a variant and their expression asks for that tier first.     *)
THEOREM FeedAlwaysBillsRight == PricingSpec => []FeedBillsRight
  <1>1. PricingInv => FeedBillsRight
    BY NewestBills, OwnTierFirst DEF PricingInv, FeedBillsRight
  <1> QED
    BY <1>1, AlwaysPricingInv, PTL

(* Whatever is bought, deleted, retired or corrected, the unit cost of      *)
(* pricing_floor_suggestions.go stays between the cheapest and the dearest  *)
(* plain purchase, an eligible batch that was taken out stays out, and a    *)
(* save is judged as the suggestions judge it.                              *)
THEOREM FloorAlwaysSound == PricingSpec => []FloorSound
  <1>1. PricingInv => FloorSound
    BY JudgedAlike, FloorBetween DEF PricingInv, FloorSound
  <1> QED
    BY <1>1, AlwaysPricingInv, PTL
----------------------------------------------------------------------------
(* The parts together: each of them, seen in a behaviour of the whole,       *)
(* behaves as its own specification says.                                   *)
LEMMA PartInits == Init => KeyInit /\ BearerInit /\ RateInit /\ CatalogInit /\ PricingInit
  BY DEF Init

\* A step of the whole is a step of each part, or leaves it alone.
LEMMA PartSteps ==
  [Next]_vars => /\ [KeyNext]_keyVars /\ [BearerNext]_bearerVars /\ [RateNext]_rateVars
                 /\ [CatalogNext \/ PricesNext]_catalogVars /\ [PricingNext]_pricingVars
  <1> SUFFICES ASSUME [Next]_vars
               PROVE  /\ [KeyNext]_keyVars /\ [BearerNext]_bearerVars /\ [RateNext]_rateVars
                      /\ [CatalogNext \/ PricesNext]_catalogVars /\ [PricingNext]_pricingVars
    OBVIOUS
  <1>1. CASE BearerStep
    BY <1>1 DEF BearerStep, Of
  <1>2. CASE KeysStep
    BY <1>2 DEF KeysStep, Of, KeyNext
  <1>3. CASE GroupsStep
    BY <1>3 DEF GroupsStep, Of, KeyNext
  <1>4. CASE RateStep
    BY <1>4 DEF RateStep, Of
  <1>5. CASE CatalogStep
    BY <1>5 DEF CatalogStep, Of
  <1>6. CASE PricesStep
    BY <1>6 DEF PricesStep, Of
  <1>7. CASE FeedStep
    BY <1>7 DEF FeedStep, Of, PricingNext
  <1>8. CASE FloorStep
    BY <1>8 DEF FloorStep, Of, PricingNext
  <1>9. CASE UNCHANGED vars
    BY <1>9 DEF vars
  <1> QED
    BY <1>1, <1>2, <1>3, <1>4, <1>5, <1>6, <1>7, <1>8, <1>9 DEF Next

(* The process as a whole is an implementation of each of its parts: what   *)
(* holds of a part's specification holds of every behaviour of the server.  *)
THEOREM PartsAsSpecified == Spec => KeySpec /\ BearerSpec /\ RateSpec /\ CatalogSpec /\ PricingSpec
  <1>1. Spec => KeySpec
    BY PartInits, PartSteps, PTL DEF Spec, KeySpec
  <1>2. Spec => BearerSpec
    BY PartInits, PartSteps, PTL DEF Spec, BearerSpec
  <1>3. Spec => RateSpec
    BY PartInits, PartSteps, PTL DEF Spec, RateSpec
  <1>4. Spec => CatalogSpec
    BY PartInits, PartSteps, PTL DEF Spec, CatalogSpec
  <1>5. Spec => PricingSpec
    BY PartInits, PartSteps, PTL DEF Spec, PricingSpec
  <1> QED
    BY <1>1, <1>2, <1>3, <1>4, <1>5
----------------------------------------------------------------------------
(* The exact ranges of the rows that Types leaves wide.                     *)

\* A key has a secret from its first one on, never one that was not minted;
\* so has a rotation under way.
SecretInv ==
    /\ \A k \in Keys: /\ minted[k] <= MaxSecrets /\ keys[k].secret <= minted[k]
                      /\ keys[k].quota \in Quotas \cup {0}
                      /\ (keys[k].st = "none") = (keys[k].secret = 0)
    /\ \A t \in Rotations: rotating[t].on =>
          keys[rotating[t].k].st # "none" /\ rotating[t].secret \in 1..minted[rotating[t].k]
    /\ deleting.left \subseteq deleting.listed /\ \A k \in deleting.left: keys[k].st # "none"

\* What a step other than a mint or a rotation's swap makes of a row.
Kindred(old, new) ==
    /\ new.secret = old.secret /\ new.quota \in Quotas \cup {old.quota}
    /\ (new.st = "none") = (old.st = "none")

LEMMA SecretInit == KeyInit => SecretInv
  <1> SUFFICES ASSUME KeyInit PROVE SecretInv
    OBVIOUS
  <1> USE KeyAssumption
  <1>1. PICK quota \in Quotas:
          keys = [k \in Keys |-> [st |-> IF k \in Provisioned THEN "active" ELSE "none",
                                  secret |-> IF k \in Provisioned THEN 1 ELSE 0, used |-> 0,
                                  quota |-> IF k \in Provisioned THEN quota ELSE 0,
                                  scope |-> "none", group |-> NoGroup]]
    BY DEF KeyInit
  <1>2. \A k \in Keys: minted[k] = keys[k].secret
    BY DEF KeyInit
  <1>3. \A k \in Keys: /\ minted[k] <= MaxSecrets /\ keys[k].secret <= minted[k]
                       /\ keys[k].quota \in Quotas \cup {0}
                       /\ (keys[k].st = "none") = (keys[k].secret = 0)
    BY <1>1, <1>2
  <1> QED
    BY <1>3 DEF KeyInit, SecretInv, NoRotation, NotDeleting

\* A secret is only ever minted, and a minted one counts against MaxSecrets.
LEMMA MintedGrows ==
  ASSUME Types, SecretInv, KeyNext, NEW k \in Keys
  PROVE  minted[k] <= minted'[k] /\ minted'[k] <= MaxSecrets /\ minted[k] \in Nat /\ minted'[k] \in Nat
  <1> USE KeyAssumption
  <1>1. UNCHANGED minted \/ \E x \in Keys: Mint(x)
    BY NextCases DEF Rewrites, RevokeKey, PauseKey, ResumeKey, ResetUsage, Patch,
       SetPlaygroundScope, Rewrite, Makes, CreateKey, HandleRegister, Rotates, RotateMints,
       RotateSwaps, Deletes, HandleDelete, DeleteEnds, DeleteRevokes, DeleteSkips, GroupStep, Sends, Send,
       Advances, Authenticate, ResolveGroupFails, Generate, ResolveGroup, OnlyReq, Finishes, Finish
  <1>2. minted[k] \in Nat /\ minted[k] <= MaxSecrets
    BY DEF Types, KeysOK, SecretInv
  <1>3. ASSUME NEW x \in Keys, Mint(x)
        PROVE  minted'[k] = (IF k = x THEN minted[k] + 1 ELSE minted[k]) /\ (k = x => minted[k] < MaxSecrets)
    BY <1>3 DEF Mint, Types, KeysOK
  <1> QED
    BY <1>1, <1>2, <1>3

\* What a step makes of a row: a kindred one, that of a new key, or the one a
\* rotation's swap leaves.
Fresh(k) ==
    /\ minted'[k] = minted[k] + 1 /\ keys'[k].secret = minted'[k]
    /\ keys'[k].quota \in Quotas /\ keys'[k].st = "active"
Swapped(k) ==
    \E t \in Rotations: rotating[t].on /\ rotating[t].k = k
                        /\ keys'[k] = [keys[k] EXCEPT !.secret = rotating[t].secret]

\* Every step leaves a row in one of these three ways.
LEMMA SecretSteps ==
  ASSUME Types, SecretInv, KeyNext, NEW k \in Keys
  PROVE  Kindred(keys[k], keys'[k]) \/ Fresh(k) \/ Swapped(k)
  <1> USE KeyAssumption
  <1> DEFINE Done == Kindred(keys[k], keys'[k]) \/ Fresh(k) \/ Swapped(k)
  <1>0. \A x \in Keys: keys[x] \in KeyRows
    BY DEF Types, KeysOK
  <1>s. Kindred(keys[k], keys[k])
    BY DEF Kindred
  <1>w. ASSUME NEW x \in Keys, NEW new, Kindred(keys[x], new), Writes(x, new) PROVE Done
    BY <1>s, <1>w DEF Writes, Types, KeysOK
  <1>1. CASE Rewrites
    <2>1. PICK x \in Keys:
            \/ RevokeKey(x) \/ PauseKey(x) \/ ResumeKey(x) \/ ResetUsage(x)
            \/ \E quota \in Quotas: Patch(x, quota)
            \/ \E s \in Scopes: SetPlaygroundScope(x, s)
      BY <1>1 DEF Rewrites
    <2>2. keys[x] \in KeyRows /\ keys[x].st # "none"
      BY <1>0, <2>1 DEF RevokeKey, PauseKey, ResumeKey, ResetUsage, Patch, SetPlaygroundScope, Rewrite, Exists
    <2>3. /\ Kindred(keys[x], Revoke(keys[x])) /\ Kindred(keys[x], Pause(keys[x]))
          /\ Kindred(keys[x], Resume(keys[x])) /\ Kindred(keys[x], ResetMonthlyUsage(keys[x]))
      BY <2>2 DEF KeyRows, KeyStatuses, Kindred, Revoke, Pause, Resume, ResetMonthlyUsage
    <2>a. CASE RevokeKey(x)
      BY <1>w, <2>3, <2>a DEF RevokeKey, Rewrite
    <2>b. CASE PauseKey(x)
      BY <1>w, <2>3, <2>b DEF PauseKey, Rewrite
    <2>c. CASE ResumeKey(x)
      BY <1>w, <2>3, <2>c DEF ResumeKey, Rewrite
    <2>d. CASE ResetUsage(x)
      BY <1>w, <2>3, <2>d DEF ResetUsage, Rewrite
    <2>e. ASSUME NEW quota \in Quotas, Patch(x, quota) PROVE Done
      <3>1. Kindred(keys[x], UpdateMeta(keys[x], quota))
        BY <2>2 DEF KeyRows, Kindred, UpdateMeta
      <3> QED
        BY <1>w, <2>e, <3>1 DEF Patch, Rewrite
    <2>f. ASSUME NEW s \in Scopes, SetPlaygroundScope(x, s) PROVE Done
      <3>1. Kindred(keys[x], UpdatePlaygroundScope(keys[x], s))
        BY <2>2 DEF KeyRows, Kindred, UpdatePlaygroundScope
      <3> QED
        BY <1>w, <2>f, <3>1 DEF SetPlaygroundScope, Rewrite
    <2> QED
      BY <2>1, <2>a, <2>b, <2>c, <2>d, <2>e, <2>f
  <1>2. CASE Makes
    <2>1. ASSUME NEW x \in Keys, NEW quota \in Quotas, NEW s, NEW g, Mint(x),
                 Writes(x, NewKeyRow(minted'[x], quota, s, g))
          PROVE  Done
      <3>1. CASE x = k
        BY <2>1, <3>1 DEF Mint, Writes, NewKeyRow, Fresh, Types, KeysOK
      <3>2. CASE x # k
        BY <1>s, <2>1, <3>2 DEF Writes, Types, KeysOK
      <3> QED
        BY <3>1, <3>2
    <2> QED
      BY <1>2, <2>1 DEF Makes, CreateKey, HandleRegister
  <1>3. CASE Rotates
    <2>1. ASSUME NEW t \in Rotations, NEW x \in Keys, RotateMints(t, x) PROVE Done
      BY <1>s, <2>1 DEF RotateMints
    <2>2. ASSUME NEW t \in Rotations, RotateSwaps(t) PROVE Done
      <3>1. rotating[t].on /\ rotating[t].k \in Keys
        BY <2>2 DEF RotateSwaps, Types, RotatingOK
      <3>2. keys' = [keys EXCEPT ![rotating[t].k] = [keys[rotating[t].k] EXCEPT !.secret = rotating[t].secret]]
        BY <2>2 DEF RotateSwaps, Writes
      <3>3. CASE rotating[t].k = k
        BY <3>1, <3>2, <3>3 DEF Swapped, Types, KeysOK
      <3>4. CASE rotating[t].k # k
        BY <1>s, <3>2, <3>4 DEF Types, KeysOK
      <3> QED
        BY <3>3, <3>4
    <2> QED
      BY <1>3, <2>1, <2>2 DEF Rotates
  <1>4. CASE Deletes
    <2>1. ASSUME NEW x \in Keys, DeleteRevokes(x) PROVE Done
      <3>1. keys[x].st # "none" /\ keys[x] \in KeyRows
        BY <1>0, <2>1 DEF DeleteRevokes, SecretInv
      <3>2. Kindred(keys[x], Revoke(keys[x]))
        BY <3>1 DEF KeyRows, KeyStatuses, Kindred, Revoke
      <3> QED
        BY <1>w, <2>1, <3>2 DEF DeleteRevokes
    <2> QED
      BY <1>4, <1>s, <2>1 DEF Deletes, HandleDelete, DeleteEnds, DeleteSkips
  <1>5. CASE GroupStep \/ Sends \/ Advances
    BY <1>5, <1>s DEF GroupStep, Sends, Send, Advances, Authenticate, ResolveGroupFails, Generate, ResolveGroup, OnlyReq
  <1>6. CASE Finishes
    <2>1. PICK r \in Reqs, charge \in Charges: Finish(r, charge)
      BY <1>6 DEF Finishes
    <2>2. req[r].k \in Keys /\ keys[req[r].k] \in KeyRows
      BY <1>0, <2>1 DEF Finish, Types, ReqsOK, ReqOK
    <2>3. Kindred(keys[req[r].k], IncrementUsage(keys[req[r].k], charge))
      BY <2>2 DEF KeyRows, Kindred, IncrementUsage
    <2> QED
      BY <1>w, <2>1, <2>2, <2>3 DEF Finish
  <1> QED
    BY <1>1, <1>2, <1>3, <1>4, <1>5, <1>6, NextCases

\* Neither a mint, a swap nor a delete leaves a row without its secret.
LEMMA SecretNext == ASSUME Types, SecretInv, KeyNext PROVE SecretInv'
  <1> USE KeyAssumption
  <1>1. ASSUME NEW k \in Keys
        PROVE  /\ minted'[k] <= MaxSecrets /\ keys'[k].secret <= minted'[k]
               /\ keys'[k].quota \in Quotas \cup {0} /\ (keys'[k].st = "none") = (keys'[k].secret = 0)
    <2>1. /\ minted[k] <= minted'[k] /\ minted'[k] <= MaxSecrets /\ minted[k] \in Nat /\ minted'[k] \in Nat
      BY MintedGrows
    <2>2. /\ keys[k].secret <= minted[k] /\ keys[k].quota \in Quotas \cup {0} /\ keys[k].secret \in Nat
          /\ (keys[k].st = "none") = (keys[k].secret = 0) /\ keys[k] \in KeyRows
      BY DEF SecretInv, Types, KeysOK, KeyRows
    <2>3. CASE Kindred(keys[k], keys'[k])
      BY <2>1, <2>2, <2>3 DEF Kindred
    <2>4. CASE Fresh(k)
      BY <2>1, <2>4 DEF Fresh
    <2>5. CASE Swapped(k)
      <3>1. PICK t \in Rotations: rotating[t].on /\ rotating[t].k = k
                        /\ keys'[k] = [keys[k] EXCEPT !.secret = rotating[t].secret]
        BY <2>5 DEF Swapped
      <3>2. keys[k].st # "none" /\ rotating[t].secret \in 1..minted[k]
        BY <3>1 DEF SecretInv
      <3>3. keys'[k].secret = rotating[t].secret /\ keys'[k].quota = keys[k].quota /\ keys'[k].st = keys[k].st
        BY <2>2, <3>1 DEF KeyRows
      <3> QED
        BY <2>1, <2>2, <3>2, <3>3
    <2> QED
      BY <2>3, <2>4, <2>5, SecretSteps
  <1>2. ASSUME NEW t \in Rotations, rotating'[t].on
        PROVE  keys'[rotating'[t].k].st # "none" /\ rotating'[t].secret \in 1..minted'[rotating'[t].k]
    <2>1. CASE rotating'[t] = rotating[t]
      <3>1. rotating[t].k \in Keys /\ rotating[t].secret \in 1..minted[rotating[t].k] /\ keys[rotating[t].k].st # "none"
        BY <1>2, <2>1 DEF SecretInv, Types, RotatingOK
      <3> QED
        BY <2>1, <3>1, MintedGrows, RowSteps
    <2>2. CASE rotating'[t] # rotating[t]
      <3>1. Rotates
        BY <2>2, NextCases DEF Rewrites, RevokeKey, PauseKey, ResumeKey, ResetUsage, Patch, OnlyKeys,
           SetPlaygroundScope, Rewrite, Makes, CreateKey, HandleRegister,
           Deletes, HandleDelete, DeleteEnds, DeleteRevokes, DeleteSkips, GroupStep, Sends, Send,
           Advances, Authenticate, ResolveGroupFails, Generate, ResolveGroup, OnlyReq, Finishes, Finish
      <3>2. ~\E x \in Rotations: RotateSwaps(x)
        <4> SUFFICES ASSUME NEW x \in Rotations, RotateSwaps(x) PROVE FALSE
          OBVIOUS
        <4>1. rotating'[t] = IF t = x THEN NoRotation ELSE rotating[t]
          BY DEF RotateSwaps, Types, RotatingOK
        <4>2. ~NoRotation.on
          BY DEF NoRotation
        <4> QED
          BY <1>2, <2>2, <4>1, <4>2
      <3>3. PICK x \in Rotations, k \in Keys: RotateMints(x, k)
        BY <3>1, <3>2 DEF Rotates
      <3>4. rotating'[t] = [on |-> TRUE, k |-> k, secret |-> minted'[k]]
        BY <2>2, <3>3 DEF RotateMints, Types, RotatingOK
      <3>5. minted'[k] = minted[k] + 1 /\ keys'[k].st # "none"
        BY <3>3 DEF RotateMints, Mint, Exists, Types, KeysOK
      <3>6. minted[k] \in Nat
        BY DEF Types, KeysOK
      <3> QED
        BY <3>4, <3>5, <3>6
    <2> QED
      BY <2>1, <2>2
  <1>3. deleting'.left \subseteq deleting'.listed /\ \A k \in deleting'.left: keys'[k].st # "none"
    <2>0. deleting.left \subseteq Keys /\ PartnerKeys \subseteq Keys
      BY DEF Types, DeletingOK
    <2>1. CASE HandleDelete
      <3>1. deleting'.left = deleting'.listed /\ \A k \in deleting'.left: k \in PartnerKeys /\ keys[k].st = "active"
        BY <2>1 DEF HandleDelete, ListByCPAPartner
      <3> QED
        BY <2>0, <3>1, RowSteps
    <2>2. CASE DeleteEnds
      BY <2>2 DEF DeleteEnds, NotDeleting
    <2>3. CASE \E k \in Keys: DeleteRevokes(k) \/ DeleteSkips(k)
      <3>1. deleting'.left \subseteq deleting.left /\ deleting'.listed = deleting.listed
        BY <2>3 DEF DeleteRevokes, DeleteSkips, Types, DeletingOK
      <3> QED
        BY <2>0, <3>1, RowSteps DEF SecretInv
    <2>4. CASE UNCHANGED deleting
      BY <2>0, <2>4, RowSteps DEF SecretInv
    <2> QED
      BY <2>1, <2>2, <2>3, <2>4, DeletingFrame DEF Deletes
  <1> QED
    BY <1>1, <1>2, <1>3 DEF SecretInv

\* A group's budget is one an operator gave it, in its row and in the copy a
\* PUT has loaded; a request that was scoped has a scope.
BudgetInv ==
    /\ \A g \in Groups: groups[g].budget \in Budgets
    /\ \A e \in Editors: editing[e].on => editing[e].row.budget \in Budgets
ScopeInv == \A r \in Reqs: req[r].pc \in {"scoped", "running"} => req[r].scope # <<>>

LEMMA BudgetNext == ASSUME Types, BudgetInv, KeyNext PROVE BudgetInv'
  <1> USE GroupAssumption
  <1>0. /\ groups \in [Groups -> GroupRows] /\ editing \in [Editors -> {Closed} \cup Loaded]
        /\ \A g \in Groups: groups[g].budget \in Budgets
        /\ \A e \in Editors: editing[e].on => editing[e].row.budget \in Budgets
    BY DEF Types, GroupsOK, BudgetInv
  <1>1. CASE GroupStep
    <2>1. ASSUME NEW g \in Groups, NEW p, CreateGroup(g, p) PROVE BudgetInv'
      BY <1>0, <2>1 DEF CreateGroup, NewGroupRow, BudgetInv
    <2>2. ASSUME NEW g \in Groups, DeleteGroup(g) PROVE BudgetInv'
      BY <1>0, <2>2 DEF DeleteGroup, NoGroupRow, BudgetInv
    <2>3. ASSUME NEW e \in Editors, NEW g \in Groups, LoadGroup(e, g) PROVE BudgetInv'
      BY <1>0, <2>3 DEF LoadGroup, BudgetInv
    <2>4. ASSUME UNCHANGED <<groups, editing>> PROVE BudgetInv'
      BY <1>0, <2>4 DEF BudgetInv
    <2>5. ASSUME NEW e \in Editors, NEW b \in Budgets, NEW rt \in Strategies, UpdateGroup(e, b, rt) PROVE BudgetInv'
      <3> DEFINE g == editing[e].g
                 merged == [editing[e].row EXCEPT !.budget = b, !.route = rt]
                 new == Updated(groups[g], merged)
      <3>0. editing[e] \in Loaded
        BY <1>0, <2>5 DEF UpdateGroup, Closed
      <3>1. editing[e] \in Loaded /\ g \in Groups
        BY <3>0 DEF Loaded
      <3>2. new.budget = b
        BY <3>1 DEF Loaded, Updated
      <3>3. groups' = (IF groups[g].exists THEN [groups EXCEPT ![g] = new] ELSE groups)
            /\ editing' = [editing EXCEPT ![e] = Closed]
        BY <2>5 DEF UpdateGroup
      <3>4. \A x \in Groups: groups'[x].budget \in {groups[x].budget, b}
        <4> HIDE DEF new, g
        <4> QED
          BY <1>0, <3>1, <3>2, <3>3
      <3>5. \A x \in Editors: editing'[x] = Closed \/ editing'[x] = editing[x]
        BY <1>0, <3>3
      <3> QED
        BY <1>0, <3>4, <3>5 DEF BudgetInv, Closed
    <2> QED
      BY <1>1, <2>1, <2>2, <2>3, <2>4, <2>5 DEF GroupStep, GroupAdmin, GroupSave, AddMember, RemoveMember,
         BindAPIKey, UnbindAPIKey
  <1>2. CASE Finishes
    <2>1. PICK r \in Reqs, charge \in Charges: Finish(r, charge)
      BY <1>2 DEF Finishes
    <2>2. editing' = editing
      BY <2>1 DEF Finish
    <2>3. groups' = groups \/ \E g: groups' = [groups EXCEPT ![g].used = @ + charge]
      BY <2>1 DEF Finish, IncrementUsed
    <2>4. \A x \in Groups: groups'[x].budget = groups[x].budget
      BY <1>0, <2>3 DEF GroupRows
    <2> QED
      BY <1>0, <2>2, <2>4 DEF BudgetInv
  <1>3. CASE ~GroupStep /\ ~Finishes
    BY <1>3, GroupsFrame DEF BudgetInv
  <1> QED
    BY <1>1, <1>2, <1>3

LEMMA ScopeNext == ASSUME Types, ScopeInv, KeyNext PROVE ScopeInv'
  <1> SUFFICES ASSUME NEW r \in Reqs, req'[r].pc \in {"scoped", "running"} PROVE req'[r].scope # <<>>
    BY DEF ScopeInv
  <1>0. DOMAIN req = Reqs /\ ReqOK(req[r]) /\ (req[r].pc \in {"scoped", "running"} => req[r].scope # <<>>)
    BY DEF Types, ReqsOK, ScopeInv
  <1>1. CASE req'[r] = req[r]
    BY <1>0, <1>1
  <1>2. ASSUME NEW x \in Reqs, NEW n, Moves(x, n), req'[r] # req[r] PROVE x = r /\ req'[r] = n
    BY <1>0, <1>2 DEF Moves
  <1>3. ASSUME NEW x \in Reqs, Refused(x), req'[r] # req[r] PROVE FALSE
    BY <1>2, <1>3, IdleReq DEF Refused
  <1>4. CASE Sends /\ req'[r] # req[r]
    <2>1. PICK x \in Reqs, kind \in Kinds, k \in Keys, s \in 1..MaxSecrets, c \in BOOLEAN: Send(x, kind, k, s, c)
      BY <1>4 DEF Sends
    <2>2. req'[r] = SentRec(kind, k, s, c)
      BY <1>2, <1>4, <2>1 DEF Send, SentRec
    <2> QED
      BY <2>2 DEF SentRec, NoReq
  <1>5. CASE Advances /\ req'[r] # req[r]
    <2>1. ASSUME NEW x \in Reqs, Authenticate(x) PROVE FALSE
      <3>1. req'[r] = KnownRec(req[r], Snapshot(keys[req[r].k]))
        BY <1>2, <1>3, <1>5, <2>1 DEF Authenticate, KnownRec
      <3> QED
        BY <1>0, <3>1 DEF KnownRec, ReqOK, ReqRecs
    <2>2. ASSUME NEW x \in Reqs, NEW g, ResolveGroup(x, g) PROVE req'[r].scope # <<>>
      <3>1. req'[r] = ScopedRec(req[r], g # NoGroup, Scope(req[r], g, ListGroupsForAPIKey(req[r].k)))
        BY <1>2, <1>5, <2>2 DEF ResolveGroup, ScopedRec
      <3> QED
        BY <1>0, <3>1 DEF ScopedRec, Scope, ReqOK, ReqRecs
    <2>3. ASSUME NEW x \in Reqs, ResolveGroupFails(x) PROVE req'[r].scope # <<>>
      <3>1. req'[r] = ScopedRec(req[r], TRUE, Scope(req[r], NoGroup, <<>>))
        BY <1>2, <1>5, <2>3 DEF ResolveGroupFails, ScopedRec
      <3> QED
        BY <1>0, <3>1 DEF ScopedRec, Scope, ReqOK, ReqRecs
    <2>4. ASSUME NEW x \in Reqs, Generate(x) PROVE req'[r].scope # <<>>
      <3>1. req[r].pc = "scoped" /\ req'[r] = RunningRec(req[r])
        BY <1>2, <1>3, <1>5, <2>4 DEF Generate, RunningRec
      <3> QED
        BY <1>0, <3>1 DEF RunningRec, ReqOK, ReqRecs
    <2> QED
      BY <1>5, <2>1, <2>2, <2>3, <2>4 DEF Advances
  <1>6. CASE Finishes /\ req'[r] # req[r]
    BY <1>3, <1>6 DEF Finishes, Finish
  <1> QED
    BY <1>1, <1>4, <1>5, <1>6, ReqsFrame

\* No bucket holds more than the burst, or less than nothing; -1 marks none.
TokensInv == \A c \in Callers: buckets[c].tokens \in -1..Burst

LEMMA TokensNext == ASSUME RateTypes, TokensInv, RateNext PROVE TokensInv'
  <1> USE RateAssumption
  <1>1. CASE RateTick \/ \E a \in Arrivals, c \in Callers: Arrive(a, c)
    BY <1>1 DEF RateTick, Arrive, TokensInv
  <1>2. ASSUME NEW a \in Arrivals, Allow(a) PROVE TokensInv'
    <2> DEFINE c == waiting[a].caller
               n == waiting[a].now
               kept == Evict(c, n)
               b == Refilled(kept[c], n)
               new == IF b.tokens >= 1 THEN [b EXCEPT !.tokens = @ - 1] ELSE b
               BT == [tokens: Int, last: Int, lastSeen: Int]
    <2>1. c \in Callers /\ n \in Int /\ buckets \in [Callers -> BT]
      BY DEF RateTypes
    <2>2. buckets' = [kept EXCEPT ![c] = new]
      BY <1>2 DEF Allow
    <2>3. kept \in [Callers -> BT] /\ kept[c] = buckets[c] /\ \A d \in Callers: kept[d].tokens \in -1..Burst
      BY <2>1 DEF Evict, NoBucket, TokensInv
    <2>4. b \in BT /\ b.tokens \in 0..Burst
      <3> DEFINE o == kept[c]
                 d == n - o.last
      <3>1. o \in BT /\ o.tokens \in -1..Burst /\ o.last \in Int /\ o.lastSeen \in Int
        BY <2>1, <2>3
      <3>2. d \in Int /\ (n > o.last => d > 0)
        BY <2>1, <3>1
      <3> HIDE DEF o
      <3>3. CASE o.tokens < 0
        BY <2>1, <3>1, <3>3 DEF Refilled, o
      <3>4. CASE o.tokens >= 0 /\ ~(n > o.last)
        BY <2>1, <3>1, <3>4 DEF Refilled, o
      <3>5. CASE o.tokens >= 0 /\ n > o.last
        <4>1. b = [tokens |-> Least(o.tokens + RPS * d, Burst), last |-> n, lastSeen |-> n]
          BY <3>5, <3>1 DEF Refilled, o
        <4> HIDE DEF d, b
        <4>2. RPS * d \in Int /\ RPS * 0 <= RPS * d
          BY <3>2, <3>5, Multiples
        <4>3. Least(o.tokens + RPS * d, Burst) \in 0..Burst
          BY <3>1, <3>5, <4>2 DEF Least
        <4> QED
          BY <2>1, <4>1, <4>3
      <3> QED
        BY <3>1, <3>3, <3>4, <3>5
    <2>5. new.tokens \in -1..Burst
      <3> HIDE DEF b
      <3> QED
        BY <2>4
    <2> HIDE DEF new, kept
    <2> QED
      BY <2>1, <2>2, <2>3, <2>5 DEF TokensInv
  <1> QED
    BY <1>1, <1>2 DEF RateNext
----------------------------------------------------------------------------
(* The whole: its parts' invariants, and the ranges.                        *)
RangesInv == SecretInv /\ BudgetInv /\ ScopeInv
KeyInv == Inv /\ RangesInv

LEMMA KeyInvInit == KeyInit => KeyInv
  <1> SUFFICES ASSUME KeyInit PROVE KeyInv
    OBVIOUS
  <1>1. BudgetInv /\ ScopeInv
    BY GroupAssumption DEF KeyInit, GroupInit, BudgetInv, ScopeInv, NewGroupRow, Closed, NoReq
  <1> QED
    BY <1>1, InvInit, SecretInit DEF KeyInv, RangesInv

LEMMA KeyInvNext == KeyInv /\ [KeyNext]_keyVars => KeyInv'
  <1> SUFFICES ASSUME KeyInv, [KeyNext]_keyVars PROVE KeyInv'
    OBVIOUS
  <1>1. Inv' /\ Types
    BY InvNext DEF KeyInv, Inv
  <1>2. CASE KeyNext
    BY <1>1, <1>2, SecretNext, BudgetNext, ScopeNext DEF KeyInv, RangesInv
  <1>3. CASE UNCHANGED keyVars
    BY <1>1, <1>3 DEF KeyInv, RangesInv, keyVars, groupVars, SecretInv, BudgetInv, ScopeInv
  <1> QED
    BY <1>2, <1>3

BucketsInv == RateInv /\ TokensInv
LEMMA BucketsInvInit == RateInit => BucketsInv
  BY RateInvInit, RateAssumption DEF BucketsInv, RateInit, TokensInv, NoBucket
LEMMA BucketsInvNext == BucketsInv /\ [RateNext]_rateVars => BucketsInv'
  <1> SUFFICES ASSUME BucketsInv, [RateNext]_rateVars PROVE BucketsInv'
    OBVIOUS
  <1>1. CASE RateNext
    BY <1>1, RateInvNext, TokensNext DEF BucketsInv, RateInv
  <1>2. CASE UNCHANGED rateVars
    BY <1>2, RateInvNext DEF BucketsInv, rateVars, TokensInv
  <1> QED
    BY <1>1, <1>2

\* The invariants of the parts give the ranges of the rows.
LEMMA RangesOK ==
  ASSUME KeyInv, BearerInv, BucketsInv, CatalogInv, PricingInv
  PROVE  AccessTypeOK
  <1> USE KeyAssumption
  <1>1. keys \in [Keys -> [st: KeyStatuses, secret: 0..MaxSecrets, used: Nat, quota: Quotas \cup {0},
                           scope: Scopes, group: Groups \cup {NoGroup}]]
        /\ minted \in [Keys -> 0..MaxSecrets]
    <2> DEFINE ExactRows == [st: KeyStatuses, secret: 0..MaxSecrets, used: Nat, quota: Quotas \cup {0},
                             scope: Scopes, group: Groups \cup {NoGroup}]
    <2>1. keys \in [Keys -> KeyRows] /\ minted \in [Keys -> Nat]
      BY DEF KeyInv, Inv, Types, KeysOK
    <2>2. \A k \in Keys: minted[k] <= MaxSecrets /\ keys[k].secret <= minted[k] /\ keys[k].quota \in Quotas \cup {0}
      BY DEF KeyInv, RangesInv, SecretInv
    <2>3. ASSUME NEW k \in Keys PROVE keys[k] \in ExactRows /\ minted[k] \in 0..MaxSecrets
      <3>1. keys[k] \in KeyRows /\ keys[k].secret \in Nat /\ minted[k] \in Nat
        BY <2>1 DEF KeyRows
      <3>2. keys[k].secret \in 0..MaxSecrets /\ minted[k] \in 0..MaxSecrets
        BY <2>2, <3>1
      <3> QED
        BY <2>2, <3>1, <3>2 DEF KeyRows
    <2> QED
      BY <2>1, <2>3
  <1>2. /\ \A k \in Keys: (keys[k].st = "none") = (keys[k].secret = 0)
        /\ deleting.left \subseteq deleting.listed /\ barred \subseteq PartnerKeys
    BY DEF KeyInv, RangesInv, SecretInv, Inv, Types, DeletingOK
  <1>3. /\ \A r \in Reqs: req[r].pc \in {"idle", "sent", "known", "scoped", "running"}
        /\ \A r \in Reqs: req[r].pc \in {"scoped", "running"} => req[r].scope # <<>>
    BY DEF KeyInv, RangesInv, ScopeInv, Inv, Types, ReqsOK, ReqOK, ReqRecs, PCs
  <1>4. /\ groups \in [Groups -> [exists: BOOLEAN, budget: Budgets, route: Strategies, used: Nat]]
        /\ members \subseteq Accounts \X Groups /\ bindings \subseteq Keys \X Groups
    BY DEF KeyInv, RangesInv, BudgetInv, Inv, Types, GroupsOK, GroupRows
  <1>5. current \in Bearers /\ stored \in Bearers \cup {Absent} /\ previous \in Bearers \cup {Absent}
    BY DEF BearerInv, BearerTypes
  <1>6. \A c \in Callers: buckets[c].tokens \in -1..Burst
    BY DEF BucketsInv, TokensInv
  <1>7. /\ {catalog, disk} \subseteq DOMAIN Files /\ dynamicCosts \in {0} \cup DOMAIN Tariffs
        /\ DOMAIN table = Names /\ DOMAIN overrides = Names
        /\ \A h \in Handlers: handler[h].pc \in {"idle", "upsert", "read", "swap", "list", "store"}
    BY DEF CatalogInv, RegistryInv, RegistryTypes, FilesInv, HandlerOK, HandlerPCs, PriceInv, PriceTypes
  <1>8. held <= writes /\ loaded \subseteq DOMAIN Files
    BY DEF CatalogInv, RegistryInv, RegistryTypes, FilesInv
  <1>9. /\ \A i, j \in DOMAIN decisions: i < j => decisions[i].at <= decisions[j].at
        /\ post.d \in 0..Len(decisions) /\ (post.pc = "idle") = (post.d = 0)
    BY DEF PricingInv, DecisionTypes
  <1>10. stale \subseteq out /\ \A b \in BatchIds: batches[b] = NoBatch \/ batches[b].paid > 0
    BY DEF PricingInv, BatchTypes, Rows, BatchRows
  <1> QED
    BY <1>1, <1>2, <1>3, <1>4, <1>5, <1>6, <1>7, <1>8, <1>9, <1>10 DEF AccessTypeOK

(* Through reloads that overlap, fail or are cut off by a boot, the         *)
(* registry serves the overrides as of some write, never of one older than  *)
(* a lone reload has read; the list shows what a request gets, merged in    *)
(* another place; and the gate asks for that, and for the locks of the      *)
(* files loaded since the boot, and for nothing else.  Every row of every   *)
(* part stays in its range.                                                 *)
THEOREM AlwaysServedAsStored == Spec => []ServedAsStored
  <1>1. KeySpec => []KeyInv
    BY KeyInvInit, KeyInvNext, PTL DEF KeySpec
  <1>2. BearerSpec => []BearerInv
    BY BearerInvInit, BearerInvNext, PTL DEF BearerSpec
  <1>3. RateSpec => []BucketsInv
    BY BucketsInvInit, BucketsInvNext, PTL DEF RateSpec
  <1>4. KeyInv /\ BearerInv /\ BucketsInv /\ CatalogInv /\ PricingInv => ServedAsStored
    BY RangesOK, ServedInv DEF ServedAsStored, GateExplained, ListMatchesResolve
  <1> QED
    BY <1>1, <1>2, <1>3, <1>4, PartsAsSpecified, AlwaysCatalogInv, AlwaysPricingInv, PTL

(* Each property of a part holds of the whole: the properties the model     *)
(* checker looks at on one instance of Access, for every instance.          *)
THEOREM PartsKeepTheirWord ==
  Spec => [](AdmittedAtAnInstant /\ OverspendBounded /\ ConfinementExplained /\ GroupSpendKept
             /\ RotationSafe /\ RateBounded /\ PricesOnRecord /\ FeedBillsRight /\ FloorSound)
  BY PartsAsSpecified, AlwaysAdmittedAtAnInstant, OverspendAlwaysBounded, AlwaysConfinementExplained,
     SpendNeverLost, RotationAlwaysSafe, RateAlwaysBounded, PricesAlwaysOnRecord, FeedAlwaysBillsRight,
     FloorAlwaysSound, PTL
=============================================================================

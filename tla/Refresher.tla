----------------------------- MODULE Refresher -----------------------------
(* internal/core/refresher over the accounts table: one account, refreshed *)
(* by the ticker and by POST /admin/tickers/refresher, whose passes may    *)
(* overlap.  What upstream reports is numbered: a column holds the number  *)
(* of the report it was written from.                                      *)
EXTENDS UpstreamReplies, Activations, TLC

CONSTANTS
    Refreshers,      \* the ticker and the admin trigger
    FailLimitR,      \* failures in a row that disable an account
    MaxStreak,       \* bound
    Reports          \* upstream's successive reports: notice and activations

ASSUME RefreshAssumption ==
    /\ IsFiniteSet(Refreshers) /\ FailLimitR \in Nat \ {0} /\ MaxStreak \in Nat
    /\ Len(Reports) \in Nat \ {0} /\ DOMAIN Reports = 1..Len(Reports)

Columns == {"balance", "total_plan_credits", "entitlements", "free_quota", "upstream_status"}
Versions == DOMAIN Reports
NothingRead == [wallet |-> 0, user |-> 0, acts |-> 0, struck |-> FALSE]

VARIABLES
    version,     \* the report upstream gives now (external)
    streak,      \* fail_streak
    deciding,    \* pass -> it got a streak at the limit and has yet to act: on enough grounds?
    columns,     \* column -> report it was written from
    unlim,       \* account_unlim_activations, and the report of the last replace
    grace,       \* grace_status, the report it stands for and whether its read was cut
    rpc,         \* where each pass is
    read,        \* pass -> call -> report it read
    crossed,     \* passes that ran while another one did (history)
    grounds      \* what raised the streak since the last success: two for each pass with a
                 \* counted failure, one for anything else (history)

standing == <<streak, deciding, grounds>>
refreshVars == <<version, standing, columns, unlim, grace, rpc, read, crossed>>

\* The account was refreshed before.
RefreshInit ==
    /\ version = 1
    /\ streak = 0 /\ deciding = [p \in Refreshers |-> "none"]
    /\ columns = [c \in Columns |-> 1]
    /\ unlim = [rows |-> Flatten(Reports[1].acts), from |-> 1]
    /\ grace = [token |-> NormalizeNoticeStatus(Reports[1].notice), from |-> 1, cut |-> FALSE]
    /\ rpc = [p \in Refreshers |-> "idle"]
    /\ read = [p \in Refreshers |-> NothingRead]
    /\ crossed = {}
    /\ grounds = 0

\* What upstream reports changes. (external)
ReportChanges ==
    /\ version + 1 \in Versions
    /\ version' = version + 1
    /\ UNCHANGED <<standing, columns, unlim, grace, rpc, read, crossed>>
----------------------------------------------------------------------------
(* The account's standing, as far as the refresher's failures bear on it.  *)
(* Failover has the rest: the status may be any at any time.               *)

Verdict(why) == IF why >= FailLimitR THEN "founded" ELSE "hasty"

\* RecordFailure, up to its decision: IncrFailStreak returns what it wrote, and who got the
\* limit or more goes on to the outage guard.
Strike(p, why) ==
    /\ streak < MaxStreak
    /\ streak' = streak + 1 /\ grounds' = grounds + why
    /\ deciding' = IF streak' >= FailLimitR THEN [deciding EXCEPT ![p] = Verdict(grounds')]
                   ELSE deciding

\* RecordFailure goes on: the row is disabled, which raises the streak once more, whatever
\* happened to it meanwhile; or the guard is tripped or the write fails.
Decides(p) ==
    /\ deciding[p] # "none"
    /\ deciding' = [deciding EXCEPT ![p] = "none"]
    /\ \/ streak' = streak + 1 /\ grounds' = grounds + 1
       \/ UNCHANGED <<streak, grounds>>
    /\ UNCHANGED <<version, columns, unlim, grace, rpc, read, crossed>>

\* Others raise the streak: a job's create or poll that failed with an error that counts, and
\* every MarkStatus with a status other than active.
OthersRaise ==
    /\ streak < MaxStreak
    /\ streak' = streak + 1 /\ grounds' = grounds + 1
    /\ UNCHANGED <<version, deciding, columns, unlim, grace, rpc, read, crossed>>

\* A job of the account succeeds.
RecordSuccess ==
    /\ streak > 0
    /\ streak' = 0 /\ grounds' = 0
    /\ read' = [p \in Refreshers |-> [read[p] EXCEPT !.struck = FALSE]]
    /\ UNCHANGED <<version, deciding, columns, unlim, grace, rpc, crossed>>
----------------------------------------------------------------------------
(* refreshOne *)

Goes(p, to) == rpc' = [rpc EXCEPT ![p] = to]
Ends(p) == Goes(p, "idle") /\ read' = [read EXCEPT ![p] = NothingRead]
Running == {p \in Refreshers: rpc[p] # "idle"}

\* Mutant: the first wallet is kept and written again.
StartRefreshKeepsWallet(p) ==
    /\ rpc[p] = "idle"
    /\ Goes(p, "balance")
    /\ read' = [read EXCEPT ![p].wallet = 1]
    /\ crossed' = IF Running = {} THEN crossed \ {p} ELSE crossed \cup Running \cup {p}
    /\ UNCHANGED <<version, standing, columns, unlim, grace>>

\* tick: the account is listed, as active.
StartRefresh(p) ==
    /\ rpc[p] = "idle"
    /\ Goes(p, "wallet")
    /\ crossed' = IF Running = {} THEN crossed \ {p} ELSE crossed \cup Running \cup {p}
    /\ UNCHANGED <<version, standing, columns, unlim, grace, read>>

FetchWalletR(p) ==
    /\ rpc[p] = "wallet"
    /\ read' = [read EXCEPT ![p].wallet = version]
    /\ Goes(p, "balance")
    /\ UNCHANGED <<version, standing, columns, unlim, grace, crossed>>

\* A failed fetch of the wallet or the user feeds failover, which counts it or does not
\* (Classify); without the user the pass is over.
AfterFailure(p, counted) ==
    \/ rpc[p] = "wallet" /\ Goes(p, "user") /\ read' = [read EXCEPT ![p].struck = counted]
    \/ rpc[p] = "user" /\ Ends(p)
FetchFailsR(p) ==
    /\ AfterFailure(p, TRUE)
    /\ Strike(p, IF read[p].struck THEN 0 ELSE 2)
    /\ UNCHANGED <<version, columns, unlim, grace, crossed>>
FetchIgnored(p) ==
    /\ AfterFailure(p, FALSE)
    /\ UNCHANGED <<version, standing, columns, unlim, grace, crossed>>

\* UpdateBalance writes total_plan_credits too.
WriteBalance(p) ==
    /\ rpc[p] = "balance"
    /\ columns' = [columns EXCEPT !["balance"] = read[p].wallet,
                                  !["total_plan_credits"] = read[p].wallet]
    /\ read' = [read EXCEPT ![p].wallet = 0]
    /\ Goes(p, "user")
    /\ UNCHANGED <<version, standing, unlim, grace, crossed>>

FetchUserR(p) ==
    /\ rpc[p] = "user"
    /\ read' = [read EXCEPT ![p].user = version]
    /\ Goes(p, "entitlements")
    /\ UNCHANGED <<version, standing, columns, unlim, grace, crossed>>

WriteEntitlements(p) ==
    /\ rpc[p] = "entitlements"
    /\ columns' = [columns EXCEPT !["entitlements"] = read[p].user,
                                  !["total_plan_credits"] = read[p].user]
    /\ Goes(p, "quota")
    /\ UNCHANGED <<version, standing, unlim, grace, read, crossed>>

\* A failed write: UpdateEntitlements ends the pass, the others are passed over.
WriteFails(p) ==
    LET next == [balance |-> "user", quota |-> "acts", replace |-> "status", status |-> "notice"]
    IN
    /\ \/ rpc[p] \in DOMAIN next /\ Goes(p, next[rpc[p]]) /\ UNCHANGED read
       \/ rpc[p] = "entitlements" /\ Ends(p)
    /\ UNCHANGED <<version, standing, columns, unlim, grace, crossed>>

\* FetchFreeGensV2 and UpdateFreeQuota: read or not, the counters of the user
\* snapshot are written, overlaid with what it says; a failed read is no
\* failure of the account.
WriteQuota(p) ==
    /\ rpc[p] = "quota"
    /\ columns' = [columns EXCEPT !["free_quota"] = read[p].user]
    /\ Goes(p, "acts")
    /\ UNCHANGED <<version, standing, unlim, grace, read, crossed>>

FetchActsR(p) ==
    /\ rpc[p] = "acts"
    /\ \/ read' = [read EXCEPT ![p].acts = version] /\ Goes(p, "replace")
       \/ UNCHANGED read /\ Goes(p, "status")
    /\ UNCHANGED <<version, standing, columns, unlim, grace, crossed>>

\* Mutant: the rows before the one that collides stay.
ReplacePartly(rows) ==
    IF DistinctKeys(rows) THEN rows
    ELSE SubSeq(rows, 1, Max({n \in 0..Len(rows): DistinctKeys(SubSeq(rows, 1, n))}))

\* ReplaceUnlimActivations in one transaction: two rows of one key roll it back.
Replaced(rows) == IF DistinctKeys(rows) THEN rows ELSE unlim.rows

WriteActs(p) == LET rows == Flatten(Reports[read[p].acts].acts) IN
    /\ rpc[p] = "replace"
    /\ unlim' = [rows |-> Replaced(rows),
                 from |-> IF DistinctKeys(rows) THEN read[p].acts ELSE unlim.from]
    /\ read' = [read EXCEPT ![p].acts = 0]
    /\ Goes(p, "status")
    /\ UNCHANGED <<version, standing, columns, grace, crossed>>

WriteStatus(p) ==
    /\ rpc[p] = "status"
    /\ columns' = [columns EXCEPT !["upstream_status"] = read[p].user]
    /\ Goes(p, "notice")
    /\ UNCHANGED <<version, standing, unlim, grace, read, crossed>>

Token(answer, notice) == IF answer = "value" THEN NormalizeNoticeStatus(notice) ELSE ""

\* FetchWorkspaceNotice and UpdateGraceStatus, which only an answer reaches; a
\* body cut to nothing is one.
WriteNotice(p) ==
    /\ rpc[p] = "notice"
    /\ \E st \in {200, 500}, seen \in ReadBody("full", TRUE):
          LET answer == FetchWorkspaceNotice(st, seen) IN
          grace' = IF answer \in {"error", "unauthorized"} THEN grace
                   ELSE [token |-> Token(answer, Reports[version].notice), from |-> version,
                         cut |-> seen = "empty"]
    /\ Ends(p)
    /\ UNCHANGED <<version, standing, columns, unlim, crossed>>

RefreshNext ==
    \/ ReportChanges \/ OthersRaise \/ RecordSuccess
    \/ \E p \in Refreshers: Decides(p)
    \/ \E p \in Refreshers: deciding[p] = "none" /\
          \/ StartRefresh(p) \/ FetchWalletR(p) \/ FetchFailsR(p) \/ FetchIgnored(p)
          \/ WriteBalance(p) \/ FetchUserR(p) \/ WriteEntitlements(p) \/ WriteFails(p)
          \/ WriteQuota(p) \/ FetchActsR(p) \/ WriteActs(p) \/ WriteStatus(p) \/ WriteNotice(p)

\* refresher.go:166 "a chain of consecutive wallet-fetch failures": good passes do not break
\* the chain, a dead session counts twice a pass, and failed jobs and other writers of the
\* status lengthen it.  Still no pass sets out to disable an account without as many
\* failures since its last success, two to a pass, as the limit asks for.
StrikesExplained ==
    /\ streak <= grounds
    /\ \A p \in Refreshers: deciding[p] # "hasty"

\* Passes that do not overlap only bring columns forward.
ColumnsAdvance ==
    [][\A p \in Refreshers \ crossed: rpc[p] # "idle" /\ rpc'[p] # rpc[p] =>
          \A c \in Columns: columns'[c] >= columns[c]]_refreshVars

\* account_store.go:843 "either the old set or the new set, never a partial
\* merge": the rows are those of one report, whatever fails or overlaps.
UnlimSetWhole ==
    unlim.rows = Flatten(Reports[unlim.from].acts)

\* refresher.go:294 "leaves the prior value intact rather than blanking it":
\* the token is what some report said, unless the body was cut to nothing.
GraceExplained ==
    \/ grace.cut /\ grace.token = ""
    \/ grace.token = NormalizeNoticeStatus(Reports[grace.from].notice)
=============================================================================

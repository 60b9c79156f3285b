-------------------------- MODULE UpstreamReplies --------------------------
(* What internal/core/upstream/client.go makes of one HTTP reply, endpoint *)
(* by endpoint.  A reply is a status and what its body holds: "full" (a    *)
(* complete document), "bare" (a complete document with nothing in it,     *)
(* {} or an empty list) or "empty" (no bytes).                             *)
(*                                                                         *)
(* doWithRetry cancels its per-endpoint deadline as it returns (line 802), *)
(* before the caller reads the body, and every caller drops the read       *)
(* error: when a deadline is configured, a body that was not buffered yet  *)
(* is read as nothing ("empty") or as a fragment ("broken").               *)
EXTENDS Naturals, FiniteSets

Statuses == {200, 201, 204, 400, 401, 403, 404, 409, 422, 429, 500}
Bodies == {"full", "bare", "empty"}
Is2xx(st) == st \div 100 = 2

\* What io.ReadAll can return for a body, with and without a deadline.
ReadBody(body, timed) ==
    IF timed /\ body # "empty" THEN {body, "empty", "broken"} ELSE {body}

----------------------------------------------------------------------------
(* Calls that change something upstream *)

CreateJob(st, seen) ==
    CASE st = 200 -> IF seen = "full" THEN "ok" ELSE "unparsed"
      [] st = 401 -> "unauthorized"
      [] st = 403 -> "forbidden"
      [] st = 429 -> "rate_limit"
      [] st = 422 -> "bad_body"
      [] st >= 500 -> "server_error"
      [] OTHER -> "unexpected"

ClaimGift(st, seen) ==
    CASE Is2xx(st) -> "ok"
      [] st = 400 -> "already_claimed"
      [] st = 409 -> "active_subscription"
      [] st = 401 -> "unauthorized"
      [] OTHER -> "error"

ClaimUnlimActivation(st, seen) ==
    CASE st = 401 -> "unauthorized" [] Is2xx(st) -> "ok" [] OTHER -> "error"

\* A missing top-up (404) counts as retried.
RetryAutoTopUp(st, seen) ==
    CASE Is2xx(st) \/ st = 404 -> "ok" [] st = 401 -> "unauthorized" [] OTHER -> "error"

\* The two authorised steps of UploadImage; a 401 loses its type here.
MediaReserve(st, seen) ==
    IF Is2xx(st) /\ seen = "full" THEN "ok" ELSE "media_reserve_failed"
MediaCommit(st, seen) == IF Is2xx(st) THEN "ok" ELSE "media_commit_failed"

----------------------------------------------------------------------------
(* Reads.  `whenBare` is the answer to a document with nothing in it. *)

Fetch(st, seen, whenBare) ==
    CASE st = 401 -> "unauthorized"
      [] st # 200 -> "error"
      [] seen \in {"empty", "broken"} -> "error"
      [] seen = "bare" -> whenBare
      [] OTHER -> "value"

Absent(st, statuses, answer) == IF st \in statuses THEN "absent" ELSE answer

FetchStatus(st, seen) == Fetch(st, seen, "value")
FetchJob(st, seen) == Fetch(st, seen, "value")
FetchUser(st, seen) == Fetch(st, seen, "value")
FetchWallet(st, seen) == Fetch(st, seen, "value")
FetchFreeGensV2(st, seen) == Absent(st, {404}, Fetch(st, seen, "absent"))
FetchUnlimActivations(st, seen) == Fetch(st, seen, "absent")
FetchGifts(st, seen) == Fetch(st, seen, "absent")
FetchPendingInvoices(st, seen) == Absent(st, {404}, Fetch(st, seen, "absent"))
FetchJobSetCostCatalog(st, seen) == Fetch(st, seen, "absent")
FetchPersonalPromo(st, seen) == Absent(st, {404}, Fetch(st, seen, "absent"))

\* These four take zero bytes for an answer.
NoBytes(st, seen, answer, otherwise) ==
    IF st = 200 /\ seen = "empty" THEN answer ELSE otherwise
FetchWorkspaceNotice(st, seen) ==
    NoBytes(st, seen, "absent", Absent(st, {404}, Fetch(st, seen, "absent")))
FetchCashbackChallenge(st, seen) ==
    NoBytes(st, seen, "absent", Absent(st, {404}, Fetch(st, seen, "absent")))
FetchTwoDayOffer(st, seen) ==
    NoBytes(st, seen, "absent", Absent(st, {404, 204}, Fetch(st, seen, "absent")))
FetchCreditLedgerStatistics(st, seen) ==
    NoBytes(st, seen, "zero", Fetch(st, seen, "zero"))

\* NormalizeNoticeStatus: only notices about payment become a grace token.
NormalizeNoticeStatus(raw) ==
    CASE raw = "add_card_grace_notice" -> "grace"
      [] raw = "enforcement-notice" -> "enforcement"
      [] raw = "access-lose-notice" -> "access_lose"
      [] raw = "card-decline-credit-offer" -> "card_declined"
      [] raw = "add_backup_card_notice" -> "backup_card"
      [] OTHER -> ""

Endpoints ==
    {"create_job", "claim_gift", "claim_unlim", "retry_auto_top_up", "media_reserve",
     "media_commit", "fetch_status", "fetch_job", "fetch_user", "fetch_wallet",
     "fetch_free_gens_v2", "fetch_unlim_activations", "fetch_gifts",
     "fetch_pending_invoices", "fetch_job_set_costs", "fetch_personal_promo",
     "fetch_notice", "fetch_cashback_challenge", "fetch_two_day_offer",
     "fetch_credit_ledger_statistics"}

Answer(ep, st, seen) ==
    CASE ep = "create_job" -> CreateJob(st, seen)
      [] ep = "claim_gift" -> ClaimGift(st, seen)
      [] ep = "claim_unlim" -> ClaimUnlimActivation(st, seen)
      [] ep = "retry_auto_top_up" -> RetryAutoTopUp(st, seen)
      [] ep = "media_reserve" -> MediaReserve(st, seen)
      [] ep = "media_commit" -> MediaCommit(st, seen)
      [] ep = "fetch_status" -> FetchStatus(st, seen)
      [] ep = "fetch_job" -> FetchJob(st, seen)
      [] ep = "fetch_user" -> FetchUser(st, seen)
      [] ep = "fetch_wallet" -> FetchWallet(st, seen)
      [] ep = "fetch_free_gens_v2" -> FetchFreeGensV2(st, seen)
      [] ep = "fetch_unlim_activations" -> FetchUnlimActivations(st, seen)
      [] ep = "fetch_gifts" -> FetchGifts(st, seen)
      [] ep = "fetch_pending_invoices" -> FetchPendingInvoices(st, seen)
      [] ep = "fetch_job_set_costs" -> FetchJobSetCostCatalog(st, seen)
      [] ep = "fetch_personal_promo" -> FetchPersonalPromo(st, seen)
      [] ep = "fetch_notice" -> FetchWorkspaceNotice(st, seen)
      [] ep = "fetch_cashback_challenge" -> FetchCashbackChallenge(st, seen)
      [] ep = "fetch_two_day_offer" -> FetchTwoDayOffer(st, seen)
      [] ep = "fetch_credit_ledger_statistics" -> FetchCreditLedgerStatistics(st, seen)
=============================================================================

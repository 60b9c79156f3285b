---------------------------- MODULE UpkeepProofs ----------------------------
(* What the background goroutines guarantee for any accounts, deals,        *)
(* spenders, windows, months, reports, signals and restarts.                *)
EXTENDS Upkeep, FiniteSetTheorems, TLAPS

(* Logs of times: what the watchers' histories have in common. *)

Log(L, t) ==
    /\ L \in Seq(Nat) /\ \A i \in 1..Len(L): L[i] <= t
    /\ \A i, j \in 1..Len(L): i <= j => L[i] <= L[j]
\* Any `most` entries and the one after them span W.
Gaps(L, most, W) == \A i, j \in 1..Len(L): j = i + most => L[j] - L[i] >= W
\* At most b of the entries are younger than W.
Recent(L, t, W, b) == \A i \in 1..Len(L): t - L[i] < W => Len(L) - i + 1 <= b

LEMMA LogLater == ASSUME NEW L, NEW t \in Nat, NEW u \in Nat, t <= u, Log(L, t) PROVE Log(L, u)
  BY DEF Log

LEMMA Appended ==
  ASSUME NEW L \in Seq(Nat), NEW t \in Nat
  PROVE  /\ Append(L, t) \in Seq(Nat) /\ Len(Append(L, t)) = Len(L) + 1 /\ Len(L) \in Nat
         /\ Append(L, t)[Len(L) + 1] = t /\ \A i \in 1..Len(L): Append(L, t)[i] = L[i] /\ L[i] \in Nat
  OBVIOUS

LEMMA LogAppend == ASSUME NEW L, NEW t \in Nat, Log(L, t) PROVE Log(Append(L, t), t)
  <1> DEFINE K == Append(L, t)
  <1>1. /\ K \in Seq(Nat) /\ Len(K) = Len(L) + 1 /\ Len(L) \in Nat /\ K[Len(L) + 1] = t
        /\ \A i \in 1..Len(L): K[i] = L[i] /\ L[i] \in Nat
    BY Appended DEF Log
  <1> HIDE DEF K
  <1>2. \A i \in 1..Len(K): i \in 1..Len(L) \/ i = Len(L) + 1
    BY <1>1
  <1>3. \A i \in 1..Len(K): K[i] <= t
    BY <1>1, <1>2 DEF Log
  <1>4. ASSUME NEW i \in 1..Len(K), NEW j \in 1..Len(K), i <= j PROVE K[i] <= K[j]
    <2>1. CASE j = Len(L) + 1
      <3>1. K[j] = t /\ K[i] <= t
        BY <1>1, <1>3, <2>1
      <3> QED
        BY <3>1
    <2>2. CASE j \in 1..Len(L)
      <3>1. i \in 1..Len(L)
        BY <1>1, <1>4, <2>2
      <3>2. L[i] <= L[j]
        BY <1>4, <2>2, <3>1 DEF Log
      <3> QED
        BY <1>1, <2>2, <3>1, <3>2
    <2> QED
      BY <1>2, <2>1, <2>2
  <1> QED
    BY <1>1, <1>3, <1>4 DEF Log, K

LEMMA RecentLater ==
  ASSUME NEW L \in Seq(Nat), NEW t \in Nat, NEW u \in Nat, t <= u, NEW W \in Nat, NEW b \in Nat, NEW d \in Nat, b <= d,
         Recent(L, t, W, b)
  PROVE  Recent(L, u, W, d)
  <1> SUFFICES ASSUME NEW i \in 1..Len(L), u - L[i] < W PROVE Len(L) - i + 1 <= d
    BY DEF Recent
  <1>1. L[i] \in Nat /\ Len(L) \in Nat
    OBVIOUS
  <1>2. t - L[i] < W
    BY <1>1
  <1>3. Len(L) - i + 1 <= b
    BY <1>2 DEF Recent
  <1> QED
    BY <1>1, <1>3

LEMMA RecentAppend ==
  ASSUME NEW L \in Seq(Nat), NEW t \in Nat, NEW W \in Nat, NEW b \in Nat, Recent(L, t, W, b)
  PROVE  Recent(Append(L, t), t, W, b + 1)
  <1> DEFINE K == Append(L, t)
  <1>1. /\ Len(K) = Len(L) + 1 /\ Len(L) \in Nat
        /\ \A i \in 1..Len(L): K[i] = L[i] /\ L[i] \in Nat
    BY Appended
  <1> HIDE DEF K
  <1>2. ASSUME NEW i \in 1..Len(K), t - K[i] < W PROVE Len(K) - i + 1 <= b + 1
    <2>1. CASE i \in 1..Len(L)
      <3>1. Len(L) - i + 1 <= b
        BY <1>1, <1>2, <2>1 DEF Recent
      <3> QED
        BY <1>1, <3>1
    <2>2. CASE i = Len(L) + 1
      BY <1>1, <2>2
    <2> QED
      BY <1>1, <2>1, <2>2
  <1> QED
    BY <1>2 DEF Recent, K

LEMMA GapsAppend ==
  ASSUME NEW L, NEW t \in Nat, NEW W \in Nat, NEW b \in Nat, NEW most \in Nat, b < most,
         Log(L, t), Recent(L, t, W, b), Gaps(L, most, W)
  PROVE  Gaps(Append(L, t), most, W)
  <1> DEFINE K == Append(L, t)
  <1>1. /\ Len(K) = Len(L) + 1 /\ Len(L) \in Nat /\ K[Len(L) + 1] = t
        /\ \A i \in 1..Len(L): K[i] = L[i] /\ L[i] \in Nat
    BY Appended DEF Log
  <1> HIDE DEF K
  <1>2. ASSUME NEW i \in 1..Len(K), NEW j \in 1..Len(K), j = i + most PROVE K[j] - K[i] >= W
    <2>0. i \in 1..Len(L)
      BY <1>1, <1>2
    <2>1. CASE j \in 1..Len(L)
      BY <1>1, <1>2, <2>0, <2>1 DEF Gaps
    <2>2. CASE j = Len(L) + 1
      <3>1. ~(t - L[i] < W)
        <4>1. Len(L) - i + 1 = most
          BY <1>1, <1>2, <2>2
        <4> QED
          BY <2>0, <4>1 DEF Recent
      <3> QED
        BY <1>1, <2>0, <2>2, <3>1
    <2> QED
      BY <1>1, <2>1, <2>2
  <1> QED
    BY <1>2 DEF Gaps, K

LEMMA GapsWeaken ==
  ASSUME NEW L, NEW t \in Nat, NEW W \in Nat, NEW most \in Nat, NEW more \in Nat, most <= more,
         Log(L, t), Gaps(L, most, W)
  PROVE  Gaps(L, more, W)
  <1> SUFFICES ASSUME NEW i \in 1..Len(L), NEW j \in 1..Len(L), j = i + more PROVE L[j] - L[i] >= W
    BY DEF Gaps
  <1>1. i + most \in 1..Len(L) /\ i + most <= j
    BY DEF Log
  <1>2. L[i + most] - L[i] >= W
    BY <1>1 DEF Gaps
  <1>3. L[i + most] <= L[j] /\ L[j] \in Nat /\ L[i] \in Nat /\ L[i + most] \in Nat
    BY <1>1 DEF Log
  <1> QED
    BY <1>2, <1>3
----------------------------------------------------------------------------
(* The invoice watcher *)

M == MaxRetriesPerWindow
Granted == M * restarts

ClockTypes == now \in 0..MaxTime /\ restarts \in 0..MaxRestarts

\* The retries of account a so far, against what its budget still allows.
BudgetInv(a) ==
    /\ Log(retriesAt[a], now) /\ Gaps(retriesAt[a], 2 * M - 1 + Granted, RetryWindow)
    /\ states[a] = NoBudget => Recent(retriesAt[a], now, RetryWindow, M - 1 + Granted)
    /\ states[a] # NoBudget =>
        LET c == states[a].count
            n == Len(retriesAt[a])
        IN  /\ states[a] \in RetryState /\ 1 <= c /\ c <= n
            /\ retriesAt[a][n - c + 1] = states[a].windowStart
            /\ Recent(retriesAt[a], now, RetryWindow, c + M - 1 + Granted)
\* Each warning has used up M retries, and those counted now are not among them.
WarnInv(a) ==
    /\ Log(warnedAt[a], now)
    /\ states[a] = NoBudget => M * Len(warnedAt[a]) <= Len(retriesAt[a])
    /\ states[a] # NoBudget =>
        /\ states[a].alerted => states[a].count = M
        /\ M * Len(warnedAt[a]) + (IF states[a].alerted THEN 0 ELSE states[a].count) <= Len(retriesAt[a])
    /\ \A i \in 1..Len(warnedAt[a]): M * i \in 1..Len(retriesAt[a]) /\ retriesAt[a][M * i] <= warnedAt[a][i]
InvoiceInv ==
    /\ states \in [Payers -> RetryState \cup {NoBudget}] /\ watching \in [Payers -> BOOLEAN]
    /\ DOMAIN retriesAt = Payers /\ DOMAIN warnedAt = Payers
    /\ \A a \in Payers: BudgetInv(a) /\ WarnInv(a)

LEMMA Products == ASSUME NEW k \in Nat PROVE M * k \in Nat /\ M * (k + 1) = M * k + M /\ M \in Nat /\ M >= 1
  BY InvoiceAssumption DEF M

LEMMA InvoiceInvInit == ASSUME ClockInit, InvoiceInit PROVE InvoiceInv
  <1>1. ASSUME NEW a \in Payers PROVE retriesAt[a] = <<>> /\ warnedAt[a] = <<>> /\ states[a] = NoBudget
    BY DEF InvoiceInit
  <1>e. <<>> \in Seq(Nat) /\ Len(<<>>) = 0 /\ \A i \in 1..0: FALSE
    OBVIOUS
  <1>2. ASSUME NEW a \in Payers PROVE BudgetInv(a)
    <2>1. \A W, b, most: Log(<<>>, now) /\ Gaps(<<>>, most, W) /\ Recent(<<>>, now, W, b)
      BY <1>e DEF Log, Gaps, Recent
    <2> QED
      BY <1>1, <2>1 DEF BudgetInv
  <1>3. ASSUME NEW a \in Payers PROVE WarnInv(a)
    <2>1. M * 0 = 0
      BY InvoiceAssumption DEF M
    <2>2. Log(<<>>, now)
      BY <1>e DEF Log
    <2> QED
      BY <1>1, <1>e, <2>1, <2>2 DEF WarnInv
  <1> QED
    BY <1>2, <1>3 DEF InvoiceInv, InvoiceInit

LEMMA Budgets ==
  ASSUME NEW m \in Nat, m >= 1, NEW g \in Nat, NEW h \in Nat, g <= h
  PROVE  /\ m - 1 + g \in Nat /\ m - 1 + h \in Nat /\ m - 1 + g <= m - 1 + h
         /\ 2 * m - 1 + g \in Nat /\ 2 * m - 1 + h \in Nat /\ 2 * m - 1 + g <= 2 * m - 1 + h
  OBVIOUS

\* The clock moves on; the states may be lost with the process.
LEMMA InvoiceInvClock ==
  ASSUME ClockTypes, ClockTypes', InvoiceInv,
         \/ now' = now + 1 /\ UNCHANGED <<restarts, states, watching, retriesAt, warnedAt>>
         \/ Restarts /\ InvoiceRestart
  PROVE  InvoiceInv'
  <1>0. now \in Nat /\ now' \in Nat /\ now <= now' /\ restarts \in Nat /\ restarts' \in Nat /\ RetryWindow \in Nat
    BY ClockAssumption, InvoiceAssumption DEF ClockTypes, Restarts
  <1>1. M \in Nat /\ M >= 1 /\ Granted \in Nat /\ Granted' \in Nat /\ UNCHANGED <<retriesAt, warnedAt>>
    BY <1>0, Products DEF Granted, M, InvoiceRestart
  <1>2. \/ restarts' = restarts /\ UNCHANGED <<states, watching>> /\ Granted' = Granted
        \/ (\A a \in Payers: states'[a] = NoBudget) /\ Granted' = Granted + M /\ now' = now
    BY <1>0, Products DEF Granted, Restarts, InvoiceRestart, M
  <1>3. ASSUME NEW a \in Payers PROVE BudgetInv(a)'
    <2> DEFINE L == retriesAt[a]
    <2>1. L \in Seq(Nat) /\ Log(L, now) /\ Gaps(L, 2 * M - 1 + Granted, RetryWindow) /\ L' = L
      BY <1>1 DEF InvoiceInv, BudgetInv, Log
    <2> HIDE DEF L
    <2>2. Log(L, now') /\ Gaps(L, 2 * M - 1 + Granted', RetryWindow)
      <3>1. Granted <= Granted'
        BY <1>1, <1>2
      <3>2. Log(L, now')
        BY <1>0, <2>1, LogLater
      <3>3. 2 * M - 1 + Granted \in Nat /\ 2 * M - 1 + Granted' \in Nat /\ 2 * M - 1 + Granted <= 2 * M - 1 + Granted'
        BY <1>1, <3>1, Budgets
      <3> QED
        BY <1>0, <2>1, <3>2, <3>3, GapsWeaken
    <2>3. CASE states'[a] = NoBudget
      <3>1. Recent(L, now', RetryWindow, M - 1 + Granted')
        <4>1. CASE states[a] = NoBudget
          <5>1. Recent(L, now, RetryWindow, M - 1 + Granted)
            BY <4>1 DEF InvoiceInv, BudgetInv, L
          <5>2. M - 1 + Granted \in Nat /\ M - 1 + Granted' \in Nat /\ M - 1 + Granted <= M - 1 + Granted'
            <6>1. Granted <= Granted'
              BY <1>1, <1>2
            <6> QED
              BY <1>1, <6>1, Budgets
          <5> QED
            BY <1>0, <2>1, <5>1, <5>2, RecentLater
        <4>2. CASE states[a] # NoBudget
          <5> DEFINE c == states[a].count
          <5>1. Recent(L, now, RetryWindow, c + M - 1 + Granted) /\ c \in Nat /\ c <= M
            BY <4>2, InvoiceAssumption DEF InvoiceInv, BudgetInv, L, RetryState, M
          <5>2. Granted' = Granted + M
            BY <1>2, <2>3, <4>2
          <5> HIDE DEF c
          <5>3. c + M - 1 + Granted \in Nat /\ M - 1 + Granted' \in Nat /\ c + M - 1 + Granted <= M - 1 + Granted'
            BY <1>1, <5>1, <5>2
          <5> QED
            BY <1>0, <2>1, <5>1, <5>3, RecentLater
        <4> QED
          BY <4>1, <4>2
      <3> QED
        BY <2>1, <2>2, <2>3, <3>1 DEF BudgetInv, L, M
    <2>4. CASE states'[a] # NoBudget
      <3>1. states' = states /\ Granted' = Granted
        BY <1>2, <2>4
      <3> DEFINE c == states[a].count
      <3>2. Recent(L, now, RetryWindow, c + M - 1 + Granted) /\ c \in Nat /\ 1 <= c
        BY <2>4, <3>1, InvoiceAssumption DEF InvoiceInv, BudgetInv, L, RetryState, M
      <3>3. Recent(L, now', RetryWindow, c + M - 1 + Granted)
        <4> HIDE DEF c
        <4>1. c + M - 1 + Granted \in Nat
          BY <1>1, <3>2
        <4> QED
          BY <1>0, <2>1, <3>2, <4>1, RecentLater
      <3>4. /\ states[a] \in RetryState /\ 1 <= c /\ c <= Len(L)
            /\ L[Len(L) - c + 1] = states[a].windowStart
        BY <2>4, <3>1 DEF InvoiceInv, BudgetInv, L
      <3> QED
        BY <2>1, <2>2, <2>4, <3>1, <3>3, <3>4 DEF BudgetInv, L, M
    <2> QED
      BY <2>3, <2>4
  <1>4. ASSUME NEW a \in Payers PROVE WarnInv(a)'
    <2>1. Log(warnedAt[a], now')
      BY <1>0, LogLater DEF InvoiceInv, WarnInv
    <2>2. M * Len(warnedAt[a]) <= Len(retriesAt[a])
      <3>1. Len(warnedAt[a]) \in Nat /\ Len(retriesAt[a]) \in Nat
        BY DEF InvoiceInv, WarnInv, BudgetInv, Log
      <3>2. M * Len(warnedAt[a]) \in Nat
        BY <3>1, Products
      <3>3. states[a] # NoBudget => states[a].count \in Nat
        BY InvoiceAssumption DEF InvoiceInv, RetryState
      <3>4. states[a] # NoBudget => M * Len(warnedAt[a]) + (IF states[a].alerted THEN 0 ELSE states[a].count) <= Len(retriesAt[a])
        BY DEF InvoiceInv, WarnInv
      <3>5. states[a] = NoBudget => M * Len(warnedAt[a]) <= Len(retriesAt[a])
        BY DEF InvoiceInv, WarnInv
      <3> QED
        BY <3>1, <3>2, <3>3, <3>4, <3>5
    <2> QED
      BY <1>1, <1>2, <2>1, <2>2 DEF InvoiceInv, WarnInv, M
  <1>5. states' \in [Payers -> RetryState \cup {NoBudget}] /\ watching' \in [Payers -> BOOLEAN]
    BY DEF InvoiceInv, InvoiceRestart
  <1> QED
    BY <1>1, <1>3, <1>4, <1>5 DEF InvoiceInv

LEMMA InvoiceLogs ==
  ASSUME InvoiceInv, NEW a \in Payers
  PROVE  /\ Log(retriesAt[a], now) /\ retriesAt[a] \in Seq(Nat) /\ Len(retriesAt[a]) \in Nat
         /\ Log(warnedAt[a], now) /\ warnedAt[a] \in Seq(Nat) /\ Len(warnedAt[a]) \in Nat
         /\ Gaps(retriesAt[a], 2 * M - 1 + Granted, RetryWindow)
  <1>1. Log(retriesAt[a], now) /\ Gaps(retriesAt[a], 2 * M - 1 + Granted, RetryWindow)
    BY DEF InvoiceInv, BudgetInv
  <1>2. Log(warnedAt[a], now)
    BY DEF InvoiceInv, WarnInv
  <1>3. retriesAt[a] \in Seq(Nat) /\ warnedAt[a] \in Seq(Nat)
    BY <1>1, <1>2 DEF Log
  <1> QED
    BY <1>1, <1>2, <1>3

LEMMA ReservedBudget ==
  ASSUME NEW m \in Nat, m >= 1, NEW g \in Nat, NEW c \in Nat, c < m
  PROVE  /\ c + m - 1 + g \in Nat /\ c + m - 1 + g < 2 * m - 1 + g /\ 2 * m - 1 + g \in Nat
         /\ (c + m - 1 + g) + 1 = (c + 1) + m - 1 + g
  OBVIOUS

\* What the state reserveRetry works on allows: the retries before it count too.
LEMMA CurrentAllows ==
  ASSUME ClockTypes, InvoiceInv, NEW a \in Payers
  PROVE  /\ Current(a) \in RetryState
         /\ Recent(retriesAt[a], now, RetryWindow, Current(a).count + M - 1 + Granted)
         /\ M * Len(warnedAt[a]) + (IF Current(a).alerted THEN 0 ELSE Current(a).count) <= Len(retriesAt[a])
         /\ Current(a).alerted => Current(a).count = M
         /\ \/ Current(a).count = 0 /\ Current(a).windowStart = now
            \/ Current(a) = states[a] /\ states[a] # NoBudget
  <1> DEFINE L == retriesAt[a]
             n == Len(L)
             c == states[a].count
             new == [windowStart |-> now, count |-> 0, alerted |-> FALSE]
             w == M * Len(warnedAt[a])
  <1>0. now \in Nat /\ RetryWindow \in Nat /\ restarts \in Nat /\ M \in Nat /\ M >= 1 /\ Granted \in Nat
    BY ClockAssumption, InvoiceAssumption, Products DEF ClockTypes, Granted
  <1>1. L \in Seq(Nat) /\ n \in Nat /\ Log(L, now) /\ w \in Nat
    BY InvoiceLogs, Products
  <1>2. new \in RetryState /\ new.count = 0 /\ new.windowStart = now /\ new.alerted = FALSE
    BY <1>0, InvoiceAssumption DEF RetryState
  <1>3. CASE states[a] = NoBudget
    <2>1. Current(a) = new
      BY <1>3 DEF Current
    <2>2. Recent(L, now, RetryWindow, M - 1 + Granted) /\ w <= n
      BY <1>3 DEF InvoiceInv, BudgetInv, WarnInv
    <2>3. 0 + M - 1 + Granted = M - 1 + Granted
      BY <1>0
    <2> HIDE DEF new
    <2> QED
      BY <1>1, <1>2, <2>1, <2>2, <2>3
  <1>4. CASE states[a] # NoBudget
    <2>1. /\ states[a] \in RetryState /\ 1 <= c /\ c <= n /\ L[n - c + 1] = states[a].windowStart
          /\ Recent(L, now, RetryWindow, c + M - 1 + Granted)
      BY <1>4 DEF InvoiceInv, BudgetInv
    <2>2. (states[a].alerted => c = M) /\ w + (IF states[a].alerted THEN 0 ELSE c) <= n
      BY <1>4 DEF InvoiceInv, WarnInv
    <2>3. CASE now - states[a].windowStart >= RetryWindow
      <3>1. Current(a) = new
        BY <2>3 DEF Current
      <3>2. c \in Nat /\ c <= M /\ states[a].windowStart \in Nat
        BY <2>1, InvoiceAssumption DEF RetryState, M
      <3> DEFINE ws == states[a].windowStart
      <3>h. ws \in Nat /\ L[n - c + 1] = ws /\ now - ws >= RetryWindow
        BY <2>1, <2>3, <3>2
      <3> HIDE DEF new, L, n, c, ws
      <3>3. ASSUME NEW i \in 1..Len(L), now - L[i] < RetryWindow PROVE Len(L) - i + 1 <= M - 1 + Granted
        <4>1. n - c + 1 \in 1..Len(L) /\ n = Len(L)
          BY <1>1, <2>1, <3>2 DEF n
        <4>2. ~(i <= n - c + 1)
          <5> SUFFICES ASSUME i <= n - c + 1 PROVE FALSE
            OBVIOUS
          <5>1. L[i] <= ws /\ L[i] \in Nat
            BY <1>1, <3>h, <4>1 DEF Log
          <5> QED
            BY <1>0, <3>3, <3>h, <5>1
        <4> QED
          BY <1>0, <1>1, <3>2, <4>1, <4>2
      <3>4. Recent(L, now, RetryWindow, 0 + M - 1 + Granted)
        <4>1. 0 + M - 1 + Granted = M - 1 + Granted
          BY <1>0
        <4> QED
          BY <3>3, <4>1 DEF Recent
      <3>5. w + 0 <= n
        BY <1>1, <2>2, <3>2
      <3> QED
        BY <1>2, <3>1, <3>4, <3>5 DEF L, n
    <2>4. CASE ~(now - states[a].windowStart >= RetryWindow)
      <3>1. Current(a) = states[a]
        BY <1>4, <2>4 DEF Current
      <3> QED
        BY <1>4, <2>1, <2>2, <3>1
    <2> QED
      BY <2>3, <2>4
  <1> QED
    BY <1>3, <1>4

LEMMA ReserveKeeps ==
  ASSUME ClockTypes, InvoiceInv, NEW a \in Payers, ReserveRetry(a), UNCHANGED clock
  PROVE  BudgetInv(a)' /\ WarnInv(a)' /\ states'[a] \in RetryState
  <1> DEFINE L == retriesAt[a]
             n == Len(L)
             cur == Current(a)
             c == cur.count
             rec == [cur EXCEPT !.count = @ + 1]
             w == M * Len(warnedAt[a])
             b == c + M - 1 + Granted
  <1>0. now \in Nat /\ RetryWindow \in Nat /\ restarts \in Nat /\ M \in Nat /\ M >= 1 /\ Granted \in Nat
    BY ClockAssumption, InvoiceAssumption, Products DEF ClockTypes, Granted
  <1>1. L \in Seq(Nat) /\ n \in Nat /\ Log(L, now) /\ w \in Nat /\ Gaps(L, 2 * M - 1 + Granted, RetryWindow)
    BY InvoiceLogs, Products
  <1>2. /\ cur \in RetryState /\ Recent(L, now, RetryWindow, b)
        /\ w + (IF cur.alerted THEN 0 ELSE c) <= n /\ (cur.alerted => c = M)
        /\ (c = 0 /\ cur.windowStart = now) \/ (cur = states[a] /\ states[a] # NoBudget)
    BY CurrentAllows
  <1>3. /\ c < M /\ states'[a] = rec /\ retriesAt'[a] = Append(L, now) /\ warnedAt'[a] = warnedAt[a]
        /\ now' = now /\ Granted' = Granted
    BY DEF ReserveRetry, InvoiceInv, M, Granted, clock
  <1>4. c \in Nat /\ cur.windowStart \in Nat /\ cur.alerted = FALSE
    BY <1>0, <1>2, <1>3, InvoiceAssumption DEF RetryState, M
  <1>5. /\ rec \in RetryState /\ rec.count = c + 1 /\ rec.windowStart = cur.windowStart /\ rec.alerted = FALSE
    <2>1. c + 1 \in 0..MaxRetriesPerWindow
      BY <1>0, <1>3, <1>4 DEF M
    <2> QED
      BY <1>2, <1>4, <2>1 DEF RetryState
  <1>7. cur = states[a] /\ states[a] # NoBudget => 1 <= c /\ c <= n /\ L[n - c + 1] = cur.windowStart
    BY DEF InvoiceInv, BudgetInv
  <1>8. \A i \in 1..Len(warnedAt[a]): M * i \in 1..n /\ L[M * i] <= warnedAt[a][i]
    BY DEF InvoiceInv, WarnInv
  <1> HIDE DEF L, n, cur, c, rec, w, b
  <1>9. b \in Nat /\ b < 2 * M - 1 + Granted /\ 2 * M - 1 + Granted \in Nat /\ b + 1 = (c + 1) + M - 1 + Granted
    <2>1. b = c + M - 1 + Granted
      BY DEF b
    <2> QED
      BY ONLY <1>0, <1>3, <1>4, <2>1, ReservedBudget
  <1> DEFINE K == Append(L, now)
  <1>10. /\ K \in Seq(Nat) /\ Len(K) = n + 1 /\ K[n + 1] = now
         /\ \A i \in 1..n: K[i] = L[i]
    BY <1>0, <1>1, Appended DEF n
  <1>11. Log(K, now) /\ Recent(K, now, RetryWindow, b + 1) /\ Gaps(K, 2 * M - 1 + Granted, RetryWindow)
    <2>1. Log(K, now)
      BY <1>0, <1>1, LogAppend
    <2>2. Recent(K, now, RetryWindow, b + 1)
      BY <1>0, <1>1, <1>2, <1>9, RecentAppend
    <2>3. Gaps(K, 2 * M - 1 + Granted, RetryWindow)
      BY <1>0, <1>1, <1>2, <1>9, GapsAppend
    <2> QED
      BY <2>1, <2>2, <2>3
  <1>12. retriesAt'[a] = K
    BY <1>3
  <1> HIDE DEF K
  <1>13. 1 <= c + 1 /\ c + 1 <= n + 1 /\ K[(n + 1) - (c + 1) + 1] = cur.windowStart
    <2>1. CASE c = 0 /\ cur.windowStart = now
      <3>1. (n + 1) - (c + 1) + 1 = n + 1
        BY <1>1, <2>1
      <3> QED
        BY <1>1, <1>10, <2>1, <3>1
    <2>2. CASE cur = states[a] /\ states[a] # NoBudget
      <3>1. 1 <= c /\ c <= n /\ L[n - c + 1] = cur.windowStart
        BY <1>7, <2>2
      <3>2. (n + 1) - (c + 1) + 1 = n - c + 1 /\ n - c + 1 \in 1..n
        BY <1>1, <1>4, <3>1
      <3> QED
        BY <1>1, <1>4, <1>10, <3>1, <3>2
    <2> QED
      BY <1>2, <2>1, <2>2
  <1>14. rec # NoBudget
    BY <1>5, InvoiceAssumption
  <1>15. BudgetInv(a)'
    BY <1>3, <1>5, <1>9, <1>10, <1>11, <1>12, <1>13, <1>14 DEF BudgetInv, M
  <1>16. WarnInv(a)'
    <2>1. Log(warnedAt[a], now)
      BY DEF InvoiceInv, WarnInv
    <2>2. w + (c + 1) <= n + 1
      BY <1>1, <1>2, <1>4
    <2>3. \A i \in 1..Len(warnedAt[a]): M * i \in 1..(n + 1) /\ K[M * i] <= warnedAt[a][i]
      <3> SUFFICES ASSUME NEW i \in 1..Len(warnedAt[a]) PROVE M * i \in 1..(n + 1) /\ K[M * i] <= warnedAt[a][i]
        OBVIOUS
      <3> DEFINE q == M * i
      <3>1. q \in 1..n /\ L[q] <= warnedAt[a][i]
        BY <1>8
      <3> HIDE DEF q
      <3>2. q \in 1..(n + 1) /\ K[q] = L[q]
        BY <1>1, <1>10, <3>1
      <3> QED
        BY <3>1, <3>2 DEF q
    <2> QED
      BY <1>3, <1>5, <1>10, <1>12, <1>14, <2>1, <2>2, <2>3 DEF WarnInv, M, w
  <1> QED
    BY <1>3, <1>5, <1>15, <1>16

LEMMA AlertKeeps ==
  ASSUME ClockTypes, InvoiceInv, NEW a \in Payers, AlertExhausted(a), UNCHANGED clock
  PROVE  BudgetInv(a)' /\ WarnInv(a)' /\ states'[a] \in RetryState
  <1> DEFINE rec == [states[a] EXCEPT !.alerted = TRUE]
             w == Len(warnedAt[a])
             n == Len(retriesAt[a])
  <1>0. now \in Nat /\ M \in Nat /\ M >= 1
    BY ClockAssumption, InvoiceAssumption, Products DEF ClockTypes
  <1>1. Current(a).count >= M /\ Current(a).count \in Nat /\ Current(a).count <= M
    BY CurrentAllows, InvoiceAssumption DEF AlertExhausted, RetryState, M
  <1>2. states[a] # NoBudget /\ Current(a) = states[a] /\ states[a] \in RetryState
    BY <1>0, <1>1, CurrentAllows
  <1>3. /\ states'[a] = rec /\ retriesAt' = retriesAt /\ now' = now /\ Granted' = Granted
        /\ warnedAt'[a] = IF states[a].alerted THEN warnedAt[a] ELSE Append(warnedAt[a], now)
    BY DEF AlertExhausted, InvoiceInv, clock, Granted, M
  <1>4. /\ rec \in RetryState /\ rec.count = M /\ rec.windowStart = states[a].windowStart /\ rec.alerted = TRUE
        /\ states[a].count = M
    <2>1. states[a].count = M
      BY <1>0, <1>1, <1>2
    <2>2. rec \in RetryState /\ rec.count = states[a].count /\ rec.windowStart = states[a].windowStart /\ rec.alerted = TRUE
      BY <1>2 DEF RetryState
    <2> QED
      BY <2>1, <2>2
  <1> HIDE DEF rec
  <1>5. rec # NoBudget
    BY <1>4, InvoiceAssumption
  <1>6. BudgetInv(a)'
    BY <1>2, <1>3, <1>4, <1>5 DEF InvoiceInv, BudgetInv, M
  <1>7. w \in Nat /\ n \in Nat /\ warnedAt[a] \in Seq(Nat) /\ Log(warnedAt[a], now) /\ Log(retriesAt[a], now)
    BY InvoiceLogs
  <1>8. M * w + (IF states[a].alerted THEN 0 ELSE M) <= n
    BY <1>2, <1>4 DEF InvoiceInv, WarnInv
  <1>9. \A i \in 1..w: M * i \in 1..n /\ retriesAt[a][M * i] <= warnedAt[a][i]
    BY DEF InvoiceInv, WarnInv
  <1>10. WarnInv(a)'
    <2>1. CASE states[a].alerted
      <3>1. warnedAt'[a] = warnedAt[a]
        BY <1>3, <2>1
      <3>2. M * Len(warnedAt[a]) + 0 <= Len(retriesAt[a])
        BY <1>8, <2>1
      <3> QED
        BY <1>3, <1>4, <1>5, <1>7, <1>9, <3>1, <3>2 DEF WarnInv, M
    <2>2. CASE ~states[a].alerted
      <3> DEFINE K == Append(warnedAt[a], now)
      <3>1. warnedAt'[a] = K
        BY <1>3, <2>2
      <3>2. K \in Seq(Nat) /\ Len(K) = w + 1 /\ K[w + 1] = now /\ \A i \in 1..w: K[i] = warnedAt[a][i]
        BY <1>0, <1>7, Appended
      <3>3. Log(K, now)
        BY <1>0, <1>7, LogAppend
      <3>4. M * (w + 1) = M * w + M /\ M * w \in Nat
        BY <1>7, Products
      <3>5. M * (w + 1) <= n
        BY <1>8, <2>2, <3>4
      <3> HIDE DEF K, w, n
      <3>6. ASSUME NEW i \in 1..(w + 1) PROVE M * i \in 1..n /\ retriesAt[a][M * i] <= K[i]
        <4>1. CASE i \in 1..w
          BY <1>9, <3>2, <4>1
        <4>2. CASE i = w + 1
          <5> DEFINE q == M * (w + 1)
          <5>1. q \in 1..n
            BY <1>0, <1>7, <3>4, <3>5
          <5> HIDE DEF q
          <5>2. retriesAt[a][q] <= now
            BY <1>7, <5>1 DEF Log, n
          <5> QED
            BY <3>2, <4>2, <5>1, <5>2 DEF q
        <4> QED
          BY <1>7, <4>1, <4>2
      <3>7. M * (w + 1) + 0 <= n
        BY <3>4, <3>5, <1>0
      <3> QED
        BY <1>3, <1>4, <1>5, <3>1, <3>2, <3>3, <3>6, <3>7 DEF WarnInv, M, n
    <2> QED
      BY <2>1, <2>2
  <1> QED
    BY <1>3, <1>4, <1>6, <1>10

LEMMA InvoiceInvNext ==
  ASSUME ClockTypes, InvoiceInv, InvoiceNext, UNCHANGED clock
  PROVE  InvoiceInv'
  <1>1. PICK a \in Payers: FetchPending(a) \/ ReserveRetry(a) \/ AlertExhausted(a)
    BY DEF InvoiceNext
  <1>2. /\ DOMAIN retriesAt' = Payers /\ DOMAIN warnedAt' = Payers /\ watching' \in [Payers -> BOOLEAN]
        /\ \A x \in Payers \ {a}: retriesAt'[x] = retriesAt[x] /\ warnedAt'[x] = warnedAt[x] /\ states'[x] = states[x]
        /\ DOMAIN states' = Payers /\ states' = [x \in Payers |-> states'[x]]
    BY <1>1 DEF InvoiceInv, FetchPending, ReserveRetry, AlertExhausted
  <1>3. now' = now /\ Granted' = Granted
    BY DEF clock, Granted, M
  <1>4. ASSUME NEW x \in Payers \ {a} PROVE BudgetInv(x)' /\ WarnInv(x)'
    <2>1. retriesAt'[x] = retriesAt[x] /\ warnedAt'[x] = warnedAt[x] /\ states'[x] = states[x] /\ BudgetInv(x) /\ WarnInv(x)
      BY <1>2 DEF InvoiceInv
    <2> QED
      BY <1>3, <2>1 DEF BudgetInv, WarnInv, M
  <1>5. BudgetInv(a)' /\ WarnInv(a)' /\ states'[a] \in RetryState \cup {NoBudget}
    <2>1. CASE FetchPending(a)
      <3>1. retriesAt'[a] = retriesAt[a] /\ warnedAt'[a] = warnedAt[a] /\ states'[a] = states[a] /\ BudgetInv(a) /\ WarnInv(a)
        BY <2>1 DEF InvoiceInv, FetchPending
      <3>2. states[a] \in RetryState \cup {NoBudget}
        BY DEF InvoiceInv
      <3> QED
        BY <1>3, <3>1, <3>2 DEF BudgetInv, WarnInv, M
    <2> QED
      BY <1>1, <2>1, ReserveKeeps, AlertKeeps
  <1>6. states' \in [Payers -> RetryState \cup {NoBudget}]
    BY <1>2, <1>5 DEF InvoiceInv
  <1> QED
    BY <1>2, <1>4, <1>5, <1>6 DEF InvoiceInv
LEMMA InvoiceInvUnchanged ==
  ASSUME InvoiceInv, UNCHANGED clock, UNCHANGED invoiceVars PROVE InvoiceInv'
  <1>1. /\ now' = now /\ Granted' = Granted /\ states' = states /\ watching' = watching
        /\ retriesAt' = retriesAt /\ warnedAt' = warnedAt
    BY DEF clock, invoiceVars, Granted, M
  <1>2. \A a \in Payers: BudgetInv(a)' /\ WarnInv(a)'
    BY <1>1 DEF InvoiceInv, BudgetInv, WarnInv, M
  <1> QED
    BY <1>1, <1>2 DEF InvoiceInv

LEMMA ClockKept == ASSUME ClockTypes, [Next]_vars PROVE ClockTypes'
  <1>1. UNCHANGED clock \/ Passes \/ Restarts
    BY DEF Next, vars, Tick, Restart, InvoiceStep, PromoStep, ReconStep, RefreshStep, ReplenishStep, RegressStep,
           Follows
  <1> QED
    BY <1>1, ClockAssumption DEF ClockTypes, clock, Passes, Restarts

LEMMA ClockTyped == Spec => []ClockTypes
  <1>1. Init => ClockTypes
    BY ClockAssumption DEF Init, ClockInit, ClockTypes
  <1> QED
    BY <1>1, ClockKept, PTL DEF Spec

LEMMA InvoiceInvariant == Spec => []InvoiceInv
  <1>1. Init => InvoiceInv
    BY InvoiceInvInit DEF Init
  <1>2. ClockTypes /\ ClockTypes' /\ InvoiceInv /\ [Next]_vars => InvoiceInv'
    <2> SUFFICES ASSUME ClockTypes, ClockTypes', InvoiceInv, [Next]_vars PROVE InvoiceInv'
      OBVIOUS
    <2>1. CASE Tick
      BY <2>1, InvoiceInvClock DEF Tick, Passes, Others, invoiceVars
    <2>2. CASE Restart
      BY <2>2, InvoiceInvClock DEF Restart
    <2>3. CASE InvoiceStep
      BY <2>3, InvoiceInvNext DEF InvoiceStep, Follows
    <2>4. CASE UNCHANGED clock /\ UNCHANGED invoiceVars
      BY <2>4, InvoiceInvUnchanged
    <2> QED
      BY <2>1, <2>2, <2>3, <2>4
      DEF Next, vars, PromoStep, ReconStep, RefreshStep, ReplenishStep, RegressStep, Follows, Others
  <1> QED
    BY <1>1, <1>2, ClockTyped, PTL DEF Spec

\* invoicewatch: in any stretch of time, and however often the process
\* restarts, an account is retried and warned no more than its budgets allow.
THEOREM InvoiceAlwaysBudgeted == Spec => []InvoiceBudgetKept
  <1>1. InvoiceInv => InvoiceBudgetKept
    <2> SUFFICES ASSUME InvoiceInv PROVE InvoiceBudgetKept
      OBVIOUS
    <2>1. RetriesBounded
      <3>1. \A a \in Payers: Gaps(retriesAt[a], 2 * M - 1 + Granted, RetryWindow) /\ DOMAIN retriesAt[a] = 1..Len(retriesAt[a])
        BY InvoiceLogs
      <3> QED
        BY <3>1 DEF RetriesBounded, Gaps, M, Granted
    <2>2. WarnedAfterBudget
      <3>1. \A a \in Payers: /\ DOMAIN retriesAt[a] = 1..Len(retriesAt[a])
                             /\ DOMAIN warnedAt[a] = 1..Len(warnedAt[a])
        BY InvoiceLogs
      <3> QED
        BY <3>1 DEF InvoiceInv, WarnInv, WarnedAfterBudget, M
    <2> QED
      BY <2>1, <2>2 DEF InvoiceBudgetKept
  <1> QED
    BY <1>1, InvoiceInvariant, PTL
----------------------------------------------------------------------------
(* The replenish watcher *)

\* The last time a signal went out is the last time it was told or lost.
FiredTimes(s) ==
    /\ lastFired[s] \in 0..MaxTime \cup {Quiet} /\ lastFired[s] <= now
    /\ toldAt[s] \in 0..MaxTime \cup {Quiet} /\ toldAt[s] <= lastFired[s]
    /\ lostAt[s] \in 0..MaxTime \cup {Quiet}
    /\ lastFired[s] # Quiet => lastFired[s] \in {toldAt[s], lostAt[s]}
FiredTypes ==
    /\ lastFired \in [Signals -> 0..MaxTime \cup {Quiet}]
    /\ \A s \in Signals: FiredTimes(s)

\* Looking at raised signals: nobody is told twice in a window, and what was raised has been
\* told or lost within it.
LEMMA FireSpaced ==
  ASSUME ClockTypes, FiredTypes, NEW raised, Fire(raised), now' = now, NEW s \in Signals
  PROVE  /\ FiredTimes(s)' /\ ToldOnce(s)
         /\ s \in raised => Within(toldAt'[s]) \/ Within(lostAt'[s])
  <1> DEFINE fired == {x \in raised: ~MutedSignal(x)}
  <1>1. PICK lost \in SUBSET (fired \cap Lossy):
            /\ lastFired'[s] = IF s \in fired THEN now ELSE lastFired[s]
            /\ toldAt'[s] = IF s \in fired \ lost THEN now ELSE toldAt[s]
            /\ lostAt'[s] = IF s \in lost THEN now ELSE lostAt[s]
    BY DEF Fire
  <1>2. now \in 0..MaxTime /\ now \in Nat /\ now # Quiet /\ DedupWindow \in Nat /\ DedupWindow > 0 /\ Quiet = -1
    BY ClockAssumption, ReplenishAssumption DEF ClockTypes, Quiet
  <1>3. FiredTimes(s) /\ lastFired[s] \in Int /\ toldAt[s] \in Int
    BY ClockAssumption DEF FiredTypes, FiredTimes, Quiet
  <1>4. s \in fired <=> s \in raised /\ ~MutedSignal(s)
    OBVIOUS
  <1>5. s \in lost => s \in fired
    OBVIOUS
  <1> HIDE DEF fired
  <1>6. CASE s \in fired
    <2>1. lastFired[s] = Quiet \/ now - lastFired[s] >= DedupWindow
      BY <1>2, <1>3, <1>4, <1>6 DEF MutedSignal
    <2>2. lastFired'[s] = now /\ (toldAt'[s] = now \/ (toldAt'[s] = toldAt[s] /\ lostAt'[s] = now))
          /\ lostAt'[s] \in {now, lostAt[s]}
      BY <1>1, <1>5, <1>6
    <2>3. FiredTimes(s)'
      <3>1. toldAt[s] <= now
        BY <1>2, <1>3 DEF FiredTimes
      <3> QED
        BY <1>2, <1>3, <2>2, <3>1 DEF FiredTimes
    <2>4. ToldOnce(s)
      <3>1. CASE toldAt'[s] = now
        <4>1. toldAt[s] # Quiet => now - toldAt[s] >= DedupWindow
          BY <1>2, <1>3, <2>1 DEF FiredTimes
        <4> QED
          BY <3>1, <4>1 DEF ToldOnce
      <3>2. CASE toldAt'[s] = toldAt[s]
        BY <3>2 DEF ToldOnce
      <3> QED
        BY <2>2, <3>1, <3>2
    <2>5. Within(toldAt'[s]) \/ Within(lostAt'[s])
      BY <1>2, <2>2 DEF Within
    <2> QED
      BY <2>3, <2>4, <2>5
  <1>7. CASE s \notin fired
    <2>1. lastFired'[s] = lastFired[s] /\ toldAt'[s] = toldAt[s] /\ lostAt'[s] = lostAt[s]
      BY <1>1, <1>5, <1>7
    <2>2. FiredTimes(s)' /\ ToldOnce(s)
      BY <1>3, <2>1 DEF FiredTimes, ToldOnce
    <2>3. s \in raised => Within(toldAt'[s]) \/ Within(lostAt'[s])
      BY <1>3, <1>4, <1>7, <2>1 DEF MutedSignal, FiredTimes, Within
    <2> QED
      BY <2>2, <2>3
  <1> QED
    BY <1>6, <1>7

LEMMA ReplenishStepKept ==
  ASSUME ClockTypes, FiredTypes, [Next]_vars
  PROVE  FiredTypes' /\ [\A s \in Signals: ToldOnce(s) /\ Told(s)]_replenishVars
  <1>0. \/ now' = now /\ \E raised: Fire(raised)
        \/ now' = now /\ lastFired' = NoAlerts /\ toldAt' = NoAlerts /\ lostAt' = NoAlerts
        \/ now' \in {now, now + 1} /\ UNCHANGED <<lastFired, toldAt, lostAt>>
    BY DEF Next, vars, Tick, Restart, InvoiceStep, PromoStep, ReconStep, RefreshStep, ReplenishStep, RegressStep,
           Follows, Others, Passes, Restarts, clock, replenishVars, alerts, ReplenishNext, ReplenishRestart,
           StartScan, ListFails, CountFails, RowChanges, CheckRows, CheckUnlimPools
  <1>1. now \in Nat /\ \A s \in Signals: FiredTimes(s) /\ lastFired[s] \in Int
    BY ClockAssumption DEF ClockTypes, FiredTypes, FiredTimes, Quiet
  <1>2. FiredTypes' /\ \A s \in Signals: ToldOnce(s)
    <2>1. CASE now' = now /\ \E raised: Fire(raised)
      <3>1. PICK raised: Fire(raised)
        BY <2>1
      <3>2. \A s \in Signals: FiredTimes(s)' /\ ToldOnce(s)
        BY <2>1, <3>1, FireSpaced
      <3>3. lastFired' = [s \in Signals |-> lastFired'[s]]
        BY <3>1 DEF Fire
      <3>4. \A s \in Signals: lastFired'[s] \in 0..MaxTime \cup {Quiet}
        BY <3>2, ClockAssumption DEF FiredTimes, Quiet
      <3> QED
        BY <3>2, <3>3, <3>4 DEF FiredTypes
    <2>2. CASE now' = now /\ lastFired' = NoAlerts /\ toldAt' = NoAlerts /\ lostAt' = NoAlerts
      <3>1. \A s \in Signals: lastFired'[s] = Quiet /\ toldAt'[s] = Quiet /\ lostAt'[s] = Quiet
        BY <2>2 DEF NoAlerts
      <3>2. \A s \in Signals: FiredTimes(s)' /\ ToldOnce(s)
        BY <1>1, <2>2, <3>1 DEF FiredTimes, ToldOnce, Quiet
      <3> QED
        BY <2>2, <3>2 DEF FiredTypes, NoAlerts
    <2>3. CASE now' \in {now, now + 1} /\ UNCHANGED <<lastFired, toldAt, lostAt>>
      <3>1. \A s \in Signals: FiredTimes(s)' /\ ToldOnce(s)
        BY <1>1, <2>3 DEF FiredTimes, ToldOnce
      <3> QED
        BY <2>3, <3>1 DEF FiredTypes
    <2> QED
      BY <1>0, <2>1, <2>2, <2>3
  <1>3. ASSUME NEW s \in Signals, ~UNCHANGED replenishVars PROVE Told(s)
    <2>1. now' = now \/ ~(CheckRows \/ CheckUnlimPools)
      BY <1>3 DEF Next, vars, Tick, Restart, InvoiceStep, PromoStep, ReconStep, RefreshStep, ReplenishStep,
           RegressStep, Follows, Others, Restarts, clock, replenishVars
    <2> QED
      BY <2>1, FireSpaced DEF Told, CheckRows, CheckUnlimPools
  <1> QED
    BY <1>2, <1>3

LEMMA FiredTyped == Spec => []FiredTypes
  <1>1. Init => FiredTypes
    BY DEF Init, ReplenishInit, NoAlerts, ClockInit, FiredTypes, FiredTimes, Quiet
  <1> QED
    BY <1>1, ReplenishStepKept, ClockTyped, PTL DEF Spec

\* fire: whatever the order of passes, restarts and changing rows, an operator is told of a
\* signal at most once per window, and a pass that raises it leaves it told within its window
\* unless an alert about that same signal was lost within it.
THEOREM AlertsAlwaysKept == Spec => AlertsKept
  BY FiredTyped, ReplenishStepKept, ClockTyped, PTL DEF Spec, AlertsKept
----------------------------------------------------------------------------
(* The promo watcher *)

\* A deal's budget is spent only when the mute outlasts it or it is past.
DealInv(d) ==
    /\ Len(firedAt[d]) <= 1 + restarts
    /\ \A i \in 1..Len(firedAt[d]): firedAt[d][i] < Deadline[d] /\ Deadline[d] - firedAt[d][i] <= NearExpiry
    /\ Len(firedAt[d]) = 1 + restarts =>
        \/ now >= Deadline[d]
        \/ muted[d] # Never /\ Deadline[d] - muted[d] <= NearExpiry
OfferInv ==
    LET L == firedAt[OfferKey]
    IN  /\ Gaps(L, 1 + restarts, MutedWindow)
        /\ muted[OfferKey] = Never => Recent(L, now, MutedWindow, restarts)
        /\ muted[OfferKey] # Never =>
            /\ Recent(L, now, MutedWindow, restarts + 1)
            /\ Len(L) >= 1 /\ L[Len(L)] = muted[OfferKey]
PromoTypes ==
    /\ seenOffer \in Offers \cup {NoOffer} /\ seen \in Deals \cup {NoDeal}
    /\ step \in {"idle", "promo", "cashback", "offer", "decide", "decideOffer"}
    /\ (step = "decide" <=> seen # NoDeal)
    /\ muted \in [Keys -> 0..MaxTime \cup {Never}] /\ DOMAIN firedAt = Keys
PromoInv ==
    /\ PromoTypes
    /\ \A k \in Keys: Log(firedAt[k], now) /\ muted[k] <= now
    /\ \A d \in Deals: DealInv(d)
    /\ OfferInv

\* What a step at one moment does to one key: nothing, its mute lapses, or it
\* is announced.
KeyStep(k) ==
    \/ firedAt'[k] = firedAt[k] /\ muted'[k] = muted[k]
    \/ firedAt'[k] = firedAt[k] /\ muted'[k] = Never /\ muted[k] # Never /\ ~Muted(k)
    \/ /\ firedAt'[k] = Append(firedAt[k], now) /\ muted'[k] = now /\ ~Muted(k)
       /\ k \in Deals => WithinNearExpiry(Deadline[k])

LEMMA RecentNone ==
  ASSUME NEW L, NEW t \in Nat, NEW W \in Nat, NEW b \in Nat, Log(L, t), Len(L) >= 1, t - L[Len(L)] >= W
  PROVE  Recent(L, t, W, b)
  <1> SUFFICES ASSUME NEW i \in 1..Len(L), t - L[i] < W PROVE FALSE
    BY DEF Recent
  <1>1. L \in Seq(Nat) /\ Len(L) \in Nat
    BY DEF Log
  <1>2. Len(L) \in 1..Len(L) /\ i <= Len(L)
    BY <1>1
  <1>3. L[i] <= L[Len(L)] /\ L[i] \in Nat /\ L[Len(L)] \in Nat
    BY <1>1, <1>2 DEF Log
  <1> QED
    BY <1>3

LEMMA PromoFacts ==
  ASSUME ClockTypes, PromoInv, NEW k \in Keys
  PROVE  /\ now \in Nat /\ restarts \in Nat /\ MutedWindow \in Nat /\ NearExpiry \in Nat /\ NearExpiry <= MutedWindow
         /\ Log(firedAt[k], now) /\ firedAt[k] \in Seq(Nat) /\ Len(firedAt[k]) \in Nat
         /\ muted[k] \in Int /\ muted[k] <= now /\ (muted[k] # Never => muted[k] \in Nat)
  <1>1. now \in Nat /\ restarts \in Nat /\ MutedWindow \in Nat /\ NearExpiry \in Nat /\ NearExpiry <= MutedWindow
    BY ClockAssumption, PromoAssumption DEF ClockTypes
  <1>2. Log(firedAt[k], now) /\ muted[k] <= now
    BY DEF PromoInv
  <1>3. muted[k] \in 0..MaxTime \cup {Never}
    BY DEF PromoInv, PromoTypes
  <1>4. firedAt[k] \in Seq(Nat)
    BY <1>2 DEF Log
  <1> QED
    BY <1>1, <1>2, <1>3, <1>4, ClockAssumption DEF Never

LEMMA KeyKept ==
  ASSUME ClockTypes, PromoInv, UNCHANGED clock, NEW k \in Keys, KeyStep(k)
  PROVE  Log(firedAt'[k], now) /\ muted'[k] <= now /\ muted'[k] \in 0..MaxTime \cup {Never}
  <1>1. now \in Nat /\ now \in 0..MaxTime /\ Log(firedAt[k], now) /\ muted[k] <= now /\ muted[k] \in 0..MaxTime \cup {Never}
    BY PromoFacts DEF ClockTypes, PromoInv, PromoTypes
  <1>2. Log(Append(firedAt[k], now), now)
    BY <1>1, LogAppend
  <1>3. Never <= now
    BY <1>1 DEF Never
  <1>4. Log(firedAt'[k], now)
    BY <1>1, <1>2 DEF KeyStep
  <1>5. muted'[k] \in {muted[k], Never, now}
    BY DEF KeyStep
  <1> QED
    BY <1>1, <1>3, <1>4, <1>5

LEMMA DealKept ==
  ASSUME ClockTypes, PromoInv, UNCHANGED clock, NEW d \in Deals, KeyStep(d)
  PROVE  DealInv(d)'
  <1> DEFINE L == firedAt[d]
             n == Len(L)
             D == Deadline[d]
             K == Append(L, now)
             m == muted[d]
             few == 1 + restarts
  <1>0. d \in Keys
    BY DEF Keys
  <1>1. /\ now \in Nat /\ restarts \in Nat /\ MutedWindow \in Nat /\ NearExpiry \in Nat /\ NearExpiry <= MutedWindow
        /\ L \in Seq(Nat) /\ n \in Nat /\ m \in Int /\ (m # Never => m \in Nat)
    BY <1>0, PromoFacts
  <1>2. D \in Nat /\ few \in Nat
    BY <1>1, PromoAssumption
  <1>3. now' = now /\ restarts' = restarts
    BY DEF clock
  <1>4. /\ n <= few /\ (\A i \in 1..n: L[i] < D /\ D - L[i] <= NearExpiry)
        /\ (n = few => now >= D \/ (m # Never /\ D - m <= NearExpiry))
    BY DEF PromoInv, DealInv
  <1>5. ~Muted(d) => m = Never \/ now - m >= MutedWindow
    BY <1>1 DEF Muted
  <1>6. /\ Len(K) = n + 1 /\ K[n + 1] = now /\ \A i \in 1..n: K[i] = L[i]
    BY <1>1, Appended
  <1> HIDE DEF L, n, D, K, m, few
  <1>7. ~Muted(d) /\ n = few => now >= D
    BY <1>1, <1>2, <1>4, <1>5
  <1>8. CASE firedAt'[d] = L /\ muted'[d] = m
    BY <1>3, <1>4, <1>8 DEF DealInv, L, n, D, m, few
  <1>9. CASE firedAt'[d] = L /\ muted'[d] = Never /\ m # Never /\ ~Muted(d)
    BY <1>3, <1>4, <1>7, <1>9 DEF DealInv, L, n, D, m, few
  <1>10. CASE firedAt'[d] = K /\ muted'[d] = now /\ ~Muted(d) /\ D > now /\ D - now <= NearExpiry
    <2>1. n + 1 <= few
      BY <1>1, <1>2, <1>4, <1>7, <1>10
    <2>2. \A i \in 1..(n + 1): K[i] < D /\ D - K[i] <= NearExpiry
      <3> SUFFICES ASSUME NEW i \in 1..(n + 1) PROVE K[i] < D /\ D - K[i] <= NearExpiry
        OBVIOUS
      <3>1. i \in 1..n \/ i = n + 1
        BY <1>1
      <3> QED
        BY <1>1, <1>2, <1>4, <1>6, <1>10, <3>1
    <2>3. now # Never
      BY <1>1 DEF Never
    <2> QED
      BY <1>3, <1>6, <1>10, <2>1, <2>2, <2>3 DEF DealInv, D, few
  <1> QED
    BY <1>8, <1>9, <1>10 DEF KeyStep, WithinNearExpiry, L, K, m, D

LEMMA OfferKept ==
  ASSUME ClockTypes, PromoInv, UNCHANGED clock, KeyStep(OfferKey)
  PROVE  OfferInv'
  <1> DEFINE L == firedAt[OfferKey]
             K == Append(L, now)
             m == muted[OfferKey]
  <1>0. OfferKey \in Keys /\ OfferKey \notin Deals
    BY PromoAssumption DEF Keys
  <1>1. /\ now \in Nat /\ restarts \in Nat /\ MutedWindow \in Nat
        /\ Log(L, now) /\ L \in Seq(Nat) /\ Len(L) \in Nat /\ m \in Int /\ (m # Never => m \in Nat)
    BY <1>0, PromoFacts
  <1>2. now' = now /\ restarts' = restarts
    BY DEF clock
  <1>3. /\ Gaps(L, 1 + restarts, MutedWindow)
        /\ m = Never => Recent(L, now, MutedWindow, restarts)
        /\ m # Never => Recent(L, now, MutedWindow, restarts + 1) /\ Len(L) >= 1 /\ L[Len(L)] = m
    BY DEF PromoInv, OfferInv
  <1>4. ~Muted(OfferKey) => Recent(L, now, MutedWindow, restarts)
    <2> SUFFICES ASSUME ~Muted(OfferKey), m # Never PROVE Recent(L, now, MutedWindow, restarts)
      BY <1>3
    <2>1. now - L[Len(L)] >= MutedWindow /\ Len(L) >= 1
      BY <1>1, <1>3 DEF Muted
    <2> QED
      BY <1>1, <2>1, RecentNone
  <1>5. Len(K) = Len(L) + 1 /\ K[Len(L) + 1] = now
    BY <1>1, Appended
  <1>6. CASE firedAt'[OfferKey] = L /\ muted'[OfferKey] = m
    BY <1>2, <1>3, <1>6 DEF OfferInv
  <1>7. CASE firedAt'[OfferKey] = L /\ muted'[OfferKey] = Never /\ ~Muted(OfferKey)
    BY <1>2, <1>3, <1>4, <1>7 DEF OfferInv
  <1>8. CASE firedAt'[OfferKey] = K /\ muted'[OfferKey] = now /\ ~Muted(OfferKey)
    <2>1. Recent(K, now, MutedWindow, restarts + 1)
      BY <1>1, <1>4, <1>8, RecentAppend
    <2>2. 1 + restarts \in Nat /\ restarts < 1 + restarts
      BY <1>1
    <2>3. Gaps(K, 1 + restarts, MutedWindow)
      BY <1>1, <1>3, <1>4, <1>8, <2>2, GapsAppend
    <2>4. now # Never
      BY <1>1 DEF Never
    <2> HIDE DEF K
    <2>5. Len(K) >= 1 /\ K[Len(K)] = now
      BY <1>1, <1>5
    <2> QED
      BY <1>2, <1>8, <2>1, <2>3, <2>4, <2>5 DEF OfferInv
  <1> QED
    BY <1>6, <1>7, <1>8 DEF KeyStep

\* A step that leaves the types right and moves each key as KeyStep allows.
LEMMA PromoByKey ==
  ASSUME ClockTypes, PromoInv, UNCHANGED clock, \A k \in Keys: KeyStep(k),
         DOMAIN firedAt' = Keys, muted' = [k \in Keys |-> muted'[k]],
         seenOffer' \in Offers \cup {NoOffer}, seen' \in Deals \cup {NoDeal},
         step' \in {"idle", "promo", "cashback", "offer", "decide", "decideOffer"},
         step' = "decide" <=> seen' # NoDeal
  PROVE  PromoInv'
  <1>1. \A k \in Keys: Log(firedAt'[k], now) /\ muted'[k] <= now /\ muted'[k] \in 0..MaxTime \cup {Never}
    BY KeyKept
  <1>2. muted' \in [Keys -> 0..MaxTime \cup {Never}]
    BY <1>1
  <1>3. PromoTypes'
    BY <1>2 DEF PromoTypes
  <1>4. \A d \in Deals: DealInv(d)'
    BY DealKept DEF Keys
  <1>5. OfferInv'
    BY OfferKept DEF Keys
  <1>6. now' = now
    BY DEF clock
  <1> QED
    BY <1>1, <1>3, <1>4, <1>5, <1>6 DEF PromoInv

LEMMA PromoInvNext == ASSUME ClockTypes, PromoInv, PromoNext, UNCHANGED clock PROVE PromoInv'
  <1>0. PromoTypes
    BY DEF PromoInv
  <1>1. muted = [k \in Keys |-> muted[k]] /\ DOMAIN firedAt = Keys
    BY <1>0 DEF PromoTypes
  <1>2. ASSUME UNCHANGED <<muted, firedAt>>
        PROVE  /\ \A k \in Keys: KeyStep(k)
               /\ DOMAIN firedAt' = Keys /\ muted' = [k \in Keys |-> muted'[k]]
    BY <1>1, <1>2 DEF KeyStep
  <1>3. ASSUME NEW key \in Keys, ReserveAlert(key), Notify(key), ~Muted(key), key \in Deals => WithinNearExpiry(Deadline[key])
        PROVE  /\ \A k \in Keys: KeyStep(k)
               /\ DOMAIN firedAt' = Keys /\ muted' = [k \in Keys |-> muted'[k]]
    <2>1. DOMAIN firedAt' = Keys /\ muted' = [k \in Keys |-> muted'[k]]
      BY <1>1, <1>3 DEF ReserveAlert, Notify
    <2>2. ASSUME NEW k \in Keys PROVE KeyStep(k)
      <3>1. CASE k = key
        <4>1. firedAt'[k] = Append(firedAt[k], now) /\ muted'[k] = now
          BY <1>1, <1>3, <3>1 DEF ReserveAlert, Notify
        <4> QED
          BY <1>3, <3>1, <4>1 DEF KeyStep
      <3>2. CASE k # key
        <4>1. firedAt'[k] = firedAt[k]
          BY <1>1, <1>3, <3>2 DEF Notify
        <4>2. muted'[k] = IF muted[k] # Never /\ now - muted[k] >= MutedWindow THEN Never ELSE muted[k]
          BY <1>3, <3>2 DEF ReserveAlert
        <4>3. muted[k] # Never /\ now - muted[k] >= MutedWindow => ~Muted(k)
          BY PromoFacts DEF Muted
        <4> QED
          BY <4>1, <4>2, <4>3 DEF KeyStep
      <3> QED
        BY <3>1, <3>2
    <2> QED
      BY <2>1, <2>2
  <1>4. CASE WatchPromos
    BY <1>0, <1>2, <1>4, PromoByKey DEF WatchPromos, PromoTypes
  <1>5. CASE \E s \in {"promo", "cashback", "offer"}: Skip(s)
    BY <1>0, <1>2, <1>5, PromoByKey DEF Skip, After, PromoTypes
  <1>6. CASE \E d \in Deals: FetchDeal(d)
    BY <1>0, <1>2, <1>6, PromoByKey, PromoAssumption DEF FetchDeal, PromoTypes
  <1>7. CASE \E o \in Offers: FetchOffer(o)
    BY <1>0, <1>2, <1>7, PromoByKey DEF FetchOffer, PromoTypes
  <1>8. CASE CheckDeal
    <2>1. seen \in Deals /\ seen \in Keys
      BY <1>0, <1>8 DEF CheckDeal, PromoTypes, Keys
    <2>2. /\ \A k \in Keys: KeyStep(k)
          /\ DOMAIN firedAt' = Keys /\ muted' = [k \in Keys |-> muted'[k]]
      <3>1. CASE Deadline[seen] # 0 /\ WithinNearExpiry(Deadline[seen]) /\ ~Muted(seen)
        BY <1>3, <1>8, <2>1, <3>1 DEF CheckDeal
      <3>2. CASE ~(Deadline[seen] # 0 /\ WithinNearExpiry(Deadline[seen]) /\ ~Muted(seen))
        BY <1>2, <1>8, <3>2 DEF CheckDeal
      <3> QED
        BY <3>1, <3>2
    <2>3. seenOffer' = seenOffer /\ seen' = NoDeal /\ step' \in {"cashback", "offer", "idle"}
      BY <1>8, <2>1, PromoAssumption DEF CheckDeal, After
    <2> QED
      BY <1>0, <2>2, <2>3, PromoByKey DEF PromoTypes
  <1>9. CASE CheckTwoDayOffer
    <2>1. OfferKey \in Keys /\ OfferKey \notin Deals
      BY PromoAssumption DEF Keys
    <2>2. /\ \A k \in Keys: KeyStep(k)
          /\ DOMAIN firedAt' = Keys /\ muted' = [k \in Keys |-> muted'[k]]
      <3>1. CASE Valuable(seenOffer) /\ ~Muted(OfferKey)
        BY <1>3, <1>9, <2>1, <3>1 DEF CheckTwoDayOffer
      <3>2. CASE ~(Valuable(seenOffer) /\ ~Muted(OfferKey))
        BY <1>2, <1>9, <3>2 DEF CheckTwoDayOffer
      <3> QED
        BY <3>1, <3>2
    <2>3. seenOffer' = NoOffer /\ seen' = seen /\ step' = "idle" /\ step = "decideOffer"
      BY <1>9 DEF CheckTwoDayOffer
    <2> QED
      BY <1>0, <2>2, <2>3, PromoByKey DEF PromoTypes
  <1> QED
    BY <1>4, <1>5, <1>6, <1>7, <1>8, <1>9 DEF PromoNext

LEMMA PromoInvInit == ASSUME ClockInit, PromoInit PROVE PromoInv
  <1>1. \A k \in Keys: firedAt[k] = <<>> /\ muted[k] = Never
    BY DEF PromoInit
  <1>2. \A W, b, most: Log(<<>>, now) /\ Gaps(<<>>, most, W) /\ Recent(<<>>, now, W, b)
    <2>1. <<>> \in Seq(Nat) /\ Len(<<>>) = 0 /\ \A i \in 1..0: FALSE
      OBVIOUS
    <2> QED
      BY <2>1 DEF Log, Gaps, Recent
  <1>3. now = 0 /\ restarts = 0 /\ Never <= now
    BY DEF ClockInit, Never
  <1>4. ASSUME NEW d \in Deals PROVE DealInv(d)
    <2>1. firedAt[d] = <<>>
      BY <1>1 DEF Keys
    <2>2. Len(<<>>) = 0 /\ \A i \in 1..0: FALSE
      OBVIOUS
    <2> QED
      BY <1>3, <2>1, <2>2 DEF DealInv
  <1>5. OfferInv
    BY <1>1, <1>2 DEF OfferInv, Keys
  <1>6. PromoTypes
    BY DEF PromoInit, PromoTypes
  <1> QED
    BY <1>1, <1>2, <1>3, <1>4, <1>5, <1>6 DEF PromoInv

LEMMA PromoInvTick ==
  ASSUME ClockTypes, ClockTypes', PromoInv, now' = now + 1, restarts' = restarts, UNCHANGED promoVars
  PROVE  PromoInv'
  <1>0. /\ now \in Nat /\ now' \in Nat /\ now <= now' /\ restarts \in Nat /\ MutedWindow \in Nat
        /\ UNCHANGED <<step, seen, seenOffer, muted, firedAt>>
    BY ClockAssumption, PromoAssumption DEF ClockTypes, promoVars
  <1>1. PromoTypes'
    BY <1>0 DEF PromoInv, PromoTypes
  <1>2. ASSUME NEW k \in Keys PROVE Log(firedAt[k], now') /\ muted[k] <= now'
    <2>1. Log(firedAt[k], now) /\ muted[k] <= now /\ muted[k] \in Int
      BY PromoFacts
    <2>2. Log(firedAt[k], now')
      BY <1>0, <2>1, LogLater
    <2> QED
      BY <1>0, <2>1, <2>2
  <1>3. ASSUME NEW d \in Deals PROVE DealInv(d)'
    <2>1. DealInv(d) /\ Deadline[d] \in Nat
      BY PromoAssumption DEF PromoInv
    <2>2. now >= Deadline[d] => now' >= Deadline[d]
      BY <1>0, <2>1
    <2> QED
      BY <1>0, <2>1, <2>2 DEF DealInv
  <1>4. OfferInv'
    <2> DEFINE L == firedAt[OfferKey]
    <2>1. L \in Seq(Nat)
      BY PromoFacts DEF Keys
    <2>2. OfferInv
      BY DEF PromoInv
    <2>3. \A b \in Nat: Recent(L, now, MutedWindow, b) => Recent(L, now', MutedWindow, b)
      BY <1>0, <2>1, RecentLater
    <2>4. restarts + 1 \in Nat
      BY <1>0
    <2> QED
      BY <1>0, <2>2, <2>3, <2>4 DEF OfferInv
  <1> QED
    BY <1>0, <1>1, <1>2, <1>3, <1>4 DEF PromoInv

\* The mutes are lost with the process; each restart may repeat a warning.
LEMMA PromoInvRestart ==
  ASSUME ClockTypes, PromoInv, Restarts, PromoRestart
  PROVE  PromoInv'
  <1>0. /\ now \in Nat /\ now' = now /\ restarts \in Nat /\ restarts' = restarts + 1 /\ MutedWindow \in Nat
        /\ firedAt' = firedAt /\ \A k \in Keys: muted'[k] = Never
    BY ClockAssumption, PromoAssumption DEF ClockTypes, Restarts, PromoRestart
  <1>1. PromoTypes'
    BY DEF PromoInv, PromoTypes, PromoRestart
  <1>2. \A k \in Keys: Log(firedAt[k], now) /\ Never <= now
    BY <1>0 DEF PromoInv, Never
  <1>3. ASSUME NEW d \in Deals PROVE DealInv(d)'
    <2>1. /\ Len(firedAt[d]) <= 1 + restarts
          /\ \A i \in 1..Len(firedAt[d]): firedAt[d][i] < Deadline[d] /\ Deadline[d] - firedAt[d][i] <= NearExpiry
      BY DEF PromoInv, DealInv
    <2>2. Len(firedAt[d]) \in Nat
      BY PromoFacts DEF Keys
    <2>3. Len(firedAt[d]) <= 1 + restarts' /\ Len(firedAt[d]) # 1 + restarts'
      BY <1>0, <2>1, <2>2
    <2> QED
      BY <1>0, <2>1, <2>3 DEF DealInv
  <1>4. OfferInv'
    <2> DEFINE L == firedAt[OfferKey]
    <2>0. OfferKey \in Keys
      BY DEF Keys
    <2>1. L \in Seq(Nat) /\ Log(L, now)
      BY <2>0, PromoFacts
    <2>2. /\ Gaps(L, 1 + restarts, MutedWindow)
          /\ Recent(L, now, MutedWindow, restarts) \/ Recent(L, now, MutedWindow, restarts + 1)
      BY DEF PromoInv, OfferInv
    <2>3. restarts + 1 \in Nat /\ restarts <= restarts + 1 /\ 1 + restarts \in Nat /\ 1 + (restarts + 1) \in Nat
          /\ 1 + restarts <= 1 + (restarts + 1) /\ now <= now
      BY <1>0
    <2>4. Recent(L, now, MutedWindow, restarts + 1)
      BY <1>0, <2>1, <2>2, <2>3, RecentLater
    <2>5. Gaps(L, 1 + (restarts + 1), MutedWindow)
      BY <1>0, <2>1, <2>2, <2>3, GapsWeaken
    <2> QED
      BY <1>0, <2>0, <2>4, <2>5 DEF OfferInv
  <1> QED
    BY <1>0, <1>1, <1>2, <1>3, <1>4 DEF PromoInv

LEMMA PromoInvUnchanged ==
  ASSUME ClockTypes, PromoInv, UNCHANGED clock, UNCHANGED promoVars PROVE PromoInv'
  <1>1. UNCHANGED <<step, seen, seenOffer, muted, firedAt>>
    BY DEF promoVars
  <1>2. \A k \in Keys: KeyStep(k)
    BY <1>1 DEF KeyStep
  <1> QED
    BY <1>1, <1>2, PromoByKey DEF PromoInv, PromoTypes

LEMMA PromoInvariant == Spec => [](ClockTypes /\ PromoInv)
  <1>1. Init => PromoInv
    BY PromoInvInit DEF Init
  <1>2. ClockTypes /\ ClockTypes' /\ PromoInv /\ [Next]_vars => PromoInv'
    <2> SUFFICES ASSUME ClockTypes, ClockTypes', PromoInv, [Next]_vars PROVE PromoInv'
      OBVIOUS
    <2>1. CASE Tick
      BY <2>1, PromoInvTick DEF Tick, Passes, Others
    <2>2. CASE Restart
      BY <2>2, PromoInvRestart DEF Restart
    <2>3. CASE PromoStep
      BY <2>3, PromoInvNext DEF PromoStep, Follows
    <2>4. CASE UNCHANGED clock /\ UNCHANGED promoVars
      BY <2>4, PromoInvUnchanged
    <2> QED
      BY <2>1, <2>2, <2>3, <2>4
      DEF Next, vars, InvoiceStep, ReconStep, RefreshStep, ReplenishStep, RegressStep, Follows, Others
  <1> QED
    BY <1>1, <1>2, ClockTyped, PTL DEF Spec

\* promowatch: each deal is announced in its last day and once per process,
\* although its mute may lapse or be pruned; the offer once per window.
THEOREM PromoAlwaysBounded == Spec => []PromoAlertsBounded
  <1>1. ClockTypes /\ PromoInv => PromoAlertsBounded
    <2> SUFFICES ASSUME ClockTypes, PromoInv PROVE PromoAlertsBounded
      OBVIOUS
    <2>1. \A k \in Keys: DOMAIN firedAt[k] = 1..Len(firedAt[k])
      BY PromoFacts
    <2>2. ASSUME NEW d \in Deals
          PROVE  /\ Len(firedAt[d]) <= 1 + restarts
                 /\ \A i \in DOMAIN firedAt[d]:
                        firedAt[d][i] < Deadline[d] /\ Deadline[d] - firedAt[d][i] <= NearExpiry
      BY <2>1 DEF PromoInv, DealInv, Keys
    <2>3. \A i, j \in DOMAIN firedAt[OfferKey]: j = i + 1 + restarts =>
              firedAt[OfferKey][j] - firedAt[OfferKey][i] >= MutedWindow
      <3> SUFFICES ASSUME NEW i \in DOMAIN firedAt[OfferKey], NEW j \in DOMAIN firedAt[OfferKey], j = i + 1 + restarts
                   PROVE  firedAt[OfferKey][j] - firedAt[OfferKey][i] >= MutedWindow
        OBVIOUS
      <3>1. i \in 1..Len(firedAt[OfferKey]) /\ j \in 1..Len(firedAt[OfferKey])
        BY <2>1 DEF Keys
      <3>2. j = i + (1 + restarts)
        BY <3>1, ClockAssumption DEF ClockTypes
      <3>3. Gaps(firedAt[OfferKey], 1 + restarts, MutedWindow)
        BY DEF PromoInv, OfferInv
      <3> QED
        BY <3>1, <3>2, <3>3 DEF Gaps
    <2> QED
      BY <2>2, <2>3 DEF PromoAlertsBounded
  <1> QED
    BY <1>1, PromoInvariant, PTL
----------------------------------------------------------------------------
(* The credit reconciliation *)

FirstDay(m) == MonthDays * m
TargetOf(day) == IF day = 0 THEN 0 ELSE MonthOf(day - 1)

PassType == [step: {"idle", "fetch", "sum"}, month: Months, upstream: 0..MaxSpent, day: 0..MaxTime]
\* A pass under way is about the month it started in, yesterday at most.
PassInv(a) == pass[a].step # "idle" =>
    pass[a].day <= now /\ now <= pass[a].day + 1 /\ pass[a].month = TargetOf(pass[a].day)
\* A key that was pruned belongs to a month no pass is about any more.
MonthInv(k) ==
    /\ warned[k] \in Nat /\ warned[k] <= 1 + restarts
    /\ reconMuted[k] # NotMuted => reconMuted[k] <= now /\ FirstDay(k[2]) <= reconMuted[k]
    /\ reconMuted[k] = NotMuted /\ warned[k] = 1 + restarts => now > FirstDay(k[2]) + MonthDays + 1
ReconTypes ==
    /\ pass \in [Spenders -> PassType] /\ reconMuted \in [ReconKeys -> 0..MaxTime \cup {NotMuted}]
    /\ DOMAIN warned = ReconKeys
ReconInv ==
    /\ ReconTypes
    /\ \A a \in Spenders: PassInv(a)
    /\ \A k \in ReconKeys: MonthInv(k)

LEMMA TargetBounds ==
  ASSUME NEW day \in 0..MaxTime
  PROVE  /\ TargetOf(day) \in Months /\ FirstDay(TargetOf(day)) \in Nat
         /\ FirstDay(TargetOf(day)) <= day /\ day <= FirstDay(TargetOf(day)) + MonthDays
  <1>0. MonthDays \in Nat /\ MonthDays > 0 /\ MaxTime \in Nat /\ day \in Nat
    BY ReconAssumption, ClockAssumption
  <1>1. CASE day = 0
    <2>1. TargetOf(day) = 0 /\ MaxTime \div MonthDays \in Nat /\ FirstDay(0) = 0
      BY <1>0, <1>1 DEF TargetOf, FirstDay
    <2> QED
      BY <1>0, <1>1, <2>1 DEF Months
  <1>2. CASE day # 0
    <2> DEFINE n == day - 1
               m == n \div MonthDays
    <2>0. TargetOf(day) = m
      BY <1>2 DEF TargetOf, MonthOf
    <2>1. n \in Nat /\ n <= MaxTime
      BY <1>0, <1>2
    <2> HIDE DEF n
    <2>2. m \in Nat /\ MonthDays * m <= n /\ n < MonthDays * (m + 1) /\ m <= MaxTime \div MonthDays
      BY <1>0, <2>1
    <2>3. MaxTime \div MonthDays \in Nat
      BY <1>0
    <2> HIDE DEF m
    <2>4. MonthDays * (m + 1) = MonthDays * m + MonthDays /\ MonthDays * m \in Nat
      BY <1>0, <2>2
    <2>5. m \in Months
      BY <2>2, <2>3 DEF Months
    <2>6. MonthDays * m <= day /\ day <= MonthDays * m + MonthDays
      <3> DEFINE q == MonthDays * m
      <3>1. q \in Nat /\ q <= n /\ n < q + MonthDays
        BY <2>2, <2>4
      <3> HIDE DEF q
      <3>2. q <= day /\ day <= q + MonthDays
        BY <1>0, <3>1 DEF n
      <3> QED
        BY <3>2 DEF q
    <2> QED
      BY <2>0, <2>4, <2>5, <2>6 DEF FirstDay
  <1> QED
    BY <1>1, <1>2

LEMMA MonthFacts ==
  ASSUME ClockTypes, ReconInv, NEW k \in ReconKeys
  PROVE  /\ now \in Nat /\ now \in 0..MaxTime /\ restarts \in Nat /\ MonthDays \in Nat /\ PruneDays \in Nat
         /\ MonthDays + 1 < PruneDays /\ FirstDay(k[2]) \in Nat
         /\ reconMuted[k] \in 0..MaxTime \cup {NotMuted} /\ (reconMuted[k] # NotMuted => reconMuted[k] \in Nat)
         /\ MonthInv(k)
  <1>1. now \in Nat /\ now \in 0..MaxTime /\ restarts \in Nat /\ MonthDays \in Nat /\ MonthDays > 0 /\ PruneDays \in Nat
        /\ MonthDays + 1 < PruneDays /\ MaxTime \in Nat
    BY ClockAssumption, ReconAssumption DEF ClockTypes
  <1>2. k[2] \in Nat
    BY <1>1 DEF ReconKeys, Months
  <1>3. FirstDay(k[2]) \in Nat
    BY <1>1, <1>2 DEF FirstDay
  <1>4. reconMuted[k] \in 0..MaxTime \cup {NotMuted}
    BY DEF ReconInv, ReconTypes
  <1>5. reconMuted[k] # NotMuted => reconMuted[k] \in Nat
    BY <1>1, <1>4
  <1> QED
    BY <1>1, <1>3, <1>4, <1>5 DEF ReconInv

\* What a step at one moment does to a key: nothing, it is pruned, or a pass
\* about its month reserves it.
MonthStep(k) ==
    \/ reconMuted'[k] = reconMuted[k] /\ warned'[k] = warned[k]
    \/ reconMuted'[k] = NotMuted /\ Pruned(reconMuted[k]) /\ warned'[k] = warned[k]
    \/ /\ reconMuted'[k] = now /\ reconMuted[k] = NotMuted /\ warned'[k] = warned[k] + 1
       /\ FirstDay(k[2]) <= now /\ now <= FirstDay(k[2]) + MonthDays + 1

LEMMA MonthKept ==
  ASSUME ClockTypes, ReconInv, UNCHANGED clock, NEW k \in ReconKeys, MonthStep(k)
  PROVE  MonthInv(k)' /\ reconMuted'[k] \in 0..MaxTime \cup {NotMuted}
  <1> DEFINE m == reconMuted[k]
             w == warned[k]
             f == FirstDay(k[2])
  <1>1. /\ now \in Nat /\ now \in 0..MaxTime /\ restarts \in Nat /\ MonthDays \in Nat /\ PruneDays \in Nat
        /\ MonthDays + 1 < PruneDays /\ f \in Nat
        /\ m \in 0..MaxTime \cup {NotMuted} /\ (m # NotMuted => m \in Nat)
    BY MonthFacts
  <1>2. /\ w \in Nat /\ w <= 1 + restarts
        /\ m # NotMuted => m <= now /\ f <= m
        /\ m = NotMuted /\ w = 1 + restarts => now > f + MonthDays + 1
    BY DEF ReconInv, MonthInv
  <1>3. now' = now /\ restarts' = restarts
    BY DEF clock
  <1> HIDE DEF m, w, f
  <1>4. CASE reconMuted'[k] = m /\ warned'[k] = w
    BY <1>1, <1>2, <1>3, <1>4 DEF MonthInv, f
  <1>5. CASE reconMuted'[k] = NotMuted /\ Pruned(m) /\ warned'[k] = w
    <2>1. m # NotMuted /\ now - m >= PruneDays
      BY <1>5 DEF Pruned
    <2>2. now > f + MonthDays + 1
      BY <1>1, <1>2, <2>1
    <2> QED
      BY <1>1, <1>2, <1>3, <1>5, <2>2 DEF MonthInv, f
  <1>6. CASE reconMuted'[k] = now /\ m = NotMuted /\ warned'[k] = w + 1 /\ f <= now /\ now <= f + MonthDays + 1
    <2>1. w # 1 + restarts
      BY <1>1, <1>2, <1>6
    <2>2. w + 1 \in Nat /\ w + 1 <= 1 + restarts
      BY <1>1, <1>2, <2>1
    <2>3. now # NotMuted /\ now <= now
      BY <1>1 DEF NotMuted
    <2> QED
      BY <1>1, <1>3, <1>6, <2>2, <2>3 DEF MonthInv, f
  <1> QED
    BY <1>4, <1>5, <1>6 DEF MonthStep, m, w, f

LEMMA ReconByKey ==
  ASSUME ClockTypes, ReconInv, UNCHANGED clock, \A k \in ReconKeys: MonthStep(k),
         DOMAIN warned' = ReconKeys, reconMuted' = [k \in ReconKeys |-> reconMuted'[k]],
         pass' \in [Spenders -> PassType], \A a \in Spenders: PassInv(a)'
  PROVE  ReconInv'
  <1>1. \A k \in ReconKeys: MonthInv(k)' /\ reconMuted'[k] \in 0..MaxTime \cup {NotMuted}
    BY MonthKept
  <1>2. reconMuted' \in [ReconKeys -> 0..MaxTime \cup {NotMuted}]
    BY <1>1
  <1>3. ReconTypes'
    BY <1>2 DEF ReconTypes
  <1> QED
    BY <1>1, <1>3 DEF ReconInv

LEMMA ReconStepKept ==
  ASSUME ClockTypes, ReconInv, UNCHANGED clock, NEW a \in Spenders,
         StartRecon(a) \/ FetchLedger(a) \/ ReconFails(a) \/ ReconOne(a)
  PROVE  ReconInv'
  <1>0. /\ now \in Nat /\ now \in 0..MaxTime /\ MaxTime \in Nat /\ MaxSpent \in Nat /\ MonthDays \in Nat
        /\ now' = now /\ 0 \in Months
    BY ClockAssumption, ReconAssumption, TargetBounds DEF ClockTypes, clock, Months
  <1>1. pass \in [Spenders -> PassType] /\ \A b \in Spenders: PassInv(b)
    BY DEF ReconInv, ReconTypes
  <1>2. reconMuted = [k \in ReconKeys |-> reconMuted[k]] /\ DOMAIN warned = ReconKeys
    BY DEF ReconInv, ReconTypes
  <1>3. Idle \in PassType /\ Idle.step = "idle"
    BY <1>0 DEF Idle, PassType
  <1>4. ASSUME NEW rec \in PassType, pass' = [pass EXCEPT ![a] = rec],
               rec.step # "idle" => rec.day <= now /\ now <= rec.day + 1 /\ rec.month = TargetOf(rec.day)
        PROVE  pass' \in [Spenders -> PassType] /\ \A b \in Spenders: PassInv(b)'
    <2>1. pass' \in [Spenders -> PassType] /\ pass'[a] = rec /\ \A b \in Spenders \ {a}: pass'[b] = pass[b]
      BY <1>1, <1>4
    <2>2. PassInv(a)'
      BY <1>0, <1>4, <2>1 DEF PassInv
    <2>3. \A b \in Spenders \ {a}: PassInv(b)'
      BY <1>0, <1>1, <2>1 DEF PassInv
    <2> QED
      BY <2>1, <2>2, <2>3
  <1>5. ASSUME UNCHANGED <<reconMuted, warned>>
        PROVE  /\ \A k \in ReconKeys: MonthStep(k)
               /\ DOMAIN warned' = ReconKeys /\ reconMuted' = [k \in ReconKeys |-> reconMuted'[k]]
    BY <1>2, <1>5 DEF MonthStep
  <1>6. CASE StartRecon(a)
    <2> DEFINE rec == [Idle EXCEPT !.step = "fetch", !.month = TargetWindow, !.day = now]
    <2>1. TargetWindow = TargetOf(now) /\ TargetWindow \in Months
      BY <1>0, TargetBounds DEF TargetWindow, TargetOf
    <2>2. rec \in PassType /\ rec.day = now /\ rec.month = TargetWindow
      BY <1>0, <1>3, <2>1 DEF PassType
    <2>3. pass' = [pass EXCEPT ![a] = rec]
      BY <1>6 DEF StartRecon
    <2> HIDE DEF rec
    <2>4. rec.day <= now /\ now <= rec.day + 1 /\ rec.month = TargetOf(rec.day)
      BY <1>0, <2>1, <2>2
    <2>5. pass' \in [Spenders -> PassType] /\ \A b \in Spenders: PassInv(b)'
      BY <1>4, <2>2, <2>3, <2>4
    <2> QED
      BY <1>5, <1>6, <2>5, ReconByKey DEF StartRecon
  <1>7. CASE FetchLedger(a)
    <2>1. PICK total \in 0..MaxSpent: pass' = [pass EXCEPT ![a].step = "sum", ![a].upstream = total]
      BY <1>7 DEF FetchLedger
    <2> DEFINE rec == [pass[a] EXCEPT !.step = "sum", !.upstream = total]
    <2>2. rec \in PassType /\ rec.day = pass[a].day /\ rec.month = pass[a].month
      BY <1>1 DEF PassType
    <2>3. pass' = [pass EXCEPT ![a] = rec]
      BY <1>1, <2>1
    <2>4. rec.day <= now /\ now <= rec.day + 1 /\ rec.month = TargetOf(rec.day)
      BY <1>1, <1>7, <2>2 DEF FetchLedger, PassInv
    <2> HIDE DEF rec
    <2>5. pass' \in [Spenders -> PassType] /\ \A b \in Spenders: PassInv(b)'
      BY <1>4, <2>2, <2>3, <2>4
    <2> QED
      BY <1>5, <1>7, <2>5, ReconByKey DEF FetchLedger
  <1>8. CASE ReconFails(a)
    <2>1. pass' \in [Spenders -> PassType] /\ \A b \in Spenders: PassInv(b)'
      BY <1>3, <1>4, <1>8 DEF ReconFails
    <2> QED
      BY <1>5, <1>8, <2>1, ReconByKey DEF ReconFails
  <1>9. CASE ReconOne(a)
    <2> DEFINE k == <<a, pass[a].month>>
    <2>1. pass' \in [Spenders -> PassType] /\ \A b \in Spenders: PassInv(b)'
      BY <1>3, <1>4, <1>9 DEF ReconOne
    <2>2. k \in ReconKeys /\ k[2] = pass[a].month
      BY <1>1 DEF PassType, ReconKeys
    <2>3. FirstDay(k[2]) <= now /\ now <= FirstDay(k[2]) + MonthDays + 1
      <3>1. pass[a].day \in 0..MaxTime /\ pass[a].day <= now /\ now <= pass[a].day + 1 /\ k[2] = TargetOf(pass[a].day)
        BY <1>1, <1>9, <2>2 DEF ReconOne, PassInv, PassType
      <3> DEFINE day == pass[a].day
                 f == FirstDay(k[2])
      <3>2. f \in Nat /\ f <= day /\ day <= f + MonthDays /\ day \in Nat
        BY <1>0, <3>1, TargetBounds
      <3>3. day <= now /\ now <= day + 1
        BY <3>1
      <3> HIDE DEF day, f
      <3>4. f <= now /\ now <= f + MonthDays + 1
        BY <1>0, <3>2, <3>3
      <3> QED
        BY <3>4 DEF f
    <2>4. \/ UNCHANGED <<reconMuted, warned>>
          \/ /\ reconMuted[k] = NotMuted
             /\ reconMuted' = [x \in ReconKeys |->
                                IF x = k THEN now
                                ELSE IF Pruned(reconMuted[x]) THEN NotMuted ELSE reconMuted[x]]
             /\ warned' = [warned EXCEPT ![k] = @ + 1]
      BY <1>9 DEF ReconOne
    <2>5. CASE UNCHANGED <<reconMuted, warned>>
      BY <1>5, <2>1, <2>5, ReconByKey
    <2>6. CASE /\ reconMuted[k] = NotMuted
               /\ reconMuted' = [x \in ReconKeys |->
                                IF x = k THEN now
                                ELSE IF Pruned(reconMuted[x]) THEN NotMuted ELSE reconMuted[x]]
               /\ warned' = [warned EXCEPT ![k] = @ + 1]
      <3> HIDE DEF k
      <3>1. DOMAIN warned' = ReconKeys /\ reconMuted' = [x \in ReconKeys |-> reconMuted'[x]]
        BY <1>2, <2>6
      <3>2. reconMuted'[k] = now /\ warned'[k] = warned[k] + 1
        BY <1>2, <2>2, <2>6
      <3>3. MonthStep(k)
        BY <2>3, <2>6, <3>2 DEF MonthStep
      <3>4. ASSUME NEW x \in ReconKeys, x # k PROVE MonthStep(x)
        <4>1. /\ reconMuted'[x] = IF Pruned(reconMuted[x]) THEN NotMuted ELSE reconMuted[x]
              /\ warned'[x] = warned[x]
          BY <1>2, <2>6, <3>4
        <4> QED
          BY <4>1 DEF MonthStep
      <3> QED
        BY <2>1, <3>1, <3>3, <3>4, ReconByKey
    <2> QED
      BY <2>4, <2>5, <2>6
  <1> QED
    BY <1>6, <1>7, <1>8, <1>9

LEMMA ReconInvInit == ASSUME ClockInit, ReconInit PROVE ReconInv
  <1>0. /\ MaxTime \in Nat /\ MaxSpent \in Nat /\ MonthDays \in Nat /\ now = 0 /\ restarts = 0 /\ 0 \in Months
    BY ClockAssumption, ReconAssumption, TargetBounds DEF ClockInit, Months
  <1>1. Idle \in PassType /\ Idle.step = "idle"
    BY <1>0 DEF Idle, PassType
  <1>2. ReconTypes
    BY <1>1 DEF ReconInit, ReconTypes
  <1>3. \A a \in Spenders: PassInv(a)
    BY <1>1 DEF ReconInit, PassInv
  <1>4. ASSUME NEW k \in ReconKeys PROVE MonthInv(k)
    <2>1. reconMuted[k] = NotMuted /\ warned[k] = 0
      BY DEF ReconInit
    <2> QED
      BY <1>0, <2>1 DEF MonthInv
  <1> QED
    BY <1>2, <1>3, <1>4 DEF ReconInv

\* A day passes only once the passes of the day before are over.
LEMMA ReconInvTick ==
  ASSUME ClockTypes, ClockTypes', ReconInv, now' = now + 1, restarts' = restarts, PassesInTime, UNCHANGED reconVars
  PROVE  ReconInv'
  <1>0. now \in Nat /\ restarts \in Nat /\ UNCHANGED <<pass, reconMuted, warned>>
    BY ClockAssumption DEF ClockTypes, reconVars
  <1>1. ASSUME NEW a \in Spenders PROVE PassInv(a)'
    <2>1. pass[a].step # "idle" => pass[a].day = now /\ pass[a].month = TargetOf(pass[a].day)
      BY DEF ReconInv, PassInv, PassesInTime
    <2> QED
      BY <1>0, <2>1 DEF PassInv
  <1>2. ASSUME NEW k \in ReconKeys PROVE MonthInv(k)'
    <2>1. /\ MonthInv(k) /\ FirstDay(k[2]) \in Nat /\ MonthDays \in Nat
          /\ (reconMuted[k] # NotMuted => reconMuted[k] \in Nat)
      BY MonthFacts
    <2> DEFINE f == FirstDay(k[2])
    <2>2. f \in Nat /\ (now > f + MonthDays + 1 => now' > f + MonthDays + 1)
      BY <1>0, <2>1
    <2>3. reconMuted[k] # NotMuted /\ reconMuted[k] <= now => reconMuted[k] <= now'
      BY <1>0, <2>1
    <2> QED
      BY <1>0, <2>1, <2>2, <2>3 DEF MonthInv
  <1>3. ReconTypes'
    BY <1>0 DEF ReconInv, ReconTypes
  <1> QED
    BY <1>1, <1>2, <1>3 DEF ReconInv

LEMMA ReconInvRestart == ASSUME ClockTypes, ReconInv, Restarts, ReconRestart PROVE ReconInv'
  <1>0. /\ now \in Nat /\ restarts \in Nat /\ restarts' = restarts + 1 /\ now' = now /\ warned' = warned
        /\ MaxTime \in Nat /\ MaxSpent \in Nat /\ 0 \in Months
    BY ClockAssumption, ReconAssumption, TargetBounds DEF ClockTypes, Restarts, ReconRestart, Months
  <1>1. Idle \in PassType /\ Idle.step = "idle"
    BY <1>0 DEF Idle, PassType
  <1>2. ReconTypes'
    BY <1>1 DEF ReconInv, ReconRestart, ReconTypes
  <1>3. \A a \in Spenders: PassInv(a)'
    BY <1>1 DEF ReconRestart, PassInv
  <1>4. ASSUME NEW k \in ReconKeys PROVE MonthInv(k)'
    <2>1. reconMuted'[k] = NotMuted
      BY DEF ReconRestart
    <2>2. warned[k] \in Nat /\ warned[k] <= 1 + restarts
      BY DEF ReconInv, MonthInv
    <2>3. warned[k] <= 1 + restarts' /\ warned[k] # 1 + restarts'
      BY <1>0, <2>2
    <2> QED
      BY <1>0, <2>1, <2>2, <2>3 DEF MonthInv
  <1> QED
    BY <1>2, <1>3, <1>4 DEF ReconInv

LEMMA ReconInvariant == Spec => [](ClockTypes /\ ReconInv)
  <1>1. Init => ReconInv
    BY ReconInvInit DEF Init
  <1>2. ClockTypes /\ ClockTypes' /\ ReconInv /\ [Next]_vars => ReconInv'
    <2> SUFFICES ASSUME ClockTypes, ClockTypes', ReconInv, [Next]_vars PROVE ReconInv'
      OBVIOUS
    <2>1. CASE Tick
      BY <2>1, ReconInvTick DEF Tick, Passes, Others
    <2>2. CASE Restart
      BY <2>2, ReconInvRestart DEF Restart
    <2>3. CASE ReconStep
      BY <2>3, ReconStepKept DEF ReconStep, Follows, ReconNext
    <2>4. CASE UNCHANGED clock /\ UNCHANGED reconVars
      <3>1. UNCHANGED <<now, restarts, pass, reconMuted, warned>>
        BY <2>4 DEF clock, reconVars
      <3>2. (\A a \in Spenders: PassInv(a)') /\ (\A k \in ReconKeys: MonthInv(k)') /\ ReconTypes'
        BY <3>1 DEF ReconInv, PassInv, MonthInv, ReconTypes
      <3> QED
        BY <3>2 DEF ReconInv
    <2> QED
      BY <2>1, <2>2, <2>3, <2>4
      DEF Next, vars, InvoiceStep, PromoStep, RefreshStep, ReplenishStep, RegressStep, Follows, Others
  <1> QED
    BY <1>1, <1>2, ClockTyped, PTL DEF Spec

\* creditrecon: a process warns of an account's month once, for any length of
\* month and whatever the warnings of other accounts prune.
THEOREM ReconAlwaysWarnsOnce == Spec => []ReconWarnsOnce
  <1>1. ReconInv => ReconWarnsOnce
    BY DEF ReconInv, MonthInv, ReconWarnsOnce
  <1> QED
    BY <1>1, ReconInvariant, PTL
----------------------------------------------------------------------------
(* The refresher *)

Rpcs == {"idle", "wallet", "balance", "user", "entitlements", "quota", "acts", "replace", "status", "notice"}
WithUser == {"entitlements", "quota", "acts", "replace", "status"}   \* the user snapshot is still to be written
ReadTypes == [wallet: 0..Len(Reports), user: 0..Len(Reports), acts: 0..Len(Reports), struck: BOOLEAN]
Tokens == {"", "grace", "enforcement", "access_lose", "card_declined", "backup_card"}

RefreshTypes ==
    /\ version \in Versions /\ streak \in Nat /\ grounds \in Nat
    /\ deciding \in [Refreshers -> {"none", "founded", "hasty"}]
    /\ columns \in [Columns -> Versions] /\ crossed \subseteq Refreshers
    /\ rpc \in [Refreshers -> Rpcs] /\ read \in [Refreshers -> ReadTypes]
\* What a pass read is a report upstream gave, and is there when it is written.
ReadInv(p) ==
    /\ rpc[p] \in {"idle", "wallet"} => ~read[p].struck
    /\ read[p].wallet <= version /\ read[p].user <= version
    /\ rpc[p] = "balance" => read[p].wallet >= 1
    /\ rpc[p] \in WithUser => read[p].user >= 1

Struck == {p \in Refreshers: read[p].struck}
\* A pass that failed once may strike once more, on the grounds it gave then.
StrikeInv ==
    /\ streak + Cardinality(Struck) <= grounds
    /\ \A p \in Refreshers: deciding[p] # "hasty"
\* A pass that has run alone holds nothing older than the row.
AloneInv(p) == p \notin crossed /\ rpc[p] # "idle" =>
    /\ \A q \in Refreshers \ {p}: rpc[q] = "idle"
    /\ \A c \in Columns: /\ rpc[p] = "balance" => columns[c] <= read[p].wallet
                         /\ rpc[p] \in WithUser => columns[c] <= read[p].user
PassesInv ==
    /\ RefreshTypes
    /\ \A p \in Refreshers: ReadInv(p) /\ AloneInv(p)
    /\ \A c \in Columns: columns[c] <= version

(* What a step of pass p does, pass by pass and column by column. *)
Same == \A c \in Columns: columns'[c] = columns[c]
Calm == UNCHANGED standing
Starts(p) ==
    /\ rpc[p] = "idle" /\ rpc'[p] = "wallet" /\ read'[p] = read[p] /\ Same /\ Calm
    /\ crossed' = IF Running = {} THEN crossed \ {p} ELSE crossed \cup Running \cup {p}
Fetches(p) ==
    /\ read'[p].struck = read[p].struck /\ read'[p].acts = read[p].acts /\ Same /\ Calm
    /\ \/ rpc[p] = "wallet" /\ rpc'[p] = "balance" /\ read'[p].wallet = version /\ read'[p].user = read[p].user
       \/ rpc[p] = "user" /\ rpc'[p] = "entitlements" /\ read'[p].user = version /\ read'[p].wallet = read[p].wallet
Strikes(p) ==
    /\ Same
    /\ \/ Strike(p, IF read[p].struck THEN 0 ELSE 2)
       \/ Calm /\ ~read'[p].struck
    /\ \/ /\ rpc[p] = "wallet" /\ rpc'[p] = "user"
          /\ read'[p].wallet = read[p].wallet /\ read'[p].user = read[p].user
       \/ rpc[p] = "user" /\ rpc'[p] = "idle" /\ read'[p] = NothingRead
Advances(p) ==
    /\ rpc[p] \in WithUser \cup {"balance", "notice"} /\ rpc'[p] \notin {"wallet", "balance"} /\ Calm
    /\ rpc'[p] = "user" => rpc[p] = "balance"
    /\ rpc'[p] \in WithUser => rpc[p] \in WithUser /\ read'[p].user = read[p].user
    /\ rpc'[p] = "idle" => read'[p] = NothingRead
    /\ read'[p].struck => read[p].struck
    /\ read'[p].wallet \in {0, read[p].wallet} /\ read'[p].user \in {0, read[p].user}
    /\ \A c \in Columns: \/ columns'[c] = columns[c]
                         \/ rpc[p] = "balance" /\ columns'[c] = read[p].wallet
                         \/ rpc[p] \in WithUser /\ columns'[c] = read[p].user
PassStep(p) ==
    /\ version' = version /\ rpc' \in [Refreshers -> Rpcs] /\ read' \in [Refreshers -> ReadTypes]
    /\ columns' = [c \in Columns |-> columns'[c]]
    /\ \A q \in Refreshers \ {p}: rpc'[q] = rpc[q] /\ read'[q] = read[q]
    /\ Starts(p) \/ (crossed' = crossed /\ (Fetches(p) \/ Strikes(p) \/ Advances(p)))

LEMMA ReportsCount == /\ Len(Reports) \in Nat /\ Len(Reports) >= 1 /\ Versions = 1..Len(Reports)
                      /\ NothingRead \in ReadTypes /\ NothingRead.struck = FALSE
                      /\ NothingRead.wallet = 0 /\ NothingRead.user = 0
  <1>1. /\ Len(Reports) \in Nat /\ Len(Reports) >= 1 /\ Versions = 1..Len(Reports)
    BY RefreshAssumption DEF Versions
  <1> QED
    BY <1>1 DEF NothingRead, ReadTypes

LEMMA Goals ==
  ASSUME RefreshTypes, NEW p \in Refreshers, NEW to \in Rpcs, Goes(p, to)
  PROVE  rpc' \in [Refreshers -> Rpcs] /\ rpc'[p] = to /\ \A q \in Refreshers \ {p}: rpc'[q] = rpc[q]
  BY DEF RefreshTypes, Goes

LEMMA ReadsOne ==
  ASSUME RefreshTypes, NEW p \in Refreshers, NEW r \in ReadTypes, read' = [read EXCEPT ![p] = r]
  PROVE  read' \in [Refreshers -> ReadTypes] /\ read'[p] = r /\ \A q \in Refreshers \ {p}: read'[q] = read[q]
  BY DEF RefreshTypes

\* Each of a pass's actions is such a step.
LEMMA ActionIsPassStep ==
  ASSUME RefreshTypes, NEW p \in Refreshers,
         \/ StartRefresh(p) \/ FetchWalletR(p) \/ FetchFailsR(p) \/ FetchIgnored(p) \/ WriteBalance(p)
         \/ FetchUserR(p) \/ WriteEntitlements(p) \/ WriteFails(p)
         \/ WriteQuota(p) \/ FetchActsR(p) \/ WriteActs(p) \/ WriteStatus(p) \/ WriteNotice(p)
  PROVE  PassStep(p)
  <1> DEFINE r == read[p]
  <1>0. /\ version \in 0..Len(Reports) /\ 0 \in 0..Len(Reports) /\ r \in ReadTypes /\ NothingRead \in ReadTypes
        /\ columns = [c \in Columns |-> columns[c]] /\ DOMAIN columns = Columns
        /\ read \in [Refreshers -> ReadTypes] /\ rpc \in [Refreshers -> Rpcs]
    BY ReportsCount DEF RefreshTypes
  <1>1. /\ ("idle" \in Rpcs) /\ ("wallet" \in Rpcs) /\ ("balance" \in Rpcs) /\ ("user" \in Rpcs)
        /\ ("entitlements" \in Rpcs) /\ ("quota" \in Rpcs) /\ ("acts" \in Rpcs) /\ ("replace" \in Rpcs)
        /\ ("status" \in Rpcs) /\ ("notice" \in Rpcs)
    BY DEF Rpcs
  <1>2. CASE StartRefresh(p)
    <2>1. rpc' \in [Refreshers -> Rpcs] /\ rpc'[p] = "wallet" /\ \A q \in Refreshers \ {p}: rpc'[q] = rpc[q]
      BY <1>1, <1>2, Goals DEF StartRefresh
    <2> QED
      BY <1>0, <1>2, <2>1 DEF StartRefresh, PassStep, Starts, Same, Calm
  <1>3. CASE FetchWalletR(p)
    <2>1. rpc' \in [Refreshers -> Rpcs] /\ rpc'[p] = "balance" /\ \A q \in Refreshers \ {p}: rpc'[q] = rpc[q]
      BY <1>1, <1>3, Goals DEF FetchWalletR
    <2> DEFINE s == [r EXCEPT !.wallet = version]
    <2>2. s \in ReadTypes /\ s.wallet = version /\ s.user = r.user /\ s.struck = r.struck /\ s.acts = r.acts
      BY <1>0 DEF ReadTypes
    <2>3. read' = [read EXCEPT ![p] = s]
      BY <1>0, <1>3 DEF FetchWalletR
    <2> HIDE DEF s
    <2>4. read' \in [Refreshers -> ReadTypes] /\ read'[p] = s /\ \A q \in Refreshers \ {p}: read'[q] = read[q]
      BY <2>2, <2>3, ReadsOne
    <2> QED
      BY <1>0, <1>3, <2>1, <2>2, <2>4 DEF FetchWalletR, PassStep, Fetches, Same, Calm
  <1>4. CASE FetchUserR(p)
    <2>1. rpc' \in [Refreshers -> Rpcs] /\ rpc'[p] = "entitlements" /\ \A q \in Refreshers \ {p}: rpc'[q] = rpc[q]
      BY <1>1, <1>4, Goals DEF FetchUserR
    <2> DEFINE s == [r EXCEPT !.user = version]
    <2>2. s \in ReadTypes /\ s.user = version /\ s.wallet = r.wallet /\ s.struck = r.struck /\ s.acts = r.acts
      BY <1>0 DEF ReadTypes
    <2>3. read' = [read EXCEPT ![p] = s]
      BY <1>0, <1>4 DEF FetchUserR
    <2> HIDE DEF s
    <2>4. read' \in [Refreshers -> ReadTypes] /\ read'[p] = s /\ \A q \in Refreshers \ {p}: read'[q] = read[q]
      BY <2>2, <2>3, ReadsOne
    <2> QED
      BY <1>0, <1>4, <2>1, <2>2, <2>4 DEF FetchUserR, PassStep, Fetches, Same, Calm
  <1>5. ASSUME NEW counted \in BOOLEAN, AfterFailure(p, counted), version' = version, crossed' = crossed, columns' = columns,
               Strike(p, IF read[p].struck THEN 0 ELSE 2) \/ (Calm /\ ~counted)
        PROVE  PassStep(p)
    <2>1. CASE rpc[p] = "wallet" /\ Goes(p, "user") /\ read' = [read EXCEPT ![p].struck = counted]
      <3>1. rpc' \in [Refreshers -> Rpcs] /\ rpc'[p] = "user" /\ \A q \in Refreshers \ {p}: rpc'[q] = rpc[q]
        BY <1>1, <2>1, Goals
      <3> DEFINE s == [r EXCEPT !.struck = counted]
      <3>2. s \in ReadTypes /\ s.user = r.user /\ s.wallet = r.wallet /\ s.struck = counted
        BY <1>0 DEF ReadTypes
      <3>3. read' = [read EXCEPT ![p] = s]
        BY <1>0, <2>1
      <3> HIDE DEF s
      <3>4. read' \in [Refreshers -> ReadTypes] /\ read'[p] = s /\ \A q \in Refreshers \ {p}: read'[q] = read[q]
        BY <3>2, <3>3, ReadsOne
      <3>5. Strikes(p)
        BY <1>5, <2>1, <3>1, <3>2, <3>4 DEF Strikes, Same
      <3> QED
        BY <1>0, <1>5, <3>1, <3>4, <3>5 DEF PassStep
    <2>2. CASE rpc[p] = "user" /\ Ends(p)
      <3>1. rpc' \in [Refreshers -> Rpcs] /\ rpc'[p] = "idle" /\ \A q \in Refreshers \ {p}: rpc'[q] = rpc[q]
        BY <1>1, <2>2, Goals DEF Ends
      <3>2. read' \in [Refreshers -> ReadTypes] /\ read'[p] = NothingRead /\ \A q \in Refreshers \ {p}: read'[q] = read[q]
        BY <1>0, <2>2, ReadsOne DEF Ends
      <3>3. Strikes(p)
        BY <1>5, <2>2, <3>1, <3>2, ReportsCount DEF Strikes, Same
      <3> QED
        BY <1>0, <1>5, <3>1, <3>2, <3>3 DEF PassStep
    <2> QED
      BY <1>5, <2>1, <2>2 DEF AfterFailure
  <1>15. CASE FetchFailsR(p)
    BY <1>5, <1>15 DEF FetchFailsR
  <1>16. CASE FetchIgnored(p)
    BY <1>5, <1>16 DEF FetchIgnored, Calm
  <1>6. ASSUME NEW to \in Rpcs, Goes(p, to), rpc[p] \in WithUser \cup {"balance", "notice"}, to \notin {"wallet", "balance"},
               to = "user" => rpc[p] = "balance",
               to \in WithUser => rpc[p] \in WithUser,
               version' = version, crossed' = crossed, Calm,
               \/ to # "idle" /\ read' = read
               \/ to = "idle" /\ read' = [read EXCEPT ![p] = NothingRead]
               \/ to # "idle" /\ \E v \in 0..Len(Reports): read' = [read EXCEPT ![p].acts = v]
               \/ to = "user" /\ read' = [read EXCEPT ![p].wallet = 0],
               columns' = [c \in Columns |-> columns'[c]],
               \A c \in Columns: \/ columns'[c] = columns[c]
                                 \/ rpc[p] = "balance" /\ columns'[c] = read[p].wallet
                                 \/ rpc[p] \in WithUser /\ columns'[c] = read[p].user
        PROVE  PassStep(p)
    <2>1. rpc' \in [Refreshers -> Rpcs] /\ rpc'[p] = to /\ \A q \in Refreshers \ {p}: rpc'[q] = rpc[q]
      BY <1>6, Goals
    <2>2. /\ read' \in [Refreshers -> ReadTypes] /\ \A q \in Refreshers \ {p}: read'[q] = read[q]
          /\ (to = "idle" => read'[p] = NothingRead) /\ (read'[p].struck => r.struck)
          /\ read'[p].wallet \in {0, r.wallet} /\ read'[p].user \in {0, r.user}
          /\ (to \in WithUser => read'[p].user = r.user)
      <3>0. to = "user" => to \notin WithUser
        BY DEF WithUser
      <3>1. CASE to # "idle" /\ read' = read
        BY <1>0, <3>1
      <3>2. CASE to = "idle" /\ read' = [read EXCEPT ![p] = NothingRead]
        <4>1. read' \in [Refreshers -> ReadTypes] /\ read'[p] = NothingRead /\ \A q \in Refreshers \ {p}: read'[q] = read[q]
          BY <1>0, <3>2, ReadsOne
        <4> QED
          BY <3>2, <4>1, ReportsCount DEF WithUser
      <3>3. CASE to # "idle" /\ \E v \in 0..Len(Reports): read' = [read EXCEPT ![p].acts = v]
        <4>1. PICK v \in 0..Len(Reports): read' = [read EXCEPT ![p].acts = v]
          BY <3>3
        <4> DEFINE s == [r EXCEPT !.acts = v]
        <4>2. s \in ReadTypes /\ s.user = r.user /\ s.wallet = r.wallet /\ s.struck = r.struck
          BY <1>0 DEF ReadTypes
        <4>3. read' = [read EXCEPT ![p] = s]
          BY <1>0, <4>1
        <4> HIDE DEF s
        <4>4. read' \in [Refreshers -> ReadTypes] /\ read'[p] = s /\ \A q \in Refreshers \ {p}: read'[q] = read[q]
          BY <4>2, <4>3, ReadsOne
        <4> QED
          BY <3>3, <4>2, <4>4
      <3>4. CASE to = "user" /\ read' = [read EXCEPT ![p].wallet = 0]
        <4> DEFINE s == [r EXCEPT !.wallet = 0]
        <4>2. s \in ReadTypes /\ s.user = r.user /\ s.wallet = 0 /\ s.struck = r.struck
          BY <1>0 DEF ReadTypes
        <4>3. read' = [read EXCEPT ![p] = s]
          BY <1>0, <3>4
        <4> HIDE DEF s
        <4>4. read' \in [Refreshers -> ReadTypes] /\ read'[p] = s /\ \A q \in Refreshers \ {p}: read'[q] = read[q]
          BY <4>2, <4>3, ReadsOne
        <4> QED
          BY <3>0, <3>4, <4>2, <4>4
      <3> QED
        BY <1>6, <3>1, <3>2, <3>3, <3>4
    <2> QED
      BY <1>6, <2>1, <2>2 DEF PassStep, Advances
  <1>7. CASE WriteBalance(p)
    <2>1. columns' = [c \in Columns |-> columns'[c]] /\ \A c \in Columns: columns'[c] = columns[c] \/ columns'[c] = read[p].wallet
      BY <1>0, <1>7 DEF WriteBalance
    <2> QED
      BY <1>1, <1>6, <1>7, <2>1 DEF WriteBalance, WithUser, Calm
  <1>8. CASE WriteEntitlements(p)
    <2>1. columns' = [c \in Columns |-> columns'[c]] /\ \A c \in Columns: columns'[c] = columns[c] \/ columns'[c] = read[p].user
      BY <1>0, <1>8 DEF WriteEntitlements
    <2> QED
      BY <1>1, <1>6, <1>8, <2>1 DEF WriteEntitlements, WithUser, Calm
  <1>9. CASE WriteFails(p)
    <2>1. columns' = [c \in Columns |-> columns'[c]] /\ \A c \in Columns: columns'[c] = columns[c]
      BY <1>0, <1>9 DEF WriteFails
    <2>2. version' = version /\ crossed' = crossed /\ Calm
      BY <1>9 DEF WriteFails, Calm
    <2>3. \/ rpc[p] = "entitlements" /\ Goes(p, "idle") /\ read' = [read EXCEPT ![p] = NothingRead]
          \/ rpc[p] = "balance" /\ Goes(p, "user") /\ read' = read
          \/ rpc[p] = "quota" /\ Goes(p, "acts") /\ read' = read
          \/ rpc[p] = "replace" /\ Goes(p, "status") /\ read' = read
          \/ rpc[p] = "status" /\ Goes(p, "notice") /\ read' = read
      BY <1>9 DEF WriteFails, Ends
    <2> QED
      BY <1>1, <1>6, <2>1, <2>2, <2>3 DEF WithUser
  <1>10. CASE WriteQuota(p)
    <2>1. columns' = [c \in Columns |-> columns'[c]] /\ \A c \in Columns: columns'[c] = columns[c] \/ columns'[c] = read[p].user
      BY <1>0, <1>10 DEF WriteQuota
    <2> QED
      BY <1>1, <1>6, <1>10, <2>1 DEF WriteQuota, WithUser, Calm
  <1>11. CASE FetchActsR(p)
    <2>1. columns' = [c \in Columns |-> columns'[c]] /\ \A c \in Columns: columns'[c] = columns[c]
      BY <1>0, <1>11 DEF FetchActsR
    <2>2. version' = version /\ crossed' = crossed /\ Calm /\ rpc[p] = "acts"
      BY <1>11 DEF FetchActsR, Calm
    <2>3. \/ Goes(p, "replace") /\ read' = [read EXCEPT ![p].acts = version]
          \/ Goes(p, "status") /\ read' = read
      BY <1>11 DEF FetchActsR
    <2> QED
      BY <1>0, <1>1, <1>6, <2>1, <2>2, <2>3 DEF WithUser
  <1>12. CASE WriteActs(p)
    <2>1. columns' = [c \in Columns |-> columns'[c]] /\ \A c \in Columns: columns'[c] = columns[c]
      BY <1>0, <1>12 DEF WriteActs
    <2>2. version' = version /\ crossed' = crossed /\ Calm /\ rpc[p] = "replace" /\ Goes(p, "status")
          /\ read' = [read EXCEPT ![p].acts = 0]
      BY <1>12 DEF WriteActs, Calm
    <2> QED
      BY <1>0, <1>1, <1>6, <2>1, <2>2 DEF WithUser
  <1>13. CASE WriteStatus(p)
    <2>1. columns' = [c \in Columns |-> columns'[c]] /\ \A c \in Columns: columns'[c] = columns[c] \/ columns'[c] = read[p].user
      BY <1>0, <1>13 DEF WriteStatus
    <2> QED
      BY <1>1, <1>6, <1>13, <2>1 DEF WriteStatus, WithUser, Calm
  <1>14. CASE WriteNotice(p)
    <2>1. columns' = [c \in Columns |-> columns'[c]] /\ \A c \in Columns: columns'[c] = columns[c]
      BY <1>0, <1>14 DEF WriteNotice
    <2>2. version' = version /\ crossed' = crossed /\ Calm /\ rpc[p] = "notice" /\ Goes(p, "idle")
          /\ read' = [read EXCEPT ![p] = NothingRead]
      BY <1>14 DEF WriteNotice, Calm, Ends
    <2> QED
      BY <1>1, <1>6, <2>1, <2>2 DEF WithUser
  <1> QED
    BY <1>2, <1>3, <1>4, <1>15, <1>16, <1>7, <1>8, <1>9, <1>10, <1>11, <1>12, <1>13, <1>14

LEMMA PassFacts ==
  ASSUME PassesInv, NEW p \in Refreshers
  PROVE  /\ version \in Nat /\ version >= 1 /\ version <= Len(Reports) /\ Len(Reports) \in Nat
         /\ read[p] \in ReadTypes /\ read[p].wallet \in Nat /\ read[p].user \in Nat /\ read[p].struck \in BOOLEAN
         /\ rpc[p] \in Rpcs /\ ReadInv(p) /\ AloneInv(p)
         /\ \A c \in Columns: columns[c] \in Versions /\ columns[c] \in Nat /\ columns[c] <= version
  <1>1. version \in Nat /\ version >= 1 /\ version <= Len(Reports) /\ Len(Reports) \in Nat
    BY ReportsCount DEF PassesInv, RefreshTypes
  <1>2. read[p] \in ReadTypes /\ rpc[p] \in Rpcs /\ ReadInv(p) /\ AloneInv(p)
    BY DEF PassesInv, RefreshTypes
  <1>3. read[p].wallet \in Nat /\ read[p].user \in Nat /\ read[p].struck \in BOOLEAN
    BY <1>1, <1>2 DEF ReadTypes
  <1>4. \A c \in Columns: columns[c] \in Versions /\ columns[c] <= version
    BY DEF PassesInv, RefreshTypes
  <1>5. \A c \in Columns: columns[c] \in Nat
    BY <1>1, <1>4, ReportsCount
  <1> QED
    BY <1>1, <1>2, <1>3, <1>4, <1>5

\* A pass writes what it read, which is a report upstream has given, and no
\* older than the row when it ran alone.
LEMMA PassColumns ==
  ASSUME PassesInv, NEW p \in Refreshers, PassStep(p), NEW c \in Columns
  PROVE  /\ columns'[c] \in Versions /\ columns'[c] <= version
         /\ p \notin crossed /\ rpc[p] # "idle" => columns'[c] >= columns[c]
         /\ p \notin crossed /\ rpc[p] \in WithUser => columns'[c] <= read[p].user
  <1> DEFINE w == read[p].wallet
             u == read[p].user
             o == columns[c]
  <1>1. /\ version \in Nat /\ version <= Len(Reports) /\ w \in Nat /\ u \in Nat /\ o \in Nat /\ o <= version
        /\ o \in Versions /\ Versions = 1..Len(Reports) /\ Len(Reports) \in Nat
    BY PassFacts, ReportsCount
  <1>2. /\ w <= version /\ u <= version /\ (rpc[p] = "balance" => w >= 1) /\ (rpc[p] \in WithUser => u >= 1)
    BY PassFacts DEF ReadInv
  <1>3. p \notin crossed /\ rpc[p] # "idle" => (rpc[p] = "balance" => o <= w) /\ (rpc[p] \in WithUser => o <= u)
    BY PassFacts DEF AloneInv
  <1>4. \/ columns'[c] = o
        \/ rpc[p] = "balance" /\ columns'[c] = w
        \/ rpc[p] \in WithUser /\ columns'[c] = u
    BY DEF PassStep, Starts, Fetches, Strikes, Advances, Same
  <1>5. rpc[p] \in WithUser => rpc[p] # "idle" /\ rpc[p] # "balance"
    BY DEF WithUser
  <1> HIDE DEF w, u, o
  <1>6. columns'[c] \in Versions /\ columns'[c] <= version
    BY <1>1, <1>2, <1>4
  <1>7. p \notin crossed /\ rpc[p] # "idle" => columns'[c] >= o
    BY <1>1, <1>3, <1>4
  <1>8. p \notin crossed /\ rpc[p] \in WithUser => columns'[c] <= u
    BY <1>1, <1>3, <1>4, <1>5
  <1> QED
    BY <1>6, <1>7, <1>8 DEF u, o

LEMMA ReadKept ==
  ASSUME PassesInv, NEW p \in Refreshers, PassStep(p), NEW q \in Refreshers
  PROVE  ReadInv(q)'
  <1>0. version' = version
    BY DEF PassStep
  <1>1. CASE q # p
    <2>1. rpc'[q] = rpc[q] /\ read'[q] = read[q] /\ ReadInv(q)
      BY <1>1, PassFacts DEF PassStep
    <2> QED
      BY <1>0, <2>1 DEF ReadInv
  <1>2. CASE q = p
    <2>0. /\ version \in Nat /\ version >= 1 /\ read[p].wallet \in Nat /\ read[p].user \in Nat /\ ReadInv(p)
          /\ read[p].wallet <= version /\ read[p].user <= version
      BY PassFacts DEF ReadInv
    <2>1. CASE Starts(p)
      BY <1>0, <1>2, <2>0, <2>1 DEF Starts, ReadInv, WithUser
    <2>2. CASE Fetches(p)
      <3>1. CASE rpc[p] = "wallet" /\ rpc'[p] = "balance" /\ read'[p].wallet = version /\ read'[p].user = read[p].user
        BY <1>0, <1>2, <2>0, <3>1 DEF ReadInv, WithUser
      <3>2. CASE rpc[p] = "user" /\ rpc'[p] = "entitlements" /\ read'[p].user = version /\ read'[p].wallet = read[p].wallet
        BY <1>0, <1>2, <2>0, <3>2 DEF ReadInv, WithUser
      <3> QED
        BY <2>2, <3>1, <3>2 DEF Fetches
    <2>3. CASE Strikes(p)
      <3>1. CASE rpc'[p] = "user" /\ read'[p].wallet = read[p].wallet /\ read'[p].user = read[p].user
        BY <1>0, <1>2, <2>0, <3>1 DEF ReadInv, WithUser
      <3>2. CASE rpc'[p] = "idle" /\ read'[p] = NothingRead
        BY <1>0, <1>2, <2>0, <3>2, ReportsCount DEF ReadInv, WithUser
      <3> QED
        BY <2>3, <3>1, <3>2 DEF Strikes
    <2>4. CASE Advances(p)
      <3>1. read'[p].wallet <= version /\ read'[p].user <= version
        BY <2>0, <2>4 DEF Advances
      <3>2. rpc'[p] \notin {"wallet", "balance"} /\ (rpc'[p] = "idle" => ~read'[p].struck)
        BY <2>4, ReportsCount DEF Advances
      <3>3. rpc'[p] \in WithUser => read'[p].user >= 1
        BY <2>0, <2>4 DEF Advances, ReadInv
      <3> QED
        BY <1>0, <1>2, <3>1, <3>2, <3>3 DEF ReadInv
    <2> QED
      BY <2>1, <2>2, <2>3, <2>4 DEF PassStep
  <1> QED
    BY <1>1, <1>2

LEMMA AloneKept ==
  ASSUME PassesInv, NEW p \in Refreshers, PassStep(p), NEW q \in Refreshers
  PROVE  AloneInv(q)'
  <1> SUFFICES ASSUME q \notin crossed', rpc'[q] # "idle"
               PROVE  /\ \A x \in Refreshers \ {q}: rpc'[x] = "idle"
                      /\ \A c \in Columns: /\ rpc'[q] = "balance" => columns'[c] <= read'[q].wallet
                                           /\ rpc'[q] \in WithUser => columns'[c] <= read'[q].user
    BY DEF AloneInv
  <1>0. \A x \in Refreshers \ {p}: rpc'[x] = rpc[x] /\ read'[x] = read[x]
    BY DEF PassStep
  <1>1. CASE Starts(p)
    <2>1. Running = {} /\ q = p
      <3>1. Running # {} => crossed' = crossed \cup Running \cup {p}
        BY <1>1 DEF Starts
      <3>2. q \in Running \cup {p}
        BY <1>0 DEF Running
      <3>3. Running = {}
        BY <3>1, <3>2
      <3> QED
        BY <3>2, <3>3
    <2> QED
      BY <1>0, <1>1, <2>1 DEF Starts, Running, WithUser
  <1>2. CASE crossed' = crossed /\ (Fetches(p) \/ Strikes(p) \/ Advances(p))
    <2>0. rpc[p] # "idle"
      BY <1>2 DEF Fetches, Strikes, Advances, WithUser
    <2>1. q = p
      <3> SUFFICES ASSUME q # p PROVE FALSE
        OBVIOUS
      <3>1. rpc[q] # "idle" /\ q \notin crossed
        BY <1>0, <1>2
      <3>2. rpc[p] = "idle"
        BY <3>1, PassFacts DEF AloneInv
      <3> QED
        BY <2>0, <3>2
    <2>2. \A x \in Refreshers \ {q}: rpc'[x] = "idle"
      BY <1>0, <1>2, <2>0, <2>1, PassFacts DEF AloneInv
    <2>3. ASSUME NEW c \in Columns
          PROVE  /\ rpc'[q] = "balance" => columns'[c] <= read'[q].wallet
                 /\ rpc'[q] \in WithUser => columns'[c] <= read'[q].user
      <3>1. CASE Fetches(p)
        <4>1. columns'[c] <= version
          BY PassColumns
        <4> QED
          BY <2>1, <3>1, <4>1 DEF Fetches, WithUser
      <3>2. CASE Strikes(p)
        BY <2>1, <3>2 DEF Strikes, WithUser
      <3>3. CASE Advances(p)
        <4>1. rpc'[p] # "balance"
          BY <3>3 DEF Advances
        <4>2. rpc'[p] \in WithUser => rpc[p] \in WithUser /\ read'[p].user = read[p].user
          BY <3>3 DEF Advances
        <4>3. rpc[p] \in WithUser => columns'[c] <= read[p].user
          BY <1>2, <2>1, PassColumns
        <4> QED
          BY <2>1, <4>1, <4>2, <4>3
      <3> QED
        BY <1>2, <3>1, <3>2, <3>3
    <2> QED
      BY <2>2, <2>3
  <1> QED
    BY <1>1, <1>2 DEF PassStep

LEMMA StrikeTypes ==
  ASSUME NEW p \in Refreshers, NEW why \in Nat, Strike(p, why), streak \in Nat, grounds \in Nat,
         deciding \in [Refreshers -> {"none", "founded", "hasty"}]
  PROVE  /\ streak' = streak + 1 /\ grounds' = grounds + why
         /\ deciding' \in [Refreshers -> {"none", "founded", "hasty"}]
         /\ grounds' >= streak' => \A q \in Refreshers: deciding'[q] \in {deciding[q], "founded"}
  <1>1. streak' = streak + 1 /\ grounds' = grounds + why /\ FailLimitR \in Nat
    BY RefreshAssumption DEF Strike
  <1>2. Verdict(grounds') \in {"founded", "hasty"} /\ (grounds' >= FailLimitR => Verdict(grounds') = "founded")
    BY DEF Verdict
  <1>3. CASE streak' >= FailLimitR
    <2>1. deciding' = [deciding EXCEPT ![p] = Verdict(grounds')]
      BY <1>3 DEF Strike
    <2>2. grounds' >= streak' => grounds' >= FailLimitR
      BY <1>1, <1>3
    <2> HIDE DEF Verdict
    <2> QED
      BY <1>1, <1>2, <2>1, <2>2
  <1>4. CASE ~(streak' >= FailLimitR)
    <2>1. deciding' = deciding
      BY <1>4 DEF Strike
    <2> QED
      BY <1>1, <2>1
  <1> QED
    BY <1>3, <1>4

LEMMA PassesKept == ASSUME PassesInv, NEW p \in Refreshers, PassStep(p) PROVE PassesInv'
  <1>1. columns' \in [Columns -> Versions]
    BY PassColumns DEF PassStep
  <1>2. \A c \in Columns: columns'[c] <= version'
    BY PassColumns DEF PassStep
  <1>3. streak' \in Nat /\ grounds' \in Nat /\ deciding' \in [Refreshers -> {"none", "founded", "hasty"}]
    <2>1. streak \in Nat /\ grounds \in Nat /\ deciding \in [Refreshers -> {"none", "founded", "hasty"}]
      BY DEF PassesInv, RefreshTypes
    <2>2. CASE Calm
      BY <2>1, <2>2 DEF Calm, standing
    <2>3. CASE Strike(p, IF read[p].struck THEN 0 ELSE 2)
      BY <2>1, <2>3, StrikeTypes
    <2> QED
      BY <2>2, <2>3 DEF PassStep, Starts, Fetches, Strikes, Advances
  <1>4. crossed' \subseteq Refreshers
    BY DEF PassesInv, RefreshTypes, PassStep, Starts, Running
  <1>5. RefreshTypes'
    BY <1>1, <1>3, <1>4 DEF PassesInv, RefreshTypes, PassStep, Versions
  <1> QED
    BY <1>2, <1>5, ReadKept, AloneKept DEF PassesInv

LEMMA Counted ==
  ASSUME NEW S \in SUBSET Refreshers
  PROVE  /\ Cardinality(S) \in Nat /\ Cardinality(Refreshers) \in Nat /\ Cardinality(S) <= Cardinality(Refreshers)
         /\ \A T \in SUBSET S: Cardinality(T) <= Cardinality(S) /\ Cardinality(T) \in Nat
         /\ \A p \in S: Cardinality(S \ {p}) = Cardinality(S) - 1
         /\ \A p \in Refreshers \ S: Cardinality(S \cup {p}) = Cardinality(S) + 1
  <1>1. IsFiniteSet(Refreshers)
    BY RefreshAssumption
  <1>2. IsFiniteSet(S) /\ Cardinality(S) <= Cardinality(Refreshers)
    BY <1>1, FS_Subset
  <1>3. Cardinality(S) \in Nat /\ Cardinality(Refreshers) \in Nat
    BY <1>1, <1>2, FS_CardinalityType
  <1>4. \A T \in SUBSET S: Cardinality(T) <= Cardinality(S) /\ Cardinality(T) \in Nat
    BY <1>2, FS_Subset, FS_CardinalityType
  <1>5. \A p \in S: Cardinality(S \ {p}) = Cardinality(S) - 1
    BY <1>2, FS_RemoveElement
  <1>6. \A p \in Refreshers \ S: Cardinality(S \cup {p}) = Cardinality(S) + 1
    BY <1>2, FS_AddElement
  <1> QED
    BY <1>2, <1>3, <1>4, <1>5, <1>6

LEMMA StrikeKept ==
  ASSUME PassesInv, StrikeInv, NEW p \in Refreshers, PassStep(p)
  PROVE  StrikeInv'
  <1> DEFINE s == Cardinality(Struck)
             s1 == Cardinality(Struck')
  <1>0. Struck \in SUBSET Refreshers /\ Struck' \in SUBSET Refreshers
    BY DEF Struck
  <1>1. s \in Nat /\ s1 \in Nat
    BY <1>0, Counted
  <1>2. streak \in Nat /\ grounds \in Nat /\ deciding \in [Refreshers -> {"none", "founded", "hasty"}]
    BY DEF PassesInv, RefreshTypes
  <1>3. streak + s <= grounds /\ \A q \in Refreshers: deciding[q] # "hasty"
    BY DEF StrikeInv
  <1>4. \A q \in Refreshers \ {p}: read'[q] = read[q]
    BY DEF PassStep
  <1>5. ASSUME Calm, read'[p].struck => read[p].struck PROVE StrikeInv'
    <2>1. Struck' \in SUBSET Struck
      BY <1>4, <1>5 DEF Struck
    <2>2. s1 <= s
      BY <1>0, <2>1, Counted
    <2>3. streak' = streak /\ grounds' = grounds /\ deciding' = deciding
      BY <1>5 DEF Calm, standing
    <2> HIDE DEF s, s1
    <2>4. streak' + s1 <= grounds'
      BY <1>1, <1>2, <1>3, <2>2, <2>3
    <2> QED
      BY <1>3, <2>3, <2>4 DEF StrikeInv, s1
  <1>6. ASSUME Strikes(p), Strike(p, IF read[p].struck THEN 0 ELSE 2) PROVE StrikeInv'
    <2> DEFINE why == IF read[p].struck THEN 0 ELSE 2
    <2>0. why \in Nat /\ why = IF read[p].struck THEN 0 ELSE 2
      OBVIOUS
    <2>1. s1 + 1 <= s + why
      <3>1. CASE read[p].struck
        <4>1. rpc[p] = "user" /\ read'[p] = NothingRead
          BY <1>6, <3>1, PassFacts DEF Strikes, ReadInv
        <4>2. Struck' = Struck \ {p} /\ p \in Struck
          BY <1>4, <3>1, <4>1, ReportsCount DEF Struck
        <4>3. s1 = s - 1
          BY <1>0, <4>2, Counted
        <4> QED
          BY <1>1, <2>0, <3>1, <4>3
      <3>2. CASE ~read[p].struck
        <4>1. Struck' \in SUBSET (Struck \cup {p}) /\ p \in Refreshers \ Struck
          BY <1>4, <3>2 DEF Struck
        <4>2. s1 <= Cardinality(Struck \cup {p}) /\ Cardinality(Struck \cup {p}) = s + 1
          BY <1>0, <4>1, Counted
        <4> QED
          BY <1>1, <2>0, <3>2, <4>2
      <3> QED
        BY <3>1, <3>2
    <2>2. Strike(p, why)
      BY <1>6
    <2> HIDE DEF why
    <2>3. /\ streak' = streak + 1 /\ grounds' = grounds + why
          /\ grounds' >= streak' => \A q \in Refreshers: deciding'[q] \in {deciding[q], "founded"}
      BY <1>2, <2>0, <2>2, StrikeTypes
    <2> HIDE DEF s, s1
    <2>4. streak' + s1 <= grounds' /\ grounds' >= streak'
      BY <1>1, <1>2, <1>3, <2>0, <2>1, <2>3
    <2> QED
      BY <1>3, <2>3, <2>4 DEF StrikeInv, s1
  <1>7. Starts(p) \/ Fetches(p) \/ Advances(p) => Calm /\ (read'[p].struck => read[p].struck)
    BY DEF Starts, Fetches, Advances
  <1> QED
    BY <1>5, <1>6, <1>7 DEF PassStep, Strikes

RowInv == UnlimSetWhole /\ GraceExplained /\ grace.token \in Tokens
RefreshInv == PassesInv /\ StrikeInv /\ RowInv

LEMMA TokenKnown == \A raw: NormalizeNoticeStatus(raw) \in Tokens
  BY DEF NormalizeNoticeStatus, Tokens

\* Only the activations' transaction and an answered notice touch these two.
LEMMA RowKept ==
  ASSUME RowInv, RefreshNext \/ UNCHANGED refreshVars PROVE RowInv'
  <1>1. CASE UNCHANGED <<unlim, grace>>
    BY <1>1 DEF RowInv, UnlimSetWhole, GraceExplained
  <1>2. ASSUME NEW p \in Refreshers, WriteActs(p) PROVE RowInv'
    <2> DEFINE rows == Flatten(Reports[read[p].acts].acts)
    <2>1. unlim' = [rows |-> Replaced(rows), from |-> IF DistinctKeys(rows) THEN read[p].acts ELSE unlim.from]
          /\ grace' = grace
      BY <1>2 DEF WriteActs
    <2>2. UnlimSetWhole'
      <3>1. CASE DistinctKeys(rows)
        BY <2>1, <3>1 DEF Replaced, UnlimSetWhole
      <3>2. CASE ~DistinctKeys(rows)
        <4>1. unlim'.rows = unlim.rows /\ unlim'.from = unlim.from
          BY <2>1, <3>2 DEF Replaced
        <4> QED
          BY <4>1 DEF RowInv, UnlimSetWhole
      <3> QED
        BY <3>1, <3>2
    <2> QED
      BY <2>1, <2>2 DEF RowInv, GraceExplained
  <1>3. ASSUME NEW p \in Refreshers, WriteNotice(p) PROVE RowInv'
    <2>1. PICK st \in {200, 500}, answered \in ReadBody("full", TRUE):
            grace' = IF FetchWorkspaceNotice(st, answered) \in {"error", "unauthorized"} THEN grace
                     ELSE [token |-> Token(FetchWorkspaceNotice(st, answered), Reports[version].notice),
                           from |-> version, cut |-> answered = "empty"]
      BY <1>3 DEF WriteNotice
    <2> DEFINE answer == FetchWorkspaceNotice(st, answered)
    <2>2. unlim' = unlim
      BY <1>3 DEF WriteNotice
    <2>3. CASE answer \in {"error", "unauthorized"}
      BY <1>1, <2>1, <2>2, <2>3
    <2>4. CASE answer \notin {"error", "unauthorized"}
      <3>1. answered \in {"full", "empty", "broken"}
        BY DEF ReadBody
      <3>2. answer = "value" \/ (answer = "absent" /\ answered = "empty")
        BY <2>4, <3>1 DEF FetchWorkspaceNotice, NoBytes, Absent, Fetch
      <3>3. grace' = [token |-> Token(answer, Reports[version].notice), from |-> version, cut |-> answered = "empty"]
        BY <2>1, <2>4
      <3> HIDE DEF answer
      <3>4. grace'.token = Token(answer, Reports[version].notice) /\ grace'.from = version
            /\ (grace'.cut <=> answered = "empty")
        BY <3>3
      <3>5. CASE answer = "value"
        <4>1. grace'.token = NormalizeNoticeStatus(Reports[version].notice)
          BY <3>4, <3>5 DEF Token
        <4>2. GraceExplained'
          BY <3>4, <4>1 DEF GraceExplained
        <4>3. UnlimSetWhole'
          BY <2>2 DEF RowInv, UnlimSetWhole
        <4>4. grace'.token \in Tokens
          BY <4>1, TokenKnown
        <4> QED
          BY <4>2, <4>3, <4>4 DEF RowInv, Tokens
      <3>6. CASE answer = "absent" /\ answered = "empty"
        <4>1. grace'.token = "" /\ grace'.cut /\ "" \in Tokens
          BY <3>4, <3>6 DEF Token, Tokens
        <4> QED
          BY <2>2, <4>1 DEF RowInv, UnlimSetWhole, GraceExplained
      <3> QED
        BY <3>2, <3>5, <3>6
    <2> QED
      BY <2>3, <2>4
  <1> QED
    BY <1>1, <1>2, <1>3 DEF RefreshNext, refreshVars, ReportChanges, Decides, OthersRaise, RecordSuccess, StartRefresh,
         FetchWalletR, FetchFailsR, FetchIgnored, WriteBalance, FetchUserR, WriteEntitlements, WriteFails, WriteQuota, FetchActsR, WriteStatus

LEMMA ReportsKept == ASSUME PassesInv, StrikeInv, ReportChanges PROVE PassesInv' /\ StrikeInv'
  <1>1. /\ version' = version + 1 /\ version' \in Versions
        /\ UNCHANGED <<streak, deciding, grounds, columns, rpc, read, crossed>>
    BY DEF ReportChanges, Versions, standing
  <1>2. version \in Nat
    BY ReportsCount DEF PassesInv, RefreshTypes
  <1>3. RefreshTypes'
    BY <1>1 DEF PassesInv, RefreshTypes, Versions
  <1>4. ASSUME NEW p \in Refreshers PROVE ReadInv(p)' /\ AloneInv(p)'
    <2>1. /\ ReadInv(p) /\ AloneInv(p) /\ read[p].wallet \in Nat /\ read[p].user \in Nat
      BY PassFacts
    <2>2. read[p].wallet <= version' /\ read[p].user <= version'
      BY <1>1, <1>2, <2>1 DEF ReadInv
    <2> QED
      BY <1>1, <2>1, <2>2 DEF ReadInv, AloneInv
  <1>5. ASSUME NEW c \in Columns PROVE columns'[c] <= version'
    <2>1. columns[c] \in Nat /\ columns[c] <= version
      BY ReportsCount DEF PassesInv, RefreshTypes
    <2> QED
      BY <1>1, <1>2, <2>1
  <1>6. StrikeInv'
    BY <1>1 DEF StrikeInv, Struck
  <1> QED
    BY <1>3, <1>4, <1>5, <1>6 DEF PassesInv

\* A decision disables the row or leaves it, and others raise the streak: with grounds of their own.
LEMMA StandingKept ==
  ASSUME PassesInv, StrikeInv, OthersRaise \/ \E p \in Refreshers: Decides(p)
  PROVE  PassesInv' /\ StrikeInv'
  <1>1. UNCHANGED <<version, columns, rpc, read, crossed>>
    BY DEF OthersRaise, Decides
  <1>2. \/ streak' = streak + 1 /\ grounds' = grounds + 1
        \/ streak' = streak /\ grounds' = grounds
    BY DEF OthersRaise, Decides
  <1>3. deciding' = deciding \/ \E p \in Refreshers: deciding' = [deciding EXCEPT ![p] = "none"]
    BY DEF OthersRaise, Decides
  <1>4. streak \in Nat /\ grounds \in Nat /\ deciding \in [Refreshers -> {"none", "founded", "hasty"}]
    BY DEF PassesInv, RefreshTypes
  <1>5. /\ deciding' \in [Refreshers -> {"none", "founded", "hasty"}]
        /\ \A q \in Refreshers: deciding'[q] # "hasty"
    BY <1>3, <1>4 DEF StrikeInv
  <1>6. RefreshTypes'
    <2>1. streak' \in Nat /\ grounds' \in Nat
      BY <1>2, <1>4
    <2> QED
      BY <1>1, <1>5, <2>1 DEF PassesInv, RefreshTypes, Versions, ReadTypes
  <1>7. \A p \in Refreshers: ReadInv(p)' /\ AloneInv(p)'
    BY <1>1 DEF PassesInv, ReadInv, AloneInv
  <1>8. \A c \in Columns: columns'[c] <= version'
    BY <1>1 DEF PassesInv
  <1>9. StrikeInv'
    <2>1. Struck' = Struck
      BY <1>1 DEF Struck
    <2>2. Struck \in SUBSET Refreshers
      BY DEF Struck
    <2>3. Cardinality(Struck) \in Nat
      BY <2>2, Counted
    <2>4. streak + Cardinality(Struck) <= grounds
      BY DEF StrikeInv
    <2>5. streak' + Cardinality(Struck) <= grounds'
      BY <1>2, <1>4, <2>3, <2>4
    <2> QED
      BY <1>5, <2>1, <2>5 DEF StrikeInv
  <1> QED
    BY <1>6, <1>7, <1>8, <1>9 DEF PassesInv

LEMMA SuccessKeeps == ASSUME PassesInv, StrikeInv, RecordSuccess PROVE PassesInv' /\ StrikeInv'
  <1>1. /\ streak' = 0 /\ grounds' = 0
        /\ UNCHANGED <<version, deciding, columns, rpc, crossed>>
        /\ read' = [p \in Refreshers |-> [read[p] EXCEPT !.struck = FALSE]]
    BY DEF RecordSuccess
  <1>2. ASSUME NEW p \in Refreshers
        PROVE  /\ read'[p] \in ReadTypes /\ read'[p].wallet = read[p].wallet /\ read'[p].user = read[p].user
               /\ ~read'[p].struck
    <2>1. read[p] \in ReadTypes
      BY PassFacts
    <2>2. read'[p] = [read[p] EXCEPT !.struck = FALSE]
      BY <1>1
    <2> QED
      BY <2>1, <2>2 DEF ReadTypes
  <1>3. RefreshTypes'
    <2>1. read' \in [Refreshers -> ReadTypes]
      BY <1>1, <1>2
    <2> QED
      BY <1>1, <2>1 DEF PassesInv, RefreshTypes, Versions, ReadTypes
  <1>4. ASSUME NEW p \in Refreshers PROVE ReadInv(p)' /\ AloneInv(p)'
    <2>1. ReadInv(p) /\ AloneInv(p)
      BY PassFacts
    <2> QED
      BY <1>1, <1>2, <2>1 DEF ReadInv, AloneInv
  <1>5. \A c \in Columns: columns'[c] <= version'
    BY <1>1 DEF PassesInv
  <1>6. StrikeInv'
    <2>1. Struck' = {}
      BY <1>2 DEF Struck
    <2>2. Cardinality(Struck') = 0
      BY <2>1, FS_EmptySet
    <2> QED
      BY <1>1, <2>2 DEF StrikeInv
  <1> QED
    BY <1>3, <1>4, <1>5, <1>6 DEF PassesInv

LEMMA RefreshInvInit == ASSUME RefreshInit PROVE RefreshInv
  <1>0. /\ version = 1 /\ streak = 0 /\ grounds = 0 /\ crossed = {}
        /\ deciding = [p \in Refreshers |-> "none"]
        /\ columns = [c \in Columns |-> 1] /\ rpc = [p \in Refreshers |-> "idle"]
        /\ read = [p \in Refreshers |-> NothingRead] /\ 1 \in Versions
    BY ReportsCount DEF RefreshInit
  <1>1. RefreshTypes
    BY <1>0, ReportsCount DEF RefreshTypes, Rpcs
  <1>2. \A p \in Refreshers: ReadInv(p) /\ AloneInv(p)
    BY <1>0, ReportsCount DEF ReadInv, AloneInv, WithUser
  <1>3. \A c \in Columns: columns[c] <= version
    BY <1>0
  <1>4. StrikeInv
    <2>1. Struck = {}
      BY <1>0, ReportsCount DEF Struck
    <2>2. Cardinality(Struck) = 0
      BY <2>1, FS_EmptySet
    <2> QED
      BY <1>0, <2>2 DEF StrikeInv
  <1>5. RowInv
    BY TokenKnown DEF RefreshInit, RowInv, UnlimSetWhole, GraceExplained
  <1> QED
    BY <1>1, <1>2, <1>3, <1>4, <1>5 DEF RefreshInv, PassesInv

LEMMA RefreshKept ==
  ASSUME RefreshInv, RefreshNext \/ UNCHANGED refreshVars PROVE RefreshInv'
  <1>1. RowInv'
    BY RowKept DEF RefreshInv
  <1>2. PassesInv' /\ StrikeInv'
    <2>0. PassesInv /\ StrikeInv /\ RefreshTypes
      BY DEF RefreshInv, PassesInv
    <2>1. ASSUME NEW p \in Refreshers, PassStep(p) PROVE PassesInv' /\ StrikeInv'
      BY <2>0, <2>1, PassesKept, StrikeKept
    <2>2. CASE UNCHANGED refreshVars
      <3>1. UNCHANGED <<version, streak, deciding, grounds, columns, rpc, read, crossed>>
        BY <2>2 DEF refreshVars, standing
      <3>2. \A p \in Refreshers: ReadInv(p)' /\ AloneInv(p)'
        BY <2>0, <3>1 DEF PassesInv, ReadInv, AloneInv
      <3>3. RefreshTypes' /\ StrikeInv'
        BY <2>0, <3>1 DEF RefreshTypes, StrikeInv, Struck, Versions, ReadTypes
      <3> QED
        BY <2>0, <3>1, <3>2, <3>3 DEF PassesInv
    <2>3. CASE ReportChanges
      BY <2>0, <2>3, ReportsKept
    <2>4. CASE RecordSuccess
      BY <2>0, <2>4, SuccessKeeps
    <2>5. CASE OthersRaise \/ \E p \in Refreshers: Decides(p)
      BY <2>0, <2>5, StandingKept
    <2> QED
      BY <2>0, <2>1, <2>2, <2>3, <2>4, <2>5, ActionIsPassStep DEF RefreshNext
  <1> QED
    BY <1>1, <1>2 DEF RefreshInv

LEMMA RefreshInvariant == Spec => []RefreshInv
  <1>1. Init => RefreshInv
    BY RefreshInvInit DEF Init
  <1>2. [Next]_vars => RefreshNext \/ UNCHANGED refreshVars
    BY DEF Next, vars, Tick, Restart, InvoiceStep, PromoStep, ReconStep, RefreshStep, ReplenishStep, RegressStep,
           Follows, Others
  <1> QED
    BY <1>1, <1>2, RefreshKept, PTL DEF Spec

\* refresher: a pass that never overlapped another one brings every column of
\* the row forward, whichever of its calls fail.
THEOREM ColumnsAlwaysAdvance == Spec => ColumnsAdvance
  <1> DEFINE Forward == \A p \in Refreshers \ crossed: rpc[p] # "idle" /\ rpc'[p] # rpc[p] =>
                            \A c \in Columns: columns'[c] >= columns[c]
  <1>1. ASSUME RefreshInv, [Next]_vars PROVE [Forward]_refreshVars
    <2>0. PassesInv /\ RefreshTypes
      BY <1>1 DEF RefreshInv, PassesInv
    <2>1. ASSUME NEW q \in Refreshers, PassStep(q) PROVE Forward
      <3> SUFFICES ASSUME NEW p \in Refreshers \ crossed, rpc[p] # "idle", rpc'[p] # rpc[p], NEW c \in Columns
                   PROVE  columns'[c] >= columns[c]
        OBVIOUS
      <3>1. p = q
        BY <2>1 DEF PassStep
      <3> QED
        BY <2>0, <2>1, <3>1, PassColumns
    <2>2. CASE ReportChanges \/ RecordSuccess \/ OthersRaise \/ \E p \in Refreshers: Decides(p)
      <3>1. rpc' = rpc
        BY <2>2 DEF ReportChanges, RecordSuccess, OthersRaise, Decides
      <3> QED
        BY <3>1
    <2>3. RefreshNext \/ UNCHANGED refreshVars
      BY <1>1 DEF Next, vars, Tick, Restart, InvoiceStep, PromoStep, ReconStep, RefreshStep, ReplenishStep, RegressStep,
           Follows, Others
    <2> QED
      BY <2>0, <2>1, <2>2, <2>3, ActionIsPassStep DEF RefreshNext
  <1> QED
    BY <1>1, RefreshInvariant, PTL DEF Spec, ColumnsAdvance
----------------------------------------------------------------------------
(* The regression probes, and the types of everything together *)

Catalogue == Range(Models)
RegressTypes ==
    /\ stamp \in 0..MaxProbes /\ health \in [Catalogue -> 0..MaxProbes]
    /\ probing \in [Probers -> SUBSET ImageModels] /\ begun \in [Probers -> [Catalogue -> 0..MaxProbes]]
RegressInv == RegressTypes /\ \A p \in Probers: Cardinality(InFlight(p)) <= Concurrency

LEMMA LaterIs == ASSUME NEW a \in Nat, NEW b \in Nat PROVE Max({a, b}) \in {a, b} /\ Max({a, b}) >= a /\ Max({a, b}) >= b
  <1>1. \E x \in {a, b}: \A y \in {a, b}: x >= y
    OBVIOUS
  <1> QED
    BY <1>1 DEF Max

LEMMA RegressKept ==
  ASSUME RegressInv, RegressNext \/ UNCHANGED regressVars PROVE RegressInv'
  <1>0. /\ RegressTypes /\ MaxProbes \in Nat /\ Concurrency \in Nat /\ ImageModels \subseteq Catalogue
        /\ IsFiniteSet(ImageModels) /\ 0 \in 0..MaxProbes
    BY RegressionAssumption DEF RegressInv, Catalogue
  <1>1. CASE UNCHANGED regressVars
    BY <1>1 DEF regressVars, RegressInv, RegressTypes, InFlight, Catalogue
  <1>2. ASSUME NEW p \in Probers, RegressTypes',
               \A q \in Probers \ {p}: probing'[q] = probing[q] /\ begun'[q] = begun[q],
               Cardinality(InFlight(p)') <= Concurrency
        PROVE  RegressInv'
    <2>1. \A q \in Probers \ {p}: InFlight(q)' = InFlight(q)
      BY <1>2 DEF InFlight
    <2>2. \A q \in Probers \ {p}: Cardinality(InFlight(q)') <= Concurrency
      BY <2>1 DEF RegressInv
    <2> QED
      BY <1>2, <2>2 DEF RegressInv
  <1>3. ASSUME NEW p \in Probers
        PROVE  IsFiniteSet(InFlight(p)) /\ Cardinality(InFlight(p)) \in Nat /\ Cardinality(InFlight(p)) <= Concurrency
    <2>1. InFlight(p) \in SUBSET ImageModels
      BY <1>0 DEF RegressTypes, InFlight
    <2> QED
      BY <1>0, <2>1, FS_Subset, FS_CardinalityType DEF RegressInv
  <1>4. ASSUME NEW p \in Probers, RegressTick(p) PROVE RegressInv'
    <2>1. NotBegun \in [Catalogue -> 0..MaxProbes] /\ \A m \in Catalogue: NotBegun[m] = 0
      BY <1>0 DEF NotBegun, Catalogue
    <2>2. PICK lost \in SUBSET ImageModels: probing' = [probing EXCEPT ![p] = PickCandidates(Lookups(lost))]
      BY <1>4 DEF RegressTick
    <2>3. PickCandidates(Lookups(lost)) \in SUBSET ImageModels
      BY DEF PickCandidates, IsImageModel
    <2>4. /\ begun' = [begun EXCEPT ![p] = NotBegun] /\ health' = health /\ stamp' = stamp
      BY <1>4 DEF RegressTick
    <2>5. RegressTypes'
      BY <1>0, <2>1, <2>2, <2>3, <2>4 DEF RegressTypes, Catalogue
    <2>6. InFlight(p)' = {}
      BY <1>0, <2>1, <2>2, <2>3, <2>4 DEF InFlight, RegressTypes
    <2>7. Cardinality(InFlight(p)') <= Concurrency
      BY <1>0, <2>6, FS_EmptySet
    <2> QED
      BY <1>0, <1>2, <2>2, <2>4, <2>5, <2>7 DEF RegressTypes
  <1>5. ASSUME NEW p \in Probers, NEW m \in Catalogue, ProbeStarts(p, m) PROVE RegressInv'
    <2>1. stamp < MaxProbes /\ stamp' = stamp + 1 /\ begun' = [begun EXCEPT ![p][m] = stamp + 1] /\ UNCHANGED <<health, probing>>
          /\ Cardinality(InFlight(p)) < Concurrency
      BY <1>5 DEF ProbeStarts
    <2>2. stamp + 1 \in 0..MaxProbes
      BY <1>0, <2>1 DEF RegressTypes
    <2>3. RegressTypes'
      BY <1>0, <2>1, <2>2 DEF RegressTypes, Catalogue
    <2>4. begun'[p] = [begun[p] EXCEPT ![m] = stamp + 1]
      BY <1>0, <2>1 DEF RegressTypes
    <2>5. InFlight(p)' \in SUBSET (InFlight(p) \cup {m})
      BY <1>0, <2>1, <2>4 DEF InFlight, RegressTypes
    <2>6. Cardinality(InFlight(p)') <= Concurrency
      <3>1. IsFiniteSet(InFlight(p) \cup {m}) /\ Cardinality(InFlight(p) \cup {m}) <= Cardinality(InFlight(p)) + 1
        BY <1>3, FS_AddElement
      <3>2. Cardinality(InFlight(p)') <= Cardinality(InFlight(p) \cup {m}) /\ IsFiniteSet(InFlight(p)')
        BY <2>5, <3>1, FS_Subset
      <3>3. Cardinality(InFlight(p)') \in Nat /\ Cardinality(InFlight(p) \cup {m}) \in Nat
        BY <3>1, <3>2, FS_CardinalityType
      <3> QED
        BY <1>0, <1>3, <2>1, <3>1, <3>2, <3>3
    <2> QED
      BY <1>0, <1>2, <2>1, <2>3, <2>6 DEF RegressTypes
  <1>6. ASSUME NEW p \in Probers, NEW m \in Catalogue, ProbeRecorded(p, m) \/ InsertFails(p, m) PROVE RegressInv'
    <2>1. /\ m \in InFlight(p) /\ probing' = [probing EXCEPT ![p] = @ \ {m}] /\ UNCHANGED <<begun, stamp>>
          /\ health' = health \/ health' = [health EXCEPT ![m] = Max({@, begun[p][m]})]
      BY <1>6 DEF ProbeRecorded, InsertFails
    <2>2. Max({health[m], begun[p][m]}) \in 0..MaxProbes
      BY <1>0, LaterIs DEF RegressTypes
    <2>3. RegressTypes'
      BY <1>0, <2>1, <2>2 DEF RegressTypes, Catalogue
    <2>4. InFlight(p)' \in SUBSET InFlight(p)
      BY <1>0, <2>1 DEF InFlight, RegressTypes
    <2>5. Cardinality(InFlight(p)') <= Cardinality(InFlight(p)) /\ Cardinality(InFlight(p)') \in Nat
      BY <1>3, <2>4, FS_Subset, FS_CardinalityType
    <2>6. Cardinality(InFlight(p)') <= Concurrency
      BY <1>0, <1>3, <2>5
    <2> QED
      BY <1>0, <1>2, <2>1, <2>3, <2>6 DEF RegressTypes
  <1> QED
    BY <1>1, <1>4, <1>5, <1>6 DEF RegressNext, Catalogue

LEMMA RegressInvariant == Spec => []RegressInv
  <1>1. Init => RegressInv
    <2> SUFFICES ASSUME RegressInit PROVE RegressInv
      BY DEF Init
    <2>0. 0 \in 0..MaxProbes /\ Concurrency \in Nat
      BY RegressionAssumption
    <2>1. RegressTypes
      BY <2>0 DEF RegressInit, RegressTypes, Catalogue, NotBegun
    <2>2. \A p \in Probers: InFlight(p) = {}
      BY DEF RegressInit, InFlight
    <2> QED
      BY <2>0, <2>1, <2>2, FS_EmptySet DEF RegressInv
  <1>2. [Next]_vars => RegressNext \/ UNCHANGED regressVars
    BY DEF Next, vars, Tick, Restart, InvoiceStep, PromoStep, ReconStep, RefreshStep, ReplenishStep, RegressStep,
           Follows, Others
  <1> QED
    BY <1>1, <1>2, RegressKept, PTL DEF Spec

\* The image models other than m that `latest` puts before it.
Sooner(latest, m) == {n \in ImageModels: n # m /\ Before(latest, n, m)}

LEMMA Positions == \A m \in Catalogue: Position(m) \in Nat /\ Models[Position(m)] = m
  <1>1. Models \in Seq(Catalogue) /\ \A m \in Catalogue: \E i \in DOMAIN Models: Models[i] = m
    BY RegressionAssumption DEF Catalogue, Range
  <1>2. DOMAIN Models \subseteq Nat
    BY <1>1
  <1> QED
    BY <1>1, <1>2 DEF Position

(* The order a pass sorts by is strict and total. *)
LEMMA BeforeOrders ==
  ASSUME NEW latest \in [Catalogue -> Nat], NEW l \in Catalogue, NEW m \in Catalogue, NEW n \in Catalogue
  PROVE  /\ ~Before(latest, m, m) /\ (m = n \/ Before(latest, m, n) \/ Before(latest, n, m))
         /\ Before(latest, l, m) /\ Before(latest, m, n) => Before(latest, l, n)
  <1>1. /\ latest[l] \in Nat /\ latest[m] \in Nat /\ latest[n] \in Nat
        /\ Position(l) \in Nat /\ Position(m) \in Nat /\ Position(n) \in Nat
        /\ Position(m) = Position(n) => m = n
    BY Positions
  <1> QED
    BY <1>1 DEF Before

(* A model that is not picked has SampleSize others picked before it: ranks *)
(* number the image models from 0 without a gap.                            *)
LEMMA PickedFirst ==
  ASSUME NEW latest \in [Catalogue -> Nat], NEW m \in ImageModels, m \notin PickCandidates(latest)
  PROVE  /\ PickCandidates(latest) \subseteq Sooner(latest, m)
         /\ SampleSize <= Cardinality(PickCandidates(latest))
  <1> DEFINE N == Cardinality(ImageModels)
             rank == [x \in ImageModels |-> Cardinality(Sooner(latest, x))]
             P == PickCandidates(latest)
  <1>0. /\ IsFiniteSet(ImageModels) /\ ImageModels \subseteq Catalogue /\ SampleSize \in Nat \ {0} /\ N \in Nat
    BY RegressionAssumption, FS_CardinalityType DEF Catalogue
  <1>1. P = {x \in ImageModels: rank[x] < SampleSize}
    BY <1>0 DEF PickCandidates, IsImageModel, Sooner, Catalogue
  <1>2. \A x \in ImageModels: /\ IsFiniteSet(Sooner(latest, x)) /\ rank[x] \in 0..(N - 1)
    <2> TAKE x \in ImageModels
    <2>1. Sooner(latest, x) \in SUBSET (ImageModels \ {x})
      BY DEF Sooner
    <2>2. IsFiniteSet(ImageModels \ {x}) /\ Cardinality(ImageModels \ {x}) = N - 1
      BY <1>0, FS_RemoveElement
    <2> QED
      BY <1>0, <2>1, <2>2, FS_Subset, FS_CardinalityType
  <1>3. ASSUME NEW x \in ImageModels, NEW y \in ImageModels, x # y, Before(latest, x, y) PROVE rank[x] < rank[y]
    <2>1. x \notin Sooner(latest, x) /\ Sooner(latest, x) \cup {x} \in SUBSET Sooner(latest, y)
      BY <1>0, <1>3, BeforeOrders DEF Sooner
    <2>2. Cardinality(Sooner(latest, x) \cup {x}) = rank[x] + 1
      BY <1>2, <2>1, FS_AddElement
    <2>3. Cardinality(Sooner(latest, x) \cup {x}) <= Cardinality(Sooner(latest, y))
      BY <1>2, <2>1, FS_Subset
    <2> QED
      BY <1>2, <2>2, <2>3
  <1>4. \A x, y \in ImageModels: x = y \/ Before(latest, x, y) \/ Before(latest, y, x)
    BY <1>0, BeforeOrders
  <1>5. rank \in Injection(ImageModels, 0..(N - 1))
    <2>1. rank \in [ImageModels -> 0..(N - 1)]
      BY <1>2
    <2>2. \A x, y \in ImageModels: rank[x] = rank[y] => x = y
      BY <1>2, <1>3, <1>4
    <2> QED
      BY <2>1, <2>2 DEF Injection, IsInjective
  <1>6. rank \in Surjection(ImageModels, 0..(N - 1))
    BY <1>0, <1>5, FS_Interval, FS_Injection
  <1> HIDE DEF rank, N
  <1>7. SampleSize <= rank[m]
    BY <1>0, <1>1, <1>2
  <1>8. P \subseteq Sooner(latest, m)
    <2> SUFFICES ASSUME NEW x \in P PROVE x \in Sooner(latest, m)
      OBVIOUS
    <2>1. x \in ImageModels /\ rank[x] < SampleSize /\ x # m
      BY <1>1
    <2>2. ~(rank[m] < rank[x])
      BY <1>0, <1>2, <1>7, <2>1
    <2> QED
      BY <1>3, <1>4, <2>1, <2>2 DEF Sooner
  <1>9. SampleSize <= Cardinality(P)
    <2> DEFINE top == [x \in P |-> rank[x]]
               S == 0..(SampleSize - 1)
    <2>1. top \in [P -> S]
      BY <1>0, <1>1, <1>2
    <2>2. \A i \in S: i \in 0..(N - 1)
      BY <1>0, <1>2, <1>7
    <2>3. \A i \in S: \E x \in P: top[x] = i
      BY <1>0, <1>1, <1>6, <2>2 DEF Surjection
    <2>4. top \in Surjection(P, S)
      BY <2>1, <2>3 DEF Surjection
    <2>5. IsFiniteSet(P)
      BY <1>0, <1>1, FS_Subset
    <2>6. Cardinality(S) <= Cardinality(P)
      BY <2>4, <2>5, FS_Surjection
    <2>7. Cardinality(S) = SampleSize
      BY <1>0, FS_Interval
    <2> QED
      BY <2>6, <2>7
  <1> QED
    BY <1>8, <1>9

(* A model waits for its turn behind those nobody is probing and that were  *)
(* last probed before it.                                                   *)
Unprobed == {m \in ImageModels: \A p \in Probers: m \notin probing[p]}
Ahead(m) == Unprobed \cap Sooner(health, m)
\* Nothing begun before the model's last probe is still to be recorded.
Settled(m) == m \in Unprobed /\ \A p \in Probers: \A n \in probing[p]: begun[p][n] # 0 => begun[p][n] > health[m]
RoundsTypes ==
    /\ missed \in [Catalogue -> Nat] /\ slack \in Nat
    /\ \A m \in Catalogue: health[m] <= stamp /\ \A p \in Probers: begun[p][m] <= stamp
\* Either every tick since the model was picked is paid for by slack, or each
\* of the others brought it SampleSize models closer to its turn.
Waits(m) ==
    \/ missed[m] <= slack
    \/ /\ Settled(m)
       /\ SampleSize * missed[m] + Cardinality(Ahead(m)) <= Cardinality(ImageModels) - 1 + SampleSize * slack
RotateInv == RoundsTypes /\ \A m \in ImageModels: Waits(m)

RegressFacts ==
    /\ RegressTypes /\ RoundsTypes /\ ImageModels \subseteq Catalogue /\ IsFiniteSet(ImageModels)
    /\ SampleSize \in Nat \ {0} /\ MaxProbes \in Nat

LEMMA AheadCounted ==
  ASSUME RegressFacts, NEW m \in ImageModels
  PROVE  /\ IsFiniteSet(Ahead(m)) /\ Cardinality(Ahead(m)) \in Nat
         /\ Cardinality(ImageModels) \in Nat /\ Cardinality(Ahead(m)) <= Cardinality(ImageModels) - 1
  <1>1. Ahead(m) \in SUBSET (ImageModels \ {m})
    BY DEF Ahead, Sooner
  <1>2. IsFiniteSet(ImageModels \ {m}) /\ Cardinality(ImageModels \ {m}) = Cardinality(ImageModels) - 1
    BY FS_RemoveElement DEF RegressFacts
  <1> QED
    BY <1>1, <1>2, FS_Subset, FS_CardinalityType DEF RegressFacts

LEMMA Multiples ==
  ASSUME NEW S \in Nat \ {0}, NEW a \in Nat, NEW b \in Nat
  PROVE  /\ S * a \in Nat /\ S * (a + 1) = S * a + S /\ S * (a + b) = S * a + S * b /\ b <= S * b
         /\ a <= b => S * a <= S * b
  OBVIOUS

(* Fewer ahead, no more ticks: the wait of a settled model goes on as before.*)
LEMMA WaitGoesOn ==
  ASSUME RegressFacts, RegressFacts', NEW m \in ImageModels, Waits(m),
         missed'[m] = missed[m], slack' = slack, Settled(m) => Settled(m)' /\ Ahead(m)' \subseteq Ahead(m)
  PROVE  Waits(m)'
  <1>1. CASE Settled(m)
    <2>1. Cardinality(Ahead(m)') <= Cardinality(Ahead(m)) /\ Cardinality(Ahead(m)') \in Nat
      BY <1>1, AheadCounted, FS_Subset, FS_CardinalityType
    <2> QED
      BY <1>1, <2>1, AheadCounted, Multiples DEF Waits, RegressFacts, RoundsTypes
  <1> QED
    BY <1>1 DEF Waits

(* A tick with nothing in flight takes the turn of SampleSize models, less   *)
(* those picked because their last probe could not be read.                  *)
LEMMA CleanTick ==
  ASSUME RegressFacts, NEW m \in ImageModels, \A p \in Probers: probing[p] = {},
         NEW lost \in SUBSET ImageModels, NEW p \in Probers,
         probing' = [probing EXCEPT ![p] = PickCandidates(Lookups(lost))], health' = health,
         m \notin PickCandidates(Lookups(lost))
  PROVE  /\ Ahead(m)' \subseteq Ahead(m) /\ Cardinality(lost) \in Nat
         /\ Cardinality(Ahead(m)') + SampleSize <= Cardinality(Ahead(m)) + Cardinality(lost)
  <1> DEFINE P == PickCandidates(Lookups(lost))
             A == Ahead(m)
             B == Ahead(m)'
  <1>0. /\ IsFiniteSet(lost) /\ Cardinality(lost) \in Nat /\ Lookups(lost) \in [Catalogue -> Nat]
        /\ P \subseteq ImageModels /\ \A n \in Catalogue: Lookups(lost)[n] = IF n \in lost THEN 0 ELSE health[n]
    BY FS_Subset, FS_CardinalityType DEF RegressFacts, RegressTypes, Lookups, Catalogue, PickCandidates, IsImageModel
  <1>1. P \subseteq Sooner(Lookups(lost), m) /\ SampleSize <= Cardinality(P)
    BY <1>0, PickedFirst
  <1>2. P \ lost \subseteq A
    <2> SUFFICES ASSUME NEW n \in P, n \notin lost PROVE n \in A
      OBVIOUS
    <2>1. n \in ImageModels /\ n # m /\ Before(Lookups(lost), n, m) /\ n \in Unprobed
      BY <1>1 DEF Sooner, Unprobed
    <2>2. Lookups(lost)[n] = health[n] /\ Lookups(lost)[m] <= health[m] /\ n \in Catalogue /\ m \in Catalogue
          /\ health[n] \in Nat /\ health[m] \in Nat /\ Lookups(lost)[m] \in Nat
      BY <1>0, <2>1 DEF RegressFacts, RegressTypes
    <2>3. Before(health, n, m)
      BY <2>1, <2>2, Positions DEF Before
    <2> QED
      BY <2>1, <2>3 DEF Ahead, Sooner
  <1>3. B \subseteq A \ (P \ lost)
    <2>1. probing'[p] = P
      BY DEF RegressFacts, RegressTypes
    <2>2. Unprobed' \subseteq Unprobed \ P
      BY <2>1 DEF Unprobed
    <2> QED
      BY <2>2 DEF Ahead, Sooner
  <1>4. IsFiniteSet(A) /\ Cardinality(A) \in Nat /\ IsFiniteSet(P)
    BY <1>0, AheadCounted, FS_Subset DEF RegressFacts
  <1>5. /\ IsFiniteSet(P \ lost) /\ Cardinality(P \ lost) \in Nat
        /\ SampleSize <= Cardinality(P \ lost) + Cardinality(lost)
    <2>1. IsFiniteSet(P \cap lost) /\ Cardinality(P \cap lost) <= Cardinality(lost) /\ Cardinality(P \cap lost) \in Nat
      BY <1>0, FS_Subset, FS_CardinalityType
    <2>2. IsFiniteSet(P \ lost) /\ Cardinality(P \ lost) = Cardinality(P) - Cardinality(P \cap lost)
      BY <1>0, <1>4, FS_Difference
    <2>3. Cardinality(P) \in Nat /\ SampleSize \in Nat /\ Cardinality(P \ lost) \in Nat
      BY <1>4, <2>2, FS_CardinalityType DEF RegressFacts
    <2> QED
      BY <1>0, <1>1, <2>1, <2>2, <2>3
  <1>6. /\ IsFiniteSet(A \ (P \ lost)) /\ Cardinality(A \ (P \ lost)) = Cardinality(A) - Cardinality(P \ lost)
    <2>1. A \cap (P \ lost) = P \ lost
      BY <1>2
    <2> QED
      BY <1>4, <1>5, <2>1, FS_Difference
  <1>7. Cardinality(B) <= Cardinality(A) - Cardinality(P \ lost) /\ Cardinality(B) \in Nat
    BY <1>3, <1>6, FS_Subset, FS_CardinalityType
  <1> HIDE DEF A, B, P
  <1>8. B \subseteq A
    BY <1>3
  <1>9. SampleSize \in Nat
    BY DEF RegressFacts
  <1> QED
    BY <1>0, <1>4, <1>5, <1>7, <1>8, <1>9 DEF A, B

LEMMA TickKeepsWait ==
  ASSUME RegressFacts, RegressFacts', NEW p \in Probers, RegressTick(p), NEW m \in ImageModels, Waits(m)
  PROVE  Waits(m)'
  <1>1. PICK lost \in SUBSET ImageModels:
          /\ probing' = [probing EXCEPT ![p] = PickCandidates(Lookups(lost))]
          /\ slack' = slack + Cardinality(lost) + (IF \E q \in Probers: probing[q] # {} THEN 1 ELSE 0)
    BY DEF RegressTick
  <1>2. /\ missed' = [n \in Range(Models) |-> IF n \in probing'[p] THEN 0 ELSE missed[n] + 1]
        /\ begun' = [begun EXCEPT ![p] = NotBegun] /\ UNCHANGED <<health, stamp>> /\ probing[p] = {}
    BY DEF RegressTick
  <1>3. /\ m \in Catalogue /\ slack \in Nat /\ missed[m] \in Nat /\ SampleSize \in Nat \ {0}
        /\ Cardinality(lost) \in Nat /\ probing'[p] = PickCandidates(Lookups(lost))
        /\ Cardinality(ImageModels) \in Nat
    BY <1>1, FS_Subset, FS_CardinalityType DEF RegressFacts, RegressTypes, RoundsTypes
  <1>4. CASE m \in probing'[p]
    <2>1. missed'[m] = 0 /\ slack' \in Nat
      BY <1>1, <1>2, <1>3, <1>4 DEF Catalogue
    <2> QED
      BY <2>1 DEF Waits
  <1>5. CASE m \notin probing'[p]
    <2>1. missed'[m] = missed[m] + 1
      BY <1>2, <1>3, <1>5 DEF Catalogue
    <2>2. Settled(m) => Settled(m)' 
      <3>1. begun'[p] = NotBegun /\ \A n \in probing'[p]: NotBegun[n] = 0
        BY <1>2, <1>3 DEF RegressFacts, RegressTypes, NotBegun, PickCandidates
      <3>2. \A q \in Probers \ {p}: probing'[q] = probing[q] /\ begun'[q] = begun[q]
        BY <1>1, <1>2 DEF RegressFacts, RegressTypes
      <3>3. m \in Unprobed => m \in Unprobed'
        BY <1>5, <3>2 DEF Unprobed
      <3> SUFFICES ASSUME Settled(m), NEW q \in Probers, NEW n \in probing'[q], begun'[q][n] # 0
                   PROVE  begun'[q][n] > health'[m]
        BY <3>3 DEF Settled
      <3>4. q # p
        BY <3>1
      <3> QED
        BY <1>2, <3>2, <3>4 DEF Settled
    <2>3. CASE \E q \in Probers: probing[q] # {}
      <3>1. slack' = slack + Cardinality(lost) + 1
        BY <1>1, <2>3
      <3>2. Ahead(m)' \subseteq Ahead(m)
        <4>1. \A q \in Probers: probing[q] \subseteq probing'[q]
          BY <1>1, <1>2 DEF RegressFacts, RegressTypes
        <4> QED
          BY <1>2, <4>1 DEF Ahead, Unprobed, Sooner
      <3>3. CASE missed[m] <= slack
        BY <1>3, <2>1, <3>1, <3>3 DEF Waits
      <3>4. CASE /\ Settled(m)
                 /\ SampleSize * missed[m] + Cardinality(Ahead(m)) <= Cardinality(ImageModels) - 1 + SampleSize * slack
        <4>1. Cardinality(Ahead(m)') <= Cardinality(Ahead(m)) /\ Cardinality(Ahead(m)') \in Nat
              /\ Cardinality(Ahead(m)) \in Nat
          BY <3>2, AheadCounted, FS_Subset, FS_CardinalityType
        <4>2. /\ SampleSize * (missed[m] + 1) = SampleSize * missed[m] + SampleSize
              /\ SampleSize * slack' >= SampleSize * (slack + 1)
              /\ SampleSize * (slack + 1) = SampleSize * slack + SampleSize
              /\ SampleSize * missed[m] \in Nat /\ SampleSize * slack \in Nat /\ SampleSize * slack' \in Nat
          <5>1. slack + 1 \in Nat /\ slack' \in Nat /\ slack + 1 <= slack'
            BY <1>3, <3>1
          <5> QED
            BY <1>3, <5>1, Multiples
        <4>3. SampleSize * missed'[m] + Cardinality(Ahead(m)') <= Cardinality(ImageModels) - 1 + SampleSize * slack'
          BY <1>3, <2>1, <3>4, <4>1, <4>2
        <4> QED
          BY <2>2, <3>4, <4>3 DEF Waits
      <3> QED
        BY <3>3, <3>4 DEF Waits
    <2>4. CASE \A q \in Probers: probing[q] = {}
      <3>1. slack' = slack + Cardinality(lost)
        BY <1>1, <1>3, <2>4
      <3>2. Settled(m)
        BY <2>4 DEF Settled, Unprobed
      <3>3. /\ Cardinality(Ahead(m)') + SampleSize <= Cardinality(Ahead(m)) + Cardinality(lost)
            /\ Cardinality(Ahead(m)') \in Nat /\ Cardinality(Ahead(m)) \in Nat
            /\ Cardinality(Ahead(m)) <= Cardinality(ImageModels) - 1
        <4>1. Cardinality(Ahead(m)') \in Nat
          <5>1. Ahead(m)' \in SUBSET Ahead(m)
            BY <1>1, <1>2, <1>3, <1>5, <2>4, CleanTick
          <5> QED
            BY <5>1, AheadCounted, FS_Subset, FS_CardinalityType
        <4> QED
          BY <1>1, <1>2, <1>3, <1>5, <2>4, <4>1, CleanTick, AheadCounted
      <3>4. /\ SampleSize * (missed[m] + 1) = SampleSize * missed[m] + SampleSize
            /\ SampleSize * slack' = SampleSize * slack + SampleSize * Cardinality(lost)
            /\ Cardinality(lost) <= SampleSize * Cardinality(lost)
            /\ SampleSize * missed[m] \in Nat /\ SampleSize * slack \in Nat /\ SampleSize * Cardinality(lost) \in Nat
            /\ missed[m] <= slack => SampleSize * missed[m] <= SampleSize * slack
        BY <1>3, <3>1, Multiples
      <3>5. SampleSize * missed[m] + Cardinality(Ahead(m)) <= Cardinality(ImageModels) - 1 + SampleSize * slack
        BY <1>3, <3>3, <3>4 DEF Waits
      <3>6. SampleSize * missed'[m] + Cardinality(Ahead(m)') <= Cardinality(ImageModels) - 1 + SampleSize * slack'
        BY <1>3, <2>1, <3>3, <3>4, <3>5
      <3> QED
        BY <2>2, <3>2, <3>6 DEF Waits
    <2> QED
      BY <2>3, <2>4
  <1> QED
    BY <1>4, <1>5

LEMMA StartKeepsWait ==
  ASSUME RegressFacts, RegressFacts', NEW p \in Probers, NEW n \in Catalogue, ProbeStarts(p, n),
         NEW m \in ImageModels, Waits(m)
  PROVE  Waits(m)'
  <1>1. begun' = [begun EXCEPT ![p][n] = stamp + 1] /\ UNCHANGED <<health, probing, missed, slack>>
    BY DEF ProbeStarts
  <1>2. m \in Catalogue /\ stamp \in Nat /\ health[m] \in Nat /\ health[m] <= stamp
    BY DEF RegressFacts, RegressTypes, RoundsTypes
  <1>3. \A q \in Probers: \A k \in Catalogue:
          begun'[q][k] = begun[q][k] \/ begun'[q][k] = stamp + 1
    BY <1>1 DEF RegressFacts, RegressTypes
  <1>4. \A q \in Probers: probing[q] \subseteq Catalogue
    BY DEF RegressFacts, RegressTypes
  <1>5. Settled(m) => Settled(m)'
    BY <1>1, <1>2, <1>3, <1>4 DEF Settled, Unprobed
  <1>6. Ahead(m)' = Ahead(m)
    BY <1>1 DEF Ahead, Unprobed, Sooner
  <1> QED
    BY <1>1, <1>5, <1>6, WaitGoesOn

(* A recorded probe does not come before a settled model: it began later.   *)
LEMMA RecordKeepsWait ==
  ASSUME RegressFacts, RegressFacts', NEW p \in Probers, NEW n \in Catalogue, ProbeRecorded(p, n),
         NEW m \in ImageModels, Waits(m)
  PROVE  Waits(m)'
  <1>1. /\ n \in probing[p] /\ begun[p][n] # 0 /\ UNCHANGED <<begun, stamp, missed, slack>>
        /\ probing' = [probing EXCEPT ![p] = @ \ {n}] /\ health' = [health EXCEPT ![n] = Max({@, begun[p][n]})]
    BY DEF ProbeRecorded, InFlight
  <1>2. \A q \in Probers: probing'[q] = IF q = p THEN probing[q] \ {n} ELSE probing[q]
    BY <1>1 DEF RegressFacts, RegressTypes
  <1>3. /\ \A k \in Catalogue: k # n => health'[k] = health[k]
        /\ health'[n] = Max({health[n], begun[p][n]})
        /\ ImageModels \subseteq Catalogue /\ \A k \in Catalogue: health[k] \in Nat /\ health'[k] \in Nat
        /\ begun[p][n] \in Nat
    BY <1>1 DEF RegressFacts, RegressTypes
  <1>4. health'[n] >= begun[p][n]
    BY <1>3, LaterIs
  <1>5. ASSUME Settled(m) PROVE Settled(m)' /\ Ahead(m)' \subseteq Ahead(m)
    <2>1. m # n /\ begun[p][n] > health[m] /\ health'[m] = health[m]
      BY <1>1, <1>3, <1>5 DEF Settled, Unprobed
    <2>2. Settled(m)'
      BY <1>1, <1>2, <1>5, <2>1 DEF Settled, Unprobed
    <2>3. ~Before(health', n, m)
      <3>1. health'[n] > health'[m]
        BY <1>3, <1>4, <2>1
      <3> QED
        BY <1>3, <2>1, <3>1 DEF Before
    <2>4. \A k \in ImageModels: k # n /\ k \in Unprobed' => k \in Unprobed
      BY <1>2 DEF Unprobed
    <2>5. \A k \in ImageModels: k # n /\ Before(health', k, m) => Before(health, k, m)
      BY <1>3, <2>1 DEF Before
    <2> QED
      BY <2>2, <2>3, <2>4, <2>5 DEF Ahead, Sooner, Unprobed
  <1> QED
    BY <1>1, <1>5, WaitGoesOn

(* A failed insert leaves its model where it was, at most one more ahead.    *)
LEMMA LossKeepsWait ==
  ASSUME RegressFacts, RegressFacts', NEW p \in Probers, NEW n \in Catalogue, InsertFails(p, n),
         NEW m \in ImageModels, Waits(m)
  PROVE  Waits(m)'
  <1>1. /\ UNCHANGED <<health, begun, stamp, missed>> /\ slack' = slack + 1
        /\ probing' = [probing EXCEPT ![p] = @ \ {n}]
    BY DEF InsertFails
  <1>2. \A q \in Probers: probing'[q] \subseteq probing[q] /\ probing[q] \subseteq probing'[q] \cup {n}
    BY <1>1 DEF RegressFacts, RegressTypes
  <1>3. /\ slack \in Nat /\ missed[m] \in Nat /\ SampleSize \in Nat \ {0} /\ Cardinality(ImageModels) \in Nat
        /\ Cardinality(Ahead(m)) \in Nat /\ IsFiniteSet(Ahead(m))
    BY AheadCounted DEF RegressFacts, RoundsTypes
  <1>4. CASE missed[m] <= slack
    BY <1>1, <1>3, <1>4 DEF Waits
  <1>5. CASE /\ Settled(m)
             /\ SampleSize * missed[m] + Cardinality(Ahead(m)) <= Cardinality(ImageModels) - 1 + SampleSize * slack
    <2>1. Settled(m)'
      BY <1>1, <1>2, <1>5 DEF Settled, Unprobed
    <2>2. Ahead(m)' \in SUBSET (Ahead(m) \cup {n})
      BY <1>1, <1>2 DEF Ahead, Unprobed, Sooner
    <2>3. /\ IsFiniteSet(Ahead(m) \cup {n}) /\ Cardinality(Ahead(m) \cup {n}) <= Cardinality(Ahead(m)) + 1
          /\ Cardinality(Ahead(m) \cup {n}) \in Nat
      <3>1. /\ IsFiniteSet(Ahead(m) \cup {n})
            /\ Cardinality(Ahead(m) \cup {n}) = IF n \in Ahead(m) THEN Cardinality(Ahead(m)) ELSE Cardinality(Ahead(m)) + 1
        BY <1>3, FS_AddElement
      <3> QED
        BY <1>3, <3>1
    <2>4. Cardinality(Ahead(m)') <= Cardinality(Ahead(m)) + 1 /\ Cardinality(Ahead(m)') \in Nat
      BY <1>3, <2>2, <2>3, FS_Subset, FS_CardinalityType
    <2>5. SampleSize * (slack + 1) = SampleSize * slack + SampleSize /\ SampleSize * slack \in Nat
          /\ SampleSize * missed[m] \in Nat
      BY <1>3, Multiples
    <2>6. SampleSize * missed'[m] + Cardinality(Ahead(m)') <= Cardinality(ImageModels) - 1 + SampleSize * slack'
      BY <1>1, <1>3, <1>5, <2>4, <2>5
    <2> QED
      BY <2>1, <2>6 DEF Waits
  <1> QED
    BY <1>4, <1>5 DEF Waits

LEMMA RoundedUp ==
  ASSUME NEW S \in Nat \ {0}, NEW n \in Nat, n >= 1
  PROVE  LET r == (n + S - 1) \div S IN r \in Nat /\ r >= 1 /\ S * r >= n
  <1> DEFINE r == (n + S - 1) \div S
  <1>1. r \in Int /\ n + S - 1 < S * (r + 1) /\ S * r <= n + S - 1
    OBVIOUS
  <1> HIDE DEF r
  <1>2. S * (r + 1) = S * r + S
    BY <1>1
  <1>3. S * r >= n
    BY <1>1, <1>2
  <1>4. r >= 1
    BY <1>1, <1>3
  <1> QED
    BY <1>1, <1>3, <1>4 DEF r

LEMMA RotateKept == ASSUME RegressInv, RegressInv', RotateInv, RegressNext PROVE RotateInv'
  <1>0. RegressFacts
    BY RegressionAssumption DEF RegressFacts, RegressInv, RotateInv, Catalogue
  <1>1. RoundsTypes'
    <2>1. \A S \in SUBSET ImageModels: Cardinality(S) \in Nat
      BY <1>0, FS_Subset, FS_CardinalityType DEF RegressFacts
    <2>2. ASSUME NEW p \in Probers, RegressTick(p) PROVE RoundsTypes'
      <3>1. slack' \in Nat
        BY <1>0, <2>1, <2>2 DEF RegressTick, RegressFacts, RoundsTypes
      <3>2. missed' \in [Catalogue -> Nat]
        BY <1>0, <2>2 DEF RegressTick, RegressFacts, RoundsTypes, Catalogue
      <3>3. \A q \in Probers: \A n \in Catalogue: begun'[q][n] = begun[q][n] \/ begun'[q][n] = 0
        BY <1>0, <2>2 DEF RegressTick, RegressFacts, RegressTypes, NotBegun, Catalogue
      <3>4. stamp \in Nat /\ UNCHANGED <<stamp, health>>
        BY <1>0, <2>2 DEF RegressTick, RegressFacts, RegressTypes
      <3> QED
        BY <1>0, <3>1, <3>2, <3>3, <3>4 DEF RegressFacts, RoundsTypes
    <2>3. ASSUME NEW p \in Probers, NEW n \in Catalogue, ProbeStarts(p, n) PROVE RoundsTypes'
      BY <1>0, <2>3 DEF ProbeStarts, RegressFacts, RoundsTypes, RegressTypes
    <2>4. ASSUME NEW p \in Probers, NEW n \in Catalogue, ProbeRecorded(p, n) PROVE RoundsTypes'
      <3>1. begun[p][n] <= stamp
        BY <1>0, <2>4 DEF RotateInv, RoundsTypes, ProbeRecorded, InFlight
      <3>2. Max({health[n], begun[p][n]}) \in {health[n], begun[p][n]}
        BY <1>0, LaterIs DEF RegressFacts, RegressTypes
      <3>3. \A k \in Catalogue: health'[k] <= stamp
        BY <1>0, <2>4, <3>1, <3>2 DEF ProbeRecorded, RegressFacts, RoundsTypes, RegressTypes
      <3> QED
        BY <1>0, <2>4, <3>3 DEF ProbeRecorded, RegressFacts, RoundsTypes
    <2>5. ASSUME NEW p \in Probers, NEW n \in Catalogue, InsertFails(p, n) PROVE RoundsTypes'
      BY <1>0, <2>5 DEF InsertFails, RegressFacts, RoundsTypes, RegressTypes
    <2> QED
      BY <2>2, <2>3, <2>4, <2>5 DEF RegressNext, Catalogue
  <1>2. RegressFacts'
    BY <1>0, <1>1 DEF RegressFacts, RegressInv
  <1>3. \A m \in ImageModels: Waits(m)'
    BY <1>0, <1>2, TickKeepsWait, StartKeepsWait, RecordKeepsWait, LossKeepsWait DEF RegressNext, RotateInv, Catalogue
  <1> QED
    BY <1>1, <1>3 DEF RotateInv

LEMMA RotateInvariant == Spec => []RotateInv
  <1>1. Init => RotateInv
    <2> SUFFICES ASSUME RegressInit PROVE RotateInv
      BY DEF Init
    <2>1. RoundsTypes
      BY RegressionAssumption DEF RegressInit, RoundsTypes, Catalogue, NotBegun
    <2>2. \A m \in ImageModels: missed[m] <= slack
      BY RegressionAssumption DEF RegressInit
    <2> QED
      BY <2>1, <2>2 DEF RotateInv, Waits
  <1>2. [Next]_vars => RegressNext \/ UNCHANGED regressVars
    BY DEF Next, vars, Tick, Restart, InvoiceStep, PromoStep, ReconStep, RefreshStep, ReplenishStep, RegressStep,
           Follows, Others
  <1>3. RotateInv /\ UNCHANGED regressVars => RotateInv'
    BY DEF regressVars, RotateInv, RoundsTypes, Waits, Settled, Ahead, Unprobed, Sooner
  <1> QED
    BY <1>1, <1>2, <1>3, RegressInvariant, RotateKept, PTL DEF Spec

(* regression.go: the sample rotates through the whole image catalogue. A   *)
(* model goes unpicked for fewer ticks than it takes to probe each image    *)
(* model once, but for one more per failed read or write and per pass       *)
(* begun during another.                                                    *)
THEOREM SampleAlwaysRotates == Spec => []SampleRotates
  <1>1. RegressInv /\ RotateInv => SampleRotates
    <2> SUFFICES ASSUME RegressInv, RotateInv, NEW m \in ImageModels
                 PROVE  missed[m] < ((Cardinality(ImageModels) + SampleSize - 1) \div SampleSize) + slack
      BY DEF SampleRotates
    <2> DEFINE N == Cardinality(ImageModels)
               rounds == (N + SampleSize - 1) \div SampleSize
    <2>0. RegressFacts
      BY RegressionAssumption DEF RegressFacts, RegressInv, RotateInv, Catalogue
    <2>1. /\ SampleSize \in Nat \ {0} /\ missed[m] \in Nat /\ slack \in Nat /\ N \in Nat /\ N >= 1
          /\ Cardinality(Ahead(m)) \in Nat
      BY <2>0, AheadCounted DEF RegressFacts, RoundsTypes
    <2> HIDE DEF N
    <2>2. rounds \in Nat /\ SampleSize * rounds >= N /\ rounds >= 1
      BY <2>1, RoundedUp
    <2>3. CASE missed[m] <= slack
      BY <2>1, <2>2, <2>3 DEF N
    <2>4. CASE SampleSize * missed[m] + Cardinality(Ahead(m)) <= N - 1 + SampleSize * slack
      <3> HIDE DEF rounds
      <3> SUFFICES ASSUME missed[m] >= rounds + slack PROVE FALSE
        BY <2>1, <2>2 DEF rounds, N
      <3>1. SampleSize * (rounds + slack) <= SampleSize * missed[m]
            /\ SampleSize * (rounds + slack) = SampleSize * rounds + SampleSize * slack
            /\ SampleSize * slack \in Nat /\ SampleSize * rounds \in Nat /\ SampleSize * missed[m] \in Nat
            /\ SampleSize * (rounds + slack) \in Nat
        <4>1. rounds + slack \in Nat
          BY <2>1, <2>2
        <4> QED
          BY <2>1, <2>2, <4>1, Multiples
      <3> QED
        BY <2>1, <2>2, <2>4, <3>1
    <2> QED
      BY <2>3, <2>4 DEF RotateInv, Waits, N
  <1> QED
    BY <1>1, RegressInvariant, RotateInvariant, PTL

ScanTypes == scan.pc \in {"idle", "rows", "unlim"}

LEMMA ScanTyped == Spec => []ScanTypes
  <1>1. Init => ScanTypes
    BY DEF Init, ReplenishInit, NoScan, ScanTypes
  <1>2. ScanTypes /\ [Next]_vars => ScanTypes'
    <2> SUFFICES ASSUME ScanTypes, [Next]_vars PROVE ScanTypes'
      OBVIOUS
    <2>1. \/ scan' = scan \/ scan' = NoScan \/ scan' = [NoScan EXCEPT !.pc = "unlim"]
          \/ scan' = [pc |-> "rows", rows |-> ListActive]
      BY DEF Next, vars, Tick, Restart, InvoiceStep, PromoStep, ReconStep, RefreshStep, ReplenishStep, RegressStep,
             Follows, Others, replenishVars, ReplenishNext, ReplenishRestart, StartScan, ListFails, CountFails,
             RowChanges, CheckRows, CheckUnlimPools
    <2> QED
      BY <2>1 DEF NoScan, ScanTypes
  <1> QED
    BY <1>1, <1>2, PTL DEF Spec

LEMMA StrikesFollow == ASSUME PassesInv, StrikeInv PROVE StrikesExplained
  <1>1. Struck \in SUBSET Refreshers
    BY DEF Struck
  <1>2. Cardinality(Struck) \in Nat /\ streak \in Nat /\ grounds \in Nat
    BY <1>1, Counted DEF PassesInv, RefreshTypes
  <1> QED
    BY <1>2 DEF StrikeInv, StrikesExplained

\* Every goroutine's state is of its type, whatever the constants are.
LEMMA UpkeepTyped ==
  ASSUME ClockTypes, InvoiceInv, PromoInv, ReconInv, RefreshInv, FiredTypes, RegressInv,
         ScanTypes
  PROVE  UpkeepTypeOK
  <1>1. now \in 0..MaxTime /\ restarts \in 0..MaxRestarts
    BY DEF ClockTypes
  <1>2. states \in [Payers -> RetryState \cup {NoBudget}] /\ watching \in [Payers -> BOOLEAN]
    BY DEF InvoiceInv
  <1>3. /\ seenOffer \in Offers \cup {NoOffer}
        /\ step \in {"idle", "promo", "cashback", "offer", "decide", "decideOffer"}
        /\ seen \in Deals \cup {NoDeal} /\ (step = "decide" <=> seen # NoDeal)
        /\ muted \in [Keys -> 0..MaxTime \cup {Never}]
    BY DEF PromoInv, PromoTypes
  <1>4. /\ pass \in [Spenders -> [step: {"idle", "fetch", "sum"}, month: Months,
                                  upstream: 0..MaxSpent, day: 0..MaxTime]]
        /\ reconMuted \in [ReconKeys -> 0..MaxTime \cup {NotMuted}]
    BY DEF ReconInv, ReconTypes, PassType
  <1>5. /\ version \in Versions /\ columns \in [Columns -> Versions] /\ crossed \subseteq Refreshers
        /\ grace.token \in {"", "grace", "enforcement", "access_lose", "card_declined", "backup_card"}
    BY DEF RefreshInv, PassesInv, RefreshTypes, RowInv, Tokens
  <1>6. streak \in Nat /\ deciding \in [Refreshers -> {"none", "founded", "hasty"}]
    BY DEF RefreshInv, PassesInv, RefreshTypes
  <1>7. lastFired \in [Signals -> 0..MaxTime \cup {Quiet}] /\ scan.pc \in {"idle", "rows", "unlim"}
    BY DEF FiredTypes, ScanTypes
  <1>8. /\ health \in [Range(Models) -> 0..MaxProbes]
        /\ \A p \in Probers: probing[p] \subseteq ImageModels /\ Cardinality(InFlight(p)) <= Concurrency
    BY DEF RegressInv, RegressTypes, Catalogue
  <1> QED
    BY <1>1, <1>2, <1>3, <1>4, <1>5, <1>6, <1>7, <1>8 DEF UpkeepTypeOK

\* refresher: what a row holds comes from whole reports, and a pass sets out to disable the
\* account on enough failures since its last success, for any number of overlapping passes, any
\* reports, and whatever jobs and other writers do to the streak meanwhile.
THEOREM RefreshAlwaysExplained == Spec => []RefreshExplained
  <1>1. /\ ClockTypes /\ InvoiceInv /\ PromoInv /\ ReconInv /\ RefreshInv /\ FiredTypes /\ RegressInv
        /\ ScanTypes
        => RefreshExplained
    <2> SUFFICES ASSUME ClockTypes, InvoiceInv, PromoInv, ReconInv, RefreshInv, FiredTypes, RegressInv,
                        ScanTypes
                 PROVE  RefreshExplained
      OBVIOUS
    <2>1. UpkeepTypeOK
      BY UpkeepTyped
    <2> QED
      BY <2>1, StrikesFollow DEF RefreshInv, RowInv, RefreshExplained
  <1> QED
    BY <1>1, InvoiceInvariant, PromoInvariant, ReconInvariant, RefreshInvariant, FiredTyped, RegressInvariant, ScanTyped,
       PTL
=============================================================================

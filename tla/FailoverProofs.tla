--------------------------- MODULE FailoverProofs ---------------------------
(***************************************************************************)
(* Theorems about Failover for any accounts, reporters, limits and faults. *)
(***************************************************************************)
EXTENDS Failover, FiniteSetTheorems, TLAPS

\* A report in progress, and a recovery in progress, are about an account.
Targets ==
    /\ \A r \in Reporters : pc[r] # "idle" => target[r] \in Accounts
    /\ op # "idle" => opAcct \in Accounts

IInv == TypeOK /\ Targets

-----------------------------------------------------------------------------
\* Next as one flat disjunction, for the case splits below.
LEMMA NextCases ==
  ASSUME [Next]_vars
  PROVE  \/ \E r \in Reporters, a \in Accounts : RecordSuccess(r, a)
         \/ \E r \in Reporters, a \in Accounts, e \in Errors : RecordFailure(r, a, e)
         \/ \E r \in Reporters, a \in Accounts, e \in Errors : RecordThrottle(r, a, e)
         \/ \E r \in Reporters : Judge(r)
         \/ \E r \in Reporters : Blacklist(r)
         \/ \E r \in Reporters : Park(r)
         \/ \E r \in Reporters : Evict(r)
         \/ \E r \in Reporters : Guard(r)
         \/ \E r \in Reporters : DisableEvent(r)
         \/ \E r \in Reporters : DisableFlip(r)
         \/ RecoverThrottled
         \/ \E a \in Accounts, s \in Statuses : PauseOrDelete(a, s)
         \/ \E a \in Accounts : Resume(a)
         \/ \E a \in Accounts : RecoverAccount(a)
         \/ RecoverMark
         \/ RecoverReset
         \/ RecoverDelete
         \/ \E a \in Accounts : PatchRead(a)
         \/ \E a \in Accounts : PatchWrite(a)
         \/ \E a \in Accounts : PatchEnds(a)
         \/ \E a \in Accounts : Reimport(a)
         \/ \E a \in Accounts : CooldownEnds(a)
         \/ \E a \in Accounts : ThrottleAges(a)
         \/ \E a \in Accounts : BlacklistAges(a)
         \/ \E a \in Accounts : MarkAges(a)
         \/ \E a \in Accounts : LostAges(a)
         \/ UNCHANGED vars
  BY DEF Next, ReporterNext, OperatorNext, TimeNext

\* The initial state is well typed.
LEMMA InitIInv == Init => IInv
  BY BoundsAssumption DEF Init, IInv, TypeOK, Targets, Statuses, ReporterPC

\* Every step keeps the types of the rows and of the event windows.
LEMMA RowTypes ==
  ASSUME IInv, [Next]_vars
  PROVE  /\ status' \in [Accounts -> Statuses]
         /\ until' \in [Accounts -> {"none", "future", "past"}]
         /\ streak' \in [Accounts -> Nat]
         /\ throttles' \in [Accounts -> Nat] /\ blacklists' \in [Accounts -> Nat]
         /\ marks' \subseteq Accounts
  <1>1. CASE \E r \in Reporters, a \in Accounts : RecordSuccess(r, a)
    BY <1>1 DEF RecordSuccess, Begin, Input, ResetFailStreak, account, events, operator,
       history, isolation, outage, IInv, TypeOK, Targets, Statuses, NoRow
  <1>2. CASE \E r \in Reporters, a \in Accounts, e \in Errors : RecordFailure(r, a, e)
    BY <1>2 DEF RecordFailure, Begin, Input, IncrFailStreak, Goto, Touch, FailureReason,
       DisableReasons, account, events, operator, history, isolation, outage, IInv, TypeOK,
       Targets, Statuses, NoRow
  <1>3. CASE \E r \in Reporters, a \in Accounts, e \in Errors : RecordThrottle(r, a, e)
    BY <1>3 DEF RecordThrottle, Begin, Input, Goto, Touch, account, events, operator,
       history, isolation, outage, IInv, TypeOK, Targets, Statuses, NoRow
  <1>4. CASE \E r \in Reporters : Judge(r)
    BY <1>4 DEF Judge, Move, Goto, account, events, operator, history, isolation,
       outage, IInv, TypeOK, Targets, Statuses, NoRow
  <1>5. CASE \E r \in Reporters : Blacklist(r)
    BY <1>5 DEF Blacklist, Move, Goto, Touch, account, events, operator, history,
       isolation, outage, IInv, TypeOK, Targets, Statuses, NoRow
  <1>6. CASE \E r \in Reporters : Park(r)
    BY <1>6 DEF Park, Move, Goto, MarkThrottled, Outdate, Touch, account, events,
       operator, history, isolation, outage, IInv, TypeOK, Targets, Statuses, NoRow
  <1>7. CASE \E r \in Reporters : Evict(r)
    BY <1>7 DEF Evict, Move, Goto, account, events, operator, history, isolation,
       outage, IInv, TypeOK, Targets, Statuses, NoRow
  <1>8. CASE \E r \in Reporters : Guard(r)
    BY <1>8 DEF Guard, Move, Goto, account, events, operator, history, isolation,
       outage, IInv, TypeOK, Targets, Statuses, NoRow
  <1>9. CASE \E r \in Reporters : DisableEvent(r)
    BY <1>9 DEF DisableEvent, Move, Goto, Touch, account, events, operator, history,
       isolation, outage, IInv, TypeOK, Targets, Statuses, NoRow
  <1>10. CASE \E r \in Reporters : DisableFlip(r)
    BY <1>10 DEF DisableFlip, Move, Goto, MarkIsolated, Outdate, Touch, account, events,
       operator, history, isolation, outage, IInv, TypeOK, Targets, Statuses, NoRow
  <1>11. CASE RecoverThrottled
    BY <1>11 DEF RecoverThrottled, Cooled, Outdate, account, events, operator, history,
       isolation, outage, IInv, TypeOK, Targets, Statuses, NoRow
  <1>12. CASE \E a \in Accounts, s \in Statuses : PauseOrDelete(a, s)
    BY <1>12 DEF PauseOrDelete, Input, MarkIsolated, Outdate, Touch, account, events,
       operator, history, isolation, outage, IInv, TypeOK, Targets, Statuses, NoRow
  <1>13. CASE \E a \in Accounts : Resume(a)
    BY <1>13 DEF Resume, Input, MarkActive, Outdate, Touch, account, events, operator,
       history, isolation, outage, IInv, TypeOK, Targets, Statuses, NoRow
  <1>14. CASE \E a \in Accounts : RecoverAccount(a)
    BY <1>14 DEF RecoverAccount, Input, account, events, operator, history, isolation,
       outage, IInv, TypeOK, Targets, Statuses, NoRow
  <1>15. CASE RecoverMark
    BY <1>15 DEF RecoverMark, MarkActive, Outdate, account, events, operator, history,
       isolation, outage, IInv, TypeOK, Targets, Statuses, NoRow
  <1>16. CASE RecoverReset
    BY <1>16 DEF RecoverReset, ResetFailStreak, Touch, account, events, operator,
       history, isolation, outage, IInv, TypeOK, Targets, Statuses, NoRow
  <1>17. CASE RecoverDelete
    BY <1>17 DEF RecoverDelete, Touch, account, events, operator, history, isolation,
       outage, IInv, TypeOK, Targets, Statuses, NoRow
  <1>18. CASE \E a \in Accounts : PatchRead(a)
    BY <1>18 DEF PatchRead, Input, account, events, operator, history, isolation,
       outage, IInv, TypeOK, Targets, Statuses, NoRow
  <1>19. CASE \E a \in Accounts : PatchWrite(a)
    BY <1>19 DEF PatchWrite, Upsert, Touch, InRotation, account, events, operator,
       history, isolation, outage, IInv, TypeOK, Targets, Statuses, NoRow
  <1>20. CASE \E a \in Accounts : PatchEnds(a)
    BY <1>20 DEF PatchEnds, account, events, operator, history, isolation, outage, IInv,
       TypeOK, Targets, Statuses, NoRow
  <1>21. CASE \E a \in Accounts : Reimport(a)
    BY <1>21 DEF Reimport, Input, Upsert, Outdate, Touch, account, events, operator,
       history, isolation, outage, IInv, TypeOK, Targets, Statuses, NoRow
  <1>22. CASE \E a \in Accounts : CooldownEnds(a)
    BY <1>22 DEF CooldownEnds, account, events, operator, history, isolation, outage,
       IInv, TypeOK, Targets, Statuses, NoRow
  <1>23. CASE \E a \in Accounts : ThrottleAges(a)
    BY <1>23 DEF ThrottleAges, account, events, operator, history, isolation, outage,
       IInv, TypeOK, Targets, Statuses, NoRow
  <1>24. CASE \E a \in Accounts : BlacklistAges(a)
    BY <1>24 DEF BlacklistAges, account, events, operator, history, isolation, outage,
       IInv, TypeOK, Targets, Statuses, NoRow
  <1>25. CASE \E a \in Accounts : MarkAges(a)
    BY <1>25 DEF MarkAges, account, events, operator, history, isolation, outage, IInv,
       TypeOK, Targets, Statuses, NoRow
  <1>26. CASE \E a \in Accounts : LostAges(a)
    BY <1>26 DEF LostAges, account, events, operator, history, isolation, outage, IInv,
       TypeOK, Targets, Statuses, NoRow
  <1>27. CASE UNCHANGED vars
    BY <1>27 DEF vars, account, events, operator, history, isolation, outage, IInv,
       TypeOK, Targets, Statuses, NoRow
  <1> QED
    BY <1>1, <1>2, <1>3, <1>4, <1>5, <1>6, <1>7, <1>8, <1>9, <1>10, <1>11, <1>12, <1>13,
       <1>14, <1>15, <1>16, <1>17, <1>18, <1>19, <1>20, <1>21, <1>22, <1>23, <1>24, <1>25,
       <1>26, <1>27, NextCases

\* Every step keeps the types of the goroutines and the bound.
LEMMA ProcessTypes ==
  ASSUME IInv, [Next]_vars
  PROVE  /\ pc' \in [Reporters -> ReporterPC]
         /\ target' \in [Reporters -> Accounts \union {NoAccount}]
         /\ op' \in {"idle", "mark", "reset", "delete"}
         /\ opAcct' \in Accounts \union {NoAccount}
         /\ held' \in [Accounts -> Statuses \union {NoRow}]
         /\ inputs' \in 0..MaxInputs
  <1>1. CASE \E r \in Reporters, a \in Accounts : RecordSuccess(r, a)
    BY <1>1, BoundsAssumption DEF RecordSuccess, Begin, Input, ResetFailStreak, account,
       events, operator, history, isolation, outage, IInv, TypeOK, Targets, ReporterPC
  <1>2. CASE \E r \in Reporters, a \in Accounts, e \in Errors : RecordFailure(r, a, e)
    BY <1>2, BoundsAssumption DEF RecordFailure, Begin, Input, IncrFailStreak, Goto,
       Touch, FailureReason, DisableReasons, account, events, operator, history, isolation,
       outage, IInv, TypeOK, Targets, ReporterPC
  <1>3. CASE \E r \in Reporters, a \in Accounts, e \in Errors : RecordThrottle(r, a, e)
    BY <1>3, BoundsAssumption DEF RecordThrottle, Begin, Input, Goto, Touch, account,
       events, operator, history, isolation, outage, IInv, TypeOK, Targets, ReporterPC
  <1>4. CASE \E r \in Reporters : Judge(r)
    BY <1>4, BoundsAssumption DEF Judge, Move, Goto, account, events, operator, history,
       isolation, outage, IInv, TypeOK, Targets, ReporterPC
  <1>5. CASE \E r \in Reporters : Blacklist(r)
    BY <1>5, BoundsAssumption DEF Blacklist, Move, Goto, Touch, account, events,
       operator, history, isolation, outage, IInv, TypeOK, Targets, ReporterPC
  <1>6. CASE \E r \in Reporters : Park(r)
    BY <1>6, BoundsAssumption DEF Park, Move, Goto, MarkThrottled, Outdate, Touch,
       account, events, operator, history, isolation, outage, IInv, TypeOK, Targets,
       ReporterPC
  <1>7. CASE \E r \in Reporters : Evict(r)
    BY <1>7, BoundsAssumption DEF Evict, Move, Goto, account, events, operator, history,
       isolation, outage, IInv, TypeOK, Targets, ReporterPC
  <1>8. CASE \E r \in Reporters : Guard(r)
    BY <1>8, BoundsAssumption DEF Guard, Move, Goto, account, events, operator, history,
       isolation, outage, IInv, TypeOK, Targets, ReporterPC
  <1>9. CASE \E r \in Reporters : DisableEvent(r)
    BY <1>9, BoundsAssumption DEF DisableEvent, Move, Goto, Touch, account, events,
       operator, history, isolation, outage, IInv, TypeOK, Targets, ReporterPC
  <1>10. CASE \E r \in Reporters : DisableFlip(r)
    BY <1>10, BoundsAssumption DEF DisableFlip, Move, Goto, MarkIsolated, Outdate,
       Touch, account, events, operator, history, isolation, outage, IInv, TypeOK, Targets,
       ReporterPC
  <1>11. CASE RecoverThrottled
    BY <1>11, BoundsAssumption DEF RecoverThrottled, Cooled, Outdate, account, events,
       operator, history, isolation, outage, IInv, TypeOK, Targets, ReporterPC
  <1>12. CASE \E a \in Accounts, s \in Statuses : PauseOrDelete(a, s)
    BY <1>12, BoundsAssumption DEF PauseOrDelete, Input, MarkIsolated, Outdate, Touch,
       account, events, operator, history, isolation, outage, IInv, TypeOK, Targets,
       ReporterPC
  <1>13. CASE \E a \in Accounts : Resume(a)
    BY <1>13, BoundsAssumption DEF Resume, Input, MarkActive, Outdate, Touch, account,
       events, operator, history, isolation, outage, IInv, TypeOK, Targets, ReporterPC
  <1>14. CASE \E a \in Accounts : RecoverAccount(a)
    BY <1>14, BoundsAssumption DEF RecoverAccount, Input, account, events, operator,
       history, isolation, outage, IInv, TypeOK, Targets, ReporterPC
  <1>15. CASE RecoverMark
    BY <1>15, BoundsAssumption DEF RecoverMark, MarkActive, Outdate, account, events,
       operator, history, isolation, outage, IInv, TypeOK, Targets, ReporterPC
  <1>16. CASE RecoverReset
    BY <1>16, BoundsAssumption DEF RecoverReset, ResetFailStreak, Touch, account,
       events, operator, history, isolation, outage, IInv, TypeOK, Targets, ReporterPC
  <1>17. CASE RecoverDelete
    BY <1>17, BoundsAssumption DEF RecoverDelete, Touch, account, events, operator,
       history, isolation, outage, IInv, TypeOK, Targets, ReporterPC
  <1>18. CASE \E a \in Accounts : PatchRead(a)
    BY <1>18, BoundsAssumption DEF PatchRead, Input, account, events, operator, history,
       isolation, outage, IInv, TypeOK, Targets, ReporterPC
  <1>19. CASE \E a \in Accounts : PatchWrite(a)
    BY <1>19, BoundsAssumption DEF PatchWrite, Upsert, Touch, InRotation, account,
       events, operator, history, isolation, outage, IInv, TypeOK, Targets, ReporterPC
  <1>20. CASE \E a \in Accounts : PatchEnds(a)
    BY <1>20, BoundsAssumption DEF PatchEnds, account, events, operator, history,
       isolation, outage, IInv, TypeOK, Targets, ReporterPC
  <1>21. CASE \E a \in Accounts : Reimport(a)
    BY <1>21, BoundsAssumption DEF Reimport, Input, Upsert, Outdate, Touch, account,
       events, operator, history, isolation, outage, IInv, TypeOK, Targets, ReporterPC
  <1>22. CASE \E a \in Accounts : CooldownEnds(a)
    BY <1>22, BoundsAssumption DEF CooldownEnds, account, events, operator, history,
       isolation, outage, IInv, TypeOK, Targets, ReporterPC
  <1>23. CASE \E a \in Accounts : ThrottleAges(a)
    BY <1>23, BoundsAssumption DEF ThrottleAges, account, events, operator, history,
       isolation, outage, IInv, TypeOK, Targets, ReporterPC
  <1>24. CASE \E a \in Accounts : BlacklistAges(a)
    BY <1>24, BoundsAssumption DEF BlacklistAges, account, events, operator, history,
       isolation, outage, IInv, TypeOK, Targets, ReporterPC
  <1>25. CASE \E a \in Accounts : MarkAges(a)
    BY <1>25, BoundsAssumption DEF MarkAges, account, events, operator, history,
       isolation, outage, IInv, TypeOK, Targets, ReporterPC
  <1>26. CASE \E a \in Accounts : LostAges(a)
    BY <1>26, BoundsAssumption DEF LostAges, account, events, operator, history,
       isolation, outage, IInv, TypeOK, Targets, ReporterPC
  <1>27. CASE UNCHANGED vars
    BY <1>27, BoundsAssumption DEF vars, account, events, operator, history, isolation,
       outage, IInv, TypeOK, Targets, ReporterPC
  <1> QED
    BY <1>1, <1>2, <1>3, <1>4, <1>5, <1>6, <1>7, <1>8, <1>9, <1>10, <1>11, <1>12, <1>13,
       <1>14, <1>15, <1>16, <1>17, <1>18, <1>19, <1>20, <1>21, <1>22, <1>23, <1>24, <1>25,
       <1>26, <1>27, NextCases

\* Every step keeps the types of the history.
LEMMA HistoryTypes ==
  ASSUME IInv, [Next]_vars
  PROVE  /\ isolated' \subseteq Accounts /\ parked' \subseteq Accounts
         /\ stale' \subseteq Accounts /\ upserted' \subseteq Accounts
         /\ slate' \in [Accounts -> {"no", "recovering", "clean"}]
         /\ blind' \in Nat /\ missed' \in Nat
         /\ unrecorded' \subseteq Accounts
  <1>1. CASE \E r \in Reporters, a \in Accounts : RecordSuccess(r, a)
    BY <1>1 DEF RecordSuccess, Begin, Input, ResetFailStreak, account, events, operator,
       history, isolation, outage, IInv, TypeOK, Targets, ReporterPC
  <1>2. CASE \E r \in Reporters, a \in Accounts, e \in Errors : RecordFailure(r, a, e)
    BY <1>2 DEF RecordFailure, Begin, Input, IncrFailStreak, Goto, Touch, FailureReason,
       DisableReasons, account, events, operator, history, isolation, outage, IInv, TypeOK,
       Targets, ReporterPC
  <1>3. CASE \E r \in Reporters, a \in Accounts, e \in Errors : RecordThrottle(r, a, e)
    BY <1>3 DEF RecordThrottle, Begin, Input, Goto, Touch, account, events, operator,
       history, isolation, outage, IInv, TypeOK, Targets, ReporterPC
  <1>4. CASE \E r \in Reporters : Judge(r)
    BY <1>4 DEF Judge, Move, Goto, account, events, operator, history, isolation,
       outage, IInv, TypeOK, Targets, ReporterPC
  <1>5. CASE \E r \in Reporters : Blacklist(r)
    BY <1>5 DEF Blacklist, Move, Goto, Touch, account, events, operator, history,
       isolation, outage, IInv, TypeOK, Targets, ReporterPC
  <1>6. CASE \E r \in Reporters : Park(r)
    BY <1>6 DEF Park, Move, Goto, MarkThrottled, Outdate, Touch, account, events,
       operator, history, isolation, outage, IInv, TypeOK, Targets, ReporterPC
  <1>7. CASE \E r \in Reporters : Evict(r)
    BY <1>7 DEF Evict, Move, Goto, account, events, operator, history, isolation,
       outage, IInv, TypeOK, Targets, ReporterPC
  <1>8. CASE \E r \in Reporters : Guard(r)
    BY <1>8 DEF Guard, Move, Goto, account, events, operator, history, isolation,
       outage, IInv, TypeOK, Targets, ReporterPC
  <1>9. CASE \E r \in Reporters : DisableEvent(r)
    BY <1>9 DEF DisableEvent, Move, Goto, Touch, account, events, operator, history,
       isolation, outage, IInv, TypeOK, Targets, ReporterPC
  <1>10. CASE \E r \in Reporters : DisableFlip(r)
    BY <1>10 DEF DisableFlip, Move, Goto, MarkIsolated, Outdate, Touch, account, events,
       operator, history, isolation, outage, IInv, TypeOK, Targets, ReporterPC
  <1>11. CASE RecoverThrottled
    BY <1>11 DEF RecoverThrottled, Cooled, Outdate, account, events, operator, history,
       isolation, outage, IInv, TypeOK, Targets, ReporterPC
  <1>12. CASE \E a \in Accounts, s \in Statuses : PauseOrDelete(a, s)
    BY <1>12 DEF PauseOrDelete, Input, MarkIsolated, Outdate, Touch, account, events,
       operator, history, isolation, outage, IInv, TypeOK, Targets, ReporterPC
  <1>13. CASE \E a \in Accounts : Resume(a)
    BY <1>13 DEF Resume, Input, MarkActive, Outdate, Touch, account, events, operator,
       history, isolation, outage, IInv, TypeOK, Targets, ReporterPC
  <1>14. CASE \E a \in Accounts : RecoverAccount(a)
    BY <1>14 DEF RecoverAccount, Input, account, events, operator, history, isolation,
       outage, IInv, TypeOK, Targets, ReporterPC
  <1>15. CASE RecoverMark
    BY <1>15 DEF RecoverMark, MarkActive, Outdate, account, events, operator, history,
       isolation, outage, IInv, TypeOK, Targets, ReporterPC
  <1>16. CASE RecoverReset
    BY <1>16 DEF RecoverReset, ResetFailStreak, Touch, account, events, operator,
       history, isolation, outage, IInv, TypeOK, Targets, ReporterPC
  <1>17. CASE RecoverDelete
    BY <1>17 DEF RecoverDelete, Touch, account, events, operator, history, isolation,
       outage, IInv, TypeOK, Targets, ReporterPC
  <1>18. CASE \E a \in Accounts : PatchRead(a)
    BY <1>18 DEF PatchRead, Input, account, events, operator, history, isolation,
       outage, IInv, TypeOK, Targets, ReporterPC
  <1>19. CASE \E a \in Accounts : PatchWrite(a)
    BY <1>19 DEF PatchWrite, Upsert, Touch, InRotation, account, events, operator,
       history, isolation, outage, IInv, TypeOK, Targets, ReporterPC
  <1>20. CASE \E a \in Accounts : PatchEnds(a)
    BY <1>20 DEF PatchEnds, account, events, operator, history, isolation, outage, IInv,
       TypeOK, Targets, ReporterPC
  <1>21. CASE \E a \in Accounts : Reimport(a)
    BY <1>21 DEF Reimport, Input, Upsert, Outdate, Touch, account, events, operator,
       history, isolation, outage, IInv, TypeOK, Targets, ReporterPC
  <1>22. CASE \E a \in Accounts : CooldownEnds(a)
    BY <1>22 DEF CooldownEnds, account, events, operator, history, isolation, outage,
       IInv, TypeOK, Targets, ReporterPC
  <1>23. CASE \E a \in Accounts : ThrottleAges(a)
    BY <1>23 DEF ThrottleAges, account, events, operator, history, isolation, outage,
       IInv, TypeOK, Targets, ReporterPC
  <1>24. CASE \E a \in Accounts : BlacklistAges(a)
    BY <1>24 DEF BlacklistAges, account, events, operator, history, isolation, outage,
       IInv, TypeOK, Targets, ReporterPC
  <1>25. CASE \E a \in Accounts : MarkAges(a)
    BY <1>25 DEF MarkAges, account, events, operator, history, isolation, outage, IInv,
       TypeOK, Targets, ReporterPC
  <1>26. CASE \E a \in Accounts : LostAges(a)
    BY <1>26 DEF LostAges, account, events, operator, history, isolation, outage, IInv,
       TypeOK, Targets, ReporterPC
  <1>27. CASE UNCHANGED vars
    BY <1>27 DEF vars, account, events, operator, history, isolation, outage, IInv,
       TypeOK, Targets, ReporterPC
  <1> QED
    BY <1>1, <1>2, <1>3, <1>4, <1>5, <1>6, <1>7, <1>8, <1>9, <1>10, <1>11, <1>12, <1>13,
       <1>14, <1>15, <1>16, <1>17, <1>18, <1>19, <1>20, <1>21, <1>22, <1>23, <1>24, <1>25,
       <1>26, <1>27, NextCases

\* Every step leaves a report or a recovery with its account, or ends it.
LEMMA TargetsStep ==
  ASSUME IInv, [Next]_vars
  PROVE  Targets'
  <1>1. CASE \E r \in Reporters, a \in Accounts : RecordSuccess(r, a)
    BY <1>1 DEF RecordSuccess, Begin, Input, ResetFailStreak, account, events, operator,
       history, isolation, outage, IInv, TypeOK, Targets, ReporterPC
  <1>2. CASE \E r \in Reporters, a \in Accounts, e \in Errors : RecordFailure(r, a, e)
    BY <1>2 DEF RecordFailure, Begin, Input, IncrFailStreak, Goto, Touch, FailureReason,
       DisableReasons, account, events, operator, history, isolation, outage, IInv, TypeOK,
       Targets, ReporterPC
  <1>3. CASE \E r \in Reporters, a \in Accounts, e \in Errors : RecordThrottle(r, a, e)
    BY <1>3 DEF RecordThrottle, Begin, Input, Goto, Touch, account, events, operator,
       history, isolation, outage, IInv, TypeOK, Targets, ReporterPC
  <1>4. CASE \E r \in Reporters : Judge(r)
    BY <1>4 DEF Judge, Move, Goto, account, events, operator, history, isolation,
       outage, IInv, TypeOK, Targets, ReporterPC
  <1>5. CASE \E r \in Reporters : Blacklist(r)
    BY <1>5 DEF Blacklist, Move, Goto, Touch, account, events, operator, history,
       isolation, outage, IInv, TypeOK, Targets, ReporterPC
  <1>6. CASE \E r \in Reporters : Park(r)
    BY <1>6 DEF Park, Move, Goto, MarkThrottled, Outdate, Touch, account, events,
       operator, history, isolation, outage, IInv, TypeOK, Targets, ReporterPC
  <1>7. CASE \E r \in Reporters : Evict(r)
    BY <1>7 DEF Evict, Move, Goto, account, events, operator, history, isolation,
       outage, IInv, TypeOK, Targets, ReporterPC
  <1>8. CASE \E r \in Reporters : Guard(r)
    BY <1>8 DEF Guard, Move, Goto, account, events, operator, history, isolation,
       outage, IInv, TypeOK, Targets, ReporterPC
  <1>9. CASE \E r \in Reporters : DisableEvent(r)
    BY <1>9 DEF DisableEvent, Move, Goto, Touch, account, events, operator, history,
       isolation, outage, IInv, TypeOK, Targets, ReporterPC
  <1>10. CASE \E r \in Reporters : DisableFlip(r)
    BY <1>10 DEF DisableFlip, Move, Goto, MarkIsolated, Outdate, Touch, account, events,
       operator, history, isolation, outage, IInv, TypeOK, Targets, ReporterPC
  <1>11. CASE RecoverThrottled
    BY <1>11 DEF RecoverThrottled, Cooled, Outdate, account, events, operator, history,
       isolation, outage, IInv, TypeOK, Targets, ReporterPC
  <1>12. CASE \E a \in Accounts, s \in Statuses : PauseOrDelete(a, s)
    BY <1>12 DEF PauseOrDelete, Input, MarkIsolated, Outdate, Touch, account, events,
       operator, history, isolation, outage, IInv, TypeOK, Targets, ReporterPC
  <1>13. CASE \E a \in Accounts : Resume(a)
    BY <1>13 DEF Resume, Input, MarkActive, Outdate, Touch, account, events, operator,
       history, isolation, outage, IInv, TypeOK, Targets, ReporterPC
  <1>14. CASE \E a \in Accounts : RecoverAccount(a)
    BY <1>14 DEF RecoverAccount, Input, account, events, operator, history, isolation,
       outage, IInv, TypeOK, Targets, ReporterPC
  <1>15. CASE RecoverMark
    BY <1>15 DEF RecoverMark, MarkActive, Outdate, account, events, operator, history,
       isolation, outage, IInv, TypeOK, Targets, ReporterPC
  <1>16. CASE RecoverReset
    BY <1>16 DEF RecoverReset, ResetFailStreak, Touch, account, events, operator,
       history, isolation, outage, IInv, TypeOK, Targets, ReporterPC
  <1>17. CASE RecoverDelete
    BY <1>17 DEF RecoverDelete, Touch, account, events, operator, history, isolation,
       outage, IInv, TypeOK, Targets, ReporterPC
  <1>18. CASE \E a \in Accounts : PatchRead(a)
    BY <1>18 DEF PatchRead, Input, account, events, operator, history, isolation,
       outage, IInv, TypeOK, Targets, ReporterPC
  <1>19. CASE \E a \in Accounts : PatchWrite(a)
    BY <1>19 DEF PatchWrite, Upsert, Touch, InRotation, account, events, operator,
       history, isolation, outage, IInv, TypeOK, Targets, ReporterPC
  <1>20. CASE \E a \in Accounts : PatchEnds(a)
    BY <1>20 DEF PatchEnds, account, events, operator, history, isolation, outage, IInv,
       TypeOK, Targets, ReporterPC
  <1>21. CASE \E a \in Accounts : Reimport(a)
    BY <1>21 DEF Reimport, Input, Upsert, Outdate, Touch, account, events, operator,
       history, isolation, outage, IInv, TypeOK, Targets, ReporterPC
  <1>22. CASE \E a \in Accounts : CooldownEnds(a)
    BY <1>22 DEF CooldownEnds, account, events, operator, history, isolation, outage,
       IInv, TypeOK, Targets, ReporterPC
  <1>23. CASE \E a \in Accounts : ThrottleAges(a)
    BY <1>23 DEF ThrottleAges, account, events, operator, history, isolation, outage,
       IInv, TypeOK, Targets, ReporterPC
  <1>24. CASE \E a \in Accounts : BlacklistAges(a)
    BY <1>24 DEF BlacklistAges, account, events, operator, history, isolation, outage,
       IInv, TypeOK, Targets, ReporterPC
  <1>25. CASE \E a \in Accounts : MarkAges(a)
    BY <1>25 DEF MarkAges, account, events, operator, history, isolation, outage, IInv,
       TypeOK, Targets, ReporterPC
  <1>26. CASE \E a \in Accounts : LostAges(a)
    BY <1>26 DEF LostAges, account, events, operator, history, isolation, outage, IInv,
       TypeOK, Targets, ReporterPC
  <1>27. CASE UNCHANGED vars
    BY <1>27 DEF vars, account, events, operator, history, isolation, outage, IInv,
       TypeOK, Targets, ReporterPC
  <1> QED
    BY <1>1, <1>2, <1>3, <1>4, <1>5, <1>6, <1>7, <1>8, <1>9, <1>10, <1>11, <1>12, <1>13,
       <1>14, <1>15, <1>16, <1>17, <1>18, <1>19, <1>20, <1>21, <1>22, <1>23, <1>24, <1>25,
       <1>26, <1>27, NextCases

\* The inductive invariant holds in every reachable state.
LEMMA SpecIInv == Spec => []IInv
  <1>1. IInv /\ [Next]_vars => IInv'
    BY RowTypes, ProcessTypes, HistoryTypes, TargetsStep DEF IInv, TypeOK
  <1> QED
    BY <1>1, InitIInv, PTL DEF Spec

\* Every reachable state is well typed: in particular a streak or a window never counts
\* below zero, whatever order successes, failures and recoveries come in.
THEOREM FailoverTypes == Spec => []TypeOK
  <1>1. IInv => TypeOK
    BY DEF IInv
  <1> QED
    BY <1>1, SpecIInv, PTL

-----------------------------------------------------------------------------
(* The accounts row                                                        *)

\* The row a PATCH holds says what the table says until somebody else writes it.
HeldInv == \A a \in Accounts : held[a] # NoRow /\ a \notin stale => held[a] = status[a]

\* Every write of a status makes the rows PATCHes hold of it stale.
LEMMA HeldStep ==
  ASSUME IInv, HeldInv, [Next]_vars
  PROVE  HeldInv'
  <1>1. CASE \E r \in Reporters, a \in Accounts : RecordSuccess(r, a)
    BY <1>1 DEF RecordSuccess, Begin, Input, ResetFailStreak, account, events, operator,
       history, isolation, outage, IInv, TypeOK, Targets, Statuses, NoRow, HeldInv
  <1>2. CASE \E r \in Reporters, a \in Accounts, e \in Errors : RecordFailure(r, a, e)
    BY <1>2 DEF RecordFailure, Begin, Input, IncrFailStreak, Goto, Touch, FailureReason,
       DisableReasons, account, events, operator, history, isolation, outage, IInv, TypeOK,
       Targets, Statuses, NoRow, HeldInv
  <1>3. CASE \E r \in Reporters, a \in Accounts, e \in Errors : RecordThrottle(r, a, e)
    BY <1>3 DEF RecordThrottle, Begin, Input, Goto, Touch, account, events, operator,
       history, isolation, outage, IInv, TypeOK, Targets, Statuses, NoRow, HeldInv
  <1>4. CASE \E r \in Reporters : Judge(r)
    BY <1>4 DEF Judge, Move, Goto, account, events, operator, history, isolation,
       outage, IInv, TypeOK, Targets, Statuses, NoRow, HeldInv
  <1>5. CASE \E r \in Reporters : Blacklist(r)
    BY <1>5 DEF Blacklist, Move, Goto, Touch, account, events, operator, history,
       isolation, outage, IInv, TypeOK, Targets, Statuses, NoRow, HeldInv
  <1>6. CASE \E r \in Reporters : Park(r)
    BY <1>6 DEF Park, Move, Goto, MarkThrottled, Outdate, Touch, account, events,
       operator, history, isolation, outage, IInv, TypeOK, Targets, Statuses, NoRow,
       HeldInv
  <1>7. CASE \E r \in Reporters : Evict(r)
    BY <1>7 DEF Evict, Move, Goto, account, events, operator, history, isolation,
       outage, IInv, TypeOK, Targets, Statuses, NoRow, HeldInv
  <1>8. CASE \E r \in Reporters : Guard(r)
    BY <1>8 DEF Guard, Move, Goto, account, events, operator, history, isolation,
       outage, IInv, TypeOK, Targets, Statuses, NoRow, HeldInv
  <1>9. CASE \E r \in Reporters : DisableEvent(r)
    BY <1>9 DEF DisableEvent, Move, Goto, Touch, account, events, operator, history,
       isolation, outage, IInv, TypeOK, Targets, Statuses, NoRow, HeldInv
  <1>10. CASE \E r \in Reporters : DisableFlip(r)
    BY <1>10 DEF DisableFlip, Move, Goto, MarkIsolated, Outdate, Touch, account, events,
       operator, history, isolation, outage, IInv, TypeOK, Targets, Statuses, NoRow,
       HeldInv
  <1>11. CASE RecoverThrottled
    BY <1>11 DEF RecoverThrottled, Cooled, Outdate, account, events, operator, history,
       isolation, outage, IInv, TypeOK, Targets, Statuses, NoRow, HeldInv
  <1>12. CASE \E a \in Accounts, s \in Statuses : PauseOrDelete(a, s)
    BY <1>12 DEF PauseOrDelete, Input, MarkIsolated, Outdate, Touch, account, events,
       operator, history, isolation, outage, IInv, TypeOK, Targets, Statuses, NoRow,
       HeldInv
  <1>13. CASE \E a \in Accounts : Resume(a)
    BY <1>13 DEF Resume, Input, MarkActive, Outdate, Touch, account, events, operator,
       history, isolation, outage, IInv, TypeOK, Targets, Statuses, NoRow, HeldInv
  <1>14. CASE \E a \in Accounts : RecoverAccount(a)
    BY <1>14 DEF RecoverAccount, Input, account, events, operator, history, isolation,
       outage, IInv, TypeOK, Targets, Statuses, NoRow, HeldInv
  <1>15. CASE RecoverMark
    BY <1>15 DEF RecoverMark, MarkActive, Outdate, account, events, operator, history,
       isolation, outage, IInv, TypeOK, Targets, Statuses, NoRow, HeldInv
  <1>16. CASE RecoverReset
    BY <1>16 DEF RecoverReset, ResetFailStreak, Touch, account, events, operator,
       history, isolation, outage, IInv, TypeOK, Targets, Statuses, NoRow, HeldInv
  <1>17. CASE RecoverDelete
    BY <1>17 DEF RecoverDelete, Touch, account, events, operator, history, isolation,
       outage, IInv, TypeOK, Targets, Statuses, NoRow, HeldInv
  <1>18. CASE \E a \in Accounts : PatchRead(a)
    BY <1>18 DEF PatchRead, Input, account, events, operator, history, isolation,
       outage, IInv, TypeOK, Targets, Statuses, NoRow, HeldInv
  <1>19. CASE \E a \in Accounts : PatchWrite(a)
    BY <1>19 DEF PatchWrite, Upsert, Touch, InRotation, account, events, operator,
       history, isolation, outage, IInv, TypeOK, Targets, Statuses, NoRow, HeldInv
  <1>20. CASE \E a \in Accounts : PatchEnds(a)
    BY <1>20 DEF PatchEnds, account, events, operator, history, isolation, outage, IInv,
       TypeOK, Targets, Statuses, NoRow, HeldInv
  <1>21. CASE \E a \in Accounts : Reimport(a)
    BY <1>21 DEF Reimport, Input, Upsert, Outdate, Touch, account, events, operator,
       history, isolation, outage, IInv, TypeOK, Targets, Statuses, NoRow, HeldInv
  <1>22. CASE \E a \in Accounts : CooldownEnds(a)
    BY <1>22 DEF CooldownEnds, account, events, operator, history, isolation, outage,
       IInv, TypeOK, Targets, Statuses, NoRow, HeldInv
  <1>23. CASE \E a \in Accounts : ThrottleAges(a)
    BY <1>23 DEF ThrottleAges, account, events, operator, history, isolation, outage,
       IInv, TypeOK, Targets, Statuses, NoRow, HeldInv
  <1>24. CASE \E a \in Accounts : BlacklistAges(a)
    BY <1>24 DEF BlacklistAges, account, events, operator, history, isolation, outage,
       IInv, TypeOK, Targets, Statuses, NoRow, HeldInv
  <1>25. CASE \E a \in Accounts : MarkAges(a)
    BY <1>25 DEF MarkAges, account, events, operator, history, isolation, outage, IInv,
       TypeOK, Targets, Statuses, NoRow, HeldInv
  <1>26. CASE \E a \in Accounts : LostAges(a)
    BY <1>26 DEF LostAges, account, events, operator, history, isolation, outage, IInv,
       TypeOK, Targets, Statuses, NoRow, HeldInv
  <1>27. CASE UNCHANGED vars
    BY <1>27 DEF vars, account, events, operator, history, isolation, outage, IInv,
       TypeOK, Targets, Statuses, NoRow, HeldInv
  <1> QED
    BY <1>1, <1>2, <1>3, <1>4, <1>5, <1>6, <1>7, <1>8, <1>9, <1>10, <1>11, <1>12, <1>13,
       <1>14, <1>15, <1>16, <1>17, <1>18, <1>19, <1>20, <1>21, <1>22, <1>23, <1>24, <1>25,
       <1>26, <1>27, NextCases

\* What a PATCH will write back is what the table says, or the row is known to be stale.
LEMMA SpecHeld == Spec => []HeldInv
  <1>1. Init => HeldInv
    BY DEF Init, HeldInv
  <1>2. IInv /\ HeldInv /\ [Next]_vars => HeldInv'
    BY HeldStep
  <1> QED
    BY <1>1, <1>2, SpecIInv, PTL DEF Spec

\* Every step keeps the deadline of a throttled row.
LEMMA DeadlineStep ==
  ASSUME IInv, HeldInv, ThrottledHasDeadline, [Next]_vars
  PROVE  ThrottledHasDeadline'
  <1>1. CASE \E r \in Reporters, a \in Accounts : RecordSuccess(r, a)
    BY <1>1 DEF RecordSuccess, Begin, Input, ResetFailStreak, account, events, operator,
       history, isolation, outage, IInv, TypeOK, Targets, Statuses, NoRow, HeldInv,
       InRotation, ThrottledHasDeadline
  <1>2. CASE \E r \in Reporters, a \in Accounts, e \in Errors : RecordFailure(r, a, e)
    BY <1>2 DEF RecordFailure, Begin, Input, IncrFailStreak, Goto, Touch, FailureReason,
       DisableReasons, account, events, operator, history, isolation, outage, IInv, TypeOK,
       Targets, Statuses, NoRow, HeldInv, InRotation, ThrottledHasDeadline
  <1>3. CASE \E r \in Reporters, a \in Accounts, e \in Errors : RecordThrottle(r, a, e)
    BY <1>3 DEF RecordThrottle, Begin, Input, Goto, Touch, account, events, operator,
       history, isolation, outage, IInv, TypeOK, Targets, Statuses, NoRow, HeldInv,
       InRotation, ThrottledHasDeadline
  <1>4. CASE \E r \in Reporters : Judge(r)
    BY <1>4 DEF Judge, Move, Goto, account, events, operator, history, isolation,
       outage, IInv, TypeOK, Targets, Statuses, NoRow, HeldInv, InRotation,
       ThrottledHasDeadline
  <1>5. CASE \E r \in Reporters : Blacklist(r)
    BY <1>5 DEF Blacklist, Move, Goto, Touch, account, events, operator, history,
       isolation, outage, IInv, TypeOK, Targets, Statuses, NoRow, HeldInv, InRotation,
       ThrottledHasDeadline
  <1>6. CASE \E r \in Reporters : Park(r)
    BY <1>6 DEF Park, Move, Goto, MarkThrottled, Outdate, Touch, account, events,
       operator, history, isolation, outage, IInv, TypeOK, Targets, Statuses, NoRow,
       HeldInv, InRotation, ThrottledHasDeadline
  <1>7. CASE \E r \in Reporters : Evict(r)
    BY <1>7 DEF Evict, Move, Goto, account, events, operator, history, isolation,
       outage, IInv, TypeOK, Targets, Statuses, NoRow, HeldInv, InRotation,
       ThrottledHasDeadline
  <1>8. CASE \E r \in Reporters : Guard(r)
    BY <1>8 DEF Guard, Move, Goto, account, events, operator, history, isolation,
       outage, IInv, TypeOK, Targets, Statuses, NoRow, HeldInv, InRotation,
       ThrottledHasDeadline
  <1>9. CASE \E r \in Reporters : DisableEvent(r)
    BY <1>9 DEF DisableEvent, Move, Goto, Touch, account, events, operator, history,
       isolation, outage, IInv, TypeOK, Targets, Statuses, NoRow, HeldInv, InRotation,
       ThrottledHasDeadline
  <1>10. CASE \E r \in Reporters : DisableFlip(r)
    BY <1>10 DEF DisableFlip, Move, Goto, MarkIsolated, Outdate, Touch, account, events,
       operator, history, isolation, outage, IInv, TypeOK, Targets, Statuses, NoRow,
       HeldInv, InRotation, ThrottledHasDeadline
  <1>11. CASE RecoverThrottled
    BY <1>11 DEF RecoverThrottled, Cooled, Outdate, account, events, operator, history,
       isolation, outage, IInv, TypeOK, Targets, Statuses, NoRow, HeldInv, InRotation,
       ThrottledHasDeadline
  <1>12. CASE \E a \in Accounts, s \in Statuses : PauseOrDelete(a, s)
    BY <1>12 DEF PauseOrDelete, Input, MarkIsolated, Outdate, Touch, account, events,
       operator, history, isolation, outage, IInv, TypeOK, Targets, Statuses, NoRow,
       HeldInv, InRotation, ThrottledHasDeadline
  <1>13. CASE \E a \in Accounts : Resume(a)
    BY <1>13 DEF Resume, Input, MarkActive, Outdate, Touch, account, events, operator,
       history, isolation, outage, IInv, TypeOK, Targets, Statuses, NoRow, HeldInv,
       InRotation, ThrottledHasDeadline
  <1>14. CASE \E a \in Accounts : RecoverAccount(a)
    BY <1>14 DEF RecoverAccount, Input, account, events, operator, history, isolation,
       outage, IInv, TypeOK, Targets, Statuses, NoRow, HeldInv, InRotation,
       ThrottledHasDeadline
  <1>15. CASE RecoverMark
    BY <1>15 DEF RecoverMark, MarkActive, Outdate, account, events, operator, history,
       isolation, outage, IInv, TypeOK, Targets, Statuses, NoRow, HeldInv, InRotation,
       ThrottledHasDeadline
  <1>16. CASE RecoverReset
    BY <1>16 DEF RecoverReset, ResetFailStreak, Touch, account, events, operator,
       history, isolation, outage, IInv, TypeOK, Targets, Statuses, NoRow, HeldInv,
       InRotation, ThrottledHasDeadline
  <1>17. CASE RecoverDelete
    BY <1>17 DEF RecoverDelete, Touch, account, events, operator, history, isolation,
       outage, IInv, TypeOK, Targets, Statuses, NoRow, HeldInv, InRotation,
       ThrottledHasDeadline
  <1>18. CASE \E a \in Accounts : PatchRead(a)
    BY <1>18 DEF PatchRead, Input, account, events, operator, history, isolation,
       outage, IInv, TypeOK, Targets, Statuses, NoRow, HeldInv, InRotation,
       ThrottledHasDeadline
  <1>19. CASE \E a \in Accounts : PatchWrite(a)
    BY <1>19 DEF PatchWrite, Upsert, Touch, InRotation, account, events, operator,
       history, isolation, outage, IInv, TypeOK, Targets, Statuses, NoRow, HeldInv,
       ThrottledHasDeadline
  <1>20. CASE \E a \in Accounts : PatchEnds(a)
    BY <1>20 DEF PatchEnds, account, events, operator, history, isolation, outage, IInv,
       TypeOK, Targets, Statuses, NoRow, HeldInv, InRotation, ThrottledHasDeadline
  <1>21. CASE \E a \in Accounts : Reimport(a)
    BY <1>21 DEF Reimport, Input, Upsert, Outdate, Touch, account, events, operator,
       history, isolation, outage, IInv, TypeOK, Targets, Statuses, NoRow, HeldInv,
       InRotation, ThrottledHasDeadline
  <1>22. CASE \E a \in Accounts : CooldownEnds(a)
    BY <1>22 DEF CooldownEnds, account, events, operator, history, isolation, outage,
       IInv, TypeOK, Targets, Statuses, NoRow, HeldInv, InRotation, ThrottledHasDeadline
  <1>23. CASE \E a \in Accounts : ThrottleAges(a)
    BY <1>23 DEF ThrottleAges, account, events, operator, history, isolation, outage,
       IInv, TypeOK, Targets, Statuses, NoRow, HeldInv, InRotation, ThrottledHasDeadline
  <1>24. CASE \E a \in Accounts : BlacklistAges(a)
    BY <1>24 DEF BlacklistAges, account, events, operator, history, isolation, outage,
       IInv, TypeOK, Targets, Statuses, NoRow, HeldInv, InRotation, ThrottledHasDeadline
  <1>25. CASE \E a \in Accounts : MarkAges(a)
    BY <1>25 DEF MarkAges, account, events, operator, history, isolation, outage, IInv,
       TypeOK, Targets, Statuses, NoRow, HeldInv, InRotation, ThrottledHasDeadline
  <1>26. CASE \E a \in Accounts : LostAges(a)
    BY <1>26 DEF LostAges, account, events, operator, history, isolation, outage, IInv,
       TypeOK, Targets, Statuses, NoRow, HeldInv, InRotation, ThrottledHasDeadline
  <1>27. CASE UNCHANGED vars
    BY <1>27 DEF vars, account, events, operator, history, isolation, outage, IInv,
       TypeOK, Targets, Statuses, NoRow, HeldInv, InRotation, ThrottledHasDeadline
  <1> QED
    BY <1>1, <1>2, <1>3, <1>4, <1>5, <1>6, <1>7, <1>8, <1>9, <1>10, <1>11, <1>12, <1>13,
       <1>14, <1>15, <1>16, <1>17, <1>18, <1>19, <1>20, <1>21, <1>22, <1>23, <1>24, <1>25,
       <1>26, <1>27, NextCases

\* A throttled account has a deadline, so RecoverThrottled's WHERE clause
\* (throttled_until IS NOT NULL) leaves none behind, unless a PATCH that had read the row
\* during a cooldown wrote it back after the cooldown had ended.
THEOREM ThrottledDeadline == Spec => []ThrottledHasDeadline
  <1>1. Init => ThrottledHasDeadline
    BY DEF Init, ThrottledHasDeadline
  <1>2. IInv /\ HeldInv /\ ThrottledHasDeadline /\ [Next]_vars => ThrottledHasDeadline'
    BY DeadlineStep
  <1> QED
    BY <1>1, <1>2, SpecIInv, SpecHeld, PTL DEF Spec

\* Every step that makes an isolated account active or throttled is an operator's,
\* follows MarkThrottled, or writes back a stale row.
LEMMA IsolationStep ==
  ASSUME IInv, HeldInv, IsolationExplained, [Next]_vars
  PROVE  IsolationExplained'
  <1>1. CASE \E r \in Reporters, a \in Accounts : RecordSuccess(r, a)
    BY <1>1 DEF RecordSuccess, Begin, Input, ResetFailStreak, account, events, operator,
       history, isolation, outage, IInv, TypeOK, Targets, Statuses, NoRow, HeldInv,
       InRotation, IsolationExplained
  <1>2. CASE \E r \in Reporters, a \in Accounts, e \in Errors : RecordFailure(r, a, e)
    BY <1>2 DEF RecordFailure, Begin, Input, IncrFailStreak, Goto, Touch, FailureReason,
       DisableReasons, account, events, operator, history, isolation, outage, IInv, TypeOK,
       Targets, Statuses, NoRow, HeldInv, InRotation, IsolationExplained
  <1>3. CASE \E r \in Reporters, a \in Accounts, e \in Errors : RecordThrottle(r, a, e)
    BY <1>3 DEF RecordThrottle, Begin, Input, Goto, Touch, account, events, operator,
       history, isolation, outage, IInv, TypeOK, Targets, Statuses, NoRow, HeldInv,
       InRotation, IsolationExplained
  <1>4. CASE \E r \in Reporters : Judge(r)
    BY <1>4 DEF Judge, Move, Goto, account, events, operator, history, isolation,
       outage, IInv, TypeOK, Targets, Statuses, NoRow, HeldInv, InRotation,
       IsolationExplained
  <1>5. CASE \E r \in Reporters : Blacklist(r)
    BY <1>5 DEF Blacklist, Move, Goto, Touch, account, events, operator, history,
       isolation, outage, IInv, TypeOK, Targets, Statuses, NoRow, HeldInv, InRotation,
       IsolationExplained
  <1>6. CASE \E r \in Reporters : Park(r)
    BY <1>6 DEF Park, Move, Goto, MarkThrottled, Outdate, Touch, account, events,
       operator, history, isolation, outage, IInv, TypeOK, Targets, Statuses, NoRow,
       HeldInv, InRotation, IsolationExplained
  <1>7. CASE \E r \in Reporters : Evict(r)
    BY <1>7 DEF Evict, Move, Goto, account, events, operator, history, isolation,
       outage, IInv, TypeOK, Targets, Statuses, NoRow, HeldInv, InRotation,
       IsolationExplained
  <1>8. CASE \E r \in Reporters : Guard(r)
    BY <1>8 DEF Guard, Move, Goto, account, events, operator, history, isolation,
       outage, IInv, TypeOK, Targets, Statuses, NoRow, HeldInv, InRotation,
       IsolationExplained
  <1>9. CASE \E r \in Reporters : DisableEvent(r)
    BY <1>9 DEF DisableEvent, Move, Goto, Touch, account, events, operator, history,
       isolation, outage, IInv, TypeOK, Targets, Statuses, NoRow, HeldInv, InRotation,
       IsolationExplained
  <1>10. CASE \E r \in Reporters : DisableFlip(r)
    BY <1>10 DEF DisableFlip, Move, Goto, MarkIsolated, Outdate, Touch, account, events,
       operator, history, isolation, outage, IInv, TypeOK, Targets, Statuses, NoRow,
       HeldInv, InRotation, IsolationExplained
  <1>11. CASE RecoverThrottled
    BY <1>11 DEF RecoverThrottled, Cooled, Outdate, account, events, operator, history,
       isolation, outage, IInv, TypeOK, Targets, Statuses, NoRow, HeldInv, InRotation,
       IsolationExplained
  <1>12. CASE \E a \in Accounts, s \in Statuses : PauseOrDelete(a, s)
    BY <1>12 DEF PauseOrDelete, Input, MarkIsolated, Outdate, Touch, account, events,
       operator, history, isolation, outage, IInv, TypeOK, Targets, Statuses, NoRow,
       HeldInv, InRotation, IsolationExplained
  <1>13. CASE \E a \in Accounts : Resume(a)
    BY <1>13 DEF Resume, Input, MarkActive, Outdate, Touch, account, events, operator,
       history, isolation, outage, IInv, TypeOK, Targets, Statuses, NoRow, HeldInv,
       InRotation, IsolationExplained
  <1>14. CASE \E a \in Accounts : RecoverAccount(a)
    BY <1>14 DEF RecoverAccount, Input, account, events, operator, history, isolation,
       outage, IInv, TypeOK, Targets, Statuses, NoRow, HeldInv, InRotation,
       IsolationExplained
  <1>15. CASE RecoverMark
    BY <1>15 DEF RecoverMark, MarkActive, Outdate, account, events, operator, history,
       isolation, outage, IInv, TypeOK, Targets, Statuses, NoRow, HeldInv, InRotation,
       IsolationExplained
  <1>16. CASE RecoverReset
    BY <1>16 DEF RecoverReset, ResetFailStreak, Touch, account, events, operator,
       history, isolation, outage, IInv, TypeOK, Targets, Statuses, NoRow, HeldInv,
       InRotation, IsolationExplained
  <1>17. CASE RecoverDelete
    BY <1>17 DEF RecoverDelete, Touch, account, events, operator, history, isolation,
       outage, IInv, TypeOK, Targets, Statuses, NoRow, HeldInv, InRotation,
       IsolationExplained
  <1>18. CASE \E a \in Accounts : PatchRead(a)
    BY <1>18 DEF PatchRead, Input, account, events, operator, history, isolation,
       outage, IInv, TypeOK, Targets, Statuses, NoRow, HeldInv, InRotation,
       IsolationExplained
  <1>19. CASE \E a \in Accounts : PatchWrite(a)
    BY <1>19 DEF PatchWrite, Upsert, Touch, InRotation, account, events, operator,
       history, isolation, outage, IInv, TypeOK, Targets, Statuses, NoRow, HeldInv,
       IsolationExplained
  <1>20. CASE \E a \in Accounts : PatchEnds(a)
    BY <1>20 DEF PatchEnds, account, events, operator, history, isolation, outage, IInv,
       TypeOK, Targets, Statuses, NoRow, HeldInv, InRotation, IsolationExplained
  <1>21. CASE \E a \in Accounts : Reimport(a)
    BY <1>21 DEF Reimport, Input, Upsert, Outdate, Touch, account, events, operator,
       history, isolation, outage, IInv, TypeOK, Targets, Statuses, NoRow, HeldInv,
       InRotation, IsolationExplained
  <1>22. CASE \E a \in Accounts : CooldownEnds(a)
    BY <1>22 DEF CooldownEnds, account, events, operator, history, isolation, outage,
       IInv, TypeOK, Targets, Statuses, NoRow, HeldInv, InRotation, IsolationExplained
  <1>23. CASE \E a \in Accounts : ThrottleAges(a)
    BY <1>23 DEF ThrottleAges, account, events, operator, history, isolation, outage,
       IInv, TypeOK, Targets, Statuses, NoRow, HeldInv, InRotation, IsolationExplained
  <1>24. CASE \E a \in Accounts : BlacklistAges(a)
    BY <1>24 DEF BlacklistAges, account, events, operator, history, isolation, outage,
       IInv, TypeOK, Targets, Statuses, NoRow, HeldInv, InRotation, IsolationExplained
  <1>25. CASE \E a \in Accounts : MarkAges(a)
    BY <1>25 DEF MarkAges, account, events, operator, history, isolation, outage, IInv,
       TypeOK, Targets, Statuses, NoRow, HeldInv, InRotation, IsolationExplained
  <1>26. CASE \E a \in Accounts : LostAges(a)
    BY <1>26 DEF LostAges, account, events, operator, history, isolation, outage, IInv,
       TypeOK, Targets, Statuses, NoRow, HeldInv, InRotation, IsolationExplained
  <1>27. CASE UNCHANGED vars
    BY <1>27 DEF vars, account, events, operator, history, isolation, outage, IInv,
       TypeOK, Targets, Statuses, NoRow, HeldInv, InRotation, IsolationExplained
  <1> QED
    BY <1>1, <1>2, <1>3, <1>4, <1>5, <1>6, <1>7, <1>8, <1>9, <1>10, <1>11, <1>12, <1>13,
       <1>14, <1>15, <1>16, <1>17, <1>18, <1>19, <1>20, <1>21, <1>22, <1>23, <1>24, <1>25,
       <1>26, <1>27, NextCases

\* A disabled, suspended or banned account gets back into rotation only by an operator,
\* by MarkThrottled, which overwrites its status for the recoverer to lift, or by the
\* Upsert of a PATCH that had read the row before its status changed.
THEOREM IsolationIsExplained == Spec => []IsolationExplained
  <1>1. Init => IsolationExplained
    BY DEF Init, IsolationExplained
  <1>2. IInv /\ HeldInv /\ IsolationExplained /\ [Next]_vars => IsolationExplained'
    BY IsolationStep
  <1> QED
    BY <1>1, <1>2, SpecIInv, SpecHeld, PTL DEF Spec

-----------------------------------------------------------------------------
(* RecoverAccount                                                          *)

\* What RecoverAccount has achieved so far, as long as nobody else wrote.
SlateInv ==
    \A a \in Accounts :
        /\ slate[a] = "recovering" =>
              /\ opAcct = a /\ op \in {"reset", "delete"}
              /\ status[a] = "active" /\ until[a] = "none"
              /\ op = "delete" => streak[a] = 0
        /\ slate[a] = "clean" =>
              /\ status[a] = "active" /\ until[a] = "none" /\ streak[a] = 0
              /\ throttles[a] = 0 /\ blacklists[a] = 0 /\ a \notin marks

\* Every step keeps what RecoverAccount achieved, or gives up the claim.
LEMMA SlateStep ==
  ASSUME IInv, SlateInv, [Next]_vars
  PROVE  SlateInv'
  <1>1. CASE \E r \in Reporters, a \in Accounts : RecordSuccess(r, a)
    BY <1>1 DEF RecordSuccess, Begin, Input, ResetFailStreak, account, events, operator,
       history, isolation, outage, IInv, TypeOK, Targets, NoRow, SlateInv
  <1>2. CASE \E r \in Reporters, a \in Accounts, e \in Errors : RecordFailure(r, a, e)
    BY <1>2 DEF RecordFailure, Begin, Input, IncrFailStreak, Goto, Touch, FailureReason,
       DisableReasons, account, events, operator, history, isolation, outage, IInv, TypeOK,
       Targets, NoRow, SlateInv
  <1>3. CASE \E r \in Reporters, a \in Accounts, e \in Errors : RecordThrottle(r, a, e)
    BY <1>3 DEF RecordThrottle, Begin, Input, Goto, Touch, account, events, operator,
       history, isolation, outage, IInv, TypeOK, Targets, NoRow, SlateInv
  <1>4. CASE \E r \in Reporters : Judge(r)
    BY <1>4 DEF Judge, Move, Goto, account, events, operator, history, isolation,
       outage, IInv, TypeOK, Targets, NoRow, SlateInv
  <1>5. CASE \E r \in Reporters : Blacklist(r)
    BY <1>5 DEF Blacklist, Move, Goto, Touch, account, events, operator, history,
       isolation, outage, IInv, TypeOK, Targets, NoRow, SlateInv
  <1>6. CASE \E r \in Reporters : Park(r)
    BY <1>6 DEF Park, Move, Goto, MarkThrottled, Outdate, Touch, account, events,
       operator, history, isolation, outage, IInv, TypeOK, Targets, NoRow, SlateInv
  <1>7. CASE \E r \in Reporters : Evict(r)
    BY <1>7 DEF Evict, Move, Goto, account, events, operator, history, isolation,
       outage, IInv, TypeOK, Targets, NoRow, SlateInv
  <1>8. CASE \E r \in Reporters : Guard(r)
    BY <1>8 DEF Guard, Move, Goto, account, events, operator, history, isolation,
       outage, IInv, TypeOK, Targets, NoRow, SlateInv
  <1>9. CASE \E r \in Reporters : DisableEvent(r)
    BY <1>9 DEF DisableEvent, Move, Goto, Touch, account, events, operator, history,
       isolation, outage, IInv, TypeOK, Targets, NoRow, SlateInv
  <1>10. CASE \E r \in Reporters : DisableFlip(r)
    BY <1>10 DEF DisableFlip, Move, Goto, MarkIsolated, Outdate, Touch, account, events,
       operator, history, isolation, outage, IInv, TypeOK, Targets, NoRow, SlateInv
  <1>11. CASE RecoverThrottled
    BY <1>11 DEF RecoverThrottled, Cooled, Outdate, account, events, operator, history,
       isolation, outage, IInv, TypeOK, Targets, NoRow, SlateInv
  <1>12. CASE \E a \in Accounts, s \in Statuses : PauseOrDelete(a, s)
    BY <1>12 DEF PauseOrDelete, Input, MarkIsolated, Outdate, Touch, account, events,
       operator, history, isolation, outage, IInv, TypeOK, Targets, NoRow, SlateInv
  <1>13. CASE \E a \in Accounts : Resume(a)
    BY <1>13 DEF Resume, Input, MarkActive, Outdate, Touch, account, events, operator,
       history, isolation, outage, IInv, TypeOK, Targets, NoRow, SlateInv
  <1>14. CASE \E a \in Accounts : RecoverAccount(a)
    BY <1>14 DEF RecoverAccount, Input, account, events, operator, history, isolation,
       outage, IInv, TypeOK, Targets, NoRow, SlateInv
  <1>15. CASE RecoverMark
    BY <1>15 DEF RecoverMark, MarkActive, Outdate, account, events, operator, history,
       isolation, outage, IInv, TypeOK, Targets, NoRow, SlateInv
  <1>16. CASE RecoverReset
    BY <1>16 DEF RecoverReset, ResetFailStreak, Touch, account, events, operator,
       history, isolation, outage, IInv, TypeOK, Targets, NoRow, SlateInv
  <1>17. CASE RecoverDelete
    BY <1>17 DEF RecoverDelete, Touch, account, events, operator, history, isolation,
       outage, IInv, TypeOK, Targets, NoRow, SlateInv
  <1>18. CASE \E a \in Accounts : PatchRead(a)
    BY <1>18 DEF PatchRead, Input, account, events, operator, history, isolation,
       outage, IInv, TypeOK, Targets, NoRow, SlateInv
  <1>19. CASE \E a \in Accounts : PatchWrite(a)
    BY <1>19 DEF PatchWrite, Upsert, Touch, InRotation, account, events, operator,
       history, isolation, outage, IInv, TypeOK, Targets, NoRow, SlateInv
  <1>20. CASE \E a \in Accounts : PatchEnds(a)
    BY <1>20 DEF PatchEnds, account, events, operator, history, isolation, outage, IInv,
       TypeOK, Targets, NoRow, SlateInv
  <1>21. CASE \E a \in Accounts : Reimport(a)
    BY <1>21 DEF Reimport, Input, Upsert, Outdate, Touch, account, events, operator,
       history, isolation, outage, IInv, TypeOK, Targets, NoRow, SlateInv
  <1>22. CASE \E a \in Accounts : CooldownEnds(a)
    BY <1>22 DEF CooldownEnds, account, events, operator, history, isolation, outage,
       IInv, TypeOK, Targets, NoRow, SlateInv
  <1>23. CASE \E a \in Accounts : ThrottleAges(a)
    BY <1>23 DEF ThrottleAges, account, events, operator, history, isolation, outage,
       IInv, TypeOK, Targets, NoRow, SlateInv
  <1>24. CASE \E a \in Accounts : BlacklistAges(a)
    BY <1>24 DEF BlacklistAges, account, events, operator, history, isolation, outage,
       IInv, TypeOK, Targets, NoRow, SlateInv
  <1>25. CASE \E a \in Accounts : MarkAges(a)
    BY <1>25 DEF MarkAges, account, events, operator, history, isolation, outage, IInv,
       TypeOK, Targets, NoRow, SlateInv
  <1>26. CASE \E a \in Accounts : LostAges(a)
    BY <1>26 DEF LostAges, account, events, operator, history, isolation, outage, IInv,
       TypeOK, Targets, NoRow, SlateInv
  <1>27. CASE UNCHANGED vars
    BY <1>27 DEF vars, account, events, operator, history, isolation, outage, IInv,
       TypeOK, Targets, NoRow, SlateInv
  <1> QED
    BY <1>1, <1>2, <1>3, <1>4, <1>5, <1>6, <1>7, <1>8, <1>9, <1>10, <1>11, <1>12, <1>13,
       <1>14, <1>15, <1>16, <1>17, <1>18, <1>19, <1>20, <1>21, <1>22, <1>23, <1>24, <1>25,
       <1>26, <1>27, NextCases

\* An account RecoverAccount brought back has a clean slate until somebody writes
\* about it again.
THEOREM RecoverCleans == Spec => []CleanSlate
  <1>1. Init => SlateInv
    BY DEF Init, SlateInv
  <1>2. IInv /\ SlateInv /\ [Next]_vars => SlateInv'
    BY SlateStep
  <1>3. SlateInv => CleanSlate
    BY DEF SlateInv, CleanSlate
  <1> QED
    BY <1>1, <1>2, <1>3, SpecIInv, PTL DEF Spec

-----------------------------------------------------------------------------
(* The outage guard                                                        *)

\* The sets the guard is about are finite.
LEMMA GuardFinite ==
  ASSUME IInv
  PROVE  /\ IsFiniteSet(marks) /\ Cardinality(marks) \in Nat
         /\ IsFiniteSet(Deciding) /\ Cardinality(Deciding) \in Nat
         /\ Cardinality(Deciding) <= Cardinality(Reporters)
         /\ Cardinality(Reporters) \in Nat
  <1>1. IsFiniteSet(marks)
    BY AccountsAssumption, FS_Subset DEF IInv, TypeOK
  <1>2. Deciding \subseteq Reporters
    BY DEF Deciding
  <1>3. IsFiniteSet(Deciding) /\ Cardinality(Deciding) <= Cardinality(Reporters)
    BY <1>2, ReportersAssumption, FS_Subset
  <1> QED
    BY <1>1, <1>3, ReportersAssumption, FS_CardinalityType

\* A set that gains at most one element.
LEMMA GainsOne ==
  ASSUME NEW S, NEW T, NEW x, IsFiniteSet(S), T = S \/ T = S \union {x}
  PROVE  Cardinality(T) <= Cardinality(S) + 1
  <1>1. Cardinality(S) \in Nat
    BY FS_CardinalityType
  <1>2. Cardinality(S \union {x}) <= Cardinality(S) + 1
    BY <1>1, FS_AddElement
  <1>3. CASE T = S
    BY <1>1, <1>3
  <1>4. CASE T = S \union {x}
    BY <1>2, <1>4
  <1> QED
    BY <1>3, <1>4

\* Marks that are added one at a time, or taken away.
LEMMA MarksStep ==
  ASSUME IInv, NEW a
  PROVE  /\ Cardinality(marks \union {a}) <= Cardinality(marks) + 1
         /\ Cardinality(marks \ {a}) <= Cardinality(marks)
  <1>1. IsFiniteSet(marks) /\ Cardinality(marks) \in Nat
    BY GuardFinite
  <1>2. Cardinality(marks \union {a}) <= Cardinality(marks) + 1
    BY <1>1, GainsOne
  <1>3. Cardinality(marks \ {a}) <= Cardinality(marks)
    BY <1>1, FS_RemoveElement
  <1> QED
    BY <1>2, <1>3

\* The disables on record, and those about to be, against the guard's limit.
MarksSlack ==
    Cardinality(marks) + Cardinality(Deciding)
        < OutageLimit + Cardinality(Reporters) + blind

\* Each disable off the record is a lost event.
LostCounted == Cardinality(unrecorded) <= missed

\* Steps that leave the guard's sets alone or shrink them, each passage of the guard,
\* and each event written.
LEMMA MarksSlackStep ==
  ASSUME IInv, IInv', MarksSlack, [Next]_vars
  PROVE  MarksSlack'
  <1> DEFINE M == Cardinality(marks)
             D == Cardinality(Deciding)
             N == OutageLimit + Cardinality(Reporters)
  <1> USE LimitsAssumption
  <1>a. M \in Nat /\ D \in Nat /\ Cardinality(Reporters) \in Nat /\ blind \in Nat
    BY GuardFinite DEF IInv, TypeOK
  <1>b. M + D < N + blind
    BY DEF MarksSlack
  <1>c. Cardinality(marks') \in Nat /\ Cardinality(Deciding') \in Nat /\ blind' \in Nat
    <2>1. IsFiniteSet(marks') /\ IsFiniteSet(Deciding')
      <3>1. Deciding' \subseteq Reporters
        BY DEF Deciding
      <3> QED
        BY <3>1, AccountsAssumption, ReportersAssumption, FS_Subset DEF IInv, TypeOK
    <2> QED
      BY <2>1, FS_CardinalityType DEF IInv, TypeOK
  <1>d. SUFFICES Cardinality(marks') + Cardinality(Deciding') < N + blind'
    BY DEF MarksSlack
  <1>e. ASSUME Deciding' = Deciding, blind' = blind,
               marks' = marks \/ \E a : marks' = marks \ {a}
        PROVE  Cardinality(marks') + Cardinality(Deciding') < N + blind'
    <2>1. Cardinality(marks') <= M
      <3>1. CASE marks' = marks
        BY <1>a, <3>1
      <3>2. ASSUME NEW a, marks' = marks \ {a} PROVE Cardinality(marks') <= M
        <4>1. Cardinality(marks \ {a}) <= Cardinality(marks)
          BY MarksStep
        <4> QED
          BY <3>2, <4>1
      <3> QED
        BY <1>e, <3>1, <3>2
    <2> QED
      BY <1>a, <1>b, <1>c, <1>e, <2>1
  <1>1. CASE \E r \in Reporters, a \in Accounts : RecordSuccess(r, a)
    <2>1. Deciding' = Deciding /\ blind' = blind
      BY <1>1 DEF RecordSuccess, Begin, Input, ResetFailStreak, account, events,
         operator, history, isolation, outage, Deciding, IInv, TypeOK
    <2>2. marks' = marks \/ \E a : marks' = marks \ {a}
      BY <1>1 DEF RecordSuccess, Begin, Input, ResetFailStreak, account, events,
         operator, history, isolation, outage
    <2> QED
      BY <2>1, <2>2, <1>e
  <1>2. CASE \E r \in Reporters, a \in Accounts, e \in Errors : RecordFailure(r, a, e)
    <2>1. Deciding' = Deciding /\ blind' = blind
      BY <1>2 DEF RecordFailure, Begin, Input, IncrFailStreak, Goto, Touch,
         FailureReason, DisableReasons, account, events, operator, history, isolation,
         outage, Deciding, IInv, TypeOK
    <2>2. marks' = marks \/ \E a : marks' = marks \ {a}
      BY <1>2 DEF RecordFailure, Begin, Input, IncrFailStreak, Goto, Touch,
         FailureReason, DisableReasons, account, events, operator, history, isolation,
         outage
    <2> QED
      BY <2>1, <2>2, <1>e
  <1>3. CASE \E r \in Reporters, a \in Accounts, e \in Errors : RecordThrottle(r, a, e)
    <2>1. Deciding' = Deciding /\ blind' = blind
      BY <1>3 DEF RecordThrottle, Begin, Input, Goto, Touch, account, events, operator,
         history, isolation, outage, Deciding, IInv, TypeOK
    <2>2. marks' = marks \/ \E a : marks' = marks \ {a}
      BY <1>3 DEF RecordThrottle, Begin, Input, Goto, Touch, account, events, operator,
         history, isolation, outage
    <2> QED
      BY <2>1, <2>2, <1>e
  <1>4. CASE \E r \in Reporters : Judge(r)
    <2>1. Deciding' = Deciding /\ blind' = blind
      BY <1>4 DEF Judge, Move, Goto, account, events, operator, history, isolation,
         outage, Deciding, IInv, TypeOK
    <2>2. marks' = marks \/ \E a : marks' = marks \ {a}
      BY <1>4 DEF Judge, Move, Goto, account, events, operator, history, isolation,
         outage
    <2> QED
      BY <2>1, <2>2, <1>e
  <1>5. CASE \E r \in Reporters : Blacklist(r)
    <2>1. Deciding' = Deciding /\ blind' = blind
      BY <1>5 DEF Blacklist, Move, Goto, Touch, account, events, operator, history,
         isolation, outage, Deciding, IInv, TypeOK
    <2>2. marks' = marks \/ \E a : marks' = marks \ {a}
      BY <1>5 DEF Blacklist, Move, Goto, Touch, account, events, operator, history,
         isolation, outage
    <2> QED
      BY <2>1, <2>2, <1>e
  <1>6. CASE \E r \in Reporters : Park(r)
    <2>1. Deciding' = Deciding /\ blind' = blind
      BY <1>6 DEF Park, Move, Goto, MarkThrottled, Outdate, Touch, account, events,
         operator, history, isolation, outage, Deciding, IInv, TypeOK
    <2>2. marks' = marks \/ \E a : marks' = marks \ {a}
      BY <1>6 DEF Park, Move, Goto, MarkThrottled, Outdate, Touch, account, events,
         operator, history, isolation, outage
    <2> QED
      BY <2>1, <2>2, <1>e
  <1>7. CASE \E r \in Reporters : Evict(r)
    <2>1. Deciding' = Deciding /\ blind' = blind
      BY <1>7 DEF Evict, Move, Goto, account, events, operator, history, isolation,
         outage, Deciding, IInv, TypeOK
    <2>2. marks' = marks \/ \E a : marks' = marks \ {a}
      BY <1>7 DEF Evict, Move, Goto, account, events, operator, history, isolation,
         outage
    <2> QED
      BY <2>1, <2>2, <1>e
  <1>8. CASE \E r \in Reporters : Guard(r)
    <2>1. PICK r \in Reporters : Guard(r)
      BY <1>8
    <2>2. marks' = marks
      BY <2>1 DEF Guard, events
    <2>3. CASE blind' = blind /\ pc' = [pc EXCEPT ![r] = "idle"]
      <3>1. Deciding' = Deciding
        BY <2>1, <2>3 DEF Guard, Deciding, IInv, TypeOK
      <3> QED
        BY <1>e, <2>2, <2>3, <3>1
    <2>4. CASE blind' = blind /\ M < OutageLimit
      <3>1. Deciding' \subseteq Reporters
        BY DEF Deciding
      <3>2. Cardinality(Deciding') <= Cardinality(Reporters)
        BY <3>1, ReportersAssumption, FS_Subset
      <3> QED
        BY <1>a, <1>c, <2>2, <2>4, <3>2
    <2>5. CASE blind' = blind + 1 /\ pc' = [pc EXCEPT ![r] = "event"]
      <3>1. Deciding' = Deciding \union {r}
        BY <2>5 DEF Deciding, IInv, TypeOK
      <3>2. IsFiniteSet(Deciding)
        BY GuardFinite
      <3>3. Cardinality(Deciding') <= Cardinality(Deciding) + 1
        BY <3>1, <3>2, GainsOne
      <3> QED
        BY <1>a, <1>b, <1>c, <2>2, <2>5, <3>3
    <2> QED
      BY <1>a, <2>1, <2>3, <2>4, <2>5 DEF Guard, Move, Goto
  <1>9. CASE \E r \in Reporters : DisableEvent(r)
    <2>1. PICK r \in Reporters : DisableEvent(r)
      BY <1>9
    <2>2. Deciding' = Deciding \ {r} /\ r \in Deciding /\ blind' = blind
      BY <2>1 DEF DisableEvent, Move, Goto, Deciding, IInv, TypeOK
    <2>3. Cardinality(Deciding') = D - 1
      BY <2>2, GuardFinite, FS_RemoveElement
    <2>4. Cardinality(marks') <= Cardinality(marks) + 1
      <3>1. marks' = marks \/ marks' = marks \union {target[r]}
        BY <2>1 DEF DisableEvent
      <3>2. IsFiniteSet(marks)
        BY GuardFinite
      <3> QED
        BY <3>1, <3>2, GainsOne
    <2> QED
      BY <1>a, <1>b, <1>c, <2>2, <2>3, <2>4
  <1>10. CASE \E r \in Reporters : DisableFlip(r)
    <2>1. Deciding' = Deciding /\ blind' = blind
      BY <1>10 DEF DisableFlip, Move, Goto, MarkIsolated, Outdate, Touch, account,
         events, operator, history, isolation, outage, Deciding, IInv, TypeOK
    <2>2. marks' = marks \/ \E a : marks' = marks \ {a}
      BY <1>10 DEF DisableFlip, Move, Goto, MarkIsolated, Outdate, Touch, account,
         events, operator, history, isolation, outage
    <2> QED
      BY <2>1, <2>2, <1>e
  <1>11. CASE RecoverThrottled
    <2>1. Deciding' = Deciding /\ blind' = blind
      BY <1>11 DEF RecoverThrottled, Cooled, Outdate, account, events, operator,
         history, isolation, outage, Deciding, IInv, TypeOK
    <2>2. marks' = marks \/ \E a : marks' = marks \ {a}
      BY <1>11 DEF RecoverThrottled, Cooled, Outdate, account, events, operator,
         history, isolation, outage
    <2> QED
      BY <2>1, <2>2, <1>e
  <1>12. CASE \E a \in Accounts, s \in Statuses : PauseOrDelete(a, s)
    <2>1. Deciding' = Deciding /\ blind' = blind
      BY <1>12 DEF PauseOrDelete, Input, MarkIsolated, Outdate, Touch, account, events,
         operator, history, isolation, outage, Deciding, IInv, TypeOK
    <2>2. marks' = marks \/ \E a : marks' = marks \ {a}
      BY <1>12 DEF PauseOrDelete, Input, MarkIsolated, Outdate, Touch, account, events,
         operator, history, isolation, outage
    <2> QED
      BY <2>1, <2>2, <1>e
  <1>13. CASE \E a \in Accounts : Resume(a)
    <2>1. Deciding' = Deciding /\ blind' = blind
      BY <1>13 DEF Resume, Input, MarkActive, Outdate, Touch, account, events, operator,
         history, isolation, outage, Deciding, IInv, TypeOK
    <2>2. marks' = marks \/ \E a : marks' = marks \ {a}
      BY <1>13 DEF Resume, Input, MarkActive, Outdate, Touch, account, events, operator,
         history, isolation, outage
    <2> QED
      BY <2>1, <2>2, <1>e
  <1>14. CASE \E a \in Accounts : RecoverAccount(a)
    <2>1. Deciding' = Deciding /\ blind' = blind
      BY <1>14 DEF RecoverAccount, Input, account, events, operator, history, isolation,
         outage, Deciding, IInv, TypeOK
    <2>2. marks' = marks \/ \E a : marks' = marks \ {a}
      BY <1>14 DEF RecoverAccount, Input, account, events, operator, history, isolation,
         outage
    <2> QED
      BY <2>1, <2>2, <1>e
  <1>15. CASE RecoverMark
    <2>1. Deciding' = Deciding /\ blind' = blind
      BY <1>15 DEF RecoverMark, MarkActive, Outdate, account, events, operator, history,
         isolation, outage, Deciding, IInv, TypeOK
    <2>2. marks' = marks \/ \E a : marks' = marks \ {a}
      BY <1>15 DEF RecoverMark, MarkActive, Outdate, account, events, operator, history,
         isolation, outage
    <2> QED
      BY <2>1, <2>2, <1>e
  <1>16. CASE RecoverReset
    <2>1. Deciding' = Deciding /\ blind' = blind
      BY <1>16 DEF RecoverReset, ResetFailStreak, Touch, account, events, operator,
         history, isolation, outage, Deciding, IInv, TypeOK
    <2>2. marks' = marks \/ \E a : marks' = marks \ {a}
      BY <1>16 DEF RecoverReset, ResetFailStreak, Touch, account, events, operator,
         history, isolation, outage
    <2> QED
      BY <2>1, <2>2, <1>e
  <1>17. CASE RecoverDelete
    <2>1. Deciding' = Deciding /\ blind' = blind
      BY <1>17 DEF RecoverDelete, Touch, account, events, operator, history, isolation,
         outage, Deciding, IInv, TypeOK
    <2>2. marks' = marks \/ \E a : marks' = marks \ {a}
      BY <1>17 DEF RecoverDelete, Touch, account, events, operator, history, isolation,
         outage
    <2> QED
      BY <2>1, <2>2, <1>e
  <1>18. CASE \E a \in Accounts : PatchRead(a)
    <2>1. Deciding' = Deciding /\ blind' = blind
      BY <1>18 DEF PatchRead, Input, account, events, operator, history, isolation,
         outage, Deciding, IInv, TypeOK
    <2>2. marks' = marks \/ \E a : marks' = marks \ {a}
      BY <1>18 DEF PatchRead, Input, account, events, operator, history, isolation,
         outage
    <2> QED
      BY <2>1, <2>2, <1>e
  <1>19. CASE \E a \in Accounts : PatchWrite(a)
    <2>1. Deciding' = Deciding /\ blind' = blind
      BY <1>19 DEF PatchWrite, Upsert, Touch, InRotation, account, events, operator,
         history, isolation, outage, Deciding, IInv, TypeOK
    <2>2. marks' = marks \/ \E a : marks' = marks \ {a}
      BY <1>19 DEF PatchWrite, Upsert, Touch, InRotation, account, events, operator,
         history, isolation, outage
    <2> QED
      BY <2>1, <2>2, <1>e
  <1>20. CASE \E a \in Accounts : PatchEnds(a)
    <2>1. Deciding' = Deciding /\ blind' = blind
      BY <1>20 DEF PatchEnds, account, events, operator, history, isolation, outage,
         Deciding, IInv, TypeOK
    <2>2. marks' = marks \/ \E a : marks' = marks \ {a}
      BY <1>20 DEF PatchEnds, account, events, operator, history, isolation, outage
    <2> QED
      BY <2>1, <2>2, <1>e
  <1>21. CASE \E a \in Accounts : Reimport(a)
    <2>1. Deciding' = Deciding /\ blind' = blind
      BY <1>21 DEF Reimport, Input, Upsert, Outdate, Touch, account, events, operator,
         history, isolation, outage, Deciding, IInv, TypeOK
    <2>2. marks' = marks \/ \E a : marks' = marks \ {a}
      BY <1>21 DEF Reimport, Input, Upsert, Outdate, Touch, account, events, operator,
         history, isolation, outage
    <2> QED
      BY <2>1, <2>2, <1>e
  <1>22. CASE \E a \in Accounts : CooldownEnds(a)
    <2>1. Deciding' = Deciding /\ blind' = blind
      BY <1>22 DEF CooldownEnds, account, events, operator, history, isolation, outage,
         Deciding, IInv, TypeOK
    <2>2. marks' = marks \/ \E a : marks' = marks \ {a}
      BY <1>22 DEF CooldownEnds, account, events, operator, history, isolation, outage
    <2> QED
      BY <2>1, <2>2, <1>e
  <1>23. CASE \E a \in Accounts : ThrottleAges(a)
    <2>1. Deciding' = Deciding /\ blind' = blind
      BY <1>23 DEF ThrottleAges, account, events, operator, history, isolation, outage,
         Deciding, IInv, TypeOK
    <2>2. marks' = marks \/ \E a : marks' = marks \ {a}
      BY <1>23 DEF ThrottleAges, account, events, operator, history, isolation, outage
    <2> QED
      BY <2>1, <2>2, <1>e
  <1>24. CASE \E a \in Accounts : BlacklistAges(a)
    <2>1. Deciding' = Deciding /\ blind' = blind
      BY <1>24 DEF BlacklistAges, account, events, operator, history, isolation, outage,
         Deciding, IInv, TypeOK
    <2>2. marks' = marks \/ \E a : marks' = marks \ {a}
      BY <1>24 DEF BlacklistAges, account, events, operator, history, isolation, outage
    <2> QED
      BY <2>1, <2>2, <1>e
  <1>25. CASE \E a \in Accounts : MarkAges(a)
    <2>1. Deciding' = Deciding /\ blind' = blind
      BY <1>25 DEF MarkAges, account, events, operator, history, isolation, outage,
         Deciding, IInv, TypeOK
    <2>2. marks' = marks \/ \E a : marks' = marks \ {a}
      BY <1>25 DEF MarkAges, account, events, operator, history, isolation, outage
    <2> QED
      BY <2>1, <2>2, <1>e
  <1>26. CASE \E a \in Accounts : LostAges(a)
    <2>1. Deciding' = Deciding /\ blind' = blind
      BY <1>26 DEF LostAges, account, events, operator, history, isolation, outage,
         Deciding, IInv, TypeOK
    <2>2. marks' = marks \/ \E a : marks' = marks \ {a}
      BY <1>26 DEF LostAges, account, events, operator, history, isolation, outage
    <2> QED
      BY <2>1, <2>2, <1>e
  <1>27. CASE UNCHANGED vars
    <2>1. Deciding' = Deciding /\ blind' = blind
      BY <1>27 DEF vars, account, events, operator, history, isolation, outage,
         Deciding, IInv, TypeOK
    <2>2. marks' = marks \/ \E a : marks' = marks \ {a}
      BY <1>27 DEF vars, account, events, operator, history, isolation, outage
    <2> QED
      BY <2>1, <2>2, <1>e
  <1> QED
    BY <1>1, <1>2, <1>3, <1>4, <1>5, <1>6, <1>7, <1>8, <1>9, <1>10, <1>11, <1>12, <1>13,
       <1>14, <1>15, <1>16, <1>17, <1>18, <1>19, <1>20, <1>21, <1>22, <1>23, <1>24, <1>25,
       <1>26, <1>27, NextCases

\* Each event that is lost is counted, and adds one account to those off the record.
LEMMA LostStep ==
  ASSUME IInv, IInv', LostCounted, [Next]_vars
  PROVE  LostCounted'
  <1>a. IsFiniteSet(unrecorded) /\ Cardinality(unrecorded) \in Nat /\ missed \in Nat
    BY AccountsAssumption, FS_Subset, FS_CardinalityType DEF IInv, TypeOK
  <1>b. Cardinality(unrecorded') \in Nat /\ missed' \in Nat
    BY AccountsAssumption, FS_Subset, FS_CardinalityType DEF IInv, TypeOK
  <1>c. Cardinality(unrecorded) <= missed
    BY DEF LostCounted
  <1>1. CASE \E r \in Reporters, a \in Accounts : RecordSuccess(r, a)
    <2>1. unrecorded' = unrecorded /\ missed' = missed
      BY <1>1 DEF RecordSuccess, Begin, Input, ResetFailStreak, account, events,
         operator, history, isolation, outage
    <2> QED
      BY <1>c, <2>1 DEF LostCounted
  <1>2. CASE \E r \in Reporters, a \in Accounts, e \in Errors : RecordFailure(r, a, e)
    <2>1. unrecorded' = unrecorded /\ missed' = missed
      BY <1>2 DEF RecordFailure, Begin, Input, IncrFailStreak, Goto, Touch,
         FailureReason, DisableReasons, account, events, operator, history, isolation,
         outage
    <2> QED
      BY <1>c, <2>1 DEF LostCounted
  <1>3. CASE \E r \in Reporters, a \in Accounts, e \in Errors : RecordThrottle(r, a, e)
    <2>1. unrecorded' = unrecorded /\ missed' = missed
      BY <1>3 DEF RecordThrottle, Begin, Input, Goto, Touch, account, events, operator,
         history, isolation, outage
    <2> QED
      BY <1>c, <2>1 DEF LostCounted
  <1>4. CASE \E r \in Reporters : Judge(r)
    <2>1. unrecorded' = unrecorded /\ missed' = missed
      BY <1>4 DEF Judge, Move, Goto, account, events, operator, history, isolation,
         outage
    <2> QED
      BY <1>c, <2>1 DEF LostCounted
  <1>5. CASE \E r \in Reporters : Blacklist(r)
    <2>1. unrecorded' = unrecorded /\ missed' = missed
      BY <1>5 DEF Blacklist, Move, Goto, Touch, account, events, operator, history,
         isolation, outage
    <2> QED
      BY <1>c, <2>1 DEF LostCounted
  <1>6. CASE \E r \in Reporters : Park(r)
    <2>1. unrecorded' = unrecorded /\ missed' = missed
      BY <1>6 DEF Park, Move, Goto, MarkThrottled, Outdate, Touch, account, events,
         operator, history, isolation, outage
    <2> QED
      BY <1>c, <2>1 DEF LostCounted
  <1>7. CASE \E r \in Reporters : Evict(r)
    <2>1. unrecorded' = unrecorded /\ missed' = missed
      BY <1>7 DEF Evict, Move, Goto, account, events, operator, history, isolation,
         outage
    <2> QED
      BY <1>c, <2>1 DEF LostCounted
  <1>8. CASE \E r \in Reporters : Guard(r)
    <2>1. unrecorded' = unrecorded /\ missed' = missed
      BY <1>8 DEF Guard, Move, Goto, account, events, operator, history, isolation,
         outage
    <2> QED
      BY <1>c, <2>1 DEF LostCounted
  <1>9. CASE \E r \in Reporters : DisableEvent(r)
    <2>1. PICK r \in Reporters : DisableEvent(r)
      BY <1>9
    <2>2. CASE UNCHANGED <<unrecorded, missed>>
      BY <1>c, <2>2 DEF LostCounted
    <2>3. CASE unrecorded' = unrecorded \union {target[r]} /\ missed' = missed + 1
      <3>1. Cardinality(unrecorded') <= Cardinality(unrecorded) + 1
        BY <1>a, <2>3, GainsOne
      <3> QED
        BY <1>a, <1>b, <1>c, <2>3, <3>1 DEF LostCounted
    <2> QED
      BY <2>1, <2>2, <2>3 DEF DisableEvent
  <1>10. CASE \E r \in Reporters : DisableFlip(r)
    <2>1. unrecorded' = unrecorded /\ missed' = missed
      BY <1>10 DEF DisableFlip, Move, Goto, MarkIsolated, Outdate, Touch, account,
         events, operator, history, isolation, outage
    <2> QED
      BY <1>c, <2>1 DEF LostCounted
  <1>11. CASE RecoverThrottled
    <2>1. unrecorded' = unrecorded /\ missed' = missed
      BY <1>11 DEF RecoverThrottled, Cooled, Outdate, account, events, operator,
         history, isolation, outage
    <2> QED
      BY <1>c, <2>1 DEF LostCounted
  <1>12. CASE \E a \in Accounts, s \in Statuses : PauseOrDelete(a, s)
    <2>1. unrecorded' = unrecorded /\ missed' = missed
      BY <1>12 DEF PauseOrDelete, Input, MarkIsolated, Outdate, Touch, account, events,
         operator, history, isolation, outage
    <2> QED
      BY <1>c, <2>1 DEF LostCounted
  <1>13. CASE \E a \in Accounts : Resume(a)
    <2>1. unrecorded' = unrecorded /\ missed' = missed
      BY <1>13 DEF Resume, Input, MarkActive, Outdate, Touch, account, events, operator,
         history, isolation, outage
    <2> QED
      BY <1>c, <2>1 DEF LostCounted
  <1>14. CASE \E a \in Accounts : RecoverAccount(a)
    <2>1. unrecorded' = unrecorded /\ missed' = missed
      BY <1>14 DEF RecoverAccount, Input, account, events, operator, history, isolation,
         outage
    <2> QED
      BY <1>c, <2>1 DEF LostCounted
  <1>15. CASE RecoverMark
    <2>1. unrecorded' = unrecorded /\ missed' = missed
      BY <1>15 DEF RecoverMark, MarkActive, Outdate, account, events, operator, history,
         isolation, outage
    <2> QED
      BY <1>c, <2>1 DEF LostCounted
  <1>16. CASE RecoverReset
    <2>1. unrecorded' = unrecorded /\ missed' = missed
      BY <1>16 DEF RecoverReset, ResetFailStreak, Touch, account, events, operator,
         history, isolation, outage
    <2> QED
      BY <1>c, <2>1 DEF LostCounted
  <1>17. CASE RecoverDelete
    <2>1. unrecorded' = unrecorded /\ missed' = missed
      BY <1>17 DEF RecoverDelete, Touch, account, events, operator, history, isolation,
         outage
    <2> QED
      BY <1>c, <2>1 DEF LostCounted
  <1>18. CASE \E a \in Accounts : PatchRead(a)
    <2>1. unrecorded' = unrecorded /\ missed' = missed
      BY <1>18 DEF PatchRead, Input, account, events, operator, history, isolation,
         outage
    <2> QED
      BY <1>c, <2>1 DEF LostCounted
  <1>19. CASE \E a \in Accounts : PatchWrite(a)
    <2>1. unrecorded' = unrecorded /\ missed' = missed
      BY <1>19 DEF PatchWrite, Upsert, Touch, InRotation, account, events, operator,
         history, isolation, outage
    <2> QED
      BY <1>c, <2>1 DEF LostCounted
  <1>20. CASE \E a \in Accounts : PatchEnds(a)
    <2>1. unrecorded' = unrecorded /\ missed' = missed
      BY <1>20 DEF PatchEnds, account, events, operator, history, isolation, outage
    <2> QED
      BY <1>c, <2>1 DEF LostCounted
  <1>21. CASE \E a \in Accounts : Reimport(a)
    <2>1. unrecorded' = unrecorded /\ missed' = missed
      BY <1>21 DEF Reimport, Input, Upsert, Outdate, Touch, account, events, operator,
         history, isolation, outage
    <2> QED
      BY <1>c, <2>1 DEF LostCounted
  <1>22. CASE \E a \in Accounts : CooldownEnds(a)
    <2>1. unrecorded' = unrecorded /\ missed' = missed
      BY <1>22 DEF CooldownEnds, account, events, operator, history, isolation, outage
    <2> QED
      BY <1>c, <2>1 DEF LostCounted
  <1>23. CASE \E a \in Accounts : ThrottleAges(a)
    <2>1. unrecorded' = unrecorded /\ missed' = missed
      BY <1>23 DEF ThrottleAges, account, events, operator, history, isolation, outage
    <2> QED
      BY <1>c, <2>1 DEF LostCounted
  <1>24. CASE \E a \in Accounts : BlacklistAges(a)
    <2>1. unrecorded' = unrecorded /\ missed' = missed
      BY <1>24 DEF BlacklistAges, account, events, operator, history, isolation, outage
    <2> QED
      BY <1>c, <2>1 DEF LostCounted
  <1>25. CASE \E a \in Accounts : MarkAges(a)
    <2>1. unrecorded' = unrecorded /\ missed' = missed
      BY <1>25 DEF MarkAges, account, events, operator, history, isolation, outage
    <2> QED
      BY <1>c, <2>1 DEF LostCounted
  <1>26. CASE \E a \in Accounts : LostAges(a)
    <2>1. PICK a \in Accounts : LostAges(a)
      BY <1>26
    <2>2. unrecorded' = unrecorded \ {a} /\ a \in unrecorded /\ missed' = missed
      BY <2>1 DEF LostAges
    <2>3. Cardinality(unrecorded') = Cardinality(unrecorded) - 1
      BY <1>a, <2>2, FS_RemoveElement
    <2> QED
      BY <1>a, <1>b, <1>c, <2>2, <2>3 DEF LostCounted
  <1>27. CASE UNCHANGED vars
    <2>1. unrecorded' = unrecorded /\ missed' = missed
      BY <1>27 DEF vars, account, events, operator, history, isolation, outage
    <2> QED
      BY <1>c, <2>1 DEF LostCounted
  <1> QED
    BY <1>1, <1>2, <1>3, <1>4, <1>5, <1>6, <1>7, <1>8, <1>9, <1>10, <1>11, <1>12, <1>13,
       <1>14, <1>15, <1>16, <1>17, <1>18, <1>19, <1>20, <1>21, <1>22, <1>23, <1>24, <1>25,
       <1>26, <1>27, NextCases

\* For any pool, any number of reporters and any interleaving, the accounts a disable was
\* decided about in the outage window, on record or not, stay below the guard's limit plus
\* the number of reporters plus one for each statement of the guard that failed.
THEOREM GuardSlackHolds == Spec => []GuardSlack
  <1>1. Init => MarksSlack /\ LostCounted
    <2> SUFFICES ASSUME Init PROVE MarksSlack /\ LostCounted
      OBVIOUS
    <2>1. marks = {} /\ Deciding = {} /\ blind = 0 /\ unrecorded = {} /\ missed = 0
      BY DEF Init, Deciding
    <2>2. Cardinality({}) = 0
      BY FS_EmptySet
    <2> QED
      BY <2>1, <2>2, LimitsAssumption, ReportersAssumption, FS_CardinalityType
         DEF MarksSlack, LostCounted
  <1>2. IInv /\ IInv' /\ MarksSlack /\ LostCounted /\ [Next]_vars
        => MarksSlack' /\ LostCounted'
    BY MarksSlackStep, LostStep
  <1>3. IInv /\ MarksSlack /\ LostCounted => GuardSlack
    <2> SUFFICES ASSUME IInv, MarksSlack, LostCounted PROVE GuardSlack
      OBVIOUS
    <2>1. IsFiniteSet(unrecorded) /\ IsFiniteSet(marks)
      BY AccountsAssumption, FS_Subset DEF IInv, TypeOK
    <2>2. /\ Cardinality(unrecorded) \in Nat /\ Cardinality(marks) \in Nat
          /\ Cardinality(marks \intersect unrecorded) \in Nat
      BY <2>1, FS_CardinalityType, FS_Intersection
    <2>3. Cardinality(Disabled) <= Cardinality(marks) + Cardinality(unrecorded)
      <3>1. Cardinality(marks \union unrecorded)
              = Cardinality(marks) + Cardinality(unrecorded)
                - Cardinality(marks \intersect unrecorded)
        BY <2>1, FS_Union
      <3> QED
        BY <2>2, <3>1 DEF Disabled
    <2>4. Cardinality(Disabled) \in Nat
      BY <2>1, FS_Union, FS_CardinalityType DEF Disabled
    <2> QED
      BY <2>2, <2>3, <2>4, GuardFinite, LimitsAssumption
         DEF MarksSlack, LostCounted, GuardSlack, IInv, TypeOK
  <1> QED
    BY <1>1, <1>2, <1>3, SpecIInv, PTL DEF Spec
=============================================================================

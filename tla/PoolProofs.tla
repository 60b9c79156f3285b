----------------------------- MODULE PoolProofs -----------------------------
(***************************************************************************)
(* Theorems about Pool for any accounts, groups, keys, models, limits,     *)
(* number of concurrent requests and faults.                               *)
(***************************************************************************)
EXTENDS Pool, FiniteSetTheorems, TLAPS

\* What a request knows at each point of its life.
WellFormed ==
    \A r \in Requests :
        /\ pc[r] # "idle" =>
             /\ key[r] \in Keys /\ model[r] \in Models
             /\ cand[r] \in 1..Len(KeyRow[key[r]].groups)
        /\ pc[r] \in {"write", "running"} => acct[r] \in Accounts /\ InScope(acct[r], grp[r])
        /\ r \in policyRead => grp[r] \in Groups /\ pc[r] \notin {"idle", "policy"}

IInv == TypeOK /\ WellFormed

-----------------------------------------------------------------------------
\* Next as one flat disjunction, for the case splits below.
LEMMA NextCases ==
  ASSUME [Next]_vars
  PROVE  \/ \E r \in Requests, k \in Keys, m \in Models : Start(r, k, m)
         \/ \E r \in Requests : ReadPolicy(r)
         \/ \E r \in Requests : GateRefuses(r)
         \/ \E r \in Requests : NoPolicy(r)
         \/ \E r \in Requests : Select(r)
         \/ \E r \in Requests : SelectRefuses(r)
         \/ \E r \in Requests : Write(r)
         \/ \E r \in Requests : PickFails(r)
         \/ \E r \in Requests : CreateFails(r)
         \/ \E r \in Requests : PollFails(r)
         \/ \E r \in Requests : Finish(r)
         \/ \E r \in Requests, c \in 0..MaxCharge : MeterKey(r, c)
         \/ \E r \in Requests : MeterGroup(r)
         \/ \E a \in Accounts : ChangeStatus(a)
         \/ \E a \in Accounts, b \in BalanceValues : ChangeBalance(a, b)
         \/ NewMonth
         \/ \E k \in Keys : ResetKey(k)
         \/ UNCHANGED vars
         \/ \E r \in Requests, k \in Keys, m \in Models, g \in Groups \union {NoGroup} :
               Execute(r, k, m, g)
  BY KeysAssumption DEF Next, RequestNext

\* The initial state satisfies the inductive invariant.
LEMMA InitIInv == Init => IInv
  BY AccountsAssumption, ModelsAssumption DEF Init, IInv, TypeOK, WellFormed, RequestPC

\* A key's groups are groups or the global pool.
LEMMA GroupsOfKey ==
  ASSUME NEW k \in Keys, NEW i \in 1..Len(KeyRow[k].groups)
  PROVE  KeyRow[k].groups[i] \in Groups \union {NoGroup}
  BY KeysAssumption

\* A key has a first group.
LEMMA FirstGroup ==
  ASSUME NEW k \in Keys
  PROVE  Len(KeyRow[k].groups) \in Nat \ {0}
  BY KeysAssumption

\* Every step keeps the types of the rows and the counters.
LEMMA RowTypes ==
  ASSUME IInv, [Next]_vars
  PROVE  /\ inFlight' \in [Accounts -> Nat]
         /\ usable' \subseteq Accounts /\ balance' \in [Accounts -> BalanceValues]
         /\ used' \in [Groups -> Nat] /\ keyUsed' \in [Keys -> Nat] /\ charged' \subseteq Groups
         /\ pending' \subseteq Keys /\ month' \in Nat
         /\ starts' \in Nat /\ changes' \in Nat
         /\ drift' \in Nat /\ open' \in Nat /\ ungated' \in Nat
  <1>1. CASE \E r \in Requests, k \in Keys, m \in Models : Start(r, k, m)
    BY <1>1, ModelsAssumption DEF Start, Goto, accounts, ledgers, request, calendar,
       bounds, history, IInv, TypeOK, WellFormed
  <1>2. CASE \E r \in Requests : ReadPolicy(r)
    BY <1>2, ModelsAssumption DEF ReadPolicy, Goto, accounts, ledgers, request,
       calendar, bounds, history, IInv, TypeOK, WellFormed
  <1>3. CASE \E r \in Requests : GateRefuses(r)
    BY <1>3, ModelsAssumption DEF GateRefuses, Spill, End, Goto, accounts, ledgers,
       request, calendar, bounds, history, IInv, TypeOK, WellFormed
  <1>4. CASE \E r \in Requests : NoPolicy(r)
    BY <1>4, ModelsAssumption DEF NoPolicy, Goto, accounts, ledgers, request,
       calendar, bounds, history, IInv, TypeOK, WellFormed
  <1>5. CASE \E r \in Requests : Select(r)
    BY <1>5, ModelsAssumption DEF Select, Goto, accounts, ledgers, request, calendar,
       bounds, history, IInv, TypeOK, WellFormed
  <1>6. CASE \E r \in Requests : SelectRefuses(r)
    BY <1>6, ModelsAssumption DEF SelectRefuses, Spill, End, Goto, accounts, ledgers,
       request, calendar, bounds, history, IInv, TypeOK, WellFormed
  <1>7. CASE \E r \in Requests : Write(r)
    BY <1>7, ModelsAssumption DEF Write, Goto, Overtake, accounts, ledgers, request,
       calendar, bounds, history, IInv, TypeOK, WellFormed
  <1>8. CASE \E r \in Requests : PickFails(r)
    BY <1>8, ModelsAssumption DEF PickFails, End, Goto, accounts, ledgers, request,
       calendar, bounds, history, IInv, TypeOK, WellFormed
  <1>9. CASE \E r \in Requests : CreateFails(r)
    BY <1>9, ModelsAssumption DEF CreateFails, End, Goto, Overtake, GiveBack,
       accounts, ledgers, request, calendar, bounds, history, IInv, TypeOK,
       WellFormed
  <1>10. CASE \E r \in Requests : PollFails(r)
    BY <1>10, ModelsAssumption DEF PollFails, Overtake, GiveBack, accounts, ledgers,
       request, calendar, bounds, history, IInv, TypeOK, WellFormed
  <1>11. CASE \E r \in Requests : Finish(r)
    BY <1>11, ModelsAssumption DEF Finish, Goto, Overtake, GiveBack, accounts,
       ledgers, request, calendar, bounds, history, IInv, TypeOK, WellFormed
  <1>12. CASE \E r \in Requests, c \in 0..MaxCharge : MeterKey(r, c)
    <2>1. PICK r \in Requests, c \in 0..MaxCharge : MeterKey(r, c)
      BY <1>12
    <2>2. key[r] \in Keys /\ c \in Nat
      BY <2>1, ModelsAssumption DEF MeterKey, IInv, WellFormed
    <2>3. keyUsed' \in [Keys -> Nat]
      <3>1. CASE keyUsed' = [keyUsed EXCEPT ![key[r]] = @ + c]
        BY <3>1, <2>2 DEF IInv, TypeOK
      <3>2. CASE keyUsed' = keyUsed
        BY <3>2 DEF IInv, TypeOK
      <3> QED
        BY <2>1, <3>1, <3>2 DEF MeterKey
    <2> QED
      BY <2>1, <2>3 DEF MeterKey, accounts, calendar, bounds, history, IInv, TypeOK
  <1>13. CASE \E r \in Requests : MeterGroup(r)
    <2>1. PICK r \in Requests : MeterGroup(r)
      BY <1>13
    <2>2. grp[r] \in Groups \union {NoGroup} /\ charge[r] \in Nat
      BY ModelsAssumption DEF IInv, TypeOK
    <2>3. used' \in [Groups -> Nat] /\ charged' \subseteq Groups
      BY <2>1, <2>2 DEF MeterGroup, IInv, TypeOK
    <2> QED
      BY <2>1, <2>3 DEF MeterGroup, accounts, calendar, bounds, IInv, TypeOK
  <1>14. CASE \E a \in Accounts : ChangeStatus(a)
    BY <1>14, ModelsAssumption DEF ChangeStatus, accounts, ledgers, request,
       calendar, bounds, history, IInv, TypeOK, WellFormed
  <1>15. CASE \E a \in Accounts, b \in BalanceValues : ChangeBalance(a, b)
    BY <1>15, ModelsAssumption DEF ChangeBalance, accounts, ledgers, request,
       calendar, bounds, history, IInv, TypeOK, WellFormed
  <1>16. CASE NewMonth
    BY <1>16, ModelsAssumption DEF NewMonth, accounts, ledgers, request, calendar,
       bounds, history, IInv, TypeOK, WellFormed
  <1>17. CASE \E k \in Keys : ResetKey(k)
    BY <1>17, ModelsAssumption DEF ResetKey, accounts, ledgers, request, calendar,
       bounds, history, IInv, TypeOK, WellFormed
  <1>18. CASE UNCHANGED vars
    BY <1>18, ModelsAssumption DEF vars, accounts, ledgers, request, calendar,
       bounds, history, IInv, TypeOK, WellFormed
  <1>19. CASE \E r \in Requests, k \in Keys, m \in Models, g \in Groups \union {NoGroup} :
                 Execute(r, k, m, g)
    BY <1>19 DEF Execute, accounts, ledgers, calendar, history, IInv, TypeOK
  <1> QED
    BY <1>1, <1>2, <1>3, <1>4, <1>5, <1>6, <1>7, <1>8, <1>9, <1>10, <1>11, <1>12,
       <1>13, <1>14, <1>15, <1>16, <1>17, <1>18, <1>19, NextCases

\* Moving on to the next group, or giving up, keeps the types of the requests.
LEMMA SpillTypes ==
  ASSUME IInv, NEW r \in Requests, pc[r] # "idle", Spill(r)
  PROVE  /\ pc' \in [Requests -> RequestPC]
         /\ key' \in [Requests -> Keys \union {NoKey}]
         /\ model' \in [Requests -> Models \union {NoModel}]
         /\ cand' \in [Requests -> Nat]
         /\ grp' \in [Requests -> Groups \union {NoGroup}]
         /\ acct' \in [Requests -> Accounts \union {NoAccount}]
         /\ charge' \in [Requests -> 0..MaxCharge]
         /\ policyRead' \subseteq Requests /\ early' \subseteq Requests
  <1>1. CASE cand[r] < Len(KeyRow[key[r]].groups)
    <2>1. key[r] \in Keys /\ cand[r] + 1 \in 1..Len(KeyRow[key[r]].groups)
      BY <1>1, FirstGroup DEF IInv, WellFormed
    <2>2. KeyRow[key[r]].groups[cand[r] + 1] \in Groups \union {NoGroup}
      BY <2>1, GroupsOfKey
    <2>3. /\ pc' = [pc EXCEPT ![r] = "policy"]
          /\ cand' = [cand EXCEPT ![r] = @ + 1]
          /\ grp' = [grp EXCEPT ![r] = KeyRow[key[r]].groups[cand[r] + 1]]
          /\ policyRead' = policyRead \ {r}
          /\ UNCHANGED <<key, model, acct, charge, early>>
      BY <1>1 DEF Spill, Goto
    <2> QED
      BY <2>2, <2>3 DEF IInv, TypeOK, RequestPC
  <1>2. CASE ~(cand[r] < Len(KeyRow[key[r]].groups))
    <2>1. End(r)
      BY <1>2 DEF Spill
    <2>2. 0 \in 0..MaxCharge
      BY ModelsAssumption
    <2> QED
      BY <2>1, <2>2 DEF End, Goto, IInv, TypeOK, RequestPC
  <1> QED
    BY <1>1, <1>2

\* Every step keeps the types of the requests.
LEMMA RequestTypes ==
  ASSUME IInv, [Next]_vars
  PROVE  /\ pc' \in [Requests -> RequestPC]
         /\ key' \in [Requests -> Keys \union {NoKey}]
         /\ model' \in [Requests -> Models \union {NoModel}]
         /\ cand' \in [Requests -> Nat]
         /\ grp' \in [Requests -> Groups \union {NoGroup}]
         /\ acct' \in [Requests -> Accounts \union {NoAccount}]
         /\ charge' \in [Requests -> 0..MaxCharge]
         /\ policyRead' \subseteq Requests /\ stale' \subseteq Requests
         /\ early' \subseteq Requests
  <1>1. CASE \E r \in Requests, k \in Keys, m \in Models : Start(r, k, m)
    BY <1>1, ModelsAssumption, GroupsOfKey, FirstGroup DEF Start, Goto, accounts,
       ledgers, request, calendar, bounds, history, IInv, TypeOK, WellFormed,
       RequestPC
  <1>2. CASE \E r \in Requests : ReadPolicy(r)
    BY <1>2, ModelsAssumption DEF ReadPolicy, Goto, accounts, ledgers, request,
       calendar, bounds, history, IInv, TypeOK, WellFormed, RequestPC
  <1>3. CASE \E r \in Requests : GateRefuses(r)
    <2>1. PICK r \in Requests : GateRefuses(r)
      BY <1>3
    <2>2. pc[r] # "idle" /\ Spill(r)
      BY <2>1 DEF GateRefuses
    <2> QED
      BY <2>1, <2>2, SpillTypes DEF GateRefuses, IInv, TypeOK
  <1>4. CASE \E r \in Requests : NoPolicy(r)
    BY <1>4, ModelsAssumption DEF NoPolicy, Goto, accounts, ledgers, request,
       calendar, bounds, history, IInv, TypeOK, WellFormed, RequestPC
  <1>5. CASE \E r \in Requests : Select(r)
    BY <1>5, ModelsAssumption DEF Select, Goto, Eligible, accounts, ledgers, request,
       calendar, bounds, history, IInv, TypeOK, WellFormed, RequestPC
  <1>6. CASE \E r \in Requests : SelectRefuses(r)
    <2>1. PICK r \in Requests : SelectRefuses(r)
      BY <1>6
    <2>2. pc[r] # "idle" /\ Spill(r)
      BY <2>1 DEF SelectRefuses
    <2> QED
      BY <2>1, <2>2, SpillTypes DEF SelectRefuses, IInv, TypeOK
  <1>7. CASE \E r \in Requests : Write(r)
    BY <1>7, ModelsAssumption DEF Write, Goto, Overtake, accounts, ledgers, request,
       calendar, bounds, history, IInv, TypeOK, WellFormed, RequestPC
  <1>8. CASE \E r \in Requests : PickFails(r)
    BY <1>8, ModelsAssumption DEF PickFails, End, Goto, accounts, ledgers, request,
       calendar, bounds, history, IInv, TypeOK, WellFormed, RequestPC
  <1>9. CASE \E r \in Requests : CreateFails(r)
    BY <1>9, ModelsAssumption DEF CreateFails, End, Goto, Overtake, GiveBack,
       accounts, ledgers, request, calendar, bounds, history, IInv, TypeOK,
       WellFormed, RequestPC
  <1>10. CASE \E r \in Requests : PollFails(r)
    BY <1>10, ModelsAssumption DEF PollFails, Overtake, GiveBack, accounts, ledgers,
       request, calendar, bounds, history, IInv, TypeOK, WellFormed, RequestPC
  <1>11. CASE \E r \in Requests : Finish(r)
    BY <1>11, ModelsAssumption DEF Finish, Goto, Overtake, GiveBack, accounts,
       ledgers, request, calendar, bounds, history, IInv, TypeOK, WellFormed,
       RequestPC
  <1>12. CASE \E r \in Requests, c \in 0..MaxCharge : MeterKey(r, c)
    BY <1>12, ModelsAssumption DEF MeterKey, Goto, Overtake, accounts, ledgers,
       request, calendar, bounds, history, IInv, TypeOK, WellFormed, RequestPC
  <1>13. CASE \E r \in Requests : MeterGroup(r)
    BY <1>13, ModelsAssumption DEF MeterGroup, End, Goto, Overtake, accounts,
       ledgers, request, calendar, bounds, history, IInv, TypeOK, WellFormed,
       RequestPC
  <1>14. CASE \E a \in Accounts : ChangeStatus(a)
    BY <1>14, ModelsAssumption DEF ChangeStatus, accounts, ledgers, request,
       calendar, bounds, history, IInv, TypeOK, WellFormed, RequestPC
  <1>15. CASE \E a \in Accounts, b \in BalanceValues : ChangeBalance(a, b)
    BY <1>15, ModelsAssumption DEF ChangeBalance, accounts, ledgers, request,
       calendar, bounds, history, IInv, TypeOK, WellFormed, RequestPC
  <1>16. CASE NewMonth
    BY <1>16, ModelsAssumption DEF NewMonth, accounts, ledgers, request, calendar,
       bounds, history, IInv, TypeOK, WellFormed, RequestPC
  <1>17. CASE \E k \in Keys : ResetKey(k)
    BY <1>17, ModelsAssumption DEF ResetKey, accounts, ledgers, request, calendar,
       bounds, history, IInv, TypeOK, WellFormed, RequestPC
  <1>18. CASE UNCHANGED vars
    BY <1>18, ModelsAssumption DEF vars, accounts, ledgers, request, calendar,
       bounds, history, IInv, TypeOK, WellFormed, RequestPC
  <1>19. CASE \E r \in Requests, k \in Keys, m \in Models, g \in Groups \union {NoGroup} :
                 Execute(r, k, m, g)
    BY <1>19, FirstGroup DEF Execute, Goto, IInv, TypeOK, RequestPC
  <1> QED
    BY <1>1, <1>2, <1>3, <1>4, <1>5, <1>6, <1>7, <1>8, <1>9, <1>10, <1>11, <1>12,
       <1>13, <1>14, <1>15, <1>16, <1>17, <1>18, <1>19, NextCases

\* Every step leaves a request with what it needs next.
LEMMA WellFormedStep ==
  ASSUME IInv, [Next]_vars
  PROVE  WellFormed'
  <1>1. CASE \E r \in Requests, k \in Keys, m \in Models : Start(r, k, m)
    <2>1. PICK r \in Requests, k \in Keys, m \in Models : Start(r, k, m)
      BY <1>1
    <2>2. 1 \in 1..Len(KeyRow[k].groups)
      BY FirstGroup
    <2>3. r \notin policyRead
      BY <2>1 DEF Start, IInv, WellFormed
    <2> QED
      BY <2>1, <2>2, <2>3 DEF Start, Goto, IInv, TypeOK, WellFormed, RequestPC, InScope
  <1>2. CASE \E r \in Requests : ReadPolicy(r)
    BY <1>2 DEF ReadPolicy, Goto, accounts, ledgers, request, calendar, bounds,
       history, IInv, TypeOK, WellFormed, RequestPC, InScope
  <1>3. CASE \E r \in Requests : GateRefuses(r)
    BY <1>3, FirstGroup DEF GateRefuses, Spill, End, Goto, accounts, ledgers,
       request, calendar, bounds, history, IInv, TypeOK, WellFormed, RequestPC,
       InScope
  <1>4. CASE \E r \in Requests : NoPolicy(r)
    BY <1>4 DEF NoPolicy, Goto, accounts, ledgers, request, calendar, bounds,
       history, IInv, TypeOK, WellFormed, RequestPC, InScope
  <1>5. CASE \E r \in Requests : Select(r)
    BY <1>5 DEF Select, Goto, Eligible, accounts, ledgers, request, calendar, bounds,
       history, IInv, TypeOK, WellFormed, RequestPC, InScope
  <1>6. CASE \E r \in Requests : SelectRefuses(r)
    BY <1>6, FirstGroup DEF SelectRefuses, Spill, End, Goto, accounts, ledgers,
       request, calendar, bounds, history, IInv, TypeOK, WellFormed, RequestPC,
       InScope
  <1>7. CASE \E r \in Requests : Write(r)
    BY <1>7 DEF Write, Goto, Overtake, accounts, ledgers, request, calendar, bounds,
       history, IInv, TypeOK, WellFormed, RequestPC, InScope
  <1>8. CASE \E r \in Requests : PickFails(r)
    BY <1>8 DEF PickFails, End, Goto, accounts, ledgers, request, calendar, bounds,
       history, IInv, TypeOK, WellFormed, RequestPC, InScope
  <1>9. CASE \E r \in Requests : CreateFails(r)
    BY <1>9 DEF CreateFails, End, Goto, Overtake, GiveBack, accounts, ledgers,
       request, calendar, bounds, history, IInv, TypeOK, WellFormed, RequestPC,
       InScope
  <1>10. CASE \E r \in Requests : PollFails(r)
    BY <1>10 DEF PollFails, Overtake, GiveBack, accounts, ledgers, request, calendar,
       bounds, history, IInv, TypeOK, WellFormed, RequestPC, InScope
  <1>11. CASE \E r \in Requests : Finish(r)
    BY <1>11 DEF Finish, Goto, Overtake, GiveBack, accounts, ledgers, request,
       calendar, bounds, history, IInv, TypeOK, WellFormed, RequestPC, InScope
  <1>12. CASE \E r \in Requests, c \in 0..MaxCharge : MeterKey(r, c)
    BY <1>12 DEF MeterKey, Goto, Overtake, accounts, ledgers, request, calendar,
       bounds, history, IInv, TypeOK, WellFormed, RequestPC, InScope
  <1>13. CASE \E r \in Requests : MeterGroup(r)
    BY <1>13 DEF MeterGroup, End, Goto, Overtake, accounts, ledgers, request,
       calendar, bounds, history, IInv, TypeOK, WellFormed, RequestPC, InScope
  <1>14. CASE \E a \in Accounts : ChangeStatus(a)
    BY <1>14 DEF ChangeStatus, accounts, ledgers, request, calendar, bounds, history,
       IInv, TypeOK, WellFormed, RequestPC, InScope
  <1>15. CASE \E a \in Accounts, b \in BalanceValues : ChangeBalance(a, b)
    BY <1>15 DEF ChangeBalance, accounts, ledgers, request, calendar, bounds,
       history, IInv, TypeOK, WellFormed, RequestPC, InScope
  <1>16. CASE NewMonth
    BY <1>16 DEF NewMonth, accounts, ledgers, request, calendar, bounds, history,
       IInv, TypeOK, WellFormed, RequestPC, InScope
  <1>17. CASE \E k \in Keys : ResetKey(k)
    BY <1>17 DEF ResetKey, accounts, ledgers, request, calendar, bounds, history,
       IInv, TypeOK, WellFormed, RequestPC, InScope
  <1>18. CASE UNCHANGED vars
    BY <1>18 DEF vars, accounts, ledgers, request, calendar, bounds, history, IInv,
       TypeOK, WellFormed, RequestPC, InScope
  <1>19. CASE \E r \in Requests, k \in Keys, m \in Models, g \in Groups \union {NoGroup} :
                 Execute(r, k, m, g)
    <2>1. PICK r \in Requests, k \in Keys, m \in Models, g \in Groups \union {NoGroup} :
                 Execute(r, k, m, g)
      BY <1>19
    <2>2. Len(KeyRow[k].groups) \in 1..Len(KeyRow[k].groups)
      BY FirstGroup
    <2>3. r \notin policyRead
      BY <2>1 DEF Execute, IInv, WellFormed
    <2> QED
      BY <2>1, <2>2, <2>3 DEF Execute, Goto, IInv, TypeOK, WellFormed, RequestPC, InScope
  <1> QED
    BY <1>1, <1>2, <1>3, <1>4, <1>5, <1>6, <1>7, <1>8, <1>9, <1>10, <1>11, <1>12,
       <1>13, <1>14, <1>15, <1>16, <1>17, <1>18, <1>19, NextCases

\* The inductive invariant holds in every reachable state.
LEMMA SpecIInv == Spec => []IInv
  <1>1. IInv /\ [Next]_vars => IInv'
    BY RowTypes, RequestTypes, WellFormedStep DEF IInv, TypeOK
  <1> QED
    BY <1>1, InitIInv, PTL DEF Spec

\* Every reachable state is well typed: no counter goes below zero although a job's
\* slot may be given back twice.
THEOREM PoolTypes == Spec => []TypeOK
  <1>1. IInv => TypeOK
    BY DEF IInv
  <1> QED
    BY <1>1, SpecIInv, PTL

-----------------------------------------------------------------------------
(* Counting                                                                *)

\* A part of a finite set is no larger.
LEMMA CardPart ==
  ASSUME NEW T, IsFiniteSet(T), NEW S, S \subseteq T
  PROVE  /\ IsFiniteSet(S) /\ Cardinality(S) \in Nat /\ Cardinality(T) \in Nat
         /\ Cardinality(S) <= Cardinality(T)
  BY FS_Subset, FS_CardinalityType

\* An element more is one more, or none if it was there.
LEMMA CardAdd ==
  ASSUME NEW S, IsFiniteSet(S), NEW x
  PROVE  /\ IsFiniteSet(S \union {x}) /\ Cardinality(S) \in Nat
         /\ x \notin S => Cardinality(S \union {x}) = Cardinality(S) + 1
         /\ Cardinality(S \union {x}) <= Cardinality(S) + 1
  BY FS_AddElement, FS_CardinalityType

\* An element less is one less.
LEMMA CardDrop ==
  ASSUME NEW S, IsFiniteSet(S), NEW x
  PROVE  /\ IsFiniteSet(S \ {x}) /\ Cardinality(S) \in Nat
         /\ Cardinality(S \ {x}) \in Nat
         /\ x \in S => Cardinality(S \ {x}) = Cardinality(S) - 1
         /\ x \notin S => Cardinality(S \ {x}) = Cardinality(S)
  BY FS_RemoveElement, FS_CardinalityType

\* The elements of the sum over a group's members.
LEMMA SlotsElements ==
  ASSUME NEW g \in Groups, NEW p
  PROVE  p \in Slots(g) <=>
           \E a \in GroupRow[g].members : \E i \in 1..inFlight[a] : p = <<a, i>>
  BY DEF Slots

\* Reserving a slot on a member adds one to the group's sum, on another account nothing.
LEMMA SlotsGrow ==
  ASSUME inFlight \in [Accounts -> Nat], NEW a \in Accounts, NEW g \in Groups,
         inFlight' = [inFlight EXCEPT ![a] = @ + 1]
  PROVE  /\ a \in GroupRow[g].members => Slots(g)' = Slots(g) \union {<<a, inFlight[a] + 1>>}
         /\ a \notin GroupRow[g].members => Slots(g)' = Slots(g)
         /\ <<a, inFlight[a] + 1>> \notin Slots(g)
  <1>1. GroupRow[g].members \subseteq Accounts
    BY GroupsAssumption
  <1>2. ASSUME NEW p
        PROVE  p \in Slots(g)' <=>
                 \E b \in GroupRow[g].members : \E i \in 1..inFlight'[b] : p = <<b, i>>
    BY DEF Slots
  <1>3. ASSUME NEW b \in GroupRow[g].members, b # a
        PROVE  inFlight'[b] = inFlight[b]
    BY <1>1, <1>3
  <1>4. 1..inFlight'[a] = (1..inFlight[a]) \union {inFlight[a] + 1}
    OBVIOUS
  <1>5. <<a, inFlight[a] + 1>> \notin Slots(g)
    BY SlotsElements
  <1>6. CASE a \notin GroupRow[g].members
    <2>1. \A p : p \in Slots(g)' <=> p \in Slots(g)
      BY <1>2, <1>3, <1>6, SlotsElements
    <2> QED
      BY <1>5, <1>6, <2>1
  <1>7. CASE a \in GroupRow[g].members
    <2>1. \A p : p \in Slots(g)' <=> p \in Slots(g) \/ p = <<a, inFlight[a] + 1>>
      BY <1>2, <1>3, <1>4, <1>7, SlotsElements
    <2> QED
      BY <1>5, <1>7, <2>1
  <1> QED
    BY <1>6, <1>7

\* Giving a slot back takes one from the sum of each of the account's groups, unless
\* the counter was at zero already.
LEMMA SlotsShrink ==
  ASSUME inFlight \in [Accounts -> Nat], NEW a \in Accounts, NEW g \in Groups, GiveBack(a)
  PROVE  /\ a \in GroupRow[g].members => Slots(g)' = Slots(g) \ {<<a, inFlight[a]>>}
         /\ a \notin GroupRow[g].members => Slots(g)' = Slots(g)
         /\ a \in GroupRow[g].members /\ inFlight[a] > 0 => <<a, inFlight[a]>> \in Slots(g)
  <1>1. GroupRow[g].members \subseteq Accounts
    BY GroupsAssumption
  <1>2. ASSUME NEW p
        PROVE  p \in Slots(g)' <=>
                 \E b \in GroupRow[g].members : \E i \in 1..inFlight'[b] : p = <<b, i>>
    BY DEF Slots
  <1>3. ASSUME NEW b \in GroupRow[g].members, b # a
        PROVE  inFlight'[b] = inFlight[b]
    BY <1>1, <1>3 DEF GiveBack
  <1>4. 1..inFlight'[a] = (1..inFlight[a]) \ {inFlight[a]}
    <2>1. CASE inFlight[a] > 0
      BY <2>1 DEF GiveBack
    <2>2. CASE inFlight[a] = 0
      BY <2>2 DEF GiveBack
    <2> QED
      BY <2>1, <2>2
  <1>5. a \in GroupRow[g].members /\ inFlight[a] > 0 => <<a, inFlight[a]>> \in Slots(g)
    BY SlotsElements
  <1>6. CASE a \notin GroupRow[g].members
    <2>1. \A p : p \in Slots(g)' <=> p \in Slots(g)
      BY <1>2, <1>3, <1>6, SlotsElements
    <2> QED
      BY <1>6, <2>1
  <1>7. CASE a \in GroupRow[g].members
    <2>1. \A p : p \in Slots(g)' <=> p \in Slots(g) /\ p # <<a, inFlight[a]>>
      BY <1>2, <1>3, <1>4, <1>7, SlotsElements
    <2> QED
      BY <1>5, <1>7, <2>1
  <1> QED
    BY <1>6, <1>7

-----------------------------------------------------------------------------
(* Steps, as the slots see them                                            *)

\* A job that runs before and after the step is the same job.
Kept(q) ==
    pc[q] = "running" /\ pc'[q] = "running" =>
        acct'[q] = acct[q] /\ grp'[q] = grp[q] /\ (q \in policyRead' <=> q \in policyRead)

\* No slot and no running job is touched.
Quiet ==
    /\ inFlight' = inFlight /\ drift' = drift
    /\ \A q \in Requests : Kept(q) /\ (pc'[q] = "running" <=> pc[q] = "running")

\* The job r ends and gives its slot back.
Drop(r) ==
    /\ pc[r] = "running" /\ GiveBack(acct[r]) /\ drift' = drift
    /\ \A q \in Requests : Kept(q) /\ (pc'[q] = "running" <=> pc[q] = "running" /\ q # r)

\* Every step is quiet, ends a job, reserves a slot, or gives one back too early.
LEMMA StepKinds ==
  ASSUME IInv, [Next]_vars
  PROVE  Quiet \/ \E r \in Requests : Drop(r) \/ Write(r) \/ PollFails(r)
  <1>1. CASE \E r \in Requests, k \in Keys, m \in Models : Start(r, k, m)
    BY <1>1 DEF Start, Goto, accounts, ledgers, request, calendar, bounds, history,
       Kept, Quiet, Drop, IInv, TypeOK, WellFormed, RequestPC
  <1>2. CASE \E r \in Requests : ReadPolicy(r)
    BY <1>2 DEF ReadPolicy, Goto, accounts, ledgers, request, calendar, bounds,
       history, Kept, Quiet, Drop, IInv, TypeOK, WellFormed, RequestPC
  <1>3. CASE \E r \in Requests : GateRefuses(r)
    BY <1>3 DEF GateRefuses, Spill, End, Goto, accounts, ledgers, request, calendar,
       bounds, history, Kept, Quiet, Drop, IInv, TypeOK, WellFormed, RequestPC
  <1>4. CASE \E r \in Requests : NoPolicy(r)
    BY <1>4 DEF NoPolicy, Goto, accounts, ledgers, request, calendar, bounds,
       history, Kept, Quiet, Drop, IInv, TypeOK, WellFormed, RequestPC
  <1>5. CASE \E r \in Requests : Select(r)
    BY <1>5 DEF Select, Goto, accounts, ledgers, request, calendar, bounds, history,
       Kept, Quiet, Drop, IInv, TypeOK, WellFormed, RequestPC
  <1>6. CASE \E r \in Requests : SelectRefuses(r)
    BY <1>6 DEF SelectRefuses, Spill, End, Goto, accounts, ledgers, request,
       calendar, bounds, history, Kept, Quiet, Drop, IInv, TypeOK, WellFormed,
       RequestPC
  <1>7. CASE \E r \in Requests : Write(r)
    BY <1>7
  <1>8. CASE \E r \in Requests : PickFails(r)
    BY <1>8 DEF PickFails, End, Goto, accounts, ledgers, request, calendar, bounds,
       history, Kept, Quiet, Drop, IInv, TypeOK, WellFormed, RequestPC
  <1>9. CASE \E r \in Requests : CreateFails(r)
    <2>1. PICK r \in Requests : CreateFails(r)
      BY <1>9
    <2>2. Drop(r)
      BY <2>1 DEF CreateFails, End, Goto, request, history, Kept, Drop, IInv, TypeOK, RequestPC
    <2> QED
      BY <2>2
  <1>10. CASE \E r \in Requests : PollFails(r)
    BY <1>10
  <1>11. CASE \E r \in Requests : Finish(r)
    <2>1. PICK r \in Requests : Finish(r)
      BY <1>11
    <2>2. Drop(r)
      BY <2>1 DEF Finish, End, Goto, request, history, Kept, Drop, IInv, TypeOK, RequestPC
    <2> QED
      BY <2>2
  <1>12. CASE \E r \in Requests, c \in 0..MaxCharge : MeterKey(r, c)
    BY <1>12 DEF MeterKey, Goto, Overtake, accounts, ledgers, request, calendar,
       bounds, history, Kept, Quiet, Drop, IInv, TypeOK, WellFormed, RequestPC
  <1>13. CASE \E r \in Requests : MeterGroup(r)
    BY <1>13 DEF MeterGroup, End, Goto, Overtake, accounts, ledgers, request,
       calendar, bounds, history, Kept, Quiet, Drop, IInv, TypeOK, WellFormed,
       RequestPC
  <1>14. CASE \E a \in Accounts : ChangeStatus(a)
    BY <1>14 DEF ChangeStatus, accounts, ledgers, request, calendar, bounds, history,
       Kept, Quiet, Drop, IInv, TypeOK, WellFormed, RequestPC
  <1>15. CASE \E a \in Accounts, b \in BalanceValues : ChangeBalance(a, b)
    BY <1>15 DEF ChangeBalance, accounts, ledgers, request, calendar, bounds,
       history, Kept, Quiet, Drop, IInv, TypeOK, WellFormed, RequestPC
  <1>16. CASE NewMonth
    BY <1>16 DEF NewMonth, accounts, ledgers, request, calendar, bounds, history,
       Kept, Quiet, Drop, IInv, TypeOK, WellFormed, RequestPC
  <1>17. CASE \E k \in Keys : ResetKey(k)
    BY <1>17 DEF ResetKey, accounts, ledgers, request, calendar, bounds, history,
       Kept, Quiet, Drop, IInv, TypeOK, WellFormed, RequestPC
  <1>18. CASE UNCHANGED vars
    BY <1>18 DEF vars, accounts, ledgers, request, calendar, bounds, history, Kept,
       Quiet, Drop, IInv, TypeOK, WellFormed, RequestPC
  <1>19. CASE \E r \in Requests, k \in Keys, m \in Models, g \in Groups \union {NoGroup} :
                 Execute(r, k, m, g)
    BY <1>19 DEF Execute, Goto, accounts, Kept, Quiet, IInv, TypeOK
  <1> QED
    BY <1>1, <1>2, <1>3, <1>4, <1>5, <1>6, <1>7, <1>8, <1>9, <1>10, <1>11, <1>12,
       <1>13, <1>14, <1>15, <1>16, <1>17, <1>18, <1>19, NextCases

-----------------------------------------------------------------------------
(* The concurrency caps                                                    *)

On(a) == {r \in Holders : acct[r] = a}
In(g) == {r \in Holders : acct[r] \in GroupRow[g].members}
Under(g) == {r \in Holders \intersect policyRead : grp[r] = g}

\* An account's counter misses no running job but those given back early.
AccountCovered == \A a \in Accounts : Cardinality(On(a)) <= inFlight[a] + drift

\* Nor does the sum over a group.
GroupCovered ==
    \A g \in Groups : IsFiniteSet(Slots(g)) /\ Cardinality(In(g)) <= Cardinality(Slots(g)) + drift

\* There is room for the request on the account it chose, and in its group.
Room(r) ==
    /\ ~GroupFull(r)
    /\ AccountRow[acct[r]].maxConcurrent = 0
         \/ inFlight[acct[r]] < AccountRow[acct[r]].maxConcurrent

\* A transaction that nobody overtook still has the room it found.
Fresh == \A r \in Requests : pc[r] = "write" /\ r \notin stale => Room(r)

\* The sets that are counted are finite.
LEMMA FiniteJobs ==
  ASSUME NEW S, S \subseteq Requests
  PROVE  IsFiniteSet(S) /\ Cardinality(S) \in Nat
  BY SetsAssumption, CardPart

\* A fresh transaction was fresh before, with the same choice.
Held(q) ==
    pc'[q] = "write" /\ q \notin stale' =>
        /\ pc[q] = "write" /\ q \notin stale
        /\ acct'[q] = acct[q] /\ grp'[q] = grp[q] /\ (q \in policyRead' <=> q \in policyRead)

\* A commit leaves no open transaction fresh; other steps leave it what it read.
LEMMA OpenKinds ==
  ASSUME IInv, [Next]_vars
  PROVE  \/ inFlight' = inFlight /\ \A q \in Requests : Held(q)
         \/ \A q \in Requests : pc'[q] = "write" => q \in stale'
         \/ \E r \in Requests : Select(r)
  <1>1. CASE \E r \in Requests, k \in Keys, m \in Models : Start(r, k, m)
    BY <1>1 DEF Start, Goto, accounts, ledgers, request, calendar, bounds, history,
       Held, IInv, TypeOK, RequestPC
  <1>2. CASE \E r \in Requests : ReadPolicy(r)
    BY <1>2 DEF ReadPolicy, Goto, accounts, ledgers, request, calendar, bounds,
       history, Held, IInv, TypeOK, RequestPC
  <1>3. CASE \E r \in Requests : GateRefuses(r)
    BY <1>3 DEF GateRefuses, Spill, End, Goto, accounts, ledgers, request, calendar,
       bounds, history, Held, IInv, TypeOK, RequestPC
  <1>4. CASE \E r \in Requests : NoPolicy(r)
    BY <1>4 DEF NoPolicy, Goto, accounts, ledgers, request, calendar, bounds,
       history, Held, IInv, TypeOK, RequestPC
  <1>5. CASE \E r \in Requests : Select(r)
    BY <1>5
  <1>6. CASE \E r \in Requests : SelectRefuses(r)
    BY <1>6 DEF SelectRefuses, Spill, End, Goto, accounts, ledgers, request,
       calendar, bounds, history, Held, IInv, TypeOK, RequestPC
  <1>7. CASE \E r \in Requests : Write(r)
    BY <1>7 DEF Write, Goto, Overtake, accounts, ledgers, request, calendar, bounds,
       history, Held, IInv, TypeOK, RequestPC
  <1>8. CASE \E r \in Requests : PickFails(r)
    BY <1>8 DEF PickFails, End, Goto, accounts, ledgers, request, calendar, bounds,
       history, Held, IInv, TypeOK, RequestPC
  <1>9. CASE \E r \in Requests : CreateFails(r)
    BY <1>9 DEF CreateFails, End, Goto, Overtake, GiveBack, accounts, ledgers,
       request, calendar, bounds, history, Held, IInv, TypeOK, RequestPC
  <1>10. CASE \E r \in Requests : PollFails(r)
    BY <1>10 DEF PollFails, Overtake, GiveBack, accounts, ledgers, request, calendar,
       bounds, history, Held, IInv, TypeOK, RequestPC
  <1>11. CASE \E r \in Requests : Finish(r)
    BY <1>11 DEF Finish, Goto, Overtake, GiveBack, accounts, ledgers, request,
       calendar, bounds, history, Held, IInv, TypeOK, RequestPC
  <1>12. CASE \E r \in Requests, c \in 0..MaxCharge : MeterKey(r, c)
    BY <1>12 DEF MeterKey, Goto, Overtake, accounts, ledgers, request, calendar,
       bounds, history, Held, IInv, TypeOK, RequestPC
  <1>13. CASE \E r \in Requests : MeterGroup(r)
    BY <1>13 DEF MeterGroup, End, Goto, Overtake, accounts, ledgers, request,
       calendar, bounds, history, Held, IInv, TypeOK, RequestPC
  <1>14. CASE \E a \in Accounts : ChangeStatus(a)
    BY <1>14 DEF ChangeStatus, accounts, ledgers, request, calendar, bounds, history,
       Held, IInv, TypeOK, RequestPC
  <1>15. CASE \E a \in Accounts, b \in BalanceValues : ChangeBalance(a, b)
    BY <1>15 DEF ChangeBalance, accounts, ledgers, request, calendar, bounds,
       history, Held, IInv, TypeOK, RequestPC
  <1>16. CASE NewMonth
    BY <1>16 DEF NewMonth, accounts, ledgers, request, calendar, bounds, history,
       Held, IInv, TypeOK, RequestPC
  <1>17. CASE \E k \in Keys : ResetKey(k)
    BY <1>17 DEF ResetKey, accounts, ledgers, request, calendar, bounds, history,
       Held, IInv, TypeOK, RequestPC
  <1>18. CASE UNCHANGED vars
    BY <1>18 DEF vars, accounts, ledgers, request, calendar, bounds, history, Held,
       IInv, TypeOK, RequestPC
  <1>19. CASE \E r \in Requests, k \in Keys, m \in Models, g \in Groups \union {NoGroup} :
                 Execute(r, k, m, g)
    BY <1>19 DEF Execute, Goto, accounts, Held, IInv, TypeOK
  <1> QED
    BY <1>1, <1>2, <1>3, <1>4, <1>5, <1>6, <1>7, <1>8, <1>9, <1>10, <1>11, <1>12,
       <1>13, <1>14, <1>15, <1>16, <1>17, <1>18, <1>19, NextCases

\* A transaction that kept its snapshot still has room.
LEMMA HeldRoom ==
  ASSUME IInv, Fresh, inFlight' = inFlight, NEW q \in Requests, Held(q),
         pc'[q] = "write", q \notin stale'
  PROVE  Room(q)'
  <1>1. /\ acct'[q] = acct[q] /\ grp'[q] = grp[q] /\ (q \in policyRead' <=> q \in policyRead)
        /\ Room(q)
    BY DEF Held, Fresh
  <1>2. Slots(grp[q])' = Slots(grp[q])
    BY <1>1 DEF Slots
  <1>3. GroupFull(q)' = GroupFull(q)
    BY <1>1, <1>2 DEF GroupFull, Slots
  <1> QED
    BY <1>1, <1>3 DEF Room

\* Every step keeps the fresh transactions right about the room they found.
LEMMA FreshStep ==
  ASSUME IInv, Fresh, [Next]_vars
  PROVE  Fresh'
  <1>1. CASE inFlight' = inFlight /\ \A q \in Requests : Held(q)
    BY <1>1, HeldRoom DEF Fresh
  <1>2. CASE \A q \in Requests : pc'[q] = "write" => q \in stale'
    BY <1>2 DEF Fresh
  <1>3. ASSUME NEW r \in Requests, Select(r)
        PROVE  Fresh'
    <2>1. inFlight' = inFlight
      BY <1>3 DEF Select, accounts
    <2>2. ASSUME NEW q \in Requests, q # r
          PROVE  Held(q)
      BY <1>3, <2>2 DEF Select, Goto, Held, IInv, TypeOK
    <2>3. /\ acct'[r] \in Eligible(r) /\ ~GroupFull(r)
          /\ grp'[r] = grp[r] /\ policyRead' = policyRead
      BY <1>3 DEF Select, IInv, TypeOK
    <2>4. GroupFull(r)' = GroupFull(r)
      BY <2>1, <2>3 DEF GroupFull, Slots
    <2>5. Room(r)'
      BY <2>1, <2>3, <2>4 DEF Room, Eligible, HasRoom
    <2> QED
      BY <2>1, <2>2, <2>5, HeldRoom DEF Fresh
  <1> QED
    BY <1>1, <1>2, <1>3, OpenKinds

\* A quiet step leaves the running jobs as they are.
LEMMA QuietJobs ==
  ASSUME IInv, IInv', Quiet
  PROVE  /\ \A a : On(a)' = On(a)
         /\ \A g : In(g)' = In(g) /\ Under(g)' = Under(g) /\ Slots(g)' = Slots(g)
  BY DEF Quiet, Kept, On, In, Under, Holders, Slots

\* The end of a job takes it out of the sets it was in.
LEMMA DropJobs ==
  ASSUME IInv, IInv', NEW r \in Requests, Drop(r)
  PROVE  /\ \A a : On(a)' = On(a) \ {r}
         /\ \A g : In(g)' = In(g) \ {r} /\ Under(g)' = Under(g) \ {r}
         /\ r \in On(acct[r])
  BY DEF Drop, Kept, On, In, Under, Holders

\* A pick adds its request to the sets of its account and of its group.
LEMMA WriteJobs ==
  ASSUME IInv, NEW r \in Requests, Write(r)
  PROVE  /\ \A a : On(a)' = IF a = acct[r] THEN On(a) \union {r} ELSE On(a)
         /\ \A g : In(g)' = IF acct[r] \in GroupRow[g].members THEN In(g) \union {r} ELSE In(g)
         /\ \A g : Under(g)' = IF r \in policyRead /\ grp[r] = g
                               THEN Under(g) \union {r} ELSE Under(g)
         /\ \A a : r \notin On(a)
         /\ \A g : r \notin In(g) /\ r \notin Under(g)
  BY DEF Write, Goto, On, In, Under, Holders, request, IInv, TypeOK, RequestPC

\* A failed poll leaves the running jobs as they are.
LEMMA PollJobs ==
  ASSUME IInv, NEW r \in Requests, PollFails(r)
  PROVE  /\ \A a : On(a)' = On(a)
         /\ \A g : In(g)' = In(g) /\ Under(g)' = Under(g)
  BY DEF PollFails, On, In, Under, Holders, request

\* What is counted is part of Requests.
LEMMA JobSets ==
  /\ \A a : IsFiniteSet(On(a)) /\ Cardinality(On(a)) \in Nat
  /\ \A g : IsFiniteSet(In(g)) /\ Cardinality(In(g)) \in Nat
  /\ \A g : IsFiniteSet(Under(g)) /\ Cardinality(Under(g)) \in Nat
  BY FiniteJobs DEF On, In, Under, Holders

\* Every step keeps the accounts' counters high enough.
LEMMA AccountCoveredStep ==
  ASSUME IInv, IInv', AccountCovered, [Next]_vars
  PROVE  AccountCovered'
  <1> SUFFICES ASSUME NEW a \in Accounts
               PROVE  Cardinality(On(a)') <= inFlight'[a] + drift'
    BY DEF AccountCovered
  <1>0. /\ inFlight \in [Accounts -> Nat] /\ drift \in Nat
        /\ Cardinality(On(a)) <= inFlight[a] + drift
        /\ IsFiniteSet(On(a)) /\ Cardinality(On(a)) \in Nat
    BY JobSets DEF IInv, TypeOK, AccountCovered
  <1>1. CASE Quiet
    BY <1>0, <1>1, QuietJobs DEF Quiet
  <1>2. ASSUME NEW r \in Requests, Drop(r)
        PROVE  Cardinality(On(a)') <= inFlight'[a] + drift'
    <2>1. acct[r] \in Accounts
      BY <1>2 DEF Drop, IInv, WellFormed
    <2>2. CASE acct[r] = a
      <3>1. Cardinality(On(a)') = Cardinality(On(a)) - 1
        BY <1>0, <1>2, <2>2, DropJobs, CardDrop
      <3>2. inFlight'[a] = IF inFlight[a] > 0 THEN inFlight[a] - 1 ELSE 0
        BY <1>0, <1>2, <2>2 DEF Drop, GiveBack
      <3> QED
        BY <1>0, <1>2, <3>1, <3>2 DEF Drop
    <2>3. CASE acct[r] # a
      <3>1. r \notin On(a)
        BY <2>3 DEF On
      <3>2. Cardinality(On(a)') = Cardinality(On(a))
        BY <1>0, <1>2, <3>1, DropJobs, CardDrop
      <3>3. inFlight'[a] = inFlight[a]
        BY <1>0, <1>2, <2>1, <2>3 DEF Drop, GiveBack
      <3> QED
        BY <1>0, <1>2, <3>2, <3>3 DEF Drop
    <2> QED
      BY <2>2, <2>3
  <1>3. ASSUME NEW r \in Requests, Write(r)
        PROVE  Cardinality(On(a)') <= inFlight'[a] + drift'
    <2>1. acct[r] \in Accounts /\ drift' = drift
      BY <1>3 DEF Write, IInv, WellFormed, history
    <2>2. CASE acct[r] = a
      <3>1. Cardinality(On(a)') <= Cardinality(On(a)) + 1
        BY <1>0, <1>3, <2>2, WriteJobs, CardAdd
      <3>2. inFlight'[a] = inFlight[a] + 1
        BY <1>0, <1>3, <2>2 DEF Write
      <3>3. Cardinality(On(a)') \in Nat
        BY <1>0, <1>3, <2>2, WriteJobs, CardAdd
      <3> QED
        BY <1>0, <2>1, <3>1, <3>2, <3>3
    <2>3. CASE acct[r] # a
      <3>1. inFlight'[a] = inFlight[a] /\ On(a)' = On(a)
        BY <1>0, <1>3, <2>1, <2>3, WriteJobs DEF Write
      <3> QED
        BY <1>0, <2>1, <3>1
    <2> QED
      BY <2>2, <2>3
  <1>4. ASSUME NEW r \in Requests, PollFails(r)
        PROVE  Cardinality(On(a)') <= inFlight'[a] + drift'
    <2>1. acct[r] \in Accounts /\ drift' = drift + 1
      BY <1>4 DEF PollFails, IInv, WellFormed
    <2>2. inFlight'[a] \in Nat /\ inFlight'[a] >= inFlight[a] - 1
      BY <1>0, <1>4, <2>1 DEF PollFails, GiveBack
    <2> QED
      BY <1>0, <1>4, <2>1, <2>2, PollJobs
  <1> QED
    BY <1>1, <1>2, <1>3, <1>4, StepKinds

\* Every step keeps the sums over the groups high enough.
LEMMA GroupCoveredStep ==
  ASSUME IInv, IInv', GroupCovered, [Next]_vars
  PROVE  GroupCovered'
  <1> SUFFICES ASSUME NEW g \in Groups
               PROVE  /\ IsFiniteSet(Slots(g)')
                      /\ Cardinality(In(g)') <= Cardinality(Slots(g)') + drift'
    BY DEF GroupCovered
  <1>0. /\ inFlight \in [Accounts -> Nat] /\ drift \in Nat
        /\ IsFiniteSet(Slots(g)) /\ Cardinality(Slots(g)) \in Nat
        /\ Cardinality(In(g)) <= Cardinality(Slots(g)) + drift
        /\ IsFiniteSet(In(g)) /\ Cardinality(In(g)) \in Nat
    BY JobSets, FS_CardinalityType DEF IInv, TypeOK, GroupCovered
  <1>1. CASE Quiet
    BY <1>0, <1>1, QuietJobs DEF Quiet
  <1>2. ASSUME NEW a \in Accounts, GiveBack(a)
        PROVE  /\ IsFiniteSet(Slots(g)') /\ Cardinality(Slots(g)') \in Nat
               /\ Cardinality(Slots(g)') >= Cardinality(Slots(g)) - 1
               /\ a \notin GroupRow[g].members => Slots(g)' = Slots(g)
    <2>1. /\ a \in GroupRow[g].members => Slots(g)' = Slots(g) \ {<<a, inFlight[a]>>}
          /\ a \notin GroupRow[g].members => Slots(g)' = Slots(g)
      BY <1>0, <1>2, SlotsShrink
    <2>2. /\ IsFiniteSet(Slots(g) \ {<<a, inFlight[a]>>})
          /\ Cardinality(Slots(g) \ {<<a, inFlight[a]>>}) \in Nat
          /\ Cardinality(Slots(g) \ {<<a, inFlight[a]>>}) >= Cardinality(Slots(g)) - 1
      BY <1>0, CardDrop
    <2>3. CASE a \in GroupRow[g].members
      <3>1. Slots(g)' = Slots(g) \ {<<a, inFlight[a]>>}
        BY <2>1, <2>3
      <3> QED
        BY <2>2, <2>3, <3>1
    <2>4. CASE a \notin GroupRow[g].members
      <3>1. Slots(g)' = Slots(g)
        BY <2>1, <2>4
      <3>2. Cardinality(Slots(g)) >= Cardinality(Slots(g)) - 1
        BY <1>0
      <3> QED
        BY <1>0, <3>1, <3>2
    <2> QED
      BY <2>3, <2>4
  <1>3. ASSUME NEW r \in Requests, Drop(r)
        PROVE  /\ IsFiniteSet(Slots(g)')
               /\ Cardinality(In(g)') <= Cardinality(Slots(g)') + drift'
    <2>1. acct[r] \in Accounts /\ GiveBack(acct[r]) /\ drift' = drift
      BY <1>3 DEF Drop, IInv, WellFormed
    <2>2. CASE acct[r] \in GroupRow[g].members
      <3>1. r \in In(g)
        BY <1>3, <2>2 DEF Drop, In, Holders
      <3>2. Cardinality(In(g)') = Cardinality(In(g)) - 1
        BY <1>0, <1>3, <3>1, DropJobs, CardDrop
      <3> QED
        BY <1>0, <1>2, <2>1, <3>2
    <2>3. CASE acct[r] \notin GroupRow[g].members
      <3>1. r \notin In(g)
        BY <2>3 DEF In
      <3>2. Cardinality(In(g)') = Cardinality(In(g))
        BY <1>0, <1>3, <3>1, DropJobs, CardDrop
      <3> QED
        BY <1>0, <1>2, <2>1, <2>3, <3>2
    <2> QED
      BY <2>2, <2>3
  <1>4. ASSUME NEW r \in Requests, Write(r)
        PROVE  /\ IsFiniteSet(Slots(g)')
               /\ Cardinality(In(g)') <= Cardinality(Slots(g)') + drift'
    <2>1. /\ acct[r] \in Accounts /\ drift' = drift
          /\ inFlight' = [inFlight EXCEPT ![acct[r]] = @ + 1]
      BY <1>4 DEF Write, IInv, WellFormed, history
    <2>2. CASE acct[r] \in GroupRow[g].members
      <3>1. Cardinality(In(g)') = Cardinality(In(g)) + 1
        BY <1>0, <1>4, <2>2, WriteJobs, CardAdd
      <3>2. IsFiniteSet(Slots(g)') /\ Cardinality(Slots(g)') = Cardinality(Slots(g)) + 1
        <4>1. /\ Slots(g)' = Slots(g) \union {<<acct[r], inFlight[acct[r]] + 1>>}
              /\ <<acct[r], inFlight[acct[r]] + 1>> \notin Slots(g)
          BY <1>0, <2>1, <2>2, SlotsGrow
        <4> QED
          BY <1>0, <4>1, CardAdd
      <3> QED
        BY <1>0, <2>1, <3>1, <3>2
    <2>3. CASE acct[r] \notin GroupRow[g].members
      <3>1. In(g)' = In(g) /\ Slots(g)' = Slots(g)
        BY <1>0, <1>4, <2>1, <2>3, WriteJobs, SlotsGrow
      <3> QED
        BY <1>0, <2>1, <3>1
    <2> QED
      BY <2>2, <2>3
  <1>5. ASSUME NEW r \in Requests, PollFails(r)
        PROVE  /\ IsFiniteSet(Slots(g)')
               /\ Cardinality(In(g)') <= Cardinality(Slots(g)') + drift'
    <2>1. acct[r] \in Accounts /\ GiveBack(acct[r]) /\ drift' = drift + 1
      BY <1>5 DEF PollFails, IInv, WellFormed
    <2>2. In(g)' = In(g)
      BY <1>5, PollJobs
    <2> QED
      BY <1>0, <1>2, <2>1, <2>2
  <1> QED
    BY <1>1, <1>3, <1>4, <1>5, StepKinds

\* The cap of a group: only a pick under it adds a job, and it saw room for it.
LEMMA GroupCapStep ==
  ASSUME IInv, IInv', GroupCovered, GroupCovered', Fresh, GroupCapHolds, [Next]_vars
  PROVE  GroupCapHolds'
  <1> SUFFICES ASSUME NEW g \in Groups, GroupRow[g].cap > 0
               PROVE  Cardinality(Under(g)') <= GroupRow[g].cap + drift'
    BY DEF GroupCapHolds, Under, Holders
  <1>0. /\ drift \in Nat /\ GroupRow[g].cap \in Nat
        /\ IsFiniteSet(Under(g)) /\ Cardinality(Under(g)) \in Nat
        /\ Cardinality(Under(g)) <= GroupRow[g].cap + drift
    BY JobSets, GroupsAssumption DEF IInv, TypeOK, GroupCapHolds, Under
  <1>1. CASE Quiet
    BY <1>0, <1>1, QuietJobs DEF Quiet
  <1>2. ASSUME NEW r \in Requests, Drop(r)
        PROVE  Cardinality(Under(g)') <= GroupRow[g].cap + drift'
    <2>1. Under(g)' = Under(g) \ {r} /\ drift' = drift
      BY <1>2, DropJobs DEF Drop
    <2>2. /\ Cardinality(Under(g) \ {r}) \in Nat
          /\ Cardinality(Under(g) \ {r}) <= Cardinality(Under(g))
      BY <1>0, CardPart
    <2> HIDE DEF Under
    <2> QED
      BY <1>0, <2>1, <2>2
  <1>3. ASSUME NEW r \in Requests, Write(r)
        PROVE  Cardinality(Under(g)') <= GroupRow[g].cap + drift'
    <2>1. drift' = drift
      BY <1>3 DEF Write, history
    <2>2. CASE r \in policyRead /\ grp[r] = g
      <3>1. /\ acct[r] \in Accounts /\ acct[r] \in GroupRow[g].members
            /\ inFlight' = [inFlight EXCEPT ![acct[r]] = @ + 1]
        BY <1>3, <2>2, SetsAssumption DEF Write, IInv, WellFormed, InScope
      <3>2. IsFiniteSet(Slots(g)) /\ Cardinality(Slots(g)) \in Nat
        BY FS_CardinalityType DEF GroupCovered
      <3>3. Cardinality(Slots(g)) < GroupRow[g].cap
        BY <1>0, <1>3, <2>2, <3>2 DEF Write, Fresh, Room, GroupFull
      <3>4. Cardinality(Slots(g)') = Cardinality(Slots(g)) + 1
        BY <3>1, <3>2, SlotsGrow, CardAdd DEF IInv, TypeOK
      <3>5. Under(g)' \subseteq In(g)'
        BY <1>3, SetsAssumption DEF Under, In, Holders, IInv, WellFormed, InScope
      <3>6. IsFiniteSet(In(g)') /\ Cardinality(In(g)') <= Cardinality(Slots(g)') + drift'
        <4>1. In(g)' \subseteq Requests
          BY DEF In, Holders
        <4> QED
          BY <4>1, FiniteJobs DEF GroupCovered
      <3>7. /\ Cardinality(Under(g)') \in Nat /\ Cardinality(In(g)') \in Nat
            /\ Cardinality(Under(g)') <= Cardinality(In(g)')
        BY <3>5, <3>6, CardPart
      <3> QED
        BY <1>0, <2>1, <3>2, <3>3, <3>4, <3>6, <3>7
    <2>3. CASE ~(r \in policyRead /\ grp[r] = g)
      BY <1>0, <1>3, <2>1, <2>3, WriteJobs
    <2> QED
      BY <2>2, <2>3
  <1>4. ASSUME NEW r \in Requests, PollFails(r)
        PROVE  Cardinality(Under(g)') <= GroupRow[g].cap + drift'
    BY <1>0, <1>4, PollJobs DEF PollFails
  <1> QED
    BY <1>1, <1>2, <1>3, <1>4, StepKinds

\* The cap of an account, in the same way.
LEMMA AccountCapStep ==
  ASSUME IInv, IInv', AccountCovered', Fresh, AccountCapHolds, [Next]_vars
  PROVE  AccountCapHolds'
  <1> SUFFICES ASSUME NEW a \in Accounts, AccountRow[a].maxConcurrent > 0
               PROVE  Cardinality(On(a)') <= AccountRow[a].maxConcurrent + drift'
    BY DEF AccountCapHolds, On, Holders
  <1>0. /\ drift \in Nat /\ AccountRow[a].maxConcurrent \in Nat
        /\ inFlight \in [Accounts -> Nat]
        /\ IsFiniteSet(On(a)) /\ Cardinality(On(a)) \in Nat
        /\ Cardinality(On(a)) <= AccountRow[a].maxConcurrent + drift
    BY JobSets, AccountsAssumption DEF IInv, TypeOK, AccountCapHolds, On
  <1>1. CASE Quiet
    BY <1>0, <1>1, QuietJobs DEF Quiet
  <1>2. ASSUME NEW r \in Requests, Drop(r)
        PROVE  Cardinality(On(a)') <= AccountRow[a].maxConcurrent + drift'
    BY <1>0, <1>2, DropJobs, CardDrop DEF Drop
  <1>3. ASSUME NEW r \in Requests, Write(r)
        PROVE  Cardinality(On(a)') <= AccountRow[a].maxConcurrent + drift'
    <2>1. drift' = drift
      BY <1>3 DEF Write, history
    <2>2. CASE acct[r] = a
      <3>1. inFlight[a] < AccountRow[a].maxConcurrent
        BY <1>0, <1>3, <2>2 DEF Write, Fresh, Room
      <3>2. inFlight'[a] = inFlight[a] + 1
        BY <1>0, <1>3, <2>2 DEF Write
      <3>3. Cardinality(On(a)') <= inFlight'[a] + drift'
        BY DEF AccountCovered
      <3>4. Cardinality(On(a)') \in Nat
        BY <1>0, <1>3, <2>2, WriteJobs, CardAdd, FS_CardinalityType
      <3> QED
        BY <1>0, <2>1, <3>1, <3>2, <3>3, <3>4
    <2>3. CASE acct[r] # a
      BY <1>0, <1>3, <2>1, <2>3, WriteJobs
    <2> QED
      BY <2>2, <2>3
  <1>4. ASSUME NEW r \in Requests, PollFails(r)
        PROVE  Cardinality(On(a)') <= AccountRow[a].maxConcurrent + drift'
    BY <1>0, <1>4, PollJobs DEF PollFails
  <1> QED
    BY <1>1, <1>2, <1>3, <1>4, StepKinds

CapInv == AccountCovered /\ GroupCovered /\ Fresh /\ GroupCapHolds /\ AccountCapHolds

\* No job runs at the start.
LEMMA InitCapInv == Init => CapInv
  <1> SUFFICES ASSUME Init PROVE CapInv
    OBVIOUS
  <1>1. Holders = {} /\ \A g \in Groups : Slots(g) = {}
    BY GroupsAssumption DEF Init, Holders, Slots
  <1>2. /\ \A a : On(a) = {}
        /\ \A g : In(g) = {} /\ Under(g) = {}
    BY <1>1 DEF On, In, Under
  <1>0. IsFiniteSet({}) /\ Cardinality({}) = 0
    BY FS_EmptySet
  <1>3. AccountCovered /\ GroupCovered
    <2>1. AccountCovered
      <3> SUFFICES ASSUME NEW a \in Accounts
                   PROVE  Cardinality(On(a)) <= inFlight[a] + drift
        BY DEF AccountCovered
      <3>1. Cardinality(On(a)) = 0
        BY <1>0, <1>2
      <3>2. inFlight[a] = 0 /\ drift = 0
        BY DEF Init
      <3> QED
        BY <3>1, <3>2
    <2>2. GroupCovered
      <3> SUFFICES ASSUME NEW g \in Groups
                   PROVE  /\ IsFiniteSet(Slots(g))
                          /\ Cardinality(In(g)) <= Cardinality(Slots(g)) + drift
        BY DEF GroupCovered
      <3>1. Cardinality(In(g)) = 0 /\ Cardinality(Slots(g)) = 0 /\ IsFiniteSet(Slots(g))
        BY <1>0, <1>1, <1>2
      <3>2. drift = 0
        BY DEF Init
      <3> QED
        BY <3>1, <3>2
    <2> QED
      BY <2>1, <2>2
  <1>4. GroupCapHolds
    BY <1>0, <1>2, GroupsAssumption DEF Init, GroupCapHolds, Under
  <1>5. AccountCapHolds
    <2> SUFFICES ASSUME NEW a \in Accounts
                 PROVE  Cardinality(On(a)) <= AccountRow[a].maxConcurrent + drift
      BY DEF AccountCapHolds, On
    <2>1. Cardinality(On(a)) = 0
      BY <1>0, <1>2
    <2>2. AccountRow[a].maxConcurrent \in Nat /\ drift = 0
      BY AccountsAssumption DEF Init
    <2> QED
      BY <2>1, <2>2
  <1> QED
    BY <1>3, <1>4, <1>5 DEF Init, CapInv, Fresh

\* The caps and what they rest on hold in every reachable state.
LEMMA SpecCapInv == Spec => []CapInv
  <1>1. IInv /\ IInv' /\ CapInv /\ [Next]_vars => CapInv'
    BY FreshStep, AccountCoveredStep, GroupCoveredStep, GroupCapStep, AccountCapStep DEF CapInv
  <1> QED
    BY <1>1, InitCapInv, SpecIInv, PTL DEF Spec

\* A group's max_concurrent_jobs holds for the jobs admitted under it, for any number
\* of concurrent picks, of groups that share accounts, and of failed polls.
THEOREM GroupCapAlways == Spec => []GroupCapHolds
  <1>1. CapInv => GroupCapHolds
    BY DEF CapInv
  <1> QED
    BY <1>1, SpecCapInv, PTL

\* So does an account's max_concurrent, through all groups and the global pool.
THEOREM AccountCapAlways == Spec => []AccountCapHolds
  <1>1. CapInv => AccountCapHolds
    BY DEF CapInv
  <1> QED
    BY <1>1, SpecCapInv, PTL

-----------------------------------------------------------------------------
(* Budgets                                                                 *)

\* Products grow with their factors.
LEMMA MulLe ==
  ASSUME NEW c \in Nat, NEW x \in Nat, NEW y \in Nat, x <= y
  PROVE  c * x \in Nat /\ c * y \in Nat /\ c * x <= c * y
  <1>1. PICK d \in Nat : y = x + d
    <2>1. y - x \in Nat /\ y = x + (y - x)
      OBVIOUS
    <2> QED
      BY <2>1
  <1>2. c * y = c * x + c * d
    BY <1>1
  <1>3. c * x \in Nat /\ c * d \in Nat
    BY <1>1
  <1> QED
    BY <1>2, <1>3

\* One more factor.
LEMMA MulSucc ==
  ASSUME NEW c \in Nat, NEW x \in Nat
  PROVE  c * x \in Nat /\ c * (x + 1) = c * x + c
  OBVIOUS

\* A step admits nobody to a group, or passes its gates, or skips them because the row
\* cannot be read, or charges it.
LEMMA BudgetKinds ==
  ASSUME IInv, [Next]_vars
  PROVE  \/ /\ used' = used /\ open' = open
            /\ \A g \in Groups : AdmittedBy(g)' \subseteq AdmittedBy(g)
         \/ \E r \in Requests : ReadPolicy(r) \/ MeterGroup(r)
         \/ \E r \in Requests :
               /\ used' = used /\ open' = open + 1
               /\ \A g \in Groups : AdmittedBy(g)' \subseteq AdmittedBy(g) \union {r}
  <1>1. CASE \E r \in Requests, k \in Keys, m \in Models : Start(r, k, m)
    BY <1>1, SetsAssumption DEF Start, Goto, accounts, ledgers, request, calendar,
       bounds, history, AdmittedBy, IInv, TypeOK, WellFormed, RequestPC
  <1>2. CASE \E r \in Requests : ReadPolicy(r)
    BY <1>2
  <1>3. CASE \E r \in Requests : GateRefuses(r)
    BY <1>3, SetsAssumption DEF GateRefuses, Spill, End, Goto, accounts, ledgers,
       request, calendar, bounds, history, AdmittedBy, IInv, TypeOK, WellFormed,
       RequestPC
  <1>4. CASE \E r \in Requests : NoPolicy(r)
    BY <1>4, SetsAssumption DEF NoPolicy, Goto, accounts, ledgers, request, calendar,
       bounds, history, AdmittedBy, IInv, TypeOK, WellFormed, RequestPC
  <1>5. CASE \E r \in Requests : Select(r)
    BY <1>5, SetsAssumption DEF Select, Goto, accounts, ledgers, request, calendar,
       bounds, history, AdmittedBy, IInv, TypeOK, WellFormed, RequestPC
  <1>6. CASE \E r \in Requests : SelectRefuses(r)
    BY <1>6, SetsAssumption DEF SelectRefuses, Spill, End, Goto, accounts, ledgers,
       request, calendar, bounds, history, AdmittedBy, IInv, TypeOK, WellFormed,
       RequestPC
  <1>7. CASE \E r \in Requests : Write(r)
    BY <1>7, SetsAssumption DEF Write, Goto, Overtake, accounts, ledgers, request,
       calendar, bounds, history, AdmittedBy, IInv, TypeOK, WellFormed, RequestPC
  <1>8. CASE \E r \in Requests : PickFails(r)
    BY <1>8, SetsAssumption DEF PickFails, End, Goto, accounts, ledgers, request,
       calendar, bounds, history, AdmittedBy, IInv, TypeOK, WellFormed, RequestPC
  <1>9. CASE \E r \in Requests : CreateFails(r)
    BY <1>9, SetsAssumption DEF CreateFails, End, Goto, Overtake, GiveBack, accounts,
       ledgers, request, calendar, bounds, history, AdmittedBy, IInv, TypeOK,
       WellFormed, RequestPC
  <1>10. CASE \E r \in Requests : PollFails(r)
    BY <1>10, SetsAssumption DEF PollFails, Overtake, GiveBack, accounts, ledgers,
       request, calendar, bounds, history, AdmittedBy, IInv, TypeOK, WellFormed,
       RequestPC
  <1>11. CASE \E r \in Requests : Finish(r)
    BY <1>11, SetsAssumption DEF Finish, Goto, Overtake, GiveBack, accounts, ledgers,
       request, calendar, bounds, history, AdmittedBy, IInv, TypeOK, WellFormed,
       RequestPC
  <1>12. CASE \E r \in Requests, c \in 0..MaxCharge : MeterKey(r, c)
    BY <1>12, SetsAssumption DEF MeterKey, Goto, Overtake, accounts, ledgers,
       request, calendar, bounds, history, AdmittedBy, IInv, TypeOK, WellFormed,
       RequestPC
  <1>13. CASE \E r \in Requests : MeterGroup(r)
    BY <1>13
  <1>14. CASE \E a \in Accounts : ChangeStatus(a)
    BY <1>14, SetsAssumption DEF ChangeStatus, accounts, ledgers, request, calendar,
       bounds, history, AdmittedBy, IInv, TypeOK, WellFormed, RequestPC
  <1>15. CASE \E a \in Accounts, b \in BalanceValues : ChangeBalance(a, b)
    BY <1>15, SetsAssumption DEF ChangeBalance, accounts, ledgers, request, calendar,
       bounds, history, AdmittedBy, IInv, TypeOK, WellFormed, RequestPC
  <1>16. CASE NewMonth
    BY <1>16, SetsAssumption DEF NewMonth, accounts, ledgers, request, calendar,
       bounds, history, AdmittedBy, IInv, TypeOK, WellFormed, RequestPC
  <1>17. CASE \E k \in Keys : ResetKey(k)
    BY <1>17, SetsAssumption DEF ResetKey, accounts, ledgers, request, calendar,
       bounds, history, AdmittedBy, IInv, TypeOK, WellFormed, RequestPC
  <1>18. CASE UNCHANGED vars
    BY <1>18, SetsAssumption DEF vars, accounts, ledgers, request, calendar, bounds,
       history, AdmittedBy, IInv, TypeOK, WellFormed, RequestPC
  <1>19. CASE \E r \in Requests, k \in Keys, m \in Models, g \in Groups \union {NoGroup} :
                 Execute(r, k, m, g)
    BY <1>19, SetsAssumption DEF Execute, Goto, ledgers, AdmittedBy, IInv, TypeOK
  <1> QED
    BY <1>1, <1>2, <1>3, <1>4, <1>5, <1>6, <1>7, <1>8, <1>9, <1>10, <1>11, <1>12,
       <1>13, <1>14, <1>15, <1>16, <1>17, <1>18, <1>19, NextCases

\* Every step keeps a group's overrun bounded.
LEMMA GroupOverrunStep ==
  ASSUME IInv, IInv', GroupOverrunBounded, [Next]_vars
  PROVE  GroupOverrunBounded'
  <1> DEFINE c == MaxCharge
             n == Cardinality(Requests)
  <1> SUFFICES ASSUME NEW g \in Groups, GroupRow[g].budget > 0
               PROVE  used'[g] + c * Cardinality(AdmittedBy(g)')
                        <= GroupRow[g].budget - MinCost + c * (n + open')
    BY DEF GroupOverrunBounded
  <1>0. /\ c \in Nat /\ n \in Nat /\ MinCost \in Nat /\ GroupRow[g].budget \in Nat
        /\ used[g] \in Nat /\ open \in Nat
        /\ used[g] + c * Cardinality(AdmittedBy(g)) <= GroupRow[g].budget - MinCost + c * (n + open)
        /\ AdmittedBy(g) \subseteq Requests /\ AdmittedBy(g)' \subseteq Requests
    <2>1. n \in Nat
      BY SetsAssumption, FS_CardinalityType
    <2>2. c \in Nat /\ MinCost \in Nat /\ GroupRow[g].budget \in Nat
      BY ModelsAssumption, GroupsAssumption
    <2>3. AdmittedBy(g) \subseteq Requests /\ AdmittedBy(g)' \subseteq Requests
      BY DEF AdmittedBy
    <2> QED
      BY <2>1, <2>2, <2>3 DEF GroupOverrunBounded, IInv, TypeOK
  <1> DEFINE A == Cardinality(AdmittedBy(g))
             B == Cardinality(AdmittedBy(g)')
  <1>00. /\ IsFiniteSet(AdmittedBy(g)) /\ A \in Nat /\ IsFiniteSet(AdmittedBy(g)') /\ B \in Nat
         /\ B <= n
    <2>1. IsFiniteSet(AdmittedBy(g)) /\ A \in Nat
      BY <1>0, FiniteJobs
    <2>2. IsFiniteSet(AdmittedBy(g)') /\ B \in Nat /\ B <= n
      BY <1>0, SetsAssumption, CardPart
    <2> QED
      BY <2>1, <2>2
  <1>1. CASE /\ used' = used /\ open' = open
             /\ \A h \in Groups : AdmittedBy(h)' \subseteq AdmittedBy(h)
    <2>1. B <= A
      BY <1>00, <1>1, CardPart
    <2>2. c * B <= c * A /\ c * A \in Nat /\ c * B \in Nat
      BY <1>0, <1>00, <2>1, MulLe
    <2>3. c * (n + open) \in Nat
      BY <1>0, MulLe
    <2> HIDE DEF A, B, n, c
    <2>4. used[g] + c * A <= GroupRow[g].budget - MinCost + c * (n + open)
      BY <1>0 DEF A, n, c
    <2>5. used[g] + c * B <= GroupRow[g].budget - MinCost + c * (n + open)
      BY <1>0, <2>2, <2>3, <2>4
    <2> QED
      BY <1>1, <2>5 DEF B, n, c
  <1>2. ASSUME NEW r \in Requests, ReadPolicy(r)
        PROVE  used'[g] + c * B <= GroupRow[g].budget - MinCost + c * (n + open')
    <2>1. used' = used /\ open' = open
      BY <1>2 DEF ReadPolicy, ledgers, history
    <2>2. CASE grp[r] = g
      <3>1. model[r] \in Models
        BY <1>2 DEF ReadPolicy, IInv, WellFormed
      <3>2. /\ ModelSpec[model[r]].cost \in Nat /\ MinCost <= ModelSpec[model[r]].cost
            /\ used[g] + ModelSpec[model[r]].cost <= GroupRow[g].budget
        BY <1>2, <2>2, <3>1, ModelsAssumption DEF ReadPolicy, GroupGate
      <3>3. used[g] <= GroupRow[g].budget - MinCost
        BY <1>0, <3>2
      <3>4. c * B \in Nat /\ c * (n + open) \in Nat /\ c * B <= c * (n + open)
        <4>1. B <= n + open /\ n + open \in Nat
          BY <1>0, <1>00
        <4> QED
          BY <1>0, <1>00, <4>1, MulLe
      <3> HIDE DEF A, B, n, c
      <3>5. used[g] + c * B <= GroupRow[g].budget - MinCost + c * (n + open)
        BY <1>0, <3>3, <3>4
      <3> QED
        BY <2>1, <3>5
    <2>3. CASE grp[r] # g
      <3>1. AdmittedBy(g)' = AdmittedBy(g)
        BY <1>2, <2>3 DEF ReadPolicy, Goto, AdmittedBy, IInv, TypeOK
      <3> QED
        BY <1>0, <2>1, <3>1
    <2> QED
      BY <2>2, <2>3
  <1>3. ASSUME NEW r \in Requests, MeterGroup(r)
        PROVE  used'[g] + c * B <= GroupRow[g].budget - MinCost + c * (n + open')
    <2>1. open' = open /\ AdmittedBy(g)' = AdmittedBy(g) \ {r}
      BY <1>3, SetsAssumption DEF MeterGroup, End, Goto, AdmittedBy, IInv, TypeOK, history
    <2>2. CASE grp[r] = g
      <3>1. r \in AdmittedBy(g)
        BY <1>3, <2>2 DEF MeterGroup, AdmittedBy
      <3>2. A = B + 1
        BY <1>0, <1>00, <2>1, <3>1, CardDrop
      <3>3. used'[g] \in Nat /\ used'[g] <= used[g] + c
        BY <1>0, <1>3, <2>2 DEF MeterGroup, IInv, TypeOK
      <3>4. c * A = c * B + c /\ c * B \in Nat
        BY <1>0, <1>00, <3>2, MulSucc
      <3>5. c * (n + open) \in Nat
        BY <1>0, MulLe
      <3> HIDE DEF A, B, n, c
      <3>6. used[g] + c * A <= GroupRow[g].budget - MinCost + c * (n + open)
        BY <1>0 DEF A, n, c
      <3>7. used'[g] + c * B <= GroupRow[g].budget - MinCost + c * (n + open)
        BY <1>0, <3>3, <3>4, <3>5, <3>6
      <3> QED
        BY <2>1, <3>7
    <2>3. CASE grp[r] # g
      <3>1. used'[g] = used[g]
        BY <1>3, <2>3 DEF MeterGroup, IInv, TypeOK
      <3>2. r \notin AdmittedBy(g)
        BY <2>3 DEF AdmittedBy
      <3>3. AdmittedBy(g)' = AdmittedBy(g)
        BY <2>1, <3>2
      <3> QED
        BY <1>0, <2>1, <3>1, <3>3
    <2> QED
      BY <2>2, <2>3
  <1>4. ASSUME NEW r \in Requests, used' = used, open' = open + 1,
               \A h \in Groups : AdmittedBy(h)' \subseteq AdmittedBy(h) \union {r}
        PROVE  used'[g] + c * B <= GroupRow[g].budget - MinCost + c * (n + open')
    <2>1. B <= A + 1
      <3>1. /\ IsFiniteSet(AdmittedBy(g) \union {r})
            /\ Cardinality(AdmittedBy(g) \union {r}) <= A + 1
        BY <1>00, CardAdd
      <3>2. /\ Cardinality(AdmittedBy(g) \union {r}) \in Nat
            /\ B <= Cardinality(AdmittedBy(g) \union {r})
        BY <1>4, <3>1, CardPart
      <3> QED
        BY <1>00, <3>1, <3>2
    <2>2. c * B <= c * (A + 1) /\ c * B \in Nat
      BY <1>0, <1>00, <2>1, MulLe
    <2>3. c * (A + 1) = c * A + c /\ c * A \in Nat
      BY <1>0, <1>00, MulSucc
    <2>4. c * ((n + open) + 1) = c * (n + open) + c /\ c * (n + open) \in Nat
      <3>1. n + open \in Nat
        BY <1>0
      <3> QED
        BY <1>0, <3>1, MulSucc
    <2>5. n + open' = (n + open) + 1
      BY <1>0, <1>4
    <2> HIDE DEF A, B, n, c
    <2>6. used[g] + c * A <= GroupRow[g].budget - MinCost + c * (n + open)
      BY <1>0 DEF A, n, c
    <2>7. used[g] + c * B <= GroupRow[g].budget - MinCost + (c * (n + open) + c)
      BY <1>0, <2>2, <2>3, <2>4, <2>6
    <2> QED
      BY <1>4, <2>4, <2>5, <2>7
  <1> QED
    BY <1>1, <1>2, <1>3, <1>4, BudgetKinds

\* There is at least one request, and a charge covers the least estimate.
LEMMA Headroom ==
  /\ Cardinality(Requests) \in Nat /\ MaxCharge \in Nat /\ MinCost \in Nat
  /\ \A x \in Nat : /\ MaxCharge * (Cardinality(Requests) + x) \in Nat
                     /\ MinCost <= MaxCharge * (Cardinality(Requests) + x)
  <1>1. Cardinality(Requests) \in Nat /\ Cardinality(Requests) # 0
    BY SetsAssumption, FS_CardinalityType, FS_EmptySet
  <1>2. MaxCharge \in Nat /\ MinCost \in Nat /\ MinCost <= MaxCharge
    BY ModelsAssumption
  <1>3. ASSUME NEW x \in Nat
        PROVE  /\ MaxCharge * (Cardinality(Requests) + x) \in Nat
               /\ MaxCharge * 1 <= MaxCharge * (Cardinality(Requests) + x)
    <2>1. 1 <= Cardinality(Requests) + x /\ Cardinality(Requests) + x \in Nat
      BY <1>1
    <2> QED
      BY <1>2, <2>1, MulLe
  <1>4. MaxCharge * 1 = MaxCharge
    BY <1>2
  <1> QED
    BY <1>1, <1>2, <1>3, <1>4

\* A group's budget is overrun by less than one charge per live request, and one for
\* each time its row could not be read, for any budgets, costs and number of requests.
THEOREM GroupOverrunAlways == Spec => []GroupOverrunBounded
  <1>1. Init => GroupOverrunBounded
    <2> SUFFICES ASSUME Init, NEW g \in Groups
                 PROVE  used[g] + MaxCharge * Cardinality(AdmittedBy(g))
                          <= GroupRow[g].budget - MinCost + MaxCharge * (Cardinality(Requests) + open)
      BY DEF GroupOverrunBounded
    <2>1. AdmittedBy(g) = {}
      BY DEF Init, AdmittedBy
    <2>2. Cardinality(AdmittedBy(g)) = 0 /\ used[g] = 0 /\ open = 0
      BY <2>1, FS_EmptySet DEF Init
    <2>3. GroupRow[g].budget \in Nat
      BY GroupsAssumption
    <2>4. /\ MaxCharge * (Cardinality(Requests) + open) \in Nat
          /\ MinCost <= MaxCharge * (Cardinality(Requests) + open)
      BY <2>2, Headroom
    <2>5. used[g] + MaxCharge * Cardinality(AdmittedBy(g)) = 0
      BY <2>2, Headroom
    <2> QED
      BY <2>3, <2>4, <2>5, Headroom
  <1>2. IInv /\ IInv' /\ GroupOverrunBounded /\ [Next]_vars => GroupOverrunBounded'
    BY GroupOverrunStep
  <1> QED
    BY <1>1, <1>2, SpecIInv, PTL DEF Spec

\* A step admits nobody with a key, or passes its gate, or charges it, or resets it.
LEMMA QuotaKinds ==
  ASSUME IInv, [Next]_vars
  PROVE  \/ /\ keyUsed' = keyUsed /\ ungated' = ungated
            /\ \A k \in Keys : AdmittedWith(k)' \subseteq AdmittedWith(k)
         \/ \E r \in Requests, k \in Keys, m \in Models : Start(r, k, m)
         \/ \E r \in Requests, x \in 0..MaxCharge : MeterKey(r, x)
         \/ \E k \in Keys : ResetKey(k)
         \/ \E r \in Requests :
               /\ keyUsed' = keyUsed /\ ungated' = ungated + 1
               /\ \A k \in Keys : AdmittedWith(k)' \subseteq AdmittedWith(k) \union {r}
  <1>1. CASE \E r \in Requests, k \in Keys, m \in Models : Start(r, k, m)
    BY <1>1
  <1>2. CASE \E r \in Requests : ReadPolicy(r)
    BY <1>2 DEF ReadPolicy, Goto, accounts, ledgers, request, calendar, bounds,
       history, AdmittedWith, IInv, TypeOK, WellFormed, RequestPC
  <1>3. CASE \E r \in Requests : GateRefuses(r)
    BY <1>3 DEF GateRefuses, Spill, End, Goto, accounts, ledgers, request, calendar,
       bounds, history, AdmittedWith, IInv, TypeOK, WellFormed, RequestPC
  <1>4. CASE \E r \in Requests : NoPolicy(r)
    BY <1>4 DEF NoPolicy, Goto, accounts, ledgers, request, calendar, bounds,
       history, AdmittedWith, IInv, TypeOK, WellFormed, RequestPC
  <1>5. CASE \E r \in Requests : Select(r)
    BY <1>5 DEF Select, Goto, accounts, ledgers, request, calendar, bounds, history,
       AdmittedWith, IInv, TypeOK, WellFormed, RequestPC
  <1>6. CASE \E r \in Requests : SelectRefuses(r)
    BY <1>6 DEF SelectRefuses, Spill, End, Goto, accounts, ledgers, request,
       calendar, bounds, history, AdmittedWith, IInv, TypeOK, WellFormed, RequestPC
  <1>7. CASE \E r \in Requests : Write(r)
    BY <1>7 DEF Write, Goto, Overtake, accounts, ledgers, request, calendar, bounds,
       history, AdmittedWith, IInv, TypeOK, WellFormed, RequestPC
  <1>8. CASE \E r \in Requests : PickFails(r)
    BY <1>8 DEF PickFails, End, Goto, accounts, ledgers, request, calendar, bounds,
       history, AdmittedWith, IInv, TypeOK, WellFormed, RequestPC
  <1>9. CASE \E r \in Requests : CreateFails(r)
    BY <1>9 DEF CreateFails, End, Goto, Overtake, GiveBack, accounts, ledgers,
       request, calendar, bounds, history, AdmittedWith, IInv, TypeOK, WellFormed,
       RequestPC
  <1>10. CASE \E r \in Requests : PollFails(r)
    BY <1>10 DEF PollFails, Overtake, GiveBack, accounts, ledgers, request, calendar,
       bounds, history, AdmittedWith, IInv, TypeOK, WellFormed, RequestPC
  <1>11. CASE \E r \in Requests : Finish(r)
    BY <1>11 DEF Finish, Goto, Overtake, GiveBack, accounts, ledgers, request,
       calendar, bounds, history, AdmittedWith, IInv, TypeOK, WellFormed, RequestPC
  <1>12. CASE \E r \in Requests, c \in 0..MaxCharge : MeterKey(r, c)
    BY <1>12
  <1>13. CASE \E r \in Requests : MeterGroup(r)
    BY <1>13 DEF MeterGroup, End, Goto, Overtake, accounts, ledgers, request,
       calendar, bounds, history, AdmittedWith, IInv, TypeOK, WellFormed, RequestPC
  <1>14. CASE \E a \in Accounts : ChangeStatus(a)
    BY <1>14 DEF ChangeStatus, accounts, ledgers, request, calendar, bounds, history,
       AdmittedWith, IInv, TypeOK, WellFormed, RequestPC
  <1>15. CASE \E a \in Accounts, b \in BalanceValues : ChangeBalance(a, b)
    BY <1>15 DEF ChangeBalance, accounts, ledgers, request, calendar, bounds,
       history, AdmittedWith, IInv, TypeOK, WellFormed, RequestPC
  <1>16. CASE NewMonth
    BY <1>16 DEF NewMonth, accounts, ledgers, request, calendar, bounds, history,
       AdmittedWith, IInv, TypeOK, WellFormed, RequestPC
  <1>17. CASE \E k \in Keys : ResetKey(k)
    BY <1>17
  <1>18. CASE UNCHANGED vars
    BY <1>18 DEF vars, accounts, ledgers, request, calendar, bounds, history,
       AdmittedWith, IInv, TypeOK, WellFormed, RequestPC
  <1>19. CASE \E r \in Requests, k \in Keys, m \in Models, g \in Groups \union {NoGroup} :
                 Execute(r, k, m, g)
    BY <1>19 DEF Execute, Goto, ledgers, AdmittedWith, IInv, TypeOK
  <1> QED
    BY <1>1, <1>2, <1>3, <1>4, <1>5, <1>6, <1>7, <1>8, <1>9, <1>10, <1>11, <1>12,
       <1>13, <1>14, <1>15, <1>16, <1>17, <1>18, <1>19, NextCases

\* Every step keeps a key's overrun bounded.
LEMMA KeyOverrunStep ==
  ASSUME IInv, IInv', KeyOverrunBounded, [Next]_vars
  PROVE  KeyOverrunBounded'
  <1> DEFINE c == MaxCharge
             n == Cardinality(Requests)
  <1> SUFFICES ASSUME NEW k \in Keys, KeyRow[k].quota > 0
               PROVE  keyUsed'[k] + c * Cardinality(AdmittedWith(k)')
                        <= KeyRow[k].quota - MinCost + c * (n + ungated')
    BY DEF KeyOverrunBounded
  <1>0. /\ c \in Nat /\ n \in Nat /\ MinCost \in Nat /\ KeyRow[k].quota \in Nat
        /\ keyUsed[k] \in Nat /\ ungated \in Nat
        /\ keyUsed[k] + c * Cardinality(AdmittedWith(k))
             <= KeyRow[k].quota - MinCost + c * (n + ungated)
        /\ AdmittedWith(k) \subseteq Requests /\ AdmittedWith(k)' \subseteq Requests
    <2>1. n \in Nat
      BY SetsAssumption, FS_CardinalityType
    <2>2. c \in Nat /\ MinCost \in Nat /\ KeyRow[k].quota \in Nat
      BY ModelsAssumption, KeysAssumption
    <2>3. AdmittedWith(k) \subseteq Requests /\ AdmittedWith(k)' \subseteq Requests
      BY DEF AdmittedWith
    <2> QED
      BY <2>1, <2>2, <2>3 DEF KeyOverrunBounded, IInv, TypeOK
  <1> DEFINE A == Cardinality(AdmittedWith(k))
             B == Cardinality(AdmittedWith(k)')
  <1>00. /\ IsFiniteSet(AdmittedWith(k)) /\ A \in Nat
         /\ IsFiniteSet(AdmittedWith(k)') /\ B \in Nat /\ B <= n
    <2>1. IsFiniteSet(AdmittedWith(k)) /\ A \in Nat
      BY <1>0, FiniteJobs
    <2>2. IsFiniteSet(AdmittedWith(k)') /\ B \in Nat /\ B <= n
      BY <1>0, SetsAssumption, CardPart
    <2> QED
      BY <2>1, <2>2
  <1>01. ASSUME ungated' = ungated, B <= A, keyUsed'[k] \in Nat, keyUsed'[k] <= keyUsed[k]
         PROVE  keyUsed'[k] + c * B <= KeyRow[k].quota - MinCost + c * (n + ungated')
    <2>1. c * B <= c * A /\ c * A \in Nat /\ c * B \in Nat
      BY <1>0, <1>00, <1>01, MulLe
    <2>2. c * (n + ungated) \in Nat
      BY <1>0, MulLe
    <2> HIDE DEF A, B, n, c
    <2>3. keyUsed[k] + c * A <= KeyRow[k].quota - MinCost + c * (n + ungated)
      BY <1>0 DEF A, n, c
    <2> QED
      BY <1>0, <1>01, <2>1, <2>2, <2>3
  <1>1. CASE /\ keyUsed' = keyUsed /\ ungated' = ungated
             /\ \A h \in Keys : AdmittedWith(h)' \subseteq AdmittedWith(h)
    <2>1. B <= A
      BY <1>00, <1>1, CardPart
    <2> QED
      BY <1>0, <1>01, <1>1, <2>1
  <1>2. ASSUME NEW r \in Requests, NEW h \in Keys, NEW m \in Models, Start(r, h, m)
        PROVE  keyUsed'[k] + c * B <= KeyRow[k].quota - MinCost + c * (n + ungated')
    <2>1. keyUsed' = keyUsed /\ ungated' = ungated
      BY <1>2 DEF Start, ledgers, history
    <2>2. CASE h = k
      <3>1. /\ ModelSpec[m].cost \in Nat /\ MinCost <= ModelSpec[m].cost
            /\ keyUsed[k] + ModelSpec[m].cost <= KeyRow[k].quota
        BY <1>2, <2>2, ModelsAssumption DEF Start, KeyGate
      <3>2. keyUsed[k] <= KeyRow[k].quota - MinCost
        BY <1>0, <3>1
      <3>3. c * B \in Nat /\ c * (n + ungated) \in Nat /\ c * B <= c * (n + ungated)
        <4>1. B <= n + ungated /\ n + ungated \in Nat
          BY <1>0, <1>00
        <4> QED
          BY <1>0, <1>00, <4>1, MulLe
      <3> HIDE DEF A, B, n, c
      <3>4. keyUsed[k] + c * B <= KeyRow[k].quota - MinCost + c * (n + ungated)
        BY <1>0, <3>2, <3>3
      <3> QED
        BY <2>1, <3>4
    <2>3. CASE h # k
      <3>1. AdmittedWith(k)' \subseteq AdmittedWith(k)
        BY <1>2, <2>3 DEF Start, Goto, AdmittedWith, IInv, TypeOK
      <3>2. B <= A
        BY <1>00, <3>1, CardPart
      <3> QED
        BY <1>0, <1>01, <2>1, <3>2
    <2> QED
      BY <2>2, <2>3
  <1>3. ASSUME NEW r \in Requests, NEW x \in 0..MaxCharge, MeterKey(r, x)
        PROVE  keyUsed'[k] + c * B <= KeyRow[k].quota - MinCost + c * (n + ungated')
    <2>1. AdmittedWith(k)' = AdmittedWith(k) \ {r} /\ ungated' = ungated
      BY <1>3 DEF MeterKey, Goto, AdmittedWith, IInv, TypeOK, history
    <2>2. CASE key[r] = k
      <3>1. r \in AdmittedWith(k)
        BY <1>3, <2>2 DEF MeterKey, AdmittedWith
      <3>2. A = B + 1
        BY <1>0, <1>00, <2>1, <3>1, CardDrop
      <3>3. keyUsed'[k] \in Nat /\ keyUsed'[k] <= keyUsed[k] + c
        <4>1. CASE keyUsed' = [keyUsed EXCEPT ![key[r]] = @ + x]
          BY <1>0, <2>2, <4>1 DEF IInv, TypeOK
        <4>2. CASE keyUsed' = keyUsed
          BY <1>0, <4>2
        <4> QED
          BY <1>3, <4>1, <4>2 DEF MeterKey
      <3>4. c * A = c * B + c /\ c * B \in Nat
        BY <1>0, <1>00, <3>2, MulSucc
      <3>5. c * (n + ungated) \in Nat
        BY <1>0, MulLe
      <3> HIDE DEF A, B, n, c
      <3>6. keyUsed[k] + c * A <= KeyRow[k].quota - MinCost + c * (n + ungated)
        BY <1>0 DEF A, n, c
      <3>7. keyUsed'[k] + c * B <= KeyRow[k].quota - MinCost + c * (n + ungated)
        BY <1>0, <3>3, <3>4, <3>5, <3>6
      <3> QED
        BY <2>1, <3>7
    <2>3. CASE key[r] # k
      <3>1. keyUsed'[k] = keyUsed[k]
        BY <1>3, <2>3 DEF MeterKey, IInv, TypeOK
      <3>2. B <= A
        BY <1>00, <2>1, CardPart
      <3> QED
        BY <1>0, <1>01, <2>1, <3>1, <3>2
    <2> QED
      BY <2>2, <2>3
  <1>4. ASSUME NEW h \in Keys, ResetKey(h)
        PROVE  keyUsed'[k] + c * B <= KeyRow[k].quota - MinCost + c * (n + ungated')
    <2>1. keyUsed'[k] \in Nat /\ keyUsed'[k] <= keyUsed[k]
      BY <1>0, <1>4 DEF ResetKey, IInv, TypeOK
    <2>2. AdmittedWith(k)' = AdmittedWith(k) /\ ungated' = ungated
      BY <1>4 DEF ResetKey, AdmittedWith, request, history
    <2> QED
      BY <1>00, <1>01, <2>1, <2>2
  <1>5. ASSUME NEW r \in Requests, keyUsed' = keyUsed, ungated' = ungated + 1,
               \A h \in Keys : AdmittedWith(h)' \subseteq AdmittedWith(h) \union {r}
        PROVE  keyUsed'[k] + c * B <= KeyRow[k].quota - MinCost + c * (n + ungated')
    <2>1. B <= A + 1
      <3>1. /\ IsFiniteSet(AdmittedWith(k) \union {r})
            /\ Cardinality(AdmittedWith(k) \union {r}) <= A + 1
        BY <1>00, CardAdd
      <3>2. /\ Cardinality(AdmittedWith(k) \union {r}) \in Nat
            /\ B <= Cardinality(AdmittedWith(k) \union {r})
        BY <1>5, <3>1, CardPart
      <3> QED
        BY <1>00, <3>1, <3>2
    <2>2. c * B <= c * (A + 1) /\ c * B \in Nat
      BY <1>0, <1>00, <2>1, MulLe
    <2>3. c * (A + 1) = c * A + c /\ c * A \in Nat
      BY <1>0, <1>00, MulSucc
    <2>4. c * ((n + ungated) + 1) = c * (n + ungated) + c /\ c * (n + ungated) \in Nat
      <3>1. n + ungated \in Nat
        BY <1>0
      <3> QED
        BY <1>0, <3>1, MulSucc
    <2>5. n + ungated' = (n + ungated) + 1
      BY <1>0, <1>5
    <2> HIDE DEF A, B, n, c
    <2>6. keyUsed[k] + c * A <= KeyRow[k].quota - MinCost + c * (n + ungated)
      BY <1>0 DEF A, n, c
    <2>7. keyUsed[k] + c * B <= KeyRow[k].quota - MinCost + (c * (n + ungated) + c)
      BY <1>0, <2>2, <2>3, <2>4, <2>6
    <2> QED
      BY <1>5, <2>4, <2>5, <2>7
  <1> QED
    BY <1>1, <1>2, <1>3, <1>4, <1>5, QuotaKinds

\* A key's quota is overrun by less than one charge per live request, and one for each
\* call of /internal/execute, whenever the monthly reset comes.
THEOREM KeyOverrunAlways == Spec => []KeyOverrunBounded
  <1>1. Init => KeyOverrunBounded
    <2> SUFFICES ASSUME Init, NEW k \in Keys
                 PROVE  keyUsed[k] + MaxCharge * Cardinality(AdmittedWith(k))
                          <= KeyRow[k].quota - MinCost + MaxCharge * (Cardinality(Requests) + ungated)
      BY DEF KeyOverrunBounded
    <2>1. AdmittedWith(k) = {}
      BY DEF Init, AdmittedWith
    <2>2. Cardinality(AdmittedWith(k)) = 0 /\ keyUsed[k] = 0 /\ ungated = 0
      BY <2>1, FS_EmptySet DEF Init
    <2>3. KeyRow[k].quota \in Nat
      BY KeysAssumption
    <2>4. /\ MaxCharge * (Cardinality(Requests) + ungated) \in Nat
          /\ MinCost <= MaxCharge * (Cardinality(Requests) + ungated)
      BY <2>2, Headroom
    <2>5. keyUsed[k] + MaxCharge * Cardinality(AdmittedWith(k)) = 0
      BY <2>2, Headroom
    <2> QED
      BY <2>3, <2>4, <2>5, Headroom
  <1>2. IInv /\ IInv' /\ KeyOverrunBounded /\ [Next]_vars => KeyOverrunBounded'
    BY KeyOverrunStep
  <1> QED
    BY <1>1, <1>2, SpecIInv, PTL DEF Spec

=============================================================================

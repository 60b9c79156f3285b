----------------------------- MODULE GroupStore -----------------------------
(* Account groups, their members and the api keys bound to them             *)
(* (sqlite/group_store.go) and the admin handlers over them (admin/groups). *)
EXTENDS Integers, Sequences, FiniteSets

CONSTANTS
    Keys,        \* api key ids
    NameOrder,   \* every group id, in the order of the groups' names
    Accounts,
    Editors,     \* concurrent PUT /groups/{id} requests
    Budgets,     \* values an operator gives monthly_credit_budget
    MaxEdits     \* how many administrative writes a behaviour has

Groups == {NameOrder[i]: i \in DOMAIN NameOrder}

ASSUME GroupAssumption ==
    /\ Budgets \subseteq Nat /\ 0 \in Budgets /\ MaxEdits \in Nat
    /\ NameOrder \in Seq(Groups) /\ Cardinality(Groups) = Len(NameOrder)

VARIABLES
    groups,    \* account_groups rows
    members,   \* account_group_members
    bindings,  \* apikey_group_bindings
    editing,   \* editor -> the row its handler loaded
    edits,
    spent      \* group -> what IncrementUsed added since the row was made (history)

groupVars == <<groups, members, bindings, editing, edits, spent>>

Strategies == {"round_robin", "priority"}
NoGroupRow == [exists |-> FALSE, budget |-> 0, route |-> "round_robin", used |-> 0]
NewGroupRow(budget, route) == [exists |-> TRUE, budget |-> budget, route |-> route, used |-> 0]
Closed == [on |-> FALSE, g |-> NameOrder[1], row |-> NoGroupRow]

GroupInit ==
    /\ groups = [g \in Groups |-> NewGroupRow(0, "round_robin")]
    /\ members = {} /\ bindings = {}
    /\ editing = [e \in Editors |-> Closed]
    /\ edits = 0 /\ spent = [g \in Groups |-> 0]

Edits == edits < MaxEdits /\ edits' = edits + 1

\* ResolveDefaultRouteStrategy: the stored preference, or round robin when it
\* is missing, unreadable or not one of the two.
ResolveDefaultRouteStrategy(preference) ==
    IF preference = "priority" THEN "priority" ELSE "round_robin"

\* POST /groups; an empty strategy takes the operator's default.
CreateGroup(g, preference) ==
    /\ Edits /\ ~groups[g].exists
    /\ groups' = [groups EXCEPT ![g] = NewGroupRow(0, ResolveDefaultRouteStrategy(preference))]
    /\ spent' = [spent EXCEPT ![g] = 0]
    /\ UNCHANGED <<members, bindings, editing>>

\* DELETE /groups/{id}: the foreign keys take members and bindings along.
Cascade(links, g) == {x \in links: x[2] # g}
DeleteGroup(g) ==
    /\ Edits /\ groups[g].exists
    /\ groups' = [groups EXCEPT ![g] = NoGroupRow]
    /\ members' = Cascade(members, g)
    /\ bindings' = Cascade(bindings, g)
    /\ spent' = [spent EXCEPT ![g] = 0]
    /\ UNCHANGED editing

\* PUT /groups/{id}: load the row, merge the fields of the body, write it all
\* back -- all but monthly_credit_used.
LoadGroup(e, g) ==
    /\ Edits /\ ~editing[e].on /\ groups[g].exists
    /\ editing' = [editing EXCEPT ![e] = [on |-> TRUE, g |-> g, row |-> groups[g]]]
    /\ UNCHANGED <<groups, members, bindings, spent>>

UpdatedWholeRow(old, merged) == merged
Updated(old, merged) == [merged EXCEPT !.used = old.used]

UpdateGroup(e, budget, route) ==
    /\ editing[e].on
    /\ LET g == editing[e].g
           merged == [editing[e].row EXCEPT !.budget = budget, !.route = route]
       IN groups' = IF groups[g].exists THEN [groups EXCEPT ![g] = Updated(@, merged)] ELSE groups
    /\ editing' = [editing EXCEPT ![e] = Closed]
    /\ UNCHANGED <<members, bindings, edits, spent>>

\* Membership and binding: idempotent, and refused for a group that is gone.
AddMember(g, a) ==
    /\ Edits /\ groups[g].exists
    /\ members' = members \cup {<<a, g>>}
    /\ UNCHANGED <<groups, bindings, editing, spent>>
RemoveMember(g, a) ==
    /\ Edits /\ <<a, g>> \in members
    /\ members' = members \ {<<a, g>>}
    /\ UNCHANGED <<groups, bindings, editing, spent>>
BindAPIKey(k, g) ==
    /\ Edits /\ groups[g].exists
    /\ bindings' = bindings \cup {<<k, g>>}
    /\ UNCHANGED <<groups, members, editing, spent>>
UnbindAPIKey(k, g) ==
    /\ Edits /\ <<k, g>> \in bindings
    /\ bindings' = bindings \ {<<k, g>>}
    /\ UNCHANGED <<groups, members, editing, spent>>

\* ListGroupsForAPIKey: the groups bound to the key, ordered by name.
ListGroupsForAPIKey(k) ==
    LET bound == {i \in DOMAIN NameOrder: <<k, NameOrder[i]>> \in bindings}
        Rank(i) == Cardinality({j \in bound: j <= i})
    IN [n \in 1..Cardinality(bound) |-> NameOrder[CHOOSE i \in bound: Rank(i) = n]]

\* IncrementUsed: nothing happens to a row that is gone.
IncrementUsed(g, delta) ==
    /\ groups' = IF groups[g].exists THEN [groups EXCEPT ![g].used = @ + delta] ELSE groups
    /\ spent' = IF groups[g].exists THEN [spent EXCEPT ![g] = @ + delta] ELSE spent

\* A binding needs a key that exists, as the foreign key demands.
GroupAdmin(present) ==
    \E g \in Groups:
        \/ \E p \in Strategies \cup {"unset"}: CreateGroup(g, p)
        \/ DeleteGroup(g)
        \/ \E e \in Editors: LoadGroup(e, g)
        \/ \E a \in Accounts: AddMember(g, a) \/ RemoveMember(g, a)
        \/ \E k \in present: BindAPIKey(k, g) \/ UnbindAPIKey(k, g)
GroupSave == \E e \in Editors, b \in Budgets, r \in Strategies: UpdateGroup(e, b, r)
----------------------------------------------------------------------------
(* A member or a binding always names a group that exists: deleting a group *)
(* between a listing and a write leaves nothing behind that a new request   *)
(* could be routed by.                                                      *)
NoDanglingLinks == \A x \in members \cup bindings: groups[x[2]].exists

(* Credits charged to a group are never lost to an operator's edit: the     *)
(* load-merge-write of PUT leaves the counter that metering increments in   *)
(* between alone (GroupStore.Update).                                       *)
GroupSpendKept == \A g \in Groups: groups[g].exists => groups[g].used = spent[g]
============================================================================

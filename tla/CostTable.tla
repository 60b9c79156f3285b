----------------------------- MODULE CostTable -----------------------------
(* The two views the upstream client derives from a price table: the rules  *)
(* cost sync saves, and the floor it pushes.  A cost array is the sequence  *)
(* of its nodes, each before those nested in its resolutions:               *)
(* [price |-> component -> thousandths of a credit, dims |-> what it says   *)
(* of resolution, mode and the rest, within |-> the node it is nested in];  *)
(* the states of an audio object are components "off" and "on".             *)
EXTENDS Integers, Sequences, TLC

\* An item of the array is nested in no node.
Item == 0

\* math.Round of credits * 100
Hundredths(price) == (price + 5) \div 10

\* A nested node keeps what its parent says unless it says otherwise.
Dimensions(nodes) ==
    LET dims[i \in DOMAIN nodes] ==
            IF nodes[i].within = Item THEN nodes[i].dims ELSE nodes[i].dims @@ dims[nodes[i].within]
    IN  dims

Priced(node) == {c \in DOMAIN node.price: node.price[c] > 0}
NormalizeCostNode(nodes, i) ==
    {[component |-> c, credits |-> Hundredths(nodes[i].price[c]), dims |-> Dimensions(nodes)[i]]:
        c \in Priced(nodes[i])}
NormalizeJobSetCostRules(nodes) == UNION {NormalizeCostNode(nodes, i): i \in DOMAIN nodes}

\* Mutant: the nested resolutions are not walked.
WalkTop(nodes) ==
    UNION {{nodes[i].price[c]: c \in DOMAIN nodes[i].price}: i \in {j \in DOMAIN nodes: nodes[j].within = Item}}
Walk(nodes) == UNION {{nodes[i].price[c]: c \in DOMAIN nodes[i].price}: i \in DOMAIN nodes}

\* The least positive price, 0 for none.
ReduceJobSetCost(nodes) ==
    LET prices == {p \in Walk(nodes): p > 0}
    IN  IF prices = {} THEN 0 ELSE Hundredths(CHOOSE p \in prices: \A q \in prices: p <= q)
=============================================================================

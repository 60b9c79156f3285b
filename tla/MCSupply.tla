------------------------------ MODULE MCSupply ------------------------------
(* One registration row and two slots for it, one request at a time beside  *)
(* the worker's loop; a gift, an activation of two endpoints, one of one.    *)
EXTENDS Supply

CONSTANTS g1, b1, b2, soul, kling

Act(id, bundle, models) == [id |-> id, bundle |-> bundle, models |-> models]
TheGrants == <<Act(b1, "all_above", <<soul, kling>>), Act(b2, "one", <<kling>>)>>
=============================================================================

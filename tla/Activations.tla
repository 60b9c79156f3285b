---------------------------- MODULE Activations ----------------------------
(* The rows FetchUnlimActivations makes of upstream's list: one per        *)
(* unlocked endpoint, keyed by the bundle, and by bundle and endpoint when *)
(* a bundle unlocks several.  An activation that unlocks nothing has none. *)
EXTENDS Naturals, SequencesExt

Row(act, i) ==
    [id |-> act.id,
     key |-> IF Len(act.models) > 1 THEN <<act.bundle, act.models[i]>> ELSE <<act.bundle>>,
     jst |-> act.models[i],
     claimed |-> act.claimed]

Flatten(acts) ==
    FlattenSeq([n \in DOMAIN acts |-> [i \in DOMAIN acts[n].models |-> Row(acts[n], i)]])

\* The primary key of account_unlim_activations takes each key once.
DistinctKeys(rows) == \A i, j \in DOMAIN rows: rows[i].key = rows[j].key => i = j
=============================================================================

------------------------------ MODULE MCAccess ------------------------------
(* A partner's key that exists and an operator's that may be created, two    *)
(* groups, two requests at once; two bearer rotations; two rate-limited keys; *)
(* two catalogue files, of which the second drops a lock and has a dead       *)
(* endpoint, three overrides, and three price tables, of which the last has   *)
(* a price that rounds to nothing; a model with prices by resolution, audio   *)
(* and mode, and purchases of whole and of odd credits.                       *)
EXTENDS Access, TLC

CONSTANTS g1, g2, r1, r2, h1, h2

Node(fields) == [t |-> "obj", f |-> fields]
Items(elements) == Node("items" :> [t |-> "arr", e |-> elements])
Id(s) == Node("id" :> Text(s))
Styles == Items({Id("noir"), Id(""), Id("film")})
Motions == [t |-> "arr", e |-> {Node("job_id" :> Text("dolly")), Id("pan")}]
Cameras == Items({Node("camera" :> Id("wide")), Node("camera" :> Id("")), Id("spare")})
TheTrees == "styles" :> Styles @@ "motions" :> Motions @@ "cameras" :> Cameras

Ref(tag, path, extractor, values) ==
    [tag |-> tag, path |-> path, json |-> path \in DOMAIN TheTrees, extractor |-> extractor, values |-> values]
Model(alias, jst, flags, ref) == [alias |-> alias, jst |-> jst, flags |-> flags, cost |-> 5, ref |-> ref]
Mini == Model("mini", "sd_mini", {}, Ref("catalogs", "cameras", <<"item", "camera", "id">>, {}))
Kling(flags, ref) == Model("kling", "kling", flags, ref)
Presets == Ref("catalogs", "motions", <<"item", "style">>, {})
VideoModes == Ref("literal", "", <<>>, {"std", "", "pro"})
Unlimited == [alias |-> "mini_unlimited", base |-> "mini", transparent |-> TRUE, tiered |-> TRUE,
              flags |-> {"starter_locked", "requires_paid", "requires_ultra"}]
File(models, extras) == [models |-> models, extras |-> extras, aliases |-> {Unlimited}, trees |-> TheTrees]
TheFiles == <<
    File({Mini, Kling({"starter_locked"}, Presets)}, {[alias |-> "mini", dead |-> FALSE, floor |-> "basic"]}),
    File({Mini, Kling({}, VideoModes)}, {[alias |-> "mini", dead |-> TRUE, floor |-> "free"]})>>
ThePuts == {[alias |-> "mini", set |-> {"requires_paid"}, clear |-> {}],
            [alias |-> "kling", set |-> {}, clear |-> {"starter_locked"}],
            [alias |-> "mini_unlimited", set |-> {}, clear |-> {"requires_ultra"}]}
Cost(prices, dims, within) == [price |-> prices, dims |-> dims, within |-> within]
Flat(price) == <<Cost("credits" :> price, <<>>, Item)>>
Nested == <<Cost("base_credits" :> 900 @@ "off" :> 0, "mode" :> "std", Item),
            Cost("cost_per_second" :> 175, "resolution" :> "720p", 1),
            Cost("on" :> 250, "mode" :> "pro", 1)>>
TheTariffs == <<"sd_mini" :> Flat(30) @@ "kling" :> Flat(0),
                "sd_mini" :> Flat(40) @@ "kling" :> Nested,
                "sd_mini" :> Flat(50) @@ "kling" :> Flat(4)>>

Row(res, audio, mode, unit, dur, price) ==
    [res |-> res, audio |-> audio, mode |-> mode, unit |-> unit, dur |-> dur, price |-> price]
Seen(row, estimated) == row @@ ("estimated" :> estimated)
TheObservations == <<
    Seen(Row("1080p", "", "", "per_second", 5, 20), TRUE),
    Seen(Row("1080p", "", "", "per_second", 5, 30), FALSE),
    Seen(Row("1080p", "on", "", "per_second", 5, 50), FALSE),
    Seen(Row("", "", "std", "per_request", 0, 90), FALSE)>>
ThePostings == {
    Row("1080p", "", "", "per_second", 5, 10),
    Row("1080p", "", "", "per_second", 5, 0),
    Row("1080p", "", "pro", "per_second", 10, 40),
    Row("1080p", "", "pro", "per_request", 10, 70),
    Row("720p", "off", "", "per_second", 5, 15),
    Row("", "", "", "per_request", 0, 60)}
Rule(res, audio, mode, unit, dur, credits) ==
    [res |-> res, audio |-> audio, mode |-> mode, unit |-> unit, dur |-> dur, credits |-> credits]
TheCostRules == <<
    Rule("", "", "pro", "upstream_unspecified", 10, 300),
    Rule("", "", "std", "upstream_unspecified", 10, 100),
    Rule("", "off", "pro", "per_second", 5, 300),
    Rule("", "off", "std", "per_second", 5, 100),
    Rule("1080p", "", "", "per_second", 5, 200)>>
Bought(class, promo, credits, paid) ==
    [active |-> TRUE, class |-> class, promo |-> promo, credits |-> credits, accounts |-> 1, paid |-> paid]
TheBatches == {Bought("normal", "none", 250, 20), Bought("normal", "none", 300, 60),
               Bought("normal", "first_signup", 400, 4), Bought("bug", "none", 50, 90)}

MCNameOrder == <<g1, g2>>
MCSymmetry == Permutations({r1, r2}) \cup Permutations({h1, h2})
============================================================================

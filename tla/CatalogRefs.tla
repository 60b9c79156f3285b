---------------------------- MODULE CatalogRefs ----------------------------
(* How a body template's catalogRef becomes the values of an enum           *)
(* (registry_catalogref.go, loadCatalogs).  A JSON document is a tree of    *)
(* [t |-> "obj", f |-> fields], [t |-> "arr", e |-> elements] and           *)
(* [t |-> "str", s |-> text]; a ref is what its annotation says: a tag, the *)
(* values or the path it names, and the segments after an arrow.  Elements  *)
(* and values are sets: nothing here depends on their order.                *)
EXTENDS Naturals, Sequences

Text(s) == [t |-> "str", s |-> s]
Has(node, key) == node.t = "obj" /\ key \in DOMAIN node.f
HasText(node, key) == Has(node, key) /\ node.f[key].t = "str" /\ node.f[key].s # ""
NonEmpty(texts) == texts \ {""}
Texts(nodes) == {n.s: n \in {m \in nodes: m.t = "str"}}
----------------------------------------------------------------------------
NormalizeCatalogRef(ref) ==
    LET unknown == [kind |-> "unknown", path |-> "", extractor |-> <<>>, literal |-> {}]
        values == NonEmpty(ref.values)
    IN  CASE ref.tag = "literal" /\ values # {} -> [unknown EXCEPT !.kind = "literal", !.literal = values]
          [] ref.tag = "catalogs" /\ ref.json ->
                [unknown EXCEPT !.kind = "catalog", !.path = ref.path, !.extractor = ref.extractor]
          [] OTHER -> unknown

\* "item" in a path: the node's items, or the node's own elements.
Elements(node) ==
    IF node.t = "arr" THEN node.e
    ELSE IF Has(node, "items") /\ node.f["items"].t = "arr" THEN node.f["items"].e
    ELSE {}
ExpandItems(nodes) == UNION {Elements(n): n \in nodes}

\* A key: the child of an object, and of every object in an array.
Child(node, key) == IF Has(node, key) THEN {node.f[key]} ELSE {}
Descend(nodes, key) ==
    UNION {IF n.t = "arr" THEN UNION {Child(e, key): e \in n.e} ELSE Child(n, key): n \in nodes}

\* The nodes a path reaches, after each number of its segments.
Reached(tree, path) ==
    LET at[i \in 0..Len(path)] ==
            IF i = 0 THEN {tree}
            ELSE IF path[i] = "item" THEN ExpandItems(at[i - 1]) ELSE Descend(at[i - 1], path[i])
    IN  at
ExtractFromCatalogTree(tree, path) == NonEmpty(Texts(Reached(tree, path)[Len(path)]))

\* The first of three fields that holds a text.
PickCatalogID(item) ==
    IF HasText(item, "id") THEN item.f["id"].s
    ELSE IF HasText(item, "job_id") THEN item.f["job_id"].s
    ELSE IF HasText(item, "preset_id") THEN item.f["preset_id"].s
    ELSE ""

\* {"items": [...]} or a bare array, of objects either way.
ParseCatalogIDs(tree) ==
    LET items == Elements(tree)
    IN  IF \A i \in items: i.t = "obj" THEN NonEmpty({PickCatalogID(i): i \in items}) ELSE {}

\* The enum a ref gives, over the catalogs read from disk; {} for none.
EnumOf(ref, trees) ==
    LET r == NormalizeCatalogRef(ref)
        known == r.kind = "catalog" /\ r.path \in DOMAIN trees
        walked == IF known /\ r.extractor # <<>>
                  THEN ExtractFromCatalogTree(trees[r.path], r.extractor) ELSE {}
    IN  CASE r.kind = "literal" -> r.literal
          [] known /\ walked # {} -> walked
          [] known /\ walked = {} -> ParseCatalogIDs(trees[r.path])
          [] OTHER -> {}
=============================================================================

----------------------------- MODULE GraphSchema -----------------------------
(***************************************************************************)
(* Loading and merging of the ontology's schema sets (internal/schema).    *)
(* A set is a record of its files: [version, semantics, nodes,             *)
(* particulars, edges, authority]; nodes and particulars are sequences of  *)
(* [label, layer], edges of [type, from, to], authority is a set of pairs  *)
(* <<category, label>>.  "" is a missing name.                             *)
(***************************************************************************)
EXTENDS Naturals, Sequences, SequencesExt

SupportedVersion == 2
Category == {"inventory", "scaffold", "discovered", "computed"}

\* A registry, or the error that ended its loading.
Registry(nodes, edges, semantics) ==
    [ok |-> TRUE, nodes |-> nodes, edges |-> edges, semantics |-> semantics]
Failed == [ok |-> FALSE, nodes |-> {}, edges |-> {}, semantics |-> {}]

LoadMeta(set) == IF set.version > SupportedVersion THEN Failed ELSE Registry({}, {}, {})

\* One entry after the other; an empty or repeated name ends the load.
LoadSemantics(set, reg) ==
    IF reg.ok /\ IsInjective(set.semantics) /\ "" \notin ToSet(set.semantics)
    THEN [reg EXCEPT !.semantics = ToSet(set.semantics)]
    ELSE Failed

LoadNodeDir(files, layer, reg) ==
    FoldLeft(LAMBDA r, f :
                 IF r.ok /\ f.label # "" /\ f.layer = layer /\ f.label \notin r.nodes
                 THEN [r EXCEPT !.nodes = @ \cup {f.label}]
                 ELSE Failed,
             reg, files)

LoadEdgeDir(files, reg) ==
    FoldLeft(LAMBDA r, f :
                 IF r.ok /\ f.type # "" /\ \A e \in r.edges : e.type # f.type
                 THEN [r EXCEPT !.edges = @ \cup {f}]
                 ELSE Failed,
             reg, files)

ValidateAuthority(authority) ==
    /\ \A a \in authority : a[1] \in Category
    /\ \A a, b \in authority : a[2] = b[2] => a = b

CrossValidate(reg) == \A e \in reg.edges : e.from \cup e.to \subseteq reg.nodes

LoadFiles(set) ==
    LET nodes == LoadNodeDir(set.nodes, "universal", LoadSemantics(set, LoadMeta(set)))
    IN  LoadEdgeDir(set.edges, LoadNodeDir(set.particulars, "particular", nodes))

\* A set on its own is not cross-validated: its edges may end in another set.
LoadSchemaSet(set) ==
    IF ValidateAuthority(set.authority) THEN LoadFiles(set) ELSE Failed

\* The directory of --schema-dir is; its authority is not looked at.
LoadSchema(set) ==
    LET reg == LoadFiles(set) IN IF reg.ok /\ CrossValidate(reg) THEN reg ELSE Failed

Merge(r, s) ==
    IF r.ok /\ s.ok /\ r.nodes \cap s.nodes = {}
            /\ \A e \in r.edges, f \in s.edges : e.type # f.type
    THEN Registry(r.nodes \cup s.nodes, r.edges \cup s.edges, r.semantics \cup s.semantics)
    ELSE Failed

\* Mutant: the merged result is taken as it is.
MergeSchemasUnchecked(sets) == FoldLeft(Merge, Registry({}, {}, {}), sets)

MergeSchemas(sets) ==
    LET merged == FoldLeft(Merge, Registry({}, {}, {}), sets)
    IN  IF merged.ok /\ CrossValidate(merged) THEN merged ELSE Failed

LoadMultiSchema(entries) ==
    MergeSchemas([i \in DOMAIN entries |-> LoadSchemaSet(entries[i])])

\* How the schema is given: a list in the configuration, or one set as
\* --schema-dir, a URI or a directory.
Load(how, sets) ==
    CASE how = "list" -> LoadMultiSchema(sets)
      [] how = "uri"  -> LoadSchemaSet(sets[1])
      [] how = "dir"  -> LoadSchema(sets[1])
=============================================================================

-------------------------- MODULE SupplyChainGraph --------------------------
(***************************************************************************)
(* The graph of a supply-chain run: how the steps that explore add nodes   *)
(* and links to it (supply_chain/steps/), how the Sankey payload is built  *)
(* from it and validated (supply_chain/sankey.py, models.py), the verdict, *)
(* and the merge of an expansion into the run it started from.             *)
(*                                                                         *)
(* A node id is <<type, slug>>; LabelKey maps a slug to the key under      *)
(* which labels that mean the same are merged.  A working graph is a       *)
(* record [nodes, links, evidence, warned] of two sequences, a set of      *)
(* evidence ids and whether there are warnings.                            *)
(***************************************************************************)
EXTENDS DataOperators, Functions

CONSTANTS
    LabelKey,      \* key of a slug
    NoNode,        \* parent of a root
    MaxSuppliers   \* max_suppliers_per_node of a request

Deepest == 10

NodeTypes == {"company", "product", "component", "service", "commodity", "infrastructure",
              "energy", "region", "unknown"}

ChainIds == NodeTypes \X DOMAIN LabelKey
CompanyIds == {"company"} \X DOMAIN LabelKey
ProductIds == {"product"} \X DOMAIN LabelKey

\* A node keeps its label through every merge, so its key is the key of itself.
ASSUME LabelAssumption ==
    /\ \A s \in DOMAIN LabelKey : LabelKey[s] \in DOMAIN LabelKey /\ LabelKey[LabelKey[s]] = LabelKey[s]
    /\ NoNode \notin ChainIds

ASSUME SuppliersAssumption == MaxSuppliers \in Nat

ChainNode(id, parent, depth, cites, confidence) ==
    [id |-> id, parent |-> parent, depth |-> depth, cites |-> cites, confidence |-> confidence]

\* A link is hypothesized until evidence confirms it.  Its id is made of its
\* two ends and a suffix; the bundled links have ids of their own.
EdgeSuffixes == {"requires", "supplied_by", "edge"}

ChainLink(source, target, suffix, confirmed, cites, confidence) ==
    [source |-> source, target |-> target, suffix |-> suffix, confirmed |-> confirmed,
     cites |-> cites, confidence |-> confidence]

LinkId(link) == <<link.source, link.target, link.suffix>>

NodeIds(nodes) == {n.id : n \in Range(nodes)}
LinkIds(links) == {LinkId(l) : l \in Range(links)}

ChainGraph(nodes, links, evidence, warned) ==
    [nodes |-> nodes, links |-> links, evidence |-> evidence, warned |-> warned]

NoGraph == ChainGraph(<<>>, <<>>, {}, FALSE)

\* Of several nodes or links of one id the first is added, if there is none yet.
AddNodes(old, new) ==
    old \o Selected(new, {i \in DOMAIN new : /\ new[i].id \notin NodeIds(old)
                                             /\ \A j \in 1..(i - 1) : new[j].id # new[i].id})

AddLinks(old, new) ==
    old \o Selected(new, {i \in DOMAIN new : /\ LinkId(new[i]) \notin LinkIds(old)
                                             /\ \A j \in 1..(i - 1) : LinkId(new[j]) # LinkId(new[i])})

Leading(list, most) == SubSeq(list, 1, IF Len(list) < most THEN Len(list) ELSE most)

-----------------------------------------------------------------------------
(* product_resolver and requirement_decomposer *)

ResolveProduct(graph, company, product) ==
    LET old == {i \in DOMAIN graph.nodes : graph.nodes[i].id \notin {company, product}}
        roots == <<ChainNode(company, NoNode, 0, {}, 100), ChainNode(product, company, 1, {}, 100)>>
    IN  ChainGraph(Selected(graph.nodes, old) \o roots, graph.links, graph.evidence, graph.warned)

\* Each requirement of the model or of the rules, up to ten of them; the
\* links are hypotheses.
AddRequirements(graph, product, requirements, confidence) ==
    LET asked == Leading(requirements, 10)
        nodes == [i \in DOMAIN asked |-> ChainNode(asked[i], product, 2, {}, confidence)]
        links == [i \in DOMAIN asked |-> ChainLink(product, asked[i], "requires", FALSE, {}, confidence)]
    IN  ChainGraph(AddNodes(graph.nodes, nodes), AddLinks(graph.links, links), graph.evidence, graph.warned)

\* The bundled graph of the demo product; a link is known by its two ends.
AddFixture(graph, fixture) ==
    LET known == {<<l.source, l.target>> : l \in Range(graph.links)}
        fresh == {i \in DOMAIN fixture.links : <<fixture.links[i].source, fixture.links[i].target>> \notin known}
    IN  ChainGraph(AddNodes(graph.nodes, fixture.nodes), graph.links \o Selected(fixture.links, fresh),
                   graph.evidence, graph.warned)

-----------------------------------------------------------------------------
(* supplier_discovery *)

RequirementTypes == {"component", "service", "energy", "infrastructure"}

RequirementNodes(graph) ==
    Selected(graph.nodes, {i \in DOMAIN graph.nodes : graph.nodes[i].id[1] \in RequirementTypes})

RequirementNode(graph, id) == CHOOSE n \in Range(RequirementNodes(graph)) : n.id = id

Supplier(id, requirement, cites, confidence) ==
    ChainNode(id, requirement.id, requirement.depth + 1, cites, confidence)

\* Suppliers the model proposes, [requirement, supplier], so many per
\* requirement: hypotheses, never for an unknown requirement and
\* never the seed company itself.
Considered(graph, seed, proposals) ==
    LET most == Leading(proposals, MaxSuppliers * Len(RequirementNodes(graph)))
        known == NodeIds(RequirementNodes(graph))
    IN  Selected(most, {i \in DOMAIN most : most[i].requirement \in known /\ most[i].supplier # seed})

AddProposals(graph, seed, proposals) ==
    LET rows == Considered(graph, seed, proposals)
        nodes == [i \in DOMAIN rows |->
                    Supplier(rows[i].supplier, RequirementNode(graph, rows[i].requirement), {}, 55)]
        links == [i \in DOMAIN rows |-> ChainLink(rows[i].requirement, rows[i].supplier, "supplied_by", FALSE, {}, 55)]
    IN  ChainGraph(AddNodes(graph.nodes, nodes), AddLinks(graph.links, links), graph.evidence, graph.warned)

\* What the text of a search result says: who supplies a requirement. Without
\* a URL it is not cited, and a hypothesis.
Relation(requirement, supplier, evidence, cited, sure, confidence) ==
    [requirement |-> requirement, supplier |-> supplier, evidence |-> evidence,
     cited |-> cited, sure |-> sure, confidence |-> confidence]

RelationId(r) == <<r.requirement.id, r.supplier, "supplied_by">>

\* Relations that the model reads from the snippets, [supplier, evidence,
\* quoted, url, sure, confidence]: the quote has to be in the snippet, the snippet to
\* have a URL.
Extracted(seed, requirement, relations) ==
    LET told == Selected(relations, {i \in DOMAIN relations :
                    relations[i].supplier # seed /\ relations[i].quoted /\ relations[i].url})
    IN  [i \in DOMAIN told |->
            Relation(requirement, told[i].supplier, told[i].evidence, TRUE, told[i].sure, told[i].confidence)]

\* Known companies in the search results, [supplier, evidence, url]; those
\* the model proposed, if it proposed any for the requirement.  The loop ends
\* when max_suppliers_per_node links are new.
KnownSuppliers(graph, seed, requirement, proposed, results) ==
    LET sought == {i \in DOMAIN results :
            results[i].supplier # seed /\ (proposed # {} => results[i].supplier \in proposed)}
        new == {i \in sought : /\ <<requirement.id, results[i].supplier, "supplied_by">> \notin LinkIds(graph.links)
                               /\ \A j \in sought : j < i => results[j].supplier # results[i].supplier}
        read == Selected(results, {i \in sought : Cardinality({j \in new : j < i}) < MaxSuppliers})
    IN  [i \in DOMAIN read |-> Relation(requirement, read[i].supplier, read[i].evidence, read[i].url, TRUE,
                                        IF read[i].url THEN 70 ELSE 30)]

\* One requirement: what the model extracts, else the known companies; a
\* search that fails or finds nothing tells nothing.
RelationsOf(graph, seed, requirement, proposed, found) ==
    IF ~found.searched \/ found.results = <<>> THEN <<>>
    ELSE IF found.relations # <<>> THEN Extracted(seed, requirement, found.relations)
    ELSE KnownSuppliers(graph, seed, requirement, proposed, found.results)

Highest(ratings) == CHOOSE c \in ratings : \A d \in ratings : d <= c

\* _upgrade_existing_edge_with_evidence: a link that exists is confirmed by
\* every cited relation after the one that made it, if one did, also by a
\* relation that the model calls a hypothesis.
Upgraded(link, old, relations) ==
    LET by == {i \in DOMAIN relations :
            /\ relations[i].cited /\ RelationId(relations[i]) = LinkId(link)
            /\ LinkId(link) \in LinkIds(old) \/ \E j \in 1..(i - 1) : RelationId(relations[j]) = LinkId(link)}
        ratings == {link.confidence} \cup {relations[i].confidence : i \in by}
    IN  IF by = {} THEN link
        ELSE ChainLink(link.source, link.target, link.suffix, TRUE,
                       link.cites \cup {relations[i].evidence : i \in by},
                       Highest(ratings))

\* Evidence, supplier and link of every relation.
AddRelations(graph, relations) ==
    LET nodes == [i \in DOMAIN relations |->
                    Supplier(relations[i].supplier, relations[i].requirement, {relations[i].evidence}, relations[i].confidence)]
        made == [i \in DOMAIN relations |->
                    LET r == relations[i]
                    IN  ChainLink(r.requirement.id, r.supplier, "supplied_by", r.cited /\ r.sure,
                                  IF r.cited THEN {r.evidence} ELSE {}, r.confidence)]
        links == AddLinks(graph.links, made)
    IN  ChainGraph(AddNodes(graph.nodes, nodes), [i \in DOMAIN links |-> Upgraded(links[i], graph.links, relations)],
                   graph.evidence \cup {relations[i].evidence : i \in DOMAIN relations}, graph.warned)

\* found maps a requirement to what its search and the model return; the
\* first 2 * max_suppliers_per_node requirements are searched for.  Links of
\* one requirement are no matter of another.  A search without results leaves
\* a warning, one that fails does not.
DiscoverSuppliers(graph, seed, proposals, found) ==
    LET searched == Leading(RequirementNodes(graph), 2 * MaxSuppliers)
        rows == Considered(graph, seed, proposals)
        proposed(n) == {p.supplier : p \in {q \in Range(rows) : q.requirement = n.id}}
        guessed == AddProposals(graph, seed, proposals)
        told == Chained([k \in DOMAIN searched |->
                    RelationsOf(guessed, seed, searched[k], proposed(searched[k]), found[searched[k].id])])
        linked == AddRelations(guessed, told)
        empty == \E n \in Range(searched) : found[n.id].searched /\ found[n.id].results = <<>>
    IN  ChainGraph(linked.nodes, linked.links, linked.evidence, linked.warned \/ empty)

\* evidence_normalizer: a cite of a row that is not there is a warning.
NormalizeChainEvidence(graph, rows) ==
    LET evidence == graph.evidence \cup rows
        dangling == \E l \in Range(graph.links) : l.confirmed /\ ~(l.cites \subseteq evidence)
    IN  ChainGraph(graph.nodes, graph.links, evidence, graph.warned \/ dangling)

-----------------------------------------------------------------------------
(* The Sankey payload *)

\* Where links lead from a node, in any number of steps.
ReachedFrom(links, node) ==
    LET reached[n \in 0..Cardinality(links)] ==
            IF n = 0 THEN {node}
            ELSE reached[n - 1] \cup {l.target : l \in {k \in links : k.source \in reached[n - 1]}}
    IN  reached[Cardinality(links)]

OnCycle(links, link) == link.source \in ReachedFrom(links, link.target)

Confirmed(links) == {l \in links : l.confirmed}

\* The validator of SankeyPayload.
ValidSankey(payload) ==
    LET links == Range(payload.links)
    IN  /\ \A l \in links : {l.source, l.target} \subseteq NodeIds(payload.nodes)
        /\ \A l \in links : l.source # l.target
        /\ \A l \in Confirmed(links) : ~OnCycle(Confirmed(links), l)

Canonical(id) == IF id = NoNode THEN NoNode ELSE <<id[1], LabelKey[id[2]]>>

\* The first of the most confident of some nodes.
MostConfident(nodes, some) ==
    CHOOSE i \in some :
        \A j \in some : \/ nodes[j].confidence < nodes[i].confidence
                        \/ nodes[j].confidence = nodes[i].confidence /\ i <= j

\* One node for all of a type whose labels have the same key, with the
\* evidence of all.
MergedNode(nodes, id) ==
    LET alike == {i \in DOMAIN nodes : Canonical(nodes[i].id) = id}
        best == MostConfident(nodes, alike)
    IN  ChainNode(id, Canonical(nodes[best].parent), nodes[best].depth,
                  UNION {nodes[i].cites : i \in alike}, nodes[best].confidence)

CanonicaliseNodes(nodes) ==
    Selected([i \in DOMAIN nodes |-> MergedNode(nodes, Canonical(nodes[i].id))],
             {i \in DOMAIN nodes : \A j \in 1..(i - 1) : Canonical(nodes[j].id) # Canonical(nodes[i].id)})

Below(node, anchor) ==
    ChainNode(node.id, anchor.id, IF anchor.depth + 1 < Deepest THEN anchor.depth + 1 ELSE Deepest,
              node.cites, node.confidence)

\* _repair_expansion_product_roots: a product with the label of another node
\* hangs below the first such node.
Rehung(node, nodes) ==
    LET alike == {i \in DOMAIN nodes : nodes[i].id[1] # "product" /\ nodes[i].id[2] = node.id[2]}
        anchor == nodes[CHOOSE i \in alike : \A j \in alike : i <= j]
    IN  IF node.id[1] = "product" /\ alike # {} /\ node.parent # anchor.id THEN Below(node, anchor) ELSE node

RepairProductRoots(nodes) == [i \in DOMAIN nodes |-> Rehung(nodes[i], nodes)]

Rewritten(link) ==
    ChainLink(Canonical(link.source), Canonical(link.target), link.suffix, link.confirmed, link.cites, link.confidence)

Fits(link, ids) == {link.source, link.target} \subseteq ids /\ link.source # link.target

\* Links between canonical nodes, without loops, the first of each id.
CanonicalLinks(links, ids) ==
    LET rewritten == [i \in DOMAIN links |-> Rewritten(links[i])]
        fitting == Selected(rewritten, {i \in DOMAIN links : Fits(rewritten[i], ids)})
    IN  AddLinks(<<>>, fitting)

\* Hypotheses that close a cycle, with what is confirmed and the hypotheses
\* kept before them, are dropped.
KeptLinks(links) ==
    LET seen(kept) == Confirmed(Range(links)) \cup {links[i] : i \in kept}
        kept[n \in 0..Len(links)] ==
            IF n = 0 THEN {}
            ELSE IF links[n].confirmed \/ links[n].source \notin ReachedFrom(seen(kept[n - 1]), links[n].target)
                 THEN kept[n - 1] \cup {n} ELSE kept[n - 1]
    IN  kept[Len(links)]

BuildSankey(graph) ==
    LET nodes == RepairProductRoots(CanonicaliseNodes(graph.nodes))
        links == CanonicalLinks(graph.links, NodeIds(nodes))
        dropped == \/ \E l \in Range(graph.links) : ~Fits(Rewritten(l), NodeIds(nodes))
                   \/ KeptLinks(links) # DOMAIN links
    IN  ChainGraph(nodes, Selected(links, KeptLinks(links)), graph.evidence, graph.warned \/ dropped)

\* evaluate_state; sources is how many types of source the evidence has.
EvaluateChain(payload, sources) ==
    LET links == Range(payload.links)
    IN  IF payload.nodes = <<>> \/ \E l \in Confirmed(links) : l.cites = {} THEN "fail"
        ELSE IF \/ links = {} \/ payload.warned
                \/ \E l \in links : ~l.confirmed \/ l.confidence < 50
                \/ sources < 2
             THEN "needs_review" ELSE "pass"

-----------------------------------------------------------------------------
(* _merge_expansion_subgraph: what the parent has wins, except for evidence *)

AttachedNode(node, anchor) ==
    LET deep == anchor.depth + node.depth + 1
    IN  IF node.parent = NoNode \/ node.id[1] = "product" THEN Below(node, anchor)
        ELSE ChainNode(node.id, node.parent, IF deep < Deepest THEN deep ELSE Deepest, node.cites, node.confidence)

\* Mutant: the merged graph has the evidence of the parent only.
MergeWithoutEvidence(parent, child, from) ==
    ChainGraph(AddNodes(parent.nodes, child.nodes), AddLinks(parent.links, child.links),
               parent.evidence, parent.warned \/ child.warned)

MergeExpansion(parent, child, from) ==
    LET anchors == {n \in Range(parent.nodes) : n.id = from}
        anchor == CHOOSE n \in anchors : TRUE
        nodes == IF anchors = {} THEN child.nodes
                 ELSE [i \in DOMAIN child.nodes |-> AttachedNode(child.nodes[i], anchor)]
    IN  ChainGraph(AddNodes(parent.nodes, nodes), AddLinks(parent.links, child.links),
                   parent.evidence \cup child.evidence, parent.warned \/ child.warned)
=============================================================================

--------------------------- MODULE GraphReasoning ---------------------------
(***************************************************************************)
(* The graph reasoning behind the evidence graph of a FinRisk run          *)
(* (graph_reasoning/): paths from the company that the graph has, the best *)
(* of them, and insights with the evidence that the run has normalized.    *)
(*                                                                         *)
(* An edge is [source, target, type, confidence, cites], confidence in     *)
(* percent; a path is a sequence of edges.                                 *)
(***************************************************************************)
EXTENDS Integers, FiniteSets, Sequences, SequencesExt, DataOperators

CONSTANTS
    Company,        \* node of the company
    EdgeTypes,      \* risk type -> edge types that matter to it
    TopPaths,       \* top_k_paths
    TopInsights,    \* top_k_insights
    GraphNodesOf,   \* nodes of the graph
    GraphEdgesOf,   \* edges the graph may have
    EvidenceRows    \* evidence a run may have: [id, source, credibility]

ASSUME ReasoningAssumption ==
    /\ TopPaths \in Nat /\ TopInsights \in Nat
    /\ IsFiniteSet(GraphEdgesOf) /\ \A e \in GraphEdgesOf : e.confidence \in Nat
    /\ IsFiniteSet(EvidenceRows) /\ \A r \in EvidenceRows : r.credibility \in Nat

VARIABLES
    asked,      \* the run's graph, evidence, risk types and relevant nodes
    payload     \* graph reasoning payload of the run

reasoningVars == <<asked, payload>>

MaxHops == 3
MinEdgeConfidence == 50

\* build_graph_context: the types of the filing's risks, a default without
\* any, and AFFECTS in any case.
AllowedEdges(riskTypes) ==
    LET allowed == UNION {EdgeTypes[t] : t \in riskTypes \cap DOMAIN EdgeTypes}
    IN  {"AFFECTS"} \cup (IF allowed = {} THEN {"DEPENDS_ON", "LOCATED_IN", "EXPOSED_TO", "ISSUES"} ELSE allowed)

NodesOf(path) == {Company} \cup {path[i].target : i \in DOMAIN path}

EndOf(path) == IF path = <<>> THEN Company ELSE path[Len(path)].target

\* The depth-first search, as paths of n edges from those of n - 1.
PathsUpTo(edges, nodes, allowed, hops) ==
    LET Passable(e) == e.type \in allowed /\ e.confidence >= MinEdgeConfidence /\ e.target \in nodes
        Extended(path) ==
            {Append(path, e) : e \in {e \in edges :
                Passable(e) /\ e.source = EndOf(path) /\ e.target \notin NodesOf(path)}}
        P[n \in 0..hops] == IF n = 0 THEN {<<>>} ELSE UNION {Extended(path) : path \in P[n - 1]}
    IN  UNION {P[n] : n \in 1..hops}

RetrieveCandidatePaths(edges, nodes, allowed) ==
    IF Company \in nodes THEN PathsUpTo(edges, nodes, allowed, MaxHops) ELSE {}

-----------------------------------------------------------------------------
(* Scores in 1/10000; relevant nodes have a label in the analysis goal *)

PathCites(path) == UNION {path[i].cites : i \in DOMAIN path}

Average(total, n) == IF n = 0 THEN 0 ELSE total \div n

ScorePath(path, rows, relevant) ==
    LET cited == {r \in rows : r.id \in PathCites(path)}
        covered == Cardinality({i \in DOMAIN path : path[i].cites # {}})
        weakest == Min({path[i].confidence : i \in DOMAIN path})
        novel == \E r \in cited : r.source \in {"web", "transcript", "graph"}
    IN  25 * Average(100 * covered, Len(path)) + 20 * weakest
        + 20 * Average(100 * Cardinality(NodesOf(path) \cap relevant), Len(path) + 1)
        + 15 * Average(Total(cited, [r \in cited |-> r.credibility]), Cardinality(cited))
        + (IF novel THEN 1000 ELSE 0) + 333

RankPaths(paths, rows, relevant) ==
    Ranked(paths, [path \in paths |-> ScorePath(path, rows, relevant)], TopPaths)

-----------------------------------------------------------------------------
(* Insights *)

Resolved(path, rows) == PathCites(path) \cap {r.id : r \in rows}

\* Edges whose evidence the run does not have.
HypothesisEdges(path, rows) == {i \in DOMAIN path : Resolved(<<path[i]>>, rows) = {}}

\* Mutant: an insight cites what its path cites, found or not.
InterpretUnbound(path, rows, relevant) ==
    [path |-> path, affected |-> EndOf(path), cites |-> PathCites(path),
     confidence |-> ScorePath(path, rows, relevant)]

Interpret(path, rows, relevant) ==
    [path |-> path, affected |-> EndOf(path), cites |-> Resolved(path, rows),
     confidence |-> ScorePath(path, rows, relevant)]

InterpretPaths(paths, rows, relevant) ==
    LET n == IF Len(paths) < TopInsights THEN Len(paths) ELSE TopInsights
    IN  [i \in 1..n |-> Interpret(paths[i], rows, relevant)]

\* validate_insight: blockers and warnings, which are shown with the payload
\* and do not enter the evaluation of the step.
InsightBlockers(insight, rows, paths) ==
    (IF insight.path \notin Range(paths) THEN {"missing path"} ELSE {})
        \cup (IF insight.affected \notin NodesOf(insight.path) THEN {"foreign entity"} ELSE {})
        \cup (IF insight.cites \subseteq {r.id : r \in rows} THEN {} ELSE {"missing evidence"})
        \cup (IF Len(insight.path) \in 2..4 THEN {} ELSE {"hops"})

InsightWarnings(insight, rows) ==
    IF HypothesisEdges(insight.path, rows) = {} THEN {} ELSE {"hypothesis"}

NoPayload == [paths |-> <<>>, insights |-> <<>>, blockers |-> {}, warnings |-> {}]

\* GraphReasoningSubsystem.run; a backend that raises leaves a warning.
ReasonOver(edges, nodes, riskTypes, rows, relevant) ==
    LET paths == RankPaths(RetrieveCandidatePaths(edges, nodes, AllowedEdges(riskTypes)), rows, relevant)
        insights == InterpretPaths(paths, rows, relevant)
    IN  [paths |-> paths, insights |-> insights,
         blockers |-> UNION {InsightBlockers(insights[i], rows, paths) : i \in DOMAIN insights},
         warnings |-> UNION {InsightWarnings(insights[i], rows) : i \in DOMAIN insights}]

BackendRaised == [NoPayload EXCEPT !.warnings = {"retriever failed"}]

-----------------------------------------------------------------------------
(* The step: what a run has chosen by then, and the payload for it *)

ReasoningInit ==
    /\ asked = [edges |-> {}, rows |-> {}, riskTypes |-> {}, relevant |-> {}]
    /\ payload = NoPayload

\* Workflow.run has filing risks and normalized evidence by now.
ChooseRun ==
    /\ asked.edges = {}
    /\ \E edges \in SUBSET GraphEdgesOf \ {{}}, rows \in SUBSET EvidenceRows,
          types \in SUBSET DOMAIN EdgeTypes, relevant \in SUBSET GraphNodesOf :
           asked' = [edges |-> edges, rows |-> rows, riskTypes |-> types, relevant |-> relevant]
    /\ UNCHANGED payload

ReasonOnGraph ==
    /\ asked.edges # {}
    /\ payload = NoPayload
    /\ payload' \in {ReasonOver(asked.edges, GraphNodesOf, asked.riskTypes, asked.rows, asked.relevant),
                    BackendRaised}
    /\ UNCHANGED asked

ReasoningNext == ChooseRun \/ ReasonOnGraph

ReasoningSpec == ReasoningInit /\ [][ReasoningNext]_reasoningVars

-----------------------------------------------------------------------------
(* What the evidence graph of a report may show *)

\* A way through the graph from the company that never meets a node twice.
IsWay(path) ==
    /\ Len(path) \in 1..MaxHops
    /\ path[1].source = Company
    /\ \A i \in 2..Len(path) : path[i].source = path[i - 1].target
    /\ Cardinality(NodesOf(path)) = Len(path) + 1
    /\ \A i \in DOMAIN path : path[i] \in asked.edges /\ path[i].confidence >= MinEdgeConfidence

\* Of an insight: it cites evidence the run has, an edge without any is
\* flagged as a hypothesis, and the one objection left is a path of one hop.
ReasoningHolds ==
    /\ \A i \in DOMAIN payload.paths : IsWay(payload.paths[i])
    /\ \A i \in DOMAIN payload.insights :
           LET insight == payload.insights[i] IN
           /\ insight.path \in Range(payload.paths)
           /\ insight.cites \subseteq {r.id : r \in asked.rows}
           /\ insight.cites = {} => payload.warnings # {}
    /\ payload.blockers \subseteq {"hops"}
=============================================================================

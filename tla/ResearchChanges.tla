-------------------------- MODULE ResearchChanges --------------------------
(***************************************************************************)
(* What is reported as changed between two research snapshots of a company *)
(* (research/change_detection.py) and between two of its earnings calls    *)
(* (research/management_snapshot.py).  A snapshot is                       *)
(*   [points, calls, risks, components, sources, asOf]                     *)
(* where points and calls hold at most one element, the financial or the   *)
(* management component, and none when the component is missing.           *)
(* No reader here asks for stale sources; WatchlistMonitor, which does,    *)
(* models those, on single values.                                         *)
(***************************************************************************)
EXTENDS Integers, Sequences, FiniteSets

NoValue == <<"none">>

\* change_id is a digest of all that is said, so the record is its own id.
Changed(category, key, status, materiality, before, after, beforeCites, afterCites) ==
    [category |-> category, key |-> key, status |-> status, materiality |-> materiality,
     before |-> before, after |-> after, beforeCites |-> beforeCites, afterCites |-> afterCites]

\* High materiality needs evidence on both sides.
EvidenceSafe(materiality, before, after) ==
    IF materiality = "high" /\ (before = {} \/ after = {}) THEN "unknown" ELSE materiality
-----------------------------------------------------------------------------
(* Financial changes: of the latest point of a metric and a kind of period *)

\* points is {} or one set of [metric, kind, end, filed, value, sources].
LatestPoints(points) ==
    {p \in points : /\ p.kind \in {"quarter", "annual", "ttm"}
                    /\ \A q \in points \ {p} : (q.metric = p.metric /\ q.kind = p.kind) =>
                          q.end < p.end \/ (q.end = p.end /\ q.filed < p.filed)}

\* Against the size of the old value: from a tenth on high, from a twentieth on medium.
NumericMateriality(old, new) ==
    LET size(x) == IF x < 0 THEN -x ELSE x IN
    IF old = 0 THEN "unknown"
    ELSE IF 10 * size(new - old) >= size(old) THEN "high"
    ELSE IF 20 * size(new - old) >= size(old) THEN "medium"
    ELSE "low"

PointValue(p) == <<"point", p.value, p.end>>

FinancialPair(old, new) ==
    Changed("financial", <<new.metric, new.kind>>, IF new.value > old.value THEN "strengthened" ELSE "weakened",
            EvidenceSafe(NumericMateriality(old.value, new.value), old.sources, new.sources),
            PointValue(old), PointValue(new), old.sources, new.sources)

\* A metric that is gone is not reported, nor anything against a missing component.
FinancialChanges(previous, current) ==
    UNION {UNION {
        LET olds == LatestPoints(before)
            news == LatestPoints(after)
            same(p, q) == p.metric = q.metric /\ p.kind = q.kind IN
        {Changed("financial", <<p.metric, p.kind>>, "new", "unknown", NoValue, PointValue(p), {}, p.sources) :
             p \in {q \in news : \A r \in olds : ~same(q, r)}}
        \cup {FinancialPair(pair[1], pair[2]) :
             pair \in {both \in olds \X news : same(both[1], both[2]) /\ both[1].value # both[2].value}}
        : before \in previous.points} : after \in current.points}
-----------------------------------------------------------------------------
(* Management changes: of the tones, the levels and the topics of both calls. *)
(* A call is [tones, levels, topics, cites].  Guidance ranges stay out: no    *)
(* code fills them.                                                           *)

Tones == {"overall_tone", "prepared_remarks_tone", "qa_tone", "guidance_signal"}
Levels == {"uncertainty", "defensiveness"}

\* Only negative, neutral and positive have an order.
ToneDirection(before, after) ==
    LET score == [negative |-> 1, neutral |-> 2, positive |-> 3] IN
    CASE {before, after} \subseteq DOMAIN score /\ score[after] > score[before] -> "strengthened"
      [] {before, after} \subseteq DOMAIN score /\ score[after] < score[before] -> "weakened"
      [] OTHER -> "persistent"

Signal(dimension, status, before, after, cites) ==
    LET category == IF dimension = "guidance_signal" THEN "guidance" ELSE "management" IN
    Changed(category, <<dimension>>, status,
            EvidenceSafe(IF category = "guidance" THEN "high" ELSE "medium", cites, cites), before, after, cites, cites)

\* Mutant: only a level that rises is seen.
LevelRises(before, after) == after - before >= 5

\* Levels in percent; a difference below five points is none.
LevelMoves(before, after) == (IF after > before THEN after - before ELSE before - after) >= 5

ToneChanges(old, new) ==
    {Signal(d, ToneDirection(old.tones[d], new.tones[d]), <<"tone", old.tones[d]>>, <<"tone", new.tones[d]>>,
            old.cites \cup new.cites) :
         d \in {t \in Tones : old.tones[t] # new.tones[t]}}

LevelChanges(old, new) ==
    {Signal(d, IF new.levels[d] > old.levels[d] THEN "strengthened" ELSE "weakened",
            <<"level", old.levels[d]>>, <<"level", new.levels[d]>>, old.cites \cup new.cites) :
         d \in {v \in Levels : LevelMoves(old.levels[v], new.levels[v])}}

TopicChanges(old, new) ==
    {Signal(d, ToneDirection(old.topics[d], new.topics[d]), <<"topic", old.topics[d]>>, <<"topic", new.topics[d]>>,
            old.cites \cup new.cites) :
         d \in {t \in DOMAIN old.topics \cap DOMAIN new.topics : old.topics[t] # new.topics[t]}}

CallChanges(old, new) == ToneChanges(old, new) \cup LevelChanges(old, new) \cup TopicChanges(old, new)

ManagementChanges(previous, current) ==
    UNION {UNION {CallChanges(old, new) : old \in previous.calls} : new \in current.calls}
-----------------------------------------------------------------------------
(* Risks, evidence and sources *)

\* Risks are compared when both snapshots could say what theirs are.
ComponentComparable(snapshot, component) ==
    component \in DOMAIN snapshot.components => snapshot.components[component] \in {"complete", "partial"}

\* risks is a function from ids to [status, severity, cites].
RiskChanges(previous, current) ==
    LET olds == DOMAIN previous.risks
        news == DOMAIN current.risks
        moved == {"strengthened", "weakened", "resolved"}
        value(row) == <<"risk", row.status, row.severity>>
        both == {r \in olds \cap news : previous.risks[r] # current.risks[r]}
        change(r, status, before, after, beforeCites, afterCites) ==
            Changed("risk", <<r>>, status, "medium", before, after, beforeCites, afterCites) IN
    IF ~ComponentComparable(previous, "risks") \/ ~ComponentComparable(current, "risks") THEN {}
    ELSE {change(r, "new", NoValue, value(current.risks[r]), {}, current.risks[r].cites) : r \in news \ olds}
         \cup {change(r, "resolved", value(previous.risks[r]), NoValue, previous.risks[r].cites, {}) : r \in olds \ news}
         \cup {change(r, IF current.risks[r].status \in moved THEN current.risks[r].status ELSE "persistent",
                      value(previous.risks[r]), value(current.risks[r]), previous.risks[r].cites, current.risks[r].cites) :
               r \in both}

SourceIds(snapshot) == {s.id : s \in snapshot.sources}

\* Sources are missed only when no component failed and fewer are left.
EvidenceChanges(previous, current) ==
    LET before == SourceIds(previous)
        after == SourceIds(current) IN
    IF \/ \E c \in DOMAIN current.components : current.components[c] \in {"failed", "unavailable"}
       \/ before \subseteq after \/ Cardinality(after) >= Cardinality(before)
    THEN {}
    ELSE {Changed("evidence", <<"source_coverage">>, "weakened", "unknown", <<"sources", Cardinality(before), {}>>,
                  <<"sources", Cardinality(after), before \ after>>, before, after)}

\* Sources of one fact that do not give one value; fact = "none" has none.
Conflicts(snapshot, fact) ==
    LET rows == {s \in snapshot.sources : s.fact = fact /\ fact # "none"} IN
    IF Cardinality({s.value : s \in rows}) > 1 THEN rows ELSE {}

ConflictChanges(previous, current) ==
    LET values(rows) == IF rows = {} THEN NoValue ELSE <<"values", {<<s.id, s.value>> : s \in rows}>>
        ids(rows) == {s.id : s \in rows} IN
    {LET old == Conflicts(previous, fact)
         new == Conflicts(current, fact) IN
     Changed("evidence", <<"source_conflict", fact>>, IF old = {} THEN "new" ELSE "persistent", "unknown",
             values(old), values(new), ids(old), ids(new)) :
        fact \in {f \in {s.fact : s \in current.sources} : Conflicts(current, f) # {}}}

DetectResearchChanges(previous, current) ==
    FinancialChanges(previous, current) \cup ManagementChanges(previous, current)
    \cup RiskChanges(previous, current) \cup EvidenceChanges(previous, current)
    \cup ConflictChanges(previous, current)

\* A component that was there and failed is a warning, not a change.
ComparisonWarnings(previous, current) ==
    {c \in DOMAIN current.components :
        /\ current.components[c] \in {"failed", "unavailable"}
        /\ c \in DOMAIN previous.components /\ previous.components[c] \in {"complete", "partial"}}
=============================================================================

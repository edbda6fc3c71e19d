-------------------------- MODULE FinRiskEvidence --------------------------
(***************************************************************************)
(* What the steps of a FinRisk workflow compute from its risks and market  *)
(* evidence (see FinRiskSources), as pure operators: normalized evidence,  *)
(* scores, lifecycles, insights, the report with its claims, the findings  *)
(* of the validators and the final verdict.                                *)
(*                                                                         *)
(* The evidence table is a set of rows [id, type, url, risks, supports,    *)
(* contradicts, abated, credibility].  An insight is the sequence of the   *)
(* evidence ids it cites.                                                  *)
(***************************************************************************)
EXTENDS FinRiskSources

Capped(n, top) == Min({n, top})

-----------------------------------------------------------------------------
(* evidence_normalizer *)

Normalized(id) == <<"ne">> \o id

FilingRow(id) ==
    [id |-> Normalized(id), type |-> "filing", url |-> <<"type:filing">>,
     risks |-> {id}, supports |-> FALSE, contradicts |-> FALSE, abated |-> FALSE,
     credibility |-> 90]

MarketRow(e) ==
    [id |-> Normalized(e.id), type |-> "web", url |-> e.url,
     risks |-> {e.risk} \ {NoRisk}, supports |-> e.supports,
     contradicts |-> ~e.supports, abated |-> e.abated, credibility |-> e.confidence]

\* Market evidence that takes a side, the first of each URL.
Kept(market) ==
    LET sided == {i \in DOMAIN market : market[i].supports \/ market[i].contradicts}
    IN  {i \in sided : \A j \in sided : j < i => market[j].url # market[i].url}

NormalizeEvidence(risks, market) ==
    {FilingRow(id) : id \in Ids(risks)} \cup {MarketRow(market[i]) : i \in Kept(market)}

RowIds(rows) == {e.id : e \in rows}
Related(id, rows) == {e \in rows : id \in e.risks}
Types(rows) == {e.type : e \in rows}
Webs(rows) == {e \in rows : e.type = "web"}

-----------------------------------------------------------------------------
(* risk_scorer *)

\* Mean credibility in hundredths, less 20 when only a contradiction takes a side.
EvidenceQuality(rows) ==
    IF rows = {} THEN 0
    ELSE LET mean == MapThenSumSet(LAMBDA e : e.credibility, rows) \div Cardinality(rows)
             refuted == (\E e \in rows : e.contradicts) /\ ~(\E e \in rows : e.supports)
         IN  Max({0, Capped(mean - (IF refuted THEN 20 ELSE 0), 100)})

\* final_score in units of 1/60000: weights .35, .25, .20 and .10.
ComputeRiskScore(risk, rows) ==
    LET related == Related(risk.id, rows)
    IN  4200 * risk.severity + 7500 * Capped(Cardinality(Webs(related)), 2)
            + 120 * EvidenceQuality(related) + 2000 * Capped(Cardinality(Types(related)), 3)

\* The same on the 0-100 scale of the report, in units of 1/27 of a point:
\* novelty is not available, graph centrality is zero, .90 of weight is left.
ComputeRiskScoreV16(risk, rows) ==
    LET related == Related(risk.id, rows)
    IN  225 * (risk.severity - 1) + 300 * Capped(Cardinality(Webs(related)), 2)
            + 6 * EvidenceQuality(related) + 100 * Capped(Cardinality(Types(related)), 3)

\* The scores by risk id: the first risk with an id gives it its score.
ScoreRisks(risks, rows) ==
    [id \in Ids(risks) |->
        ComputeRiskScore(risks[SelectInSeq(risks, LAMBDA r : r.id = id)], rows)]

-----------------------------------------------------------------------------
(* lifecycle_classifier: rows carry no publication date and risks always a *)
(* quote, which leaves two of its four outcomes.                           *)

ClassifyLifecycles(risks, rows) ==
    [id \in Ids(risks) |-> IF \E e \in Webs(rows) : e.abated THEN "receding" ELSE "unknown"]

-----------------------------------------------------------------------------
(* graph_reasoner: a citation is <<"raw">> \o id in a fixture *)

\* Raw ids of known risks and market evidence become row ids.
Translate(insights, risks, market) ==
    LET known == Ids(risks) \cup Ids(market)
        Row(cite) == IF Head(cite) = "raw" /\ Tail(cite) \in known
                     THEN Normalized(Tail(cite)) ELSE cite
    IN  [k \in DOMAIN insights |-> [c \in DOMAIN insights[k] |-> Row(insights[k][c])]]

\* The agent finds no path, or one; without it, a path from the first risk.
ReasonLive(risks) ==
    LET CitesOf(n) == [i \in DOMAIN FirstOf(risks, n) |-> Normalized(risks[i].id)]
    IN  {<<>>, <<CitesOf(3)>>} \cup {IF risks = <<>> THEN <<>> ELSE <<CitesOf(1)>>}

-----------------------------------------------------------------------------
(* report_generator *)

\* The positions of the five best scores, ties in the order of the risks.
TopFive(risks, scores) ==
    LET Score(i) == IF risks[i].id \in DOMAIN scores THEN scores[risks[i].id] ELSE 0
        Ahead(j, i) == Score(j) > Score(i) \/ (Score(j) = Score(i) /\ j < i)
    IN  {i \in DOMAIN risks : Cardinality({j \in DOMAIN risks : Ahead(j, i)}) < 5}

\* Those with evidence: risks no row is about are dropped.
TopRisks(risks, scores, rows) ==
    {risks[i].id : i \in {k \in TopFive(risks, scores) : Related(risks[k].id, rows) # {}}}

RiskClaims(top, rows) ==
    {[risks |-> {id}, cites |-> RowIds(Related(id, rows))] : id \in top}

\* One more claim when there are insights: it cites what the first of them
\* that cites anything cites first.
HypothesisClaims(insights, rows) ==
    LET k == SelectInSeq(insights, LAMBDA ins : ins # <<>>)
        cites == IF k = 0 THEN {} ELSE {Head(insights[k])}
    IN  IF insights = <<>> THEN {}
        ELSE {[risks |-> UNION {e.risks : e \in {r \in rows : r.id \in cites}}, cites |-> cites]}

-----------------------------------------------------------------------------
(* The validators of the quality gate *)

EvidenceGateAfter == {"evidence_normalizer", "risk_scorer", "report_generator", "evaluator"}

EvidenceBlocked(step, w) ==
    step \in EvidenceGateAfter /\ \E id \in Ids(w.risks) : Related(id, w.rows) = {}

\* The ids of top risks are looked for among those of evidence rows.
EvidenceWarned(w) == ~(w.report.top \subseteq RowIds(w.rows))

ClaimBlocked(claim, w) ==
    \/ claim.cites = {}
    \/ ~(claim.cites \subseteq RowIds(w.rows))
    \/ w.risks # <<>> /\ (claim.risks = {} \/ ~(claim.risks \subseteq Ids(w.risks)))

ClaimWarned(claim, w) ==
    LET cited == UNION {e.risks : e \in {r \in w.rows : r.id \in claim.cites}}
    IN  cited # {} /\ ~(claim.risks \subseteq cited)

\* No filing among the rows, or more than three rows and half of all from one domain.
SourceWarned(rows) ==
    /\ rows # {}
    /\ \/ "filing" \notin Types(rows)
       \/ \E e \in rows :
            LET same == {r \in rows : r.url[1] = e.url[1]}
            IN  Cardinality(same) > 3 /\ 2 * Cardinality(same) > Cardinality(rows)

Blocked(step, w) ==
    EvidenceBlocked(step, w) \/ \E claim \in w.claims : ClaimBlocked(claim, w)

\* Hard advice is an error, which is neither a blocker nor a warning.
Warned(w) ==
    \/ EvidenceWarned(w)
    \/ \E claim \in w.claims : ClaimWarned(claim, w)
    \/ SourceWarned(w.rows)
    \/ w.report.advice = "soft"

-----------------------------------------------------------------------------
(* evaluate_workflow_state *)

\* Fewer kinds of sources than a fifth of the rows.
Diverse(rows) == rows # {} /\ 5 * Cardinality(Types(rows)) >= Cardinality(rows)

CitesOfReport(report) ==
    UNION {ToSet(report.insights[k]) : k \in DOMAIN report.insights}

\* Mutant: the cites of the insights are not looked at.
EvaluateRisksOnly(report) ==
    IF ~report.made \/ report.advice = "hard" \/ report.top = {} THEN "fail"
    ELSE IF report.advice = "soft" \/ ~Diverse(report.rows) THEN "needs_review" ELSE "pass"

EvaluateWorkflowState(report) ==
    IF \/ ~report.made
       \/ report.advice = "hard"
       \/ report.top = {}
       \/ \E id \in report.top : Related(id, report.rows) = {}
       \/ ~(CitesOfReport(report) \subseteq RowIds(report.rows))
    THEN "fail"
    ELSE IF report.advice = "soft" \/ ~Diverse(report.rows) \/ ~report.scored
    THEN "needs_review"
    ELSE "pass"
=============================================================================

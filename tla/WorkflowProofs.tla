--------------------------- MODULE WorkflowProofs ---------------------------
(***************************************************************************)
(* Proofs about FinRiskWorkflow, for any fixtures, filings, tool events    *)
(* and pages, and any number of faults; about the graph reasoning          *)
(* behind its report (GraphReasoning), for any graph and evidence; about   *)
(* the command line's report (CompanyAnalysis), for any texts; and about   *)
(* supply-chain runs (SupplyChainRuns), for any fixture, decompositions,   *)
(* proposals and findings, and any number of runs.                         *)
(***************************************************************************)
EXTENDS FinRiskWorkflow, GraphReasoning, CompanyAnalysis, SupplyChainRuns, DataInduction

Fields == {"status", "demo", "gated", "company", "risks", "market", "rows", "scores",
           "lifecycles", "insights", "report", "claims", "v16", "verdict", "trace",
           "evaluations", "summary"}

Verdicts == {"none", "pass", "needs_review", "fail"}
Traces == {"none", "completed", "failed", "skipped"}

-----------------------------------------------------------------------------
(* The steps *)

LEMMA StepsAreDistinct ==
    /\ DOMAIN Steps = 1..9 /\ Len(Steps) = 9
    /\ \A i \in 1..9 : Steps[i] \in StepNames
    /\ \A i, j \in 1..9 : Steps[i] = Steps[j] => i = j
    /\ Steps[1] = "company_resolver" /\ Steps[8] = "report_generator" /\ Steps[9] = "evaluator"
<1>1. DOMAIN Steps = 1..9 /\ Len(Steps) = 9
  BY DEF Steps
<1>2. \A i \in 1..9 : Steps[i] \in StepNames
  BY <1>1 DEF StepNames, Range
<1>3. \A i, j \in 1..9 : Steps[i] = Steps[j] => i = j
  BY DEF Steps
<1> QED
  BY <1>1, <1>2, <1>3 DEF Steps

LEMMA StepNamesAre ==
    StepNames = {"company_resolver", "filing_risk_extractor", "market_explorer",
                 "evidence_normalizer", "risk_scorer", "lifecycle_classifier",
                 "graph_reasoner", "report_generator", "evaluator"}
BY StepsAreDistinct DEF StepNames, Range, Steps

LEMMA InitialShape ==
    /\ DOMAIN Initial = Fields /\ DOMAIN NoRow = Fields
    /\ NoRow.status = "none"
    /\ NoRow.gated = TRUE
BY DEF Initial, Fields, NoRow

LEMMA WriteReportKeeps ==
    ASSUME NEW w, DOMAIN w = Fields, NEW v \in WriteReport(w)
    PROVE  /\ DOMAIN v = Fields
           /\ \A f \in Fields \ {"report"} : v[f] = w[f]
           /\ v.report.made /\ v.report.rows = w.rows
           /\ v.report.top = TopRisks(w.risks, w.scores, w.rows)
<1>1. PICK advice : v = [w EXCEPT !.report =
        [made |-> TRUE, top |-> TopRisks(w.risks, w.scores, w.rows), rows |-> w.rows,
         insights |-> w.insights, scored |-> w.scores # <<>>, advice |-> advice]]
  BY DEF WriteReport
<1> QED
  BY <1>1 DEF Fields

LEMMA WriteClaimsKeeps ==
    ASSUME NEW w, DOMAIN w = Fields, NEW v \in WriteClaims(w)
    PROVE  /\ DOMAIN v = Fields
           /\ \A f \in Fields \ {"report", "claims"} : v[f] = w[f]
           /\ v.report.made /\ v.report.rows = w.rows
           /\ v.report.top = TopRisks(w.risks, w.scores, w.rows)
<1>1. PICK u \in WriteReport(w) : \E shown : v = [u EXCEPT !.claims = shown]
  BY DEF WriteClaims
<1>2. /\ DOMAIN u = Fields
      /\ \A f \in Fields \ {"report"} : u[f] = w[f]
      /\ u.report.made /\ u.report.rows = w.rows
      /\ u.report.top = TopRisks(w.risks, w.scores, w.rows)
  BY WriteReportKeeps
<1> QED
  BY <1>1, <1>2 DEF Fields

\* What every step leaves alone when it returns, and what only some change.
LEMMA ReturnedKeeps ==
    ASSUME NEW w, DOMAIN w = Fields, NEW step \in StepNames, NEW v \in Returned(step, w)
    PROVE  /\ DOMAIN v = Fields
           /\ v.gated = w.gated /\ v.demo = w.demo /\ v.trace = w.trace
           /\ v.evaluations = w.evaluations /\ v.summary = w.summary
           /\ v.company \in {w.company, TRUE} /\ v.v16 \in {w.v16, TRUE}
           /\ step # "evaluator" => v.status = w.status /\ v.verdict = w.verdict
           /\ step # "report_generator" => v.report = w.report /\ v.claims = w.claims
           /\ step \in {"report_generator", "evaluator"} => v.rows = w.rows /\ v.risks = w.risks
           /\ step = "report_generator" =>
                /\ v.report.made /\ v.report.rows = w.rows
                /\ v.report.top = TopRisks(w.risks, w.scores, w.rows)
           /\ step = "evaluator" =>
                /\ v.verdict = EvaluateWorkflowState(w.report)
                /\ v.status = StatusOf(v.verdict)
<1>1. CASE step = "company_resolver"
  BY <1>1 DEF Returned, Resolve, Fields
<1>2. CASE step = "filing_risk_extractor"
  <2>1. v \in Extract(w)
    BY <1>2 DEF Returned
  <2>2. PICK x : v = [w EXCEPT !.risks = x]
    BY <2>1 DEF Extract
  <2> QED
    BY <1>2, <2>2 DEF Fields
<1>3. CASE step = "market_explorer"
  <2>1. v \in Explore(w)
    BY <1>3 DEF Returned
  <2>2. PICK x : v = [w EXCEPT !.market = x]
    BY <2>1 DEF Explore
  <2> QED
    BY <1>3, <2>2 DEF Fields
<1>4. CASE step = "evidence_normalizer"
  BY <1>4 DEF Returned, Normalize, Fields
<1>5. CASE step = "risk_scorer"
  BY <1>5 DEF Returned, Score, Fields
<1>6. CASE step = "lifecycle_classifier"
  BY <1>6 DEF Returned, Classify, Fields
<1>7. CASE step = "graph_reasoner"
  <2>1. v \in Reason(w)
    BY <1>7 DEF Returned
  <2>2. PICK x : v = [w EXCEPT !.insights = x]
    BY <2>1 DEF Reason
  <2> QED
    BY <1>7, <2>2 DEF Fields
<1>8. CASE step = "report_generator"
  <2>1. v \in Generate(w)
    BY <1>8 DEF Returned
  <2>2. PICK u \in WriteClaims(w) : v = [u EXCEPT !.v16 = TRUE]
    BY <2>1 DEF Generate
  <2>3. /\ DOMAIN u = Fields
        /\ \A f \in Fields \ {"report", "claims"} : u[f] = w[f]
        /\ u.report.made /\ u.report.rows = w.rows
        /\ u.report.top = TopRisks(w.risks, w.scores, w.rows)
    BY WriteClaimsKeeps
  <2> QED
    BY <1>8, <2>2, <2>3 DEF Fields
<1>9. CASE step = "evaluator"
  <2>1. v \in Evaluate(w)
    BY <1>9 DEF Returned
  <2>2. PICK verdict, status :
          /\ verdict = EvaluateWorkflowState(w.report) /\ status = StatusOf(verdict)
          /\ v = [w EXCEPT !.verdict = verdict, !.status = status]
    BY <2>1 DEF Evaluate
  <2>3. DOMAIN v = Fields /\ v.verdict = verdict /\ v.status = status
    BY <2>2 DEF Fields
  <2>4. \A f \in Fields \ {"verdict", "status"} : v[f] = w[f]
    BY <2>2 DEF Fields
  <2> QED BY <1>9, <2>2, <2>3, <2>4 DEF Fields
<1> QED
  BY <1>1, <1>2, <1>3, <1>4, <1>5, <1>6, <1>7, <1>8, <1>9, StepNamesAre

\* What an exception leaves behind: only the first step changes the status,
\* only the report generator the report, and the evaluator never raises.
LEMMA RaisedKeeps ==
    ASSUME NEW w, DOMAIN w = Fields, NEW step \in StepNames, NEW v \in Raised(step, w)
    PROVE  /\ DOMAIN v = Fields
           /\ v.gated = w.gated /\ v.demo = w.demo /\ v.trace = w.trace
           /\ v.evaluations = w.evaluations /\ v.summary = w.summary
           /\ v.company = w.company /\ v.v16 = w.v16 /\ v.verdict = w.verdict
           /\ v.rows = w.rows /\ v.risks = w.risks
           /\ v.status = IF step = "company_resolver" THEN "failed" ELSE w.status
           /\ step # "report_generator" => v.report = w.report
           /\ v.report = w.report \/ (/\ v.report.made /\ v.report.rows = w.rows
                                     /\ v.report.top = TopRisks(w.risks, w.scores, w.rows))
           /\ step # "evaluator"
<1>1. CASE step = "company_resolver"
  BY <1>1 DEF Raised, Fields
<1>2. CASE step = "report_generator"
  <2>1. v \in {w} \cup WriteReport(w) \cup WriteClaims(w)
    BY <1>2 DEF Raised
  <2>2. CASE v = w
    BY <1>2, <2>2 DEF Fields
  <2>3. CASE v \in WriteReport(w)
    BY <1>2, <2>3, WriteReportKeeps DEF Fields
  <2>4. CASE v \in WriteClaims(w)
    BY <1>2, <2>4, WriteClaimsKeeps DEF Fields
  <2> QED
    BY <2>1, <2>2, <2>3, <2>4
<1>3. CASE step \notin {"company_resolver", "report_generator"}
  BY <1>3, StepNamesAre DEF Raised
<1> QED
  BY <1>1, <1>2, <1>3

-----------------------------------------------------------------------------
(* The gate *)

\* Behind the gate a step has an evaluation, which fails it when it is blocked;
\* a blocker decides the status.  Nothing else changes.
LEMMA GateKeeps ==
    ASSUME NEW w, DOMAIN w = Fields, NEW step \in StepNames,
           w.gated \in BOOLEAN, w.evaluations \in [StepNames -> Verdicts],
           NEW raising \in BOOLEAN, NEW weak \in BOOLEAN,
           NEW u, u = Gate(step, w, raising, weak)
    PROVE  /\ DOMAIN u = Fields
           /\ \A f \in Fields \ {"status", "evaluations"} : u[f] = w[f]
           /\ u.evaluations \in [StepNames -> Verdicts]
           /\ \A s \in StepNames \ {step} : u.evaluations[s] = w.evaluations[s]
           /\ ~w.gated => u = w
           /\ w.gated /\ Blocked(step, w) => u.evaluations[step] = "fail"
           /\ u.status = IF w.gated /\ u.evaluations[step] = "fail"
                         THEN IF step \in CriticalSteps THEN "failed" ELSE "running"
                         ELSE w.status
<1> DEFINE e == EvaluateStep(step, w, raising, weak)
<1>1. PICK verdict \in {"pass", "needs_review", "fail"} :
        /\ e = [w EXCEPT !.evaluations[step] = verdict]
        /\ Blocked(step, w) => verdict = "fail"
  BY DEF EvaluateStep
<1>2. /\ DOMAIN e = Fields
      /\ \A f \in Fields \ {"evaluations"} : e[f] = w[f]
      /\ e.evaluations = [w.evaluations EXCEPT ![step] = verdict]
  BY <1>1 DEF Fields
<1>3. /\ e.evaluations \in [StepNames -> Verdicts]
      /\ e.evaluations[step] = verdict
      /\ \A s \in StepNames \ {step} : e.evaluations[s] = w.evaluations[s]
  BY <1>2 DEF Verdicts
<1> HIDE DEF e
<1>4. CASE w.gated
  <2>1. u = AfterStep(step, e)
    BY <1>4 DEF Gate, e
  <2>2. CASE e.evaluations[step] = "fail"
    <3>1. u = [e EXCEPT !.status = IF step \in CriticalSteps THEN "failed" ELSE "running"]
      BY <1>2, <1>4, <2>1, <2>2 DEF AfterStep, HasBlocker, Fields
    <3>2. u.evaluations = e.evaluations /\ u.status = IF step \in CriticalSteps THEN "failed" ELSE "running"
      BY <1>2, <3>1 DEF Fields
    <3>3. DOMAIN u = Fields /\ \A f \in Fields \ {"status", "evaluations"} : u[f] = w[f]
      BY <1>2, <3>1
    <3> QED
      BY <1>3, <1>4, <2>2, <3>2, <3>3
  <2>3. CASE e.evaluations[step] # "fail"
    <3>1. u = e
      BY <2>1, <2>3 DEF AfterStep, HasBlocker
    <3>2. DOMAIN u = Fields /\ \A f \in Fields \ {"status", "evaluations"} : u[f] = w[f]
      BY <1>2, <3>1
    <3>3. w.gated /\ Blocked(step, w) => u.evaluations[step] = "fail"
      BY <1>1, <1>3, <3>1
    <3>4. u.status = w.status
      BY <1>2, <3>1 DEF Fields
    <3> QED
      BY <1>3, <1>4, <2>3, <3>1, <3>2, <3>3, <3>4
  <2> QED
    BY <2>2, <2>3
<1>5. CASE ~w.gated
  BY <1>5 DEF Gate
<1> QED
  BY <1>4, <1>5

-----------------------------------------------------------------------------
(* The invariant of a run before its step n *)

Shape(w) ==
    /\ DOMAIN w = Fields
    /\ w.status \in Statuses
    /\ w.demo \in BOOLEAN /\ w.gated \in BOOLEAN /\ w.company \in BOOLEAN /\ w.v16 \in BOOLEAN
    /\ w.verdict \in Verdicts
    /\ w.trace \in [StepNames -> Traces]
    /\ w.evaluations \in [StepNames -> Verdicts]
    /\ w.summary \in Verdicts

\* Steps to come have left nothing; the report is of the evidence of the run.
Untouched(w, n) == \A i \in n..9 : w.trace[Steps[i]] = "none" /\ w.evaluations[Steps[i]] = "none"

ReportFits(w, n) ==
    w.report.made => n >= 9 /\ w.report.rows = w.rows /\ w.report.top \subseteq Ids(w.risks)

Shown(w) == w.status \in {"completed", "needs_review"}

Decided(w, n) ==
    /\ n <= 9 => ~Shown(w)
    /\ Shown(w) => Backed(w)
    /\ w.status = "completed" => w.verdict = "pass"

Stopping(w, i) ==
    \/ Steps[i] \in CriticalSteps /\ w.evaluations[Steps[i]] = "fail"
    \/ i = 1 /\ w.trace[Steps[i]] = "failed"

Stopped(w) ==
    \A i \in 1..9 : Stopping(w, i) =>
        /\ w.status = "failed"
        /\ \A j \in (i + 1)..9 : w.trace[Steps[j]] \in {"none", "skipped"}

Good(w, n) == Shape(w) /\ Untouched(w, n) /\ ReportFits(w, n) /\ Decided(w, n) /\ Stopped(w)

\* What a step that returns or raises hands to the gate.
Handed(w, v, n, mark) ==
    /\ DOMAIN v = Fields
    /\ v.gated = w.gated /\ v.trace = w.trace /\ v.evaluations = w.evaluations
    /\ v.summary = w.summary /\ v.status \in Statuses /\ v.verdict \in Verdicts
    /\ v.demo \in BOOLEAN /\ v.company \in BOOLEAN /\ v.v16 \in BOOLEAN
    /\ ReportFits(v, n + 1)
    /\ v.status \in {w.status} \cup Final
    /\ n < 9 => ~Shown(v)
    /\ n = 9 => v.verdict = EvaluateWorkflowState(v.report) /\ v.status = StatusOf(v.verdict)
    /\ n = 1 /\ mark = "failed" => v.status = "failed"
    /\ mark \in {"completed", "failed"}

\* A verdict that is not "fail" says that the report is backed by its own rows.
LEMMA VerdictFacts ==
    ASSUME NEW answer
    PROVE  /\ EvaluateWorkflowState(answer) \in {"pass", "needs_review", "fail"}
           /\ EvaluateWorkflowState(answer) # "fail" =>
                /\ answer.made /\ answer.top # {}
                /\ \A id \in answer.top : Related(id, answer.rows) # {}
                /\ CitesOfReport(answer) \subseteq RowIds(answer.rows)
BY DEF EvaluateWorkflowState

LEMMA GatedStepKeeps ==
    ASSUME NEW w, NEW n \in 1..9, Good(w, n), w.status # "failed",
           NEW mark, NEW v, Handed(w, v, n, mark),
           NEW raising \in BOOLEAN, NEW weak \in BOOLEAN,
           NEW u, u = Gate(Steps[n], Traced(Steps[n], v, mark), raising, weak)
    PROVE  Good(u, n + 1)
<1> DEFINE step == Steps[n]
           t == Traced(step, v, mark)
<1>1. step \in StepNames /\ \A i \in 1..9 : i # n => Steps[i] # step /\ Steps[i] \in StepNames
  BY StepsAreDistinct
<1>2. /\ DOMAIN t = Fields
      /\ \A f \in Fields \ {"trace"} : t[f] = v[f]
      /\ t.trace = [w.trace EXCEPT ![step] = mark]
  BY DEF Handed, Traced, Fields
<1>3. /\ t.trace \in [StepNames -> Traces] /\ t.trace[step] = mark
      /\ \A s \in StepNames \ {step} : t.trace[s] = w.trace[s]
  BY <1>1, <1>2 DEF Good, Shape, Handed, Traces
<1>4. /\ DOMAIN u = Fields
      /\ \A f \in Fields \ {"status", "evaluations"} : u[f] = t[f]
      /\ u.evaluations \in [StepNames -> Verdicts]
      /\ \A s \in StepNames \ {step} : u.evaluations[s] = w.evaluations[s]
      /\ ~w.gated => u.evaluations = w.evaluations
      /\ w.gated /\ Blocked(step, t) => u.evaluations[step] = "fail"
      /\ u.status = IF w.gated /\ u.evaluations[step] = "fail"
                    THEN IF step \in CriticalSteps THEN "failed" ELSE "running"
                    ELSE v.status
  <2>1. t.gated = w.gated /\ t.evaluations = w.evaluations /\ t.status = v.status
    BY <1>2 DEF Handed, Fields
  <2>2. t.gated \in BOOLEAN /\ t.evaluations \in [StepNames -> Verdicts]
    BY <2>1 DEF Good, Shape
  <2> HIDE DEF t, step
  <2>3. u = Gate(step, t, raising, weak)
    BY DEF t, step
  <2>4. /\ DOMAIN u = Fields
        /\ \A f \in Fields \ {"status", "evaluations"} : u[f] = t[f]
        /\ u.evaluations \in [StepNames -> Verdicts]
        /\ \A s \in StepNames \ {step} : u.evaluations[s] = t.evaluations[s]
        /\ ~t.gated => u = t
        /\ t.gated /\ Blocked(step, t) => u.evaluations[step] = "fail"
        /\ u.status = IF t.gated /\ u.evaluations[step] = "fail"
                      THEN IF step \in CriticalSteps THEN "failed" ELSE "running"
                      ELSE t.status
    BY <1>1, <1>2, <2>2, <2>3, GateKeeps, SMTT(30)
  <2> QED
    BY <2>1, <2>4
<1> HIDE DEF t
<1>5. Shape(u)
  <2>1. /\ u.demo = v.demo /\ u.gated = w.gated /\ u.company = v.company /\ u.v16 = v.v16
        /\ u.verdict = v.verdict /\ u.summary = w.summary /\ u.trace = t.trace
    BY <1>2, <1>4 DEF Handed, Fields
  <2>2. u.status \in {"failed", "running", v.status}
    BY <1>4
  <2>3. u.status \in Statuses
    BY <2>2 DEF Handed, Statuses, Final
  <2> QED
    BY <1>3, <1>4, <2>1, <2>3 DEF Shape, Good, Handed
<1>6. Untouched(u, n + 1)
  <2> SUFFICES ASSUME NEW i \in (n + 1)..9
               PROVE  u.trace[Steps[i]] = "none" /\ u.evaluations[Steps[i]] = "none"
    BY DEF Untouched
  <2>1. i \in 1..9 /\ i # n /\ i \in n..9
    OBVIOUS
  <2>2. Steps[i] \in StepNames \ {step} /\ w.trace[Steps[i]] = "none" /\ w.evaluations[Steps[i]] = "none"
    BY <1>1, <2>1 DEF Good, Untouched
  <2> QED
    BY <1>3, <1>4, <2>2 DEF Fields
<1>7. ReportFits(u, n + 1)
  BY <1>2, <1>4 DEF Handed, ReportFits, Fields
<1>8. Decided(u, n + 1)
  <2>1. CASE n < 9
    BY <1>4, <2>1 DEF Handed, Decided, Shown
  <2>2. CASE n = 9
    <3>1. step = "evaluator" /\ step \in CriticalSteps
      BY <2>2, StepsAreDistinct, StepNamesAre DEF CriticalSteps
    <3> SUFFICES ASSUME Shown(u)
                 PROVE  Backed(u) /\ (u.status = "completed" => u.verdict = "pass")
      BY <2>2 DEF Decided, Shown
    <3>2. u.status = v.status /\ (w.gated => ~Blocked(step, t))
      BY <1>4, <3>1 DEF Shown
    <3>3. v.verdict = EvaluateWorkflowState(v.report) /\ v.status = StatusOf(v.verdict)
      BY <2>2 DEF Handed
    <3>4. v.verdict \in {"pass", "needs_review"} /\ (v.status = "completed" => v.verdict = "pass")
      BY <3>2, <3>3, VerdictFacts DEF Shown, StatusOf
    <3>5. /\ v.report.made /\ v.report.top # {}
          /\ \A id \in v.report.top : Related(id, v.report.rows) # {}
          /\ CitesOfReport(v.report) \subseteq RowIds(v.report.rows)
      BY <3>3, <3>4, VerdictFacts
    <3>6. v.report.rows = v.rows /\ v.report.top \subseteq Ids(v.risks)
      BY <3>5 DEF Handed, ReportFits
    <3>7. v.risks # <<>>
      BY <3>5, <3>6 DEF Ids
    <3>8. /\ u.report = v.report /\ u.rows = v.rows /\ u.risks = v.risks /\ u.claims = t.claims
          /\ t.rows = v.rows /\ t.risks = v.risks /\ u.gated = w.gated /\ u.verdict = v.verdict
      BY <1>2, <1>4 DEF Handed, Fields
    <3>9. w.gated => \A claim \in u.claims :
            /\ claim.cites # {} /\ claim.cites \subseteq RowIds(u.rows)
            /\ claim.risks # {} /\ claim.risks \subseteq Ids(u.risks)
      BY <3>2, <3>7, <3>8 DEF Blocked, ClaimBlocked
    <3>10. Backed(u)
      BY <3>5, <3>6, <3>8, <3>9 DEF Backed
    <3> QED
      BY <3>2, <3>4, <3>8, <3>10
  <2> QED
    BY <2>1, <2>2
<1>9. Stopped(u)
  <2> SUFFICES ASSUME NEW i \in 1..9, Stopping(u, i)
               PROVE  /\ u.status = "failed"
                      /\ \A j \in (i + 1)..9 : u.trace[Steps[j]] \in {"none", "skipped"}
    BY DEF Stopped
  <2>1. i = n
    <3>1. SUFFICES ASSUME i # n PROVE FALSE
      OBVIOUS
    <3>2. u.trace[Steps[i]] = w.trace[Steps[i]] /\ u.evaluations[Steps[i]] = w.evaluations[Steps[i]]
      BY <1>1, <1>3, <1>4, <3>1 DEF Fields
    <3>3. Stopping(w, i)
      BY <3>2 DEF Stopping
    <3> QED
      BY <3>3 DEF Good, Stopped
  <2>2. u.status = "failed"
    <3>1. CASE Steps[i] \in CriticalSteps /\ u.evaluations[Steps[i]] = "fail"
      <4>1. w.gated
        <5>1. w.evaluations[Steps[n]] = "none"
          BY DEF Good, Untouched
        <5> QED
          BY <1>4, <2>1, <3>1, <5>1
      <4> QED
        BY <1>4, <2>1, <3>1, <4>1
    <3>2. CASE i = 1 /\ u.trace[Steps[i]] = "failed"
      <4>1. mark = "failed" /\ v.status = "failed"
        BY <1>3, <1>4, <2>1, <3>2 DEF Handed, Fields
      <4>2. step \in CriticalSteps
        BY <2>1, <3>2, StepsAreDistinct, StepNamesAre DEF CriticalSteps
      <4> QED
        BY <1>4, <4>1, <4>2
    <3> QED
      BY <3>1, <3>2 DEF Stopping
  <2>3. ASSUME NEW j \in (i + 1)..9
        PROVE  u.trace[Steps[j]] = "none"
    BY <1>6, <2>1 DEF Untouched
  <2> QED
    BY <2>2, <2>3
<1> QED
  BY <1>5, <1>6, <1>7, <1>8, <1>9 DEF Good

LEMMA TopRisksAreKnown ==
    ASSUME NEW risks, NEW scores, NEW rows
    PROVE  TopRisks(risks, scores, rows) \subseteq Ids(risks)
BY DEF TopRisks, TopFive, Ids

LEMMA ReturnedIsHanded ==
    ASSUME NEW w, NEW n \in 1..9, Good(w, n), w.status # "failed", NEW v \in Returned(Steps[n], w)
    PROVE  Handed(w, v, n, "completed")
<1>1. Steps[n] \in StepNames /\ DOMAIN w = Fields
  BY StepsAreDistinct DEF Good, Shape
<1>2. /\ Steps[n] = "company_resolver" <=> n = 1
      /\ Steps[n] = "report_generator" <=> n = 8
      /\ Steps[n] = "evaluator" <=> n = 9
  BY StepsAreDistinct
<1>3. /\ DOMAIN v = Fields
      /\ v.gated = w.gated /\ v.demo = w.demo /\ v.trace = w.trace
      /\ v.evaluations = w.evaluations /\ v.summary = w.summary
      /\ v.company \in {w.company, TRUE} /\ v.v16 \in {w.v16, TRUE}
      /\ n # 9 => v.status = w.status /\ v.verdict = w.verdict
      /\ n # 8 => v.report = w.report /\ v.claims = w.claims
      /\ n \in {8, 9} => v.rows = w.rows /\ v.risks = w.risks
      /\ n = 8 => /\ v.report.made /\ v.report.rows = w.rows
                 /\ v.report.top = TopRisks(w.risks, w.scores, w.rows)
      /\ n = 9 => /\ v.verdict = EvaluateWorkflowState(w.report)
                 /\ v.status = StatusOf(v.verdict)
  <2> DEFINE step == Steps[n]
  <2>1. /\ DOMAIN v = Fields
        /\ v.gated = w.gated /\ v.demo = w.demo /\ v.trace = w.trace
        /\ v.evaluations = w.evaluations /\ v.summary = w.summary
        /\ v.company \in {w.company, TRUE} /\ v.v16 \in {w.v16, TRUE}
        /\ step # "evaluator" => v.status = w.status /\ v.verdict = w.verdict
        /\ step # "report_generator" => v.report = w.report /\ v.claims = w.claims
        /\ step \in {"report_generator", "evaluator"} => v.rows = w.rows /\ v.risks = w.risks
        /\ step = "report_generator" =>
              /\ v.report.made /\ v.report.rows = w.rows
              /\ v.report.top = TopRisks(w.risks, w.scores, w.rows)
        /\ step = "evaluator" =>
              /\ v.verdict = EvaluateWorkflowState(w.report)
              /\ v.status = StatusOf(v.verdict)
    <3> HIDE DEF step
    <3>1. step \in StepNames /\ v \in Returned(step, w)
      BY <1>1 DEF step
    <3> QED
      BY <1>1, <3>1, ReturnedKeeps
  <2> QED
    BY <1>2, <2>1
<1>4. v.status \in Statuses /\ v.verdict \in Verdicts /\ v.status \in {w.status} \cup Final
  <2>1. CASE n = 9
    BY <1>3, <2>1, VerdictFacts DEF StatusOf, Statuses, Final, Verdicts
  <2>2. CASE n # 9
    BY <1>3, <2>2 DEF Good, Shape
  <2> QED
    BY <2>1, <2>2
<1>5. ReportFits(v, n + 1)
  <2>1. CASE n = 8
    BY <1>3, <2>1, TopRisksAreKnown DEF ReportFits
  <2>2. CASE n = 9
    BY <1>3, <2>2 DEF Good, ReportFits
  <2>3. CASE n < 8
    BY <1>3, <2>3 DEF Good, ReportFits
  <2> QED
    BY <2>1, <2>2, <2>3
<1>6. n < 9 => ~Shown(v)
  BY <1>3 DEF Good, Decided, Shown
<1>7. v.demo \in BOOLEAN /\ v.company \in BOOLEAN /\ v.v16 \in BOOLEAN
  BY <1>3 DEF Good, Shape
<1>8. n = 9 => v.verdict = EvaluateWorkflowState(v.report) /\ v.status = StatusOf(v.verdict)
  BY <1>3
<1> QED
  BY <1>3, <1>4, <1>5, <1>6, <1>7, <1>8 DEF Handed

LEMMA RaisedIsHanded ==
    ASSUME NEW w, NEW n \in 1..9, Good(w, n), w.status # "failed", NEW v \in Raised(Steps[n], w)
    PROVE  Handed(w, v, n, "failed")
<1>1. Steps[n] \in StepNames /\ DOMAIN w = Fields
  BY StepsAreDistinct DEF Good, Shape
<1>2. /\ Steps[n] = "company_resolver" <=> n = 1
      /\ Steps[n] = "report_generator" <=> n = 8
      /\ Steps[n] = "evaluator" <=> n = 9
  BY StepsAreDistinct
<1>3. /\ DOMAIN v = Fields
      /\ v.gated = w.gated /\ v.demo = w.demo /\ v.trace = w.trace
      /\ v.evaluations = w.evaluations /\ v.summary = w.summary
      /\ v.company = w.company /\ v.v16 = w.v16 /\ v.verdict = w.verdict
      /\ v.rows = w.rows /\ v.risks = w.risks
      /\ v.status = IF n = 1 THEN "failed" ELSE w.status
      /\ n # 8 => v.report = w.report
      /\ v.report = w.report \/ (/\ v.report.made /\ v.report.rows = w.rows
                                /\ v.report.top = TopRisks(w.risks, w.scores, w.rows))
      /\ n # 9
  BY <1>1, <1>2, RaisedKeeps
<1>4. v.status \in Statuses /\ ~Shown(v) /\ v.status \in {w.status} \cup Final
  BY <1>3 DEF Good, Shape, Decided, Shown, Statuses, Final
<1>5. ReportFits(v, n + 1)
  BY <1>3, TopRisksAreKnown DEF Good, ReportFits
<1> QED
  BY <1>3, <1>4, <1>5 DEF Handed, Good, Shape

LEMMA GatedStatus ==
    ASSUME NEW w, NEW n \in 1..9, Good(w, n), NEW mark, NEW v, Handed(w, v, n, mark),
           NEW raising \in BOOLEAN, NEW weak \in BOOLEAN,
           NEW u, u = Gate(Steps[n], Traced(Steps[n], v, mark), raising, weak)
    PROVE  u.gated = w.gated /\ u.status \in {w.status, "running"} \cup Final
<1> DEFINE step == Steps[n]
           t == Traced(step, v, mark)
<1>1. /\ DOMAIN t = Fields /\ t.gated = w.gated /\ t.evaluations = w.evaluations
      /\ step \in StepNames /\ t.gated \in BOOLEAN /\ t.evaluations \in [StepNames -> Verdicts]
      /\ t.status \in {w.status} \cup Final
  BY StepsAreDistinct DEF Good, Shape, Handed, Traced, Fields
<1> HIDE DEF t, step
<1>2. u = Gate(step, t, raising, weak)
  BY DEF t, step
<1>3. /\ \A f \in Fields \ {"status", "evaluations"} : u[f] = t[f]
      /\ u.status \in {t.status, "running", "failed"}
  BY <1>1, <1>2, GateKeeps
<1> QED
  BY <1>1, <1>3 DEF Fields, Final

LEMMA SkippedStepKeeps ==
    ASSUME NEW w, NEW n \in 1..9, Good(w, n), w.status = "failed",
           NEW u, u = Traced(Steps[n], w, "skipped")
    PROVE  Good(u, n + 1)
<1>1. /\ Steps[n] \in StepNames
      /\ \A i \in 1..9 : Steps[i] \in StepNames /\ (i # n => Steps[i] # Steps[n])
  BY StepsAreDistinct
<1>2. /\ DOMAIN u = Fields
      /\ \A f \in Fields \ {"trace"} : u[f] = w[f]
      /\ u.trace = [w.trace EXCEPT ![Steps[n]] = "skipped"]
  BY DEF Good, Shape, Traced, Fields
<1>3. /\ u.trace \in [StepNames -> Traces]
      /\ u.trace[Steps[n]] = "skipped"
      /\ \A i \in 1..9 : i # n => u.trace[Steps[i]] = w.trace[Steps[i]]
  BY <1>1, <1>2 DEF Good, Shape, Traces
<1>4. /\ u.status = w.status /\ u.demo = w.demo /\ u.gated = w.gated /\ u.company = w.company
      /\ u.v16 = w.v16 /\ u.verdict = w.verdict /\ u.evaluations = w.evaluations
      /\ u.summary = w.summary /\ u.report = w.report /\ u.rows = w.rows /\ u.risks = w.risks
  BY <1>2 DEF Fields
<1>5. Shape(u)
  BY <1>2, <1>3, <1>4 DEF Good, Shape
<1>6. Untouched(u, n + 1)
  BY <1>3, <1>4 DEF Good, Untouched
<1>7. ReportFits(u, n + 1)
  BY <1>4 DEF Good, ReportFits
<1>8. Decided(u, n + 1)
  BY <1>4 DEF Decided, Shown
<1>9. Stopped(u)
  <2> SUFFICES ASSUME NEW i \in 1..9, Stopping(u, i)
               PROVE  \A j \in (i + 1)..9 : u.trace[Steps[j]] \in {"none", "skipped"}
    BY <1>4 DEF Stopped
  <2>1. i # n
    BY <1>3, <1>4 DEF Good, Untouched, Stopping
  <2>2. Stopping(w, i)
    BY <1>3, <1>4, <2>1 DEF Stopping
  <2> QED
    BY <1>3, <2>2 DEF Good, Stopped
<1> QED
  BY <1>5, <1>6, <1>7, <1>8, <1>9 DEF Good

-----------------------------------------------------------------------------
(* The run, its row and its task *)

RowFollows ==
    /\ task = "none" => next = 1 /\ row.status = "none"
    /\ task = "queued" => next = 1 /\ row.status = "created"
    /\ task = "steps" /\ run.gated => row.status = "running"
    /\ task = "steps" => run.status \in {"running"} \cup Final

RowHolds ==
    /\ Shown(row) => Backed(row)
    /\ row.status = "completed" =>
        row.verdict = "pass" /\ \A s \in CriticalSteps : row.evaluations[s] # "fail"

Inv ==
    /\ task \in {"none", "queued", "steps", "stored", "snapshot", "ended", "lost"}
    /\ next \in 1..10
    /\ faults \in 0..MaxFaults
    /\ Shape(row)
    /\ Good(run, next)
    /\ RowFollows
    /\ RowHolds

\* A run or a row as it is made, before its first step.
LEMMA FreshIsGood ==
    ASSUME NEW w, DOMAIN w = Fields, w.demo \in BOOLEAN, w.gated \in BOOLEAN,
           w.status \in {"none", "created", "running"},
           w.company = FALSE, w.v16 = FALSE, w.verdict = "none", w.summary = "none",
           w.trace = [s \in StepNames |-> "none"], w.evaluations = [s \in StepNames |-> "none"],
           w.report.made = FALSE
    PROVE  Good(w, 1)
<1>2. Shape(w)
  BY DEF Shape, Statuses, Final, Verdicts, Traces
<1>3. \A i \in 1..9 : w.trace[Steps[i]] = "none" /\ w.evaluations[Steps[i]] = "none"
  BY StepsAreDistinct
<1>4. Untouched(w, 1) /\ Stopped(w)
  BY <1>3 DEF Untouched, Stopped, Stopping
<1>5. ReportFits(w, 1) /\ Decided(w, 1)
  BY DEF ReportFits, Decided, Shown
<1> QED
  BY <1>2, <1>4, <1>5 DEF Good

\* Setting the status of a run that has taken no step, or failing one.
LEMMA RestatusKeeps ==
    ASSUME NEW w, NEW n \in 1..10, Good(w, n), NEW status,
           status = "failed" \/ (status = "running" /\ n = 1)
    PROVE  Good([w EXCEPT !.status = status], n)
<1> DEFINE u == [w EXCEPT !.status = status]
<1>1. /\ DOMAIN u = Fields /\ u.status = status
      /\ \A f \in Fields \ {"status"} : u[f] = w[f]
  BY DEF Good, Shape, Fields
<1> HIDE DEF u
<1>2. /\ u.demo = w.demo /\ u.gated = w.gated /\ u.company = w.company /\ u.v16 = w.v16
      /\ u.verdict = w.verdict /\ u.summary = w.summary /\ u.trace = w.trace
      /\ u.evaluations = w.evaluations /\ u.report = w.report /\ u.rows = w.rows /\ u.risks = w.risks
  BY <1>1 DEF Fields
<1>3. Shape(u)
  BY <1>1, <1>2 DEF Good, Shape, Statuses, Final
<1>4. Untouched(u, n) /\ ReportFits(u, n) /\ Decided(u, n)
  BY <1>1, <1>2 DEF Good, Untouched, ReportFits, Decided, Shown
<1>5. Stopped(u)
  <2>1. CASE status = "failed"
    BY <1>1, <1>2, <2>1 DEF Good, Stopped, Stopping
  <2>2. CASE n = 1
    BY <1>2, <2>2 DEF Good, Untouched, Stopped, Stopping
  <2> QED
    BY <2>1, <2>2
<1> QED
  BY <1>3, <1>4, <1>5 DEF Good, u

\* What the finished run hands to its row.
LEMMA SummarizedKeeps ==
    ASSUME NEW w, Good(w, 10)
    PROVE  /\ Good(Summarized(w), 10)
           /\ Summarized(w).gated = w.gated
           /\ Shown(Summarized(w)) => Backed(Summarized(w))
           /\ Summarized(w).status = "completed" =>
                /\ Summarized(w).verdict = "pass"
                /\ \A s \in CriticalSteps : Summarized(w).evaluations[s] # "fail"
<1> DEFINE u == Summarized(w)
<1>1. /\ DOMAIN u = Fields /\ u.summary \in Verdicts
      /\ \A f \in Fields \ {"summary"} : u[f] = w[f]
  BY DEF Good, Shape, Fields, Summarized, Aggregate, Verdicts
<1> HIDE DEF u
<1>2. /\ u.status = w.status /\ u.demo = w.demo /\ u.gated = w.gated /\ u.company = w.company
      /\ u.v16 = w.v16 /\ u.verdict = w.verdict /\ u.trace = w.trace /\ u.claims = w.claims
      /\ u.evaluations = w.evaluations /\ u.report = w.report /\ u.rows = w.rows /\ u.risks = w.risks
  BY <1>1 DEF Fields
<1>3. Shape(u)
  BY <1>1, <1>2 DEF Good, Shape
<1>4. Backed(w) => Backed(u)
  BY <1>2 DEF Backed
<1>5. Untouched(u, 10) /\ ReportFits(u, 10) /\ Decided(u, 10) /\ Stopped(u)
  BY <1>2, <1>4 DEF Good, Untouched, ReportFits, Decided, Shown, Stopped, Stopping
<1>6. ASSUME u.status = "completed", NEW s \in CriticalSteps
      PROVE  u.evaluations[s] # "fail"
  <2>1. PICK i \in 1..9 : s = Steps[i]
    BY StepsAreDistinct DEF CriticalSteps, StepNames, Range
  <2> QED
    BY <1>5, <1>6, <2>1 DEF Stopped, Stopping
<1>7. u.status = "completed" => u.verdict = "pass"
  BY <1>5 DEF Decided
<1> QED
  BY <1>2, <1>3, <1>5, <1>6, <1>7 DEF Good, Decided, u

LEMMA MadeRuns ==
    /\ Good(NoRow, 1) /\ NoRow.status = "none"
    /\ \A demo \in BOOLEAN :
        LET api == [Initial EXCEPT !.demo = demo]
            line == [Initial EXCEPT !.demo = demo, !.gated = FALSE, !.status = "running"]
        IN  /\ Good(api, 1) /\ api.status = "created"
            /\ Good(line, 1) /\ line.gated = FALSE /\ line.status = "running"
<1>1. Good(NoRow, 1) /\ NoRow.status = "none"
  <2> DEFINE w == NoRow
  <2>1. /\ DOMAIN w = Fields /\ w.demo = FALSE /\ w.gated = TRUE /\ w.status = "none"
        /\ w.company = FALSE /\ w.v16 = FALSE /\ w.verdict = "none" /\ w.summary = "none"
        /\ w.trace = [s \in StepNames |-> "none"] /\ w.evaluations = [s \in StepNames |-> "none"]
        /\ w.report.made = FALSE
    BY DEF NoRow, Initial, NoReport, Fields
  <2> HIDE DEF w
  <2> QED
    BY <2>1, FreshIsGood DEF w
<1>2. ASSUME NEW demo \in BOOLEAN
      PROVE  LET w == [Initial EXCEPT !.demo = demo] IN Good(w, 1) /\ w.status = "created"
  <2> DEFINE w == [Initial EXCEPT !.demo = demo]
  <2>1. /\ DOMAIN w = Fields /\ w.demo = demo /\ w.gated = TRUE /\ w.status = "created"
        /\ w.company = FALSE /\ w.v16 = FALSE /\ w.verdict = "none" /\ w.summary = "none"
        /\ w.trace = [s \in StepNames |-> "none"] /\ w.evaluations = [s \in StepNames |-> "none"]
        /\ w.report.made = FALSE
    BY DEF Initial, NoReport, Fields
  <2> HIDE DEF w
  <2>2. Good(w, 1) /\ w.status = "created"
    BY <2>1, FreshIsGood
  <2> QED
    BY <2>2 DEF w
<1>3. ASSUME NEW demo \in BOOLEAN
      PROVE  LET w == [Initial EXCEPT !.demo = demo, !.gated = FALSE, !.status = "running"]
             IN  Good(w, 1) /\ w.gated = FALSE /\ w.status = "running"
  <2> DEFINE w == [Initial EXCEPT !.demo = demo, !.gated = FALSE, !.status = "running"]
  <2>1. /\ DOMAIN w = Fields /\ w.demo = demo /\ w.gated = FALSE /\ w.status = "running"
        /\ w.company = FALSE /\ w.v16 = FALSE /\ w.verdict = "none" /\ w.summary = "none"
        /\ w.trace = [s \in StepNames |-> "none"] /\ w.evaluations = [s \in StepNames |-> "none"]
        /\ w.report.made = FALSE
    BY DEF Initial, NoReport, Fields
  <2> HIDE DEF w
  <2>2. Good(w, 1) /\ w.gated = FALSE /\ w.status = "running"
    BY <2>1, FreshIsGood
  <2> QED
    BY <2>2 DEF w
<1> QED
  BY <1>1, <1>2, <1>3

LEMMA InvInit == Init => Inv
<1> SUFFICES ASSUME Init PROVE Inv
  OBVIOUS
<1>1. run = NoRow /\ row = NoRow /\ task = "none" /\ next = 1 /\ faults = 0
  BY DEF Init
<1>2. Good(run, next) /\ Good(row, 1) /\ row.status = "none"
  BY <1>1, MadeRuns
<1>3. Shape(row) /\ ~Shown(row)
  BY <1>2 DEF Good, Shown
<1> QED
  BY <1>1, <1>2, <1>3, FaultsAssumption DEF Inv, RowFollows, RowHolds, Shown

\* One step of the workflow, however it goes.
LEMMA StepKeeps ==
    ASSUME Inv, Step
    PROVE  /\ Good(run', next') /\ run'.gated = run.gated
           /\ run'.status \in {"running"} \cup Final
<1>1. next \in 1..9 /\ next' = next + 1 /\ Good(run, next) /\ run.status \in {"running"} \cup Final
  BY StepsAreDistinct DEF Inv, Step, RowFollows
<1> DEFINE n == next
<1>2. CASE TakeStep(Steps[n])
  <2>1. PICK raising \in BOOLEAN, weak \in BOOLEAN, v \in Returned(Steps[n], run) :
          run' = Gate(Steps[n], Traced(Steps[n], v, "completed"), raising, weak)
    BY <1>2 DEF TakeStep
  <2>2. run.status # "failed"
    BY <1>2 DEF TakeStep
  <2>3. Handed(run, v, n, "completed")
    BY <1>1, <2>2, ReturnedIsHanded
  <2>4. Good(run', n + 1)
    BY <1>1, <2>1, <2>2, <2>3, GatedStepKeeps
  <2>5. run'.gated = run.gated /\ run'.status \in {run.status, "running"} \cup Final
    BY <1>1, <2>1, <2>3, GatedStatus
  <2> QED
    BY <1>1, <2>4, <2>5
<1>3. CASE StepRaises(Steps[n])
  <2>1. PICK raising \in BOOLEAN, weak \in BOOLEAN, v \in Raised(Steps[n], run) :
          run' = Gate(Steps[n], Traced(Steps[n], v, "failed"), raising, weak)
    BY <1>3 DEF StepRaises
  <2>2. run.status # "failed"
    BY <1>3 DEF StepRaises
  <2>3. Handed(run, v, n, "failed")
    BY <1>1, <2>2, RaisedIsHanded
  <2>4. Good(run', n + 1)
    BY <1>1, <2>1, <2>2, <2>3, GatedStepKeeps
  <2>5. run'.gated = run.gated /\ run'.status \in {run.status, "running"} \cup Final
    BY <1>1, <2>1, <2>3, GatedStatus
  <2> QED
    BY <1>1, <2>4, <2>5
<1>4. CASE SkipStep(Steps[n])
  <2>1. run.status = "failed" /\ run' = Traced(Steps[n], run, "skipped")
    BY <1>4 DEF SkipStep
  <2>2. Good(run', n + 1)
    BY <1>1, <2>1, SkippedStepKeeps
  <2>3. run'.gated = run.gated /\ run'.status = run.status
    BY <1>1, <2>1 DEF Traced, Good, Shape, Fields
  <2> QED
    BY <1>1, <2>2, <2>3
<1> QED
  BY <1>2, <1>3, <1>4 DEF Step

LEMMA InvNext == Inv /\ [Next]_vars => Inv'
<1> SUFFICES ASSUME Inv, [Next]_vars PROVE Inv'
  OBVIOUS
<1> USE DEF Inv
<1>1. CASE StartWorkflow
  <2>1. PICK demo \in BOOLEAN : run' = [Initial EXCEPT !.demo = demo]
    BY <1>1 DEF StartWorkflow
  <2>2. /\ row' = run' /\ task = "none" /\ task' = "queued" /\ next' = next /\ faults' = faults
        /\ next = 1
    BY <1>1 DEF StartWorkflow, RowFollows
  <2>3. Good(run', 1) /\ run'.status = "created"
    BY <2>1, MadeRuns
  <2> QED
    BY <2>2, <2>3 DEF RowFollows, RowHolds, Shown, Good
<1>2. CASE RunFromCommandLine
  <2>1. PICK demo \in BOOLEAN :
          run' = [Initial EXCEPT !.demo = demo, !.gated = FALSE, !.status = "running"]
    BY <1>2 DEF RunFromCommandLine
  <2>2. /\ row' = row /\ task = "none" /\ task' = "steps" /\ next' = next /\ faults' = faults
        /\ next = 1
    BY <1>2 DEF RunFromCommandLine, RowFollows
  <2>3. Good(run', 1) /\ run'.gated = FALSE /\ run'.status = "running"
    BY <2>1, MadeRuns
  <2> QED
    BY <2>2, <2>3 DEF RowFollows, RowHolds, Shown, Backed
<1>3. CASE BeginRun
  <2>1. /\ task = "queued" /\ task' = "steps" /\ run' = [run EXCEPT !.status = "running"]
        /\ row' = run' /\ next' = next /\ faults' = faults /\ next = 1
    BY <1>3 DEF BeginRun, RowFollows
  <2>2. Good(run', 1) /\ run'.status = "running"
    BY <2>1, RestatusKeeps DEF Good, Shape, Fields
  <2> QED
    BY <2>1, <2>2 DEF RowFollows, RowHolds, Shown, Good
<1>4. CASE Step
  <2>1. /\ task = "steps" /\ task' = task /\ row' = row /\ next \in 1..9 /\ next' = next + 1
    BY <1>4, StepsAreDistinct DEF Step
  <2>2. faults' \in 0..MaxFaults
    <3>1. faults \in 0..MaxFaults /\ MaxFaults \in Nat
      BY FaultsAssumption
    <3>2. CASE TakeStep(Steps[next])
      <4>1. PICK raising \in BOOLEAN :
              /\ raising => faults < MaxFaults
              /\ faults' = faults + (IF raising THEN 1 ELSE 0)
        BY <3>2 DEF TakeStep
      <4> QED
        BY <3>1, <4>1
    <3>3. CASE StepRaises(Steps[next])
      BY <3>1, <3>3 DEF StepRaises
    <3>4. CASE SkipStep(Steps[next])
      BY <3>1, <3>4 DEF SkipStep
    <3> QED
      BY <1>4, <3>2, <3>3, <3>4 DEF Step
  <2>3. /\ Good(run', next') /\ run'.gated = run.gated
        /\ run'.status \in {"running"} \cup Final
    BY <1>4, StepKeeps
  <2> QED
    BY <2>1, <2>2, <2>3 DEF RowFollows, RowHolds, Shown, Backed
<1>5. CASE FinishRun
  <2>1. /\ task = "steps" /\ next = 10 /\ next' = next /\ faults' = faults
        /\ run' = (IF run.gated THEN Summarized(run) ELSE run)
        /\ row' = (IF run.gated THEN run' ELSE row)
        /\ task' \in {"stored", "ended"}
    BY <1>5, StepsAreDistinct DEF FinishRun
  <2>2. Good(run', 10)
    BY <2>1, SummarizedKeeps
  <2>3. CASE run.gated
    BY <2>1, <2>2, <2>3, SummarizedKeeps DEF RowFollows, RowHolds, Good
  <2>4. CASE ~run.gated
    BY <2>1, <2>2, <2>4 DEF RowFollows, RowHolds, Shown, Backed
  <2> QED
    BY <2>3, <2>4
<1>6. CASE CreateResearchSnapshot
  BY <1>6 DEF CreateResearchSnapshot, RowFollows, RowHolds, Shown, Backed
<1>7. CASE FailRun
  <2>1. /\ run' = [run EXCEPT !.status = "failed"] /\ row' = run' /\ task' = "ended"
        /\ next' = next /\ faults < MaxFaults /\ faults' = faults + 1
    BY <1>7 DEF FailRun
  <2>2. Good(run', next) /\ run'.status = "failed"
    BY <2>1, RestatusKeeps DEF Good, Shape, Fields
  <2> QED
    BY <2>1, <2>2, FaultsAssumption DEF RowFollows, RowHolds, Shown, Good
<1>8. CASE Crash
  BY <1>8, FaultsAssumption DEF Crash, RowFollows, RowHolds, Shown, Backed
<1>9. CASE UNCHANGED vars
  BY <1>9 DEF vars, RowFollows, RowHolds, Shown, Backed
<1> QED
  BY <1>1, <1>2, <1>3, <1>4, <1>5, <1>6, <1>7, <1>8, <1>9 DEF Next, Proceed

-----------------------------------------------------------------------------
(* The theorems *)

\* Every reachable state of run, row and task satisfies the invariant.
THEOREM FinRiskInvHolds == Spec => []Inv
<1> QED
  BY InvInit, InvNext, PTL DEF Spec

\* The run, its row and the task keep their types, whatever the steps find.
THEOREM FinRiskTypeCorrect == Spec => []TypeOK
<1>1. Inv => TypeOK
  BY InitialShape, StepsAreDistinct DEF Inv, Good, Shape, TypeOK, Verdicts, Traces
<1> QED
  BY <1>1, FinRiskInvHolds, PTL

\* A run that ends completed or for review has a report backed by evidence,
\* for any fixtures and sources and any number of exceptions on the way.
THEOREM ReportsAlwaysBacked == Spec => []ReportsAreBacked
<1>1. Inv => ReportsAreBacked
  BY StepsAreDistinct DEF Inv, Good, Decided, RowHolds, ReportsAreBacked, Shown
<1> QED
  BY <1>1, FinRiskInvHolds, PTL

\* A critical blocker or an unresolved company fails the run for good, and a
\* completed row had neither.
THEOREM CriticalBlockersStayFinal == Spec => []CriticalBlockersAreFinal
<1>1. Inv => CriticalBlockersAreFinal
  <2> SUFFICES ASSUME Inv PROVE CriticalBlockersAreFinal
    OBVIOUS
  <2>1. ASSUME NEW i \in DOMAIN Steps,
               \/ Steps[i] \in CriticalSteps /\ run.evaluations[Steps[i]] = "fail"
               \/ i = 1 /\ run.trace[Steps[i]] = "failed"
        PROVE  /\ run.status = "failed"
               /\ \A j \in (i + 1)..Len(Steps) : run.trace[Steps[j]] \in {"none", "skipped"}
    BY <2>1, StepsAreDistinct DEF Inv, Good, Stopped, Stopping
  <2> QED
    BY <2>1 DEF Inv, RowHolds, CriticalBlockersAreFinal
<1> QED
  BY <1>1, FinRiskInvHolds, PTL

\* A final row of the store is never changed by what follows it.
THEOREM OutcomesStay == Spec => OutcomeStays
<1>1. Inv /\ [Next]_vars => [row.status \in Final => row' = row]_vars
  <2> SUFFICES ASSUME Inv, [Next]_vars, row.status \in Final PROVE row' = row
    OBVIOUS
  <2>1. CASE StartWorkflow \/ RunFromCommandLine \/ BeginRun
    BY <2>1 DEF StartWorkflow, RunFromCommandLine, BeginRun, Inv, RowFollows, Final
  <2>2. CASE Step \/ CreateResearchSnapshot \/ Crash \/ UNCHANGED vars
    BY <2>2 DEF Step, CreateResearchSnapshot, Crash, vars
  <2>3. CASE FinishRun
    BY <2>3 DEF FinishRun, Inv, RowFollows, Final
  <2>4. CASE FailRun
    BY <2>4 DEF FailRun, Inv, RowFollows, Final
  <2> QED
    BY <2>1, <2>2, <2>3, <2>4 DEF Next, Proceed
<1> QED
  BY <1>1, FinRiskInvHolds, PTL DEF Spec, OutcomeStays

\* What a step may do to the status of the stored run.
LEMMA RowAdvances ==
    ASSUME Inv, [Next]_vars
    PROVE  \/ row'.status = row.status
           \/ row.status = "none" /\ row'.status = "created"
           \/ row.status = "created" /\ row'.status = "running"
           \/ row.status \in {"created", "running"} /\ row'.status \in Final
<1>1. CASE StartWorkflow
  <2>1. row.status = "none" BY <1>1 DEF StartWorkflow, Inv, RowFollows
  <2>2. row'.status = "created" BY <1>1 DEF StartWorkflow, Initial
  <2> QED BY <2>1, <2>2
<1>2. CASE BeginRun
  <2>1. row.status = "created" BY <1>2 DEF BeginRun, Inv, RowFollows
  <2>2. row' = [run EXCEPT !.status = "running"] /\ Shape(run) BY <1>2 DEF BeginRun, Inv, Good
  <2>3. row'.status = "running" BY <2>2 DEF Shape, Fields
  <2> QED BY <2>1, <2>3
<1>3. CASE FinishRun
  <2>1. CASE run.gated
    <3>1. row.status = "running" /\ Shape(run) /\ row' = Summarized(run)
      BY <1>3, <2>1 DEF FinishRun, Inv, RowFollows, Good
    <3>2. row'.status = run.status BY <3>1 DEF Summarized, Shape, Fields
    <3>3. run.status \in {"running"} \cup Final BY <1>3 DEF FinishRun, Inv, RowFollows
    <3> QED BY <3>1, <3>2, <3>3
  <2>2. CASE ~run.gated BY <1>3, <2>2 DEF FinishRun
  <2> QED BY <2>1, <2>2
<1>4. CASE FailRun
  <2>1. row.status \in {"created", "running"} BY <1>4 DEF FailRun, Inv, RowFollows
  <2>2. row' = [run EXCEPT !.status = "failed"] /\ Shape(run) BY <1>4 DEF FailRun, Inv, Good
  <2>3. row'.status = "failed" BY <2>2 DEF Shape, Fields
  <2> QED BY <2>1, <2>3 DEF Final
<1>5. CASE RunFromCommandLine \/ Step \/ CreateResearchSnapshot \/ Crash \/ UNCHANGED vars
  BY <1>5 DEF RunFromCommandLine, Step, CreateResearchSnapshot, Crash, vars
<1> QED BY <1>1, <1>2, <1>3, <1>4, <1>5 DEF Next, Proceed

\* The stored run implements what a panel takes it to be (api/workflows.py over
\* run_store.py): it waits, runs, and is decided once.
THEOREM FinRiskRunsPolled == Spec => FinRiskPanel!PollSpec
<1>1. Init => FinRiskPanel!PollInit
  BY DEF Init, NoRow, Initial, FinRiskPanel!PollInit
<1>2. Inv /\ [Next]_vars => [FinRiskPanel!PollNext]_([r \in {1} |-> row.status])
  <2> SUFFICES ASSUME Inv, [Next]_vars, [r \in {1} |-> row'.status] # [r \in {1} |-> row.status]
               PROVE  FinRiskPanel!PollNext
    OBVIOUS
  <2> DEFINE old == [r \in {1} |-> row.status]
             new == [r \in {1} |-> row'.status]
  <2>1. new = [old EXCEPT ![1] = row'.status] /\ old[1] = row.status OBVIOUS
  <2>2. row'.status # row.status OBVIOUS
  <2>3. CASE row.status = "none" /\ row'.status = "created"
    BY <2>1, <2>3 DEF FinRiskPanel!PollNext, FinRiskPanel!Submit, FinRiskPanel!Show, FinRiskPanel!Waiting
  <2>4. CASE row.status = "created" /\ row'.status = "running"
    BY <2>1, <2>4 DEF FinRiskPanel!PollNext, FinRiskPanel!Begin, FinRiskPanel!Show, FinRiskPanel!Waiting
  <2>5. CASE row.status \in {"created", "running"} /\ row'.status \in Final
    BY <2>1, <2>5 DEF FinRiskPanel!PollNext, FinRiskPanel!Decide, FinRiskPanel!Show, FinRiskPanel!Waiting,
                      FinRiskPanel!Decided, Final
  <2> QED BY <2>2, <2>3, <2>4, <2>5, RowAdvances
<1> QED BY <1>1, <1>2, FinRiskInvHolds, PTL DEF Spec, FinRiskPanel!PollSpec

-----------------------------------------------------------------------------
(* GraphReasoning *)

\* A way of n edges from the company, which never meets a node twice.
Way(path, edges, n) ==
    /\ path \in Seq(edges) /\ Len(path) = n
    /\ \A i \in 1..n : path[i].source = (IF i = 1 THEN Company ELSE path[i - 1].target)
    /\ \A i \in 1..n : path[i].confidence >= MinEdgeConfidence
    /\ IsFiniteSet(NodesOf(path)) /\ Cardinality(NodesOf(path)) = n + 1

Ways(paths, edges, n) == IsFiniteSet(paths) /\ \A path \in paths : Way(path, edges, n)

LEMMA StartsAtCompany == \A edges : Ways({<<>>}, edges, 0)
<1> SUFFICES ASSUME NEW edges PROVE Ways({<<>>}, edges, 0)
  OBVIOUS
<1>1. <<>> \in Seq(edges) /\ Len(<<>>) = 0 /\ DOMAIN <<>> = {} OBVIOUS
<1>2. NodesOf(<<>>) = {Company} BY <1>1 DEF NodesOf
<1>3. IsFiniteSet({Company}) /\ Cardinality({Company}) = 1 BY FS_Singleton
<1>4. IsFiniteSet({<<>>}) BY FS_Singleton
<1>5. 1..0 = {} /\ 0 + 1 = 1 OBVIOUS
<1>6. Way(<<>>, edges, 0) BY <1>1, <1>2, <1>3, <1>5 DEF Way
<1> QED BY <1>4, <1>6 DEF Ways

\* One edge more, to a node that the way has not met.
LEMMA OneEdgeMore ==
    ASSUME NEW edges, NEW n \in Nat, NEW path, Way(path, edges, n), NEW e \in edges,
           e.confidence >= MinEdgeConfidence, e.source = EndOf(path), e.target \notin NodesOf(path)
    PROVE  Way(Append(path, e), edges, n + 1)
<1> DEFINE q == Append(path, e)
<1>1. /\ path \in Seq(edges) /\ Len(path) = n /\ DOMAIN path = 1..n
      /\ \A i \in 1..n : path[i].source = (IF i = 1 THEN Company ELSE path[i - 1].target)
      /\ \A i \in 1..n : path[i].confidence >= MinEdgeConfidence
      /\ IsFiniteSet(NodesOf(path)) /\ Cardinality(NodesOf(path)) = n + 1
  BY DEF Way
<1>2. /\ q \in Seq(edges) /\ Len(q) = n + 1 /\ q[n + 1] = e
      /\ \A i \in 1..n : q[i] = path[i]
  BY <1>1, Appended
<1>3. DOMAIN q = 1..(n + 1) BY <1>2
<1> HIDE DEF q
<1>4. ASSUME NEW i \in 1..(n + 1)
      PROVE  /\ q[i].source = (IF i = 1 THEN Company ELSE q[i - 1].target)
             /\ q[i].confidence >= MinEdgeConfidence
  <2>1. CASE i \in 1..n
    <3>1. i # 1 => i - 1 \in 1..n BY <2>1
    <3>2. q[i] = path[i] /\ (i # 1 => q[i - 1] = path[i - 1]) BY <1>2, <2>1, <3>1
    <3> QED BY <1>1, <2>1, <3>2
  <2>2. CASE i = n + 1
    <3>1. CASE n = 0
      <4>1. path = <<>> BY <1>1, <3>1
      <4>2. EndOf(path) = Company BY <4>1 DEF EndOf
      <4> QED BY <1>2, <2>2, <3>1, <4>2
    <3>2. CASE n # 0
      <4>1. path # <<>> /\ n \in 1..n /\ i # 1 /\ i - 1 = n BY <1>1, <2>2, <3>2
      <4>2. EndOf(path) = path[n].target BY <1>1, <4>1 DEF EndOf
      <4> QED BY <1>2, <2>2, <4>1, <4>2
    <3> QED BY <3>1, <3>2
  <2> QED BY <2>1, <2>2
<1>5. NodesOf(q) = NodesOf(path) \cup {e.target}
  <2>1. \A i \in 1..(n + 1) : i \in 1..n \/ i = n + 1 OBVIOUS
  <2>2. n + 1 \in 1..(n + 1) /\ \A i \in 1..n : i \in 1..(n + 1) OBVIOUS
  <2>3. {q[i].target : i \in 1..(n + 1)} = {path[i].target : i \in 1..n} \cup {e.target}
    BY <1>2, <2>1, <2>2
  <2> QED BY <1>1, <1>3, <2>3 DEF NodesOf
<1>6. IsFiniteSet(NodesOf(q)) /\ Cardinality(NodesOf(q)) = (n + 1) + 1
  BY <1>1, <1>5, FS_AddElement, ZenonT(60)
<1> QED BY <1>2, <1>4, <1>6 DEF Way, q

\* What the search finds: ways through the edges, so many.
LEMMA PathsAreWays ==
    ASSUME NEW edges, IsFiniteSet(edges), NEW nodes, NEW allowed
    PROVE  /\ IsFiniteSet(RetrieveCandidatePaths(edges, nodes, allowed))
           /\ \A path \in RetrieveCandidatePaths(edges, nodes, allowed) : \E n \in 1..3 : Way(path, edges, n)
<1> DEFINE Passable(e) == e.type \in allowed /\ e.confidence >= MinEdgeConfidence /\ e.target \in nodes
           Extended(path) ==
             {Append(path, e) : e \in {e \in edges :
                Passable(e) /\ e.source = EndOf(path) /\ e.target \notin NodesOf(path)}}
           Next1(paths) == UNION {Extended(path) : path \in paths}
           F == CHOOSE P : P = [n \in 0..3 |-> IF n = 0 THEN {<<>>} ELSE UNION {Extended(path) : path \in P[n - 1]}]
<1>1. PathsUpTo(edges, nodes, allowed, 3) = UNION {F[n] : n \in 1..3} BY DEF PathsUpTo
<1>2. ASSUME NEW n \in Nat, NEW paths, Ways(paths, edges, n) PROVE Ways(Next1(paths), edges, n + 1)
  <2> DEFINE f == [pair \in paths \X edges |-> Append(pair[1], pair[2])]
             all == {f[pair] : pair \in paths \X edges}
  <2>1. IsFiniteSet(paths \X edges) BY <1>2, FS_Product DEF Ways
  <2>2. Next1(paths) \subseteq all
    <3>1. ASSUME NEW path \in paths, NEW e \in edges PROVE Append(path, e) \in all
      <4>1. <<path, e>> \in paths \X edges /\ f[<<path, e>>] = Append(path, e) OBVIOUS
      <4> HIDE DEF f
      <4> QED BY <4>1
    <3> HIDE DEF all
    <3>2. ASSUME NEW q \in Next1(paths) PROVE q \in all
      <4>1. PICK path \in paths : q \in Extended(path) BY <3>2
      <4>2. PICK e \in edges : q = Append(path, e) BY <4>1
      <4> QED BY <3>1, <4>2
    <3> HIDE DEF Next1
    <3> QED BY <3>2
  <2>3. IsFiniteSet(all)
    <3> HIDE DEF f
    <3> QED BY <2>1, ImageIsFinite
  <2>4. IsFiniteSet(Next1(paths))
    <3> HIDE DEF all, Next1
    <3> QED BY <2>2, <2>3, FS_Subset
  <2>5. ASSUME NEW q \in Next1(paths) PROVE Way(q, edges, n + 1)
    <3>1. PICK path \in paths, e \in edges :
            /\ q = Append(path, e) /\ Passable(e)
            /\ e.source = EndOf(path) /\ e.target \notin NodesOf(path)
      BY <2>5
    <3>2. Way(path, edges, n) BY <1>2 DEF Ways
    <3>3. Way(Append(path, e), edges, n + 1) BY <3>1, <3>2, OneEdgeMore
    <3> QED BY <3>1, <3>3
  <2> HIDE DEF Next1
  <2> QED BY <2>4, <2>5 DEF Ways
<1>3. F = [n \in 0..3 |-> IF n = 0 THEN {<<>>} ELSE Next1(F[n - 1])]
  <2> DEFINE P1 == Next1({<<>>})
             P2 == Next1(P1)
             P3 == Next1(P2)
             g == [n \in 0..3 |-> IF n = 0 THEN {<<>>} ELSE IF n = 1 THEN P1 ELSE IF n = 2 THEN P2 ELSE P3]
  <2>1. g = [n \in 0..3 |-> IF n = 0 THEN {<<>>} ELSE Next1(g[n - 1])]
    <3> HIDE DEF Next1
    <3>1. g[0] = {<<>>} /\ g[1] = P1 /\ g[2] = P2 /\ g[3] = P3 BY DEF g
    <3>2. 1 - 1 = 0 /\ 2 - 1 = 1 /\ 3 - 1 = 2 OBVIOUS
    <3>3. \A n \in 0..3 : n = 0 \/ n = 1 \/ n = 2 \/ n = 3 OBVIOUS
    <3>5. \A n \in 0..3 : g[n] = IF n = 0 THEN {<<>>} ELSE Next1(g[n - 1])
      <4> HIDE DEF g
      <4> QED BY <3>1, <3>2, <3>3 DEF P1, P2, P3
    <3>6. g = [n \in 0..3 |-> g[n]] OBVIOUS
    <3> HIDE DEF g
    <3> QED BY <3>5, <3>6
  <2>2. \E P : P = [n \in 0..3 |-> IF n = 0 THEN {<<>>} ELSE UNION {Extended(path) : path \in P[n - 1]}]
    <3> WITNESS g
    <3> HIDE DEF g, Extended
    <3> QED BY <2>1
  <2> HIDE DEF g
  <2>3. F = [n \in 0..3 |-> IF n = 0 THEN {<<>>} ELSE UNION {Extended(path) : path \in F[n - 1]}]
    <3> HIDE DEF Extended
    <3> QED BY <2>2
  <2> HIDE DEF F, Extended
  <2> QED BY <2>3
<1> HIDE DEF F, Next1
<1>4. F[0] = {<<>>} /\ F[1] = Next1(F[0]) /\ F[2] = Next1(F[1]) /\ F[3] = Next1(F[2])
  <2>1. \A n \in 0..3 : F[n] = IF n = 0 THEN {<<>>} ELSE Next1(F[n - 1]) BY <1>3
  <2>2. F[0] = {<<>>} BY <2>1
  <2>3. F[1] = Next1(F[1 - 1]) /\ F[2] = Next1(F[2 - 1]) /\ F[3] = Next1(F[3 - 1]) BY <2>1
  <2>4. 1 - 1 = 0 /\ 2 - 1 = 1 /\ 3 - 1 = 2 OBVIOUS
  <2> QED BY <2>2, <2>3, <2>4
<1>5. Ways(F[0], edges, 0) BY <1>4, StartsAtCompany
<1>6. Ways(F[1], edges, 1) BY <1>2, <1>4, <1>5
<1>7. Ways(F[2], edges, 2) BY <1>2, <1>4, <1>6
<1>8. Ways(F[3], edges, 3) BY <1>2, <1>4, <1>7
<1>9. UNION {F[n] : n \in 1..3} = (F[1] \cup F[2]) \cup F[3]
  <2>1. \A n : n \in 1..3 <=> n = 1 \/ n = 2 \/ n = 3 OBVIOUS
  <2> QED BY <2>1
<1>10. IsFiniteSet((F[1] \cup F[2]) \cup F[3]) BY <1>6, <1>7, <1>8, FS_Union DEF Ways
<1>11. \A path \in (F[1] \cup F[2]) \cup F[3] : \E n \in 1..3 : Way(path, edges, n)
  <2>1. 1 \in 1..3 /\ 2 \in 1..3 /\ 3 \in 1..3 OBVIOUS
  <2> QED BY <1>6, <1>7, <1>8, <2>1 DEF Ways
<1>12. IsFiniteSet({}) BY FS_EmptySet
<1> QED BY <1>1, <1>9, <1>10, <1>11, <1>12 DEF RetrieveCandidatePaths, MaxHops
-----------------------------------------------------------------------------
(* Scores *)

LEMMA AverageIsNumber == \A total, n \in Nat : Average(total, n) \in Int
<1> SUFFICES ASSUME NEW total \in Nat, NEW n \in Nat PROVE Average(total, n) \in Int
  OBVIOUS
<1>1. CASE n = 0 BY <1>1 DEF Average
<1>2. CASE n # 0
  <2>1. total \div n \in Int BY <1>2
  <2> QED BY <1>2, <2>1 DEF Average
<1> QED BY <1>1, <1>2

LEMMA ScoreIsNumber ==
    ASSUME NEW edges, edges \subseteq GraphEdgesOf, NEW rows, rows \subseteq EvidenceRows, NEW relevant,
           NEW n \in 1..3, NEW path, Way(path, edges, n)
    PROVE  ScorePath(path, rows, relevant) \in Int
<1> DEFINE cited == {r \in rows : r.id \in PathCites(path)}
           cover == {i \in DOMAIN path : path[i].cites # {}}
           met == NodesOf(path) \cap relevant
           trust == [r \in cited |-> r.credibility]
           confidences == {path[i].confidence : i \in DOMAIN path}
           novel == \E r \in cited : r.source \in {"web", "transcript", "graph"}
           a == Average(100 * Cardinality(cover), Len(path))
           w == Min(confidences)
           b == Average(100 * Cardinality(met), Len(path) + 1)
           c == Average(Total(cited, trust), Cardinality(cited))
           d == IF novel THEN 1000 ELSE 0
<1>1. /\ path \in Seq(edges) /\ Len(path) = n /\ DOMAIN path = 1..n /\ n \in Nat /\ n + 1 \in Nat
      /\ IsFiniteSet(NodesOf(path))
  BY DEF Way
<1>2. IsFiniteSet(rows) /\ \A r \in rows : r.credibility \in Nat
  BY ReasoningAssumption, FS_Subset
<1>3. \A i \in 1..n : path[i].confidence \in Nat
  <2>1. \A i \in 1..n : path[i] \in edges BY <1>1, ElementOfSeq
  <2> QED BY <2>1, ReasoningAssumption
<1>4. IsFiniteSet(cited) /\ Cardinality(cited) \in Nat
  <2>1. cited \subseteq rows OBVIOUS
  <2> HIDE DEF cited
  <2> QED BY <1>2, <2>1, FS_Subset, FS_CardinalityType
<1>5. Cardinality(cover) \in Nat
  <2>1. cover \subseteq 1..n BY <1>1
  <2>2. IsFiniteSet(1..n) BY <1>1, FS_Interval
  <2> HIDE DEF cover
  <2> QED BY <2>1, <2>2, FS_Subset, FS_CardinalityType
<1>6. Cardinality(met) \in Nat
  <2>1. met \subseteq NodesOf(path) OBVIOUS
  <2> HIDE DEF met
  <2> QED BY <1>1, <2>1, FS_Subset, FS_CardinalityType
<1>7. Total(cited, trust) \in Nat
  <2>1. \A r \in cited : trust[r] \in Nat BY <1>2
  <2> HIDE DEF cited, trust
  <2> QED BY <1>4, <2>1, TotalHas
<1>8. w \in Nat
  <2>1. confidences \subseteq Nat /\ confidences # {}
    <3>1. confidences \subseteq Nat BY <1>1, <1>3
    <3>2. path[1].confidence \in confidences
      <4>1. 1 \in DOMAIN path BY <1>1
      <4> QED BY <4>1
    <3> HIDE DEF confidences
    <3> QED BY <3>1, <3>2
  <2> HIDE DEF confidences
  <2>2. \E m \in confidences : \A j \in confidences : m <= j BY <2>1, Smallest
  <2>3. w \in confidences BY <2>2 DEF Min
  <2> HIDE DEF w
  <2> QED BY <2>1, <2>3
<1>9. ScorePath(path, rows, relevant) = 25 * a + 20 * w + 20 * b + 15 * c + d + 333
  BY DEF ScorePath
<1> HIDE DEF cited, cover, met, trust, confidences, novel, w
<1>10. a \in Int /\ b \in Int /\ c \in Int
  <2>1. 100 * Cardinality(cover) \in Nat /\ 100 * Cardinality(met) \in Nat BY <1>5, <1>6
  <2> QED BY <1>1, <1>4, <1>7, <2>1, AverageIsNumber
<1>11. d \in Int OBVIOUS
<1> HIDE DEF a, b, c, d
<1>12. 25 * a + 20 * w + 20 * b + 15 * c + d + 333 \in Int BY <1>8, <1>10, <1>11
<1> QED BY <1>9, <1>12
-----------------------------------------------------------------------------
(* Insights *)

\* An insight of a way is about its end and cites what the run has; without
\* any evidence it is flagged, and all that may be wrong with it are its hops.
LEMMA InsightOfWay ==
    ASSUME NEW edges, NEW rows, NEW relevant, NEW n \in 1..3, NEW path, Way(path, edges, n), NEW paths, path \in Range(paths)
    PROVE  LET insight == Interpret(path, rows, relevant) IN
           /\ insight.path = path
           /\ insight.cites \subseteq {r.id : r \in rows}
           /\ insight.cites = {} => InsightWarnings(insight, rows) # {}
           /\ InsightBlockers(insight, rows, paths) \subseteq {"hops"}
<1> DEFINE insight == Interpret(path, rows, relevant)
           ids == {r.id : r \in rows}
<1>1. path \in Seq(edges) /\ Len(path) = n /\ DOMAIN path = 1..n BY DEF Way
<1>2. insight.path = path /\ insight.affected = EndOf(path) /\ insight.cites = Resolved(path, rows) BY DEF Interpret
<1> HIDE DEF insight
<1>3. Resolved(path, rows) \subseteq ids BY DEF Resolved
<1>4. EndOf(path) \in NodesOf(path)
  <2>1. path # <<>> /\ n \in DOMAIN path BY <1>1
  <2>2. EndOf(path) = path[n].target BY <1>1, <2>1 DEF EndOf
  <2> QED BY <2>1, <2>2 DEF NodesOf
<1>5. InsightBlockers(insight, rows, paths) \subseteq {"hops"}
  BY <1>2, <1>3, <1>4 DEF InsightBlockers
<1>6. ASSUME insight.cites = {} PROVE InsightWarnings(insight, rows) # {}
  <2> DEFINE first == <<path[1]>>
  <2>1. 1 \in DOMAIN path BY <1>1
  <2>2. PathCites(first) = path[1].cites
    <3>1. DOMAIN first = {1} /\ first[1] = path[1] OBVIOUS
    <3> HIDE DEF first
    <3> QED BY <3>1 DEF PathCites
  <2>3. path[1].cites \subseteq PathCites(path) BY <2>1 DEF PathCites
  <2>4. Resolved(first, rows) = {} BY <1>2, <1>6, <2>2, <2>3 DEF Resolved
  <2>5. 1 \in HypothesisEdges(path, rows) BY <2>1, <2>4 DEF HypothesisEdges
  <2> QED BY <1>2, <2>5 DEF InsightWarnings
<1> QED BY <1>2, <1>3, <1>5, <1>6 DEF insight

\* What a payload shows of the graph and the evidence it is from.
Shows(p, edges, rows) ==
    /\ \A i \in DOMAIN p.paths : \E n \in 1..3 : Way(p.paths[i], edges, n)
    /\ \A i \in DOMAIN p.insights :
           /\ p.insights[i].path \in Range(p.paths)
           /\ p.insights[i].cites \subseteq {r.id : r \in rows}
           /\ p.insights[i].cites = {} => p.warnings # {}
    /\ p.blockers \subseteq {"hops"}

LEMMA ReasonedShows ==
    ASSUME NEW edges, edges \subseteq GraphEdgesOf, NEW rows, rows \subseteq EvidenceRows,
           NEW nodes, NEW riskTypes, NEW relevant
    PROVE  Shows(ReasonOver(edges, nodes, riskTypes, rows, relevant), edges, rows)
<1> DEFINE found == RetrieveCandidatePaths(edges, nodes, AllowedEdges(riskTypes))
           score == [path \in found |-> ScorePath(path, rows, relevant)]
           paths == Ranked(found, score, TopPaths)
           insights == InterpretPaths(paths, rows, relevant)
           B(i) == InsightBlockers(insights[i], rows, paths)
           W(i) == InsightWarnings(insights[i], rows)
           p == [paths |-> paths, insights |-> insights,
                 blockers |-> UNION {B(i) : i \in DOMAIN insights},
                 warnings |-> UNION {W(i) : i \in DOMAIN insights}]
<1>1. ReasonOver(edges, nodes, riskTypes, rows, relevant) = p BY DEF ReasonOver, RankPaths
<1>2. IsFiniteSet(found) /\ \A path \in found : \E n \in 1..3 : Way(path, edges, n)
  <2>1. IsFiniteSet(edges) BY ReasoningAssumption, FS_Subset
  <2> QED BY <2>1, PathsAreWays
<1> HIDE DEF found
<1>3. \A path \in found : score[path] \in Int
  <2> SUFFICES ASSUME NEW path \in found PROVE ScorePath(path, rows, relevant) \in Int
    OBVIOUS
  <2>1. PICK n \in 1..3 : Way(path, edges, n) BY <1>2
  <2> QED BY <2>1, ScoreIsNumber
<1> HIDE DEF score
<1>4. paths \in Seq(found) /\ Len(paths) \in Nat
  <2>1. TopPaths \in Nat BY ReasoningAssumption
  <2> QED BY <1>2, <1>3, <2>1, RankedHas
<1> HIDE DEF paths
<1>5. DOMAIN paths = 1..Len(paths) /\ \A i \in 1..Len(paths) : paths[i] \in found BY <1>4, ElementOfSeq
<1> DEFINE m == IF Len(paths) < TopInsights THEN Len(paths) ELSE TopInsights
<1>6. m \in Nat /\ m <= Len(paths) /\ \A i \in 1..m : i \in 1..Len(paths) BY <1>4, ReasoningAssumption
<1>7. DOMAIN insights = 1..m /\ \A i \in 1..m : insights[i] = Interpret(paths[i], rows, relevant)
  <2>1. insights = [i \in 1..m |-> Interpret(paths[i], rows, relevant)] BY DEF InterpretPaths
  <2> HIDE DEF insights, m
  <2> QED BY <2>1
<1> HIDE DEF insights, m
<1>8. ASSUME NEW i \in 1..m
      PROVE  /\ insights[i].path \in Range(paths) /\ insights[i].cites \subseteq {r.id : r \in rows}
             /\ insights[i].cites = {} => W(i) # {}
             /\ B(i) \subseteq {"hops"}
  <2> DEFINE path == paths[i]
  <2>1. path \in found /\ path \in Range(paths) BY <1>5, <1>6 DEF Range
  <2>2. PICK n \in 1..3 : Way(path, edges, n) BY <1>2, <2>1
  <2>3. insights[i] = Interpret(path, rows, relevant) BY <1>7
  <2> HIDE DEF path
  <2>4. LET insight == Interpret(path, rows, relevant) IN
           /\ insight.path = path
           /\ insight.cites \subseteq {r.id : r \in rows}
           /\ insight.cites = {} => InsightWarnings(insight, rows) # {}
           /\ InsightBlockers(insight, rows, paths) \subseteq {"hops"}
    BY <2>1, <2>2, InsightOfWay
  <2> QED BY <2>1, <2>3, <2>4
<1> HIDE DEF B, W
<1>9. p.paths = paths /\ p.insights = insights /\ p.blockers = UNION {B(i) : i \in DOMAIN insights}
      /\ p.warnings = UNION {W(i) : i \in DOMAIN insights}
  OBVIOUS
<1> HIDE DEF p
<1>10. \A i \in DOMAIN p.paths : \E n \in 1..3 : Way(p.paths[i], edges, n) BY <1>2, <1>5, <1>9
<1>11. p.blockers \subseteq {"hops"} BY <1>7, <1>8, <1>9
<1>12. \A i \in 1..m : insights[i].cites = {} => p.warnings # {} BY <1>7, <1>8, <1>9
<1> QED BY <1>1, <1>7, <1>8, <1>9, <1>10, <1>11, <1>12 DEF Shows
-----------------------------------------------------------------------------
(* The step *)

\* The choice of a run is from the graph and the evidence there may be, and
\* comes before its payload.
ReasoningInv ==
    /\ asked.edges \subseteq GraphEdgesOf /\ asked.rows \subseteq EvidenceRows
    /\ asked.edges = {} => payload = NoPayload
    /\ Shows(payload, asked.edges, asked.rows)

LEMMA NothingShown == \A edges, rows : Shows(NoPayload, edges, rows) /\ Shows(BackendRaised, edges, rows)
<1>1. /\ NoPayload.paths = <<>> /\ NoPayload.insights = <<>> /\ NoPayload.blockers = {}
      /\ BackendRaised.paths = <<>> /\ BackendRaised.insights = <<>> /\ BackendRaised.blockers = {}
  BY DEF NoPayload, BackendRaised
<1>2. DOMAIN <<>> = {} OBVIOUS
<1> QED BY <1>1, <1>2 DEF Shows

LEMMA ReasoningInitInv == ReasoningInit => ReasoningInv
<1> SUFFICES ASSUME ReasoningInit PROVE ReasoningInv
  OBVIOUS
<1>1. asked.edges = {} /\ asked.rows = {} /\ payload = NoPayload BY DEF ReasoningInit
<1> QED BY <1>1, NothingShown DEF ReasoningInv

LEMMA ReasoningSteps == ReasoningInv /\ [ReasoningNext]_reasoningVars => ReasoningInv'
<1> SUFFICES ASSUME ReasoningInv, [ReasoningNext]_reasoningVars PROVE ReasoningInv'
  OBVIOUS
<1>1. CASE ChooseRun
  <2>1. PICK edges \in SUBSET GraphEdgesOf \ {{}}, rows \in SUBSET EvidenceRows,
          types \in SUBSET DOMAIN EdgeTypes, relevant \in SUBSET GraphNodesOf :
           asked' = [edges |-> edges, rows |-> rows, riskTypes |-> types, relevant |-> relevant]
    BY <1>1 DEF ChooseRun
  <2>2. asked'.edges = edges /\ asked'.rows = rows BY <2>1
  <2>3. payload' = NoPayload BY <1>1 DEF ChooseRun, ReasoningInv
  <2> QED BY <2>2, <2>3, NothingShown DEF ReasoningInv
<1>2. CASE ReasonOnGraph
  <2>1. /\ asked' = asked /\ asked.edges # {}
        /\ \/ payload' = ReasonOver(asked.edges, GraphNodesOf, asked.riskTypes, asked.rows, asked.relevant)
           \/ payload' = BackendRaised
    BY <1>2 DEF ReasonOnGraph
  <2>2. Shows(ReasonOver(asked.edges, GraphNodesOf, asked.riskTypes, asked.rows, asked.relevant), asked.edges, asked.rows)
    BY ReasonedShows DEF ReasoningInv
  <2>3. Shows(payload', asked.edges, asked.rows) BY <2>1, <2>2, NothingShown
  <2> QED BY <2>1, <2>3 DEF ReasoningInv
<1>3. CASE UNCHANGED reasoningVars BY <1>3 DEF ReasoningInv, reasoningVars
<1> QED BY <1>1, <1>2, <1>3 DEF ReasoningNext

LEMMA ReasoningInvSuffices == ReasoningInv => ReasoningHolds
<1> SUFFICES ASSUME ReasoningInv PROVE ReasoningHolds
  OBVIOUS
<1>1. Shows(payload, asked.edges, asked.rows) BY DEF ReasoningInv
<1>2. ASSUME NEW path, NEW n \in 1..3, Way(path, asked.edges, n) PROVE IsWay(path)
  <2>1. /\ path \in Seq(asked.edges) /\ Len(path) = n /\ DOMAIN path = 1..n
        /\ \A i \in 1..n : path[i].source = (IF i = 1 THEN Company ELSE path[i - 1].target)
        /\ \A i \in 1..n : path[i].confidence >= MinEdgeConfidence
        /\ Cardinality(NodesOf(path)) = n + 1
    BY <1>2 DEF Way
  <2>2. \A i \in 1..n : path[i] \in asked.edges BY <2>1, ElementOfSeq
  <2>3. path[1].source = Company BY <2>1
  <2>4. \A i \in 2..n : i \in 1..n /\ i # 1 OBVIOUS
  <2>5. \A i \in 2..n : path[i].source = path[i - 1].target BY <2>1, <2>4
  <2> QED BY <2>1, <2>2, <2>3, <2>5 DEF IsWay, MaxHops
<1> QED BY <1>1, <1>2 DEF Shows, ReasoningHolds

\* A path of an evidence graph is a way through the graph, and an insight says
\* what the evidence of the run supports, or that it is a hypothesis.
THEOREM ReasoningSound == ReasoningSpec => []ReasoningHolds
<1>1. ReasoningSpec => []ReasoningInv
  BY ReasoningInitInv, ReasoningSteps, PTL DEF ReasoningSpec
<1> QED BY <1>1, ReasoningInvSuffices, PTL
-----------------------------------------------------------------------------
(* CompanyAnalysis *)

BriefIsSound ==
    /\ \A line \in report.lines :
         /\ line.refs # {}
         /\ \A n \in line.refs : report.sources[n] \in line.of.cites
    /\ \A i, j \in DOMAIN report.sources : report.sources[i] = report.sources[j] => i = j
    /\ \A i \in DOMAIN claims : claims[i].cites = {} =>
         /\ claims[i].id \in report.unsupported
         /\ \A line \in report.lines : line.of # claims[i]

\* What the steps so far have loaded and collected are lists, and there is no
\* report before the last step has made a sound one.
AnalysisInv ==
    /\ arguments.transcripts \in Nat
    /\ raw = [filings |-> raw.filings, calls |-> raw.calls, web |-> raw.web]
    /\ IsList(raw.filings) /\ IsList(raw.calls) /\ IsList(raw.web)
    /\ IsList(evidence)
    /\ report = NoBrief \/ stage = "done"
    /\ report # NoBrief => BriefIsSound

LEMMA AnalysisInitInv == AnalysisInit => AnalysisInv
<1> SUFFICES ASSUME AnalysisInit PROVE AnalysisInv
  OBVIOUS
<1>1. arguments.transcripts \in Nat BY AnalysisAssumption DEF AnalysisInit
<1>2. /\ raw = [filings |-> raw.filings, calls |-> raw.calls, web |-> raw.web]
      /\ raw.filings = <<>> /\ raw.calls = <<>> /\ raw.web = <<>> /\ evidence = <<>> /\ report = NoBrief
  BY DEF AnalysisInit
<1> QED BY <1>1, <1>2, NothingIsAList DEF AnalysisInv

LEMMA GivenIsList ==
    ASSUME NEW i \in 1..3, NEW year, NEW failed
    PROVE  IsList(GivenBy(FilingSources[i], year, failed))
<1> DEFINE source == FilingSources[i]
           there == FilingTexts[source]
           arrived == Selected(there, {k \in DOMAIN there : there[k].text \notin failed})
           ofYear == {k \in DOMAIN arrived : arrived[k].year = year}
           first == CHOOSE k \in ofYear : \A j \in ofYear : k <= j
<1>1. IsList(there) BY AnalysisAssumption DEF IsList, In, ToSet
<1>2. IsList(arrived)
  <2> HIDE DEF there
  <2> QED BY <1>1, SelectedIsList
<1>3. GivenBy(source, year, failed) =
        IF source # "corpus" THEN IF year # 0 /\ ofYear # {} THEN SubSeq(arrived, 1, first) ELSE arrived
        ELSE IF arrived = <<>> THEN <<>>
        ELSE IF year = 0 THEN <<arrived[1]>>
        ELSE IF ofYear = {} THEN <<>> ELSE <<arrived[first]>>
  BY DEF GivenBy
<1> HIDE DEF arrived, there, source
<1>4. ASSUME ofYear # {} PROVE IsList(SubSeq(arrived, 1, first))
  <2>1. DOMAIN arrived = 1..Len(arrived) /\ Len(arrived) \in Nat BY <1>2 DEF IsList
  <2>2. first \in ofYear
    <3>1. ofYear \subseteq Nat BY <2>1
    <3> HIDE DEF ofYear
    <3> QED BY <1>4, <3>1, FirstIndex
  <2>3. first \in Nat /\ first <= Len(arrived) BY <2>1, <2>2
  <2> HIDE DEF first
  <2> QED BY <1>2, <2>3, PrefixIsList
<1>5. \A x : IsList(<<x>>)
  <2> TAKE x
  <2>1. <<x>> \in Seq({x}) OBVIOUS
  <2> QED BY <2>1, ListOver
<1> HIDE DEF ofYear, first
<1> QED BY <1>2, <1>3, <1>4, <1>5, NothingIsAList DEF source

LEMMA FirstNonEmptyIsList ==
    ASSUME NEW s, s = [i \in 1..3 |-> s[i]], \A i \in 1..3 : IsList(s[i])
    PROVE  IsList(FirstNonEmpty(s))
<1> DEFINE some == {i \in DOMAIN s : s[i] # <<>>}
<1>1. some \subseteq 1..3 OBVIOUS
<1>2. CASE some = {} BY <1>2, NothingIsAList DEF FirstNonEmpty
<1>3. CASE some # {}
  <2>1. FirstNonEmpty(s) = s[CHOOSE i \in some : \A j \in some : i <= j] BY <1>3 DEF FirstNonEmpty
  <2>2. (CHOOSE i \in some : \A j \in some : i <= j) \in some
    <3>1. some \subseteq Nat BY <1>1
    <3> HIDE DEF some
    <3> QED BY <1>3, <3>1, FirstIndex
  <2> HIDE DEF some
  <2> QED BY <1>1, <2>1, <2>2
<1> QED BY <1>2, <1>3

LEMMA AnalysisNextInv == AnalysisInv /\ [AnalysisNext]_analysisVars => AnalysisInv'
<1> SUFFICES ASSUME AnalysisInv, [AnalysisNext]_analysisVars PROVE AnalysisInv'
  OBVIOUS
<1> USE DEF IsList
<1>u. ASSUME UNCHANGED analysisVars PROVE AnalysisInv'
  BY <1>u DEF analysisVars, AnalysisInv, BriefIsSound
<1> USE DEF AnalysisInv
\* A step that touches neither report nor arguments and keeps lists lists.
<1>k. ASSUME NEW s \in {"filings", "calls", "web", "supply", "risk", "sentiment", "policy", "merge",
                        "opportunity", "critic"},
             stage = s, UNCHANGED <<arguments, report>>, IsList(evidence'),
             raw' = [filings |-> raw'.filings, calls |-> raw'.calls, web |-> raw'.web],
             IsList(raw'.filings), IsList(raw'.calls), IsList(raw'.web)
      PROVE  AnalysisInv'
  <2>1. report = NoBrief BY <1>k
  <2> QED BY <1>k, <2>1
<1> HIDE DEF IsList
<1>1. CASE LoadFilings
  <2>1. PICK failed : LET filings == FirstNonEmpty([i \in 1..3 |-> GivenBy(FilingSources[i], arguments.year, failed)])
                      IN  raw' = [raw EXCEPT !.filings = [i \in DOMAIN filings |-> filings[i].text]]
    BY <1>1 DEF LoadFilings
  <2> DEFINE given == [i \in 1..3 |-> GivenBy(FilingSources[i], arguments.year, failed)]
             filings == FirstNonEmpty(given)
             texts == [i \in DOMAIN filings |-> filings[i].text]
  <2>2. \A i \in 1..3 : IsList(given[i]) BY GivenIsList
  <2>3. IsList(filings)
    <3>1. given = [i \in 1..3 |-> given[i]] OBVIOUS
    <3> HIDE DEF given
    <3> QED BY <2>2, <3>1, FirstNonEmptyIsList
  <2>4. raw' = [raw EXCEPT !.filings = texts] BY <2>1
  <2> HIDE DEF filings
  <2>5. IsList(texts)
    <3>1. texts = [i \in DOMAIN filings |-> texts[i]] OBVIOUS
    <3> HIDE DEF texts
    <3> QED BY <2>3, <3>1, ListByList
  <2> HIDE DEF texts
  <2>6. raw' = [filings |-> texts, calls |-> raw.calls, web |-> raw.web] BY <2>4
  <2>7. /\ raw' = [filings |-> raw'.filings, calls |-> raw'.calls, web |-> raw'.web]
        /\ IsList(raw'.filings) /\ IsList(raw'.calls) /\ IsList(raw'.web)
    BY <2>5, <2>6
  <2>8. stage = "filings" /\ UNCHANGED <<arguments, report, evidence>> BY <1>1 DEF LoadFilings, At
  <2> QED BY <1>k, <2>7, <2>8
<1>2. CASE LoadTranscripts
  <2>1. PICK usable : LET Calls(p) == IF p \in usable
                         THEN SubSeq(CallTexts[p], 1, IF Len(CallTexts[p]) < arguments.transcripts THEN Len(CallTexts[p]) ELSE arguments.transcripts)
                         ELSE <<>>
         IN  raw' = [raw EXCEPT !.calls = FirstNonEmpty([i \in 1..3 |-> Calls(TranscriptProviders[i])])]
    BY <1>2 DEF LoadTranscripts
  <2> DEFINE Calls(p) == IF p \in usable
                         THEN SubSeq(CallTexts[p], 1, IF Len(CallTexts[p]) < arguments.transcripts THEN Len(CallTexts[p]) ELSE arguments.transcripts)
                         ELSE <<>>
             given == [i \in 1..3 |-> Calls(TranscriptProviders[i])]
             calls == FirstNonEmpty(given)
  <2>2. ASSUME NEW i \in 1..3 PROVE IsList(given[i])
    <3> DEFINE texts == CallTexts[TranscriptProviders[i]]
               n == IF Len(texts) < arguments.transcripts THEN Len(texts) ELSE arguments.transcripts
    <3>1. IsList(texts) BY AnalysisAssumption DEF IsList, In, ToSet
    <3>2. given[i] = IF TranscriptProviders[i] \in usable THEN SubSeq(texts, 1, n) ELSE <<>> OBVIOUS
    <3> HIDE DEF given, texts
    <3>3. n \in Nat /\ n <= Len(texts) BY <3>1 DEF IsList
    <3> HIDE DEF n
    <3>4. IsList(SubSeq(texts, 1, n)) BY <3>1, <3>3, PrefixIsList
    <3> QED BY <3>2, <3>4, NothingIsAList
  <2>3. IsList(calls)
    <3>1. given = [i \in 1..3 |-> given[i]] OBVIOUS
    <3> HIDE DEF given
    <3> QED BY <2>2, <3>1, FirstNonEmptyIsList
  <2>4. raw' = [raw EXCEPT !.calls = calls] BY <2>1
  <2> HIDE DEF calls
  <2>6. raw' = [filings |-> raw.filings, calls |-> calls, web |-> raw.web] BY <2>4
  <2>7. /\ raw' = [filings |-> raw'.filings, calls |-> raw'.calls, web |-> raw'.web]
        /\ IsList(raw'.filings) /\ IsList(raw'.calls) /\ IsList(raw'.web)
    BY <2>3, <2>6
  <2>8. stage = "calls" /\ UNCHANGED <<arguments, report, evidence>> BY <1>2 DEF LoadTranscripts, At
  <2> QED BY <1>k, <2>7, <2>8
<1>3. CASE LoadWeb
  <2>1. PICK found \in {<<>>, WebTexts} : raw' = [raw EXCEPT !.web = found]
    <3>1. \E found \in IF arguments.web THEN {<<>>, WebTexts} ELSE {<<>>} : raw' = [raw EXCEPT !.web = found]
      BY <1>3 DEF LoadWeb
    <3> QED BY <3>1
  <2>2. IsList(WebTexts) BY AnalysisAssumption DEF IsList, In, ToSet
  <2>3. IsList(found) BY <2>2, NothingIsAList
  <2>6. raw' = [filings |-> raw.filings, calls |-> raw.calls, web |-> found] BY <2>1
  <2>7. /\ raw' = [filings |-> raw'.filings, calls |-> raw'.calls, web |-> raw'.web]
        /\ IsList(raw'.filings) /\ IsList(raw'.calls) /\ IsList(raw'.web)
    BY <2>3, <2>6
  <2>8. stage = "web" /\ UNCHANGED <<arguments, report, evidence>> BY <1>3 DEF LoadWeb, At
  <2> QED BY <1>k, <2>7, <2>8
\* Agents: what is added to the evidence is a list.
<1>e. ASSUME NEW c, NEW e, Extend(c, e), IsList(e) PROVE IsList(evidence')
  <2>1. IsList(evidence) OBVIOUS
  <2>2. IsList(evidence \o e) BY <1>e, <2>1, JoinedHas DEF IsList
  <2>3. evidence' = evidence \o e \/ evidence' = evidence BY <1>e DEF Extend
  <2> QED BY <2>1, <2>2, <2>3
<1>j. ASSUME NEW s, NEW t, IsList(s), IsList(t) PROVE IsList(s \o t)
  BY <1>j, JoinedHas DEF IsList
<1>r. ASSUME NEW s, IsList(s) PROVE IsList(Rows(s))
  <2>1. Rows(s) = [i \in DOMAIN s |-> Rows(s)[i]] BY DEF Rows
  <2> QED BY <1>r, <2>1, ListByList
<1>4. CASE RunSupplyRules
  <2> DEFINE found == Mentioning("supply", AllTexts)
             more == [i \in DOMAIN found |-> Sentence(found[i])]
             theirs == [i \in DOMAIN found |-> Claim(<<"supply", found[i]>>, "supply_chain", {Sentence(found[i])})]
  <2>1. IsList(raw.web \o raw.filings) BY <1>j
  <2>2. IsList(AllTexts) BY <1>j, <2>1 DEF AllTexts
  <2>3. IsList(found)
    <3> DEFINE all == AllTexts
    <3> HIDE DEF all
    <3>1. IsList(all) BY <2>2 DEF all
    <3>2. IsList(Mentioning("supply", all)) BY <3>1, SelectedIsList DEF Mentioning
    <3> QED BY <3>2 DEF all
  <2>4. Extend(theirs, more) BY <1>4 DEF RunSupplyRules
  <2> HIDE DEF found
  <2>5. IsList(more)
    <3>1. more = [i \in DOMAIN found |-> more[i]] OBVIOUS
    <3> HIDE DEF more
    <3> QED BY <2>3, <3>1, ListByList
  <2> HIDE DEF more, theirs
  <2>6. IsList(evidence') BY <1>e, <2>4, <2>5
  <2>7. stage = "supply" /\ UNCHANGED <<arguments, raw, report>> BY <1>4 DEF RunSupplyRules, At
  <2> QED BY <1>k, <2>6, <2>7
<1>5. CASE RunRisks
  <2> DEFINE texts == raw.filings \o raw.calls \o raw.web
  <2>1. IsList(raw.filings \o raw.calls) BY <1>j
  <2>2. IsList(texts) BY <1>j, <2>1
  <2>3. Extend(RiskSignals(texts), Rows(texts)) BY <1>5 DEF RunRisks
  <2> HIDE DEF texts
  <2>4. IsList(Rows(texts)) BY <1>r, <2>2
  <2>6. IsList(evidence') BY <1>e, <2>3, <2>4
  <2>7. stage = "risk" /\ UNCHANGED <<arguments, raw, report>> BY <1>5 DEF RunRisks, At
  <2> QED BY <1>k, <2>6, <2>7
<1>6. CASE RunSentiment
  <2>1. PICK c : Extend(c, <<>>) BY <1>6 DEF RunSentiment
  <2>6. IsList(evidence') BY <1>e, <2>1, NothingIsAList
  <2>7. stage = "sentiment" /\ UNCHANGED <<arguments, raw, report>> BY <1>6 DEF RunSentiment, At
  <2> QED BY <1>k, <2>6, <2>7
<1>7. CASE RunPolicy
  <2>1. Extend(PolicyClaims(<<>>), <<>>) BY <1>7 DEF RunPolicy
  <2>6. IsList(evidence') BY <1>e, <2>1, NothingIsAList
  <2>7. stage = "policy" /\ UNCHANGED <<arguments, raw, report>> BY <1>7 DEF RunPolicy, At
  <2> QED BY <1>k, <2>6, <2>7
<1>8. CASE Merge
  <2>1. IsList(Deduplicated(evidence)) BY SelectedIsList DEF Deduplicated
  <2>2. IsList(WebRows) BY <1>r DEF WebRows
  <2>3. evidence' = WebRows \o Deduplicated(evidence) BY <1>8 DEF Merge
  <2>6. IsList(evidence') BY <1>j, <2>1, <2>2, <2>3
  <2>7. stage = "merge" /\ UNCHANGED <<arguments, raw, report>> BY <1>8 DEF Merge, At
  <2> QED BY <1>k, <2>6, <2>7
<1>9. CASE DiscoverOpportunities
  <2>1. stage = "opportunity" /\ UNCHANGED <<arguments, raw, evidence, report>> BY <1>9 DEF DiscoverOpportunities, At
  <2> QED BY <1>k, <2>1
<1>10. CASE Criticise
  <2>1. stage = "critic" /\ UNCHANGED <<arguments, raw, evidence, report>> BY <1>10 DEF Criticise, At
  <2> QED BY <1>k, <2>1
<1>11. CASE WriteBrief
  <2> DEFINE sources == Deduplicated(evidence)
  <2>1. /\ report'.lines = LinesOf(claims, sources) \cup LinesOf(hypotheses, sources)
        /\ report'.sources = sources
        /\ report'.unsupported = {claims[i].id : i \in {i \in DOMAIN claims : claims[i].cites = {}}}
        /\ UNCHANGED <<arguments, raw, claims, evidence>>
        /\ stage = "report" /\ stage' = StageAfter("report")
    BY <1>11 DEF WriteBrief, At
  <2>2. stage' = "done"
    <3>1. DOMAIN Stages = 1..12 /\ Stages[11] = "report" /\ Stages[12] = "done" BY DEF Stages
    <3>2. \A i \in 1..12 : Stages[i] = "report" => i = 11 BY DEF Stages
    <3>3. (CHOOSE i \in DOMAIN Stages : Stages[i] = "report") = 11 BY <3>1, <3>2
    <3>4. StageAfter("report") = Stages[1 + 11] BY <3>3 DEF StageAfter
    <3>5. 1 + 11 = 12 OBVIOUS
    <3> QED BY <2>1, <3>1, <3>4, <3>5
  <2>3. IsList(sources) /\ OnceEach(sources) BY SelectedIsList, FirstsOnce DEF Deduplicated
  <2>4. DOMAIN sources = 1..Len(sources) BY <2>3 DEF IsList
  <2> HIDE DEF sources
  <2>5. ASSUME NEW items, NEW line \in LinesOf(items, sources)
        PROVE  /\ line.refs # {} /\ \A n \in line.refs : sources[n] \in line.of.cites
               /\ line.of.cites # {}
    <3>1. PICK i \in DOMAIN items : line = [of |-> items[i], refs |-> NumbersOf(items[i].cites, sources)]
                                    /\ NumbersOf(items[i].cites, sources) # {}
      BY <2>5 DEF LinesOf
    <3>2. line.of = items[i] /\ line.refs = NumbersOf(items[i].cites, sources) BY <3>1
    <3>3. \A n \in line.refs : sources[n] \in items[i].cites BY <3>2 DEF NumbersOf
    <3> QED BY <3>1, <3>2, <3>3
  <2>6. ASSUME NEW line \in report'.lines
        PROVE  /\ line.refs # {} /\ \A n \in line.refs : report'.sources[n] \in line.of.cites
               /\ line.of.cites # {}
    BY <2>1, <2>5, <2>6
  <2>7. \A i, j \in DOMAIN report'.sources : report'.sources[i] = report'.sources[j] => i = j
    BY <2>1, <2>3, <2>4 DEF OnceEach
  <2>8. ASSUME NEW i \in DOMAIN claims', claims'[i].cites = {}
        PROVE  claims'[i].id \in report'.unsupported /\ \A line \in report'.lines : line.of # claims'[i]
    BY <2>1, <2>6, <2>8
  <2>9. BriefIsSound' BY <2>6, <2>7, <2>8 DEF BriefIsSound
  <2> QED BY <2>1, <2>2, <2>9
<1> QED BY <1>u, <1>1, <1>2, <1>3, <1>4, <1>5, <1>6, <1>7, <1>8, <1>9, <1>10, <1>11 DEF AnalysisNext

\* However sources and agents failed, the report's lines have references to the
\* sources they are about (ReportAgent.generate, CriticAgent).
THEOREM ReportSound == AnalysisSpec => []ReportAssertsEvidence
<1>1. AnalysisInv => ReportAssertsEvidence
  <2> SUFFICES ASSUME AnalysisInv PROVE ReportAssertsEvidence
    OBVIOUS
  <2>1. CASE report = NoBrief
    <3>1. report.lines = {} /\ DOMAIN report.sources = {} BY <2>1 DEF NoBrief
    <3> QED BY <2>1, <3>1 DEF ReportAssertsEvidence
  <2>2. CASE report # NoBrief BY <2>2 DEF AnalysisInv, BriefIsSound, ReportAssertsEvidence
  <2> QED BY <2>1, <2>2
<1> QED BY <1>1, AnalysisInitInv, AnalysisNextInv, PTL DEF AnalysisSpec

-----------------------------------------------------------------------------
(* The graph of a supply-chain run: what adding nodes and links gives *)

OnceBy(s, id) == \A i, j \in DOMAIN s : id[s[i]] = id[s[j]] => i = j
IdsBy(s, id) == {id[x] : x \in Range(s)}

\* a, and the first of each id in b that a has not.
LEMMA AddedBy ==
    ASSUME NEW S, NEW a \in Seq(S), NEW b \in Seq(S), NEW id, NEW W,
           W = {i \in DOMAIN b : id[b[i]] \notin IdsBy(a, id) /\ \A j \in 1..(i - 1) : id[b[j]] # id[b[i]]}
    PROVE  /\ a \o Selected(b, W) \in Seq(S)
           /\ IdsBy(a \o Selected(b, W), id) = IdsBy(a, id) \cup IdsBy(b, id)
           /\ OnceBy(a, id) => OnceBy(a \o Selected(b, W), id)
<1> DEFINE key == [i \in DOMAIN b |-> id[b[i]]]
           K == IdsBy(a, id)
           r == Selected(b, W)
           c == a \o r
<1>1. DOMAIN a = 1..Len(a) /\ DOMAIN b = 1..Len(b) /\ Len(a) \in Nat /\ Len(b) \in Nat
  OBVIOUS
<1>2. W = {i \in DOMAIN b : key[i] \notin K /\ \A j \in 1..(i - 1) : key[j] # key[i]}
  <2>1. ASSUME NEW i \in DOMAIN b PROVE \A j \in 1..(i - 1) : j \in DOMAIN b
    BY <1>1
  <2> QED BY <2>1
<1> HIDE DEF key
<1>4. r \in Seq(S) /\ \E at : IsFirsts(r, b, key, K, at)
  BY FirstsBy, <1>2
<1>5. PICK at : IsFirsts(r, b, key, K, at)
  BY <1>4
<1> HIDE DEF r
<1>6. /\ at \in [1..Len(r) -> 1..Len(b)] /\ Len(r) \in Nat /\ DOMAIN r = 1..Len(r)
      /\ \A k \in 1..Len(r) : r[k] = b[at[k]] /\ id[r[k]] = key[at[k]] /\ id[r[k]] \notin K
      /\ \A j, k \in 1..Len(r) : id[r[j]] = id[r[k]] => j = k
      /\ \A i \in 1..Len(b) : id[b[i]] \notin K => \E k \in 1..Len(r) : id[r[k]] = id[b[i]]
  <2>1. \A i \in 1..Len(b) : key[i] = id[b[i]]
    BY <1>1 DEF key
  <2>2. at \in [1..Len(r) -> 1..Len(b)]
    BY <1>5 DEF IsFirsts
  <2>3. \A k \in 1..Len(r) : r[k] = b[at[k]] /\ id[r[k]] = key[at[k]] /\ id[r[k]] \notin K
    BY ONLY <1>5, <2>1, <2>2, SMTT(30) DEF IsFirsts
  <2>4. \A j, k \in 1..Len(r) : id[r[j]] = id[r[k]] => j = k
    BY <1>5, <2>3 DEF IsFirsts
  <2>5. \A i \in 1..Len(b) : id[b[i]] \notin K => \E k \in 1..Len(r) : id[r[k]] = id[b[i]]
    BY <1>5, <2>1, <2>3 DEF IsFirsts
  <2> QED BY <2>2, <2>3, <2>4, <2>5, <1>4
<1>7. /\ c \in Seq(S) /\ Len(c) = Len(a) + Len(r) /\ DOMAIN c = 1..(Len(a) + Len(r))
      /\ \A k \in 1..Len(a) : c[k] = a[k] /\ k \in DOMAIN c
      /\ \A i \in 1..Len(r) : Len(a) + i \in DOMAIN c /\ c[Len(a) + i] = r[i]
      /\ \A k \in DOMAIN c : k \in 1..Len(a) \/
              (k > Len(a) /\ k - Len(a) \in 1..Len(r) /\ c[k] = r[k - Len(a)])
  BY <1>4, Concatenated
<1> HIDE DEF c
<1>8. ASSUME NEW k \in DOMAIN c PROVE id[c[k]] \in IdsBy(a, id) \cup IdsBy(b, id)
  <2>1. CASE k \in 1..Len(a)
    BY <2>1, <1>7, <1>1 DEF IdsBy, Range
  <2>2. CASE k \notin 1..Len(a)
    <3>1. PICK i \in 1..Len(r) : c[k] = r[i]
      BY <2>2, <1>7
    <3>2. r[i] = b[at[i]] /\ at[i] \in DOMAIN b
      BY <3>1, <1>6, <1>1
    <3> QED BY <3>1, <3>2 DEF IdsBy, Range
  <2> QED BY <2>1, <2>2
<1>9. ASSUME NEW x \in IdsBy(a, id) PROVE x \in IdsBy(c, id)
  <2>1. PICK i \in 1..Len(a) : x = id[a[i]]
    BY <1>1 DEF IdsBy, Range
  <2>2. c[i] = a[i] /\ i \in DOMAIN c
    BY <1>7
  <2> QED BY <2>1, <2>2 DEF IdsBy, Range
<1>10. ASSUME NEW x \in IdsBy(b, id) PROVE x \in IdsBy(c, id)
  <2>1. PICK i \in 1..Len(b) : x = id[b[i]]
    BY <1>1 DEF IdsBy, Range
  <2>2. CASE id[b[i]] \in K
    BY <2>1, <2>2, <1>9
  <2>3. CASE id[b[i]] \notin K
    <3>1. PICK k \in 1..Len(r) : id[r[k]] = id[b[i]]
      BY <2>3, <1>6
    <3>2. Len(a) + k \in DOMAIN c /\ c[Len(a) + k] = r[k]
      BY <1>7
    <3> QED BY <2>1, <3>1, <3>2 DEF IdsBy, Range
  <2> QED BY <2>2, <2>3
<1>11. IdsBy(c, id) = IdsBy(a, id) \cup IdsBy(b, id)
  <2>1. IdsBy(c, id) \subseteq IdsBy(a, id) \cup IdsBy(b, id)
    <3> SUFFICES ASSUME NEW x \in IdsBy(c, id) PROVE x \in IdsBy(a, id) \cup IdsBy(b, id)
      OBVIOUS
    <3>1. PICK k \in DOMAIN c : x = id[c[k]]
      BY DEF IdsBy, Range
    <3> QED BY <3>1, <1>8
  <2> QED BY <2>1, <1>9, <1>10
<1>12. ASSUME OnceBy(a, id), NEW i \in DOMAIN c, NEW j \in DOMAIN c, id[c[i]] = id[c[j]], i < j PROVE FALSE
  <2>1. \A k \in 1..Len(a) : id[c[k]] \in K
    BY <1>7, <1>1 DEF IdsBy, Range
  <2>2. \A k \in 1..Len(r) : id[r[k]] \notin K
    BY <1>6
  <2>3. CASE i \in 1..Len(a) /\ j \in 1..Len(a)
    BY <2>3, <1>7, <1>12, <1>1 DEF OnceBy
  <2>4. CASE i \in 1..Len(a) /\ j \notin 1..Len(a)
    BY <2>4, <2>1, <2>2, <1>7, <1>12
  <2>5. CASE i \notin 1..Len(a)
    <3>1. j \notin 1..Len(a)
      BY <2>5, <1>12, <1>7, <1>1
    <3>2. i - Len(a) \in 1..Len(r) /\ j - Len(a) \in 1..Len(r) /\ id[r[i - Len(a)]] = id[r[j - Len(a)]]
      BY <2>5, <3>1, <1>7, <1>12
    <3>3. i - Len(a) = j - Len(a)
      BY <3>2, <1>6
    <3> QED BY <3>3, <1>12, <1>7, <1>1, <1>6
  <2> QED BY <2>3, <2>4, <2>5
<1>13. OnceBy(a, id) => OnceBy(c, id)
  <2>1. \A i, j \in DOMAIN c : i \in Int /\ j \in Int
    BY <1>7, <1>1, <1>6
  <2> QED BY <1>12, <2>1 DEF OnceBy
<1> QED BY <1>7, <1>11, <1>13 DEF c, r

Distinct(nodes) == \A i, j \in DOMAIN nodes : nodes[i].id = nodes[j].id => i = j
DistinctLinks(links) == \A i, j \in DOMAIN links : LinkId(links[i]) = LinkId(links[j]) => i = j

\* Nodes are known by their ids.
LEMMA ByNodeId ==
    ASSUME NEW S, NEW s \in Seq(S), NEW id, id = [n \in S |-> n.id]
    PROVE  /\ \A i \in DOMAIN s : id[s[i]] = s[i].id
           /\ NodeIds(s) = IdsBy(s, id) /\ (Distinct(s) <=> OnceBy(s, id))
<1>1. \A i \in DOMAIN s : s[i] \in S
  OBVIOUS
<1>2. \A i \in DOMAIN s : id[s[i]] = s[i].id
  BY <1>1
<1>3. \A x \in Range(s) : id[x] = x.id
  BY <1>2 DEF Range
<1> QED BY <1>2, <1>3 DEF NodeIds, IdsBy, Distinct, OnceBy

\* Links are known by theirs.
LEMMA ByLinkId ==
    ASSUME NEW S, NEW s \in Seq(S), NEW id, id = [l \in S |-> LinkId(l)]
    PROVE  /\ \A i \in DOMAIN s : id[s[i]] = LinkId(s[i])
           /\ LinkIds(s) = IdsBy(s, id) /\ (DistinctLinks(s) <=> OnceBy(s, id))
<1>1. \A i \in DOMAIN s : s[i] \in S
  OBVIOUS
<1>2. \A i \in DOMAIN s : id[s[i]] = LinkId(s[i])
  BY <1>1
<1>3. \A x \in Range(s) : id[x] = LinkId(x)
  BY <1>2 DEF Range
<1>4. LinkIds(s) = IdsBy(s, id)
  BY <1>3 DEF LinkIds, IdsBy
<1>5. DistinctLinks(s) <=> OnceBy(s, id)
  <2>1. \A i, j \in DOMAIN s : (LinkId(s[i]) = LinkId(s[j])) <=> (id[s[i]] = id[s[j]])
    BY <1>2
  <2> QED BY ONLY <2>1 DEF DistinctLinks, OnceBy
<1> QED BY <1>2, <1>4, <1>5

\* Adding nodes adds their ids, and keeps ids distinct.
LEMMA AddedNodes ==
    ASSUME NEW S, NEW a \in Seq(S), NEW b \in Seq(S)
    PROVE  /\ AddNodes(a, b) \in Seq(S)
           /\ NodeIds(AddNodes(a, b)) = NodeIds(a) \cup NodeIds(b)
           /\ Distinct(a) => Distinct(AddNodes(a, b))
<1> DEFINE id == [n \in S |-> n.id]
           W == {i \in DOMAIN b : b[i].id \notin NodeIds(a) /\ \A j \in 1..(i - 1) : b[j].id # b[i].id}
<1>1. /\ \A i \in DOMAIN b : id[b[i]] = b[i].id
      /\ NodeIds(a) = IdsBy(a, id) /\ NodeIds(b) = IdsBy(b, id) /\ (Distinct(a) <=> OnceBy(a, id))
  BY ByNodeId
<1>2. \A i \in DOMAIN b : \A j \in 1..(i - 1) : j \in DOMAIN b
  OBVIOUS
<1> HIDE DEF id
<1>3. W = {i \in DOMAIN b : id[b[i]] \notin IdsBy(a, id) /\ \A j \in 1..(i - 1) : id[b[j]] # id[b[i]]}
  BY <1>1, <1>2
<1>4. AddNodes(a, b) = a \o Selected(b, W)
  BY DEF AddNodes
<1> HIDE DEF W
<1>5. /\ AddNodes(a, b) \in Seq(S)
      /\ IdsBy(AddNodes(a, b), id) = IdsBy(a, id) \cup IdsBy(b, id)
      /\ OnceBy(a, id) => OnceBy(AddNodes(a, b), id)
  BY AddedBy, <1>3, <1>4
<1>6. /\ NodeIds(AddNodes(a, b)) = IdsBy(AddNodes(a, b), id)
      /\ Distinct(AddNodes(a, b)) <=> OnceBy(AddNodes(a, b), id)
  BY ByNodeId, <1>5 DEF id
<1> QED BY <1>1, <1>5, <1>6

\* Adding links does the same.
LEMMA AddedLinks ==
    ASSUME NEW S, NEW a \in Seq(S), NEW b \in Seq(S)
    PROVE  /\ AddLinks(a, b) \in Seq(S)
           /\ LinkIds(AddLinks(a, b)) = LinkIds(a) \cup LinkIds(b)
           /\ DistinctLinks(a) => DistinctLinks(AddLinks(a, b))
<1> DEFINE id == [l \in S |-> LinkId(l)]
           W == {i \in DOMAIN b : LinkId(b[i]) \notin LinkIds(a) /\ \A j \in 1..(i - 1) : LinkId(b[j]) # LinkId(b[i])}
<1>1. /\ \A i \in DOMAIN b : id[b[i]] = LinkId(b[i])
      /\ LinkIds(a) = IdsBy(a, id) /\ LinkIds(b) = IdsBy(b, id) /\ (DistinctLinks(a) <=> OnceBy(a, id))
  BY ByLinkId
<1>2. \A i \in DOMAIN b : \A j \in 1..(i - 1) : j \in DOMAIN b
  OBVIOUS
<1> HIDE DEF id
<1>3. W = {i \in DOMAIN b : id[b[i]] \notin IdsBy(a, id) /\ \A j \in 1..(i - 1) : id[b[j]] # id[b[i]]}
  BY <1>1, <1>2, SMTT(30)
<1>4. AddLinks(a, b) = a \o Selected(b, W)
  BY DEF AddLinks
<1> HIDE DEF W
<1>5. /\ AddLinks(a, b) \in Seq(S)
      /\ IdsBy(AddLinks(a, b), id) = IdsBy(a, id) \cup IdsBy(b, id)
      /\ OnceBy(a, id) => OnceBy(AddLinks(a, b), id)
  BY AddedBy, <1>3, <1>4
<1>6. /\ LinkIds(AddLinks(a, b)) = IdsBy(AddLinks(a, b), id)
      /\ DistinctLinks(AddLinks(a, b)) <=> OnceBy(AddLinks(a, b), id)
  BY ByLinkId, <1>5 DEF id
<1> QED BY <1>1, <1>5, <1>6

-----------------------------------------------------------------------------
(* Ranks: what explains a product ranks between it and the companies *)

FixtureLevel == CHOOSE level \in [FixtureEnds -> 0..Len(Fixture.links)] :
            \A l \in Range(Fixture.links) : level[Canonical(l.source)] < level[Canonical(l.target)]

TopLevel == Len(Fixture.links) + 2

\* Products first, then what they require, and companies last.
Rank == [id \in ChainIds |->
            IF id \in ProductIds THEN 0 ELSE IF id \in CompanyIds THEN TopLevel
            ELSE IF Canonical(id) \in FixtureEnds THEN FixtureLevel[Canonical(id)] + 1 ELSE 1]

\* The rows of the bundled graph.
LEMMA FixtureTyped ==
    /\ Fixture.nodes \in Seq(FixtureNodes)
    /\ Fixture.links \in Seq({l \in FixtureLinks : l.confirmed => l.cites # {}})
    /\ Len(Fixture.links) \in Nat
    /\ \A l \in Range(Fixture.links) : l \in FixtureLinks
BY FixtureAssumption DEF Range

\* Every bundled link climbs a level.
LEMMA LevelsRise ==
    /\ FixtureLevel \in [FixtureEnds -> 0..Len(Fixture.links)]
    /\ \A l \in Range(Fixture.links) : FixtureLevel[Canonical(l.source)] < FixtureLevel[Canonical(l.target)]
<1>1. \E level \in [FixtureEnds -> 0..Len(Fixture.links)] :
        \A l \in Range(Fixture.links) : level[Canonical(l.source)] < level[Canonical(l.target)]
  BY FixtureAssumption
<1> QED BY <1>1 DEF FixtureLevel

\* Canonical keeps the type of an id, and is idempotent.
LEMMA CanonicalIds ==
    /\ ProductIds \subseteq ChainIds /\ CompanyIds \subseteq ChainIds /\ ProductIds \cap CompanyIds = {}
    /\ \A id \in ChainIds : /\ id # NoNode /\ Canonical(id) \in ChainIds /\ Canonical(Canonical(id)) = Canonical(id)
                            /\ Canonical(id)[1] = id[1] /\ id[1] \in NodeTypes
                            /\ (id \in ProductIds <=> id[1] = "product") /\ (id \in CompanyIds <=> id[1] = "company")
                            /\ (Canonical(id) \in ProductIds <=> id \in ProductIds)
                            /\ (Canonical(id) \in CompanyIds <=> id \in CompanyIds)
    /\ Canonical(NoNode) = NoNode
<1>1. ProductIds \subseteq ChainIds /\ CompanyIds \subseteq ChainIds /\ ProductIds \cap CompanyIds = {}
  BY DEF ProductIds, CompanyIds, ChainIds, NodeTypes
<1>2. ASSUME NEW t \in NodeTypes, NEW s \in DOMAIN LabelKey, NEW id, id = <<t, s>>
      PROVE  /\ id # NoNode /\ Canonical(id) \in ChainIds /\ Canonical(Canonical(id)) = Canonical(id)
             /\ Canonical(id)[1] = id[1] /\ id[1] \in NodeTypes
             /\ (id \in ProductIds <=> id[1] = "product") /\ (id \in CompanyIds <=> id[1] = "company")
             /\ (Canonical(id) \in ProductIds <=> id \in ProductIds)
             /\ (Canonical(id) \in CompanyIds <=> id \in CompanyIds)
  <2> DEFINE k == LabelKey[s]
  <2>1. k \in DOMAIN LabelKey /\ LabelKey[k] = k BY LabelAssumption
  <2>2. <<t, s>> \in ChainIds /\ <<t, k>> \in ChainIds BY <2>1 DEF ChainIds
  <2>3. <<t, s>> # NoNode /\ <<t, k>> # NoNode BY <2>2, LabelAssumption
  <2> HIDE DEF k
  <2>4. Canonical(id) = <<t, k>> BY <2>3, <1>2 DEF Canonical, k
  <2>5. Canonical(<<t, k>>) = <<t, k>> BY <2>3, <2>1 DEF Canonical
  <2> QED BY <1>2, <2>1, <2>2, <2>3, <2>4, <2>5 DEF ProductIds, CompanyIds
<1>3. \A id \in ChainIds : \E t \in NodeTypes, s \in DOMAIN LabelKey : id = <<t, s>>
  BY DEF ChainIds
<1> QED BY <1>1, <1>2, <1>3 DEF Canonical

\* Merging labels keeps the rank of a node.
LEMMA RankIs ==
    /\ TopLevel \in Nat
    /\ \A id \in ChainIds : Rank[id] \in Nat /\ Rank[Canonical(id)] = Rank[id] /\ Rank[id] <= TopLevel
    /\ \A id \in ProductIds : Rank[id] = 0
    /\ \A id \in CompanyIds : Rank[id] = TopLevel
    /\ \A id \in ChainIds \ (ProductIds \cup CompanyIds) : 0 < Rank[id] /\ Rank[id] < TopLevel
    /\ \A l \in Range(Fixture.links) : Rank[l.source] < Rank[l.target]
<1>1. Len(Fixture.links) \in Nat /\ TopLevel \in Nat /\ TopLevel = Len(Fixture.links) + 2
  BY FixtureTyped DEF TopLevel
<1> HIDE DEF TopLevel
<1>2. \A id \in FixtureEnds : FixtureLevel[id] \in 0..Len(Fixture.links)
  BY LevelsRise
<1>3. \A id \in ProductIds : Rank[id] = 0
  BY CanonicalIds DEF Rank
<1>4. \A id \in CompanyIds : Rank[id] = TopLevel
  BY CanonicalIds DEF Rank
<1>5. ASSUME NEW id \in ChainIds \ (ProductIds \cup CompanyIds)
      PROVE  /\ Rank[id] = (IF Canonical(id) \in FixtureEnds THEN FixtureLevel[Canonical(id)] + 1 ELSE 1)
             /\ 0 < Rank[id] /\ Rank[id] < TopLevel /\ Rank[id] \in Nat
  <2>1. Rank[id] = IF Canonical(id) \in FixtureEnds THEN FixtureLevel[Canonical(id)] + 1 ELSE 1
    BY DEF Rank
  <2> QED BY <2>1, <1>1, <1>2
<1>6. ASSUME NEW id \in ChainIds PROVE Rank[id] \in Nat /\ Rank[Canonical(id)] = Rank[id] /\ Rank[id] <= TopLevel
  <2>1. Canonical(id) \in ChainIds /\ Canonical(Canonical(id)) = Canonical(id)
        /\ (Canonical(id) \in ProductIds <=> id \in ProductIds)
        /\ (Canonical(id) \in CompanyIds <=> id \in CompanyIds)
    BY CanonicalIds
  <2>2. CASE id \in ProductIds BY <2>2, <2>1, <1>3, <1>1
  <2>3. CASE id \in CompanyIds BY <2>3, <2>1, <1>4, <1>1
  <2>4. CASE id \notin ProductIds \cup CompanyIds
    <3>1. Canonical(id) \in ChainIds \ (ProductIds \cup CompanyIds) BY <2>1, <2>4
    <3>2. Rank[Canonical(id)] = Rank[id] BY <3>1, <2>1, <2>4, <1>5
    <3> QED BY <3>2, <2>4, <1>5, <1>1
  <2> QED BY <2>2, <2>3, <2>4
<1>7. ASSUME NEW l \in Range(Fixture.links) PROVE Rank[l.source] < Rank[l.target]
  <2>1. l.source \in ChainIds \ CompanyIds /\ l.target \in ChainIds \ ProductIds
    BY FixtureTyped DEF FixtureLinks
  <2>2. Canonical(l.source) \in FixtureEnds /\ Canonical(l.target) \in FixtureEnds
    BY DEF FixtureEnds
  <2>3. FixtureLevel[Canonical(l.source)] < FixtureLevel[Canonical(l.target)]
    BY LevelsRise
  <2>4. CASE l.source \in ProductIds
    <3>1. Rank[l.source] = 0 BY <2>4, <1>3
    <3>2. CASE l.target \in CompanyIds BY <3>1, <3>2, <1>4, <1>1
    <3>3. CASE l.target \notin CompanyIds BY <3>1, <3>3, <2>1, <1>5
    <3> QED BY <3>2, <3>3
  <2>5. CASE l.source \notin ProductIds
    <3>1. l.source \in ChainIds \ (ProductIds \cup CompanyIds) BY <2>1, <2>5
    <3>2. CASE l.target \in CompanyIds BY <3>1, <3>2, <1>4, <1>5
    <3>3. CASE l.target \notin CompanyIds
      <4>1. l.target \in ChainIds \ (ProductIds \cup CompanyIds) BY <2>1, <3>3
      <4>2. Rank[l.source] = FixtureLevel[Canonical(l.source)] + 1 /\ Rank[l.target] = FixtureLevel[Canonical(l.target)] + 1
        BY <3>1, <4>1, <2>2, <1>5
      <4> QED BY <4>2, <2>2, <2>3, <1>2
    <3> QED BY <3>2, <3>3
  <2> QED BY <2>4, <2>5
<1> QED BY <1>1, <1>3, <1>4, <1>5, <1>6, <1>7

\* Wherever links lead from a node, its rank is no less.
Climbs(links) ==
    \A l \in links : l.source \in ChainIds /\ l.target \in ChainIds /\ Rank[l.source] < Rank[l.target]

LEMMA ReachedAbove ==
    ASSUME NEW links, IsFiniteSet(links), Climbs(links), NEW node \in ChainIds
    PROVE  \A m \in ReachedFrom(links, node) : m \in ChainIds /\ Rank[node] <= Rank[m]
<1> DEFINE N == Cardinality(links)
           D == SUBSET {m \in ChainIds : Rank[node] <= Rank[m]}
           Spread(n, r) == r \cup {l.target : l \in {k \in links : k.source \in r}}
           G == [p \in (1..N) \X D |-> Spread(p[1], p[2])]
           F == CHOOSE f : f = [n \in 0..N |-> IF n = 0 THEN {node}
                    ELSE f[n - 1] \cup {l.target : l \in {k \in links : k.source \in f[n - 1]}}]
<1>1. N \in Nat BY FS_CardinalityType
<1>2. ReachedFrom(links, node) = F[N] BY DEF ReachedFrom
<1> HIDE DEF N
<1>3. {node} \in D BY RankIs
<1>4. ASSUME NEW n \in 1..N, NEW r \in D PROVE Spread(n, r) \in D
  <2>1. ASSUME NEW l \in links, l.source \in r PROVE l.target \in ChainIds /\ Rank[node] <= Rank[l.target]
    <3>1. l.source \in ChainIds /\ l.target \in ChainIds /\ Rank[l.source] < Rank[l.target] /\ Rank[node] <= Rank[l.source]
      BY <2>1 DEF Climbs
    <3>2. Rank[l.source] \in Nat /\ Rank[l.target] \in Nat /\ Rank[node] \in Nat BY <3>1, RankIs
    <3> QED BY <3>1, <3>2
  <2> QED BY <2>1
<1>5. G \in [(1..N) \X D -> D] BY <1>4
<1>6. PICK g : IsRun(g, N, D, {node}, G)
  <2>1. \E g : IsRun(g, N, D, {node}, G)
    <3> HIDE DEF G, D
    <3> QED BY <1>1, <1>3, <1>5, Recursion
  <2> QED BY <2>1
<1> HIDE DEF D
<1>7. /\ g \in [0..N -> D] /\ g[0] = {node}
      /\ \A n \in 1..N : n - 1 \in 0..N /\ g[n - 1] \in D /\ g[n] = Spread(n, g[n - 1])
  BY <1>6, <1>1 DEF IsRun
<1>8. g = [n \in 0..N |-> IF n = 0 THEN {node}
              ELSE g[n - 1] \cup {l.target : l \in {k \in links : k.source \in g[n - 1]}}]
  <2>1. \A n \in 0..N : n # 0 => n \in 1..N BY <1>1
  <2> QED BY <1>7, <2>1
<1>9. F = [n \in 0..N |-> IF n = 0 THEN {node}
              ELSE F[n - 1] \cup {l.target : l \in {k \in links : k.source \in F[n - 1]}}]
  BY <1>8
<1> HIDE DEF F
<1>10. F[0] = {node} /\ \A n \in 1..N : F[n] = Spread(n, F[n - 1])
  <2>1. \A n \in 1..N : n \in 0..N /\ n # 0 BY <1>1
  <2>2. 0 \in 0..N BY <1>1
  <2> QED BY <1>9, <2>1, <2>2
<1>11. F[0] \in D BY <1>10, <1>3
<1>12. \A n \in 1..N : F[n - 1] \in D => F[n] \in D BY <1>10, <1>4
<1>13. F[N] \in D BY <1>1, <1>11, <1>12, RunStays
<1> QED BY <1>13, <1>2 DEF D

-----------------------------------------------------------------------------
(* Payloads *)

\* Nodes and links of a working graph and of a payload with this evidence.
ChainNodes(said) ==
    [id : ChainIds, parent : ChainIds \cup {NoNode}, depth : 0..Deepest, cites : SUBSET said, confidence : Int]
LinkRows(said) ==
    [source : ChainIds, target : ChainIds, suffix : EdgeSuffixes, confirmed : BOOLEAN, cites : SUBSET said,
     confidence : Int]
ChainLinks(said) ==
    {l \in LinkRows(said) : (l.confirmed => l.cites # {}) /\ Rank[l.source] < Rank[l.target]}

PayloadNodes(said) ==
    {n \in ChainNodes(said) : Canonical(n.id) = n.id /\ Canonical(n.parent) = n.parent}
PayloadLinks(said) ==
    {l \in ChainLinks(said) : Canonical(l.source) = l.source /\ Canonical(l.target) = l.target}

\* Where every link climbs no hypothesis closes a cycle: all are kept.
LEMMA AllKept ==
    ASSUME NEW S, NEW links \in Seq(S), Climbs(Range(links))
    PROVE  KeptLinks(links) = DOMAIN links
<1> DEFINE N == Len(links)
           Seen(kept) == Confirmed(Range(links)) \cup {links[i] : i \in kept}
           Open(n, kept) == links[n].confirmed \/ links[n].source \notin ReachedFrom(Seen(kept), links[n].target)
           g == [n \in 0..N |-> 1..n]
           F == CHOOSE f : f = [n \in 0..N |-> IF n = 0 THEN {}
                    ELSE IF links[n].confirmed \/ links[n].source \notin
                              ReachedFrom(Confirmed(Range(links)) \cup {links[i] : i \in f[n - 1]}, links[n].target)
                         THEN f[n - 1] \cup {n} ELSE f[n - 1]]
<1>1. N \in Nat /\ DOMAIN links = 1..N OBVIOUS
<1>2. KeptLinks(links) = F[N] BY DEF KeptLinks
<1> HIDE DEF N
<1>3. ASSUME NEW n \in 1..N, NEW kept, kept \subseteq 1..N PROVE Open(n, kept)
  <2>1. Seen(kept) \subseteq Range(links)
    BY <1>1, <1>3 DEF Confirmed, Range
  <2>2. IsFiniteSet(Range(links))
    <3>1. IsFiniteSet(1..N) BY <1>1, FS_Interval
    <3> QED BY <3>1, <1>1, ImageIsFinite DEF Range
  <2>3. IsFiniteSet(Seen(kept)) BY <2>1, <2>2, FS_Subset
  <2>4. Climbs(Seen(kept)) BY <2>1 DEF Climbs
  <2>5. links[n] \in Range(links) BY <1>1 DEF Range
  <2>6. links[n].source \in ChainIds /\ links[n].target \in ChainIds /\ Rank[links[n].source] < Rank[links[n].target]
    BY <2>5 DEF Climbs
  <2> HIDE DEF Seen
  <2>7. \A m \in ReachedFrom(Seen(kept), links[n].target) : Rank[links[n].target] <= Rank[m]
    BY <2>3, <2>4, <2>6, ReachedAbove
  <2>8. Rank[links[n].source] \in Nat /\ Rank[links[n].target] \in Nat BY <2>6, RankIs
  <2> QED BY <2>6, <2>7, <2>8
<1> HIDE DEF Open
<1>4. ASSUME NEW n \in 0..N, n # 0 PROVE n \in 1..N /\ n - 1 \in 0..N /\ n \in 0..N /\ 1..(n - 1) \subseteq 1..N /\ 1..n = (1..(n - 1)) \cup {n}
  BY <1>1, <1>4
<1>5. g = [n \in 0..N |-> IF n = 0 THEN {}
                    ELSE IF links[n].confirmed \/ links[n].source \notin
                              ReachedFrom(Confirmed(Range(links)) \cup {links[i] : i \in g[n - 1]}, links[n].target)
                         THEN g[n - 1] \cup {n} ELSE g[n - 1]]
  <2>1. ASSUME NEW n \in 0..N
        PROVE  1..n = IF n = 0 THEN {}
                    ELSE IF links[n].confirmed \/ links[n].source \notin
                              ReachedFrom(Confirmed(Range(links)) \cup {links[i] : i \in g[n - 1]}, links[n].target)
                         THEN g[n - 1] \cup {n} ELSE g[n - 1]
    <3>1. CASE n = 0 BY <3>1
    <3>2. CASE n # 0
      <4>1. g[n - 1] = 1..(n - 1) BY <3>2, <1>4
      <4>2. Open(n, g[n - 1]) BY <4>1, <3>2, <1>3, <1>4
      <4>3. links[n].confirmed \/ links[n].source \notin
                ReachedFrom(Confirmed(Range(links)) \cup {links[i] : i \in g[n - 1]}, links[n].target)
        BY <4>2 DEF Open
      <4> QED BY <4>1, <4>3, <3>2, <1>4
    <3> QED BY <3>1, <3>2
  <2> QED BY <2>1
<1>6. F = [n \in 0..N |-> IF n = 0 THEN {}
                    ELSE IF links[n].confirmed \/ links[n].source \notin
                              ReachedFrom(Confirmed(Range(links)) \cup {links[i] : i \in F[n - 1]}, links[n].target)
                         THEN F[n - 1] \cup {n} ELSE F[n - 1]]
  <2> HIDE DEF g
  <2> QED BY <1>5
<1> HIDE DEF F, g
<1> DEFINE T == {n \in 0..N : F[n] = 1..n}
<1>7. 0 \in T
  <2>1. 0 \in 0..N BY <1>1
  <2> QED BY <2>1, <1>6
<1>8. ASSUME NEW n \in 0..(N - 1), n \in T PROVE n + 1 \in T
  <2>1. n + 1 \in 1..N /\ n + 1 \in 0..N /\ n + 1 # 0 /\ (n + 1) - 1 = n /\ n \in Nat BY <1>1
  <2>2. F[n] = 1..n BY <1>8
  <2>3. 1..n \subseteq 1..N /\ 1..(n + 1) = (1..n) \cup {n + 1} BY <2>1, <1>1
  <2>4. Open(n + 1, F[n]) BY <2>1, <2>2, <2>3, <1>3
  <2>5. F[n + 1] = IF Open(n + 1, F[n]) THEN F[n] \cup {n + 1} ELSE F[n]
    <3>1. F[n + 1] = IF links[n + 1].confirmed \/ links[n + 1].source \notin
                              ReachedFrom(Confirmed(Range(links)) \cup {links[i] : i \in F[(n + 1) - 1]}, links[n + 1].target)
                         THEN F[(n + 1) - 1] \cup {n + 1} ELSE F[(n + 1) - 1]
      BY <1>6, <2>1
    <3> QED BY <3>1, <2>1 DEF Open
  <2> QED BY <2>1, <2>2, <2>3, <2>4, <2>5
<1>9. 0..N \subseteq T
  <2> HIDE DEF T
  <2> QED BY <1>1, <1>7, <1>8, Induction
<1>10. N \in 0..N BY <1>1
<1> QED BY <1>9, <1>10, <1>1, <1>2

\* The node that nodes of one key are merged into.
LEMMA MergedTyped ==
    ASSUME NEW e, NEW nodes \in Seq(ChainNodes(e)), NEW k \in DOMAIN nodes
    PROVE  LET id == Canonical(nodes[k].id) IN
           MergedNode(nodes, id) \in PayloadNodes(e) /\ MergedNode(nodes, id).id = id
<1> DEFINE id == Canonical(nodes[k].id)
           alike == {i \in DOMAIN nodes : Canonical(nodes[i].id) = id}
           best == MostConfident(nodes, alike)
           f == [i \in DOMAIN nodes |-> nodes[i].confidence]
<1>1. /\ DOMAIN nodes = 1..Len(nodes) /\ Len(nodes) \in Nat
      /\ \A i \in DOMAIN nodes : nodes[i] \in ChainNodes(e)
  OBVIOUS
<1>2. \A i \in DOMAIN nodes : /\ nodes[i].id \in ChainIds /\ nodes[i].parent \in ChainIds \cup {NoNode}
                              /\ nodes[i].depth \in 0..Deepest /\ nodes[i].cites \subseteq e /\ nodes[i].confidence \in Int
  BY <1>1 DEF ChainNodes
<1>3. alike \subseteq 1..Len(nodes) /\ alike # {} BY <1>1
<1>4. \A i \in alike : f[i] \in Int BY <1>2
<1>5. \E i \in alike : \A j \in alike : f[j] < f[i] \/ (f[j] = f[i] /\ i <= j)
  <2> HIDE DEF f, alike
  <2> QED BY <1>1, <1>3, <1>4, BestOfAlike
<1>6. \E i \in alike : \A j \in alike : nodes[j].confidence < nodes[i].confidence \/ (nodes[j].confidence = nodes[i].confidence /\ i <= j)
  <2>1. \A i \in alike : f[i] = nodes[i].confidence OBVIOUS
  <2> HIDE DEF f, alike
  <2>2. PICK i \in alike : \A j \in alike : f[j] < f[i] \/ (f[j] = f[i] /\ i <= j) BY <1>5
  <2>3. \A j \in alike : nodes[j].confidence < nodes[i].confidence \/ (nodes[j].confidence = nodes[i].confidence /\ i <= j)
    <3> SUFFICES ASSUME NEW j \in alike
                 PROVE  nodes[j].confidence < nodes[i].confidence \/ (nodes[j].confidence = nodes[i].confidence /\ i <= j)
      OBVIOUS
    <3>1. f[j] = nodes[j].confidence /\ f[i] = nodes[i].confidence BY <2>1
    <3>2. f[j] < f[i] \/ (f[j] = f[i] /\ i <= j) BY <2>2
    <3> QED BY ONLY <3>1, <3>2
  <2> QED BY <2>3
<1>7. best \in alike
  <2> HIDE DEF alike
  <2> QED BY <1>6 DEF MostConfident
<1>8. best \in DOMAIN nodes BY <1>7
<1>9. MergedNode(nodes, id) = ChainNode(id, Canonical(nodes[best].parent), nodes[best].depth,
                  UNION {nodes[i].cites : i \in alike}, nodes[best].confidence)
  BY DEF MergedNode
<1>10. UNION {nodes[i].cites : i \in alike} \subseteq e BY <1>2
<1> HIDE DEF best, alike
<1>11. /\ Canonical(nodes[best].parent) \in ChainIds \cup {NoNode}
       /\ Canonical(Canonical(nodes[best].parent)) = Canonical(nodes[best].parent)
  BY <1>2, <1>8, CanonicalIds
<1>12. id \in ChainIds /\ Canonical(id) = id BY <1>2, CanonicalIds
<1> HIDE DEF id
<1>13. ChainNode(id, Canonical(nodes[best].parent), nodes[best].depth,
                  UNION {nodes[i].cites : i \in alike}, nodes[best].confidence) \in PayloadNodes(e)
  BY <1>2, <1>8, <1>10, <1>11, <1>12 DEF PayloadNodes, ChainNodes, ChainNode
<1>14. MergedNode(nodes, id).id = id BY <1>9 DEF ChainNode
<1> QED BY <1>9, <1>13, <1>14 DEF id

\* Merging leaves one node per key ...
LEMMA Canonicalised ==
    ASSUME NEW e, NEW nodes \in Seq(ChainNodes(e))
    PROVE  CanonicaliseNodes(nodes) \in Seq(PayloadNodes(e)) /\ Distinct(CanonicaliseNodes(nodes))
<1> DEFINE s == [i \in DOMAIN nodes |-> MergedNode(nodes, Canonical(nodes[i].id))]
           key == [i \in DOMAIN nodes |-> Canonical(nodes[i].id)]
           W == {i \in DOMAIN nodes : \A j \in 1..(i - 1) : Canonical(nodes[j].id) # Canonical(nodes[i].id)}
           K == {}
           r == Selected(s, W)
<1>1. DOMAIN nodes = 1..Len(nodes) /\ Len(nodes) \in Nat OBVIOUS
<1>2. \A i \in DOMAIN nodes : s[i] \in PayloadNodes(e) /\ s[i].id = key[i] BY MergedTyped
<1>3. s \in Seq(PayloadNodes(e)) /\ DOMAIN s = DOMAIN nodes /\ Len(s) = Len(nodes)
  <2>1. s \in [1..Len(nodes) -> PayloadNodes(e)] BY <1>1, <1>2
  <2> HIDE DEF s
  <2> QED BY <2>1, <1>1, SeqOfFunction
<1>4. CanonicaliseNodes(nodes) = r BY DEF CanonicaliseNodes
<1> HIDE DEF s
<1>5. W = {i \in DOMAIN s : key[i] \notin K /\ \A j \in 1..(i - 1) : key[j] # key[i]}
  <2>1. \A i \in DOMAIN nodes : \A j \in 1..(i - 1) : j \in DOMAIN nodes BY <1>1
  <2> QED BY <2>1, <1>3
<1> HIDE DEF W, key, K
<1>6. r \in Seq(PayloadNodes(e)) /\ \E at : IsFirsts(r, s, key, K, at)
  BY <1>3, <1>5, FirstsBy
<1>7. PICK at : IsFirsts(r, s, key, K, at) BY <1>6
<1> HIDE DEF r
<1>8. \A k \in 1..Len(r) : r[k].id = key[at[k]]
  <2>1. \A k \in 1..Len(r) : at[k] \in DOMAIN nodes /\ r[k] = s[at[k]] BY <1>7, <1>3, <1>1 DEF IsFirsts
  <2> QED BY <2>1, <1>2
<1>9. Distinct(r)
  <2>1. DOMAIN r = 1..Len(r) BY <1>6
  <2>2. \A j, k \in 1..Len(r) : key[at[j]] = key[at[k]] => j = k BY <1>7 DEF IsFirsts
  <2> QED BY <2>1, <2>2, <1>8 DEF Distinct
<1> QED BY <1>4, <1>6, <1>9

\* ... and changes nothing the second time.
LEMMA CanonicalAlready ==
    ASSUME NEW e, NEW nodes \in Seq(PayloadNodes(e)), Distinct(nodes)
    PROVE  CanonicaliseNodes(nodes) = nodes
<1> DEFINE s == [i \in DOMAIN nodes |-> MergedNode(nodes, Canonical(nodes[i].id))]
           W == {i \in DOMAIN nodes : \A j \in 1..(i - 1) : Canonical(nodes[j].id) # Canonical(nodes[i].id)}
<1>1. DOMAIN nodes = 1..Len(nodes) /\ Len(nodes) \in Nat /\ \A i \in DOMAIN nodes : nodes[i] \in PayloadNodes(e)
  OBVIOUS
<1>2. ASSUME NEW k \in DOMAIN nodes PROVE MergedNode(nodes, Canonical(nodes[k].id)) = nodes[k]
  <2> DEFINE id == nodes[k].id
             alike == {i \in DOMAIN nodes : Canonical(nodes[i].id) = id}
             best == MostConfident(nodes, alike)
  <2>1. \A i \in DOMAIN nodes : Canonical(nodes[i].id) = nodes[i].id BY <1>1 DEF PayloadNodes
  <2>2. alike = {k} BY <2>1 DEF Distinct
  <2>3. nodes[k].confidence \in Int /\ k \in Nat BY <1>1 DEF PayloadNodes, ChainNodes
  <2>4. best = k
    <3>1. k \in alike /\ \A j \in alike : nodes[j].confidence < nodes[k].confidence \/ (nodes[j].confidence = nodes[k].confidence /\ k <= j)
      BY <2>2, <2>3
    <3>2. best \in alike
      <4> HIDE DEF alike
      <4> QED BY <3>1 DEF MostConfident
    <3> QED BY <3>2, <2>2
  <2>5. UNION {nodes[i].cites : i \in alike} = nodes[k].cites BY <2>2
  <2>6. MergedNode(nodes, id) = ChainNode(id, Canonical(nodes[best].parent), nodes[best].depth,
                  UNION {nodes[i].cites : i \in alike}, nodes[best].confidence)
    BY DEF MergedNode
  <2> HIDE DEF best, alike
  <2>7. MergedNode(nodes, id) = ChainNode(id, nodes[k].parent, nodes[k].depth, nodes[k].cites, nodes[k].confidence)
    BY <2>4, <2>5, <2>6, <1>1 DEF PayloadNodes
  <2>8. nodes[k] = [id |-> nodes[k].id, parent |-> nodes[k].parent, depth |-> nodes[k].depth,
                    cites |-> nodes[k].cites, confidence |-> nodes[k].confidence]
    BY <1>1 DEF PayloadNodes, ChainNodes
  <2> QED BY <2>1, <2>7, <2>8 DEF ChainNode
<1>3. s = nodes BY <1>1, <1>2
<1>4. DOMAIN nodes \subseteq W
  <2>1. ASSUME NEW i \in DOMAIN nodes, NEW j \in 1..(i - 1) PROVE Canonical(nodes[j].id) # Canonical(nodes[i].id)
    <3>1. j \in DOMAIN nodes /\ j # i BY <1>1
    <3>2. Canonical(nodes[i].id) = nodes[i].id /\ Canonical(nodes[j].id) = nodes[j].id BY <3>1, <1>1 DEF PayloadNodes
    <3> QED BY <3>1, <3>2 DEF Distinct
  <2> QED BY <2>1
<1>5. CanonicaliseNodes(nodes) = Selected(s, W) BY DEF CanonicaliseNodes
<1> QED BY <1>3, <1>4, <1>5, SelectedAll

\* A node of another type with the slug of a product: where it hangs.
AnchorAt(nodes, slug) ==
    LET alike == {i \in DOMAIN nodes : nodes[i].id[1] # "product" /\ nodes[i].id[2] = slug}
    IN  CHOOSE i \in alike : \A j \in alike : i <= j

\* A node hung below another keeps its id.
LEMMA BelowTyped ==
    ASSUME NEW e, NEW n \in PayloadNodes(e), NEW anchor \in PayloadNodes(e)
    PROVE  Below(n, anchor) \in PayloadNodes(e) /\ Below(n, anchor).id = n.id /\ Below(n, anchor).parent = anchor.id
<1>1. /\ n.id \in ChainIds /\ n.cites \subseteq e /\ n.confidence \in Int /\ Canonical(n.id) = n.id
      /\ anchor.id \in ChainIds /\ anchor.depth \in 0..Deepest /\ Canonical(anchor.id) = anchor.id
  BY DEF PayloadNodes, ChainNodes
<1>2. (IF anchor.depth + 1 < Deepest THEN anchor.depth + 1 ELSE Deepest) \in 0..Deepest
  BY <1>1 DEF Deepest
<1> QED BY <1>1, <1>2 DEF Below, ChainNode, PayloadNodes, ChainNodes

\* Only a product is rehung, below its anchor, and only once.
LEMMA RehungIs ==
    ASSUME NEW e, NEW nodes \in Seq(PayloadNodes(e)), NEW n \in PayloadNodes(e)
    PROVE  /\ Rehung(n, nodes) \in PayloadNodes(e) /\ Rehung(n, nodes).id = n.id
           /\ n.id[1] # "product" => Rehung(n, nodes) = n
           /\ LET alike == {i \in DOMAIN nodes : nodes[i].id[1] # "product" /\ nodes[i].id[2] = n.id[2]}
                  at == AnchorAt(nodes, n.id[2])
              IN  alike # {} => /\ at \in DOMAIN nodes /\ nodes[at].id[1] # "product"
                                /\ n.id[1] = "product" => Rehung(n, nodes).parent = nodes[at].id
                                /\ n.parent = nodes[at].id => Rehung(n, nodes) = n
           /\ LET alike == {i \in DOMAIN nodes : nodes[i].id[1] # "product" /\ nodes[i].id[2] = n.id[2]}
              IN  alike = {} => Rehung(n, nodes) = n
<1> DEFINE alike == {i \in DOMAIN nodes : nodes[i].id[1] # "product" /\ nodes[i].id[2] = n.id[2]}
           at == AnchorAt(nodes, n.id[2])
<1>1. DOMAIN nodes \subseteq Nat /\ \A i \in DOMAIN nodes : nodes[i] \in PayloadNodes(e)
  OBVIOUS
<1>2. Rehung(n, nodes) = IF n.id[1] = "product" /\ alike # {} /\ n.parent # nodes[at].id
                          THEN Below(n, nodes[at]) ELSE n
  BY DEF Rehung, AnchorAt
<1>3. alike # {} => at \in alike
  <2>1. alike \subseteq Nat BY <1>1
  <2>2. at = CHOOSE i \in alike : \A j \in alike : i <= j BY DEF AnchorAt
  <2> HIDE DEF alike, at
  <2> QED BY <2>1, <2>2, FirstIndex
<1>4. alike # {} => at \in DOMAIN nodes /\ nodes[at].id[1] # "product" /\ nodes[at] \in PayloadNodes(e)
  BY <1>1, <1>3
<1> HIDE DEF at
<1>5. CASE n.id[1] = "product" /\ alike # {} /\ n.parent # nodes[at].id
  <2>1. Rehung(n, nodes) = Below(n, nodes[at]) BY <1>5, <1>2
  <2>2. Rehung(n, nodes) \in PayloadNodes(e) /\ Rehung(n, nodes).id = n.id /\ Rehung(n, nodes).parent = nodes[at].id
    BY <2>1, <1>5, <1>4, BelowTyped
  <2> QED BY <2>2, <1>4, <1>5 DEF at
<1>6. CASE ~(n.id[1] = "product" /\ alike # {} /\ n.parent # nodes[at].id)
  <2>1. Rehung(n, nodes) = n BY <1>6, <1>2
  <2> QED BY <2>1, <1>4, <1>6 DEF at
<1> QED BY <1>5, <1>6

\* Repairing the product roots keeps the ids, and is idempotent.
LEMMA RepairedIs ==
    ASSUME NEW e, NEW nodes \in Seq(PayloadNodes(e))
    PROVE  /\ RepairProductRoots(nodes) \in Seq(PayloadNodes(e))
           /\ NodeIds(RepairProductRoots(nodes)) = NodeIds(nodes)
           /\ Distinct(nodes) => Distinct(RepairProductRoots(nodes))
           /\ RepairProductRoots(RepairProductRoots(nodes)) = RepairProductRoots(nodes)
<1> DEFINE R == RepairProductRoots(nodes)
<1>1. /\ DOMAIN nodes = 1..Len(nodes) /\ Len(nodes) \in Nat
      /\ \A i \in DOMAIN nodes : nodes[i] \in PayloadNodes(e)
  OBVIOUS
<1>2. R = [i \in DOMAIN nodes |-> Rehung(nodes[i], nodes)] BY DEF RepairProductRoots
<1> HIDE DEF R
<1>3. \A i \in DOMAIN nodes : /\ R[i] = Rehung(nodes[i], nodes) /\ R[i] \in PayloadNodes(e) /\ R[i].id = nodes[i].id
                              /\ nodes[i].id[1] # "product" => R[i] = nodes[i]
  BY <1>1, <1>2, RehungIs
<1>4. R \in Seq(PayloadNodes(e)) /\ DOMAIN R = DOMAIN nodes
  <2>1. R \in [1..Len(nodes) -> PayloadNodes(e)] BY <1>1, <1>2, <1>3
  <2> QED BY <2>1, <1>1, SeqOfFunction
<1>5. NodeIds(R) = NodeIds(nodes)
  <2>1. \A x \in Range(R) : \E y \in Range(nodes) : x.id = y.id BY <1>3, <1>4 DEF Range
  <2>2. \A y \in Range(nodes) : \E x \in Range(R) : x.id = y.id BY <1>3, <1>4 DEF Range
  <2> QED BY <2>1, <2>2 DEF NodeIds
<1>6. Distinct(nodes) => Distinct(R) BY <1>3, <1>4 DEF Distinct
<1>7. ASSUME NEW i \in DOMAIN nodes PROVE Rehung(R[i], R) = R[i]
  <2> DEFINE slug == nodes[i].id[2]
             alike == {k \in DOMAIN nodes : nodes[k].id[1] # "product" /\ nodes[k].id[2] = slug}
             alikeR == {k \in DOMAIN R : R[k].id[1] # "product" /\ R[k].id[2] = slug}
             at == AnchorAt(nodes, slug)
  <2>1. R[i].id = nodes[i].id /\ R[i] \in PayloadNodes(e) BY <1>3
  <2>2. alikeR = alike BY <1>3, <1>4
  <2>3. AnchorAt(R, slug) = at
    <3>1. AnchorAt(R, slug) = CHOOSE k \in alikeR : \A j \in alikeR : k <= j BY DEF AnchorAt
    <3>2. at = CHOOSE k \in alike : \A j \in alike : k <= j BY DEF AnchorAt
    <3> HIDE DEF alike, alikeR, at
    <3> QED BY <3>1, <3>2, <2>2
  <2>4. CASE nodes[i].id[1] # "product" BY <2>4, <2>1, <1>4, RehungIs
  <2>5. CASE nodes[i].id[1] = "product" /\ alike = {}
    <3>1. {k \in DOMAIN R : R[k].id[1] # "product" /\ R[k].id[2] = R[i].id[2]} = {} BY <2>1, <2>2, <2>5
    <3> QED BY <3>1, <2>1, <1>4, RehungIs
  <2>6. CASE nodes[i].id[1] = "product" /\ alike # {}
    <3>1. at \in DOMAIN nodes /\ nodes[at].id[1] # "product" /\ R[i].parent = nodes[at].id
      BY <2>6, <1>1, <1>3, RehungIs
    <3>2. {k \in DOMAIN R : R[k].id[1] # "product" /\ R[k].id[2] = R[i].id[2]} # {} BY <2>1, <2>2, <2>6
    <3>3. AnchorAt(R, R[i].id[2]) = at BY <2>1, <2>3
    <3>4. R[at].id = nodes[at].id BY <3>1, <1>3
    <3> HIDE DEF at
    <3> QED BY <3>1, <3>2, <3>3, <3>4, <2>1, <1>4, RehungIs
  <2> QED BY <2>4, <2>5, <2>6
<1>8. RepairProductRoots(R) = R
  <2>1. RepairProductRoots(R) = [i \in DOMAIN R |-> Rehung(R[i], R)] BY DEF RepairProductRoots
  <2>2. R = [i \in DOMAIN R |-> R[i]] BY <1>4
  <2> QED BY <2>1, <2>2, <1>4, <1>7
<1> QED BY <1>4, <1>5, <1>6, <1>8 DEF R

\* A rewritten link climbs as it did.
LEMMA RewrittenTyped ==
    ASSUME NEW e, NEW l \in ChainLinks(e)
    PROVE  Rewritten(l) \in PayloadLinks(e)
<1>1. /\ l.source \in ChainIds /\ l.target \in ChainIds /\ l.suffix \in EdgeSuffixes /\ l.confirmed \in BOOLEAN
      /\ l.cites \subseteq e /\ l.confidence \in Int /\ (l.confirmed => l.cites # {}) /\ Rank[l.source] < Rank[l.target]
  BY DEF ChainLinks, LinkRows
<1>2. /\ Canonical(l.source) \in ChainIds /\ Canonical(Canonical(l.source)) = Canonical(l.source)
      /\ Canonical(l.target) \in ChainIds /\ Canonical(Canonical(l.target)) = Canonical(l.target)
      /\ Rank[Canonical(l.source)] < Rank[Canonical(l.target)]
  BY <1>1, CanonicalIds, RankIs
<1> QED BY <1>1, <1>2 DEF Rewritten, ChainLink, PayloadLinks, ChainLinks, LinkRows

Between(links, ids) == \A l \in Range(links) : {l.source, l.target} \subseteq ids

\* Canonical links lead between known nodes, one of each id ...
LEMMA LinksCanonicalised ==
    ASSUME NEW e, NEW links \in Seq(ChainLinks(e)), NEW ids
    PROVE  /\ CanonicalLinks(links, ids) \in Seq(PayloadLinks(e))
           /\ DistinctLinks(CanonicalLinks(links, ids))
           /\ Between(CanonicalLinks(links, ids), ids)
<1> DEFINE s == [i \in DOMAIN links |-> Rewritten(links[i])]
           W == {i \in DOMAIN links : Fits(s[i], ids)}
           f == Selected(s, W)
           S == {l \in PayloadLinks(e) : {l.source, l.target} \subseteq ids}
           r == AddLinks(<<>>, f)
<1>1. /\ DOMAIN links = 1..Len(links) /\ Len(links) \in Nat
      /\ \A i \in DOMAIN links : links[i] \in ChainLinks(e)
  OBVIOUS
<1>2. s \in Seq(PayloadLinks(e)) /\ Len(s) = Len(links)
  <2>1. s \in [1..Len(links) -> PayloadLinks(e)] BY <1>1, RewrittenTyped
  <2> HIDE DEF s
  <2> QED BY <2>1, <1>1, SeqOfFunction
<1>3. CanonicalLinks(links, ids) = r BY DEF CanonicalLinks
<1> HIDE DEF s
<1>4. /\ f \in Seq(PayloadLinks(e)) /\ Len(f) \in Nat
      /\ \A j \in 1..Len(f) : \E i \in 1..Len(s) : i \in W /\ f[j] = s[i]
  <2> HIDE DEF W
  <2> QED BY <1>2, SelectedHas
<1>5. \A j \in 1..Len(f) : f[j] \in S
  <2> SUFFICES ASSUME NEW j \in 1..Len(f) PROVE f[j] \in S
    OBVIOUS
  <2>1. PICK i \in 1..Len(s) : i \in W /\ f[j] = s[i] BY <1>4
  <2>2. Fits(s[i], ids) /\ s[i] \in PayloadLinks(e) BY <2>1, <1>2
  <2> QED BY <2>1, <2>2 DEF Fits
<1> HIDE DEF f, S
<1>6. f \in Seq(S) BY <1>4, <1>5, SeqOfElements
<1>7. <<>> \in Seq(S) /\ DistinctLinks(<<>>) BY DEF DistinctLinks
<1>8. r \in Seq(S) /\ DistinctLinks(r) BY <1>6, <1>7, AddedLinks
<1> HIDE DEF r
<1>9. \A i \in DOMAIN r : r[i] \in PayloadLinks(e) /\ {r[i].source, r[i].target} \subseteq ids
  BY <1>8 DEF S
<1>10. r \in Seq(PayloadLinks(e))
  <2>1. \A i \in 1..Len(r) : r[i] \in PayloadLinks(e) BY <1>8, <1>9
  <2> QED BY <2>1, <1>8, SeqOfElements
<1> QED BY <1>3, <1>8, <1>9, <1>10 DEF Between, Range

\* ... and stay as they are the second time.
LEMMA LinksAlready ==
    ASSUME NEW e, NEW links \in Seq(PayloadLinks(e)), DistinctLinks(links), NEW ids, Between(links, ids)
    PROVE  /\ CanonicalLinks(links, ids) = links
           /\ \A l \in Range(links) : Rewritten(l) = l /\ Fits(l, ids)
<1> DEFINE s == [i \in DOMAIN links |-> Rewritten(links[i])]
           W == {i \in DOMAIN links : Fits(s[i], ids)}
           f == Selected(s, W)
           V == {i \in DOMAIN links : LinkId(links[i]) \notin LinkIds(<<>>) /\ \A j \in 1..(i - 1) : LinkId(links[j]) # LinkId(links[i])}
<1>1. /\ DOMAIN links = 1..Len(links) /\ Len(links) \in Nat
      /\ \A i \in DOMAIN links : links[i] \in PayloadLinks(e)
  OBVIOUS
<1>2. ASSUME NEW l \in PayloadLinks(e) PROVE Rewritten(l) = l /\ l.source # l.target
  <2>1. /\ l = [source |-> l.source, target |-> l.target, suffix |-> l.suffix, confirmed |-> l.confirmed,
                cites |-> l.cites, confidence |-> l.confidence]
        /\ Canonical(l.source) = l.source /\ Canonical(l.target) = l.target
    BY DEF PayloadLinks, ChainLinks, LinkRows
  <2>2. Rewritten(l) = l BY <2>1 DEF Rewritten, ChainLink
  <2>3. l.source \in ChainIds /\ l.target \in ChainIds /\ Rank[l.source] < Rank[l.target]
    BY DEF PayloadLinks, ChainLinks, LinkRows
  <2>4. Rank[l.source] \in Nat /\ Rank[l.target] \in Nat BY <2>3, RankIs
  <2>5. l.source # l.target BY <2>3, <2>4
  <2> QED BY <2>2, <2>5
<1>3. \A i \in DOMAIN links : Rewritten(links[i]) = links[i] /\ Fits(links[i], ids)
  <2> SUFFICES ASSUME NEW i \in DOMAIN links PROVE Rewritten(links[i]) = links[i] /\ Fits(links[i], ids)
    OBVIOUS
  <2>1. links[i] \in Range(links) /\ links[i] \in PayloadLinks(e) BY <1>1 DEF Range
  <2> QED BY <2>1, <1>2 DEF Fits, Between
<1>4. s = links BY <1>1, <1>3
<1>5. CanonicalLinks(links, ids) = AddLinks(<<>>, f) BY DEF CanonicalLinks
<1> HIDE DEF s
<1>6. DOMAIN links \subseteq W BY <1>3, <1>4
<1> HIDE DEF W
<1>7. f = links BY <1>4, <1>6, SelectedAll
<1>8. AddLinks(<<>>, links) = <<>> \o Selected(links, V) BY DEF AddLinks
<1>9. DOMAIN links \subseteq V
  <2>1. LinkIds(<<>>) = {} BY DEF LinkIds, Range
  <2>2. ASSUME NEW i \in DOMAIN links, NEW j \in 1..(i - 1) PROVE LinkId(links[j]) # LinkId(links[i])
    <3>1. j \in DOMAIN links /\ j # i BY <1>1
    <3> QED BY <3>1 DEF DistinctLinks
  <2> QED BY <2>1, <2>2
<1> HIDE DEF V
<1>10. Selected(links, V) = links BY <1>9, SelectedAll
<1>11. <<>> \o links = links OBVIOUS
<1> QED BY <1>3, <1>5, <1>7, <1>8, <1>10, <1>11 DEF Range

IsGraph(g) ==
    /\ g = ChainGraph(g.nodes, g.links, g.evidence, g.warned) /\ g.warned \in BOOLEAN
    /\ g.nodes \in Seq(ChainNodes(g.evidence))
    /\ g.links \in Seq(ChainLinks(g.evidence))

IsPayload(p) ==
    /\ p = ChainGraph(p.nodes, p.links, p.evidence, p.warned) /\ p.warned \in BOOLEAN
    /\ p.nodes \in Seq(PayloadNodes(p.evidence)) /\ Distinct(p.nodes)
    /\ p.links \in Seq(PayloadLinks(p.evidence)) /\ DistinctLinks(p.links)
    /\ Between(p.links, NodeIds(p.nodes))

\* The fields of a graph.
LEMMA GraphFields ==
    ASSUME NEW nodes, NEW links, NEW said, NEW warned
    PROVE  LET g == ChainGraph(nodes, links, said, warned) IN
           /\ g.nodes = nodes /\ g.links = links /\ g.evidence = said /\ g.warned = warned
           /\ g = ChainGraph(g.nodes, g.links, g.evidence, g.warned)
BY DEF ChainGraph

\* The links of a graph climb.
LEMMA ClimbingLinks ==
    ASSUME NEW e, NEW links \in Seq(ChainLinks(e))
    PROVE  /\ Climbs(Range(links)) /\ IsFiniteSet(Range(links)) /\ Range(links) \subseteq ChainLinks(e)
<1>1. DOMAIN links = 1..Len(links) /\ Len(links) \in Nat /\ \A i \in DOMAIN links : links[i] \in ChainLinks(e)
  OBVIOUS
<1>2. Range(links) \subseteq ChainLinks(e) BY <1>1 DEF Range
<1>3. Climbs(Range(links)) BY <1>2 DEF Climbs, ChainLinks, LinkRows
<1>4. IsFiniteSet(1..Len(links)) BY <1>1, FS_Interval
<1>5. IsFiniteSet(Range(links)) BY <1>1, <1>4, ImageIsFinite DEF Range
<1> QED BY <1>2, <1>3, <1>5

\* A payload can be built from as a graph can.
LEMMA PayloadIsGraph ==
    ASSUME NEW p, IsPayload(p)
    PROVE  IsGraph(p)
<1>1. \A i \in 1..Len(p.nodes) : p.nodes[i] \in ChainNodes(p.evidence) BY DEF IsPayload, PayloadNodes
<1>2. \A i \in 1..Len(p.links) : p.links[i] \in ChainLinks(p.evidence) BY DEF IsPayload, PayloadLinks
<1>3. p.nodes \in Seq(ChainNodes(p.evidence)) BY <1>1, SeqOfElements DEF IsPayload
<1>4. p.links \in Seq(ChainLinks(p.evidence)) BY <1>2, SeqOfElements DEF IsPayload
<1> QED BY <1>3, <1>4 DEF IsPayload, IsGraph

\* Whatever is in a working graph, its payload is one: no hypothesis closes a cycle.
LEMMA PayloadBuilt ==
    ASSUME NEW g, IsGraph(g)
    PROVE  IsPayload(BuildSankey(g)) /\ BuildSankey(g).evidence = g.evidence
<1> DEFINE e == g.evidence
           canonical == CanonicaliseNodes(g.nodes)
           nodes == RepairProductRoots(canonical)
           links == CanonicalLinks(g.links, NodeIds(nodes))
           dropped == \/ \E l \in Range(g.links) : ~Fits(Rewritten(l), NodeIds(nodes))
                      \/ KeptLinks(links) # DOMAIN links
           kept == Selected(links, KeptLinks(links))
<1>1. g.nodes \in Seq(ChainNodes(e)) /\ g.links \in Seq(ChainLinks(e)) /\ g.warned \in BOOLEAN
  BY DEF IsGraph
<1>2. BuildSankey(g) = ChainGraph(nodes, kept, e, g.warned \/ dropped)
  BY DEF BuildSankey
<1> HIDE DEF e
<1>3. canonical \in Seq(PayloadNodes(e)) /\ Distinct(canonical) BY <1>1, Canonicalised
<1> HIDE DEF canonical
<1>4. nodes \in Seq(PayloadNodes(e)) /\ Distinct(nodes) BY <1>3, RepairedIs
<1> HIDE DEF nodes
<1>5. links \in Seq(PayloadLinks(e)) /\ DistinctLinks(links) /\ Between(links, NodeIds(nodes))
  BY <1>1, LinksCanonicalised
<1> HIDE DEF links
<1>6. KeptLinks(links) = DOMAIN links
  <2>1. \A i \in 1..Len(links) : links[i] \in ChainLinks(e) BY <1>5 DEF PayloadLinks
  <2>2. links \in Seq(ChainLinks(e)) BY <1>5, <2>1, SeqOfElements
  <2> QED BY <2>2, ClimbingLinks, AllKept
<1>7. kept = links BY <1>5, <1>6, SelectedAll
<1>8. (g.warned \/ dropped) \in BOOLEAN BY <1>1
<1> HIDE DEF dropped, kept
<1> DEFINE p == ChainGraph(nodes, kept, e, g.warned \/ dropped)
<1>9. /\ p.nodes = nodes /\ p.links = kept /\ p.evidence = e /\ p.warned = (g.warned \/ dropped)
      /\ p = ChainGraph(p.nodes, p.links, p.evidence, p.warned)
  BY GraphFields
<1> HIDE DEF p
<1>10. IsPayload(p) BY <1>4, <1>5, <1>7, <1>8, <1>9 DEF IsPayload
<1> QED BY <1>2, <1>9, <1>10 DEF p, e

\* Building a payload anew only repairs its product roots.
LEMMA PayloadBuiltAgain ==
    ASSUME NEW p, IsPayload(p)
    PROVE  BuildSankey(p) = ChainGraph(RepairProductRoots(p.nodes), p.links, p.evidence, p.warned)
<1> DEFINE e == p.evidence
           nodes == RepairProductRoots(CanonicaliseNodes(p.nodes))
           links == CanonicalLinks(p.links, NodeIds(nodes))
           dropped == \/ \E l \in Range(p.links) : ~Fits(Rewritten(l), NodeIds(nodes))
                      \/ KeptLinks(links) # DOMAIN links
           kept == Selected(links, KeptLinks(links))
<1>1. /\ p.nodes \in Seq(PayloadNodes(e)) /\ Distinct(p.nodes) /\ p.warned \in BOOLEAN
      /\ p.links \in Seq(PayloadLinks(e)) /\ DistinctLinks(p.links) /\ Between(p.links, NodeIds(p.nodes))
  BY DEF IsPayload
<1>2. BuildSankey(p) = ChainGraph(nodes, kept, e, p.warned \/ dropped)
  BY DEF BuildSankey
<1> HIDE DEF e
<1>3. nodes = RepairProductRoots(p.nodes) /\ NodeIds(nodes) = NodeIds(p.nodes)
  BY <1>1, CanonicalAlready, RepairedIs
<1> HIDE DEF nodes
<1>4. links = p.links /\ \A l \in Range(p.links) : Rewritten(l) = l /\ Fits(l, NodeIds(nodes))
  BY <1>1, <1>3, LinksAlready
<1> HIDE DEF links
<1>5. KeptLinks(links) = DOMAIN links
  <2>1. p.links \in Seq(ChainLinks(e)) BY PayloadIsGraph DEF IsGraph, e
  <2> QED BY <2>1, <1>4, ClimbingLinks, AllKept
<1>6. kept = p.links BY <1>1, <1>4, <1>5, SelectedAll
<1>7. ~dropped BY <1>4, <1>5
<1>8. (p.warned \/ dropped) = p.warned BY <1>1, <1>7
<1> HIDE DEF dropped, kept
<1> QED BY <1>2, <1>3, <1>6, <1>8 DEF e

\* A payload passes the validator: its links climb, so none is on a cycle.
LEMMA PayloadValid ==
    ASSUME NEW p, IsPayload(p)
    PROVE  ValidSankey(p)
<1> DEFINE links == Range(p.links)
<1>1. p.links \in Seq(ChainLinks(p.evidence)) BY PayloadIsGraph DEF IsGraph
<1>2. Climbs(links) /\ IsFiniteSet(links) /\ links \subseteq ChainLinks(p.evidence) BY <1>1, ClimbingLinks
<1>3. \A l \in links : {l.source, l.target} \subseteq NodeIds(p.nodes) BY DEF IsPayload, Between
<1> HIDE DEF links
<1>4. ASSUME NEW l \in links
      PROVE  /\ l.source \in ChainIds /\ l.target \in ChainIds /\ Rank[l.source] < Rank[l.target]
             /\ Rank[l.source] \in Nat /\ Rank[l.target] \in Nat
  BY <1>2, RankIs DEF Climbs
<1>5. \A l \in links : l.source # l.target BY <1>4
<1>6. Confirmed(links) \subseteq links BY DEF Confirmed
<1>7. IsFiniteSet(Confirmed(links)) /\ Climbs(Confirmed(links)) BY <1>2, <1>6, FS_Subset DEF Climbs
<1>8. ASSUME NEW l \in Confirmed(links) PROVE ~OnCycle(Confirmed(links), l)
  <2>1. \A m \in ReachedFrom(Confirmed(links), l.target) : Rank[l.target] <= Rank[m]
    BY <1>4, <1>6, <1>7, ReachedAbove
  <2>2. l.source \notin ReachedFrom(Confirmed(links), l.target) BY <2>1, <1>4, <1>6
  <2> QED BY <2>2 DEF OnCycle
<1> QED BY <1>3, <1>5, <1>8 DEF ValidSankey, links

\* One repair settles a payload, and keeps its links.
LEMMA RepairedPayload ==
    ASSUME NEW p, IsPayload(p)
    PROVE  /\ IsPayload(BuildSankey(p)) /\ BuildSankey(BuildSankey(p)) = BuildSankey(p)
           /\ BuildSankey(p).links = p.links
<1> DEFINE q == BuildSankey(p)
<1>1. q = ChainGraph(RepairProductRoots(p.nodes), p.links, p.evidence, p.warned) BY PayloadBuiltAgain
<1>2. IsPayload(q) BY PayloadIsGraph, PayloadBuilt
<1>3. q.nodes = RepairProductRoots(p.nodes) /\ q.links = p.links /\ q.evidence = p.evidence /\ q.warned = p.warned
  BY <1>1, GraphFields
<1> HIDE DEF q
<1>4. BuildSankey(q) = ChainGraph(RepairProductRoots(q.nodes), q.links, q.evidence, q.warned) BY <1>2, PayloadBuiltAgain
<1>5. RepairProductRoots(RepairProductRoots(p.nodes)) = RepairProductRoots(p.nodes) BY RepairedIs DEF IsPayload
<1>6. BuildSankey(q) = q BY <1>1, <1>3, <1>4, <1>5
<1> QED BY <1>2, <1>3, <1>6 DEF q

\* So a payload is sound.
LEMMA PayloadSound ==
    ASSUME NEW p, IsPayload(p)
    PROVE  SoundPayload(p)
<1>1. ValidSankey(p) BY PayloadValid
<1>2. Range(p.links) \subseteq ChainLinks(p.evidence)
  BY PayloadIsGraph, ClimbingLinks DEF IsGraph
<1>3. \A l \in Confirmed(Range(p.links)) : l.cites # {} /\ l.cites \subseteq p.evidence
  BY <1>2 DEF Confirmed, ChainLinks, LinkRows
<1>4. \A n \in Range(p.nodes) : n.cites \subseteq p.evidence /\ n.depth \in 0..Deepest
  <2>1. \A i \in DOMAIN p.nodes : p.nodes[i] \in PayloadNodes(p.evidence) BY DEF IsPayload
  <2> QED BY <2>1 DEF Range, PayloadNodes, ChainNodes
<1>5. BuildSankey(BuildSankey(p)) = BuildSankey(p) /\ BuildSankey(p).links = p.links BY RepairedPayload
<1> QED BY <1>1, <1>3, <1>4, <1>5 DEF SoundPayload

\* More evidence leaves rows what they are.
LEMMA MoreEvidence ==
    ASSUME NEW e, NEW d, e \subseteq d
    PROVE  /\ \A s : s \in Seq(PayloadNodes(e)) => s \in Seq(PayloadNodes(d))
           /\ \A s : s \in Seq(PayloadLinks(e)) => s \in Seq(PayloadLinks(d))
           /\ \A s : s \in Seq(ChainLinks(e)) => s \in Seq(ChainLinks(d))
<1>1. ChainNodes(e) \subseteq ChainNodes(d) BY DEF ChainNodes
<1>2. LinkRows(e) \subseteq LinkRows(d) BY DEF LinkRows
<1>3. PayloadNodes(e) \subseteq PayloadNodes(d) BY <1>1 DEF PayloadNodes
<1>4. ChainLinks(e) \subseteq ChainLinks(d) BY <1>2 DEF ChainLinks
<1>5. PayloadLinks(e) \subseteq PayloadLinks(d) BY <1>4 DEF PayloadLinks
<1>6. ASSUME NEW A, NEW B, A \subseteq B, NEW s \in Seq(A) PROVE s \in Seq(B)
  <2>1. \A i \in 1..Len(s) : s[i] \in B BY <1>6
  <2> QED BY <2>1, SeqOfElements
<1> QED BY <1>3, <1>4, <1>5, <1>6

\* A node of a child hung below the anchor keeps its id.
LEMMA AttachedTyped ==
    ASSUME NEW e, NEW n \in PayloadNodes(e), NEW anchor \in PayloadNodes(e)
    PROVE  AttachedNode(n, anchor) \in PayloadNodes(e) /\ AttachedNode(n, anchor).id = n.id
<1> DEFINE deep == anchor.depth + n.depth + 1
<1>1. /\ n.id \in ChainIds /\ n.parent \in ChainIds \cup {NoNode} /\ n.cites \subseteq e /\ n.confidence \in Int
      /\ n.depth \in 0..Deepest /\ anchor.depth \in 0..Deepest
      /\ Canonical(n.id) = n.id /\ Canonical(n.parent) = n.parent
  BY DEF PayloadNodes, ChainNodes
<1>2. (IF deep < Deepest THEN deep ELSE Deepest) \in 0..Deepest
  BY <1>1 DEF Deepest
<1>3. CASE n.parent = NoNode \/ n.id[1] = "product"
  BY <1>3, BelowTyped DEF AttachedNode
<1>4. CASE ~(n.parent = NoNode \/ n.id[1] = "product")
  <2>1. AttachedNode(n, anchor) =
            ChainNode(n.id, n.parent, IF deep < Deepest THEN deep ELSE Deepest, n.cites, n.confidence)
    BY <1>4 DEF AttachedNode
  <2> HIDE DEF deep
  <2> QED BY <2>1, <1>1, <1>2 DEF ChainNode, PayloadNodes, ChainNodes
<1> QED BY <1>3, <1>4

\* No merge is refused: the union of two payloads is one.
LEMMA MergedSound ==
    ASSUME NEW a, IsPayload(a), NEW b, IsPayload(b), NEW from
    PROVE  IsPayload(MergeExpansion(a, b, from))
<1> DEFINE e == a.evidence \cup b.evidence
           anchors == {n \in Range(a.nodes) : n.id = from}
           anchor == CHOOSE n \in anchors : TRUE
           moved == [i \in DOMAIN b.nodes |-> AttachedNode(b.nodes[i], anchor)]
           nodes == IF anchors = {} THEN b.nodes ELSE moved
           allNodes == AddNodes(a.nodes, nodes)
           links == AddLinks(a.links, b.links)
           p == ChainGraph(allNodes, links, e, a.warned \/ b.warned)
<1>1. MergeExpansion(a, b, from) = p BY DEF MergeExpansion
<1>2. a.evidence \subseteq e /\ b.evidence \subseteq e OBVIOUS
<1> HIDE DEF e
<1>3. /\ a.nodes \in Seq(PayloadNodes(e)) /\ a.links \in Seq(PayloadLinks(e))
      /\ b.nodes \in Seq(PayloadNodes(e)) /\ b.links \in Seq(PayloadLinks(e))
  BY <1>2, MoreEvidence DEF IsPayload
<1>4. /\ Distinct(a.nodes) /\ DistinctLinks(a.links) /\ Between(a.links, NodeIds(a.nodes))
      /\ Between(b.links, NodeIds(b.nodes)) /\ a.warned \in BOOLEAN /\ b.warned \in BOOLEAN
  BY DEF IsPayload
<1>5. nodes \in Seq(PayloadNodes(e)) /\ NodeIds(nodes) = NodeIds(b.nodes)
  <2>1. CASE anchors = {} BY <2>1, <1>3
  <2>2. CASE anchors # {}
    <3>1. anchor \in anchors BY <2>2
    <3>2. anchor \in PayloadNodes(e)
      <4>1. \A i \in DOMAIN a.nodes : a.nodes[i] \in PayloadNodes(e) BY <1>3
      <4> QED BY <3>1, <4>1 DEF Range
    <3> HIDE DEF anchor
    <3>3. DOMAIN b.nodes = 1..Len(b.nodes) /\ Len(b.nodes) \in Nat /\ \A i \in DOMAIN b.nodes : b.nodes[i] \in PayloadNodes(e)
      BY <1>3
    <3>4. \A i \in DOMAIN b.nodes : moved[i] \in PayloadNodes(e) /\ moved[i].id = b.nodes[i].id
      BY <3>2, <3>3, AttachedTyped
    <3>5. moved \in [1..Len(b.nodes) -> PayloadNodes(e)] BY <3>3, <3>4
    <3>6. DOMAIN moved = DOMAIN b.nodes OBVIOUS
    <3> HIDE DEF moved
    <3>7. moved \in Seq(PayloadNodes(e)) BY <3>3, <3>5, SeqOfFunction
    <3>8. NodeIds(moved) = NodeIds(b.nodes)
      <4>1. \A x \in Range(moved) : \E y \in Range(b.nodes) : x.id = y.id BY <3>4, <3>6 DEF Range
      <4>2. \A y \in Range(b.nodes) : \E x \in Range(moved) : x.id = y.id BY <3>4, <3>6 DEF Range
      <4> QED BY <4>1, <4>2 DEF NodeIds
    <3> QED BY <3>7, <3>8, <2>2
  <2> QED BY <2>1, <2>2
<1> HIDE DEF nodes
<1>6. /\ allNodes \in Seq(PayloadNodes(e)) /\ Distinct(allNodes)
      /\ NodeIds(allNodes) = NodeIds(a.nodes) \cup NodeIds(b.nodes)
  BY <1>3, <1>4, <1>5, AddedNodes
<1>7. links \in Seq(PayloadLinks(e)) /\ DistinctLinks(links) /\ LinkIds(links) = LinkIds(a.links) \cup LinkIds(b.links)
  BY <1>3, <1>4, AddedLinks
<1> HIDE DEF allNodes, links
<1>8. Between(links, NodeIds(allNodes))
  <2> SUFFICES ASSUME NEW l \in Range(links) PROVE {l.source, l.target} \subseteq NodeIds(allNodes)
    BY DEF Between
  <2>1. LinkId(l) \in LinkIds(a.links) \cup LinkIds(b.links) BY <1>7 DEF LinkIds
  <2>2. PICK k \in Range(a.links) \cup Range(b.links) : LinkId(l) = LinkId(k) BY <2>1 DEF LinkIds
  <2>3. l.source = k.source /\ l.target = k.target BY <2>2 DEF LinkId
  <2>4. {k.source, k.target} \subseteq NodeIds(a.nodes) \cup NodeIds(b.nodes) BY <2>2, <1>4 DEF Between
  <2> QED BY <2>3, <2>4, <1>6
<1>9. /\ p.nodes = allNodes /\ p.links = links /\ p.evidence = e /\ p.warned = (a.warned \/ b.warned)
      /\ p = ChainGraph(p.nodes, p.links, p.evidence, p.warned)
  BY GraphFields
<1> HIDE DEF p
<1>10. IsPayload(p) BY <1>4, <1>6, <1>7, <1>8, <1>9 DEF IsPayload
<1> QED BY <1>1, <1>10

\* The union keeps the evidence and the links of both.
LEMMA MergedKeeps ==
    ASSUME NEW a, IsPayload(a), NEW b, IsPayload(b), NEW from
    PROVE  LET p == MergeExpansion(a, b, from) IN
           /\ p.evidence = a.evidence \cup b.evidence
           /\ LinkIds(p.links) = LinkIds(a.links) \cup LinkIds(b.links)
<1> DEFINE e == a.evidence \cup b.evidence
<1>1. a.evidence \subseteq e /\ b.evidence \subseteq e OBVIOUS
<1> HIDE DEF e
<1>2. a.links \in Seq(PayloadLinks(e)) /\ b.links \in Seq(PayloadLinks(e)) /\ DistinctLinks(a.links)
  BY <1>1, MoreEvidence DEF IsPayload
<1>3. LinkIds(AddLinks(a.links, b.links)) = LinkIds(a.links) \cup LinkIds(b.links) BY <1>2, AddedLinks
<1> QED BY <1>3 DEF MergeExpansion, ChainGraph

-----------------------------------------------------------------------------
(* The steps keep a working graph *)

WorkNodes(said) ==
    {n \in ChainNodes(said) : n.id[1] \in RequirementTypes => n.id \in SoughtFor /\ n.depth < Deepest}

IsWork(g) ==
    /\ g = ChainGraph(g.nodes, g.links, g.evidence, g.warned) /\ g.warned \in BOOLEAN
    /\ g.nodes \in Seq(WorkNodes(g.evidence))
    /\ g.links \in Seq(ChainLinks(g.evidence))

\* A working graph is a graph.
LEMMA WorkIsGraph ==
    ASSUME NEW g, IsWork(g)
    PROVE  IsGraph(g)
<1>1. \A i \in 1..Len(g.nodes) : g.nodes[i] \in ChainNodes(g.evidence) BY DEF IsWork, WorkNodes
<1>2. g.nodes \in Seq(ChainNodes(g.evidence)) BY <1>1, SeqOfElements DEF IsWork
<1> QED BY <1>2 DEF IsWork, IsGraph

\* More evidence leaves working nodes what they are.
LEMMA MoreWork ==
    ASSUME NEW e, NEW d, e \subseteq d, NEW s \in Seq(WorkNodes(e))
    PROVE  s \in Seq(WorkNodes(d))
<1>1. ChainNodes(e) \subseteq ChainNodes(d) BY DEF ChainNodes
<1>2. WorkNodes(e) \subseteq WorkNodes(d) BY <1>1 DEF WorkNodes
<1>3. \A i \in 1..Len(s) : s[i] \in WorkNodes(d) BY <1>2
<1> QED BY <1>3, SeqOfElements

\* A working graph of its rows.
LEMMA WorkOf ==
    ASSUME NEW e, NEW nodes \in Seq(WorkNodes(e)), NEW links \in Seq(ChainLinks(e)), NEW warned \in BOOLEAN
    PROVE  IsWork(ChainGraph(nodes, links, e, warned))
<1> DEFINE g == ChainGraph(nodes, links, e, warned)
<1>1. /\ g.nodes = nodes /\ g.links = links /\ g.evidence = e /\ g.warned = warned
      /\ g = ChainGraph(g.nodes, g.links, g.evidence, g.warned)
  BY GraphFields
<1> HIDE DEF g
<1>2. IsWork(g) BY <1>1 DEF IsWork
<1> QED BY <1>2 DEF g

\* A company, a product, or a requirement with suppliers still to come.
LEMMA NodeTyped ==
    ASSUME NEW e, NEW id \in ChainIds, NEW parent \in ChainIds \cup {NoNode}, NEW depth \in 0..Deepest,
           NEW cites, cites \subseteq e, NEW confidence \in Int,
           id[1] \in RequirementTypes => id \in SoughtFor /\ depth < Deepest
    PROVE  ChainNode(id, parent, depth, cites, confidence) \in WorkNodes(e)
BY DEF ChainNode, WorkNodes, ChainNodes

\* A link that climbs.
LEMMA LinkTyped ==
    ASSUME NEW e, NEW source \in ChainIds, NEW target \in ChainIds, Rank[source] < Rank[target],
           NEW suffix \in EdgeSuffixes, NEW confirmed \in BOOLEAN, NEW cites, cites \subseteq e, confirmed => cites # {},
           NEW confidence \in Int
    PROVE  ChainLink(source, target, suffix, confirmed, cites, confidence) \in ChainLinks(e)
BY DEF ChainLink, ChainLinks, LinkRows

\* A requirement is neither a product nor a company.
LEMMA RequirementTypesAre ==
    \A id \in ChainIds : id[1] \in RequirementTypes => id \notin ProductIds /\ id \notin CompanyIds
BY CanonicalIds DEF RequirementTypes

\* The first step puts the seed and the product into the graph.
LEMMA ProductResolved ==
    ASSUME NEW g, IsWork(g), NEW product \in ProductIds
    PROVE  IsWork(ResolveProduct(g, Seed, product)) /\ ResolveProduct(g, Seed, product).evidence = g.evidence
<1> DEFINE e == g.evidence
           old == {i \in DOMAIN g.nodes : g.nodes[i].id \notin {Seed, product}}
           first == ChainNode(Seed, NoNode, 0, {}, 100)
           second == ChainNode(product, Seed, 1, {}, 100)
           roots == <<first, second>>
           nodes == Selected(g.nodes, old) \o roots
<1>1. g.nodes \in Seq(WorkNodes(e)) /\ g.links \in Seq(ChainLinks(e)) /\ g.warned \in BOOLEAN BY DEF IsWork
<1>2. ResolveProduct(g, Seed, product) = ChainGraph(nodes, g.links, e, g.warned) BY DEF ResolveProduct
<1> HIDE DEF e, old
<1>3. Selected(g.nodes, old) \in Seq(WorkNodes(e)) BY <1>1, SelectedIsSelection
<1>4. Seed \in ChainIds /\ product \in ChainIds /\ Seed[1] \notin RequirementTypes /\ product[1] \notin RequirementTypes
  BY RequestAssumption, CanonicalIds, RequirementTypesAre
<1>5. first \in WorkNodes(e)
  <2>1. 0 \in 0..Deepest /\ NoNode \in ChainIds \cup {NoNode} /\ {} \subseteq e /\ 100 \in Int BY DEF Deepest
  <2> QED BY <2>1, <1>4, NodeTyped
<1>6. second \in WorkNodes(e) BY <1>4, NodeTyped DEF Deepest
<1> HIDE DEF first, second
<1>7. roots \in Seq(WorkNodes(e)) BY <1>5, <1>6
<1> HIDE DEF roots
<1>8. nodes \in Seq(WorkNodes(e)) BY <1>3, <1>7, Concatenated
<1> HIDE DEF nodes
<1> QED BY <1>1, <1>2, <1>8, WorkOf, GraphFields DEF e

\* What a list begins with.
LEMMA LeadingIs ==
    ASSUME NEW S, NEW list \in Seq(S), NEW most \in Nat
    PROVE  Leading(list, most) \in Seq(S)
<1>1. Len(list) \in Nat /\ (IF Len(list) < most THEN Len(list) ELSE most) \in Nat
      /\ (IF Len(list) < most THEN Len(list) ELSE most) <= Len(list)
  OBVIOUS
<1> QED BY <1>1 DEF Leading

\* Requirements hang below the product.
LEMMA RequirementsAdded ==
    ASSUME NEW g, IsWork(g), NEW product \in ProductIds, NEW list \in RequirementLists
    PROVE  LET h == AddRequirements(g, product, list, 65) IN IsWork(h) /\ h.evidence = g.evidence
<1> DEFINE e == g.evidence
           S == {id \in ChainIds \ (CompanyIds \cup ProductIds) : id[1] \in RequirementTypes => id \in SoughtFor}
           listed == Leading(list, 10)
           nodes == [i \in DOMAIN listed |-> ChainNode(listed[i], product, 2, {}, 65)]
           links == [i \in DOMAIN listed |-> ChainLink(product, listed[i], "requires", FALSE, {}, 65)]
           allNodes == AddNodes(g.nodes, nodes)
           allLinks == AddLinks(g.links, links)
<1>1. g.nodes \in Seq(WorkNodes(e)) /\ g.links \in Seq(ChainLinks(e)) /\ g.warned \in BOOLEAN BY DEF IsWork
<1>2. AddRequirements(g, product, list, 65) = ChainGraph(allNodes, allLinks, e, g.warned) BY DEF AddRequirements
<1> HIDE DEF e
<1>3. listed \in Seq(S)
  <2>1. list \in Seq(ChainIds \ (CompanyIds \cup ProductIds)) BY DecompositionAssumption
  <2>2. \A i \in 1..Len(list) : list[i] \in S
    <3> SUFFICES ASSUME NEW i \in 1..Len(list) PROVE list[i] \in S
      OBVIOUS
    <3>1. list[i] \in ChainIds \ (CompanyIds \cup ProductIds) /\ list[i] \in Range(list) BY <2>1 DEF Range
    <3>2. list[i] \in UNION {Range(l) : l \in RequirementLists} BY <3>1
    <3> QED BY <3>1, <3>2 DEF SoughtFor
  <2>3. list \in Seq(S) BY <2>1, <2>2, SeqOfElements
  <2> QED BY <2>3, LeadingIs
<1> HIDE DEF listed
<1>4. ASSUME NEW i \in DOMAIN listed
      PROVE  nodes[i] \in WorkNodes(e) /\ links[i] \in ChainLinks(e)
  <2>1. /\ listed[i] \in ChainIds \ (ProductIds \cup CompanyIds)
        /\ listed[i][1] \in RequirementTypes => listed[i] \in SoughtFor
    BY <1>3
  <2>2. product \in ChainIds /\ product \in ChainIds \cup {NoNode} BY CanonicalIds
  <2>3. Rank[product] < Rank[listed[i]] BY <2>1, RankIs
  <2>4. 2 \in 0..Deepest /\ 2 < Deepest /\ {} \subseteq e /\ 65 \in Int BY DEF Deepest
  <2>5. ChainNode(listed[i], product, 2, {}, 65) \in WorkNodes(e) BY <2>1, <2>2, <2>4, NodeTyped
  <2>6. ChainLink(product, listed[i], "requires", FALSE, {}, 65) \in ChainLinks(e)
    <3>1. "requires" \in EdgeSuffixes BY DEF EdgeSuffixes
    <3>2. FALSE \in BOOLEAN OBVIOUS
    <3> QED BY <3>1, <3>2, <2>1, <2>2, <2>3, <2>4, LinkTyped
  <2> QED BY <2>5, <2>6
<1>5. nodes = [i \in DOMAIN listed |-> nodes[i]] /\ links = [i \in DOMAIN listed |-> links[i]] OBVIOUS
<1> HIDE DEF nodes, links
<1>6. nodes \in Seq(WorkNodes(e)) BY <1>3, <1>4, <1>5, ListTyped
<1>7. links \in Seq(ChainLinks(e)) BY <1>3, <1>4, <1>5, ListTyped
<1>8. allNodes \in Seq(WorkNodes(e)) BY <1>1, <1>6, AddedNodes
<1>9. allLinks \in Seq(ChainLinks(e)) BY <1>1, <1>7, AddedLinks
<1> HIDE DEF allNodes, allLinks
<1> QED BY <1>1, <1>2, <1>8, <1>9, WorkOf, GraphFields DEF e

\* The evidence a graph gains is evidence its rows may cite.
LEMMA EvidenceNormalized ==
    ASSUME NEW nodes, NEW links, NEW e, NEW warned \in BOOLEAN, NEW rows,
           nodes \in Seq(WorkNodes(e \cup rows)), links \in Seq(ChainLinks(e \cup rows))
    PROVE  IsWork(NormalizeChainEvidence(ChainGraph(nodes, links, e, warned), rows))
<1> DEFINE g == ChainGraph(nodes, links, e, warned)
           d == e \cup rows
           dangling == \E l \in Range(g.links) : l.confirmed /\ ~(l.cites \subseteq d)
<1>1. g.nodes = nodes /\ g.links = links /\ g.evidence = e /\ g.warned = warned BY GraphFields
<1> HIDE DEF g
<1>2. NormalizeChainEvidence(g, rows) = ChainGraph(nodes, links, d, warned \/ dangling)
  BY <1>1 DEF NormalizeChainEvidence
<1>3. (warned \/ dangling) \in BOOLEAN OBVIOUS
<1> HIDE DEF dangling, d
<1>4. IsWork(ChainGraph(nodes, links, d, warned \/ dangling)) BY <1>3, WorkOf DEF d
<1> QED BY <1>2, <1>4 DEF g

\* The bundled graph comes with the evidence it cites.
LEMMA FixtureAdded ==
    ASSUME NEW g, IsWork(g)
    PROVE  IsWork(NormalizeChainEvidence(AddFixture(g, Fixture), Fixture.evidence))
<1> DEFINE e == g.evidence
           d == e \cup Fixture.evidence
           known == {<<l.source, l.target>> : l \in Range(g.links)}
           fresh == {i \in DOMAIN Fixture.links : <<Fixture.links[i].source, Fixture.links[i].target>> \notin known}
           nodes == AddNodes(g.nodes, Fixture.nodes)
           some == Selected(Fixture.links, fresh)
           links == g.links \o some
<1>1. g.nodes \in Seq(WorkNodes(e)) /\ g.links \in Seq(ChainLinks(e)) /\ g.warned \in BOOLEAN BY DEF IsWork
<1>2. AddFixture(g, Fixture) = ChainGraph(nodes, links, e, g.warned) BY DEF AddFixture
<1>3. e \subseteq d /\ Fixture.evidence \subseteq d OBVIOUS
<1> HIDE DEF e, d, fresh
<1>4. g.nodes \in Seq(WorkNodes(d)) /\ g.links \in Seq(ChainLinks(d)) BY <1>1, <1>3, MoreWork, MoreEvidence
<1>5. Fixture.nodes \in Seq(WorkNodes(d))
  <2>1. \A i \in 1..Len(Fixture.nodes) : Fixture.nodes[i] \in WorkNodes(d)
    <3> SUFFICES ASSUME NEW i \in 1..Len(Fixture.nodes) PROVE Fixture.nodes[i] \in WorkNodes(d)
      OBVIOUS
    <3> DEFINE n == Fixture.nodes[i]
    <3>1. n \in FixtureNodes /\ n \in Range(Fixture.nodes) BY FixtureTyped DEF Range
    <3> HIDE DEF n
    <3>0. n.depth \in 0..(Deepest - 1) /\ n.confidence \in 0..100 BY <3>1 DEF FixtureNodes
    <3>02. Deepest = 10 /\ n.depth \in 0..9 BY <3>0 DEF Deepest
    <3>03. 0..100 \subseteq Int /\ n.confidence \in 0..100 BY <3>0
    <3>04. n.confidence \in Int BY <3>03
    <3>2. n.depth \in 0..Deepest /\ n.depth < Deepest /\ n.confidence \in Int BY <3>02, <3>04
    <3>3. n \in ChainNodes(d) BY <3>1, <3>2, <1>3 DEF FixtureNodes, ChainNodes
    <3>4. n.id[1] \in RequirementTypes => n.id \in SoughtFor BY <3>1 DEF SoughtFor
    <3>5. n \in WorkNodes(d) BY <3>2, <3>3, <3>4 DEF WorkNodes
    <3> QED BY <3>5 DEF n
  <2> QED BY <2>1, FixtureTyped, SeqOfElements
<1>6. Fixture.links \in Seq(ChainLinks(d))
  <2>1. \A i \in 1..Len(Fixture.links) : Fixture.links[i] \in ChainLinks(d)
    <3> SUFFICES ASSUME NEW i \in 1..Len(Fixture.links) PROVE Fixture.links[i] \in ChainLinks(d)
      OBVIOUS
    <3> DEFINE l == Fixture.links[i]
    <3>1. l \in FixtureLinks /\ (l.confirmed => l.cites # {}) /\ l \in Range(Fixture.links) BY FixtureTyped DEF Range
    <3> HIDE DEF l
    <3>01. l.cites \subseteq Fixture.evidence /\ l.confidence \in 0..100 BY <3>1 DEF FixtureLinks
    <3>02. 0..100 \subseteq Int OBVIOUS
    <3>03. l.confidence \in Int BY <3>01, <3>02
    <3>0. l.cites \subseteq d /\ l.confidence \in Int BY <3>01, <3>03, <1>3
    <3>2. l \in LinkRows(d) BY <3>0, <3>1 DEF FixtureLinks, LinkRows
    <3>3. Rank[l.source] < Rank[l.target] BY <3>1, RankIs
    <3>4. l \in ChainLinks(d) BY <3>1, <3>2, <3>3 DEF ChainLinks
    <3> QED BY <3>4 DEF l
  <2> QED BY <2>1, FixtureTyped, SeqOfElements
<1>7. nodes \in Seq(WorkNodes(d)) BY <1>4, <1>5, AddedNodes
<1>8. some \in Seq(ChainLinks(d)) BY <1>6, SelectedIsSelection
<1> HIDE DEF nodes, some
<1>9. links \in Seq(ChainLinks(d)) BY <1>4, <1>8, Concatenated
<1> HIDE DEF links
<1> QED BY <1>1, <1>2, <1>7, <1>9, EvidenceNormalized DEF d

-----------------------------------------------------------------------------
(* Suppliers *)

NeedNodes(e) == {n \in WorkNodes(e) : n.id[1] \in RequirementTypes}

\* The requirements of a working graph.
LEMMA NeedsTyped ==
    ASSUME NEW g, IsWork(g)
    PROVE  RequirementNodes(g) \in Seq(NeedNodes(g.evidence)) /\ Len(RequirementNodes(g)) \in Nat
<1> DEFINE W == {i \in DOMAIN g.nodes : g.nodes[i].id[1] \in RequirementTypes}
           S == WorkNodes(g.evidence)
           s == g.nodes
           r == Selected(s, W)
<1>1. s \in Seq(S) BY DEF IsWork
<1>2. RequirementNodes(g) = r BY DEF RequirementNodes
<1>3. /\ r \in Seq(S) /\ Len(r) \in Nat
      /\ \A j \in 1..Len(r) : \E i \in 1..Len(s) : i \in W /\ r[j] = s[i]
  <2> HIDE DEF W, S, s
  <2> QED BY <1>1, SelectedHas
<1>4. \A j \in 1..Len(r) : r[j] \in NeedNodes(g.evidence)
  <2> HIDE DEF r
  <2> SUFFICES ASSUME NEW j \in 1..Len(r) PROVE r[j] \in NeedNodes(g.evidence)
    OBVIOUS
  <2>1. PICK i \in 1..Len(g.nodes) : i \in W /\ r[j] = g.nodes[i] BY <1>3
  <2>2. r[j] \in WorkNodes(g.evidence) BY <1>3
  <2> QED BY <2>1, <2>2 DEF NeedNodes
<1> HIDE DEF r
<1>5. r \in Seq(NeedNodes(g.evidence)) BY <1>3, <1>4, SeqOfElements
<1> QED BY <1>2, <1>3, <1>5

\* A supplier of a requirement ranks above it.
LEMMA NeedIs ==
    ASSUME NEW e, NEW n \in NeedNodes(e), NEW id \in CompanyIds, NEW cites, cites \subseteq e, NEW confidence \in Int
    PROVE  /\ Supplier(id, n, cites, confidence) \in WorkNodes(e)
           /\ n.id \in ChainIds \ (ProductIds \cup CompanyIds) /\ Rank[n.id] < Rank[id] /\ id \in ChainIds
           /\ n.id \in SoughtFor
<1>1. n.id \in ChainIds /\ n.id[1] \in RequirementTypes /\ n.id \in SoughtFor /\ n.depth < Deepest /\ n.depth \in 0..Deepest
  BY DEF NeedNodes, WorkNodes, ChainNodes
<1>2. n.depth + 1 \in 0..Deepest BY <1>1 DEF Deepest
<1>3. id \in ChainIds /\ id[1] \notin RequirementTypes BY CanonicalIds, RequirementTypesAre
<1>4. n.id \in ChainIds \ (ProductIds \cup CompanyIds) BY <1>1, RequirementTypesAre
<1>5. Rank[n.id] < Rank[id] BY <1>4, RankIs
<1>6. ChainNode(id, n.id, n.depth + 1, cites, confidence) \in WorkNodes(e) BY <1>1, <1>2, <1>3, NodeTyped
<1> QED BY <1>1, <1>3, <1>4, <1>5, <1>6 DEF Supplier

\* Proposals that are considered name a requirement of the graph.
LEMMA ConsideredIs ==
    ASSUME NEW g, IsWork(g), NEW list \in ProposalLists
    PROVE  Considered(g, Seed, list) \in
             Seq({p \in [requirement : ChainIds, supplier : CompanyIds] : p.requirement \in NodeIds(RequirementNodes(g))})
<1> DEFINE A == [requirement : ChainIds, supplier : CompanyIds]
           known == NodeIds(RequirementNodes(g))
           S == {p \in A : p.requirement \in known}
           most == Leading(list, MaxSuppliers * Len(RequirementNodes(g)))
           W == {i \in DOMAIN most : most[i].requirement \in known /\ most[i].supplier # Seed}
           r == Selected(most, W)
<1>1. list \in Seq(A) BY ProposalAssumption
<1>2. MaxSuppliers * Len(RequirementNodes(g)) \in Nat BY NeedsTyped, SuppliersAssumption
<1>3. most \in Seq(A)
  <2> HIDE DEF A
  <2> QED BY <1>1, <1>2, LeadingIs
<1>4. Considered(g, Seed, list) = r BY DEF Considered
<1> HIDE DEF most
<1>5. /\ r \in Seq(A) /\ Len(r) \in Nat
      /\ \A j \in 1..Len(r) : \E i \in 1..Len(most) : i \in W /\ r[j] = most[i]
  <2> HIDE DEF W, A
  <2> QED BY <1>3, SelectedHas
<1> HIDE DEF r
<1>6. \A j \in 1..Len(r) : r[j] \in S
  <2> SUFFICES ASSUME NEW j \in 1..Len(r) PROVE r[j] \in S
    OBVIOUS
  <2>1. PICK i \in 1..Len(most) : i \in W /\ r[j] = most[i] BY <1>5
  <2> HIDE DEF A, known
  <2>2. r[j] \in A BY <1>5
  <2> QED BY <2>1, <2>2
<1>7. r \in Seq(S)
  <2> HIDE DEF S, A
  <2> QED BY <1>5, <1>6, SeqOfElements
<1> QED BY <1>4, <1>7

\* Proposed suppliers are added as hypotheses.
LEMMA ProposalsAdded ==
    ASSUME NEW g, IsWork(g), NEW list \in ProposalLists
    PROVE  LET h == AddProposals(g, Seed, list) IN IsWork(h) /\ h.evidence = g.evidence
<1> DEFINE e == g.evidence
           S == {p \in [requirement : ChainIds, supplier : CompanyIds] : p.requirement \in NodeIds(RequirementNodes(g))}
           rows == Considered(g, Seed, list)
           nodes == [i \in DOMAIN rows |-> Supplier(rows[i].supplier, RequirementNode(g, rows[i].requirement), {}, 55)]
           links == [i \in DOMAIN rows |-> ChainLink(rows[i].requirement, rows[i].supplier, "supplied_by", FALSE, {}, 55)]
           allNodes == AddNodes(g.nodes, nodes)
           allLinks == AddLinks(g.links, links)
<1>1. g.nodes \in Seq(WorkNodes(e)) /\ g.links \in Seq(ChainLinks(e)) /\ g.warned \in BOOLEAN BY DEF IsWork
<1>2. AddProposals(g, Seed, list) = ChainGraph(allNodes, allLinks, e, g.warned) BY DEF AddProposals
<1>3. rows \in Seq(S) BY ConsideredIs
<1>0. RequirementNodes(g) \in Seq(NeedNodes(e)) BY NeedsTyped
<1> HIDE DEF e, rows
<1>4. ASSUME NEW i \in DOMAIN rows
      PROVE  nodes[i] \in WorkNodes(e) /\ links[i] \in ChainLinks(e)
  <2> DEFINE n == RequirementNode(g, rows[i].requirement)
  <2>1. rows[i] \in S BY <1>3
  <2>2. \E m \in Range(RequirementNodes(g)) : m.id = rows[i].requirement BY <2>1 DEF NodeIds
  <2>3. n \in Range(RequirementNodes(g)) /\ n.id = rows[i].requirement BY <2>2 DEF RequirementNode
  <2>4. n \in NeedNodes(e) BY <2>3, <1>0 DEF Range
  <2> HIDE DEF n
  <2>5. rows[i].supplier \in CompanyIds /\ {} \subseteq e /\ 55 \in Int BY <2>1
  <2>6. /\ Supplier(rows[i].supplier, n, {}, 55) \in WorkNodes(e)
        /\ n.id \in ChainIds /\ Rank[n.id] < Rank[rows[i].supplier] /\ rows[i].supplier \in ChainIds
    BY <2>4, <2>5, NeedIs
  <2>7. ChainLink(rows[i].requirement, rows[i].supplier, "supplied_by", FALSE, {}, 55) \in ChainLinks(e)
    <3>1. "supplied_by" \in EdgeSuffixes BY DEF EdgeSuffixes
    <3>2. FALSE \in BOOLEAN OBVIOUS
    <3> QED BY <3>1, <3>2, <2>3, <2>5, <2>6, LinkTyped
  <2> QED BY <2>6, <2>7 DEF n
<1>5. nodes = [i \in DOMAIN rows |-> nodes[i]] /\ links = [i \in DOMAIN rows |-> links[i]] OBVIOUS
<1> HIDE DEF nodes, links, S
<1>6. nodes \in Seq(WorkNodes(e)) BY <1>3, <1>4, <1>5, ListTyped
<1>7. links \in Seq(ChainLinks(e)) BY <1>3, <1>4, <1>5, ListTyped
<1>8. allNodes \in Seq(WorkNodes(e)) BY <1>1, <1>6, AddedNodes
<1>9. allLinks \in Seq(ChainLinks(e)) BY <1>1, <1>7, AddedLinks
<1> HIDE DEF allNodes, allLinks
<1> QED BY <1>1, <1>2, <1>8, <1>9, WorkOf, GraphFields DEF e

Relations(e, rows) ==
    [requirement : NeedNodes(e), supplier : CompanyIds, evidence : rows, cited : BOOLEAN, sure : BOOLEAN, confidence : Int]

ToldRows(found) == {r.evidence : r \in Range(found.results)} \cup {r.evidence : r \in Range(found.relations)}

\* A relation of its fields.
LEMMA RelationTyped ==
    ASSUME NEW e, NEW rows, NEW n \in NeedNodes(e), NEW supplier \in CompanyIds, NEW said \in rows,
           NEW cited \in BOOLEAN, NEW sure \in BOOLEAN, NEW confidence \in Int
    PROVE  Relation(n, supplier, said, cited, sure, confidence) \in Relations(e, rows)
BY DEF Relation, Relations

\* What the model reads from snippets.
LEMMA ExtractedTyped ==
    ASSUME NEW e, NEW n \in NeedNodes(e), NEW relations, relations \in Seq(Range(relations)),
           \A r \in Range(relations) : r.supplier \in CompanyIds /\ r.sure \in BOOLEAN /\ r.confidence \in 0..100
    PROVE  Extracted(Seed, n, relations) \in Seq(Relations(e, {r.evidence : r \in Range(relations)}))
<1> DEFINE A == Range(relations)
           rows == {r.evidence : r \in A}
           W == {i \in DOMAIN relations : relations[i].supplier # Seed /\ relations[i].quoted /\ relations[i].url}
           told == Selected(relations, W)
           f == [i \in DOMAIN told |->
                    Relation(n, told[i].supplier, told[i].evidence, TRUE, told[i].sure, told[i].confidence)]
<1>1. Extracted(Seed, n, relations) = f BY DEF Extracted
<1>2. told \in Seq(A)
  <2> HIDE DEF W, A
  <2> QED BY SelectedIsSelection DEF A
<1> HIDE DEF told
<1>3. ASSUME NEW i \in DOMAIN told PROVE f[i] \in Relations(e, rows)
  <2>1. told[i] \in A BY <1>2
  <2>2. told[i].supplier \in CompanyIds /\ told[i].sure \in BOOLEAN /\ told[i].confidence \in 0..100 BY <2>1
  <2>3. told[i].evidence \in rows BY <2>1
  <2>4. told[i].confidence \in Int /\ TRUE \in BOOLEAN
    <3>1. 0..100 \subseteq Int OBVIOUS
    <3> QED BY <2>2, <3>1
  <2> HIDE DEF rows, A
  <2> QED BY <2>2, <2>3, <2>4, RelationTyped
<1>4. f = [i \in DOMAIN told |-> f[i]] OBVIOUS
<1> HIDE DEF f, rows, A
<1>5. f \in Seq(Relations(e, rows)) BY <1>2, <1>3, <1>4, ListTyped
<1> QED BY <1>1, <1>5 DEF rows, A

\* What known companies in the results give.
LEMMA KnownTyped ==
    ASSUME NEW e, NEW n \in NeedNodes(e), NEW graph, NEW proposed, NEW results, results \in Seq(Range(results)),
           \A r \in Range(results) : r.supplier \in CompanyIds /\ r.url \in BOOLEAN
    PROVE  KnownSuppliers(graph, Seed, n, proposed, results) \in Seq(Relations(e, {r.evidence : r \in Range(results)}))
<1> DEFINE A == Range(results)
           rows == {r.evidence : r \in A}
           sought == {i \in DOMAIN results :
               results[i].supplier # Seed /\ (proposed # {} => results[i].supplier \in proposed)}
           new == {i \in sought : /\ <<n.id, results[i].supplier, "supplied_by">> \notin LinkIds(graph.links)
                                  /\ \A j \in sought : j < i => results[j].supplier # results[i].supplier}
           W == {i \in sought : Cardinality({j \in new : j < i}) < MaxSuppliers}
           read == Selected(results, W)
           f == [i \in DOMAIN read |-> Relation(n, read[i].supplier, read[i].evidence, read[i].url, TRUE,
                                               IF read[i].url THEN 70 ELSE 30)]
<1>1. KnownSuppliers(graph, Seed, n, proposed, results) = f BY DEF KnownSuppliers
<1>2. read \in Seq(A)
  <2> HIDE DEF W, A
  <2> QED BY SelectedIsSelection DEF A
<1> HIDE DEF read
<1>3. ASSUME NEW i \in DOMAIN read PROVE f[i] \in Relations(e, rows)
  <2>1. read[i] \in A BY <1>2
  <2>2. read[i].supplier \in CompanyIds /\ read[i].url \in BOOLEAN BY <2>1
  <2>3. read[i].evidence \in rows BY <2>1
  <2>4. (IF read[i].url THEN 70 ELSE 30) \in Int /\ TRUE \in BOOLEAN OBVIOUS
  <2> HIDE DEF rows, A
  <2> QED BY <2>2, <2>3, <2>4, RelationTyped, ZenonT(60)
<1>4. f = [i \in DOMAIN read |-> f[i]] OBVIOUS
<1> HIDE DEF f, rows, A
<1>5. f \in Seq(Relations(e, rows)) BY <1>2, <1>3, <1>4, ListTyped
<1> QED BY <1>1, <1>5 DEF rows, A

\* Relations that more rows tell.
LEMMA MoreRelations ==
    ASSUME NEW e, NEW rows, NEW more, rows \subseteq more, NEW s \in Seq(Relations(e, rows))
    PROVE  s \in Seq(Relations(e, more))
<1>1. Relations(e, rows) \subseteq Relations(e, more) BY DEF Relations
<1>2. \A i \in 1..Len(s) : s[i] \in Relations(e, more) BY <1>1
<1> QED BY <1>2, SeqOfElements

\* All that one requirement is told.
LEMMA RelationsTyped ==
    ASSUME NEW e, NEW n \in NeedNodes(e), NEW graph, NEW proposed, NEW found \in Findings, NEW rows, ToldRows(found[n.id]) \subseteq rows
    PROVE  RelationsOf(graph, Seed, n, proposed, found[n.id]) \in Seq(Relations(e, rows))
<1> DEFINE results == found[n.id].results
           relations == found[n.id].relations
<1>1. n.id \in SoughtFor BY DEF NeedNodes, WorkNodes
<1>2. /\ results \in Seq(Range(results)) /\ relations \in Seq(Range(relations))
      /\ \A r \in Range(results) : r.supplier \in CompanyIds /\ r.url \in BOOLEAN
      /\ \A r \in Range(relations) : r.supplier \in CompanyIds /\ r.sure \in BOOLEAN /\ r.confidence \in 0..100
  BY <1>1, FindingAssumption
<1>3. {r.evidence : r \in Range(results)} \subseteq rows /\ {r.evidence : r \in Range(relations)} \subseteq rows
  BY DEF ToldRows
<1>4. Extracted(Seed, n, relations) \in Seq(Relations(e, rows))
  <2> HIDE DEF relations
  <2>1. Extracted(Seed, n, relations) \in Seq(Relations(e, {r.evidence : r \in Range(relations)})) BY <1>2, ExtractedTyped
  <2> QED BY <2>1, <1>3, MoreRelations
<1>5. KnownSuppliers(graph, Seed, n, proposed, results) \in Seq(Relations(e, rows))
  <2> HIDE DEF results
  <2>1. KnownSuppliers(graph, Seed, n, proposed, results) \in Seq(Relations(e, {r.evidence : r \in Range(results)}))
    BY <1>2, KnownTyped
  <2> QED BY <2>1, <1>3, MoreRelations
<1>6. <<>> \in Seq(Relations(e, rows)) OBVIOUS
<1> QED BY <1>4, <1>5, <1>6 DEF RelationsOf

\* The highest of some ratings is one of them.
LEMMA HighestIs ==
    ASSUME NEW ratings, IsFiniteSet(ratings), ratings \subseteq Int, ratings # {}
    PROVE  Highest(ratings) \in ratings
<1> DEFINE f == [c \in ratings |-> c]
<1>1. \A c \in ratings : f[c] \in Int OBVIOUS
<1>2. \E c \in ratings : \A d \in ratings : f[d] <= f[c]
  <2> HIDE DEF f
  <2> QED BY <1>1, BestOfSome
<1>3. \E c \in ratings : \A d \in ratings : d <= c BY <1>2
<1> QED BY <1>3 DEF Highest

\* A link that evidence confirms cites it.
LEMMA UpgradedTyped ==
    ASSUME NEW e, NEW l \in ChainLinks(e), NEW old, NEW d, NEW rows, NEW relations \in Seq(Relations(d, rows)),
           {relations[i].evidence : i \in DOMAIN relations} \subseteq e
    PROVE  Upgraded(l, old, relations) \in ChainLinks(e)
<1> DEFINE by == {i \in DOMAIN relations :
                /\ relations[i].cited /\ RelationId(relations[i]) = LinkId(l)
                /\ LinkId(l) \in LinkIds(old) \/ \E j \in 1..(i - 1) : RelationId(relations[j]) = LinkId(l)}
           rated == {relations[i].confidence : i \in by}
           ratings == {l.confidence} \cup rated
           cites == l.cites \cup {relations[i].evidence : i \in by}
<1>1. Upgraded(l, old, relations) =
        IF by = {} THEN l ELSE ChainLink(l.source, l.target, l.suffix, TRUE, cites, Highest(ratings))
  BY DEF Upgraded
<1>2. DOMAIN relations = 1..Len(relations) /\ Len(relations) \in Nat /\ by \subseteq DOMAIN relations
  OBVIOUS
<1>3. \A i \in DOMAIN relations : relations[i] \in Relations(d, rows) OBVIOUS
<1>4. /\ l.source \in ChainIds /\ l.target \in ChainIds /\ Rank[l.source] < Rank[l.target] /\ l.suffix \in EdgeSuffixes
      /\ l.cites \subseteq e /\ l.confidence \in Int
  BY DEF ChainLinks, LinkRows
<1>5. CASE by = {} BY <1>1, <1>5
<1>6. CASE by # {}
  <2> HIDE DEF by
  <2>1. IsFiniteSet(by)
    <3>1. IsFiniteSet(1..Len(relations)) BY <1>2, FS_Interval
    <3> QED BY <3>1, <1>2, FS_Subset
  <2> DEFINE f == [i \in by |-> relations[i].confidence]
  <2>2. rated = {f[i] : i \in by} OBVIOUS
  <2>3. IsFiniteSet(rated)
    <3> HIDE DEF f, rated
    <3> QED BY <2>1, <2>2, ImageIsFinite
  <2>4. rated \subseteq Int BY <1>2, <1>3 DEF Relations
  <2> HIDE DEF rated
  <2>5. IsFiniteSet(ratings) /\ ratings \subseteq Int /\ ratings # {}
    <3>1. IsFiniteSet({l.confidence}) BY FS_Singleton
    <3>2. IsFiniteSet({l.confidence} \cup rated) BY <2>3, <3>1, FS_Union
    <3> QED BY <3>2, <2>4, <1>4
  <2> HIDE DEF ratings
  <2>6. Highest(ratings) \in Int BY <2>5, HighestIs
  <2>7. cites \subseteq e /\ cites # {} BY <1>2, <1>4, <1>6
  <2> HIDE DEF cites
  <2>8. ChainLink(l.source, l.target, l.suffix, TRUE, cites, Highest(ratings)) \in ChainLinks(e)
    BY <1>4, <2>6, <2>7, LinkTyped
  <2> QED BY <1>1, <1>6, <2>8
<1> QED BY <1>5, <1>6

\* Every relation brings its evidence, its supplier and its link.
LEMMA RelationsAdded ==
    ASSUME NEW g, IsWork(g), NEW rows, NEW relations \in Seq(Relations(g.evidence, rows))
    PROVE  IsWork(AddRelations(g, relations))
<1> DEFINE e == g.evidence
           d == e \cup {relations[i].evidence : i \in DOMAIN relations}
           nodes == [i \in DOMAIN relations |->
                    Supplier(relations[i].supplier, relations[i].requirement, {relations[i].evidence}, relations[i].confidence)]
           made == [i \in DOMAIN relations |->
                    LET r == relations[i]
                    IN  ChainLink(r.requirement.id, r.supplier, "supplied_by", r.cited /\ r.sure,
                                  IF r.cited THEN {r.evidence} ELSE {}, r.confidence)]
           links == AddLinks(g.links, made)
           upgraded == [i \in DOMAIN links |-> Upgraded(links[i], g.links, relations)]
           allNodes == AddNodes(g.nodes, nodes)
<1>1. g.nodes \in Seq(WorkNodes(e)) /\ g.links \in Seq(ChainLinks(e)) /\ g.warned \in BOOLEAN BY DEF IsWork
<1>2. AddRelations(g, relations) = ChainGraph(allNodes, upgraded, d, g.warned) BY DEF AddRelations
<1>3. e \subseteq d /\ {relations[i].evidence : i \in DOMAIN relations} \subseteq d OBVIOUS
<1>4. relations \in Seq(Relations(e, rows)) OBVIOUS
<1> HIDE DEF e, d
<1>5. ASSUME NEW i \in DOMAIN relations
      PROVE  nodes[i] \in WorkNodes(d) /\ made[i] \in ChainLinks(d)
  <2> DEFINE r == relations[i]
  <2>1. r \in Relations(e, rows) /\ r.evidence \in d BY <1>3, <1>4
  <2>2. nodes[i] = Supplier(r.supplier, r.requirement, {r.evidence}, r.confidence)
    OBVIOUS
  <2>3. made[i] = ChainLink(r.requirement.id, r.supplier, "supplied_by", r.cited /\ r.sure,
                            IF r.cited THEN {r.evidence} ELSE {}, r.confidence)
    OBVIOUS
  <2> HIDE DEF r, nodes, made
  <2>4. /\ r.requirement \in NeedNodes(e) /\ r.supplier \in CompanyIds /\ r.cited \in BOOLEAN /\ r.sure \in BOOLEAN
        /\ r.confidence \in Int
    BY <2>1 DEF Relations
  <2>5. r.requirement \in NeedNodes(d)
    <3>1. ChainNodes(e) \subseteq ChainNodes(d) BY <1>3 DEF ChainNodes
    <3>2. WorkNodes(e) \subseteq WorkNodes(d) BY <3>1 DEF WorkNodes
    <3> QED BY <2>4, <3>2 DEF NeedNodes
  <2>6. {r.evidence} \subseteq d BY <2>1
  <2>7. /\ nodes[i] \in WorkNodes(d) /\ r.requirement.id \in ChainIds
        /\ Rank[r.requirement.id] < Rank[r.supplier] /\ r.supplier \in ChainIds
    BY <2>2, <2>4, <2>5, <2>6, NeedIs
  <2>8. /\ (r.cited /\ r.sure) \in BOOLEAN /\ (IF r.cited THEN {r.evidence} ELSE {}) \subseteq d
        /\ (r.cited /\ r.sure) => (IF r.cited THEN {r.evidence} ELSE {}) # {}
    BY <2>4, <2>6
  <2>9. "supplied_by" \in EdgeSuffixes BY DEF EdgeSuffixes
  <2> DEFINE confirmed == r.cited /\ r.sure
             cites == IF r.cited THEN {r.evidence} ELSE {}
  <2>10. confirmed \in BOOLEAN /\ cites \subseteq d /\ (confirmed => cites # {}) BY <2>8
  <2>11. made[i] = ChainLink(r.requirement.id, r.supplier, "supplied_by", confirmed, cites, r.confidence) BY <2>3
  <2> HIDE DEF confirmed, cites
  <2>12. made[i] \in ChainLinks(d) BY <2>4, <2>7, <2>9, <2>10, <2>11, LinkTyped
  <2> QED BY <2>7, <2>12
<1>6. nodes = [i \in DOMAIN relations |-> nodes[i]] /\ made = [i \in DOMAIN relations |-> made[i]] OBVIOUS
<1> HIDE DEF nodes, made
<1>7. nodes \in Seq(WorkNodes(d)) BY <1>4, <1>5, <1>6, ListTyped
<1>8. made \in Seq(ChainLinks(d)) BY <1>4, <1>5, <1>6, ListTyped
<1>9. g.nodes \in Seq(WorkNodes(d)) /\ g.links \in Seq(ChainLinks(d)) BY <1>1, <1>3, MoreWork, MoreEvidence
<1>10. allNodes \in Seq(WorkNodes(d)) BY <1>7, <1>9, AddedNodes
<1>11. links \in Seq(ChainLinks(d)) BY <1>8, <1>9, AddedLinks
<1> HIDE DEF allNodes, links
<1>12. \A i \in DOMAIN links : upgraded[i] \in ChainLinks(d)
  <2> SUFFICES ASSUME NEW i \in DOMAIN links PROVE upgraded[i] \in ChainLinks(d)
    OBVIOUS
  <2>1. links[i] \in ChainLinks(d) BY <1>11
  <2>2. Upgraded(links[i], g.links, relations) \in ChainLinks(d) BY <2>1, <1>3, <1>4, UpgradedTyped
  <2> QED BY <2>2
<1>13. upgraded = [i \in DOMAIN links |-> upgraded[i]] OBVIOUS
<1> HIDE DEF upgraded
<1>14. upgraded \in Seq(ChainLinks(d)) BY <1>11, <1>12, <1>13, ListTyped
<1> QED BY <1>1, <1>2, <1>10, <1>14, WorkOf

\* Discovery keeps a working graph.
LEMMA SuppliersFound ==
    ASSUME NEW g, IsWork(g), NEW list \in ProposalLists, NEW found \in Findings
    PROVE  IsWork(DiscoverSuppliers(g, Seed, list, found))
<1> DEFINE searched == Leading(RequirementNodes(g), 2 * MaxSuppliers)
           rows == Considered(g, Seed, list)
           proposed(n) == {p.supplier : p \in {q \in Range(rows) : q.requirement = n.id}}
           guessed == AddProposals(g, Seed, list)
           lists == [k \in DOMAIN searched |->
                    RelationsOf(guessed, Seed, searched[k], proposed(searched[k]), found[searched[k].id])]
           told == Chained(lists)
           linked == AddRelations(guessed, told)
           empty == \E n \in Range(searched) : found[n.id].searched /\ found[n.id].results = <<>>
           e == g.evidence
           all == UNION {ToldRows(found[n.id]) : n \in Range(searched)}
<1>1. DiscoverSuppliers(g, Seed, list, found) =
        ChainGraph(linked.nodes, linked.links, linked.evidence, linked.warned \/ empty)
  BY DEF DiscoverSuppliers
<1>2. IsWork(guessed) /\ guessed.evidence = e BY ProposalsAdded
<1> HIDE DEF guessed, rows, e
<1>3. RequirementNodes(g) \in Seq(NeedNodes(e)) BY NeedsTyped DEF e
<1>4. searched \in Seq(NeedNodes(e))
  <2>1. 2 * MaxSuppliers \in Nat BY SuppliersAssumption
  <2> QED BY <1>3, <2>1, LeadingIs
<1> HIDE DEF searched
<1>5. \A k \in DOMAIN searched : lists[k] \in Seq(Relations(e, all))
  <2> SUFFICES ASSUME NEW k \in DOMAIN searched PROVE lists[k] \in Seq(Relations(e, all))
    OBVIOUS
  <2>1. searched[k] \in NeedNodes(e) /\ searched[k] \in Range(searched) BY <1>4 DEF Range
  <2>2. ToldRows(found[searched[k].id]) \subseteq all BY <2>1
  <2> HIDE DEF all, proposed
  <2> QED BY <2>1, <2>2, RelationsTyped
<1>6. lists = [k \in DOMAIN searched |-> lists[k]] OBVIOUS
<1> HIDE DEF lists, all
<1>7. lists \in Seq(Seq(Relations(e, all))) BY <1>4, <1>5, <1>6, ListTyped
<1>8. told \in Seq(Relations(e, all)) BY <1>7, ChainedHas
<1> HIDE DEF told
<1>9. IsWork(linked) BY <1>2, <1>8, RelationsAdded
<1> HIDE DEF linked
<1>10. (linked.warned \/ empty) \in BOOLEAN OBVIOUS
<1> HIDE DEF empty
<1>11. linked.nodes \in Seq(WorkNodes(linked.evidence)) /\ linked.links \in Seq(ChainLinks(linked.evidence))
  BY <1>9 DEF IsWork
<1>12. IsWork(ChainGraph(linked.nodes, linked.links, linked.evidence, linked.warned \/ empty))
  BY ONLY <1>10, <1>11, WorkOf
<1> QED BY <1>1, <1>12

\* The steps on live sources keep a working graph.
LEMMA LiveStep ==
    ASSUME NEW g, IsWork(g), NEW product \in ProductIds, NEW h \in LiveGraphs(g, product)
    PROVE  IsWork(h)
<1>1. PICK required \in RequirementLists, proposals \in ProposalLists, found \in Findings :
        h = NormalizeChainEvidence(
                DiscoverSuppliers(AddRequirements(ResolveProduct(g, Seed, product), product, required, 65),
                                  Seed, proposals, found), {})
  BY DEF LiveGraphs
<1> DEFINE a == ResolveProduct(g, Seed, product)
           b == AddRequirements(a, product, required, 65)
           c == DiscoverSuppliers(b, Seed, proposals, found)
<1>2. IsWork(a) BY ProductResolved
<1>3. IsWork(b)
  <2> HIDE DEF a
  <2> QED BY <1>2, RequirementsAdded
<1>4. IsWork(c)
  <2> HIDE DEF b
  <2> QED BY <1>3, SuppliersFound
<1> HIDE DEF c
<1>5. /\ c = ChainGraph(c.nodes, c.links, c.evidence, c.warned) /\ c.warned \in BOOLEAN
      /\ c.nodes \in Seq(WorkNodes(c.evidence \cup {})) /\ c.links \in Seq(ChainLinks(c.evidence \cup {}))
  <2>1. c.evidence \cup {} = c.evidence OBVIOUS
  <2> QED BY <2>1, <1>4 DEF IsWork
<1>6. IsWork(NormalizeChainEvidence(ChainGraph(c.nodes, c.links, c.evidence, c.warned), {}))
  BY <1>5, EvidenceNormalized
<1>7. IsWork(NormalizeChainEvidence(c, {})) BY <1>5, <1>6
<1> QED BY <1>1, <1>7 DEF c

\* So does a warning.
LEMMA WarnedGraph ==
    ASSUME NEW g, IsWork(g), NEW warned \in BOOLEAN
    PROVE  IsWork([g EXCEPT !.warned = warned])
<1>1. g = ChainGraph(g.nodes, g.links, g.evidence, g.warned)
  BY DEF IsWork
<1>2. [g EXCEPT !.warned = warned] = ChainGraph(g.nodes, g.links, g.evidence, warned)
  BY <1>1 DEF ChainGraph
<1> QED BY <1>2, WorkOf DEF IsWork

\* The steps in demo mode keep it too.
LEMMA DemoStep ==
    ASSUME NEW g, IsWork(g), NEW product \in ProductIds, NEW h \in DemoGraphs(g, product)
    PROVE  IsWork(h)
<1> DEFINE a == ResolveProduct(g, Seed, product)
<1>1. IsWork(a) BY ProductResolved
<1>2. h = IF product = Product THEN NormalizeChainEvidence(AddFixture(a, Fixture), Fixture.evidence)
          ELSE [a EXCEPT !.warned = TRUE]
  BY DEF DemoGraphs
<1> HIDE DEF a
<1> QED BY <1>1, <1>2, FixtureAdded, WarnedGraph

-----------------------------------------------------------------------------
(* Runs over the store *)

\* A stored state, when the runs in served have a payload.
IsChainRow(entry, served) ==
    /\ entry = [status |-> entry.status, demo |-> entry.demo, parent |-> entry.parent, expands |-> entry.expands,
              graph |-> entry.graph, sankey |-> entry.sankey, verdict |-> entry.verdict]
    /\ entry.status \in {"none", "queued", "running"} \cup ChainFinal
    /\ entry.verdict \in {"none", "pass", "needs_review", "fail"}
    /\ entry.parent \in served \cup {NoRun}
    /\ entry.parent # NoRun => entry.expands \in Expansions
    /\ IsWork(entry.graph)

IsServed(entry, served) ==
    IsChainRow(entry, served) /\ IsPayload(entry.sankey) /\ entry.status \in ChainFinal

IsRow(entry, served) == IsChainRow(entry, served) /\ (entry.sankey # NoSankey => IsServed(entry, served))

\* Rows stay sound as more runs are served.
LEMMA MoreServed ==
    ASSUME NEW H, NEW K, H \subseteq K, NEW entry
    PROVE  /\ IsChainRow(entry, H) => IsChainRow(entry, K)
           /\ IsServed(entry, H) => IsServed(entry, K)
           /\ IsRow(entry, H) => IsRow(entry, K)
BY DEF IsChainRow, IsServed, IsRow

\* A payload is never the absence of one.
LEMMA PayloadIsThere ==
    ASSUME NEW p, IsPayload(p)
    PROVE  p # NoSankey
BY DEF IsPayload, ChainGraph, NoSankey

\* A served row is a row with a payload.
LEMMA ServedIs ==
    ASSUME NEW H, NEW entry, IsServed(entry, H)
    PROVE  IsRow(entry, H) /\ entry.sankey # NoSankey
BY PayloadIsThere DEF IsServed, IsRow

\* What a step writes into a row, one field at a time.
LEMMA WithStatus ==
    ASSUME NEW H, NEW entry, IsChainRow(entry, H), NEW status \in {"none", "queued", "running"} \cup ChainFinal
    PROVE  LET w == [entry EXCEPT !.status = status] IN
           /\ IsChainRow(w, H) /\ w.status = status
           /\ w.sankey = entry.sankey /\ w.parent = entry.parent
<1> DEFINE w == [entry EXCEPT !.status = status]
<1>1. entry = [status |-> entry.status, demo |-> entry.demo, parent |-> entry.parent, expands |-> entry.expands,
              graph |-> entry.graph, sankey |-> entry.sankey, verdict |-> entry.verdict]
  BY DEF IsChainRow
<1>2. w = [status |-> status, demo |-> entry.demo, parent |-> entry.parent, expands |-> entry.expands,
              graph |-> entry.graph, sankey |-> entry.sankey, verdict |-> entry.verdict]
  BY <1>1
<1> HIDE DEF w
<1>3. /\ w.status = status /\ w.demo = entry.demo /\ w.parent = entry.parent /\ w.expands = entry.expands /\ w.graph = entry.graph /\ w.sankey = entry.sankey /\ w.verdict = entry.verdict
      /\ w = [status |-> w.status, demo |-> w.demo, parent |-> w.parent, expands |-> w.expands,
              graph |-> w.graph, sankey |-> w.sankey, verdict |-> w.verdict]
  BY <1>2
<1>4. IsChainRow(w, H) BY <1>3 DEF IsChainRow
<1> QED BY <1>3, <1>4 DEF w

LEMMA WithSankey ==
    ASSUME NEW H, NEW entry, IsChainRow(entry, H), NEW built
    PROVE  LET w == [entry EXCEPT !.sankey = built] IN
           /\ IsChainRow(w, H) /\ w.sankey = built
           /\ w.status = entry.status /\ w.parent = entry.parent
<1> DEFINE w == [entry EXCEPT !.sankey = built]
<1>1. entry = [status |-> entry.status, demo |-> entry.demo, parent |-> entry.parent, expands |-> entry.expands,
              graph |-> entry.graph, sankey |-> entry.sankey, verdict |-> entry.verdict]
  BY DEF IsChainRow
<1>2. w = [status |-> entry.status, demo |-> entry.demo, parent |-> entry.parent, expands |-> entry.expands,
              graph |-> entry.graph, sankey |-> built, verdict |-> entry.verdict]
  BY <1>1
<1> HIDE DEF w
<1>3. /\ w.sankey = built /\ w.status = entry.status /\ w.demo = entry.demo /\ w.parent = entry.parent /\ w.expands = entry.expands /\ w.graph = entry.graph /\ w.verdict = entry.verdict
      /\ w = [status |-> w.status, demo |-> w.demo, parent |-> w.parent, expands |-> w.expands,
              graph |-> w.graph, sankey |-> w.sankey, verdict |-> w.verdict]
  BY <1>2
<1>4. IsChainRow(w, H) BY <1>3 DEF IsChainRow
<1> QED BY <1>3, <1>4 DEF w

LEMMA WithGraph ==
    ASSUME NEW H, NEW entry, IsChainRow(entry, H), NEW graph, IsWork(graph)
    PROVE  LET w == [entry EXCEPT !.graph = graph] IN
           /\ IsChainRow(w, H) /\ w.graph = graph
           /\ w.status = entry.status /\ w.sankey = entry.sankey /\ w.parent = entry.parent
<1> DEFINE w == [entry EXCEPT !.graph = graph]
<1>1. entry = [status |-> entry.status, demo |-> entry.demo, parent |-> entry.parent, expands |-> entry.expands,
              graph |-> entry.graph, sankey |-> entry.sankey, verdict |-> entry.verdict]
  BY DEF IsChainRow
<1>2. w = [status |-> entry.status, demo |-> entry.demo, parent |-> entry.parent, expands |-> entry.expands,
              graph |-> graph, sankey |-> entry.sankey, verdict |-> entry.verdict]
  BY <1>1
<1> HIDE DEF w
<1>3. /\ w.graph = graph /\ w.status = entry.status /\ w.demo = entry.demo /\ w.parent = entry.parent /\ w.expands = entry.expands /\ w.sankey = entry.sankey /\ w.verdict = entry.verdict
      /\ w = [status |-> w.status, demo |-> w.demo, parent |-> w.parent, expands |-> w.expands,
              graph |-> w.graph, sankey |-> w.sankey, verdict |-> w.verdict]
  BY <1>2
<1>4. IsChainRow(w, H) BY <1>3 DEF IsChainRow
<1> QED BY <1>3, <1>4 DEF w

\* Every run of the steps decides: its payload can always be built.
LEMMA StepsDecide ==
    ASSUME NEW H, NEW entry, IsChainRow(entry, H), NEW product \in ProductIds, NEW state \in RunSteps(entry, product)
    PROVE  IsServed(state, H) /\ state.parent = entry.parent
<1>1. IsWork(entry.graph) BY DEF IsChainRow
<1>2. PICK g \in IF entry.demo THEN DemoGraphs(entry.graph, product) ELSE LiveGraphs(entry.graph, product) :
        state = Evaluated(entry, g)
  BY DEF RunSteps
<1>3. IsWork(g) BY <1>1, <1>2, LiveStep, DemoStep
<1> DEFINE built == BuildSankey(g)
           verdict == EvaluateChain(built, Cardinality(SourceTypes(g.evidence)))
<1>4. IsPayload(built) /\ ValidSankey(built)
  <2>1. IsPayload(built) BY <1>3, WorkIsGraph, PayloadBuilt
  <2> QED BY <2>1, PayloadValid
<1>5. state = [entry EXCEPT !.graph = g, !.sankey = built, !.verdict = verdict, !.status = ChainStatus(verdict)]
  BY <1>2, <1>4 DEF Evaluated
<1>6. verdict \in {"pass", "needs_review", "fail"} BY DEF EvaluateChain
<1> HIDE DEF built, verdict
<1>7. ChainStatus(verdict) \in ChainFinal BY <1>6 DEF ChainStatus, ChainFinal
<1>8. entry = [status |-> entry.status, demo |-> entry.demo, parent |-> entry.parent, expands |-> entry.expands,
             graph |-> entry.graph, sankey |-> entry.sankey, verdict |-> entry.verdict]
  BY DEF IsChainRow
<1>9. state = [status |-> ChainStatus(verdict), demo |-> entry.demo, parent |-> entry.parent, expands |-> entry.expands,
               graph |-> g, sankey |-> built, verdict |-> verdict]
  BY <1>5, <1>8
<1>10. IsChainRow(state, H) /\ state.sankey = built /\ state.status = ChainStatus(verdict) /\ state.parent = entry.parent
  BY <1>3, <1>6, <1>7, <1>9 DEF IsChainRow
<1> QED BY <1>4, <1>7, <1>10 DEF IsServed

\* The runs whose payload the store serves.
Served == {r \in ChainRuns : chainRow[r].sankey # NoSankey}

\* One run: only a task that has ended leaves a payload, and it leaves a
\* decided run; while an expansion is at work its copy of the parent, or the
\* child it is to store, has a payload.
IsChainRun(at, entry, copy, served) ==
    /\ IsRow(entry, served)
    /\ at \in {"none", "queued", "running", "merged", "ended", "lost"}
    /\ entry.sankey # NoSankey => at = "ended"
    /\ at = "ended" => entry.status \in ChainFinal
    /\ at = "merged" \/ (at = "running" /\ entry.parent # NoRun) => IsServed(copy, served)

\* A repair under way is of a run with a payload and writes one.
RepairIs(repair, served) ==
    /\ repair = [run |-> repair.run, row |-> repair.row]
    /\ repair.run # NoRun => repair.run \in served /\ IsServed(repair.row, served)

ChainInv ==
    /\ chainRow = [r \in ChainRuns |-> chainRow[r]]
    /\ chainTask = [r \in ChainRuns |-> chainTask[r]]
    /\ chainCopy = [r \in ChainRuns |-> chainCopy[r]]
    /\ \A r \in ChainRuns : IsChainRun(chainTask[r], chainRow[r], chainCopy[r], Served)
    /\ RepairIs(chainRepair, Served)

\* A row before its run.
LEMMA EmptyRow == ASSUME NEW served PROVE IsRow(ChainEmpty, served) /\ ChainEmpty.sankey = NoSankey
                                         /\ ChainEmpty.parent = NoRun /\ ChainEmpty.status = "none"
<1>1. IsWork(NoGraph)
  <2>1. <<>> \in Seq(WorkNodes({})) /\ <<>> \in Seq(ChainLinks({})) /\ FALSE \in BOOLEAN OBVIOUS
  <2> QED BY <2>1, WorkOf DEF NoGraph
<1>2. /\ ChainEmpty.status = "none" /\ ChainEmpty.verdict = "none" /\ ChainEmpty.parent = NoRun
      /\ ChainEmpty.sankey = NoSankey /\ ChainEmpty.graph = NoGraph
  BY DEF ChainEmpty
<1>3. ChainEmpty = [status |-> ChainEmpty.status, demo |-> ChainEmpty.demo, parent |-> ChainEmpty.parent,
                    expands |-> ChainEmpty.expands, graph |-> ChainEmpty.graph, sankey |-> ChainEmpty.sankey,
                    verdict |-> ChainEmpty.verdict]
  BY DEF ChainEmpty
<1> HIDE DEF ChainEmpty
<1> QED BY <1>1, <1>2, <1>3 DEF IsRow, IsChainRow

\* No run, no payload, no repair.
LEMMA ChainInitInv == ChainInit => ChainInv
<1> SUFFICES ASSUME ChainInit PROVE ChainInv
  OBVIOUS
<1>1. /\ chainRow = [r \in ChainRuns |-> chainRow[r]] /\ chainTask = [r \in ChainRuns |-> chainTask[r]]
      /\ chainCopy = [r \in ChainRuns |-> chainCopy[r]]
  BY DEF ChainInit
<1>2. \A r \in ChainRuns : chainRow[r] = ChainEmpty /\ chainTask[r] = "none" BY DEF ChainInit
<1>3. \A r \in ChainRuns : IsChainRun(chainTask[r], chainRow[r], chainCopy[r], Served) BY <1>2, EmptyRow DEF IsChainRun
<1>4. RepairIs(chainRepair, Served) BY DEF RepairIs, ChainInit
<1> QED BY <1>1, <1>3, <1>4 DEF ChainInv

\* A run that a step leaves alone is as it was, whatever else is served.
LEMMA RunKept ==
    ASSUME ChainInv, Served \subseteq Served', NEW r \in ChainRuns,
           chainRow'[r] = chainRow[r], chainTask'[r] = chainTask[r], chainCopy'[r] = chainCopy[r]
    PROVE  IsChainRun(chainTask'[r], chainRow'[r], chainCopy'[r], Served')
<1>1. IsChainRun(chainTask[r], chainRow[r], chainCopy[r], Served) BY DEF ChainInv
<1>2. /\ IsRow(chainRow[r], Served) => IsRow(chainRow[r], Served')
      /\ IsServed(chainCopy[r], Served) => IsServed(chainCopy[r], Served')
  BY MoreServed
<1> QED BY <1>1, <1>2 DEF IsChainRun

\* A repair under way stays sound as more runs are served.
LEMMA RepairKept ==
    ASSUME ChainInv, Served \subseteq Served', chainRepair' = chainRepair
    PROVE  RepairIs(chainRepair', Served')
<1>1. IsServed(chainRepair.row, Served) => IsServed(chainRepair.row, Served')
  BY MoreServed
<1> QED BY <1>1 DEF RepairIs, ChainInv

\* A task that works on its own row.
LEMMA OwnRow ==
    ASSUME ChainInv, NEW r \in ChainRuns, NEW entry, NEW at, NEW copy,
           chainRow' = [chainRow EXCEPT ![r] = entry], chainTask' = [chainTask EXCEPT ![r] = at],
           chainCopy' = [chainCopy EXCEPT ![r] = copy], chainRepair' = chainRepair,
           r \in Served => entry.sankey # NoSankey,
           \A served : Served \subseteq served => IsChainRun(at, entry, copy, served)
    PROVE  ChainInv'
<1>1. /\ chainRow = [q \in ChainRuns |-> chainRow[q]] /\ chainTask = [q \in ChainRuns |-> chainTask[q]]
      /\ chainCopy = [q \in ChainRuns |-> chainCopy[q]]
  BY DEF ChainInv
<1>2. chainRow' = [q \in ChainRuns |-> chainRow'[q]] /\ chainRow'[r] = entry
      /\ \A q \in ChainRuns : q # r => chainRow'[q] = chainRow[q]
  BY <1>1
<1>3. chainTask' = [q \in ChainRuns |-> chainTask'[q]] /\ chainTask'[r] = at
      /\ \A q \in ChainRuns : q # r => chainTask'[q] = chainTask[q]
  BY <1>1
<1>4. chainCopy' = [q \in ChainRuns |-> chainCopy'[q]] /\ chainCopy'[r] = copy
      /\ \A q \in ChainRuns : q # r => chainCopy'[q] = chainCopy[q]
  BY <1>1
<1>5. Served \subseteq Served' BY <1>2 DEF Served
<1>6. \A q \in ChainRuns : IsChainRun(chainTask'[q], chainRow'[q], chainCopy'[q], Served')
  <2> SUFFICES ASSUME NEW q \in ChainRuns PROVE IsChainRun(chainTask'[q], chainRow'[q], chainCopy'[q], Served')
    OBVIOUS
  <2>1. CASE q = r BY <2>1, <1>2, <1>3, <1>4, <1>5
  <2>2. CASE q # r BY <2>2, <1>2, <1>3, <1>4, <1>5, RunKept
  <2> QED BY <2>1, <2>2
<1>7. RepairIs(chainRepair', Served') BY <1>5, RepairKept
<1> QED BY <1>2, <1>3, <1>4, <1>6, <1>7 DEF ChainInv

\* A write of a payload over one: a merge or a repair, however stale.
LEMMA OtherRow ==
    ASSUME ChainInv, NEW p \in Served, NEW entry, IsServed(entry, Served), chainRow' = [chainRow EXCEPT ![p] = entry]
    PROVE  /\ chainRow' = [q \in ChainRuns |-> chainRow'[q]] /\ chainRow'[p] = entry
           /\ \A q \in ChainRuns : q # p => chainRow'[q] = chainRow[q]
           /\ Served \subseteq Served' /\ chainTask[p] = "ended" /\ p \in ChainRuns
           /\ \A copy : IsChainRun("ended", entry, copy, Served')
<1>1. p \in ChainRuns /\ chainRow[p].sankey # NoSankey BY DEF Served
<1>2. chainRow = [q \in ChainRuns |-> chainRow[q]] BY DEF ChainInv
<1>3. chainRow' = [q \in ChainRuns |-> chainRow'[q]] /\ chainRow'[p] = entry
      /\ \A q \in ChainRuns : q # p => chainRow'[q] = chainRow[q]
  BY <1>1, <1>2
<1>4. entry.sankey # NoSankey BY ServedIs
<1>5. Served \subseteq Served' BY <1>3, <1>4 DEF Served
<1>6. chainTask[p] = "ended" BY <1>1 DEF ChainInv, IsChainRun
<1>7. IsServed(entry, Served') BY <1>5, MoreServed
<1>8. \A copy : IsChainRun("ended", entry, copy, Served')
  <2>1. IsRow(entry, Served') /\ entry.status \in ChainFinal BY <1>7, ServedIs DEF IsServed
  <2> QED BY <2>1 DEF IsChainRun
<1> QED BY <1>1, <1>3, <1>5, <1>6, <1>8

\* Writing a row as it is changes nothing.
LEMMA SameRows ==
    ASSUME ChainInv, NEW r \in ChainRuns
    PROVE  /\ chainCopy = [chainCopy EXCEPT ![r] = chainCopy[r]]
           /\ chainRow = [chainRow EXCEPT ![r] = chainRow[r]]
BY DEF ChainInv

\* A row that is begun: queued or running, without a payload.
LEMMA BegunRow ==
    ASSUME NEW H, NEW entry, NEW copy, NEW status \in {"queued", "running"},
           IsChainRow(entry, H), entry.status = status, entry.sankey = NoSankey,
           status = "running" /\ entry.parent # NoRun => IsServed(copy, H)
    PROVE  IsChainRun(status, entry, copy, H)
BY DEF IsChainRun, IsRow

\* A run that is created.
LEMMA NewRow ==
    ASSUME NEW H, NEW entry, IsChainRow(entry, H), NEW p, NEW request, NEW demo
    PROVE  /\ [entry EXCEPT !.status = "running", !.demo = demo] =
                [status |-> "running", demo |-> demo, parent |-> entry.parent, expands |-> entry.expands,
                 graph |-> entry.graph, sankey |-> entry.sankey, verdict |-> entry.verdict]
           /\ [entry EXCEPT !.status = "queued", !.parent = p, !.expands = request] =
                [status |-> "queued", demo |-> entry.demo, parent |-> p, expands |-> request,
                 graph |-> entry.graph, sankey |-> entry.sankey, verdict |-> entry.verdict]
<1>1. entry = [status |-> entry.status, demo |-> entry.demo, parent |-> entry.parent, expands |-> entry.expands,
             graph |-> entry.graph, sankey |-> entry.sankey, verdict |-> entry.verdict]
  BY DEF IsChainRow
<1>2. [entry EXCEPT !.status = "running", !.demo = demo] =
        [status |-> "running", demo |-> demo, parent |-> entry.parent, expands |-> entry.expands,
         graph |-> entry.graph, sankey |-> entry.sankey, verdict |-> entry.verdict]
  <2> DEFINE a == [entry EXCEPT !.status = "running"]
  <2>1. a = [status |-> "running", demo |-> entry.demo, parent |-> entry.parent, expands |-> entry.expands,
             graph |-> entry.graph, sankey |-> entry.sankey, verdict |-> entry.verdict]
    BY <1>1
  <2>2. [entry EXCEPT !.status = "running", !.demo = demo] = [a EXCEPT !.demo = demo] BY <1>1
  <2> HIDE DEF a
  <2>3. [a EXCEPT !.demo = demo] =
        [status |-> "running", demo |-> demo, parent |-> entry.parent, expands |-> entry.expands,
         graph |-> entry.graph, sankey |-> entry.sankey, verdict |-> entry.verdict]
    BY <2>1
  <2> QED BY <2>2, <2>3
<1>3. [entry EXCEPT !.status = "queued", !.parent = p, !.expands = request] =
        [status |-> "queued", demo |-> entry.demo, parent |-> p, expands |-> request,
         graph |-> entry.graph, sankey |-> entry.sankey, verdict |-> entry.verdict]
  <2> DEFINE a == [entry EXCEPT !.status = "queued"]
             b == [a EXCEPT !.parent = p]
  <2>1. a = [status |-> "queued", demo |-> entry.demo, parent |-> entry.parent, expands |-> entry.expands,
             graph |-> entry.graph, sankey |-> entry.sankey, verdict |-> entry.verdict]
    BY <1>1
  <2>2. [entry EXCEPT !.status = "queued", !.parent = p, !.expands = request] = [b EXCEPT !.expands = request] BY <1>1
  <2> HIDE DEF a
  <2>3. b = [status |-> "queued", demo |-> entry.demo, parent |-> p, expands |-> entry.expands,
             graph |-> entry.graph, sankey |-> entry.sankey, verdict |-> entry.verdict]
    BY <2>1
  <2> HIDE DEF b
  <2>4. [b EXCEPT !.expands = request] =
        [status |-> "queued", demo |-> entry.demo, parent |-> p, expands |-> request,
         graph |-> entry.graph, sankey |-> entry.sankey, verdict |-> entry.verdict]
    BY <2>3
  <2> QED BY <2>2, <2>4
<1> QED BY <1>2, <1>3

LEMMA StepPostExplore ==
    ASSUME ChainInv, NEW r \in ChainRuns, PostExplore(r)
    PROVE  ChainInv'
<1> DEFINE entry == [ChainEmpty EXCEPT !.status = "queued"]
<1>1. /\ chainRow[r] = ChainEmpty /\ chainRow' = [chainRow EXCEPT ![r] = entry]
      /\ chainTask' = [chainTask EXCEPT ![r] = "queued"] /\ chainCopy' = chainCopy /\ chainRepair' = chainRepair
  BY DEF PostExplore, Fresh, Store, Task
<1>2. ASSUME NEW H PROVE IsChainRun("queued", entry, chainCopy[r], H)
  <2>1. IsChainRow(ChainEmpty, H) /\ ChainEmpty.sankey = NoSankey BY EmptyRow DEF IsRow
  <2>2. "queued" \in {"none", "queued", "running"} \cup ChainFinal OBVIOUS
  <2>3. IsChainRow(entry, H) /\ entry.status = "queued" /\ entry.sankey = NoSankey BY <2>1, <2>2, WithStatus
  <2> HIDE DEF entry
  <2> QED BY <2>3, BegunRow
<1>3. r \notin Served BY <1>1, EmptyRow DEF Served
<1>4. chainCopy' = [chainCopy EXCEPT ![r] = chainCopy[r]] BY <1>1, SameRows
<1> HIDE DEF entry
<1> QED BY <1>1, <1>2, <1>3, <1>4, OwnRow

LEMMA StepExploreFromCommandLine ==
    ASSUME ChainInv, NEW r \in ChainRuns, ExploreFromCommandLine(r)
    PROVE  ChainInv'
<1> DEFINE entry == [ChainEmpty EXCEPT !.status = "running", !.demo = TRUE]
<1>1. /\ chainRow[r] = ChainEmpty /\ chainRow' = [chainRow EXCEPT ![r] = entry]
      /\ chainTask' = [chainTask EXCEPT ![r] = "running"] /\ chainCopy' = chainCopy /\ chainRepair' = chainRepair
  BY DEF ExploreFromCommandLine, Fresh, Store, Task
<1>2. ASSUME NEW H PROVE IsChainRun("running", entry, chainCopy[r], H)
  <2>1. IsChainRow(ChainEmpty, H) /\ ChainEmpty.sankey = NoSankey /\ ChainEmpty.parent = NoRun BY EmptyRow DEF IsRow
  <2>2. entry = [status |-> "running", demo |-> TRUE, parent |-> ChainEmpty.parent, expands |-> ChainEmpty.expands,
               graph |-> ChainEmpty.graph, sankey |-> ChainEmpty.sankey, verdict |-> ChainEmpty.verdict]
    BY <2>1, NewRow
  <2> HIDE DEF entry
  <2>3. IsChainRow(entry, H) /\ entry.status = "running" /\ entry.sankey = NoSankey /\ entry.parent = NoRun
    BY <2>1, <2>2 DEF IsChainRow
  <2> QED BY <2>3, BegunRow
<1>3. r \notin Served BY <1>1, EmptyRow DEF Served
<1>4. chainCopy' = [chainCopy EXCEPT ![r] = chainCopy[r]] BY <1>1, SameRows
<1> HIDE DEF entry
<1> QED BY <1>1, <1>2, <1>3, <1>4, OwnRow

LEMMA StepPostExpand ==
    ASSUME ChainInv, NEW p \in ChainRuns, NEW r \in ChainRuns, PostExpand(p, r)
    PROVE  ChainInv'
<1>1. PICK request \in Expansions : Store(r, [ChainEmpty EXCEPT !.status = "queued", !.parent = p, !.expands = request])
  BY DEF PostExpand
<1> DEFINE entry == [ChainEmpty EXCEPT !.status = "queued", !.parent = p, !.expands = request]
<1>2. /\ chainRow[r] = ChainEmpty /\ chainRow' = [chainRow EXCEPT ![r] = entry] /\ p \in Served
      /\ chainTask' = [chainTask EXCEPT ![r] = "queued"] /\ chainCopy' = chainCopy /\ chainRepair' = chainRepair
  BY <1>1 DEF PostExpand, Fresh, Store, Task, Served
<1>3. ASSUME NEW H, Served \subseteq H PROVE IsChainRun("queued", entry, chainCopy[r], H)
  <2>1. IsChainRow(ChainEmpty, H) /\ ChainEmpty.sankey = NoSankey BY EmptyRow DEF IsRow
  <2>2. entry = [status |-> "queued", demo |-> ChainEmpty.demo, parent |-> p, expands |-> request,
               graph |-> ChainEmpty.graph, sankey |-> ChainEmpty.sankey, verdict |-> ChainEmpty.verdict]
    BY <2>1, NewRow, ZenonT(60)
  <2> HIDE DEF entry
  <2>3. IsChainRow(entry, H) /\ entry.status = "queued" /\ entry.sankey = NoSankey
    BY <1>2, <1>3, <2>1, <2>2 DEF IsChainRow
  <2> QED BY <2>3, BegunRow
<1>4. r \notin Served BY <1>2, EmptyRow DEF Served
<1>5. chainCopy' = [chainCopy EXCEPT ![r] = chainCopy[r]] BY <1>2, SameRows
<1> HIDE DEF entry
<1> QED BY <1>2, <1>3, <1>4, <1>5, OwnRow

LEMMA StepInitializeChain ==
    ASSUME ChainInv, NEW r \in ChainRuns, InitializeChain(r)
    PROVE  ChainInv'
<1> DEFINE entry == [chainRow[r] EXCEPT !.status = "running"]
<1>1. /\ chainTask[r] = "queued" /\ chainRow[r].parent = NoRun /\ chainRow' = [chainRow EXCEPT ![r] = entry]
      /\ chainTask' = [chainTask EXCEPT ![r] = "running"] /\ chainCopy' = chainCopy /\ chainRepair' = chainRepair
  BY DEF InitializeChain, Store, Task
<1>2. IsChainRow(chainRow[r], Served) /\ chainRow[r].sankey = NoSankey BY <1>1 DEF ChainInv, IsChainRun, IsRow
<1>3. ASSUME NEW H, Served \subseteq H PROVE IsChainRun("running", entry, chainCopy[r], H)
  <2>1. IsChainRow(chainRow[r], H) BY <1>2, <1>3, MoreServed
  <2>2. "running" \in {"none", "queued", "running"} \cup ChainFinal OBVIOUS
  <2>3. IsChainRow(entry, H) /\ entry.status = "running" /\ entry.sankey = NoSankey /\ entry.parent = NoRun
    BY <1>1, <1>2, <2>1, <2>2, WithStatus
  <2> HIDE DEF entry
  <2> QED BY <2>3, BegunRow
<1>4. r \notin Served BY <1>2 DEF Served
<1>5. chainCopy' = [chainCopy EXCEPT ![r] = chainCopy[r]] BY <1>1, SameRows
<1> HIDE DEF entry
<1> QED BY <1>1, <1>3, <1>4, <1>5, OwnRow

LEMMA StepFinishChain ==
    ASSUME ChainInv, NEW r \in ChainRuns, FinishChain(r)
    PROVE  ChainInv'
<1>1. PICK entry \in RunSteps(chainRow[r], Product) : chainRow' = [chainRow EXCEPT ![r] = entry]
  BY DEF FinishChain, Store
<1>2. /\ chainTask' = [chainTask EXCEPT ![r] = "ended"] /\ chainCopy' = chainCopy /\ chainRepair' = chainRepair
  BY DEF FinishChain, Task
<1>3. IsChainRow(chainRow[r], Served) BY DEF ChainInv, IsChainRun, IsRow
<1>4. ASSUME NEW H, Served \subseteq H PROVE IsChainRun("ended", entry, chainCopy[r], H) /\ entry.sankey # NoSankey
  <2>1. IsChainRow(chainRow[r], H) BY <1>3, <1>4, MoreServed
  <2>2. IsServed(entry, H) BY <1>1, <2>1, StepsDecide, RequestAssumption
  <2>3. IsRow(entry, H) /\ entry.sankey # NoSankey /\ entry.status \in ChainFinal BY <2>2, ServedIs DEF IsServed
  <2> QED BY <2>3 DEF IsChainRun
<1>5. chainCopy' = [chainCopy EXCEPT ![r] = chainCopy[r]] BY <1>2, SameRows
<1> QED BY <1>1, <1>2, <1>4, <1>5, OwnRow

LEMMA StepBeginExpansion ==
    ASSUME ChainInv, NEW r \in ChainRuns, BeginExpansion(r)
    PROVE  ChainInv'
<1> DEFINE p == chainRow[r].parent
           graph == [chainRow[p].graph EXCEPT !.warned = FALSE]
           first == [chainRow[r] EXCEPT !.status = "running"]
           entry == [chainRow[r] EXCEPT !.status = "running", !.graph = graph]
<1>1. /\ chainTask[r] = "queued" /\ p # NoRun /\ chainRow' = [chainRow EXCEPT ![r] = entry]
      /\ chainCopy' = [chainCopy EXCEPT ![r] = chainRow[p]]
      /\ chainTask' = [chainTask EXCEPT ![r] = "running"] /\ chainRepair' = chainRepair
  BY DEF BeginExpansion, Store, Task
<1>2. IsChainRow(chainRow[r], Served) /\ chainRow[r].sankey = NoSankey BY <1>1 DEF ChainInv, IsChainRun, IsRow
<1>3. p \in Served /\ p \in ChainRuns BY <1>1, <1>2 DEF IsChainRow, Served
<1>4. IsServed(chainRow[p], Served) BY <1>3 DEF ChainInv, IsChainRun, IsRow, Served
<1>5. IsWork(graph)
  <2>1. IsWork(chainRow[p].graph) /\ FALSE \in BOOLEAN BY <1>4 DEF IsServed, IsChainRow
  <2> QED BY <2>1, WarnedGraph
<1>6. ASSUME NEW H, Served \subseteq H PROVE IsChainRun("running", entry, chainRow[p], H)
  <2>1. IsChainRow(chainRow[r], H) BY <1>2, <1>6, MoreServed
  <2>2. "running" \in {"none", "queued", "running"} \cup ChainFinal OBVIOUS
  <2>3. IsChainRow(first, H) /\ first.status = "running" /\ first.sankey = NoSankey BY <1>2, <2>1, <2>2, WithStatus
  <2>4. entry = [first EXCEPT !.graph = graph]
    <3> HIDE DEF graph
    <3> QED BY <1>2 DEF IsChainRow
  <2> HIDE DEF first, graph, entry
  <2>5. IsChainRow(entry, H) /\ entry.status = "running" /\ entry.sankey = NoSankey BY <1>5, <2>3, <2>4, WithGraph
  <2>6. IsServed(chainRow[p], H) BY <1>4, <1>6, MoreServed
  <2> HIDE DEF p
  <2> QED BY <2>5, <2>6, BegunRow
<1>7. r \notin Served BY <1>2 DEF Served
<1> HIDE DEF entry, p
<1> QED BY <1>1, <1>6, <1>7, OwnRow

LEMMA StepMergeIntoParent ==
    ASSUME ChainInv, NEW r \in ChainRuns, MergeIntoParent(r)
    PROVE  ChainInv'
<1> DEFINE p == chainRow[r].parent
           copy == chainCopy[r]
<1>1. PICK child \in RunSteps(chainRow[r], chainRow[r].expands[2]) :
        /\ Store(p, [copy EXCEPT !.sankey = MergeExpansion(copy.sankey, child.sankey, chainRow[r].expands[1])])
        /\ chainCopy' = [chainCopy EXCEPT ![r] = child]
  BY DEF MergeIntoParent
<1> DEFINE merged == MergeExpansion(copy.sankey, child.sankey, chainRow[r].expands[1])
           entry == [copy EXCEPT !.sankey = merged]
<1>2. /\ chainTask[r] = "running" /\ p # NoRun /\ chainRow' = [chainRow EXCEPT ![p] = entry]
      /\ chainTask' = [chainTask EXCEPT ![r] = "merged"] /\ chainRepair' = chainRepair
  BY <1>1 DEF MergeIntoParent, Store, Task
<1>3. /\ IsChainRow(chainRow[r], Served) /\ chainRow[r].sankey = NoSankey /\ IsServed(copy, Served)
  BY <1>2 DEF ChainInv, IsChainRun, IsRow
<1>4. p \in Served /\ chainRow[r].expands[2] \in ProductIds
  BY <1>2, <1>3, RequestAssumption DEF IsChainRow
<1>5. IsServed(child, Served) BY <1>1, <1>3, <1>4, StepsDecide
<1>6. IsServed(entry, Served)
  <2>1. IsPayload(merged) BY <1>3, <1>5, MergedSound DEF IsServed
  <2> HIDE DEF merged, copy
  <2>2. IsChainRow(entry, Served) /\ entry.sankey = merged /\ entry.status = copy.status BY <1>3, WithSankey DEF IsServed
  <2> HIDE DEF entry
  <2> QED BY <1>3, <2>1, <2>2 DEF IsServed
<1> HIDE DEF entry, p, copy
<1>7. /\ chainRow' = [q \in ChainRuns |-> chainRow'[q]] /\ chainRow'[p] = entry
      /\ \A q \in ChainRuns : q # p => chainRow'[q] = chainRow[q]
      /\ Served \subseteq Served' /\ chainTask[p] = "ended" /\ p \in ChainRuns
      /\ \A other : IsChainRun("ended", entry, other, Served')
  BY <1>2, <1>4, <1>6, OtherRow
<1>8. p # r BY <1>2, <1>7
<1>9. chainTask' = [q \in ChainRuns |-> chainTask'[q]] /\ chainTask'[r] = "merged"
      /\ \A q \in ChainRuns : q # r => chainTask'[q] = chainTask[q]
  BY <1>2 DEF ChainInv
<1>10. chainCopy' = [q \in ChainRuns |-> chainCopy'[q]] /\ chainCopy'[r] = child
      /\ \A q \in ChainRuns : q # r => chainCopy'[q] = chainCopy[q]
  BY <1>1 DEF ChainInv
<1>11. ASSUME NEW q \in ChainRuns PROVE IsChainRun(chainTask'[q], chainRow'[q], chainCopy'[q], Served')
  <2>1. CASE q = r
    <3>1. chainRow'[r] = chainRow[r] BY <1>7, <1>8
    <3>2. IsRow(chainRow[r], Served') BY <1>3, <1>7, MoreServed DEF IsRow
    <3>3. IsServed(child, Served') BY <1>5, <1>7, MoreServed
    <3> QED BY <2>1, <3>1, <3>2, <3>3, <1>3, <1>9, <1>10 DEF IsChainRun
  <2>2. CASE q = p BY <2>2, <1>7, <1>8, <1>9
  <2>3. CASE q # r /\ q # p BY <2>3, <1>7, <1>9, <1>10, RunKept
  <2> QED BY <2>1, <2>2, <2>3
<1>12. RepairIs(chainRepair', Served') BY <1>2, <1>7, RepairKept
<1> QED BY <1>7, <1>9, <1>10, <1>11, <1>12 DEF ChainInv

LEMMA StepStoreChild ==
    ASSUME ChainInv, NEW r \in ChainRuns, StoreChild(r)
    PROVE  ChainInv'
<1> DEFINE entry == chainCopy[r]
<1>1. /\ chainTask[r] = "merged" /\ chainRow' = [chainRow EXCEPT ![r] = entry]
      /\ chainCopy' = [chainCopy EXCEPT ![r] = ChainEmpty]
      /\ chainTask' = [chainTask EXCEPT ![r] = "ended"] /\ chainRepair' = chainRepair
  BY DEF StoreChild, Store, Task
<1>2. IsServed(entry, Served) BY <1>1 DEF ChainInv, IsChainRun
<1> HIDE DEF entry
<1>3. ASSUME NEW H, Served \subseteq H PROVE IsChainRun("ended", entry, ChainEmpty, H) /\ entry.sankey # NoSankey
  <2>1. IsServed(entry, H) BY <1>2, <1>3, MoreServed
  <2>2. IsRow(entry, H) /\ entry.sankey # NoSankey /\ entry.status \in ChainFinal BY <2>1, ServedIs DEF IsServed
  <2> QED BY <2>2 DEF IsChainRun
<1> QED BY <1>1, <1>3, OwnRow

\* A row that is stored as failed keeps the payload it has.
LEMMA FailedRow ==
    ASSUME NEW H, NEW entry, IsRow(entry, H), NEW copy
    PROVE  LET w == [entry EXCEPT !.status = "failed"]
           IN  IsChainRun("ended", w, copy, H) /\ w.sankey = entry.sankey
<1> DEFINE w == [entry EXCEPT !.status = "failed"]
<1>1. "failed" \in {"none", "queued", "running"} \cup ChainFinal BY DEF ChainFinal
<1>2. IsChainRow(w, H) /\ w.status = "failed" /\ w.sankey = entry.sankey BY <1>1, WithStatus DEF IsRow
<1> HIDE DEF w
<1>3. w.status \in ChainFinal BY <1>2 DEF ChainFinal
<1>4. IsRow(w, H) BY <1>2, <1>3 DEF IsRow, IsServed
<1>5. IsChainRun("ended", w, copy, H) BY <1>3, <1>4 DEF IsChainRun
<1> QED BY <1>2, <1>5 DEF w

\* A task that ends as failed has no payload to keep.
LEMMA EndedAsFailed ==
    ASSUME ChainInv, NEW r \in ChainRuns, NEW entry, IsRow(entry, Served), r \in Served => entry.sankey # NoSankey,
           chainRow' = [chainRow EXCEPT ![r] = [entry EXCEPT !.status = "failed"]],
           chainTask' = [chainTask EXCEPT ![r] = "ended"],
           chainCopy' = chainCopy, chainRepair' = chainRepair
    PROVE  ChainInv'
<1> DEFINE w == [entry EXCEPT !.status = "failed"]
<1>1. ASSUME NEW H, Served \subseteq H PROVE IsChainRun("ended", w, chainCopy[r], H)
  <2>1. IsRow(entry, H) BY <1>1, MoreServed
  <2> QED BY <2>1, FailedRow
<1>2. w.sankey = entry.sankey BY FailedRow
<1>3. chainCopy' = [chainCopy EXCEPT ![r] = chainCopy[r]] BY SameRows
<1>4. chainRow' = [chainRow EXCEPT ![r] = w] OBVIOUS
<1> HIDE DEF w
<1> QED BY <1>1, <1>2, <1>3, <1>4, OwnRow

LEMMA StepRejectMerge ==
    ASSUME ChainInv, NEW r \in ChainRuns, RejectMerge(r)
    PROVE  ChainInv'
<1>1. /\ chainTask[r] = "running" /\ chainRow' = [chainRow EXCEPT ![r] = [chainRow[r] EXCEPT !.status = "failed"]]
      /\ chainTask' = [chainTask EXCEPT ![r] = "ended"] /\ chainCopy' = chainCopy /\ chainRepair' = chainRepair
  BY DEF RejectMerge, Store, Task
<1>2. IsRow(chainRow[r], Served) /\ chainRow[r].sankey = NoSankey BY <1>1 DEF ChainInv, IsChainRun
<1>3. r \notin Served BY <1>2 DEF Served
<1> QED BY <1>1, <1>2, <1>3, EndedAsFailed

LEMMA StepFailChain ==
    ASSUME ChainInv, NEW r \in ChainRuns, FailChain(r)
    PROVE  ChainInv'
<1>1. PICK state \in IF chainTask[r] = "running" /\ chainRow[r].parent = NoRun
                     THEN RunSteps(chainRow[r], Product) ELSE {chainRow[r]} :
        chainRow' = [chainRow EXCEPT ![r] = [state EXCEPT !.status = "failed"]]
  BY DEF FailChain, Store
<1>2. /\ chainTask[r] \in {"queued", "running", "merged"}
      /\ chainTask' = [chainTask EXCEPT ![r] = "ended"] /\ chainCopy' = chainCopy /\ chainRepair' = chainRepair
  BY DEF FailChain, Task
<1>3. IsRow(chainRow[r], Served) /\ chainRow[r].sankey = NoSankey BY <1>2 DEF ChainInv, IsChainRun
<1>4. r \notin Served BY <1>3 DEF Served
<1>5. IsRow(state, Served)
  <2>1. CASE chainTask[r] = "running" /\ chainRow[r].parent = NoRun
    <3>1. IsServed(state, Served) BY <1>1, <1>3, <2>1, StepsDecide, RequestAssumption DEF IsRow
    <3> QED BY <3>1, ServedIs
  <2>2. CASE ~(chainTask[r] = "running" /\ chainRow[r].parent = NoRun) BY <1>1, <1>3, <2>2
  <2> QED BY <2>1, <2>2
<1> QED BY <1>1, <1>2, <1>4, <1>5, EndedAsFailed

LEMMA StepLoseChain ==
    ASSUME ChainInv, NEW r \in ChainRuns, LoseChain(r)
    PROVE  ChainInv'
<1>1. /\ chainTask[r] \in {"queued", "running", "merged"} /\ chainRow' = chainRow
      /\ chainTask' = [chainTask EXCEPT ![r] = "lost"] /\ chainCopy' = chainCopy /\ chainRepair' = chainRepair
  BY DEF LoseChain, Task
<1>2. IsRow(chainRow[r], Served) /\ chainRow[r].sankey = NoSankey BY <1>1 DEF ChainInv, IsChainRun
<1>3. r \notin Served BY <1>2 DEF Served
<1>4. chainCopy' = [chainCopy EXCEPT ![r] = chainCopy[r]] /\ chainRow' = [chainRow EXCEPT ![r] = chainRow[r]]
  BY <1>1, SameRows
<1>5. ASSUME NEW H, Served \subseteq H PROVE IsChainRun("lost", chainRow[r], chainCopy[r], H)
  <2>1. IsRow(chainRow[r], H) BY <1>2, <1>5, MoreServed
  <2> QED BY <2>1, <1>2 DEF IsChainRun
<1> QED BY <1>1, <1>3, <1>4, <1>5, OwnRow, ZenonT(60)

LEMMA StepReadSankey ==
    ASSUME ChainInv, NEW r \in ChainRuns, ReadSankey(r)
    PROVE  ChainInv'
<1> DEFINE repaired == BuildSankey(chainRow[r].sankey)
           entry == [chainRow[r] EXCEPT !.sankey = repaired]
<1>1. /\ chainRow[r].sankey # NoSankey /\ chainRepair' = [run |-> r, row |-> entry]
      /\ chainRow' = chainRow /\ chainTask' = chainTask /\ chainCopy' = chainCopy
  BY DEF ReadSankey
<1>2. IsServed(chainRow[r], Served) BY <1>1 DEF ChainInv, IsChainRun, IsRow
<1>3. IsPayload(repaired) BY <1>2, RepairedPayload DEF IsServed
<1> HIDE DEF repaired
<1>4. IsServed(entry, Served)
  <2>1. IsChainRow(entry, Served) /\ entry.sankey = repaired /\ entry.status = chainRow[r].status
    BY <1>2, WithSankey DEF IsServed
  <2> HIDE DEF entry
  <2> QED BY <1>2, <1>3, <2>1 DEF IsServed
<1> HIDE DEF entry
<1>5. Served' = Served /\ r \in Served BY <1>1 DEF Served
<1>6. RepairIs(chainRepair', Served') BY <1>1, <1>4, <1>5 DEF RepairIs
<1>7. \A q \in ChainRuns : IsChainRun(chainTask'[q], chainRow'[q], chainCopy'[q], Served') BY <1>1, <1>5 DEF ChainInv
<1> QED BY <1>1, <1>6, <1>7 DEF ChainInv

LEMMA StepWriteRepaired ==
    ASSUME ChainInv, WriteRepaired
    PROVE  ChainInv'
<1> DEFINE p == chainRepair.run
           entry == chainRepair.row
<1>1. /\ p # NoRun /\ chainRow' = [chainRow EXCEPT ![p] = entry]
      /\ chainRepair' = [run |-> NoRun, row |-> ChainEmpty] /\ chainTask' = chainTask /\ chainCopy' = chainCopy
  BY DEF WriteRepaired, Store
<1>2. p \in Served /\ IsServed(entry, Served) BY <1>1 DEF ChainInv, RepairIs
<1> HIDE DEF p, entry
<1>3. /\ chainRow' = [q \in ChainRuns |-> chainRow'[q]] /\ chainRow'[p] = entry
      /\ \A q \in ChainRuns : q # p => chainRow'[q] = chainRow[q]
      /\ Served \subseteq Served' /\ chainTask[p] = "ended" /\ p \in ChainRuns
      /\ \A other : IsChainRun("ended", entry, other, Served')
  BY <1>1, <1>2, OtherRow
<1>4. \A q \in ChainRuns : IsChainRun(chainTask'[q], chainRow'[q], chainCopy'[q], Served')
  <2> SUFFICES ASSUME NEW q \in ChainRuns PROVE IsChainRun(chainTask'[q], chainRow'[q], chainCopy'[q], Served')
    OBVIOUS
  <2>1. CASE q = p BY <2>1, <1>1, <1>3
  <2>2. CASE q # p BY <2>2, <1>1, <1>3, RunKept
  <2> QED BY <2>1, <2>2
<1>5. RepairIs(chainRepair', Served') BY <1>1 DEF RepairIs
<1> QED BY <1>1, <1>3, <1>4, <1>5 DEF ChainInv

LEMMA StepNoChain ==
    ASSUME ChainInv, UNCHANGED chainVars
    PROVE  ChainInv'
<1>1. chainRow' = chainRow /\ chainTask' = chainTask /\ chainCopy' = chainCopy /\ chainRepair' = chainRepair
  BY DEF chainVars
<1>2. Served' = Served BY <1>1 DEF Served
<1> QED BY <1>1, <1>2 DEF ChainInv

\* At every moment, for any fixture, decompositions, proposals and findings and
\* any number of runs and faults: stored rows, copies of parents and repairs
\* under way are sound (initialize, the nine steps, expansion, merge, GET).
THEOREM ChainAlwaysInv == ChainSteps => []ChainInv
<1>1. ChainInit => ChainInv BY ChainInitInv
<1>2. ChainInv /\ [ChainNext]_chainVars => ChainInv'
  <2> SUFFICES ASSUME ChainInv, [ChainNext]_chainVars PROVE ChainInv'
    OBVIOUS
  <2>1. ASSUME NEW r \in ChainRuns,
               \/ PostExplore(r) \/ ExploreFromCommandLine(r)
               \/ \E p \in ChainRuns : PostExpand(p, r)
               \/ ChainProceeds(r) \/ FailChain(r) \/ LoseChain(r) \/ ReadSankey(r)
        PROVE  ChainInv'
    <3>1. CASE PostExplore(r) BY <3>1, StepPostExplore
    <3>2. CASE ExploreFromCommandLine(r) BY <3>2, StepExploreFromCommandLine
    <3>3. CASE \E p \in ChainRuns : PostExpand(p, r) BY <3>3, StepPostExpand
    <3>4. CASE ChainProceeds(r)
      BY <3>4, StepInitializeChain, StepFinishChain, StepBeginExpansion, StepMergeIntoParent, StepStoreChild,
         StepRejectMerge DEF ChainProceeds
    <3>5. CASE FailChain(r) BY <3>5, StepFailChain
    <3>6. CASE LoseChain(r) BY <3>6, StepLoseChain
    <3>7. CASE ReadSankey(r) BY <3>7, StepReadSankey
    <3> QED BY <2>1, <3>1, <3>2, <3>3, <3>4, <3>5, <3>6, <3>7
  <2>2. CASE WriteRepaired BY <2>2, StepWriteRepaired
  <2>3. CASE UNCHANGED chainVars BY <2>3, StepNoChain
  <2> QED BY <2>1, <2>2, <2>3 DEF ChainNext
<1> QED BY <1>1, <1>2, PTL DEF ChainSteps

\* The status, the verdict, the task and the parent of a run stay in their domains.
THEOREM ChainTypeCorrect == ChainSteps => []ChainTypeOK
<1>1. ChainInv => ChainTypeOK
  <2> SUFFICES ASSUME ChainInv, NEW r \in ChainRuns
               PROVE  /\ chainRow[r].status \in {"none", "queued", "running"} \cup ChainFinal
                      /\ chainRow[r].verdict \in {"none", "pass", "needs_review", "fail"}
                      /\ chainTask[r] \in {"none", "queued", "running", "merged", "ended", "lost"}
                      /\ chainRow[r].parent \in ChainRuns \cup {NoRun}
    BY DEF ChainTypeOK
  <2>1. IsChainRow(chainRow[r], Served) BY DEF ChainInv, IsChainRun, IsRow
  <2>2. chainTask[r] \in {"none", "queued", "running", "merged", "ended", "lost"} BY DEF ChainInv, IsChainRun
  <2> QED BY <2>1, <2>2 DEF IsChainRow, Served
<1> QED BY <1>1, ChainAlwaysInv, PTL

\* A supply-chain task that has ended leaves a decided run: the Sankey payload
\* of every graph the steps make passes its validator (models.py), so the
\* evaluator decides, and no merge or repair takes a run back to running.
THEOREM EndedAlwaysDecided == ChainSteps => []EndedIsDecided
<1>1. ChainInv => EndedIsDecided BY DEF ChainInv, IsChainRun, EndedIsDecided
<1> QED BY <1>1, ChainAlwaysInv, PTL

\* Whatever is explored, expanded, merged from a stale copy or repaired by a
\* GET, the payload that the store serves is valid and cites stored evidence.
THEOREM ChainsAlwaysSound == ChainSteps => []ChainsAreSound
<1>1. ChainInv => ChainsAreSound
  <2> SUFFICES ASSUME ChainInv, NEW r \in ChainRuns, chainRow[r].sankey # NoSankey
               PROVE  SoundPayload(chainRow[r].sankey)
    BY DEF ChainsAreSound
  <2>1. IsPayload(chainRow[r].sankey) BY DEF ChainInv, IsChainRun, IsRow, IsServed
  <2> QED BY <2>1, PayloadSound
<1> QED BY <1>1, ChainAlwaysInv, PTL

\* The union of a child's payload with its parent's, however stale the copy of
\* the parent, is never refused: the handler of a merge that raises
\* (workflow.py, expand_supply_chain_workflow) has nothing to handle.
THEOREM NoMergeIsRefused == ChainSteps => [][\A r \in ChainRuns : ~RejectMerge(r)]_chainVars
<1>1. ChainInv => \A r \in ChainRuns : ~RejectMerge(r)
  <2> SUFFICES ASSUME ChainInv, NEW r \in ChainRuns, RejectMerge(r) PROVE FALSE
    OBVIOUS
  <2> DEFINE p == chainRow[r].parent
             copy == chainCopy[r]
             merged(child) == MergeExpansion(copy.sankey, child.sankey, chainRow[r].expands[1])
  <2>1. PICK child \in RunSteps(chainRow[r], chainRow[r].expands[2]) :
          child.sankey # NoSankey => ~ValidSankey(merged(child))
    BY DEF RejectMerge
  <2>2. /\ IsChainRow(chainRow[r], Served) /\ p # NoRun /\ IsServed(copy, Served)
    BY DEF ChainInv, IsChainRun, IsRow, RejectMerge
  <2>3. chainRow[r].expands[2] \in ProductIds BY <2>2, RequestAssumption DEF IsChainRow
  <2>4. IsServed(child, Served) BY <2>2, <2>3, StepsDecide
  <2>5. ValidSankey(merged(child)) BY <2>2, <2>4, MergedSound, PayloadValid DEF IsServed
  <2> QED BY <2>1, <2>4, <2>5, ServedIs
<1> QED BY <1>1, ChainAlwaysInv, PTL
-----------------------------------------------------------------------------
(* Expansions that do not overlap *)

\* What is to be written back was made from the payload that is stored.
CopiesCurrent ==
    /\ \A r \in ChainRuns : Expanding(r) => chainCopy[r].sankey = chainRow[chainRow[r].parent].sankey
    /\ chainRepair.run # NoRun => chainRepair.row.sankey = BuildSankey(chainRow[chainRepair.run].sankey)

\* All steps but a merge and a repair: no payload is touched, and a copy is
\* that of before or the row it is made from.
LeavesPayloads ==
    /\ \A q \in Served : chainRow'[q] = chainRow[q]
    /\ \A q \in ChainRuns : Expanding(q)' =>
        /\ chainRow'[q].parent \in Served
        /\ \/ Expanding(q) /\ chainRow'[q].parent = chainRow[q].parent /\ chainCopy'[q] = chainCopy[q]
           \/ chainCopy'[q] = chainRow[chainRow'[q].parent]
    /\ \/ chainRepair' = chainRepair
       \/ /\ chainRepair'.run \in Served
          /\ chainRepair'.row.sankey = BuildSankey(chainRow[chainRepair'.run].sankey)
          /\ chainRepair'.row.status = chainRow[chainRepair'.run].status

\* A step that writes one row without a payload, and no copy of another run.
LEMMA RowWithoutPayload ==
    ASSUME ChainInv, NEW r \in ChainRuns, chainRow[r].sankey = NoSankey, NEW entry, NEW at, NEW copy,
           chainRow' = [chainRow EXCEPT ![r] = entry], chainTask' = [chainTask EXCEPT ![r] = at],
           chainCopy' = [chainCopy EXCEPT ![r] = copy], chainRepair' = chainRepair,
           at = "running" /\ entry.parent # NoRun =>
               entry.parent \in Served /\ copy = chainRow[entry.parent]
    PROVE  LeavesPayloads
<1>1. /\ chainRow' = [chainRow EXCEPT ![r] = entry] /\ chainRow = [q \in ChainRuns |-> chainRow[q]]
      /\ chainTask' = [chainTask EXCEPT ![r] = at] /\ chainTask = [q \in ChainRuns |-> chainTask[q]]
      /\ chainCopy' = [chainCopy EXCEPT ![r] = copy] /\ chainCopy = [q \in ChainRuns |-> chainCopy[q]]
  BY DEF ChainInv
<1>2. /\ chainRow'[r] = entry /\ chainTask'[r] = at /\ chainCopy'[r] = copy
      /\ \A q \in ChainRuns \ {r} :
            chainRow'[q] = chainRow[q] /\ chainTask'[q] = chainTask[q] /\ chainCopy'[q] = chainCopy[q]
  BY <1>1
<1>3. r \notin Served /\ Served \subseteq ChainRuns BY DEF Served
<1>4. \A q \in Served : chainRow'[q] = chainRow[q] BY <1>2, <1>3
<1>5. ASSUME NEW q \in ChainRuns, Expanding(q)'
      PROVE  /\ chainRow'[q].parent \in Served
             /\ \/ Expanding(q) /\ chainRow'[q].parent = chainRow[q].parent /\ chainCopy'[q] = chainCopy[q]
                \/ chainCopy'[q] = chainRow[chainRow'[q].parent]
  <2>1. chainTask'[q] = "running" /\ chainRow'[q].parent # NoRun BY <1>5 DEF Expanding
  <2>2. CASE q = r BY <2>1, <2>2, <1>2
  <2>3. CASE q # r
    <3>1. IsChainRow(chainRow[q], Served) BY DEF ChainInv, IsChainRun, IsRow
    <3> QED BY <2>1, <2>3, <1>2, <3>1 DEF Expanding, IsChainRow
  <2> QED BY <2>2, <2>3
<1> QED BY <1>4, <1>5 DEF LeavesPayloads

\* Steps of a run that is being created ...
LEMMA CreationLeaves ==
    ASSUME ChainInv, NEW r \in ChainRuns,
           PostExplore(r) \/ ExploreFromCommandLine(r) \/ \E p \in ChainRuns : PostExpand(p, r)
    PROVE  LeavesPayloads
<1>1. /\ chainCopy' = [chainCopy EXCEPT ![r] = chainCopy[r]] /\ chainRepair' = chainRepair
      /\ chainRow[r] = ChainEmpty
  BY SameRows DEF PostExplore, ExploreFromCommandLine, PostExpand, Fresh
<1>2. chainRow[r].sankey = NoSankey BY <1>1, EmptyRow
<1>3. CASE PostExplore(r) \/ \E p \in ChainRuns : PostExpand(p, r)
  <2>1. chainTask' = [chainTask EXCEPT ![r] = "queued"] BY <1>3 DEF PostExplore, PostExpand, Task
  <2>2. PICK entry : chainRow' = [chainRow EXCEPT ![r] = entry] BY <1>3 DEF PostExplore, PostExpand, Store
  <2> QED BY <1>1, <1>2, <2>1, <2>2, RowWithoutPayload
<1>4. CASE ExploreFromCommandLine(r)
  <2> DEFINE entry == [ChainEmpty EXCEPT !.status = "running", !.demo = TRUE]
  <2>1. chainTask' = [chainTask EXCEPT ![r] = "running"] /\ chainRow' = [chainRow EXCEPT ![r] = entry]
    BY <1>4 DEF ExploreFromCommandLine, Task, Store
  <2>2. entry.parent = NoRun BY DEF ChainEmpty
  <2> HIDE DEF entry
  <2> QED BY <1>1, <1>2, <2>1, <2>2, RowWithoutPayload
<1> QED BY <1>3, <1>4

\* ... that begins, ends or fails.
LEMMA TaskLeaves ==
    ASSUME ChainInv, NEW r \in ChainRuns,
           \/ InitializeChain(r) \/ FinishChain(r) \/ BeginExpansion(r) \/ StoreChild(r)
           \/ RejectMerge(r) \/ FailChain(r) \/ LoseChain(r)
    PROVE  LeavesPayloads
<1>1. chainTask[r] \in {"queued", "running", "merged"}
  BY DEF InitializeChain, FinishChain, BeginExpansion, StoreChild, RejectMerge, FailChain, LoseChain
<1>2. chainRow[r].sankey = NoSankey BY <1>1 DEF ChainInv, IsChainRun
<1>3. /\ chainCopy = [chainCopy EXCEPT ![r] = chainCopy[r]]
      /\ chainRow = [chainRow EXCEPT ![r] = chainRow[r]]
  BY SameRows
<1>4. CASE InitializeChain(r)
  <2> DEFINE entry == [chainRow[r] EXCEPT !.status = "running"]
  <2>1. /\ chainTask' = [chainTask EXCEPT ![r] = "running"] /\ chainRow' = [chainRow EXCEPT ![r] = entry]
        /\ chainCopy' = chainCopy /\ chainRepair' = chainRepair /\ chainRow[r].parent = NoRun
    BY <1>4 DEF InitializeChain, Task, Store
  <2>2. entry.parent = NoRun
    <3>1. IsChainRow(chainRow[r], Served) BY DEF ChainInv, IsChainRun, IsRow
    <3>2. "running" \in {"none", "queued", "running"} \cup ChainFinal OBVIOUS
    <3> QED BY <2>1, <3>1, <3>2, WithStatus
  <2> HIDE DEF entry
  <2> QED BY <1>2, <1>3, <2>1, <2>2, RowWithoutPayload
<1>5. CASE FinishChain(r) \/ RejectMerge(r) \/ FailChain(r)
  <2>1. /\ chainTask' = [chainTask EXCEPT ![r] = "ended"] /\ chainCopy' = chainCopy /\ chainRepair' = chainRepair
    BY <1>5 DEF FinishChain, RejectMerge, FailChain, Task
  <2>2. PICK entry : chainRow' = [chainRow EXCEPT ![r] = entry] BY <1>5 DEF FinishChain, RejectMerge, FailChain, Store
  <2> QED BY <1>2, <1>3, <2>1, <2>2, RowWithoutPayload
<1>6. CASE BeginExpansion(r)
  <2> DEFINE p == chainRow[r].parent
             entry == [chainRow[r] EXCEPT !.status = "running", !.graph = [chainRow[p].graph EXCEPT !.warned = FALSE]]
  <2>1. /\ chainTask' = [chainTask EXCEPT ![r] = "running"] /\ chainRow' = [chainRow EXCEPT ![r] = entry]
        /\ chainCopy' = [chainCopy EXCEPT ![r] = chainRow[p]] /\ chainRepair' = chainRepair /\ p # NoRun
    BY <1>6 DEF BeginExpansion, Task, Store
  <2>2. IsChainRow(chainRow[r], Served) BY DEF ChainInv, IsChainRun, IsRow
  <2>3. p \in Served BY <2>1, <2>2 DEF IsChainRow
  <2>4. entry.parent = p
    <3>1. chainRow[r] = [status |-> chainRow[r].status, demo |-> chainRow[r].demo, parent |-> chainRow[r].parent,
                         expands |-> chainRow[r].expands, graph |-> chainRow[r].graph,
                         sankey |-> chainRow[r].sankey, verdict |-> chainRow[r].verdict]
      BY <2>2 DEF IsChainRow
    <3> QED BY <3>1
  <2> HIDE DEF entry, p
  <2> QED BY <1>2, <2>1, <2>3, <2>4, RowWithoutPayload
<1>7. CASE StoreChild(r)
  <2>1. /\ chainTask' = [chainTask EXCEPT ![r] = "ended"] /\ chainRow' = [chainRow EXCEPT ![r] = chainCopy[r]]
        /\ chainCopy' = [chainCopy EXCEPT ![r] = ChainEmpty] /\ chainRepair' = chainRepair
    BY <1>7 DEF StoreChild, Task, Store
  <2> QED BY <1>2, <2>1, RowWithoutPayload
<1>8. CASE LoseChain(r)
  <2>1. /\ chainTask' = [chainTask EXCEPT ![r] = "lost"] /\ chainRow' = chainRow
        /\ chainCopy' = chainCopy /\ chainRepair' = chainRepair
    BY <1>8 DEF LoseChain, Task
  <2> QED BY <1>2, <1>3, <2>1, RowWithoutPayload
<1> QED BY <1>4, <1>5, <1>6, <1>7, <1>8

\* A GET that reads, and no step.
LEMMA ReadLeaves ==
    ASSUME ChainInv, (\E r \in ChainRuns : ReadSankey(r)) \/ UNCHANGED chainVars
    PROVE  LeavesPayloads
<1>1. chainRow' = chainRow /\ chainTask' = chainTask /\ chainCopy' = chainCopy
  BY DEF ReadSankey, chainVars
<1>2. ASSUME NEW q \in ChainRuns, Expanding(q)'
      PROVE  /\ chainRow'[q].parent \in Served
             /\ Expanding(q) /\ chainRow'[q].parent = chainRow[q].parent /\ chainCopy'[q] = chainCopy[q]
  <2>1. IsChainRow(chainRow[q], Served) BY DEF ChainInv, IsChainRun, IsRow
  <2> QED BY <1>1, <1>2, <2>1 DEF Expanding, IsChainRow
<1>3. \/ chainRepair' = chainRepair
      \/ /\ chainRepair'.run \in Served
         /\ chainRepair'.row.sankey = BuildSankey(chainRow[chainRepair'.run].sankey)
         /\ chainRepair'.row.status = chainRow[chainRepair'.run].status
  <2>1. CASE UNCHANGED chainVars BY <2>1 DEF chainVars
  <2>2. ASSUME NEW r \in ChainRuns, ReadSankey(r)
        PROVE  /\ chainRepair'.run \in Served
               /\ chainRepair'.row.sankey = BuildSankey(chainRow[chainRepair'.run].sankey)
               /\ chainRepair'.row.status = chainRow[chainRepair'.run].status
    <3> DEFINE entry == [chainRow[r] EXCEPT !.sankey = BuildSankey(chainRow[r].sankey)]
    <3>1. chainRow[r].sankey # NoSankey /\ chainRepair' = [run |-> r, row |-> entry] BY <2>2 DEF ReadSankey
    <3>2. entry.sankey = BuildSankey(chainRow[r].sankey) /\ entry.status = chainRow[r].status
      <4>1. IsChainRow(chainRow[r], Served) BY DEF ChainInv, IsChainRun, IsRow
      <4> QED BY <4>1, WithSankey
    <3> HIDE DEF entry
    <3> QED BY <3>1, <3>2 DEF Served
  <2> QED BY <2>1, <2>2
<1> QED BY <1>1, <1>2, <1>3 DEF LeavesPayloads

\* Such a step keeps copies current.
LEMMA LeavingKeepsCopies ==
    ASSUME ChainInv, CopiesCurrent, LeavesPayloads
    PROVE  CopiesCurrent'
<1>1. ASSUME NEW q \in ChainRuns, Expanding(q)'
      PROVE  chainCopy'[q].sankey = chainRow'[chainRow'[q].parent].sankey
  <2>1. chainRow'[q].parent \in Served BY <1>1 DEF LeavesPayloads
  <2>2. chainRow'[chainRow'[q].parent] = chainRow[chainRow'[q].parent] BY <2>1 DEF LeavesPayloads
  <2>3. CASE Expanding(q) /\ chainRow'[q].parent = chainRow[q].parent /\ chainCopy'[q] = chainCopy[q]
    BY <2>2, <2>3 DEF CopiesCurrent
  <2>4. CASE chainCopy'[q] = chainRow[chainRow'[q].parent] BY <2>2, <2>4
  <2> QED BY <1>1, <2>3, <2>4 DEF LeavesPayloads
<1>2. ASSUME chainRepair'.run # NoRun
      PROVE  chainRepair'.row.sankey = BuildSankey(chainRow'[chainRepair'.run].sankey)
  <2>1. CASE chainRepair' = chainRepair
    <3>1. chainRepair.run \in Served BY <1>2, <2>1 DEF ChainInv, RepairIs
    <3>2. chainRow'[chainRepair.run] = chainRow[chainRepair.run] BY <3>1 DEF LeavesPayloads
    <3> QED BY <1>2, <2>1, <3>2 DEF CopiesCurrent
  <2>2. CASE chainRepair' # chainRepair
    <3>1. /\ chainRepair'.run \in Served
          /\ chainRepair'.row.sankey = BuildSankey(chainRow[chainRepair'.run].sankey)
      BY <2>2 DEF LeavesPayloads
    <3>2. chainRow'[chainRepair'.run] = chainRow[chainRepair'.run] BY <3>1 DEF LeavesPayloads
    <3> QED BY <3>1, <3>2
  <2> QED BY <2>1, <2>2
<1> QED BY <1>1, <1>2 DEF CopiesCurrent

\* What a step keeps of the payloads.
KeepsPayloads ==
    \A r \in ChainRuns : chainRow[r].sankey # NoSankey =>
        /\ chainRow[r].sankey.evidence \subseteq chainRow'[r].sankey.evidence
        /\ LinkIds(chainRow[r].sankey.links) \subseteq LinkIds(chainRow'[r].sankey.links)

\* A merge into a parent that no other expansion or repair is about to write.
LEMMA MergeAlone ==
    ASSUME ChainInv, CopiesCurrent, OneAtATime, NEW r \in ChainRuns, MergeIntoParent(r)
    PROVE  CopiesCurrent' /\ KeepsPayloads
<1> DEFINE p == chainRow[r].parent
           copy == chainCopy[r]
<1>1. PICK child \in RunSteps(chainRow[r], chainRow[r].expands[2]) :
        LET merged == MergeExpansion(copy.sankey, child.sankey, chainRow[r].expands[1])
        IN  /\ chainRow' = [chainRow EXCEPT ![p] = [copy EXCEPT !.sankey = merged]]
            /\ chainCopy' = [chainCopy EXCEPT ![r] = child]
  BY DEF MergeIntoParent, Store
<1> DEFINE merged == MergeExpansion(copy.sankey, child.sankey, chainRow[r].expands[1])
           entry == [copy EXCEPT !.sankey = merged]
<1>2. /\ chainTask[r] = "running" /\ p # NoRun /\ Expanding(r)
      /\ chainTask' = [chainTask EXCEPT ![r] = "merged"] /\ chainRepair' = chainRepair
  BY DEF MergeIntoParent, Task, Expanding
<1>3. /\ IsChainRow(chainRow[r], Served) /\ p \in Served /\ IsServed(copy, Served)
      /\ chainRow[r].sankey = NoSankey /\ chainTask[p] = "ended"
  BY <1>2 DEF ChainInv, IsChainRun, IsRow, IsChainRow, Served
<1>4. copy.sankey = chainRow[p].sankey BY <1>2 DEF CopiesCurrent
<1>5. IsPayload(copy.sankey) /\ IsPayload(child.sankey)
  <2>1. chainRow[r].expands[2] \in ProductIds BY <1>2, <1>3, RequestAssumption DEF IsChainRow
  <2>2. IsServed(child, Served) BY <1>3, <2>1, StepsDecide
  <2> QED BY <1>3, <2>2 DEF IsServed
<1>6. merged.evidence = copy.sankey.evidence \cup child.sankey.evidence
      /\ LinkIds(merged.links) = LinkIds(copy.sankey.links) \cup LinkIds(child.sankey.links)
  BY <1>5, MergedKeeps
<1>7. entry.sankey = merged BY <1>3, WithSankey DEF IsServed
<1>8. chainRow' = [chainRow EXCEPT ![p] = entry] /\ p \in ChainRuns BY <1>1, <1>3 DEF Served
<1> HIDE DEF merged, entry
<1>9. chainRow'[p] = entry /\ \A q \in ChainRuns \ {p} : chainRow'[q] = chainRow[q]
  BY <1>8 DEF ChainInv
<1>10. KeepsPayloads
  <2> SUFFICES ASSUME NEW q \in ChainRuns, chainRow[q].sankey # NoSankey
               PROVE  /\ chainRow[q].sankey.evidence \subseteq chainRow'[q].sankey.evidence
                      /\ LinkIds(chainRow[q].sankey.links) \subseteq LinkIds(chainRow'[q].sankey.links)
    BY DEF KeepsPayloads
  <2>1. CASE q = p BY <2>1, <1>4, <1>6, <1>7, <1>9
  <2>2. CASE q # p BY <2>2, <1>9
  <2> QED BY <2>1, <2>2
<1>11. /\ chainTask'[r] = "merged" /\ \A q \in ChainRuns \ {r} : chainTask'[q] = chainTask[q]
       /\ \A q \in ChainRuns \ {r} : chainCopy'[q] = chainCopy[q]
  BY <1>1, <1>2 DEF ChainInv
<1>12. ASSUME NEW q \in ChainRuns, Expanding(q)'
       PROVE  chainCopy'[q].sankey = chainRow'[chainRow'[q].parent].sankey
  <2>1. chainTask'[q] = "running" /\ chainRow'[q].parent # NoRun BY <1>12 DEF Expanding
  <2>2. q # r /\ chainTask[q] = "running" /\ q # p BY <2>1, <1>3, <1>11
  <2>3. chainRow'[q] = chainRow[q] /\ chainCopy'[q] = chainCopy[q] BY <2>2, <1>9, <1>11
  <2>4. Expanding(q) BY <2>1, <2>2, <2>3 DEF Expanding
  <2>5. chainRow[q].parent # p BY <1>2, <2>2, <2>4 DEF OneAtATime
  <2>6. chainRow[q].parent \in ChainRuns
    <3>1. IsChainRow(chainRow[q], Served) BY DEF ChainInv, IsChainRun, IsRow
    <3> QED BY <3>1, <2>1, <2>3 DEF IsChainRow, Served
  <2>7. chainRow'[chainRow[q].parent] = chainRow[chainRow[q].parent] BY <2>5, <2>6, <1>9
  <2> QED BY <2>3, <2>4, <2>7 DEF CopiesCurrent
<1>13. ASSUME chainRepair'.run # NoRun
       PROVE  chainRepair'.row.sankey = BuildSankey(chainRow'[chainRepair'.run].sankey)
  <2>1. chainRepair.run \in ChainRuns BY <1>2, <1>13 DEF ChainInv, RepairIs, Served
  <2>2. chainRepair.run # p BY <1>2 DEF OneAtATime
  <2>3. chainRow'[chainRepair.run] = chainRow[chainRepair.run] BY <2>1, <2>2, <1>9
  <2> QED BY <1>2, <1>13, <2>3 DEF CopiesCurrent
<1> QED BY <1>10, <1>12, <1>13 DEF CopiesCurrent

\* A repair of a run that no expansion is about to write.
LEMMA RepairAlone ==
    ASSUME ChainInv, CopiesCurrent, OneAtATime, WriteRepaired
    PROVE  CopiesCurrent' /\ KeepsPayloads
<1> DEFINE p == chainRepair.run
           entry == chainRepair.row
<1>1. /\ p # NoRun /\ chainRow' = [chainRow EXCEPT ![p] = entry]
      /\ chainRepair' = [run |-> NoRun, row |-> ChainEmpty] /\ chainTask' = chainTask /\ chainCopy' = chainCopy
  BY DEF WriteRepaired, Store
<1>2. p \in Served /\ p \in ChainRuns BY <1>1 DEF ChainInv, RepairIs, Served
<1>3. entry.sankey = BuildSankey(chainRow[p].sankey) BY <1>1 DEF CopiesCurrent
<1>4. IsPayload(chainRow[p].sankey) BY <1>2 DEF ChainInv, IsChainRun, IsRow, IsServed, Served
<1>5. entry.sankey.links = chainRow[p].sankey.links /\ entry.sankey.evidence = chainRow[p].sankey.evidence
  BY <1>3, <1>4, RepairedPayload, PayloadIsGraph, PayloadBuilt
<1>6. chainRow'[p] = entry /\ \A q \in ChainRuns \ {p} : chainRow'[q] = chainRow[q]
  BY <1>1, <1>2 DEF ChainInv
<1>7. KeepsPayloads
  <2> SUFFICES ASSUME NEW q \in ChainRuns, chainRow[q].sankey # NoSankey
               PROVE  /\ chainRow[q].sankey.evidence \subseteq chainRow'[q].sankey.evidence
                      /\ LinkIds(chainRow[q].sankey.links) \subseteq LinkIds(chainRow'[q].sankey.links)
    BY DEF KeepsPayloads
  <2>1. CASE q = p BY <2>1, <1>5, <1>6
  <2>2. CASE q # p BY <2>2, <1>6
  <2> QED BY <2>1, <2>2
<1>8. ASSUME NEW q \in ChainRuns, Expanding(q)'
      PROVE  chainCopy'[q].sankey = chainRow'[chainRow'[q].parent].sankey
  <2>1. chainTask[q] = "running" /\ chainRow'[q].parent # NoRun BY <1>1, <1>8 DEF Expanding
  <2>2. chainTask[p] = "ended" BY <1>2 DEF ChainInv, IsChainRun, Served
  <2>3. chainRow'[q] = chainRow[q] BY <2>1, <2>2, <1>6
  <2>4. Expanding(q) BY <2>1, <2>3 DEF Expanding
  <2>5. chainRow[q].parent # p BY <2>4 DEF OneAtATime
  <2>6. chainRow[q].parent \in ChainRuns
    <3>1. IsChainRow(chainRow[q], Served) BY DEF ChainInv, IsChainRun, IsRow
    <3> QED BY <3>1, <2>1, <2>3 DEF IsChainRow, Served
  <2>7. chainRow'[chainRow[q].parent] = chainRow[chainRow[q].parent] BY <2>5, <2>6, <1>6
  <2> QED BY <1>1, <2>3, <2>4, <2>7 DEF CopiesCurrent
<1>9. chainRepair'.run = NoRun BY <1>1
<1> QED BY <1>7, <1>8, <1>9 DEF CopiesCurrent

\* While no two expansions of one run overlap, nor one with the GET that
\* repairs it, no evidence and no link of a stored payload is ever lost
\* (expand_supply_chain_workflow, _merge_expansion_subgraph): what
\* SupplyChainOverlap shows lost is lost by the overlap alone.
THEOREM ExpansionsAloneKeep == ChainSteps /\ []OneAtATime => ExpansionsKeepEvidence
<1>1. ChainInit => CopiesCurrent
  <2> SUFFICES ASSUME ChainInit PROVE CopiesCurrent
    OBVIOUS
  <2>1. \A r \in ChainRuns : chainTask[r] = "none" BY DEF ChainInit
  <2>2. chainRepair.run = NoRun BY DEF ChainInit
  <2> QED BY <2>1, <2>2 DEF CopiesCurrent, Expanding
<1>2. ChainInv /\ OneAtATime /\ CopiesCurrent /\ [ChainNext]_chainVars => CopiesCurrent' /\ KeepsPayloads
  <2> SUFFICES ASSUME ChainInv, OneAtATime, CopiesCurrent, [ChainNext]_chainVars
               PROVE  CopiesCurrent' /\ KeepsPayloads
    OBVIOUS
  <2>1. ASSUME LeavesPayloads PROVE CopiesCurrent' /\ KeepsPayloads
    <3>1. CopiesCurrent' BY <2>1, LeavingKeepsCopies
    <3>2. \A r \in Served : chainRow'[r] = chainRow[r] BY <2>1 DEF LeavesPayloads
    <3>3. KeepsPayloads BY <3>2 DEF KeepsPayloads, Served
    <3> QED BY <3>1, <3>3
  <2>2. ASSUME NEW r \in ChainRuns,
               PostExplore(r) \/ ExploreFromCommandLine(r) \/ \E p \in ChainRuns : PostExpand(p, r)
        PROVE  LeavesPayloads
    BY <2>2, CreationLeaves
  <2>3. ASSUME NEW r \in ChainRuns,
               \/ InitializeChain(r) \/ FinishChain(r) \/ BeginExpansion(r) \/ StoreChild(r)
               \/ RejectMerge(r) \/ FailChain(r) \/ LoseChain(r)
        PROVE  LeavesPayloads
    BY <2>3, TaskLeaves
  <2>4. ASSUME (\E r \in ChainRuns : ReadSankey(r)) \/ UNCHANGED chainVars PROVE LeavesPayloads
    BY <2>4, ReadLeaves
  <2>5. ASSUME NEW r \in ChainRuns, MergeIntoParent(r) PROVE CopiesCurrent' /\ KeepsPayloads
    BY <2>5, MergeAlone
  <2>6. CASE WriteRepaired BY <2>6, RepairAlone
  <2> QED BY <2>1, <2>2, <2>3, <2>4, <2>5, <2>6 DEF ChainNext, ChainProceeds
<1>3. ExpansionsKeepEvidence <=> [][KeepsPayloads]_chainVars BY DEF ExpansionsKeepEvidence, KeepsPayloads
<1> QED BY <1>1, <1>2, <1>3, ChainAlwaysInv, PTL DEF ChainSteps
-----------------------------------------------------------------------------
(* What a panel is told of a run *)

\* The status of a run whose task is at work.
AtWork ==
    \A r \in ChainRuns :
        /\ chainTask[r] = "queued" => chainRow[r].status = "queued"
        /\ chainTask[r] \in {"running", "merged"} => chainRow[r].status = "running"

\* What is to be written back shows the status that is stored.
StatusesCurrent ==
    /\ \A r \in ChainRuns : Expanding(r) => chainCopy[r].status = chainRow[chainRow[r].parent].status
    /\ chainRepair.run # NoRun => chainRepair.row.status = chainRow[chainRepair.run].status

\* How the status of a run may change at once.
Advances(old, new) ==
    \/ new = old
    \/ old = "none" /\ new \in {"queued", "running"}
    \/ old = "queued" /\ new = "running"
    \/ old \in {"queued", "running"} /\ new \in ChainFinal

ChainTold == [r \in ChainRuns |-> chainRow[r].status]

\* A step that advances one run is one that a panel expects.
LEMMA OneAdvances ==
    ASSUME NEW r \in ChainRuns, Advances(chainRow[r].status, chainRow'[r].status),
           \A q \in ChainRuns \ {r} : chainRow'[q].status = chainRow[q].status
    PROVE  ChainPanel!PollNext \/ UNCHANGED ChainTold
<1> DEFINE new == chainRow'[r].status
<1>1. ChainTold' = [ChainTold EXCEPT ![r] = new] /\ ChainTold[r] = chainRow[r].status BY DEF ChainTold
<1>2. CASE new = chainRow[r].status
  <2>1. \A q \in ChainRuns : chainRow'[q].status = chainRow[q].status BY <1>2
  <2> QED BY <2>1 DEF ChainTold
<1>3. CASE chainRow[r].status = "none" /\ new \in {"queued", "running"}
  <2>1. ChainPanel!Submit(r)
    BY <1>1, <1>3 DEF ChainPanel!Submit, ChainPanel!Show, ChainPanel!Waiting, ChainTold
  <2> QED BY <2>1 DEF ChainPanel!PollNext
<1>4. CASE chainRow[r].status = "queued" /\ new = "running"
  <2>1. ChainPanel!Begin(r)
    BY <1>1, <1>4 DEF ChainPanel!Begin, ChainPanel!Show, ChainPanel!Waiting, ChainTold
  <2> QED BY <2>1 DEF ChainPanel!PollNext
<1>5. CASE chainRow[r].status \in {"queued", "running"} /\ new \in ChainFinal
  <2>1. ChainPanel!Decide(r)
    BY <1>1, <1>5 DEF ChainPanel!Decide, ChainPanel!Show, ChainPanel!Waiting, ChainPanel!Decided, ChainTold, ChainFinal
  <2> QED BY <2>1 DEF ChainPanel!PollNext
<1> QED BY <1>2, <1>3, <1>4, <1>5 DEF Advances

\* A task that works on its own row.
LEMMA OwnStatus ==
    ASSUME ChainInv, AtWork, NEW r \in ChainRuns, NEW entry, NEW at,
           chainRow' = [chainRow EXCEPT ![r] = entry], chainTask' = [chainTask EXCEPT ![r] = at],
           Advances(chainRow[r].status, entry.status),
           at = "queued" => entry.status = "queued",
           at \in {"running", "merged"} => entry.status = "running"
    PROVE  AtWork' /\ (ChainPanel!PollNext \/ UNCHANGED ChainTold)
<1>1. /\ chainRow'[r] = entry /\ chainTask'[r] = at
      /\ \A q \in ChainRuns \ {r} : chainRow'[q] = chainRow[q] /\ chainTask'[q] = chainTask[q]
  BY DEF ChainInv
<1>2. AtWork' BY <1>1 DEF AtWork
<1>3. ChainPanel!PollNext \/ UNCHANGED ChainTold BY <1>1, OneAdvances
<1> QED BY <1>2, <1>3

\* A run that is created.
LEMMA CreationAdvances ==
    ASSUME ChainInv, AtWork, NEW r \in ChainRuns,
           PostExplore(r) \/ ExploreFromCommandLine(r) \/ \E p \in ChainRuns : PostExpand(p, r)
    PROVE  AtWork' /\ (ChainPanel!PollNext \/ UNCHANGED ChainTold)
<1>1. chainRow[r].status = "none"
  <2>1. chainRow[r] = ChainEmpty BY DEF PostExplore, ExploreFromCommandLine, PostExpand, Fresh
  <2> QED BY <2>1, EmptyRow
<1>2. CASE PostExplore(r)
  <2> DEFINE entry == [ChainEmpty EXCEPT !.status = "queued"]
  <2>1. chainTask' = [chainTask EXCEPT ![r] = "queued"] /\ chainRow' = [chainRow EXCEPT ![r] = entry]
    BY <1>2 DEF PostExplore, Task, Store
  <2>2. entry.status = "queued" BY DEF ChainEmpty
  <2> HIDE DEF entry
  <2>3. Advances(chainRow[r].status, entry.status) BY <1>1, <2>2 DEF Advances
  <2> QED BY <2>1, <2>2, <2>3, OwnStatus
<1>3. CASE ExploreFromCommandLine(r)
  <2> DEFINE entry == [ChainEmpty EXCEPT !.status = "running", !.demo = TRUE]
  <2>1. chainTask' = [chainTask EXCEPT ![r] = "running"] /\ chainRow' = [chainRow EXCEPT ![r] = entry]
    BY <1>3 DEF ExploreFromCommandLine, Task, Store
  <2>2. entry.status = "running" BY DEF ChainEmpty
  <2> HIDE DEF entry
  <2>3. Advances(chainRow[r].status, entry.status) BY <1>1, <2>2 DEF Advances
  <2> QED BY <2>1, <2>2, <2>3, OwnStatus
<1>4. ASSUME NEW p \in ChainRuns, PostExpand(p, r)
      PROVE  AtWork' /\ (ChainPanel!PollNext \/ UNCHANGED ChainTold)
  <2>1. PICK request \in Expansions :
          chainRow' = [chainRow EXCEPT ![r] = [ChainEmpty EXCEPT !.status = "queued", !.parent = p, !.expands = request]]
    BY <1>4 DEF PostExpand, Store
  <2> DEFINE entry == [ChainEmpty EXCEPT !.status = "queued", !.parent = p, !.expands = request]
  <2>2. chainTask' = [chainTask EXCEPT ![r] = "queued"] /\ chainRow' = [chainRow EXCEPT ![r] = entry]
    BY <1>4, <2>1 DEF PostExpand, Task
  <2>3. entry.status = "queued" BY DEF ChainEmpty
  <2> HIDE DEF entry
  <2>4. Advances(chainRow[r].status, entry.status) BY <1>1, <2>3 DEF Advances
  <2> QED BY <2>2, <2>3, <2>4, OwnStatus
<1> QED BY <1>2, <1>3, <1>4

\* A task that begins, ends or fails.
LEMMA TaskAdvances ==
    ASSUME ChainInv, AtWork, NEW r \in ChainRuns,
           \/ InitializeChain(r) \/ FinishChain(r) \/ BeginExpansion(r) \/ StoreChild(r)
           \/ RejectMerge(r) \/ FailChain(r) \/ LoseChain(r)
    PROVE  AtWork' /\ (ChainPanel!PollNext \/ UNCHANGED ChainTold)
<1>1. chainTask[r] \in {"queued", "running", "merged"}
  BY DEF InitializeChain, FinishChain, BeginExpansion, StoreChild, RejectMerge, FailChain, LoseChain
<1>2. chainRow[r].status \in {"queued", "running"} BY <1>1 DEF AtWork
<1>3. IsChainRow(chainRow[r], Served) BY DEF ChainInv, IsChainRun, IsRow
<1>4. {"running", "failed"} \subseteq {"none", "queued", "running"} \cup ChainFinal /\ "failed" \in ChainFinal
  BY DEF ChainFinal
<1>5. CASE InitializeChain(r)
  <2> DEFINE entry == [chainRow[r] EXCEPT !.status = "running"]
  <2>1. /\ chainTask' = [chainTask EXCEPT ![r] = "running"] /\ chainRow' = [chainRow EXCEPT ![r] = entry]
        /\ chainTask[r] = "queued"
    BY <1>5 DEF InitializeChain, Task, Store
  <2>2. entry.status = "running" BY <1>3, <1>4, WithStatus
  <2> HIDE DEF entry
  <2>3. Advances(chainRow[r].status, entry.status) BY <2>1, <2>2 DEF AtWork, Advances
  <2> QED BY <2>1, <2>2, <2>3, OwnStatus
<1>6. CASE BeginExpansion(r)
  <2> DEFINE p == chainRow[r].parent
             entry == [chainRow[r] EXCEPT !.status = "running", !.graph = [chainRow[p].graph EXCEPT !.warned = FALSE]]
  <2>1. /\ chainTask' = [chainTask EXCEPT ![r] = "running"] /\ chainRow' = [chainRow EXCEPT ![r] = entry]
        /\ chainTask[r] = "queued"
    BY <1>6 DEF BeginExpansion, Task, Store
  <2>2. entry.status = "running"
    <3>1. chainRow[r] = [status |-> chainRow[r].status, demo |-> chainRow[r].demo, parent |-> chainRow[r].parent,
                         expands |-> chainRow[r].expands, graph |-> chainRow[r].graph,
                         sankey |-> chainRow[r].sankey, verdict |-> chainRow[r].verdict]
      BY <1>3 DEF IsChainRow
    <3> QED BY <3>1
  <2> HIDE DEF entry
  <2>3. Advances(chainRow[r].status, entry.status) BY <2>1, <2>2 DEF AtWork, Advances
  <2> QED BY <2>1, <2>2, <2>3, OwnStatus
<1>7. ASSUME NEW entry, entry.status \in ChainFinal, chainRow' = [chainRow EXCEPT ![r] = entry],
             chainTask' = [chainTask EXCEPT ![r] = "ended"]
      PROVE  AtWork' /\ (ChainPanel!PollNext \/ UNCHANGED ChainTold)
  <2>1. Advances(chainRow[r].status, entry.status) BY <1>2, <1>7 DEF Advances
  <2> QED BY <1>7, <2>1, OwnStatus
<1>8. CASE FinishChain(r)
  <2>1. PICK state \in RunSteps(chainRow[r], Product) : chainRow' = [chainRow EXCEPT ![r] = state]
    BY <1>8 DEF FinishChain, Store
  <2>2. state.status \in ChainFinal BY <1>3, RequestAssumption, StepsDecide DEF IsServed
  <2>3. chainTask' = [chainTask EXCEPT ![r] = "ended"] BY <1>8 DEF FinishChain, Task
  <2> QED BY <1>7, <2>1, <2>2, <2>3
<1>9. CASE StoreChild(r)
  <2>1. /\ chainTask' = [chainTask EXCEPT ![r] = "ended"] /\ chainRow' = [chainRow EXCEPT ![r] = chainCopy[r]]
        /\ chainTask[r] = "merged"
    BY <1>9 DEF StoreChild, Task, Store
  <2>2. chainCopy[r].status \in ChainFinal BY <2>1 DEF ChainInv, IsChainRun, IsServed
  <2> QED BY <1>7, <2>1, <2>2
<1>10. CASE RejectMerge(r)
  <2>1. /\ chainTask' = [chainTask EXCEPT ![r] = "ended"]
        /\ chainRow' = [chainRow EXCEPT ![r] = [chainRow[r] EXCEPT !.status = "failed"]]
    BY <1>10 DEF RejectMerge, Task, Store
  <2>2. [chainRow[r] EXCEPT !.status = "failed"].status \in ChainFinal BY <1>3, <1>4, WithStatus
  <2> QED BY <1>7, <2>1, <2>2
<1>11. CASE FailChain(r)
  <2>1. PICK state \in IF chainTask[r] = "running" /\ chainRow[r].parent = NoRun
                       THEN RunSteps(chainRow[r], Product) ELSE {chainRow[r]} :
          chainRow' = [chainRow EXCEPT ![r] = [state EXCEPT !.status = "failed"]]
    BY <1>11 DEF FailChain, Store
  <2>2. IsChainRow(state, Served)
    <3>1. \A s \in RunSteps(chainRow[r], Product) : IsChainRow(s, Served)
      BY <1>3, RequestAssumption, StepsDecide DEF IsServed
    <3> QED BY <1>3, <2>1, <3>1
  <2>3. [state EXCEPT !.status = "failed"].status \in ChainFinal BY <1>4, <2>2, WithStatus
  <2>4. chainTask' = [chainTask EXCEPT ![r] = "ended"] BY <1>11 DEF FailChain, Task
  <2> QED BY <1>7, <2>1, <2>3, <2>4
<1>12. CASE LoseChain(r)
  <2>1. chainTask' = [chainTask EXCEPT ![r] = "lost"] /\ chainRow' = chainRow BY <1>12 DEF LoseChain, Task
  <2>2. chainRow' = [chainRow EXCEPT ![r] = chainRow[r]] BY <2>1, SameRows
  <2>3. Advances(chainRow[r].status, chainRow[r].status) BY DEF Advances
  <2> QED BY <2>1, <2>2, <2>3, OwnStatus
<1> QED BY <1>5, <1>6, <1>8, <1>9, <1>10, <1>11, <1>12

\* Such steps leave the status of every copy current.
LEMMA LeavingKeepsStatuses ==
    ASSUME ChainInv, StatusesCurrent, LeavesPayloads
    PROVE  StatusesCurrent'
<1>1. ASSUME NEW q \in ChainRuns, Expanding(q)'
      PROVE  chainCopy'[q].status = chainRow'[chainRow'[q].parent].status
  <2>1. chainRow'[q].parent \in Served BY <1>1 DEF LeavesPayloads
  <2>2. chainRow'[chainRow'[q].parent] = chainRow[chainRow'[q].parent] BY <2>1 DEF LeavesPayloads
  <2>3. CASE Expanding(q) /\ chainRow'[q].parent = chainRow[q].parent /\ chainCopy'[q] = chainCopy[q]
    BY <2>2, <2>3 DEF StatusesCurrent
  <2>4. CASE chainCopy'[q] = chainRow[chainRow'[q].parent] BY <2>2, <2>4
  <2> QED BY <1>1, <2>3, <2>4 DEF LeavesPayloads
<1>2. ASSUME chainRepair'.run # NoRun
      PROVE  chainRepair'.row.status = chainRow'[chainRepair'.run].status
  <2>1. CASE chainRepair' = chainRepair
    <3>1. chainRepair.run \in Served BY <1>2, <2>1 DEF ChainInv, RepairIs
    <3>2. chainRow'[chainRepair.run] = chainRow[chainRepair.run] BY <3>1 DEF LeavesPayloads
    <3> QED BY <1>2, <2>1, <3>2 DEF StatusesCurrent
  <2>2. CASE chainRepair' # chainRepair
    <3>1. /\ chainRepair'.run \in Served
          /\ chainRepair'.row.status = chainRow[chainRepair'.run].status
      BY <2>2 DEF LeavesPayloads
    <3>2. chainRow'[chainRepair'.run] = chainRow[chainRepair'.run] BY <3>1 DEF LeavesPayloads
    <3> QED BY <3>1, <3>2
  <2> QED BY <2>1, <2>2
<1> QED BY <1>1, <1>2 DEF StatusesCurrent

\* A payload over one, with the status of the copy: no run is told otherwise.
LEMMA WritingKeepsStatuses ==
    ASSUME ChainInv, AtWork, StatusesCurrent, NEW p \in Served, NEW entry, IsServed(entry, Served),
           chainRow' = [chainRow EXCEPT ![p] = entry], entry.status = chainRow[p].status,
           \A q \in ChainRuns : chainTask'[q] # chainTask[q] => chainTask[q] = "running" /\ chainTask'[q] = "merged",
           \A q \in ChainRuns : chainTask'[q] = "running" => chainCopy'[q] = chainCopy[q],
           chainRepair'.run # NoRun => chainRepair' = chainRepair
    PROVE  AtWork' /\ StatusesCurrent' /\ UNCHANGED ChainTold
<1>1. /\ chainRow'[p] = entry /\ \A q \in ChainRuns : q # p => chainRow'[q] = chainRow[q]
      /\ chainTask[p] = "ended" /\ p \in ChainRuns
  BY OtherRow
<1>2. \A q \in ChainRuns : chainRow'[q].status = chainRow[q].status BY <1>1
<1>3. UNCHANGED ChainTold BY <1>2 DEF ChainTold
<1>4. AtWork' BY <1>2 DEF AtWork
<1>5. ASSUME NEW q \in ChainRuns, Expanding(q)'
      PROVE  chainCopy'[q].status = chainRow'[chainRow'[q].parent].status
  <2>1. chainTask'[q] = "running" /\ chainRow'[q].parent # NoRun BY <1>5 DEF Expanding
  <2>2. chainTask[q] = "running" /\ q # p BY <2>1, <1>1
  <2>3. chainRow'[q] = chainRow[q] /\ chainCopy'[q] = chainCopy[q] BY <2>1, <2>2, <1>1
  <2>4. Expanding(q) BY <2>1, <2>2, <2>3 DEF Expanding
  <2>5. chainRow[q].parent \in ChainRuns
    <3>1. IsChainRow(chainRow[q], Served) BY DEF ChainInv, IsChainRun, IsRow
    <3> QED BY <3>1, <2>1, <2>3 DEF IsChainRow, Served
  <2> QED BY <2>3, <2>4, <2>5, <1>2 DEF StatusesCurrent
<1>6. ASSUME chainRepair'.run # NoRun
      PROVE  chainRepair'.row.status = chainRow'[chainRepair'.run].status
  <2>1. chainRepair' = chainRepair /\ chainRepair.run \in ChainRuns BY <1>6 DEF ChainInv, RepairIs, Served
  <2> QED BY <1>6, <2>1, <1>2 DEF StatusesCurrent
<1> QED BY <1>3, <1>4, <1>5, <1>6 DEF StatusesCurrent

LEMMA MergeKeepsStatuses ==
    ASSUME ChainInv, AtWork, StatusesCurrent, NEW r \in ChainRuns, MergeIntoParent(r)
    PROVE  AtWork' /\ StatusesCurrent' /\ UNCHANGED ChainTold
<1> DEFINE p == chainRow[r].parent
           copy == chainCopy[r]
<1>1. PICK child \in RunSteps(chainRow[r], chainRow[r].expands[2]) :
        LET merged == MergeExpansion(copy.sankey, child.sankey, chainRow[r].expands[1])
        IN  /\ chainRow' = [chainRow EXCEPT ![p] = [copy EXCEPT !.sankey = merged]]
            /\ chainCopy' = [chainCopy EXCEPT ![r] = child]
  BY DEF MergeIntoParent, Store
<1> DEFINE merged == MergeExpansion(copy.sankey, child.sankey, chainRow[r].expands[1])
           entry == [copy EXCEPT !.sankey = merged]
<1>2. /\ chainTask[r] = "running" /\ p # NoRun /\ Expanding(r)
      /\ chainTask' = [chainTask EXCEPT ![r] = "merged"] /\ chainRepair' = chainRepair
  BY DEF MergeIntoParent, Task, Expanding
<1>3. /\ IsChainRow(chainRow[r], Served) /\ p \in Served /\ IsServed(copy, Served)
  BY <1>2 DEF ChainInv, IsChainRun, IsRow, IsChainRow
<1>4. IsPayload(merged)
  <2>1. chainRow[r].expands[2] \in ProductIds BY <1>2, <1>3, RequestAssumption DEF IsChainRow
  <2>2. IsServed(child, Served) BY <1>3, <2>1, StepsDecide
  <2> QED BY <1>3, <2>2, MergedSound DEF IsServed
<1>5. IsChainRow(entry, Served) /\ entry.sankey = merged /\ entry.status = copy.status
  BY <1>3, WithSankey DEF IsServed
<1>6. IsServed(entry, Served) BY <1>3, <1>4, <1>5 DEF IsServed
<1>7. entry.status = chainRow[p].status BY <1>2, <1>5 DEF StatusesCurrent
<1>8. /\ \A q \in ChainRuns : chainTask'[q] # chainTask[q] => chainTask[q] = "running" /\ chainTask'[q] = "merged"
      /\ \A q \in ChainRuns : chainTask'[q] = "running" => chainCopy'[q] = chainCopy[q]
  BY <1>1, <1>2 DEF ChainInv
<1>9. chainRow' = [chainRow EXCEPT ![p] = entry] BY <1>1
<1> HIDE DEF entry, merged, p
<1> QED BY <1>2, <1>3, <1>6, <1>7, <1>8, <1>9, WritingKeepsStatuses

\* Every stored run of the supply chain implements what a panel takes a run to
\* be, whatever is merged from a stale copy, repaired, lost or failed
\* (workflow.py, api/supply_chain.py): it waits, runs, and is decided once.
THEOREM ChainRunsPolled == ChainSteps => ChainPanel!PollSpec
<1>1. ChainInit => AtWork /\ StatusesCurrent /\ ChainPanel!PollInit
  <2> SUFFICES ASSUME ChainInit PROVE AtWork /\ StatusesCurrent /\ ChainPanel!PollInit
    OBVIOUS
  <2>1. \A r \in ChainRuns : chainTask[r] = "none" /\ chainRow[r] = ChainEmpty BY DEF ChainInit
  <2>2. chainRepair.run = NoRun BY DEF ChainInit
  <2>3. \A r \in ChainRuns : chainRow[r].status = "none" BY <2>1, EmptyRow
  <2> QED BY <2>1, <2>2, <2>3 DEF AtWork, StatusesCurrent, Expanding, ChainPanel!PollInit
<1>2. ChainInv /\ AtWork /\ StatusesCurrent /\ [ChainNext]_chainVars
        => AtWork' /\ StatusesCurrent' /\ [ChainPanel!PollNext]_ChainTold
  <2> SUFFICES ASSUME ChainInv, AtWork, StatusesCurrent, [ChainNext]_chainVars
               PROVE  AtWork' /\ StatusesCurrent' /\ (ChainPanel!PollNext \/ UNCHANGED ChainTold)
    OBVIOUS
  <2>1. ASSUME NEW r \in ChainRuns,
               PostExplore(r) \/ ExploreFromCommandLine(r) \/ \E p \in ChainRuns : PostExpand(p, r)
        PROVE  AtWork' /\ StatusesCurrent' /\ (ChainPanel!PollNext \/ UNCHANGED ChainTold)
    BY <2>1, CreationLeaves, CreationAdvances, LeavingKeepsStatuses
  <2>2. ASSUME NEW r \in ChainRuns,
               \/ InitializeChain(r) \/ FinishChain(r) \/ BeginExpansion(r) \/ StoreChild(r)
               \/ RejectMerge(r) \/ FailChain(r) \/ LoseChain(r)
        PROVE  AtWork' /\ StatusesCurrent' /\ (ChainPanel!PollNext \/ UNCHANGED ChainTold)
    <3>1. LeavesPayloads BY <2>2, TaskLeaves
    <3>2. AtWork' /\ (ChainPanel!PollNext \/ UNCHANGED ChainTold) BY <2>2, TaskAdvances
    <3> QED BY <3>1, <3>2, LeavingKeepsStatuses
  <2>3. CASE (\E r \in ChainRuns : ReadSankey(r)) \/ UNCHANGED chainVars
    <3>1. LeavesPayloads BY <2>3, ReadLeaves
    <3>2. chainRow' = chainRow /\ chainTask' = chainTask BY <2>3 DEF ReadSankey, chainVars
    <3> QED BY <3>1, <3>2, LeavingKeepsStatuses DEF AtWork, ChainTold
  <2>4. ASSUME NEW r \in ChainRuns, MergeIntoParent(r)
        PROVE  AtWork' /\ StatusesCurrent' /\ (ChainPanel!PollNext \/ UNCHANGED ChainTold)
    BY <2>4, MergeKeepsStatuses
  <2>5. CASE WriteRepaired
    <3>1. /\ chainRepair.run # NoRun /\ chainRow' = [chainRow EXCEPT ![chainRepair.run] = chainRepair.row]
          /\ chainRepair' = [run |-> NoRun, row |-> ChainEmpty] /\ chainTask' = chainTask /\ chainCopy' = chainCopy
      BY <2>5 DEF WriteRepaired, Store
    <3>2. chainRepair.run \in Served /\ IsServed(chainRepair.row, Served) BY <3>1 DEF ChainInv, RepairIs
    <3>3. chainRepair.row.status = chainRow[chainRepair.run].status BY <3>1 DEF StatusesCurrent
    <3>4. chainRepair'.run = NoRun BY <3>1
    <3> QED BY <3>1, <3>2, <3>3, <3>4, WritingKeepsStatuses
  <2> QED BY <2>1, <2>2, <2>3, <2>4, <2>5 DEF ChainNext, ChainProceeds
<1>3. ChainPanel!PollSpec <=> ChainPanel!PollInit /\ [][ChainPanel!PollNext]_ChainTold
  BY DEF ChainPanel!PollSpec, ChainTold
<1> QED BY <1>1, <1>2, <1>3, ChainAlwaysInv, PTL DEF ChainSteps
=============================================================================

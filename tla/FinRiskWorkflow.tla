-------------------------- MODULE FinRiskWorkflow --------------------------
(***************************************************************************)
(* A FinRisk workflow: nine steps in a row over one state (ai/graphs/      *)
(* finrisk.py, workflows/steps/), each checked by the quality gate when    *)
(* the API starts the run (workflows/quality_gate.py, v16_runner.py) and   *)
(* unchecked from the command line, with the background task that keeps    *)
(* the row of the run in the SQLite store (api/workflows.py).              *)
(*                                                                         *)
(* `run' is the state in the memory of the task, `row' what the store      *)
(* holds of it.                                                            *)
(***************************************************************************)
EXTENDS FinRiskEvidence

CONSTANTS
    FixtureRisks,      \* sequences of filing risks a fixture may hold
    FixtureMarket,     \* sequences of market evidence a fixture may hold
    FixtureInsights,   \* sequences of graph insights a fixture may hold
    FilingLists,       \* recent filings of a company
    EventLists,        \* tool events of an exploration by the model
    PageLists,         \* results of a search
    MaxFaults          \* exceptions and validator failures of one run

ASSUME FaultsAssumption == MaxFaults \in Nat

VARIABLES
    run,     \* the workflow state
    row,     \* the stored one
    task,    \* where the background task or the command line is
    next,    \* the step to come
    faults   \* how much has gone wrong

vars == <<run, row, task, next, faults>>

Steps == <<"company_resolver", "filing_risk_extractor", "market_explorer",
           "evidence_normalizer", "risk_scorer", "lifecycle_classifier",
           "graph_reasoner", "report_generator", "evaluator">>
StepNames == Range(Steps)
CriticalSteps == StepNames \ {"market_explorer", "lifecycle_classifier", "graph_reasoner"}

NoReport == [made |-> FALSE, top |-> {}, rows |-> {}, insights |-> <<>>,
             scored |-> FALSE, advice |-> "none"]

Initial ==
    [status |-> "created", demo |-> FALSE, gated |-> TRUE, company |-> FALSE,
     risks |-> <<>>, market |-> <<>>, rows |-> {}, scores |-> <<>>,
     lifecycles |-> <<>>, insights |-> <<>>, report |-> NoReport, claims |-> {},
     v16 |-> FALSE, verdict |-> "none", trace |-> [s \in StepNames |-> "none"],
     evaluations |-> [s \in StepNames |-> "none"], summary |-> "none"]

Final == {"completed", "needs_review", "failed"}

-----------------------------------------------------------------------------
(* What each step may make of the state when it returns *)

Resolve(w) == {[w EXCEPT !.company = TRUE]}

Extract(w) ==
    {[w EXCEPT !.risks = Quoted(found)] :
        found \in IF w.demo THEN FixtureRisks
                  ELSE {ExtractLive(filings) : filings \in FilingLists}}

Explore(w) ==
    {[w EXCEPT !.market = Attached(found, w.risks)] :
        found \in IF w.demo THEN FixtureMarket
                  ELSE {ExploreLive(w.risks, events, pages) :
                            events \in EventLists, pages \in PageLists}}

Normalize(w) == {[w EXCEPT !.rows = NormalizeEvidence(w.risks, w.market)]}

Score(w) == {[w EXCEPT !.scores = ScoreRisks(w.risks, w.rows)]}

Classify(w) == {[w EXCEPT !.lifecycles = ClassifyLifecycles(w.risks, w.rows)]}

Reason(w) ==
    {[w EXCEPT !.insights = Translate(found, w.risks, w.market)] :
        found \in IF w.demo THEN FixtureInsights ELSE ReasonLive(w.risks)}

\* The report, whose text may hold advice of the filing's, the claims and
\* report_v16 are written one after the other.
WriteReport(w) ==
    {[w EXCEPT !.report =
        [made |-> TRUE, top |-> TopRisks(w.risks, w.scores, w.rows), rows |-> w.rows,
         insights |-> w.insights, scored |-> w.scores # <<>>, advice |-> advice]] :
            advice \in {"none", "soft", "hard"}}

WriteClaims(w) ==
    {[v EXCEPT !.claims = RiskClaims(v.report.top, v.rows)
                            \cup HypothesisClaims(v.insights, v.rows)] : v \in WriteReport(w)}

Generate(w) == {[v EXCEPT !.v16 = TRUE] : v \in WriteClaims(w)}

\* Mutant: the verdict itself becomes the status.
StatusOfVerdict(verdict) == verdict

StatusOf(verdict) ==
    CASE verdict = "pass" -> "completed" [] verdict = "needs_review" -> "needs_review"
      [] verdict = "fail" -> "failed"

Evaluate(w) ==
    LET verdict == EvaluateWorkflowState(w.report)
    IN  {[w EXCEPT !.verdict = verdict, !.status = StatusOf(verdict)]}

Returned(step, w) ==
    CASE step = "company_resolver"      -> Resolve(w)
      [] step = "filing_risk_extractor" -> Extract(w)
      [] step = "market_explorer"       -> Explore(w)
      [] step = "evidence_normalizer"   -> Normalize(w)
      [] step = "risk_scorer"           -> Score(w)
      [] step = "lifecycle_classifier"  -> Classify(w)
      [] step = "graph_reasoner"        -> Reason(w)
      [] step = "report_generator"      -> Generate(w)
      [] step = "evaluator"             -> Evaluate(w)

\* What an exception may leave behind.  The evaluator never raises.
Raised(step, w) ==
    CASE step = "company_resolver" -> {[w EXCEPT !.status = "failed"]}
      [] step = "report_generator" -> {w} \cup WriteReport(w) \cup WriteClaims(w)
      [] step = "evaluator"        -> {}
      [] OTHER                     -> {w}

-----------------------------------------------------------------------------
(* The quality gate after a step; weak grounding of a claim is a warning   *)
(* whatever else is found, and a validator that raises is a blocker.       *)

HasBlocker(step, w) == w.gated /\ w.evaluations[step] = "fail"

EvaluateStep(step, w, raising, weak) ==
    [w EXCEPT !.evaluations[step] =
        IF raising \/ Blocked(step, w) THEN "fail"
        ELSE IF Warned(w) \/ (weak /\ w.claims # {}) THEN "needs_review"
        ELSE "pass"]

\* Mutant: a status that is already final survives the gate.
AfterRunningStep(step, w) ==
    IF ~HasBlocker(step, w) \/ w.status # "running" THEN w
    ELSE [w EXCEPT !.status = IF step \in CriticalSteps THEN "failed" ELSE "running"]

AfterStep(step, w) ==
    IF ~HasBlocker(step, w) THEN w
    ELSE [w EXCEPT !.status = IF step \in CriticalSteps THEN "failed" ELSE "running"]

Gate(step, w, raising, weak) ==
    IF w.gated THEN AfterStep(step, EvaluateStep(step, w, raising, weak)) ELSE w

Traced(step, w, status) == [w EXCEPT !.trace[step] = status]

Aggregate(evaluations) ==
    IF "fail" \in Range(evaluations) THEN "fail"
    ELSE IF "needs_review" \in Range(evaluations) THEN "needs_review" ELSE "pass"

\* run_finrisk_workflow_v16 after the graph.
Summarized(w) == [w EXCEPT !.summary = Aggregate(w.evaluations)]

-----------------------------------------------------------------------------

NoRow == [Initial EXCEPT !.status = "none"]

Init ==
    /\ run = NoRow
    /\ row = NoRow
    /\ task = "none"
    /\ next = 1
    /\ faults = 0

\* POST /workflows/finrisk/run: the row, and a task for it.
StartWorkflow ==
    /\ task = "none"
    /\ \E demo \in BOOLEAN : run' = [Initial EXCEPT !.demo = demo]
    /\ row' = run'
    /\ task' = "queued"
    /\ UNCHANGED <<next, faults>>

\* The command line: no row, no gate.
RunFromCommandLine ==
    /\ task = "none"
    /\ \E demo \in BOOLEAN :
        run' = [Initial EXCEPT !.demo = demo, !.gated = FALSE, !.status = "running"]
    /\ task' = "steps"
    /\ UNCHANGED <<row, next, faults>>

\* _run_and_store up to the thread that runs the workflow.
BeginRun ==
    /\ task = "queued"
    /\ row.status # "completed"
    /\ run' = [run EXCEPT !.status = "running"]
    /\ row' = run'
    /\ task' = "steps"
    /\ UNCHANGED <<next, faults>>

TakeStep(step) ==
    /\ run.status # "failed"
    /\ \E raising, weak \in BOOLEAN :
        /\ raising => run.gated /\ faults < MaxFaults
        /\ \E w \in Returned(step, run) : run' = Gate(step, Traced(step, w, "completed"), raising, weak)
        /\ faults' = faults + (IF raising THEN 1 ELSE 0)

StepRaises(step) ==
    /\ run.status # "failed"
    /\ faults < MaxFaults
    /\ \E weak \in BOOLEAN, w \in Raised(step, run) :
        run' = Gate(step, Traced(step, w, "failed"), FALSE, weak)
    /\ faults' = faults + 1

SkipStep(step) ==
    /\ run.status = "failed"
    /\ run' = Traced(step, run, "skipped")
    /\ UNCHANGED faults

Step ==
    /\ task = "steps"
    /\ next \in DOMAIN Steps
    /\ \/ TakeStep(Steps[next])
       \/ StepRaises(Steps[next])
       \/ SkipStep(Steps[next])
    /\ next' = next + 1
    /\ UNCHANGED <<row, task>>

\* The finished state is stored; then comes the optional research snapshot.
FinishRun ==
    /\ task = "steps"
    /\ next = Len(Steps) + 1
    /\ run' = IF run.gated THEN Summarized(run) ELSE run
    /\ row' = IF run.gated THEN run' ELSE row
    /\ task' = IF run.gated THEN "stored" ELSE "ended"
    /\ UNCHANGED <<next, faults>>

\* Mutant: a failing snapshot counts as a failure of the run.
CreateSnapshotOrFail ==
    /\ task = "stored"
    /\ task' = "ended"
    /\ run' \in {run, [run EXCEPT !.status = "failed"]}
    /\ row' = run'
    /\ UNCHANGED <<next, faults>>

\* _maybe_create_research_snapshot: it needs the company and report_v16,
\* may be switched off, and swallows what goes wrong.
CreateResearchSnapshot ==
    /\ task = "stored"
    /\ task' \in IF run.company /\ run.v16 THEN {"snapshot", "ended"} ELSE {"ended"}
    /\ UNCHANGED <<run, row, next, faults>>

\* Mutant: the failure is written to the state and not stored.
FailRunUnstored ==
    /\ task = "queued" \/ (task = "steps" /\ run.gated /\ next = Len(Steps) + 1)
    /\ faults < MaxFaults
    /\ run' = [run EXCEPT !.status = "failed"]
    /\ task' = "ended"
    /\ faults' = faults + 1
    /\ UNCHANGED <<row, next>>

\* An update of the store raises: the state becomes failed and is stored.
FailRun ==
    /\ task = "queued" \/ (task = "steps" /\ run.gated /\ next = Len(Steps) + 1)
    /\ faults < MaxFaults
    /\ run' = [run EXCEPT !.status = "failed"]
    /\ row' = run'
    /\ task' = "ended"
    /\ faults' = faults + 1
    /\ UNCHANGED next

\* The process dies, or the store fails again while the failure is stored.
Crash ==
    /\ task \in {"queued", "steps", "stored"}
    /\ faults < MaxFaults
    /\ task' = "lost"
    /\ faults' = faults + 1
    /\ UNCHANGED <<run, row, next>>

Proceed == BeginRun \/ Step \/ FinishRun \/ CreateResearchSnapshot

Next == StartWorkflow \/ RunFromCommandLine \/ Proceed \/ FailRun \/ Crash

Spec == Init /\ [][Next]_vars

\* A task that runs goes on: the event loop and the thread are fair.
FairSpec == Spec /\ WF_vars(Proceed)
-----------------------------------------------------------------------------
(* Properties *)

Statuses == {"none", "created", "running"} \cup Final

\* The run, its row and the task keep their types.
TypeOK ==
    /\ \A w \in {run, row} :
        /\ DOMAIN w = DOMAIN Initial
        /\ w.status \in Statuses
        /\ w.demo \in BOOLEAN /\ w.gated \in BOOLEAN /\ w.company \in BOOLEAN /\ w.v16 \in BOOLEAN
        /\ w.verdict \in {"none", "pass", "needs_review", "fail"}
        /\ w.trace \in [StepNames -> {"none", "completed", "failed", "skipped"}]
        /\ w.evaluations \in [StepNames -> {"none", "pass", "needs_review", "fail"}]
        /\ w.summary \in {"none", "pass", "needs_review", "fail"}
    /\ task \in {"none", "queued", "steps", "stored", "snapshot", "ended", "lost"}
    /\ next \in 1..(Len(Steps) + 1)
    /\ faults \in 0..MaxFaults

\* A report worth showing: it has top risks, evidence for each, every insight
\* cites rows that exist and, behind the gate, every claim goes from known
\* risks to existing rows.
Backed(w) ==
    /\ w.report.made
    /\ w.report.top # {}
    /\ \A id \in w.report.top : Related(id, w.rows) # {}
    /\ CitesOfReport(w.report) \subseteq RowIds(w.rows)
    /\ w.gated =>
        \A claim \in w.claims :
            /\ claim.cites # {} /\ claim.cites \subseteq RowIds(w.rows)
            /\ claim.risks # {} /\ claim.risks \subseteq Ids(w.risks)

\* Whatever failed on the way, a run that ends as completed or for review has
\* a report that is backed: the last step and its gate see the evidence that
\* the report was written from.
ReportsAreBacked ==
    /\ row.status \in {"completed", "needs_review"} => Backed(row)
    /\ next > Len(Steps) /\ run.status \in {"completed", "needs_review"} => Backed(run)

\* A blocker of a critical step, or a company that cannot be resolved, fails
\* the run for good: nothing but skipped steps follows.  A run is completed
\* only on the verdict "pass" with no critical blocker anywhere.
CriticalBlockersAreFinal ==
    /\ \A i \in DOMAIN Steps :
        \/ Steps[i] \in CriticalSteps /\ run.evaluations[Steps[i]] = "fail"
        \/ i = 1 /\ run.trace[Steps[i]] = "failed"
        => /\ run.status = "failed"
           /\ \A j \in (i + 1)..Len(Steps) : run.trace[Steps[j]] \in {"none", "skipped"}
    /\ row.status = "completed" =>
        /\ row.verdict = "pass"
        /\ \A s \in CriticalSteps : row.evaluations[s] # "fail"

\* A final row of the store is never changed, neither by the research snapshot
\* that follows it nor by the handler of late exceptions.
OutcomeStays == [][row.status \in Final => row' = row]_vars

\* The stored row is a run as a panel that polls it takes it to be.
FinRiskPanel == INSTANCE PolledRuns WITH Polled <- {1}, shown <- [r \in {1} |-> row.status]

\* A run of the API ends unless its process dies, whatever its steps raise.
FinRiskRunsEnd == task = "queued" ~> (row.status \in Final \/ task = "lost")

\* What the project overview says of the non-critical steps: trouble in the
\* market or graph step sends the run to review.
TroubleNeedsReview ==
    row.status = "completed" =>
        \A s \in {"market_explorer", "graph_reasoner"} :
            row.trace[s] # "failed" /\ row.evaluations[s] # "fail"

=============================================================================

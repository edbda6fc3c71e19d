# FinRisk Agent Studio: models, checks and proofs

TLA+ models of the parts of FinRisk Agent Studio whose correctness depends on
order, overlap and failure, the TLC runs that check them on small instances, and
TLAPS proofs of what matters most for every size. Paths below are relative to
the Python package (`src/` of the repository) unless they start with `docs/` or
`tests/`.

* [1 The system](#1-the-system)
* [2 What is modelled](#2-what-is-modelled)
* [3 The runs](#3-the-runs)
* [4 Where code and texts disagree](#4-where-code-and-texts-disagree)
* [5 The proofs](#5-the-proofs)
* [6 What is not modelled](#6-what-is-not-modelled)
* [7 Plan](#7-plan)

## 1 The system

A FastAPI server answers questions about the risks of listed companies. It runs
three kinds of long jobs in the background (FinRisk workflows, planner-driven
agent runs, supply-chain explorations), keeps a research database about
companies over time, and a monitor scans a watchlist for changes. Everything
durable is in SQLite files that several processes may open (server, CLI, timers
of `deploy/`); one server process holds the background tasks in memory.

| part | state it keeps | operations | hard behaviour | what makes it correct |
|---|---|---|---|---|
| **watchlist monitor** `research/monitor.py` | local variables of each scan; one cursor per company | `scan`, `_scan_ticker` | scans overlap (HTTP route, CLI timer), each durable write is its own transaction, providers fail and are retried | no material change is lost or alerted twice; alerts and cursor refer to what is stored |
| orchestrator `research/orchestrator.py` | none | `run` | a component fails alone; cutoff in the past, now, or the end of today | the snapshot says what was known at its cutoff |
| snapshot, change, alert stores `research/*_store.py` | tables with UNIQUE keys | save, list, create, act | look-up and INSERT are two statements | each row once, never overwritten |
| change detection `research/change_detection.py` | none (pure) | `detect_research_changes` | identity of a change | two detections of the same change agree |
| research API `api/research.py` | none | runs, changes, alerts, journal, ... | writes the monitor's tables between its steps | as above |
| **agent graph** `ai/graphs/global_agent.py`, `agents/planner.py` | `AgentRunState` | initialize, plan, execute, finish | a model may propose anything; two budgets; four ways to end | dependencies, budgets, evidence and review items agree |
| **agent run API** `api/agent_runs.py` | run rows, background tasks | start, resume, two review routes | read, work on a copy, write the copy back; tasks die with the process | an answer stands; runs end |
| **deferred approvals** `ai/approvals.py` | approvals, audit log | request, decide, cancel, claim | several processes claim one approval; death in a transaction; expiry | an approval is used once, the log is complete |
| run store `api/run_store.py` | run rows | get, update, list | reads and writes serialized one by one | a run read is a run written |
| FinRisk workflow `ai/graphs/finrisk.py`, `workflows/` | `FinRiskWorkflowState` | nine steps, quality gate | swallowed exceptions, status policy | status says what happened; no report without evidence |
| FinRisk API `api/workflows.py` | run rows, tasks | start, poll | late exceptions, a hook that may fail, tasks die | runs end; a final row stays |
| supply-chain workflow `supply_chain/` | exploration state, Sankey | explore, expand | expansions of one run overlap | no expansion is lost |
| conversation store `ai/message_store.py` | message batches | append, list | replays, two processes | a batch once, a changed replay refused |
| rate limiter `api/rate_limit.py` | hits per key | `check` | window edge | at most the limit in every window |
| migrations `research/database.py` | schema version | migrate, roll back | two processes | each migration once, in order |
| journal, peer groups, post-earnings, valuation `research/` | versioned rows | create, amend | | versions are never replaced |
| memory layer `memory/` | memory items | ingest, promote, compress | token budget | what is used is allowed |
| search router `tools/search_router.py` | cache | search | fallback order, expiry | a stale answer is marked so |
| browser explorer `browser/explorer.py` | visited pages, budget | explore | step budget | the budget holds |
| graph reasoning `graph_reasoning/` | none | retrieve, score paths | bounded search | paths are paths of the graph |
| tool catalogue `tools/catalog.py`, `ai/toolsets.py` | events of a run, browser threads | the tools a model may call | calls of one response run at once; threads outlive their time limit | every call leaves one event; budgets and grants hold |
| data clients `data/` | ticker file, timestamp of the last request, transcript cache | resolve, fetch, list | shared file written without a rename; threads share a throttle; vendors disagree | one identity, spaced requests, the asked period |
| financial facts `research/financial_snapshot.py`, `reconciliation.py` | none | build a snapshot as of a day | restatements, year-to-date quarters | nothing filed later is known |
| evidence candidates `evidence/candidates.py` | candidates of a run | rows of a tool result | cut payloads, duplicates | a candidate quotes its source, an id is one candidate |
| company analysis `pipelines/analyze_company.py`, `agents/` | lists of claims and evidence | load, extract, criticise, write | sources and agents fail one by one | the report cites what its lines are about |
| authentication, entry point, graph store, reports, schemas, UI, scripts | little | network and text | | |

**How they interact.** A run's HTTP handler stores a row and schedules a task;
the task calls a graph in a worker thread and stores the result; the analyst's
handlers read and write the same row. A monitor scan calls the orchestrator,
which calls loaders (data clients); it then writes the snapshot, change, alert
and cursor tables in this order. A finished FinRisk workflow may start a research
run, which writes the snapshot table that the monitor uses as its baseline.
`GET /research/changes` writes the change table as well.

`PROJECT.json` lists every component and, under `hazards`, the places where this
code is hard to test, each with the properties about it.

## 2 What is modelled

`PROJECT.json` maps each definition to its lines. Definitions with *Mutant* in
their comment are plausible bugs of that code; each shows that a property
notices one.

### 2.0 Modules

| module | stands for | state | proofs |
|---|---|---|---|
| `WatchlistMonitor` | the scan of one company, the stores it writes, user runs, change queries, the analyst | four tables, local state of each scan | `WatchlistMonitorProofs` |
| `PolledRuns` | what the frontend's panels take a stored run to be while they poll it; implemented by FinRisk runs and supply-chain runs | the status shown | |
| `GlobalAgentGraph` | planner loop, subgoals, evidence, budgets | the run state | (through `AgentRuns`) |
| `AgentRuns` | that graph behind the API: task, stored row, reviews, death of the process | and the row, reviews in flight | `AgentRunsProofs` |
| `DeferredApprovals` | what a deferred approval promises: the in-memory store | approvals, calls | |
| `ApprovalDatabase` | the SQLite store with transactions and processes; implements the above | rows, log, lock, calls | `ApprovalProofs` |
| `FinRiskSources`, `FinRiskEvidence` | what each step of a FinRisk workflow computes; the gate's findings; the verdict | none (operators) | |
| `FinRiskWorkflow` | the nine steps, the gate, blocker policy, task, row, failure handler, research hook | run, row, task, next step | `WorkflowProofs` |
| `SupplyChainGraph` | what the steps and the Sankey builder do to a graph; merge and repair | none (operators) | `WorkflowProofs` |
| `SupplyChainRuns` | runs and expansions over the store; the GET that repairs | rows, tasks, copies | `WorkflowProofs` |
| `AnalystJournal` | theses, reviews, drafts under crossing requests | two tables, clerks | `StoreProofs` |
| `AnalystRecords` | expectations, CSV imports, surprises, peer groups, valuations | three tables, desks | `StoreProofs` |
| `ResearchChanges`, `ChangeReviews` | the change detector in full; the stored changes, their reviews and the queue | snapshots, changes, reviews | `StoreProofs` |
| `FinancialFacts` | points as of a day, periods, derived quarters, sums, reconciliation | filed facts, the day, a snapshot | `StoreProofs` |
| `ResearchDatabase` | migrations of several releases, backup and restore | schema, processes, lock | `StoreProofs` |
| `ConversationStore` | message batches and the recorders that append them | batches, recorders | `StoreProofs` |
| `RateLimiter` | the sliding window and Retry-After | hits, refusals, the clock | `ServiceProofs` |
| `SearchRouter` | fallback over providers, cache, ranking, page fetches | cache rows, searches | `ServiceProofs` |
| `MemoryLayer` | ingestion, life of an item, packing of a context | items, writers, a pack | `StoreProofs` |
| `ToolCatalogue` | the tools a model calls in rounds, their envelopes and events | calls, events, browser threads | `ServiceProofs` |
| `BrowserSession` | one exploration: addresses, concurrent actions on one page, stops | page, session, tabs | `ServiceProofs` |
| `GraphReasoning` | path search, scores, insights, validation | request, payload | `WorkflowProofs` |
| `EvidenceCandidates` | tool results as candidates | candidates, accepted ids | `ServiceProofs` |
| `CompanySources`, `FilingReading`, `TranscriptSources` | ticker resolution and the throttled client; lists and sections of filings; transcripts of three vendors | ticker file, timestamps, caches | `ServiceProofs` |
| `CompanyAnalysis` | the pipeline of one company with its critic and brief | texts, claims, evidence, brief | `WorkflowProofs` |
| `ServerParts` | the parts of the server that share no state, side by side | all of the above but monitor, agent, approvals | `PartsProofs` |
| `DataOperators` | the loops and comprehensions that several modules share | none (operators) | `DataInduction` |

`MCWatchlistMonitor`, `MCAgentRuns`, `MCFinRisk`, `MCSupplyChain` and
`MCServerParts` give the constants small values.

A loop or comprehension of the code is a set of indices, a function on them, or a
recursive function on `0..n`; `DataOperators` has the four that recur: the elements
with some property, in order (`Selected`), lists one after the other (`Chained`),
a sum over a set (`Total`) and the best n of a set (`Ranked`).

### 2.1 Watchlist monitor

A scan is a process whose program counter stops before every statement that
reads or writes a table: `ReadBaseline`, `RunOrchestrator` (the retry loop),
`CompareUnchanged`/`CompareChanged`, `SelectSnapshot` and `InsertSnapshot` (the
two statements of `save_snapshot`), `SaveChangeSet`, `SelectAlert` and
`InsertAlert` (`create_for_change`), `SaveCursor`. `Abort` is an exception or
the death of the process between any two of them. Companies share no rows, so
one stands for each.

* A provider's answers are a function of time (`history`), chosen at the start.
  A component says one fact at a time, with the date of its filing or none. The
  code compares many metrics, signals and risks one by one; a fact stands for one.
* The fingerprint is the record of what is hashed. It keeps two quirks of the
  code: a risk loader that failed and an empty risk list look the same, and the
  source of risks carries the cutoff instead of a date of its own, as any source
  does that has none (`SourceDate`).
* `Instant` and `Observe` keep the difference between the cutoff of a run and
  the time at which it asks: a run dated to the end of today sees today. Only the
  loader of financials is given the cutoff; what management said and the risks of
  a linked run are those of the moment.
* A change is identified as in `_change`: component, value before and after,
  and the evidence, which for risks has no date.
* Rows of `research_runs` are left out: one GET returns them and nothing else
  reads them. The spacing of requests (`_wait_for_slot`) only delays. Conflicts
  between two sources (`fact_key`), and the many metrics and signals that one
  fact stands for here, are in `ResearchChanges`.

### 2.2 Agent runs

`GlobalAgentGraph` has an action for each way through each node. Subgoals,
candidates and review items are sequences, and an id is a position. A model may
attach new subgoals to a decision (`Proposals`): with dependencies on others, on
ids nobody knows, or claiming to be complete. What a subgoal's tools yield is a
nonempty sequence of verdicts (`Outcomes`); `EvidenceCandidates` computes
verdicts from payloads. `StopOnTime` needs no clock: whether the time
is over is free after the first subgoal, as in the code.

`AgentRuns` puts the API around it: the row is stored as queued, the task marks
it running, the graph works on a state of its own and replaces the row at the
end. A review reads the row in one step and writes its whole copy in another,
which is what the SQLite store does (get and update take the lock one after the
other). `Crash` loses the task and the handlers.

### 2.3 Deferred approvals

`DeferredApprovals` is the in-memory class, one atomic action per call. The
clock is explicit, and expiry happens only when somebody calls.
`ApprovalDatabase` has the SQLite class: `BeginCurrent` takes the write lock
(BEGIN IMMEDIATE) and reads the row; the second step commits row and audit entry
and returns, or refuses. `PrepareRequest` draws a new id and dates the expiry before
the file is locked, and `RequestTimesOut` is the ten-second limit. `Crash` rolls
back. The refinement mapping is `items <- rows`. The promise does not
include the audit log, as the two classes log different entries for a claim that
comes too late (in memory: expired and then execution_rejected). The expiry is
looked at in the step that commits: the clock's unit is long next to the
statements between the two. The durable store's copies in memory are not read by
any of its calls and are left out.

### 2.4 FinRisk workflow

A run is one record with risks, evidence rows, claims, edges, insights, verdict, trace
and evaluations. `Proceed` is one step of the task: `RunNode` takes the next
of the nine steps, with every outcome that its data sources allow, evaluates the
gate and applies the blocker policy; a step may raise, and the exception is
swallowed or fails the run as `_base.py` says. `FailRun` is the handler of the
task (also after the final row is stored, when the research hook raises), and
`Crash` loses the task. The data is what the steps tell apart: a
risk is an id with a severity and whether it has a quote, evidence an id with its
claims. The pre-step evaluations of the gate are computed and thrown away by
the code and are left out. Only the SQLite store is modelled: the in-memory
store hands out the object that the task works on. A run ends by `WF(Proceed)`.

### 2.5 Supply chain

`SupplyChainGraph` has what each step adds to a graph of nodes, links and evidence.
A node id is a type and a slug, a link is known by its ends and a suffix; of
several rows of one id the first is added (`AddNodes`, `AddLinks`). Discovery first
collects what searches and the model tell (`Relation`), then adds it, since what
one requirement is told is no matter of another. `BuildSankey` is the projection:
nodes whose labels mean the same become one (`MergedNode`), links are rewritten
to them, hypotheses that close a cycle are dropped (`KeptLinks`), and the products
of expansions are hung below the node they explain (`Rehung`). `ValidSankey` is the
model's validators and `MergeExpansion` the union with the parent.

In `SupplyChainRuns` a task of an expansion reads the parent in `BeginExpansion`
and writes its old copy of it in `MergeIntoParent`; `ReadSankey` and
`WriteRepaired` are the GET that repairs a payload, also two steps. Its assumptions
say what the inputs are: the bundled rows cite their own evidence and lead from
products to companies without a way back (`FixtureAssumption`, which the graph
of `fixtures.py` satisfies: 17 links, none of which leads to a product or from a
company, no cycle, depth 3); a product decomposes into neither a product nor a company;
suppliers are companies. A node keeps its label when it is merged
(`_canonical_display_label`), so `LabelAssumption` takes the key of a key to be
itself.

### 2.6 Stores of the research database

* `AnalystJournal`: a clerk is a request; every read and write of a thesis or
  draft is a step (`ReadThesis`, `EditThesis`, `BeginReview`, `AddReview`, ...,
  `ReadForConfirm`, `ReviewOfConfirm`, `MarkConfirmed`). The history variables
  `overwritten` and `confirmedAgain` name the theses and drafts whose requests
  crossed; `JournalHolds` claims nothing of those.
* `AnalystRecords`: `SavePoint` is shared by a POST and by each row of an import,
  which keeps what it saved before a bad row.
* `ResearchDatabase`: `OpenDatabase` reads the version before `LockDatabase` takes
  the write lock. `RestoreDatabase` has the precondition that no process is
  between these two, which the code leaves to the operator.
* `ConversationStore`: look-up and INSERT of an append are two steps.
* `ChangeReviews`: the queue reads snapshots, saves changes and reads reviews in
  three steps, between which snapshots and reviews come in.

### 2.7 Tools, data and text

* `ToolCatalogue`: `ModelCalls` starts the calls of one response at once; each
  ends as an envelope (`CallAnswers`), an error (`CallFails`), or, for the
  browser, at its time limit with a thread that goes on (`BrowserTimesOut`,
  `BrowserThreadEnds`).
* `BrowserSession`: actions of one response interleave on the one page between
  their awaits (`StartAction`, `Act`, `Settle`, `LookAtPage`, `Record`).
  A navigation that raises may leave the page it was on (`Interrupted`).
* `CompanySources`: the ticker file is truncated and then written, so a
  second resolver may read it torn; the callers of the SEC client share one
  timestamp. `FilingReading` and `TranscriptSources` abstract a line or a turn to
  what the parsers look for in it.
* `SearchRouter`, `RateLimiter`: time is a counter; expiry and the window's edge
  are compared as the code compares them (`<` or `<=`).
* `FinancialFacts` has facts without a filing day (`Undated`): they are in the
  snapshot of every day, and give way to any dated fact of their period.
* `MemoryLayer`: a source is what the adapters are handed, with the status its
  caller asks for; an item does not keep who extracted it, because no adapter does.
* `FinancialFacts`, `GraphReasoning`, `EvidenceCandidates`, `CompanyAnalysis`,
  `ResearchChanges`: decimals are small integers, scores are hundredths, a
  text is what the code reads in it.

## 3 The runs

| run | instance | properties | distinct states |
|---|---|---|---|
| `MonitorSequential` | one scan at a time; every course of one restated filing over 5 instants, and one beside an undated transcript; providers that fail, one retry, a component without loader, dry runs of now and of a past day | `NoLostChange`, `ScansReturn` | 415,697 |
| `MonitorConcurrent` | two scans that may fail anywhere, providers that fail, user runs with risks linked to a workflow or not, change queries, an analyst; three histories: a filing and then a risk, a risk that goes and comes back, an undated restatement taken back | `TypeOK`, `ChangesExplained`, `ChangesFollowHistory`, `AlertsBacked`, `ScansConsistent`, `OneAlertPerChange`, `CursorHolds`, `DecisionsStand`, `ScansGetNearer` | 234,865 |
| `AgentRunLifecycle` | a model as planner, plan of 2 subgoals, budgets 3 and 4, one analyst, crashes | `TypeOK`, `DependenciesMet`, `EvidenceAccounted`, `BudgetRespected`, `WaitsForReview`, `ReviewsRefer`, `AnswersStand`, `LoopWindsDown`, `RunsEnd` | 794,660 |
| `ApprovalsDurable` | 2 approvals, 2 processes, TTLs 1 and 2, horizon 2, log of 5 | `TypeOK`, `ReadsAreCurrent`, `SingleUse`, `AuditTellsStatus`, `EndIsFinal`, `KeepsPromise`, `CallsReturn` | 102,699 |
| `ServerParts` | every other part, one part moving in each behaviour | 13, below | 439,997 |
| `MonitorStale`, `MonitorOverlap`, `MonitorBackwards`, `AgentReviewsOverlap`, `AgentReviewSkipped`, `FinRiskTrouble`, `SupplyChainOverlap` | section 4 | one each | violated |

**What they show.** Overlapping scans keep the four tables consistent: whatever
fails, an alert has its change, a change its two snapshots, the cursor its
snapshot, and a change is alerted once; the cursor moves only when all that the
scan found is stored and alerted (`CursorHolds`), so a scan that dies before
leaves the cursor where it was; and no scan can turn in a loop (`ScansGetNearer`). With one scan at a time that
is not cut short, no material change between two successive stored snapshots goes without its alert,
whatever providers fail. A run of the agent executes no subgoal before its
dependencies, comes with every node nearer to its end (`LoopWindsDown`), respects its budgets, waits for a review exactly while an item
is pending, keeps what an analyst answered, and ends unless the server dies. An
approval is used once, its log is complete, and the SQLite class implements the
in-memory one.

**`ServerParts`.** Its parts read and write nothing of each other, so any
interleaving of them is, for each part, a behaviour of that part with stutters;
one moving part at a time loses nothing, and the state count is a sum instead of a
product. Parts that do share state are composed below it. Its properties:

| property | of | says |
|---|---|---|
| `PartsTypeOK` | all | every part keeps its variables in their domains |
| `ReportsHold` | FinRisk, company analysis | `ReportsAreBacked`: a run that ends as completed or for review shows risks, claims and insights that cite evidence of its own, whatever failed on the way; `ReportAssertsEvidence`: every line of a brief has references, all to sources it is about |
| `CriticalBlockersAreFinal` | FinRisk | a blocker of a critical step fails the run for good; completed needs the verdict pass |
| `RunsArePolled` | FinRisk, supply chain | `OutcomeStays`: neither the research hook nor a late exception changes a final row; and both kinds of stored runs implement `PolledRuns`, what a panel that polls them takes them to be: waiting, running, and decided once for good |
| `FinRiskRunsEnd` | FinRisk | a run ends unless its process dies |
| `ChainsHold` | supply chain | `ChainsAreSound`: the payload the store serves is valid, its confirmed links are backed, and a repair settles it, also after stale merges; `EndedIsDecided`: a task that ended leaves a decided run, as its payload could be built |
| `StoresHold` | research database | `SchemaIsWhole`, `AppendsAreIdempotent`, `JournalHolds`, `RecordsStay`, `ReviewsHold` |
| `SnapshotIsPointInTime` | financial facts | a snapshot uses nothing with a filing day after its own, through every derived point and change, and is the same when it is built later, unless an undated fact came since; such facts are in every snapshot, and never take the place of a dated one |
| `SnapshotAddsUp` | financial facts | its quarters and sums agree with what they were made of |
| `DataHolds` | data clients | an anchored identity, spaced requests; sections and lists within their bounds; the period asked for and consistent turns |
| `ExpiryHolds` | limiter, search | no burst across a window's edge and a sufficient Retry-After; every search answers for its own request |
| `AgentToolsHold` | tools, browser | no step leaves a call without its event, a budget exceeded, or a stopped session moving |
| `KnowledgeHolds` | memory, reasoning, candidates | contexts fit their budget, no hypothesis and nothing of the web or the news is active, whatever status was asked for; paths are paths and insights cite; candidates quote what a tool returned |

**Bounds and why they are enough.** `MaxTime` caps the monitor's clock: it must
leave room for a baseline, a change and a scan after it, which takes 3 instants; the
runs have 3 or more. `MonitorSequential` has 4, for a baseline, a scan in which a
component fails, and a scan after it, with a retry on the way: a run whose every
provider fails is tried again once and then given up. Two scanners are all that the stores can tell apart, as every
conflict is between two statements on one key. Two subgoals planned and up to two
proposed reach each kind of dependency, and budgets of 3 and 4 are
reached before, with, and after the last subgoal. The outcomes contain every
verdict alone and in mixed order. In `ApprovalsDurable` two approvals show that
calls about different ones share the lock; horizon 2 with TTLs 1 and 2 has
requests that expire before, between and after calls; `MaxAudit` 5 lets one
approval go through request, decision, use and two replays, or two interleave.
In `ServerParts` every store has two requests, processes or readers, as conflicts
are between two of them; FinRisk has two faults (`MaxFaults`), so that one may hide another,
and fixtures with none, one, duplicated and more than five risks (five is the
report's limit); two supply-chain runs are one and its expansion; the limiter
has a window of 5 ticks with 2 ticks a second, so that a window ends inside a second,
and `MaxTicks` 12 gives two windows; two tool rounds and two calls reach the
budget in one round and over two; four browser steps reach the step limit and
the checkpoint; the three releases of `ResearchDatabase` share a first migration
and then differ; the filed facts of `FinancialFacts` hold one amended, one framed and
one derived quarter under each policy, and one without a day; the tool results of `EvidenceCandidates` are
whole and cut, with texts that begin alike. Every other bound of a configuration
is named in its module and guards one counter.
The symmetry of `MonitorConcurrent` permutes the scanners, of which no property
or constant names one; the run has no liveness property.

**Deadlock.** Every configuration says `CHECK_DEADLOCK FALSE`: when the clock or
the log has reached its bound and nobody is in a call, or a run has ended, an
instance has nothing left to do. That no call hangs is what `ScansReturn`,
`RunsEnd`, `CallsReturn` and `FinRiskRunsEnd` say.

**Fairness.** `WF(ScanStep(s))`: a scan is straight-line code in a thread of a
pool. `WF(TaskStep)` and `WF(Proceed)`: the event loop runs a task that can run
while the process lives. `WF(Serve(p))`: a call that has begun is synchronous
code. Nothing is assumed of users, analysts, providers, crashes or the clock. For
a request that waits for the file, weak fairness suffices because both its ends,
commit and time-out, are in `Serve`.

## 4 Where code and texts disagree

Seven runs check one property each that a text of the repository states, and TLC
finds it violated by what the code does. `PROJECT.json` quotes the texts.

* `MonitorStale` / `StaleCrossingRecorded`: a source that only ages does not
  change the fingerprint, so the scan returns before detection
  (`research/monitor.py:140`; `docs/guides/research-cycle.md:126`).
* `MonitorOverlap` / `RepeatScanAddsNoSnapshot`: two scans with one baseline
  both store the same sources (`research/monitor.py:116`;
  `docs/guides/research-cycle.md:130`).
* `MonitorBackwards` / `ChangesFollowHistory`: a snapshot dated to the end of
  today is newer, by its date, than one that is taken later today, and the change
  between them is stored backwards (`research/orchestrator.py:237`).
* `AgentReviewsOverlap` / `ApprovalsStand`: of two reviews in flight the one
  written first is lost (`api/agent_runs.py:296`).
* `AgentReviewSkipped` / `ReviewItemWritten`: the tool budget is looked at before
  the review item is written (`ai/graphs/global_agent.py:239`).
* `FinRiskTrouble` / `TroubleNeedsReview`: a market or graph step that raises or is
  blocked leaves no mark on the status, and the run may end as completed
  (`ai/graphs/finrisk.py:116`; `workflows/finrisk_workflow.py:57`).
* `SupplyChainOverlap` / `ExpansionsKeepEvidence`: of two expansions of one run that
  overlap the first one's links and evidence are gone
  (`supply_chain/workflow.py:365` against `:168`).

`ChangesFollowHistory` holds in `MonitorConcurrent`, where every run takes the
present as its cutoff, and fails in `MonitorBackwards`, where a user asks for the
end of an unfinished day. `ChangesHaveDirection` (section 5) proves that this
is the condition.

The models keep what follows as it is in the code; no property is about it, or
one has an exception for it:

* A review of a thesis is a read and a write of the whole thesis, and confirming a
  draft is two transactions: crossing requests overwrite each other
  (`research/journal.py`; `overwritten`, `confirmedAgain`).
* A component that failed to load is not in the snapshot, which is the next baseline
  all the same: a change of that component across the two scans is compared with
  nothing and never reported (`research/orchestrator.py:112`). `NoLostChange` speaks
  of successive snapshots that both have the component.
* A fact without a filing day enters the snapshot of every day
  (`research/financial_snapshot.py:116`; `data/xbrl.py:141` gives none to a fact whose
  day is missing or malformed), while `docs/specs/v0.1.md:92` and
  `docs/validation/financial-reconciliation.md:38` keep later filings out of an
  `as_of`. Whether that fact was filed later nobody can tell.
* Items extracted by a model are to be candidates
  (`docs/archive/tutorials/09-production.md:101`), but the guardrail asks for a key of
  the provenance (`evaluation/memory_guardrails.py:27`) that no adapter writes
  (`memory/adapters.py:40-48`, `76-82`, `112-121`), so a confirmed edge made by a model
  is active; `GraphMemoryGuardrails` is called by tests only.
* A change id is a digest of the content, so a change that recurs shows
  the review it had the first time (`research/change_store.py`).
* The top risks of a report are looked for among the ids of evidence rows, which
  never match: every gated report has a warning (`evaluation/evidence_validator.py:103`).
* The version of the schema is read before the write lock (`research/database.py:201`).
* The critic filters a copy of the claims, the report is written from the
  unfiltered ones (`pipelines/analyze_company.py:640-662`); an uncited claim
  makes a hypothesis that cites the first evidence there is (`:396-419`); the
  stand-in corpus accepts another company's filing (`:286-297`).
* An Item 1A that mentions forward-looking statements is dropped whole
  (`data/sec_sections.py:160-172`); a list with limit 0 has one filing
  (`data/filing_fetcher.py:163`).
* The ticker file and the transcript cache are written in place; a reader may
  find them torn (`data/ticker_resolver.py:165-183`), and an `OSError` of the cache
  loses a transcript that had arrived.
* Calls answer "success" with an error inside (`tools/catalog.py:125`), the total of
  result characters is counted and not enforced (`ai/runtime_adapter.py:111`),
  and a browser call that times out leaves its thread at work
  (`tools/catalog.py:1272`).
* An empty metrics lookup is accepted as evidence with the text `{}`
  (`evidence/candidates.py:375-387`), and the rejection for quality under 0.5 cannot
  be reached.

## 5 The proofs

All of them are of the specification as TLC runs it, from the modules' own named
assumptions on their constants, which TLC evaluates in the runs. They say what
shape the constants have, or what the code's inputs are (section 2.5 has those of
the supply chain). Of the 40 properties that passing runs check, all but the four
liveness properties named at the end of this section are stated by a theorem.

**`WatchlistMonitorProofs`.** `IInv` is the type invariant with
`ScansConsistent`, `ChangesExplained`, `AlertsBacked`, `OneAlertPerChange` and
`CursorOnStoredSnapshot`. None of the last four is inductive by itself: a row
is right when it is written because of what the scan carries, so
`ScansConsistent` relates each scan's local state to the tables at each step;
and that relation survives the steps of others because tables only grow (`ConsistentMonotone`).
`DecisionsAreFinal` is the action property `DecisionsStand`. `CursorComesLast` adds
`Reporting`: from the comparison on, what a scan has detected is what its two
snapshots differ in, and all of it is in the change table, or alerted, or still in
the scan's hands. `ScansWindDown` is the variant behind `ScansReturn`: a scan
goes through its stages in one direction, and within a stage its attempts left or
its alerts to insert get fewer.

The second half of the module goes on from `IInv` under conditions on the instance,
which are hypotheses of its theorems.
`ChangesHaveDirection`: if every request that stores something takes the present as
its cutoff (`PresentCutoffs`; a dry scan may ask for any day), every snapshot, stored or carried by a scan, says of its instant what
the world was (`Presents`), so a change between two of them has the world's
direction, whatever overlaps or fails. `NoChangeIsLost`: if besides there is one
scanner that is not cut short and no run of a user (`OneScanner`), `NoLostChange`
holds, whatever providers fail and however often a run is tried again. Its invariant `Owed` has three parts: snapshots form one line of time (`Timeline`); the baseline of the scan is the newest snapshot but
its own, and what it has found is alerted, pending or being inserted (`Carries`);
and of every other pair of neighbours all material changes are alerted
(`PairsDone`). An inserted snapshot makes exactly one new pair of neighbours, which is
that of the scan (`OwedInsert`). `MonitorOverlap` and `MonitorBackwards` show what
happens without the hypotheses. TLC only: `ScansReturn`.

**`AgentRunsProofs`.** `GraphInv` has the graph's properties with the facts they
rest on: counters and node agree, the active subgoal is running and has no
candidates, items refer to candidates, and a run that needs review has exactly
one pending item. `RunInv` adds that the stored row and every copy a reviewer
holds is well-formed (`RowOK`, `ReviewOK`), and that before the graph's result is
stored the row is blank, which is why replacing it loses no answer.
`LoopAlwaysEnds` is the variant behind `RunsEnd`: `NodesLeft` bounds the
nodes to come by the budget of subgoals, whatever subgoals the planner adds, and each
node takes at least one off it. `AnswersStandAlone` proves `AnswersStand` under the hypothesis of at most one reviewer, as
section 4 shows it needs. TLC only: `RunsEnd`.

**`ApprovalProofs`.** `Inv` adds to the checked invariants that a request in
flight is alone with its id and carries a new row (`RequestsFresh`) and that an
executed entry has that status (`ExecutionsNamed`). `CommitKeeps` is the heart:
one committed transaction keeps `Inv`, whichever call made it, if it does not
change the status of an approval that has ended; every action is an instance.
`SingleUse` then follows from `EndIsFinal`: an execution ends the approval and
only refusals come after. `PromiseKept` is the refinement: each action maps
to an action of `DeferredApprovals` or to a stutter. TLC only: `CallsReturn`.

**`WorkflowProofs`**, FinRisk. `Inv` says of the run, before step n, that it is `Good`: `Shape`
(its fields and their values), `Untouched` (the steps from n on have left
nothing), `ReportFits` and `Decided` (a report is shown only after the ninth step
and when it is backed), `Stopped` (after a critical blocker the run is failed and
later steps are skipped). `RowFollows` ties the stored row to the phase of the task
and `RowHolds` says of the row what the properties ask. Each step has a lemma that its operator takes `Good` before it
to `Good` after it; `GateKeeps` has the blocker policy. `ReportsAlwaysBacked`,
`CriticalBlockersStayFinal` and the action property `OutcomesStay` follow, and with them the refinement `FinRiskRunsPolled`
(a step of the task takes the stored row at most one stage on: `RowAdvances`). The proof
is for any fixture, filing list, event list and number of faults. TLC only:
`FinRiskRunsEnd`.

**`WorkflowProofs`**, graph reasoning and company analysis. `ReasoningSound`: what
the breadth-first search collects after n rounds is a `Way` of at most n edges that
never meets a node twice, an insight of a way cites evidence the run has, and
validation only flags. `ReportSound`: whatever texts,
claims and events the earlier steps collected (`AnalysisInv`: lists, and no brief
yet), the last step makes a sound brief of them (`BriefIsSound`): a line has
references, all to sources its claim cites, a source is listed once, and a claim
without evidence is in no line but among the unsupported.

**`WorkflowProofs`**, supply chain. Two properties need one idea. `Rank` orders
node ids: products lowest, then what explains them (a bundled node by its level in
the bundled graph), companies highest; merging labels keeps it (`RankIs`). Every step
adds only links that climb (`IsWork`: `LiveStep`, `DemoStep`), so none is on a cycle,
no hypothesis is dropped (`AllKept`), and the payload of every graph the steps make
passes its validator (`PayloadBuilt`, `PayloadValid`). Hence the evaluator always has
a payload to judge (`EndedAlwaysDecided`), the union of two payloads is one again,
however stale the parent's copy (`MergedSound`, `NoMergeIsRefused`: the handler of
a merge that raises is never reached), and building a payload anew only
rehangs product roots, which a second repair leaves alone (`RepairedPayload`,
`ChainsAlwaysSound`). `ChainInv` carries this through the store: only ended tasks leave a
payload; a copy of a parent, a child about to be stored and a repair under way are
of runs with one; `Served`, the runs with a payload, only grows. The result depends on
`FixtureAssumption` and on suppliers being companies; it says nothing of lost
evidence.

`ExpansionsAloneKeep` does: `ExpansionsKeepEvidence`, which `SupplyChainOverlap` shows
violated, holds in every behaviour in which the tasks and requests that will write
one run back do not overlap (`OneAtATime`), whatever fails and is repaired. Then what is
to be written back was made from the payload that is still stored (`CopiesCurrent`),
and a merge and a repair only add to that. So the overlap alone loses evidence.

`ChainRunsPolled` is the refinement of `PolledRuns`, and needs no such hypothesis: however stale
a copy is in its payload, it is not in its status, because a parent is expanded and
repaired when it has been decided (`StatusesCurrent`), and a run at work shows
that it is (`AtWork`). Agent runs are not in this refinement: a review may change
a final status, on purpose; that no answer is undone is `AnswersStand`.

**`StoreProofs`**, for any processes, requests and rows. `AppendsAreIdempotent` is
inductive with its types, as batches are only added. `SchemaIsWhole` needs that a
version read before the lock is at most the one committed, so that a migration
without a row is the next one (`MigrationExtends`); the step of `RestoreDatabase`
shows why its precondition is needed. `RecordsStay` needs that an id has one row.
`JournalInv`: a row is written from a copy with at least its reviews, or the thesis
counts as overwritten; so it says what each request carries between two
statements (`ClerkOK`) and that reviews have ids of their own (`IdsApart`).
`ReviewInv`: what a queue under construction holds of a company is right unless
the company was touched since (`RequestOK`); the change detector reports a way back
as the opposite of the way there. `MemoryInv`: no two rows have one id or hash, and
no hypothesis and nothing of the web or the news is active; a packed context fits its budget at every item.
`FinancialInv`: every point is made of facts that have no day or one up to the
snapshot's (`MadeOf`, `Earlier`), which each derivation, sum and restatement policy
keeps. Facts filed later change nothing of it, so the snapshot comes out the same
when it is rebuilt. An undated fact that comes later may add points; it displaces
no dated one, since it loses to every day under each policy.

`SnapshotsAddUp`: if the periods of the filings are those of a company that reports by
calendar months, quarters and years to date within years that begin in one month
(`RegularFilings`, which the filings of the run satisfy), then a snapshot adds up, for any
facts, days, amendments and policies. Every derived quarter lies on the same grid of months
as the reported ones, so a series has one point for each end; a window of four
successive ends is then four quarters in a row, and derived ones telescope
to the total of their year (`SumIs`). Without the hypothesis
it is not so: the builder pairs periods by their ends. `TtmIsTheYear` excludes windows
that mix filed and derived quarters, which may disagree, and expenditures of both signs.

**`ServiceProofs`**, whatever the services answer. `LimiterInv`: the stored hits are the
end of what was admitted (`Suffix`), so no window has more than the limit, and a
refusal's Retry-After is that of the oldest hit, rounded up. `SearchInv`: a cached
row answers the key it is stored under. `SourcesInv`: the rows of the ticker file are right
wherever a process stopped while it wrote them, and the attempts of a request lie an
interval apart whatever other callers do to the shared timestamp (`Spaced`).
`ReadingSound` and `TranscriptInv`: what a parser returns lies within its item, and
a file or answer is of its key. `SessionInv`:
every action at work has a step of its own that no finding uses yet (`StepsCover`),
what is summed up was visited, and the initial addresses come first. `ToolInv`: as
many events as calls that are done, in whatever order calls and late threads end. `CandidatesInv`: every row is one of its
batch of results.

**`PartsProofs`.** Each behaviour of `ServerParts` is one of every part, with
stutters (`PartsRun...`), so the theorems above carry over to the composites it
checks, among them the type invariant of all parts (`PartsTypeCorrect`) and the
refinement of `PolledRuns` by both kinds of runs (`RunsAlwaysPolled`).

**`DataInduction`.** The library's induction principles take a predicate, which the
provers here cannot instantiate. `Induction` takes a set instead: a set of naturals
that holds 0, and with each number below n the next one, holds all up to n. From it
come `Recursion` (a recursive function exists and stays in a set) and facts about
each of `DataOperators`, which serve every loop of the models. Two habits of the
models follow from the provers: a loop that a proof looks into is written with
these operators and not with `SelectSeq`, `SortSeq` or a fold, whose definitions take
operators; and arms of a CASE exclude each other, since their order has no meaning.

**TLC only.** `ScansReturn`, `RunsEnd`, `CallsReturn` and `FinRiskRunsEnd` are liveness
under fairness, out of the prover's reach; of the first two the variants are proved.
No invariant and no action property of a passing run is only model-checked. The
seven violated properties are false; of `ExpansionsKeepEvidence` and
`ChangesFollowHistory` the proofs above give a condition under which they hold.

## 6 What is not modelled

`PROJECT.json` gives the reason for each component. In short:

* Authentication, the application's entry point, the persistence factories, the
  security helpers: no state, or wiring.
* The graph database (`graph/`), pydantic-ai, the browser, HTTP and the vendors'
  formats: external; they enter as what they may answer.
* The arithmetic of valuations, the peer comparison and risk impact, which only
  arrange what they are given; signals read from a transcript by keywords;
  prompts, wording and layout; reports; record shapes (`schemas/`), translated
  where a modelled component uses them.
* `save_run` and the run manifests, which nothing but one GET reads; the
  watchlist, one upsert; guidance ranges, which no code fills.
* `pipelines/generate_report.py`, offline evaluation, scripts, deployment; of the
  UI all but what its panels take a run to be (`PolledRuns`).
* The in-memory run stores hand out the task's own object. Handlers and tasks
  then share state by reference, without a step between read and write, and the
  models with the SQLite store are the interesting ones.

## 7 Plan

What is left, in the order of importance:

1. One abstract store for the parts that read a row, work on a copy and write the copy
   back (agent reviews, expansions, theses). Each has its theorem with its condition
   (`AnswersStandAlone`, `ExpansionsAloneKeep`, `JournalHolds` with `overwritten`); the
   abstract specification would say once what they have in common.
2. The monitor and `ChangeReviews` over one change table.
3. FinRisk and agent runs over the in-memory store with shared objects.
4. Snapshots of companies with 52-week years, whose periods `RegularFilings` excludes.

--------------------------- MODULE ToolCatalogue ---------------------------
(***************************************************************************)
(* The project tools a language model may call (tools/catalog.py,          *)
(* tools/contracts.py), the permissions of a run (ai/deps.py), the typed   *)
(* wrappers that audit every call (ai/toolsets.py) and the run around them *)
(* (ai/runtime_adapter.py).                                                *)
(*                                                                         *)
(* The calls of one response of the model run at once, each in a thread of *)
(* its own; an event is appended when a call returns.  What a tool says is *)
(* [error, about, rows]: the complaint inside the answer, the company or   *)
(* document it is about, and what was found.                               *)
(***************************************************************************)
EXTENDS Integers, FiniteSets, DataOperators

CONSTANTS
    ToolCalls,          \* ids of the calls a model can make in a run
    ToolRequests,       \* what a call asks: [tool, ticker, ...]
    Grants,             \* permissions: [scopes, interactive, write]
    ToolScopes,         \* scopes a catalogue is built for
    Registry,           \* ticker -> [cik, filings, calls, metrics, facts, former]
    GraphNodes, GraphEdges,     \* the fixture graph; an edge is <<from, to, type>>
    GraphSources,       \* how the graph is configured: "backend", "fixture", "unavailable"
    MaxToolRounds,      \* request_limit - 1
    MaxTotalToolCalls   \* tool_calls_limit

ASSUME ToolAssumption ==
    /\ IsFiniteSet(ToolCalls) /\ MaxToolRounds \in Nat /\ MaxTotalToolCalls \in Nat
    /\ \A ticker \in DOMAIN Registry :
           LET filings == Registry[ticker].filings IN filings \in Seq({filings[i] : i \in DOMAIN filings})

VARIABLES
    toolRun,        \* [phase, grant, scope, round, graph] of the run
    toolCalls,      \* call id -> [state, request, envelope]
    toolEvents,     \* deps.services.tool_events
    browsing        \* calls whose browser thread is still at work

toolVars == <<toolRun, toolCalls, toolEvents, browsing>>

-----------------------------------------------------------------------------
(* The catalogue *)

ReadScopes == {"default", "company_research", "finrisk_market", "supply_chain"}

ProjectTool(scopes, risk, kind, limit) ==
    [scopes |-> scopes, risk |-> risk, evidence |-> kind, limit |-> limit]

\* Limits in thousands of characters.
ProjectTools == [
    web_search |-> ProjectTool(ReadScopes, "read_only", "web", 12),
    web_fetch |-> ProjectTool(ReadScopes, "read_only", "web", 12),
    search_and_fetch |-> ProjectTool(ReadScopes, "read_only", "web", 18),
    sec_list_filings |-> ProjectTool({"company_research", "finrisk_filing"}, "read_only", "filing", 12),
    sec_fetch_filing |->
        ProjectTool({"company_research", "finrisk_filing", "supply_chain"}, "read_only", "filing", 24),
    transcript_lookup |->
        ProjectTool({"company_research", "transcript_analysis", "supply_chain", "finrisk_market"},
                    "read_only", "transcript", 20),
    management_snapshot_lookup |->
        ProjectTool({"company_research", "transcript_analysis", "finrisk_market"}, "read_only", "transcript", 24),
    financial_metrics_lookup |->
        ProjectTool({"company_research", "supply_chain", "finrisk_market"}, "read_only", "financial_metric", 12),
    xbrl_fact_lookup |-> ProjectTool({"company_research", "finrisk_filing"}, "read_only", "financial_metric", 12),
    financial_snapshot_lookup |->
        ProjectTool({"company_research", "finrisk_filing"}, "read_only", "financial_metric", 24),
    graph_query |->
        ProjectTool({"company_research", "finrisk_market", "supply_chain"}, "read_only", "graph_path", 12),
    graph_path_search |->
        ProjectTool({"company_research", "finrisk_market", "supply_chain"}, "read_only", "graph_path", 12),
    browser_explore |-> ProjectTool({"company_research", "finrisk_market"}, "interactive", "browser", 18)]

ToolNames == DOMAIN ProjectTools

ForScope(scope) == {name \in ToolNames : scope \in ProjectTools[name].scopes}

\* Mutant: the risk of a tool is not looked at.
AllowsByScope(grant, tool) == grant.scopes \cap tool.scopes # {}

\* AgentPermissions.allows
Allows(grant, tool) ==
    /\ grant.scopes \cap tool.scopes # {}
    /\ tool.risk = "interactive" => grant.interactive
    /\ tool.risk = "write_gated" => grant.write

VisibleTools(grant, scope) == {name \in ForScope(scope) : Allows(grant, ProjectTools[name])}

-----------------------------------------------------------------------------
(* What the tools answer *)

Clamp(value, least, most) == IF value < least THEN least ELSE IF value > most THEN most ELSE value

FirstRows(rows, n) == SubSeq(rows, 1, IF Len(rows) < n THEN Len(rows) ELSE n)

ToolAnswer(about, rows) == [error |-> "none", about |-> about, rows |-> rows]
Complaint(error, about) == [error |-> error, about |-> about, rows |-> <<>>]

KnownTicker(ticker) == ticker \in DOMAIN Registry

ListedFilings(ticker, forms, most) ==
    LET filings == Registry[ticker].filings IN
    FirstRows(Selected(filings, {i \in DOMAIN filings : filings[i].form \in forms}), most)

SecListFilings(q) ==
    IF ~KnownTicker(q.ticker) THEN Complaint("ticker not resolved", q.ticker)
    ELSE ToolAnswer(q.ticker, ListedFilings(q.ticker, q.forms, Clamp(q.limit, 1, 20)))

\* Without an accession number the first filing of the forms is fetched; a
\* section the filing has not falls back to its full text.
SecFetchFiling(q) ==
    IF ~KnownTicker(q.ticker) THEN Complaint("ticker not resolved", q.ticker)
    ELSE LET listed == ListedFilings(q.ticker, q.forms, 20)
             fits == Selected(listed, {i \in DOMAIN listed : q.accession \in {"none", listed[i].accession}})
         IN  IF fits = <<>> THEN Complaint("filing not found", q.ticker)
             ELSE LET filing == Head(fits)
                      section == IF q.section \in filing.sections THEN q.section ELSE "full_text"
                  IN  ToolAnswer(filing.accession, <<[accession |-> filing.accession, section |-> section]>>)

\* A transcript the provider does not have raises (see ToolRaises).
TranscriptLookup(q) ==
    LET turns == Registry[q.ticker].calls[q.period]
    IN  ToolAnswer(q.period, Selected(turns, {i \in DOMAIN turns : q.section \in {"all", turns[i]}}))

ManagementSnapshotLookup(q) ==
    ToolAnswer(q.period, IF q.against = "none" THEN <<q.period>> ELSE <<q.period, q.against>>)

\* The metrics that have a value: a ticker the source does not know has none.
FinancialMetricsLookup(q) ==
    LET metrics == IF KnownTicker(q.ticker) THEN Registry[q.ticker].metrics ELSE <<>>
    IN  ToolAnswer(q.ticker, Selected(metrics, {i \in DOMAIN metrics : q.metrics # {} => metrics[i] \in q.metrics}))

Joined(parts) ==
    LET F[i \in 0..Len(parts)] == IF i = 0 THEN <<>> ELSE F[i - 1] \o parts[i] IN F[Len(parts)]

XbrlFactLookup(q) ==
    IF ~KnownTicker(q.ticker) THEN Complaint("ticker not resolved", q.ticker)
    ELSE LET facts == Registry[q.ticker].facts
             Of(concept) == Selected(facts, {i \in DOMAIN facts : facts[i].concept = concept})
         IN  ToolAnswer(q.ticker, Joined([i \in DOMAIN q.concepts |->
                 FirstRows(Of(q.concepts[i]), Clamp(q.limit, 1, 20))]))

\* The facts of the company and of the registrants it succeeded.
FinancialSnapshotLookup(q) ==
    IF ~KnownTicker(q.ticker) THEN Complaint("ticker not resolved", q.ticker)
    ELSE ToolAnswer(q.ticker, Registry[q.ticker].facts \o Registry[q.ticker].former)

-----------------------------------------------------------------------------
(* The graph tools *)

LastNode(start, path) == IF path = <<>> THEN start ELSE path[Len(path)][2]

\* _fixture_graph_paths: simple paths of at most max_hops known nodes.
FixtureGraphPaths(start, hops, allowed) ==
    LET Passed(path) == {start} \cup {path[i][2] : i \in DOMAIN path}
        Longer(path) ==
            {Append(path, e) : e \in {e \in GraphEdges :
                /\ e[1] = LastNode(start, path)
                /\ e[2] \in GraphNodes \ Passed(path)
                /\ allowed # {} => e[3] \in allowed}}
        Paths[n \in Nat] == IF n = 0 THEN {<<>>} ELSE UNION {Longer(path) : path \in Paths[n - 1]}
    IN  IF start \in GraphNodes THEN UNION {Paths[n] : n \in 1..hops} ELSE {}

\* A backend is asked with the same context; it answers as the fixture here.
ResolveGraphPaths(q, graph) ==
    IF graph = "unavailable" THEN Complaint("Graph backend unavailable", q.entity)
    ELSE ToolAnswer(q.entity, <<FixtureGraphPaths(q.entity, Clamp(q.hops, 1, 4), q.edges)>>)

GraphQuery(q, graph) == ResolveGraphPaths(q, graph)

\* Paths that name the target.
GraphPathSearch(q, graph) ==
    LET found == ResolveGraphPaths(q, graph)
        Names(path) == q.target \in {q.entity} \cup {path[i][2] : i \in DOMAIN path}
    IN  IF found.error # "none" \/ q.target = "none" THEN found
        ELSE [found EXCEPT !.rows = <<{path \in found.rows[1] : Names(path)}>>]

-----------------------------------------------------------------------------
(* One call *)

\* What a tool answers from the world; the web tools and the browser answer
\* with whatever their own modules (SearchRouter, BrowserSession) say.
AnswerOf(q, graph) ==
    CASE q.tool = "sec_list_filings" -> SecListFilings(q)
      [] q.tool = "sec_fetch_filing" -> SecFetchFiling(q)
      [] q.tool = "transcript_lookup" -> TranscriptLookup(q)
      [] q.tool = "management_snapshot_lookup" -> ManagementSnapshotLookup(q)
      [] q.tool = "financial_metrics_lookup" -> FinancialMetricsLookup(q)
      [] q.tool = "xbrl_fact_lookup" -> XbrlFactLookup(q)
      [] q.tool = "financial_snapshot_lookup" -> FinancialSnapshotLookup(q)
      [] q.tool = "graph_query" -> GraphQuery(q, graph)
      [] q.tool = "graph_path_search" -> GraphPathSearch(q, graph)
      [] OTHER -> ToolAnswer(q.tool, <<q.tool>>)

\* The transcript tools do not resolve the ticker: their fetcher raises for one
\* it does not know.
ToolRaises(q) ==
    CASE q.tool = "transcript_lookup" ->
            ~KnownTicker(q.ticker) \/ q.period \notin DOMAIN Registry[q.ticker].calls
      [] q.tool = "management_snapshot_lookup" ->
            \/ ~KnownTicker(q.ticker)
            \/ ~({q.period, q.against} \ {"none"} \subseteq DOMAIN Registry[q.ticker].calls)
      [] OTHER -> FALSE

\* ProjectTool.executable: the envelope says success whatever complaint the
\* answer holds, and a long answer is cut.
Envelope(q, answer, long) ==
    [tool |-> q.tool, status |-> "success", data |-> answer, truncated |-> long]

NoData == Complaint("failed", "none")
FailedEnvelope(q) == [tool |-> q.tool, status |-> "failed", data |-> NoData, truncated |-> FALSE]

EventOf(c, envelope) ==
    [call |-> c, round |-> toolRun.round, tool |-> envelope.tool,
     status |-> envelope.status, truncated |-> envelope.truncated]

NoCall == [state |-> "unused", request |-> [tool |-> "none"], envelope |-> FailedEnvelope([tool |-> "none"])]

-----------------------------------------------------------------------------
ToolInit ==
    /\ \E grant \in Grants, scope \in ToolScopes, graph \in GraphSources :
           toolRun = [phase |-> "thinking", grant |-> grant, scope |-> scope, round |-> 0, graph |-> graph]
    /\ toolCalls = [c \in ToolCalls |-> NoCall]
    /\ toolEvents = <<>>
    /\ browsing = {}

UsedCalls == {c \in ToolCalls : toolCalls[c].state # "unused"}
RunningCalls == {c \in ToolCalls : toolCalls[c].state = "running"}

\* The model answers with calls of tools it can see; all of them start, unless
\* they exceed what the run has left, when none does and the run fails.
ModelCalls ==
    /\ toolRun.phase = "thinking"
    /\ toolRun.round < MaxToolRounds
    /\ \E batch \in SUBSET (ToolCalls \ UsedCalls) \ {{}}, asked \in [ToolCalls -> ToolRequests] :
           /\ \A c \in batch : asked[c].tool \in VisibleTools(toolRun.grant, toolRun.scope)
           /\ IF Cardinality(UsedCalls \cup batch) > MaxTotalToolCalls
              THEN /\ toolRun' = [toolRun EXCEPT !.phase = "failed"]
                   /\ UNCHANGED toolCalls
              ELSE /\ toolRun' = [toolRun EXCEPT !.phase = "calling", !.round = @ + 1]
                   /\ toolCalls' = [c \in ToolCalls |->
                          IF c \in batch THEN [NoCall EXCEPT !.state = "running", !.request = asked[c]]
                          ELSE toolCalls[c]]
    /\ UNCHANGED <<toolEvents, browsing>>

ToolReturned(c, envelope) ==
    /\ toolCalls' = [toolCalls EXCEPT ![c].state = "done", ![c].envelope = envelope]
    /\ toolEvents' = Append(toolEvents, EventOf(c, envelope))
    /\ toolRun' = IF RunningCalls = {c} THEN [toolRun EXCEPT !.phase = "thinking"] ELSE toolRun

\* Anything a tool raises is made a failed envelope, and the call is allowed
\* for once more where it runs.
CallFails(c) ==
    /\ c \in RunningCalls
    /\ ToolReturned(c, FailedEnvelope(toolCalls[c].request))
    /\ UNCHANGED browsing

CallAnswers(c) ==
    LET q == toolCalls[c].request IN
    /\ c \in RunningCalls
    /\ Allows(toolRun.grant, ProjectTools[q.tool])
    /\ ~ToolRaises(q)
    /\ \E long \in BOOLEAN : ToolReturned(c, Envelope(q, AnswerOf(q, toolRun.graph), long))
    /\ UNCHANGED browsing

\* browser_explore waits for its thread for a time only.
BrowserTimesOut(c) ==
    LET q == toolCalls[c].request IN
    /\ c \in RunningCalls
    /\ q.tool = "browser_explore"
    /\ Allows(toolRun.grant, ProjectTools[q.tool])
    /\ ToolReturned(c, Envelope(q, Complaint("timed out", q.tool), FALSE))
    /\ browsing' = browsing \cup {c}

BrowserThreadEnds(c) ==
    /\ c \in browsing
    /\ browsing' = browsing \ {c}
    /\ UNCHANGED <<toolRun, toolCalls, toolEvents>>

\* The final answer carries the events, which the trace of the run keeps.
ModelAnswers ==
    /\ toolRun.phase = "thinking"
    /\ toolRun' = [toolRun EXCEPT !.phase = "answered"]
    /\ UNCHANGED <<toolCalls, toolEvents, browsing>>

\* The model cannot be reached, or the run is out of requests.
ModelFails ==
    /\ toolRun.phase = "thinking"
    /\ toolRun' = [toolRun EXCEPT !.phase = "failed"]
    /\ UNCHANGED <<toolCalls, toolEvents, browsing>>

ToolNext ==
    \/ ModelCalls
    \/ ModelAnswers
    \/ ModelFails
    \/ \E c \in ToolCalls :
           \/ CallFails(c)
           \/ CallAnswers(c)
           \/ BrowserTimesOut(c)
           \/ BrowserThreadEnds(c)

ToolSpec == ToolInit /\ [][ToolNext]_toolVars

ToolTypeOK ==
    /\ toolRun.phase \in {"thinking", "calling", "answered", "failed"}
    /\ toolRun.grant \in Grants
    /\ toolRun.scope \in ToolScopes
    /\ toolRun.round \in 0..MaxToolRounds
    /\ DOMAIN toolCalls = ToolCalls
    /\ browsing \subseteq ToolCalls

-----------------------------------------------------------------------------
(* What the tools promise *)

EventsOf(c) == {i \in DOMAIN toolEvents : toolEvents[i].call = c}

\* A finished call has one event, which says what its envelope says; a call
\* at work has none.
Audited ==
    \A c \in ToolCalls :
        IF toolCalls[c].state = "done"
        THEN /\ Cardinality(EventsOf(c)) = 1
             /\ \A i \in EventsOf(c) :
                    /\ toolEvents[i].tool = toolCalls[c].request.tool
                    /\ toolEvents[i].status = toolCalls[c].envelope.status
        ELSE EventsOf(c) = {}

\* The trace of an answered run has all of its calls, within its budget.
AnswersAreTraced ==
    toolRun.phase = "answered" =>
        /\ Len(toolEvents) = Cardinality(UsedCalls)
        /\ Len(toolEvents) <= MaxTotalToolCalls

\* Only an interactive run leaves a browser at work.
OnlyGrantedBrowse == browsing # {} => toolRun.grant.interactive

\* What a filing tool shows is of the document that was asked for.
FilingsAreAsked ==
    \A c \in ToolCalls :
        LET q == toolCalls[c].request
            e == toolCalls[c].envelope
        IN  (q.tool = "sec_fetch_filing" /\ e.status = "success" /\ e.data.error = "none") =>
                /\ e.data.rows[1].accession = q.accession \/ q.accession = "none"
                /\ e.data.rows[1].section \in {q.section, "full_text"}

ToolsHold == Audited /\ AnswersAreTraced /\ OnlyGrantedBrowse /\ FilingsAreAsked
=============================================================================

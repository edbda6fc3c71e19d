---------------------------- MODULE ServerParts ----------------------------
(***************************************************************************)
(* The parts of the server and the command line that share no state with  *)
(* each other, side by side.  A behaviour is one of one part, chosen at    *)
(* the start; the others stay as they begin.  Parts that do share state    *)
(* are composed in the modules below this one: the workflow with its       *)
(* evidence, the supply chain with its graph, the monitor with its stores. *)
(***************************************************************************)
EXTENDS FinRiskWorkflow, SupplyChainRuns, AnalystJournal, AnalystRecords,
        FinancialFacts, ToolCatalogue, BrowserSession, GraphReasoning,
        ConversationStore, RateLimiter, ResearchDatabase, SearchRouter, MemoryLayer,
        CompanySources, FilingReading, TranscriptSources, CompanyAnalysis,
        EvidenceCandidates, ChangeReviews

VARIABLE part    \* the part that moves

Parts == {"finrisk", "chain", "journal", "records", "financial", "tools", "browser",
          "reasoning", "conversation", "limiter", "schema", "search", "memory",
          "resolver", "client", "filings", "transcripts", "analysis", "candidates", "reviews"}

partsVars ==
    <<part, vars, chainVars, journalVars, recordVars, financialVars, toolVars, sessionVars,
      reasoningVars, conversationVars, limiterVars, schemaVars, searchVars, memoryVars,
      sourceVars, readingVars, transcriptVars, analysisVars,
      candidateVars, reviewVars>>

\* What a part at rest begins with does not matter: one value is enough.
AtRest ==
    /\ part = "tools" \/ toolRun = CHOOSE first \in
           [phase : {"thinking"}, grant : Grants, scope : ToolScopes, round : {0}, graph : GraphSources] : TRUE
    /\ part = "analysis" \/ arguments = CHOOSE first \in
           [year : Years, web : BOOLEAN, transcripts : 0..MaxTranscripts] : TRUE

PartsInit ==
    /\ part \in Parts
    /\ Init /\ ChainInit /\ JournalInit /\ RecordsInit /\ FinancialInit /\ ToolInit
    /\ SessionInit /\ ReasoningInit /\ ConversationInit /\ LimiterInit /\ SchemaInit
    /\ SearchInit /\ MemoryInit /\ SourcesInit /\ ReadingInit /\ TranscriptInit /\ AnalysisInit
    /\ CandidatesInit /\ ReviewInit
    /\ AtRest

OthersStay ==
    /\ part' = part
    /\ IF part = "finrisk" THEN TRUE ELSE UNCHANGED vars
    /\ IF part = "chain" THEN TRUE ELSE UNCHANGED chainVars
    /\ IF part = "journal" THEN TRUE ELSE UNCHANGED journalVars
    /\ IF part = "records" THEN TRUE ELSE UNCHANGED recordVars
    /\ IF part = "financial" THEN TRUE ELSE UNCHANGED financialVars
    /\ IF part = "tools" THEN TRUE ELSE UNCHANGED toolVars
    /\ IF part = "browser" THEN TRUE ELSE UNCHANGED sessionVars
    /\ IF part = "reasoning" THEN TRUE ELSE UNCHANGED reasoningVars
    /\ IF part = "conversation" THEN TRUE ELSE UNCHANGED conversationVars
    /\ IF part = "limiter" THEN TRUE ELSE UNCHANGED limiterVars
    /\ IF part = "schema" THEN TRUE ELSE UNCHANGED schemaVars
    /\ IF part = "search" THEN TRUE ELSE UNCHANGED searchVars
    /\ IF part = "memory" THEN TRUE ELSE UNCHANGED memoryVars
    /\ IF part \in {"resolver", "client"} THEN TRUE ELSE UNCHANGED sourceVars
    /\ IF part = "filings" THEN TRUE ELSE UNCHANGED readingVars
    /\ IF part = "transcripts" THEN TRUE ELSE UNCHANGED transcriptVars
    /\ IF part = "analysis" THEN TRUE ELSE UNCHANGED analysisVars
    /\ IF part = "candidates" THEN TRUE ELSE UNCHANGED candidateVars
    /\ IF part = "reviews" THEN TRUE ELSE UNCHANGED reviewVars

PartsNext ==
    \/ part = "finrisk" /\ Next /\ OthersStay
    \/ part = "chain" /\ ChainNext /\ OthersStay
    \/ part = "journal" /\ JournalNext /\ OthersStay
    \/ part = "records" /\ RecordsNext /\ OthersStay
    \/ part = "financial" /\ FinancialNext /\ OthersStay
    \/ part = "tools" /\ ToolNext /\ OthersStay
    \/ part = "browser" /\ SessionNext /\ OthersStay
    \/ part = "reasoning" /\ ReasoningNext /\ OthersStay
    \/ part = "conversation" /\ ConversationNext /\ OthersStay
    \/ part = "limiter" /\ LimiterNext /\ OthersStay
    \/ part = "schema" /\ SchemaNext /\ OthersStay
    \/ part = "search" /\ SearchNext /\ OthersStay
    \/ part = "memory" /\ MemoryNext /\ OthersStay
    \/ part = "resolver" /\ ResolverNext /\ OthersStay
    \/ part = "client" /\ ClientNext /\ OthersStay
    \/ part = "filings" /\ ReadingNext /\ OthersStay
    \/ part = "transcripts" /\ TranscriptNext /\ OthersStay
    \/ part = "analysis" /\ AnalysisNext /\ OthersStay
    \/ part = "candidates" /\ CandidatesNext /\ OthersStay
    \/ part = "reviews" /\ ReviewNext /\ OthersStay

PartsSpec == PartsInit /\ [][PartsNext]_partsVars /\ WF_vars(Proceed)
-----------------------------------------------------------------------------
(* Properties.  Each one below gathers what the modules say of parts that  *)
(* belong together; the parts of it are stated there.                      *)

\* Every part keeps its variables in their domains.
PartsTypeOK ==
    /\ part \in Parts
    /\ TypeOK /\ ChainTypeOK /\ JournalTypeOK /\ RecordsTypeOK /\ FinancialTypeOK /\ ToolTypeOK
    /\ SessionTypeOK /\ ConversationTypeOK /\ LimiterTypeOK /\ SchemaTypeOK /\ SearchTypeOK
    /\ MemoryTypeOK /\ SourcesTypeOK /\ TranscriptTypeOK

\* The research database under concurrent processes: whoever opens it, its
\* schema is a whole prefix of one history; whoever appends to a conversation,
\* an operation has one row and a history is never taken back; whoever
\* writes a thesis or confirms a draft, what was acknowledged is
\* there unless a later writer replaced it (AnalystJournal, AnalystRecords);
\* and whoever reviews a change, a queue shows what is left (ChangeReviews).
StoresHold == SchemaIsWhole /\ AppendsAreIdempotent /\ JournalHolds /\ RecordsStay /\ ReviewsHold

\* What the data clients hand on: the identity, the spacing of requests, the
\* bounds of a section and of a list, the period and the turns of a transcript.
DataHolds == SourcesHold /\ FilingsHold /\ TranscriptsHold

\* What the two sorts of report show: a finished workflow run cites its own
\* evidence for every risk, claim and insight, and every line of a company
\* report has references, all of them to sources it is about.
ReportsHold == ReportsAreBacked /\ ReportAssertsEvidence

\* What a panel is told of a run that is decided it is told for good: the
\* stored workflow is never changed again, nor the status of a supply chain.
RunsArePolled == OutcomeStays /\ FinRiskPanel!PollSpec /\ ChainPanel!PollSpec

\* What is served of a supply chain is sound, and its task leaves it decided.
ChainsHold == ChainsAreSound /\ EndedIsDecided

\* Where time runs out: the limiter admits no burst across the edge of a window
\* and its Retry-After is enough, and a search answers for its own request from
\* a provider, or from a cache whose rows expire, are pruned and filled meanwhile.
ExpiryHolds == LimitHolds /\ SearchesAreSound

\* No step of the tools an agent calls, in rounds and in threads that outlive
\* their time limit, or of the browser one of them drives, leaves a call
\* without its event, a budget exceeded or a stopped session moving.
AgentToolsHold == [][ToolsHold' /\ BrowsingHolds]_<<toolVars, sessionVars>>

\* What an agent is given to think with: memories of other runs within a
\* budget, insights that cite what the graph holds, and candidates that quote
\* what a tool returned.
KnowledgeHolds == MemoryHolds /\ ReasoningHolds /\ CandidatesHold
=============================================================================

---------------------------- MODULE PartsProofs ----------------------------
(***************************************************************************)
(* What ServerParts promises of the parts that belong together. A          *)
(* behaviour of the whole is one of each part, of which all but one stay   *)
(* as they begin; so what is proved of each part alone holds of it in the  *)
(* whole, for all values of all constants.                                 *)
(***************************************************************************)
EXTENDS ServerParts, StoreProofs, ServiceProofs, WorkflowProofs

\* Each part's specification follows from that of the whole: a step of the
\* whole is one of the part, or leaves the part's variables as they are.
LEMMA PartsRunJournal == PartsSpec => JournalSpec
<1>1. PartsInit => JournalInit BY DEF PartsInit
<1>2. [PartsNext]_partsVars => [JournalNext]_journalVars BY DEF PartsNext, OthersStay, partsVars
<1> QED BY <1>1, <1>2, PTL DEF PartsSpec, JournalSpec

LEMMA PartsRunRecords == PartsSpec => RecordsSpec
<1>1. PartsInit => RecordsInit BY DEF PartsInit
<1>2. [PartsNext]_partsVars => [RecordsNext]_recordVars BY DEF PartsNext, OthersStay, partsVars
<1> QED BY <1>1, <1>2, PTL DEF PartsSpec, RecordsSpec

LEMMA PartsRunConversation == PartsSpec => ConversationSpec
<1>1. PartsInit => ConversationInit BY DEF PartsInit
<1>2. [PartsNext]_partsVars => [ConversationNext]_conversationVars BY DEF PartsNext, OthersStay, partsVars
<1> QED BY <1>1, <1>2, PTL DEF PartsSpec, ConversationSpec

LEMMA PartsRunSchema == PartsSpec => SchemaSpec
<1>1. PartsInit => SchemaInit BY DEF PartsInit
<1>2. [PartsNext]_partsVars => [SchemaNext]_schemaVars BY DEF PartsNext, OthersStay, partsVars
<1> QED BY <1>1, <1>2, PTL DEF PartsSpec, SchemaSpec

LEMMA PartsRunReview == PartsSpec => ReviewSpec
<1>1. PartsInit => ReviewInit BY DEF PartsInit
<1>2. [PartsNext]_partsVars => [ReviewNext]_reviewVars BY DEF PartsNext, OthersStay, partsVars
<1> QED BY <1>1, <1>2, PTL DEF PartsSpec, ReviewSpec

LEMMA PartsRunLimiter == PartsSpec => LimiterSpec
<1>1. PartsInit => LimiterInit BY DEF PartsInit
<1>2. [PartsNext]_partsVars => [LimiterNext]_limiterVars BY DEF PartsNext, OthersStay, partsVars
<1> QED BY <1>1, <1>2, PTL DEF PartsSpec, LimiterSpec

LEMMA PartsRunSearch == PartsSpec => SearchSpec
<1>1. PartsInit => SearchInit BY DEF PartsInit
<1>2. [PartsNext]_partsVars => [SearchNext]_searchVars BY DEF PartsNext, OthersStay, partsVars
<1> QED BY <1>1, <1>2, PTL DEF PartsSpec, SearchSpec

LEMMA PartsRunSources == PartsSpec => SourcesSpec
<1>1. PartsInit => SourcesInit BY DEF PartsInit
<1>2. [PartsNext]_partsVars => [SourcesNext]_sourceVars BY DEF PartsNext, OthersStay, partsVars, SourcesNext
<1> QED BY <1>1, <1>2, PTL DEF PartsSpec, SourcesSpec

LEMMA PartsRunReading == PartsSpec => ReadingSpec
<1>1. PartsInit => ReadingInit BY DEF PartsInit
<1>2. [PartsNext]_partsVars => [ReadingNext]_readingVars BY DEF PartsNext, OthersStay, partsVars
<1> QED BY <1>1, <1>2, PTL DEF PartsSpec, ReadingSpec

LEMMA PartsRunTranscript == PartsSpec => TranscriptSpec
<1>1. PartsInit => TranscriptInit BY DEF PartsInit
<1>2. [PartsNext]_partsVars => [TranscriptNext]_transcriptVars BY DEF PartsNext, OthersStay, partsVars
<1> QED BY <1>1, <1>2, PTL DEF PartsSpec, TranscriptSpec

LEMMA PartsRunSession == PartsSpec => SessionSpec
<1>1. PartsInit => SessionInit BY DEF PartsInit
<1>2. [PartsNext]_partsVars => [SessionNext]_sessionVars BY DEF PartsNext, OthersStay, partsVars
<1> QED BY <1>1, <1>2, PTL DEF PartsSpec, SessionSpec

LEMMA PartsRunTools == PartsSpec => ToolSpec
<1>1. PartsInit => ToolInit BY DEF PartsInit
<1>2. [PartsNext]_partsVars => [ToolNext]_toolVars BY DEF PartsNext, OthersStay, partsVars
<1> QED BY <1>1, <1>2, PTL DEF PartsSpec, ToolSpec

LEMMA PartsRunCandidates == PartsSpec => CandidatesSpec
<1>1. PartsInit => CandidatesInit BY DEF PartsInit
<1>2. [PartsNext]_partsVars => [CandidatesNext]_candidateVars BY DEF PartsNext, OthersStay, partsVars
<1> QED BY <1>1, <1>2, PTL DEF PartsSpec, CandidatesSpec

LEMMA PartsRunMemory == PartsSpec => MemorySpec
<1>1. PartsInit => MemoryInit BY DEF PartsInit
<1>2. [PartsNext]_partsVars => [MemoryNext]_memoryVars BY DEF PartsNext, OthersStay, partsVars
<1> QED BY <1>1, <1>2, PTL DEF PartsSpec, MemorySpec

LEMMA PartsRunReasoning == PartsSpec => ReasoningSpec
<1>1. PartsInit => ReasoningInit BY DEF PartsInit
<1>2. [PartsNext]_partsVars => [ReasoningNext]_reasoningVars BY DEF PartsNext, OthersStay, partsVars
<1> QED BY <1>1, <1>2, PTL DEF PartsSpec, ReasoningSpec

LEMMA PartsRunAnalysis == PartsSpec => AnalysisSpec
<1>1. PartsInit => AnalysisInit BY DEF PartsInit
<1>2. [PartsNext]_partsVars => [AnalysisNext]_analysisVars BY DEF PartsNext, OthersStay, partsVars
<1> QED BY <1>1, <1>2, PTL DEF PartsSpec, AnalysisSpec

LEMMA PartsRunFinancial == PartsSpec => FinancialSpec
<1>1. PartsInit => FinancialInit BY DEF PartsInit
<1>2. [PartsNext]_partsVars => [FinancialNext]_financialVars BY DEF PartsNext, OthersStay, partsVars
<1> QED BY <1>1, <1>2, PTL DEF PartsSpec, FinancialSpec

LEMMA PartsRunFinRisk == PartsSpec => Spec
<1>1. PartsInit => Init BY DEF PartsInit
<1>2. [PartsNext]_partsVars => [Next]_vars BY DEF PartsNext, OthersStay, partsVars
<1> QED BY <1>1, <1>2, PTL DEF PartsSpec, Spec

LEMMA PartsRunChain == PartsSpec => ChainSteps
<1>1. PartsInit => ChainInit BY DEF PartsInit
<1>2. [PartsNext]_partsVars => [ChainNext]_chainVars BY DEF PartsNext, OthersStay, partsVars
<1> QED BY <1>1, <1>2, PTL DEF PartsSpec, ChainSteps

-----------------------------------------------------------------------------
\* The research database under concurrent processes: its schema is whole, an
\* operation has one row, answered reviews stay, recorded points stay, and
\* queues show what is left.
THEOREM StoresAlwaysHold == PartsSpec => []StoresHold
<1>1. PartsSpec => []SchemaIsWhole BY PartsRunSchema, MigrationsAreWhole, PTL
<1>2. PartsSpec => []AppendsAreIdempotent BY PartsRunConversation, ConversationsOnlyGrow, PTL
<1>3. PartsSpec => []JournalHolds BY PartsRunJournal, JournalSound, PTL
<1>4. PartsSpec => []RecordsStay BY PartsRunRecords, RecordedPointsStay, PTL
<1>5. PartsSpec => []ReviewsHold BY PartsRunReview, ReviewsSound, PTL
<1> QED BY <1>1, <1>2, <1>3, <1>4, <1>5, PTL DEF StoresHold

\* What the data clients hand on is of the company, the section and the period
\* that were asked for, and SEC is asked no faster than it allows.
THEOREM DataAlwaysHolds == PartsSpec => []DataHolds
<1>1. PartsSpec => []SourcesHold BY PartsRunSources, SourcesSound, PTL
<1>2. PartsSpec => []FilingsHold BY PartsRunReading, ReadingSound, PTL
<1>3. PartsSpec => []TranscriptsHold BY PartsRunTranscript, TranscriptsSound, PTL
<1> QED BY <1>1, <1>2, <1>3, PTL DEF DataHolds

\* Where time runs out, in the limiter and in the cache of searches.
THEOREM ExpiryAlwaysHolds == PartsSpec => []ExpiryHolds
<1>1. PartsSpec => []LimitHolds BY PartsRunLimiter, LimiterSound, PTL
<1>2. PartsSpec => []SearchesAreSound BY PartsRunSearch, SearchSound, PTL
<1> QED BY <1>1, <1>2, PTL DEF ExpiryHolds

\* Memories of other runs within a budget, insights that cite what the graph
\* holds, candidates that quote what a tool returned.
THEOREM KnowledgeAlwaysHolds == PartsSpec => []KnowledgeHolds
<1>1. PartsSpec => []MemoryHolds BY PartsRunMemory, MemorySound, PTL
<1>2. PartsSpec => []ReasoningHolds BY PartsRunReasoning, ReasoningSound, PTL
<1>3. PartsSpec => []CandidatesHold BY PartsRunCandidates, CandidatesSound, PTL
<1> QED BY <1>1, <1>2, <1>3, PTL DEF KnowledgeHolds

\* No step of the tools of a run or of the browser leaves a call without its
\* event, a budget exceeded or a stopped session moving.
THEOREM AgentToolsAlwaysHold == PartsSpec => AgentToolsHold
<1>1. PartsSpec => []ToolsHold BY PartsRunTools, ToolsSound, PTL
<1>2. PartsSpec => []SessionInv /\ [][SessionNext]_sessionVars
  BY PartsRunSession, BrowserStarts, SessionSteps, PTL DEF SessionSpec
<1>3. SessionInv' => BrowsingIsBounded' BY SessionInvSuffices, PTL
<1>4. SessionInv /\ [SessionNext]_sessionVars => BrowsingHolds
  BY <1>3, SessionSteps, StopsAreFinal DEF BrowsingHolds
<1> QED BY <1>1, <1>2, <1>4, PTL DEF AgentToolsHold

\* A finished workflow run cites its own evidence for what it shows, and a
\* company report refers every line to sources it is about.
THEOREM ReportsAlwaysHold == PartsSpec => []ReportsHold
<1>1. PartsSpec => []ReportsAreBacked BY PartsRunFinRisk, ReportsAlwaysBacked, PTL
<1>2. PartsSpec => []ReportAssertsEvidence BY PartsRunAnalysis, ReportSound, PTL
<1> QED BY <1>1, <1>2, PTL DEF ReportsHold

\* A supply-chain task that has ended leaves a decided run, and whatever payload
\* the store serves is sound.
THEOREM ChainsAlwaysHold == PartsSpec => []ChainsHold
  BY PartsRunChain, EndedAlwaysDecided, ChainsAlwaysSound, PTL DEF ChainsHold

\* What the panels of the frontend poll is decided once and stays as decided,
\* FinRisk runs and supply-chain runs alike.
THEOREM RunsAlwaysPolled == PartsSpec => RunsArePolled
<1>1. PartsSpec => OutcomeStays BY PartsRunFinRisk, OutcomesStay, PTL
<1>2. PartsSpec => FinRiskPanel!PollSpec BY PartsRunFinRisk, FinRiskRunsPolled, PTL
<1>3. PartsSpec => ChainPanel!PollSpec BY PartsRunChain, ChainRunsPolled, PTL
<1> QED BY <1>1, <1>2, <1>3, PTL DEF RunsArePolled

\* Every part keeps its variables in their domains.
THEOREM PartsTypeCorrect == PartsSpec => []PartsTypeOK
<1>1. PartsInit => part \in Parts BY DEF PartsInit
<1>2. part \in Parts /\ [PartsNext]_partsVars => (part \in Parts)' BY DEF PartsNext, OthersStay, partsVars
<1>3. PartsSpec => [](part \in Parts) BY <1>1, <1>2, PTL DEF PartsSpec
<1>4. PartsSpec => [](TypeOK /\ ChainTypeOK)
  BY PartsRunFinRisk, PartsRunChain, FinRiskTypeCorrect, ChainTypeCorrect, PTL
<1>5. PartsSpec => [](JournalTypeOK /\ RecordsTypeOK /\ FinancialTypeOK)
  BY PartsRunJournal, PartsRunRecords, PartsRunFinancial, JournalSound, RecordsTypeCorrect, FinancialTypeCorrect, PTL
<1>6. PartsSpec => [](ToolTypeOK /\ SessionTypeOK)
  BY PartsRunTools, PartsRunSession, ToolsSound, BrowsingSound, PTL
<1>7. PartsSpec => [](ConversationTypeOK /\ LimiterTypeOK /\ SchemaTypeOK)
  BY PartsRunConversation, PartsRunLimiter, PartsRunSchema, ConversationsOnlyGrow, LimiterSound, MigrationsAreWhole, PTL
<1>8. PartsSpec => [](SearchTypeOK /\ MemoryTypeOK)
  BY PartsRunSearch, PartsRunMemory, SearchSound, MemorySound, PTL
<1>9. PartsSpec => [](SourcesTypeOK /\ TranscriptTypeOK)
  BY PartsRunSources, PartsRunTranscript, SourcesSound, TranscriptsSound, PTL
<1> QED BY <1>3, <1>4, <1>5, <1>6, <1>7, <1>8, <1>9, PTL DEF PartsTypeOK
=============================================================================

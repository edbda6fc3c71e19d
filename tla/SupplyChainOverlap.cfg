SPECIFICATION ChainSpec
CONSTANTS
 LabelKey <- MCLabelKey
 NoNode = NoNode
 MaxSuppliers = 2
 MaxChainRuns = 3
 Seed <- MCSeed
 Product <- MCProduct
 Fixture <- MCFixture
 RequirementLists <- MCRequirementLists
 ProposalLists <- MCProposalLists
 Findings <- MCFindings
 Expansions <- MCExpansions
 MaxChainFaults = 1
PROPERTIES ExpansionsKeepEvidence
CHECK_DEADLOCK FALSE

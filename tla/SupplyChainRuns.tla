-------------------------- MODULE SupplyChainRuns --------------------------
(***************************************************************************)
(* Supply-chain runs and their recursive expansions (ai/graphs/            *)
(* supply_chain.py, supply_chain/workflow.py, api/supply_chain.py) over    *)
(* the SQLite store: every task works on a state of its own and the store  *)
(* holds what it wrote last.                                               *)
(*                                                                         *)
(* chainRow maps a run to its stored state.  An expansion runs as a child  *)
(* and then writes the parent it read before the child began.              *)
(***************************************************************************)
EXTENDS SupplyChainGraph

CONSTANTS
    MaxChainRuns,      \* runs, numbered as they are created
    Seed, Product,     \* the company and the product explored
    Fixture,           \* the bundled graph of the demo product, with its rows
    RequirementLists,  \* what the model or the rules decompose a product into
    ProposalLists,     \* suppliers the model proposes
    Findings,          \* functions from requirements to search results
    Expansions,        \* <<node id, product id>> of expand requests
    MaxChainFaults     \* failing stores and crashes

ASSUME RequestAssumption ==
    /\ Seed \in CompanyIds /\ Product \in ProductIds
    /\ Expansions \subseteq ChainIds \X ProductIds
    /\ MaxChainRuns \in Nat /\ MaxChainFaults \in Nat

\* The rows of the bundled graph.  They cite its evidence, and its links lead
\* from the product through requirements to companies and never back.
FixtureNodes == [id : ChainIds, parent : ChainIds \cup {NoNode}, depth : 0..(Deepest - 1),
                 cites : SUBSET Fixture.evidence, confidence : 0..100]
FixtureLinks == [source : ChainIds \ CompanyIds, target : ChainIds \ ProductIds, suffix : EdgeSuffixes,
                 confirmed : BOOLEAN, cites : SUBSET Fixture.evidence, confidence : 0..100]
FixtureEnds == UNION {{Canonical(l.source), Canonical(l.target)} : l \in Range(Fixture.links)}

ASSUME FixtureAssumption ==
    /\ Fixture.nodes \in Seq(FixtureNodes)
    /\ Fixture.links \in Seq({l \in FixtureLinks : l.confirmed => l.cites # {}})
    /\ \E level \in [FixtureEnds -> 0..Len(Fixture.links)] :
        \A l \in Range(Fixture.links) : level[Canonical(l.source)] < level[Canonical(l.target)]

\* What a product is decomposed into is neither a company nor a product.
ASSUME DecompositionAssumption ==
    \A list \in RequirementLists : list \in Seq(ChainIds \ (CompanyIds \cup ProductIds))

\* The nodes that suppliers are sought for.
SoughtFor ==
    {id \in {n.id : n \in Range(Fixture.nodes)} \cup UNION {Range(list) : list \in RequirementLists} :
        id[1] \in RequirementTypes}

\* Suppliers are companies, whoever names them.
ASSUME ProposalAssumption ==
    \A list \in ProposalLists : list \in Seq([requirement : ChainIds, supplier : CompanyIds])

ASSUME FindingAssumption ==
    \A found \in Findings : \A id \in SoughtFor :
        LET results == found[id].results
            relations == found[id].relations
        IN  /\ results \in Seq(Range(results)) /\ relations \in Seq(Range(relations))
            /\ \A r \in Range(results) : r.supplier \in CompanyIds /\ r.url \in BOOLEAN
            /\ \A r \in Range(relations) :
                r.supplier \in CompanyIds /\ r.sure \in BOOLEAN /\ r.confidence \in 0..100

VARIABLES
    chainRow,     \* the store
    chainTask,    \* where the task of a run is
    chainCopy,    \* the parent as the task of an expansion read it
    chainRepair,  \* a GET that is about to write a repaired payload
    chainFaults

chainVars == <<chainRow, chainTask, chainCopy, chainRepair, chainFaults>>

ChainRuns == 1..MaxChainRuns
NoRun == 0

\* Where a payload would be.
NoSankey == [none |-> TRUE]

ChainEmpty ==
    [status |-> "none", demo |-> FALSE, parent |-> NoRun, expands |-> <<NoNode, NoNode>>,
     graph |-> NoGraph, sankey |-> NoSankey, verdict |-> "none"]

ChainFinal == {"completed", "needs_review", "failed"}

SourceTypes(evidence) == {e[1] : e \in evidence}

-----------------------------------------------------------------------------
(* The nine steps over one state *)

LiveGraphs(graph, product) ==
    {NormalizeChainEvidence(
        DiscoverSuppliers(AddRequirements(ResolveProduct(graph, Seed, product), product, required, 65),
                          Seed, proposals, found), {}) :
            required \in RequirementLists, proposals \in ProposalLists, found \in Findings}

DemoGraphs(graph, product) ==
    LET resolved == ResolveProduct(graph, Seed, product)
    IN  {IF product = Product THEN NormalizeChainEvidence(AddFixture(resolved, Fixture), Fixture.evidence)
         ELSE [resolved EXCEPT !.warned = TRUE]}

\* Mutant: only a verdict of pass decides a run.
ChainStatusOfPass(verdict) == IF verdict = "pass" THEN "completed" ELSE "running"

ChainStatus(verdict) ==
    CASE verdict = "pass" -> "completed" [] verdict = "needs_review" -> "needs_review"
      [] verdict = "fail" -> "failed"

\* Without a valid payload the Sankey step raises, the evaluator finds no
\* payload, and the status stays as it is.
Evaluated(state, graph) ==
    LET payload == BuildSankey(graph)
        verdict == EvaluateChain(payload, Cardinality(SourceTypes(graph.evidence)))
    IN  IF ~ValidSankey(payload) THEN [state EXCEPT !.graph = graph]
        ELSE [state EXCEPT !.graph = graph, !.sankey = payload, !.verdict = verdict,
                           !.status = ChainStatus(verdict)]

RunSteps(state, product) ==
    {Evaluated(state, g) : g \in IF state.demo THEN DemoGraphs(state.graph, product)
                                 ELSE LiveGraphs(state.graph, product)}

-----------------------------------------------------------------------------

ChainInit ==
    /\ chainRow = [r \in ChainRuns |-> ChainEmpty]
    /\ chainTask = [r \in ChainRuns |-> "none"]
    /\ chainCopy = [r \in ChainRuns |-> ChainEmpty]
    /\ chainRepair = [run |-> NoRun, row |-> ChainEmpty]
    /\ chainFaults = 0

Fresh(r) ==
    /\ chainRow[r] = ChainEmpty
    /\ \A q \in 1..(r - 1) : chainRow[q] # ChainEmpty

Store(r, row) == chainRow' = [chainRow EXCEPT ![r] = row]
Task(r, stage) == chainTask' = [chainTask EXCEPT ![r] = stage]

\* POST /supply-chain/explore; demo mode is for tests.
PostExplore(r) ==
    /\ Fresh(r)
    /\ Store(r, [ChainEmpty EXCEPT !.status = "queued"])
    /\ Task(r, "queued")
    /\ UNCHANGED <<chainCopy, chainRepair, chainFaults>>

\* The command line in demo mode; without it, it is the run of the API but
\* for the handler of exceptions.
ExploreFromCommandLine(r) ==
    /\ Fresh(r)
    /\ Store(r, [ChainEmpty EXCEPT !.status = "running", !.demo = TRUE])
    /\ Task(r, "running")
    /\ UNCHANGED <<chainCopy, chainRepair, chainFaults>>

\* The initialize node of the graph.
InitializeChain(r) ==
    /\ chainTask[r] = "queued"
    /\ chainRow[r].parent = NoRun
    /\ Store(r, [chainRow[r] EXCEPT !.status = "running"])
    /\ Task(r, "running")
    /\ UNCHANGED <<chainCopy, chainRepair, chainFaults>>

\* The nine steps and the finish node.
FinishChain(r) ==
    /\ chainTask[r] = "running"
    /\ chainRow[r].parent = NoRun
    /\ \E state \in RunSteps(chainRow[r], Product) : Store(r, state)
    /\ Task(r, "ended")
    /\ UNCHANGED <<chainCopy, chainRepair, chainFaults>>

\* POST /supply-chain/expand: the parent needs a payload.
PostExpand(p, r) ==
    /\ chainRow[p].sankey # NoSankey
    /\ Fresh(r)
    /\ \E request \in Expansions :
        Store(r, [ChainEmpty EXCEPT !.status = "queued", !.parent = p, !.expands = request])
    /\ Task(r, "queued")
    /\ UNCHANGED <<chainCopy, chainRepair, chainFaults>>

\* The child begins with the working graph of the parent.
BeginExpansion(r) ==
    LET p == chainRow[r].parent
    IN  /\ chainTask[r] = "queued"
        /\ p # NoRun
        /\ chainCopy' = [chainCopy EXCEPT ![r] = chainRow[p]]
        /\ Store(r, [chainRow[r] EXCEPT !.status = "running", !.graph = [chainRow[p].graph EXCEPT !.warned = FALSE]])
        /\ Task(r, "running")
        /\ UNCHANGED <<chainRepair, chainFaults>>

\* The steps of the child, and the parent written back with the merged
\* payload; the verdict and the status of the parent stay.
MergeIntoParent(r) ==
    LET p == chainRow[r].parent
    IN  /\ chainTask[r] = "running"
        /\ p # NoRun
        /\ \E child \in RunSteps(chainRow[r], chainRow[r].expands[2]) :
            /\ child.sankey # NoSankey
            /\ LET merged == MergeExpansion(chainCopy[r].sankey, child.sankey, chainRow[r].expands[1])
               IN  /\ ValidSankey(merged)
                   /\ Store(p, [chainCopy[r] EXCEPT !.sankey = merged])
            /\ chainCopy' = [chainCopy EXCEPT ![r] = child]
        /\ Task(r, "merged")
        /\ UNCHANGED <<chainRepair, chainFaults>>

StoreChild(r) ==
    /\ chainTask[r] = "merged"
    /\ Store(r, chainCopy[r])
    /\ Task(r, "ended")
    /\ chainCopy' = [chainCopy EXCEPT ![r] = ChainEmpty]
    /\ UNCHANGED <<chainRepair, chainFaults>>

\* No payload of the child, or none of the union: the handler of the task
\* marks the child as failed.
RejectMerge(r) ==
    /\ chainTask[r] = "running"
    /\ chainRow[r].parent # NoRun
    /\ \E child \in RunSteps(chainRow[r], chainRow[r].expands[2]) :
        child.sankey # NoSankey =>
            ~ValidSankey(MergeExpansion(chainCopy[r].sankey, child.sankey, chainRow[r].expands[1]))
    /\ Store(r, [chainRow[r] EXCEPT !.status = "failed"])
    /\ Task(r, "ended")
    /\ UNCHANGED <<chainCopy, chainRepair, chainFaults>>

\* An update of the store fails.  The handler stores as failed what the task
\* has, the handler of an expansion what the store has.
FailChain(r) ==
    /\ chainTask[r] \in {"queued", "running", "merged"}
    /\ chainFaults < MaxChainFaults
    /\ ~chainRow[r].demo
    /\ \E state \in IF chainTask[r] = "running" /\ chainRow[r].parent = NoRun
                     THEN RunSteps(chainRow[r], Product) ELSE {chainRow[r]} :
        Store(r, [state EXCEPT !.status = "failed"])
    /\ Task(r, "ended")
    /\ chainFaults' = chainFaults + 1
    /\ UNCHANGED <<chainCopy, chainRepair>>

LoseChain(r) ==
    /\ chainTask[r] \in {"queued", "running", "merged"}
    /\ chainFaults < MaxChainFaults
    /\ Task(r, "lost")
    /\ chainFaults' = chainFaults + 1
    /\ UNCHANGED <<chainRow, chainCopy, chainRepair>>

\* Mutant: what is repaired is evaluated again.
ReadSankeyAgain(r) ==
    /\ chainRepair.run = NoRun
    /\ chainRow[r].sankey # NoSankey
    /\ LET repaired == BuildSankey(chainRow[r].sankey)
           verdict == EvaluateChain(repaired, Cardinality(SourceTypes(repaired.evidence)))
       IN  /\ ValidSankey(repaired)
           /\ repaired # chainRow[r].sankey
           /\ chainRepair' = [run |-> r, row |-> [chainRow[r] EXCEPT !.sankey = repaired, !.status = ChainStatus(verdict)]]
    /\ UNCHANGED <<chainRow, chainTask, chainCopy, chainFaults>>

\* GET /supply-chain/{run_id}/sankey: a payload of an older build, or one
\* that a merge put together, is built anew, and written if it differs.
ReadSankey(r) ==
    /\ chainRepair.run = NoRun
    /\ chainRow[r].sankey # NoSankey
    /\ LET repaired == BuildSankey(chainRow[r].sankey)
       IN  /\ ValidSankey(repaired)
           /\ repaired # chainRow[r].sankey
           /\ chainRepair' = [run |-> r, row |-> [chainRow[r] EXCEPT !.sankey = repaired]]
    /\ UNCHANGED <<chainRow, chainTask, chainCopy, chainFaults>>

WriteRepaired ==
    /\ chainRepair.run # NoRun
    /\ Store(chainRepair.run, chainRepair.row)
    /\ chainRepair' = [run |-> NoRun, row |-> ChainEmpty]
    /\ UNCHANGED <<chainTask, chainCopy, chainFaults>>

ChainProceeds(r) ==
    InitializeChain(r) \/ FinishChain(r) \/ BeginExpansion(r) \/ MergeIntoParent(r)
        \/ StoreChild(r) \/ RejectMerge(r)

ChainNext ==
    \/ \E r \in ChainRuns :
        \/ PostExplore(r) \/ ExploreFromCommandLine(r)
        \/ \E p \in ChainRuns : PostExpand(p, r)
        \/ ChainProceeds(r) \/ FailChain(r) \/ LoseChain(r) \/ ReadSankey(r)
    \/ WriteRepaired

ChainSteps == ChainInit /\ [][ChainNext]_chainVars

ChainSpec == ChainSteps /\ \A r \in ChainRuns : WF_chainVars(ChainProceeds(r))
-----------------------------------------------------------------------------
(* Properties *)

ChainTypeOK ==
    \A r \in ChainRuns :
        /\ chainRow[r].status \in {"none", "queued", "running"} \cup ChainFinal
        /\ chainRow[r].verdict \in {"none", "pass", "needs_review", "fail"}
        /\ chainTask[r] \in {"none", "queued", "running", "merged", "ended", "lost"}
        /\ chainRow[r].parent \in ChainRuns \cup {NoRun}

\* Evidence behind a payload: it is valid, every confirmed link and every node
\* cites rows that are stored with it, and one repair settles it.
SoundPayload(payload) ==
    /\ ValidSankey(payload)
    /\ \A l \in Confirmed(Range(payload.links)) : l.cites # {} /\ l.cites \subseteq payload.evidence
    /\ \A n \in Range(payload.nodes) : n.cites \subseteq payload.evidence /\ n.depth \in 0..Deepest
    /\ LET repaired == BuildSankey(payload)
       IN  repaired = payload \/ (BuildSankey(repaired) = repaired /\ LinkIds(repaired.links) = LinkIds(payload.links))

\* Whatever is explored, expanded, merged from a stale copy and repaired, the
\* payload that the store serves is sound.
ChainsAreSound ==
    \A r \in ChainRuns : chainRow[r].sankey # NoSankey => SoundPayload(chainRow[r].sankey)

\* A task that has ended leaves a decided run: the payload of every graph the
\* steps make can be built, and no merge or repair, however stale its copy,
\* takes a run back to running.
EndedIsDecided ==
    \A r \in ChainRuns : chainTask[r] = "ended" => chainRow[r].status \in ChainFinal

\* Every stored run, expansion and parent alike, is one as a panel that polls it
\* takes it to be: a merge or a repair, which write a whole row back from a
\* copy, never show a decided run otherwise.
ChainPanel == INSTANCE PolledRuns WITH Polled <- ChainRuns, shown <- [r \in ChainRuns |-> chainRow[r].status]

\* A child at work on a copy of its parent.
Expanding(r) == chainTask[r] = "running" /\ chainRow[r].parent # NoRun

\* Of the tasks and requests that will write a row back, there is one for each
\* run: two expansions of it, or an expansion and a repair, do not overlap.
OneAtATime ==
    /\ \A q, r \in ChainRuns : Expanding(q) /\ Expanding(r) /\ chainRow[q].parent = chainRow[r].parent => q = r
    /\ \A r \in ChainRuns : Expanding(r) => chainRow[r].parent # chainRepair.run

\* What the merge promises: nothing of a payload is lost later on.  It holds as
\* long as there is OneAtATime, and the code does not see to that.
ExpansionsKeepEvidence ==
    [][\A r \in ChainRuns : chainRow[r].sankey # NoSankey =>
        /\ chainRow[r].sankey.evidence \subseteq chainRow'[r].sankey.evidence
        /\ LinkIds(chainRow[r].sankey.links) \subseteq LinkIds(chainRow'[r].sankey.links)]_chainVars
=============================================================================

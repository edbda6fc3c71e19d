-------------------------- MODULE GlobalAgentGraph --------------------------
(***************************************************************************)
(* The planner loop of one agent run (ai/graphs/global_agent.py with       *)
(* agents/planner.py and agents/state.py): plan, pick the next subgoal     *)
(* whose dependencies are complete, execute it, turn its tool events into  *)
(* evidence candidates, and plan again until a stop is decided.  Subgoals, *)
(* candidates and review items are named by their position.                *)
(***************************************************************************)
EXTENDS Integers, Sequences

CONSTANTS
    PlanSizes,      \* how many subgoals the initial plan may have
    PlannerIsLLM,   \* is a model asked before the rules?
    Proposals,      \* the next_subgoals a model may attach to a decision
    Outcomes,       \* what the tool events of one subgoal may amount to
    MaxSubgoals,    \* AgentBudget.max_subgoals
    MaxToolCalls    \* AgentBudget.max_total_tool_calls

CandidateStatuses == {"accepted", "rejected", "needs_review"}
SubgoalStatuses ==
    {"pending", "running", "completed", "failed", "skipped", "needs_review"}
StopReasons == {"enough_evidence", "budget_exhausted", "tool_failures",
                "low_confidence", "human_review_required", "user_cancelled"}
RunStatuses == {"queued", "running", "completed", "failed", "needs_review"}

SubgoalRecords == [deps: SUBSET (Nat \ {0}), status: SubgoalStatuses]
CandidateRecords == [subgoal: Nat \ {0}, status: CandidateStatuses]
ItemRecords ==
    [about: {"report_claim", "evidence_candidate"}, object: Nat \ {0},
     status: {"pending", "approved", "rejected", "commented"}]

\* Each tool event yields at least one candidate, a rejected one if nothing else.
ASSUME GraphAssumption ==
    /\ PlanSizes \subseteq 1..3
    /\ PlannerIsLLM \in BOOLEAN
    /\ Proposals \subseteq Seq(SubgoalRecords)
    /\ Outcomes \subseteq
         [calls: Nat \ {0}, found: Seq(CandidateStatuses) \ {<<>>}]
    /\ MaxSubgoals \in Nat \ {0}
    /\ MaxToolCalls \in Nat

VARIABLES
    pc,          \* the node the graph is about to run
    status,      \* AgentRunState.status
    reason,      \* the stop_reason of the last decision, {} before one
    subgoals,
    candidates,  \* evidence_candidates
    accepted,    \* accepted_evidence_ids
    items,       \* human_review_items
    executed,    \* executed_subgoals
    toolCalls,   \* tool_calls
    active       \* active_subgoal_id, {} when None

evidence == <<candidates, accepted, items>>
counters == <<executed, toolCalls>>
graphVars == <<pc, status, reason, subgoals, candidates, accepted, items,
               executed, toolCalls, active>>

GraphInit ==
    /\ pc = "initialize"
    /\ status = "queued"
    /\ reason = {}
    /\ subgoals = <<>>
    /\ candidates = <<>>
    /\ accepted = {}
    /\ items = <<>>
    /\ executed = 0
    /\ toolCalls = 0
    /\ active = {}

-----------------------------------------------------------------------------
\* initialize: the first plan always follows the rules, never the model.
Initialize ==
    /\ pc = "initialize"
    /\ \E n \in PlanSizes :
         subgoals' = [i \in 1..n |-> [deps |-> {}, status |-> "pending"]]
    /\ status' = "running"
    /\ pc' = "plan_next"
    /\ UNCHANGED <<reason, evidence, counters, active>>

Completed(sgs) == {i \in DOMAIN sgs : sgs[i].status = "completed"}

\* Mutant: dependencies that are not known do not hold a subgoal back.
ReadyIgnoringUnknown(sgs) ==
    {i \in DOMAIN sgs : /\ sgs[i].status = "pending"
                        /\ sgs[i].deps \cap DOMAIN sgs \subseteq Completed(sgs)}

\* The pending subgoals whose dependencies, known or not, are all complete.
Ready(sgs) ==
    {i \in DOMAIN sgs : /\ sgs[i].status = "pending"
                        /\ sgs[i].deps \subseteq Completed(sgs)}

\* The least element of S, if it has one.
First(S) == {i \in S : \A j \in S : i <= j}

\* _stop: the stop decision is recorded; only a running run becomes completed.
Stop(why, outcome) ==
    /\ reason' = {why}
    /\ status' = outcome

Planning == pc = "plan_next" /\ status = "running"

\* A run that execute_subgoal has ended goes straight to finish.
FinishEnded ==
    /\ pc = "plan_next"
    /\ status # "running"
    /\ pc' = "done"
    /\ UNCHANGED <<status, reason, subgoals, evidence, counters, active>>

\* Mutant: one subgoal over the budget.
SubgoalsLeftOffByOne == executed <= MaxSubgoals

SubgoalsLeft == executed < MaxSubgoals

StopOnSubgoals ==
    /\ Planning
    /\ ~SubgoalsLeft
    /\ Stop("budget_exhausted", "completed")
    /\ pc' = "done"
    /\ UNCHANGED <<subgoals, evidence, counters, active>>

\* More time has passed than max_total_runtime_seconds: not before one subgoal.
StopOnTime ==
    /\ Planning
    /\ SubgoalsLeft
    /\ executed > 0
    /\ Stop("budget_exhausted", "completed")
    /\ pc' = "done"
    /\ UNCHANGED <<subgoals, evidence, counters, active>>

-----------------------------------------------------------------------------
(* decide: a pending subgoal must be called, by the rules and by the validator *)
(* of the model's output (a model that insists on anything else is replaced by *)
(* the rules).  With nothing pending the rules stop and a model is free.       *)

Deciding == Planning /\ SubgoalsLeft

\* What a decision may add to the subgoals: nothing, when the rules take it.
Proposed == {<<>>} \cup (IF PlannerIsLLM THEN Proposals ELSE {})

PlannerStops ==
    /\ Deciding
    /\ Ready(subgoals) = {}
    /\ \E why \in IF PlannerIsLLM THEN StopReasons ELSE {"enough_evidence"} :
         Stop(why, "completed")
    /\ \E more \in Proposed : subgoals' = subgoals \o more
    /\ pc' = "done"
    /\ UNCHANGED <<evidence, counters, active>>

\* A decision to plan, ask for review, accept or fall back ends the run too.
PlannerSelectsNoTools ==
    /\ Deciding
    /\ PlannerIsLLM /\ Ready(subgoals) = {}
    /\ \E more \in Proposed : subgoals' = subgoals \o more
    /\ Stop("low_confidence", "completed")
    /\ pc' = "done"
    /\ UNCHANGED <<evidence, counters, active>>

\* call_tools: the subgoal to run is looked up again, with what the decision
\* added, and need not be the one the decision names.
PlannerCallsTools ==
    /\ Deciding
    /\ PlannerIsLLM \/ Ready(subgoals) # {}
    /\ \E more \in Proposed :
         LET sgs == subgoals \o more IN
         IF Ready(sgs) = {}
         THEN /\ subgoals' = sgs
              /\ Stop("enough_evidence", "completed")
              /\ pc' = "done"
              /\ UNCHANGED active
         ELSE /\ \E i \in First(Ready(sgs)) :
                   /\ subgoals' = [sgs EXCEPT ![i].status = "running"]
                   /\ active' = {i}
              /\ pc' = "execute"
              /\ UNCHANGED <<status, reason>>
    /\ UNCHANGED <<evidence, counters>>

-----------------------------------------------------------------------------
(* execute_subgoal *)

\* Mutant: a subgoal that fails is passed over, and counts for nothing.
SubgoalFailsGoesOn ==
    /\ pc = "execute"
    /\ \E i \in active : subgoals' = [subgoals EXCEPT ![i].status = "failed"]
    /\ pc' = "plan_next"
    /\ UNCHANGED <<status, reason, evidence, counters, active>>

\* The subgoal's runtime cannot be built or raises.
SubgoalFails ==
    /\ pc = "execute"
    /\ \E i \in active : subgoals' = [subgoals EXCEPT ![i].status = "failed"]
    /\ Stop("tool_failures", "failed")
    /\ pc' = "plan_next"
    /\ UNCHANGED <<evidence, counters, active>>

\* No tool was called: the answer itself goes to review.
NoToolEvents ==
    /\ pc = "execute"
    /\ \E i \in active :
         /\ subgoals' = [subgoals EXCEPT ![i].status = "needs_review"]
         /\ items' = Append(items, [about |-> "report_claim", object |-> i,
                                    status |-> "pending"])
    /\ executed' = executed + 1
    /\ Stop("human_review_required", "needs_review")
    /\ active' = {}
    /\ pc' = "plan_next"
    /\ UNCHANGED <<candidates, accepted, toolCalls>>

Positions(found, wanted) == {k \in DOMAIN found : found[k] = wanted}

\* Mutant: the position counted from the end of the earlier candidates.
ForReviewOffByOne(found) ==
    LET unsure == Positions(found, "needs_review")
    IN  IF unsure = {} THEN {0} ELSE First(unsure)

\* The candidate put to review: the first that needs it, or else the first.
ForReview(found) ==
    LET unsure == Positions(found, "needs_review")
    IN  IF unsure = {} THEN {1} ELSE First(unsure)

\* Mutant: evidence that still needs a review counts.
SubgoalVerdictUnreviewed(found) ==
    IF Positions(found, "rejected") = DOMAIN found
    THEN "needs_review" ELSE "completed"

SubgoalVerdict(found) ==
    IF Positions(found, "accepted") = {} THEN "needs_review" ELSE "completed"

\* Mutant: whatever is not rejected is accepted.
AcceptedFromUnrejected(base, found) ==
    {base + k : k \in DOMAIN found \ Positions(found, "rejected")}

AcceptedFrom(base, found) == {base + k : k \in Positions(found, "accepted")}

\* Tool events become candidates.  The tool budget is looked at before the
\* verdict: a run that exhausts it ends without asking for a review.
ToolEvents ==
    /\ pc = "execute"
    /\ \E i \in active, got \in Outcomes :
         LET base    == Len(candidates)
             verdict == SubgoalVerdict(got.found)
         IN  /\ candidates' = candidates \o
                  [k \in DOMAIN got.found |-> [subgoal |-> i,
                                               status |-> got.found[k]]]
             /\ accepted' = accepted \cup AcceptedFrom(base, got.found)
             /\ executed' = executed + 1
             /\ toolCalls' = toolCalls + got.calls
             /\ subgoals' = [subgoals EXCEPT ![i].status = verdict]
             /\ \/ /\ toolCalls' >= MaxToolCalls
                   /\ Stop("budget_exhausted", "completed")
                   /\ UNCHANGED <<items, active>>
                \/ /\ toolCalls' < MaxToolCalls
                   /\ verdict = "needs_review"
                   /\ \E k \in ForReview(got.found) :
                        items' = Append(items,
                           [about |-> "evidence_candidate", object |-> base + k,
                            status |-> "pending"])
                   /\ Stop("human_review_required", "needs_review")
                   /\ active' = {}
                \/ /\ toolCalls' < MaxToolCalls
                   /\ verdict = "completed"
                   /\ active' = {}
                   /\ UNCHANGED <<status, reason, items>>
    /\ pc' = "plan_next"

\* The normalizer is not guarded: an event it cannot read ends the graph.
NormalizerRaises ==
    /\ pc = "execute"
    /\ pc' = "raised"
    /\ UNCHANGED <<status, reason, subgoals, evidence, counters, active>>

GraphNext ==
    \/ Initialize \/ FinishEnded \/ StopOnSubgoals \/ StopOnTime
    \/ PlannerStops \/ PlannerSelectsNoTools \/ PlannerCallsTools \/ SubgoalFails
    \/ NoToolEvents \/ ToolEvents \/ NormalizerRaises

-----------------------------------------------------------------------------
(* Properties of the loop *)

GraphTypeOK ==
    /\ pc \in {"initialize", "plan_next", "execute", "done", "raised"}
    /\ status \in RunStatuses
    /\ reason \in SUBSET StopReasons
    /\ subgoals \in Seq(SubgoalRecords)
    /\ candidates \in Seq(CandidateRecords)
    /\ accepted \subseteq DOMAIN candidates
    /\ items \in Seq(ItemRecords)
    /\ executed \in Nat
    /\ toolCalls \in Nat
    /\ active \subseteq DOMAIN subgoals

\* A subgoal is executed only when everything it depends on is complete, known
\* to the run or not, whatever the model added to the plan meanwhile.
DependenciesMet ==
    pc = "execute" =>
        \A i \in active : subgoals[i].deps \subseteq Completed(subgoals)

\* A subgoal that ran is complete only with an accepted candidate of its own; the
\* others that are complete were proposed so and have no candidate at all.
CompletedHasEvidence ==
    \A i \in Completed(subgoals) :
        (\E k \in DOMAIN candidates : candidates[k].subgoal = i) =>
            \E k \in accepted : candidates[k].subgoal = i

\* At most max_subgoals are executed, and none once the tool budget is gone.
BudgetRespected ==
    /\ executed <= MaxSubgoals
    /\ pc = "execute" => /\ executed < MaxSubgoals
                         /\ executed > 0 => toolCalls < MaxToolCalls

\* How many nodes the graph still visits at most, whatever it is told: two for
\* every subgoal the budget leaves, and the way out.
NodesLeft ==
    CASE pc = "initialize"                        -> 2 * MaxSubgoals + 3
      [] pc = "plan_next" /\ status = "running"   -> 2 * (MaxSubgoals - executed) + 2
      [] pc = "execute"                           -> 2 * (MaxSubgoals - executed) + 1
      [] pc = "plan_next" /\ status # "running"   -> 1
      [] pc \in {"done", "raised"}                -> 0

\* Every step takes the loop nearer to its end: no planner, however often it calls
\* tools and whatever subgoals it adds, keeps a run going beyond its budget.
LoopWindsDown == [][NodesLeft' \in 0..(NodesLeft - 1)]_graphVars

\* The accepted ids of the run are those of its accepted candidates.
AcceptedMatchCandidates ==
    accepted = {k \in DOMAIN candidates : candidates[k].status = "accepted"}

EvidenceAccounted == CompletedHasEvidence /\ AcceptedMatchCandidates

\* docs/TCFD_TUTORIAL_0_5_FINRISK_COMPARISON_CN.md:532-533, when a review is
\* needed the graph writes a review item.
ReviewItemWritten ==
    pc = "done" /\ (\E i \in DOMAIN subgoals : subgoals[i].status = "needs_review")
        => items # <<>>
=============================================================================

---------------------------- MODULE MCAgentRuns ----------------------------
(* Instances of AgentRuns for TLC. *)
EXTENDS AgentRuns

\* What one subgoal may yield: a verdict of each kind, mixed ones, two calls.
MCOutcomes ==
    [calls: {1}, found: {<<"accepted">>, <<"rejected">>}]
    \cup [calls: {2}, found: {<<"rejected", "needs_review">>,
                              <<"needs_review", "accepted">>}]

\* What a model may add to the plan: a subgoal that waits for the first one, two
\* of which the first waits for the second, one that waits for a subgoal the
\* run does not know, and one that claims to be complete.
Subgoal(deps, st) == [deps |-> deps, status |-> st]
MCProposals ==
    {<<Subgoal({1}, "pending")>>,
     <<Subgoal({4}, "pending"), Subgoal({}, "pending")>>,
     <<Subgoal({9}, "pending")>>,
     <<Subgoal({}, "completed"), Subgoal({3}, "pending")>>}
=============================================================================

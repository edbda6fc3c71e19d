-------------------------- MODULE AgentRunsProofs --------------------------
(***************************************************************************)
(* What holds of an agent run for every plan, every model, every outcome   *)
(* of the tools, every budget, and any number of overlapping reviewers.    *)
(***************************************************************************)
EXTENDS AgentRuns, SequenceTheorems, TLAPS

-----------------------------------------------------------------------------
(* The inductive invariant of the planner loop *)

\* Every review item on a candidate names one.
ItemsRefer(its, cands) ==
    \A k \in DOMAIN its :
        its[k].about = "evidence_candidate" => its[k].object \in DOMAIN cands

\* A state waits for review exactly while an item is pending.
Waits(st, its) == st = "needs_review" <=> Pending(its) # {}

\* Where the run stands at each node.
Counting ==
    /\ pc = "initialize" => /\ status = "queued" /\ executed = 0
                            /\ candidates = <<>> /\ subgoals = <<>>
    /\ (pc = "plan_next" /\ status = "running" /\ executed > 0)
           => toolCalls < MaxToolCalls

\* What is true of the subgoal being executed and of the subgoals with candidates.
Executing ==
    /\ pc = "execute" => /\ status = "running"
                         /\ \A i \in active : subgoals[i].status = "running"
    /\ \A k \in DOMAIN candidates : candidates[k].subgoal \in DOMAIN subgoals

GraphInv ==
    /\ GraphTypeOK
    /\ DependenciesMet
    /\ BudgetRespected
    /\ CompletedHasEvidence
    /\ AcceptedMatchCandidates
    /\ Counting
    /\ Executing
    /\ Waits(status, items)
    /\ ItemsRefer(items, candidates)

-----------------------------------------------------------------------------
(* Facts about the helpers *)

\* Adding what a decision proposes leaves the subgoals there were as they are.
LEMMA AddedSubgoals ==
    ASSUME NEW sgs \in Seq(SubgoalRecords), NEW more \in Proposed
    PROVE  /\ sgs \o more \in Seq(SubgoalRecords)
           /\ DOMAIN sgs \subseteq DOMAIN (sgs \o more)
           /\ \A i \in DOMAIN sgs : (sgs \o more)[i] = sgs[i]
<1>1. more \in Seq(SubgoalRecords)
  <2>1. more = <<>> \/ more \in Proposals
    BY DEF Proposed
  <2>2. <<>> \in Seq(SubgoalRecords)
    OBVIOUS
  <2>3. Proposals \subseteq Seq(SubgoalRecords)
    BY GraphAssumption
  <2>4. QED
    BY <2>1, <2>2, <2>3
<1>2. QED
  BY <1>1, ConcatProperties

\* Changing the status of one subgoal.
LEMMA SubgoalUpdate ==
    ASSUME NEW sgs \in Seq(SubgoalRecords), NEW i \in DOMAIN sgs,
           NEW st \in SubgoalStatuses
    PROVE  /\ [sgs EXCEPT ![i].status = st] \in Seq(SubgoalRecords)
           /\ DOMAIN [sgs EXCEPT ![i].status = st] = DOMAIN sgs
           /\ [sgs EXCEPT ![i].status = st][i].status = st
           /\ \A j \in DOMAIN sgs :
                /\ [sgs EXCEPT ![i].status = st][j].deps = sgs[j].deps
                /\ j # i => [sgs EXCEPT ![i].status = st][j] = sgs[j]
<1> DEFINE new == [sgs EXCEPT ![i].status = st]
<1>1. \A j \in DOMAIN sgs : sgs[j] \in SubgoalRecords
  OBVIOUS
<1>2. DOMAIN new = DOMAIN sgs
  OBVIOUS
<1>3. \A j \in DOMAIN sgs : j # i => new[j] = sgs[j]
  OBVIOUS
<1>4. new[i] = [sgs[i] EXCEPT !.status = st]
  OBVIOUS
<1>5. new[i] \in SubgoalRecords /\ new[i].status = st /\ new[i].deps = sgs[i].deps
  BY <1>1, <1>4 DEF SubgoalRecords
<1>6. new \in Seq(SubgoalRecords)
  <2>1. new \in [1..Len(sgs) -> SubgoalRecords]
    BY <1>1, <1>2, <1>3, <1>5
  <2>2. QED
    BY <2>1
<1>7. QED
  BY <1>2, <1>3, <1>5, <1>6

\* The candidates made of the verdicts on a subgoal.
LEMMA MadeCandidates ==
    ASSUME NEW i \in Nat \ {0}, NEW found \in Seq(CandidateStatuses)
    PROVE  LET rows == [k \in DOMAIN found |-> [subgoal |-> i, status |-> found[k]]]
           IN  /\ rows \in Seq(CandidateRecords) /\ Len(rows) = Len(found)
               /\ \A k \in DOMAIN found : /\ rows[k].subgoal = i
                                          /\ rows[k].status = found[k]
<1> DEFINE rows == [k \in DOMAIN found |-> [subgoal |-> i, status |-> found[k]]]
<1>1. DOMAIN found = 1..Len(found) /\ Len(found) \in Nat
  OBVIOUS
<1>2. rows \in [1..Len(found) -> CandidateRecords]
  BY <1>1 DEF CandidateRecords
<1>3. rows \in Seq(CandidateRecords) /\ Len(rows) = Len(found)
  BY <1>1, <1>2
<1>4. QED
  BY <1>1, <1>3

\* They are added after those there were.
LEMMA AddedCandidates ==
    ASSUME NEW cands \in Seq(CandidateRecords), NEW rows \in Seq(CandidateRecords)
    PROVE  /\ cands \o rows \in Seq(CandidateRecords)
           /\ DOMAIN (cands \o rows) = 1..(Len(cands) + Len(rows))
           /\ \A k \in DOMAIN cands : (cands \o rows)[k] = cands[k]
           /\ \A k \in (DOMAIN (cands \o rows)) \ (1..Len(cands)) :
                 /\ k - Len(cands) \in 1..Len(rows)
                 /\ (cands \o rows)[k] = rows[k - Len(cands)]
<1>1. Len(rows) \in Nat /\ Len(cands) \in Nat
  OBVIOUS
<1>2. /\ cands \o rows \in Seq(CandidateRecords)
      /\ Len(cands \o rows) = Len(cands) + Len(rows)
      /\ \A k \in 1..(Len(cands) + Len(rows)) :
            (cands \o rows)[k] = IF k <= Len(cands) THEN cands[k]
                                 ELSE rows[k - Len(cands)]
  BY ConcatProperties
<1>3. ASSUME NEW k \in (1..(Len(cands) + Len(rows))) \ (1..Len(cands))
      PROVE  /\ k - Len(cands) \in 1..Len(rows)
             /\ (cands \o rows)[k] = rows[k - Len(cands)]
  <2>1. k \in Int /\ ~(k <= Len(cands)) /\ k <= Len(cands) + Len(rows)
    BY <1>1
  <2>2. QED
    BY <1>1, <1>2, <2>1
<1>4. DOMAIN (cands \o rows) = 1..(Len(cands) + Len(rows))
  BY <1>2
<1>5. \A k \in DOMAIN cands : (cands \o rows)[k] = cands[k]
  BY <1>1, <1>2
<1>6. QED
  BY <1>2, <1>3, <1>4, <1>5

\* A pending item more.
LEMMA AddedItem ==
    ASSUME NEW its \in Seq(ItemRecords), NEW item \in ItemRecords,
           item.status = "pending"
    PROVE  /\ Append(its, item) \in Seq(ItemRecords)
           /\ Pending(Append(its, item)) # {}
           /\ \A k \in DOMAIN Append(its, item) :
                 (k \in DOMAIN its /\ Append(its, item)[k] = its[k])
                 \/ Append(its, item)[k] = item
<1>1. /\ Append(its, item) \in Seq(ItemRecords)
      /\ Len(Append(its, item)) = Len(its) + 1
      /\ \A i \in 1..Len(its) : Append(its, item)[i] = its[i]
      /\ Append(its, item)[Len(its) + 1] = item
  BY AppendProperties
<1>2. Len(its) + 1 \in Pending(Append(its, item))
  BY <1>1 DEF Pending
<1>3. QED
  BY <1>1, <1>2

-----------------------------------------------------------------------------
(* The planner loop preserves its invariant *)

LEMMA GraphStarts == GraphInit => GraphInv
<1> SUFFICES ASSUME GraphInit PROVE GraphInv
  OBVIOUS
<1> USE DEF GraphInit
<1>1. GraphTypeOK
  BY DEF GraphTypeOK, RunStatuses, StopReasons
<1>2. Pending(items) = {} /\ Completed(subgoals) = {}
  BY DEF Pending, Completed
<1>3. BudgetRespected
  BY GraphAssumption DEF BudgetRespected
<1>4. QED
  BY <1>1, <1>2, <1>3 DEF GraphInv, DependenciesMet, CompletedHasEvidence,
     AcceptedMatchCandidates, Counting, Executing, Waits, ItemsRefer

LEMMA InitializeKeeps ==
    ASSUME GraphInv, Initialize
    PROVE  GraphInv'
<1> USE DEF Initialize, evidence, counters
<1>1. PICK n \in PlanSizes :
         subgoals' = [i \in 1..n |-> [deps |-> {}, status |-> "pending"]]
  OBVIOUS
<1>2. n \in Nat /\ subgoals' \in Seq(SubgoalRecords)
  BY <1>1, GraphAssumption DEF SubgoalRecords, SubgoalStatuses
<1>3. /\ status = "queued" /\ executed = 0 /\ candidates = <<>> /\ active = {}
      /\ Completed(subgoals') = {}
  BY <1>1, <1>2 DEF GraphInv, Counting, GraphTypeOK, Completed
<1>4. GraphTypeOK'
  BY <1>2, <1>3 DEF GraphInv, GraphTypeOK, RunStatuses
<1>5. BudgetRespected'
  BY <1>3 DEF GraphInv, BudgetRespected
<1>6. CompletedHasEvidence' /\ DependenciesMet' /\ Executing' /\ Counting'
  BY <1>3 DEF CompletedHasEvidence, DependenciesMet, Executing, Counting
<1>7. AcceptedMatchCandidates' /\ Waits(status, items)' /\ ItemsRefer(items, candidates)'
  BY <1>3 DEF GraphInv, AcceptedMatchCandidates, Waits, ItemsRefer, Pending
<1>8. QED
  BY <1>4, <1>5, <1>6, <1>7 DEF GraphInv

\* A step that touches neither the plan nor the evidence, and ends the loop
\* without asking for a review, keeps the invariant.
LEMMA EndingKeeps ==
    ASSUME GraphInv, UNCHANGED <<subgoals, evidence, counters, active>>,
           pc' \in {"done", "raised"},
           \/ UNCHANGED <<status, reason>>
           \/ /\ status = "running" /\ status' = "completed"
              /\ reason' \in SUBSET StopReasons
    PROVE  GraphInv'
<1> USE DEF evidence, counters
<1>1. GraphTypeOK'
  BY DEF GraphInv, GraphTypeOK, RunStatuses
<1>2. /\ DependenciesMet' /\ BudgetRespected' /\ Counting' /\ Executing'
      /\ CompletedHasEvidence' /\ AcceptedMatchCandidates'
  BY DEF GraphInv, DependenciesMet, BudgetRespected, Counting, Executing,
     CompletedHasEvidence, AcceptedMatchCandidates, Completed
<1>3. Waits(status, items)' /\ ItemsRefer(items, candidates)'
  BY DEF GraphInv, Waits, ItemsRefer, Pending
<1>4. QED
  BY <1>1, <1>2, <1>3 DEF GraphInv

\* So does one that only adds what a decision proposes.
LEMMA DecisionEndsKeeps ==
    ASSUME GraphInv, Deciding, NEW more \in Proposed, subgoals' = subgoals \o more,
           status' = "completed", reason' \in SUBSET StopReasons, pc' = "done",
           UNCHANGED <<evidence, counters, active>>
    PROVE  GraphInv'
<1> USE DEF evidence, counters
<1>1. subgoals \in Seq(SubgoalRecords) /\ status = "running"
  BY DEF GraphInv, GraphTypeOK, Deciding, Planning
<1>2. /\ subgoals' \in Seq(SubgoalRecords)
      /\ DOMAIN subgoals \subseteq DOMAIN subgoals'
      /\ \A i \in DOMAIN subgoals : subgoals'[i] = subgoals[i]
  BY <1>1, AddedSubgoals
<1>3. GraphTypeOK'
  BY <1>2 DEF GraphInv, GraphTypeOK, RunStatuses
<1>4. Executing' /\ DependenciesMet' /\ Counting'
  BY <1>2 DEF GraphInv, Executing, DependenciesMet, Counting
<1>5. CompletedHasEvidence'
  BY <1>2 DEF GraphInv, CompletedHasEvidence, Executing, Completed
<1>6. BudgetRespected' /\ AcceptedMatchCandidates'
  BY DEF GraphInv, BudgetRespected, AcceptedMatchCandidates
<1>7. Waits(status, items)' /\ ItemsRefer(items, candidates)'
  BY <1>1 DEF GraphInv, Waits, ItemsRefer, Pending
<1>8. QED
  BY <1>3, <1>4, <1>5, <1>6, <1>7 DEF GraphInv

LEMMA PlannerCallsKeeps ==
    ASSUME GraphInv, PlannerCallsTools
    PROVE  GraphInv'
<1> USE DEF evidence, counters
<1>1. PICK more \in Proposed :
        LET sgs == subgoals \o more IN
        IF Ready(sgs) = {}
        THEN /\ subgoals' = sgs
             /\ Stop("enough_evidence", "completed")
             /\ pc' = "done"
             /\ UNCHANGED active
        ELSE /\ \E i \in First(Ready(sgs)) :
                  /\ subgoals' = [sgs EXCEPT ![i].status = "running"]
                  /\ active' = {i}
             /\ pc' = "execute"
             /\ UNCHANGED <<status, reason>>
  BY DEF PlannerCallsTools
<1> DEFINE sgs == subgoals \o more
<1>2. Deciding /\ UNCHANGED <<candidates, accepted, items, executed, toolCalls>>
  BY DEF PlannerCallsTools
<1>3. CASE Ready(sgs) = {}
  BY <1>1, <1>2, <1>3, DecisionEndsKeeps DEF Stop, StopReasons
<1>4. CASE Ready(sgs) # {}
  <2>1. PICK i \in First(Ready(sgs)) :
           subgoals' = [sgs EXCEPT ![i].status = "running"] /\ active' = {i}
    BY <1>1, <1>4
  <2>2. pc' = "execute" /\ UNCHANGED <<status, reason>>
    BY <1>1, <1>4
  <2>3. subgoals \in Seq(SubgoalRecords)
    BY DEF GraphInv, GraphTypeOK
  <2>4. /\ sgs \in Seq(SubgoalRecords)
        /\ DOMAIN subgoals \subseteq DOMAIN sgs
        /\ \A j \in DOMAIN subgoals : sgs[j] = subgoals[j]
    BY <2>3, AddedSubgoals
  <2>5. /\ i \in DOMAIN sgs /\ sgs[i].status = "pending"
        /\ sgs[i].deps \subseteq Completed(sgs)
    BY <2>1 DEF First, Ready
  <2> HIDE DEF sgs
  <2>6. /\ subgoals' \in Seq(SubgoalRecords) /\ DOMAIN subgoals' = DOMAIN sgs
        /\ subgoals'[i].status = "running"
        /\ \A j \in DOMAIN sgs : /\ subgoals'[j].deps = sgs[j].deps
                                 /\ j # i => subgoals'[j] = sgs[j]
    <3>1. "running" \in SubgoalStatuses
      BY DEF SubgoalStatuses
    <3>2. /\ sgs \in Seq(SubgoalRecords) /\ i \in DOMAIN sgs
          /\ subgoals' = [sgs EXCEPT ![i].status = "running"]
      BY <2>1, <2>4, <2>5
    <3>3. QED
      BY <3>1, <3>2, SubgoalUpdate
  <2>7. Completed(subgoals') = Completed(sgs)
    <3>1. \A j \in DOMAIN sgs :
            subgoals'[j].status = "completed" <=> sgs[j].status = "completed"
      BY <2>5, <2>6
    <3>2. QED
      BY <2>6, <3>1 DEF Completed
  <2>8. GraphTypeOK'
    BY <1>2, <2>1, <2>2, <2>5, <2>6 DEF GraphInv, GraphTypeOK
  <2>9. DependenciesMet'
    BY <2>1, <2>5, <2>6, <2>7 DEF DependenciesMet
  <2>10. BudgetRespected' /\ Counting'
    BY <1>2, <2>2 DEF GraphInv, BudgetRespected, Counting, Deciding, Planning,
       SubgoalsLeft
  <2>11. Executing'
    BY <1>2, <2>1, <2>2, <2>4, <2>6 DEF GraphInv, Executing, Deciding, Planning
  <2>12. CompletedHasEvidence'
    <3>1. \A j \in Completed(sgs) : (\E k \in DOMAIN candidates : candidates[k].subgoal = j)
                                      => j \in Completed(subgoals)
      BY <2>4 DEF GraphInv, Executing, Completed
    <3>2. QED
      BY <1>2, <2>7, <3>1 DEF GraphInv, CompletedHasEvidence
  <2>13. AcceptedMatchCandidates' /\ Waits(status, items)' /\ ItemsRefer(items, candidates)'
    BY <1>2, <2>2 DEF GraphInv, AcceptedMatchCandidates, Waits, ItemsRefer, Pending
  <2>14. QED
    BY <2>8, <2>9, <2>10, <2>11, <2>12, <2>13 DEF GraphInv
<1>5. QED
  BY <1>3, <1>4

LEMMA SubgoalFailsKeeps ==
    ASSUME GraphInv, SubgoalFails
    PROVE  GraphInv'
<1> USE DEF evidence, counters
<1>1. PICK i \in active : subgoals' = [subgoals EXCEPT ![i].status = "failed"]
  BY DEF SubgoalFails
<1>2. /\ pc = "execute" /\ pc' = "plan_next" /\ status' = "failed"
      /\ reason' = {"tool_failures"}
      /\ UNCHANGED <<candidates, accepted, items, executed, toolCalls, active>>
  BY DEF SubgoalFails, Stop
<1>3. /\ subgoals \in Seq(SubgoalRecords) /\ i \in DOMAIN subgoals
      /\ status = "running" /\ subgoals[i].status = "running"
  BY <1>2 DEF GraphInv, GraphTypeOK, Executing
<1>4. /\ subgoals' \in Seq(SubgoalRecords) /\ DOMAIN subgoals' = DOMAIN subgoals
      /\ subgoals'[i].status = "failed"
      /\ \A j \in DOMAIN subgoals : j # i => subgoals'[j] = subgoals[j]
  BY <1>1, <1>3, SubgoalUpdate DEF SubgoalStatuses
<1>5. Completed(subgoals') = Completed(subgoals)
  BY <1>3, <1>4 DEF Completed
<1>6. GraphTypeOK'
  BY <1>2, <1>4 DEF GraphInv, GraphTypeOK, RunStatuses, StopReasons
<1>7. DependenciesMet' /\ Executing' /\ Counting' /\ BudgetRespected'
  BY <1>2, <1>4 DEF GraphInv, DependenciesMet, Executing, Counting, BudgetRespected
<1>8. CompletedHasEvidence' /\ AcceptedMatchCandidates'
  BY <1>2, <1>5 DEF GraphInv, CompletedHasEvidence, AcceptedMatchCandidates
<1>9. Waits(status, items)' /\ ItemsRefer(items, candidates)'
  BY <1>2, <1>3 DEF GraphInv, Waits, ItemsRefer, Pending
<1>10. QED
  BY <1>6, <1>7, <1>8, <1>9 DEF GraphInv

LEMMA NoToolEventsKeeps ==
    ASSUME GraphInv, NoToolEvents
    PROVE  GraphInv'
<1> DEFINE item(i) == [about |-> "report_claim", object |-> i, status |-> "pending"]
<1>1. PICK i \in active :
         /\ subgoals' = [subgoals EXCEPT ![i].status = "needs_review"]
         /\ items' = Append(items, item(i))
  BY DEF NoToolEvents
<1>2. /\ pc = "execute" /\ pc' = "plan_next" /\ status' = "needs_review"
      /\ reason' = {"human_review_required"} /\ active' = {}
      /\ executed' = executed + 1
      /\ UNCHANGED <<candidates, accepted, toolCalls>>
  BY DEF NoToolEvents, Stop
<1>3. /\ subgoals \in Seq(SubgoalRecords) /\ i \in DOMAIN subgoals
      /\ subgoals[i].status = "running" /\ items \in Seq(ItemRecords)
  BY <1>2 DEF GraphInv, GraphTypeOK, Executing
<1>4. /\ subgoals' \in Seq(SubgoalRecords) /\ DOMAIN subgoals' = DOMAIN subgoals
      /\ subgoals'[i].status = "needs_review"
      /\ \A j \in DOMAIN subgoals : j # i => subgoals'[j] = subgoals[j]
  BY <1>1, <1>3, SubgoalUpdate DEF SubgoalStatuses
<1>5. Completed(subgoals') = Completed(subgoals)
  BY <1>3, <1>4 DEF Completed
<1>6. item(i) \in ItemRecords
  BY <1>3 DEF ItemRecords
<1>7. /\ items' \in Seq(ItemRecords) /\ Pending(items') # {}
      /\ \A k \in DOMAIN items' : (k \in DOMAIN items /\ items'[k] = items[k])
                                  \/ items'[k] = item(i)
  BY <1>1, <1>3, <1>6, AddedItem
<1>8. GraphTypeOK'
  BY <1>2, <1>4, <1>7 DEF GraphInv, GraphTypeOK, RunStatuses, StopReasons
<1>9. DependenciesMet' /\ Executing' /\ Counting'
  BY <1>2, <1>4 DEF GraphInv, DependenciesMet, Executing, Counting
<1>10. BudgetRespected'
  BY <1>2, GraphAssumption DEF GraphInv, GraphTypeOK, BudgetRespected
<1>11. CompletedHasEvidence' /\ AcceptedMatchCandidates'
  BY <1>2, <1>5 DEF GraphInv, CompletedHasEvidence, AcceptedMatchCandidates
<1>12. Waits(status, items)' /\ ItemsRefer(items, candidates)'
  BY <1>2, <1>7 DEF GraphInv, Waits, ItemsRefer
<1>13. QED
  BY <1>8, <1>9, <1>10, <1>11, <1>12 DEF GraphInv

LEMMA ToolEventsKeeps ==
    ASSUME GraphInv, ToolEvents
    PROVE  GraphInv'
<1> DEFINE base == Len(candidates)
<1> DEFINE item(k) == [about |-> "evidence_candidate", object |-> base + k,
                       status |-> "pending"]
<1>1. PICK i \in active, got \in Outcomes :
        LET verdict == SubgoalVerdict(got.found) IN
        /\ candidates' = candidates \o
             [k \in DOMAIN got.found |-> [subgoal |-> i, status |-> got.found[k]]]
        /\ accepted' = accepted \cup AcceptedFrom(base, got.found)
        /\ executed' = executed + 1
        /\ toolCalls' = toolCalls + got.calls
        /\ subgoals' = [subgoals EXCEPT ![i].status = verdict]
        /\ \/ /\ toolCalls' >= MaxToolCalls
              /\ Stop("budget_exhausted", "completed")
              /\ UNCHANGED <<items, active>>
           \/ /\ toolCalls' < MaxToolCalls
              /\ verdict = "needs_review"
              /\ \E k \in ForReview(got.found) : items' = Append(items, item(k))
              /\ Stop("human_review_required", "needs_review")
              /\ active' = {}
           \/ /\ toolCalls' < MaxToolCalls
              /\ verdict = "completed"
              /\ active' = {}
              /\ UNCHANGED <<status, reason, items>>
  BY DEF ToolEvents
<1> DEFINE found == got.found
           verdict == SubgoalVerdict(found)
<1>2. pc = "execute" /\ pc' = "plan_next"
  BY DEF ToolEvents
<1>3. /\ subgoals \in Seq(SubgoalRecords) /\ i \in DOMAIN subgoals
      /\ candidates \in Seq(CandidateRecords) /\ items \in Seq(ItemRecords)
      /\ executed \in Nat /\ toolCalls \in Nat /\ base \in Nat
      /\ status = "running" /\ subgoals[i].status = "running"
  BY <1>2 DEF GraphInv, GraphTypeOK, Executing
<1>4. /\ found \in Seq(CandidateStatuses) /\ found # <<>> /\ got.calls \in Nat
      /\ DOMAIN found = 1..Len(found) /\ Len(found) \in Nat /\ Len(found) > 0
  <2>1. found \in Seq(CandidateStatuses) /\ found # <<>> /\ got.calls \in Nat
    BY GraphAssumption
  <2>2. QED
    BY <2>1, EmptySeq
<1>5. /\ candidates' \in Seq(CandidateRecords)
      /\ DOMAIN candidates' = 1..(base + Len(found))
      /\ \A k \in DOMAIN candidates : candidates'[k] = candidates[k]
      /\ \A k \in (DOMAIN candidates') \ (1..base) :
            /\ k - base \in DOMAIN found
            /\ candidates'[k].subgoal = i
            /\ candidates'[k].status = found[k - base]
  <2>1. i \in Nat \ {0}
    BY <1>3
  <2> DEFINE rows == [k \in DOMAIN found |-> [subgoal |-> i, status |-> found[k]]]
  <2>2. candidates' = candidates \o rows
    BY <1>1
  <2>3. /\ rows \in Seq(CandidateRecords) /\ Len(rows) = Len(found)
        /\ \A k \in DOMAIN found : rows[k].subgoal = i /\ rows[k].status = found[k]
    BY <1>4, <2>1, MadeCandidates
  <2> HIDE DEF rows
  <2>4. QED
    <3>1. rows \in Seq(CandidateRecords)
      BY <2>3
    <3>2. /\ candidates \o rows \in Seq(CandidateRecords)
          /\ DOMAIN (candidates \o rows) = 1..(base + Len(rows))
          /\ \A k \in DOMAIN candidates : (candidates \o rows)[k] = candidates[k]
          /\ \A k \in (DOMAIN (candidates \o rows)) \ (1..base) :
                /\ k - base \in 1..Len(rows)
                /\ (candidates \o rows)[k] = rows[k - base]
      BY <1>3, <3>1, AddedCandidates
    <3>3. QED
      BY <1>4, <2>2, <2>3, <3>2
<1>6. DOMAIN candidates = 1..base
  BY <1>3
<1>7. verdict \in {"completed", "needs_review"}
  BY DEF SubgoalVerdict
<1>8. /\ subgoals' \in Seq(SubgoalRecords) /\ DOMAIN subgoals' = DOMAIN subgoals
      /\ subgoals'[i].status = verdict
      /\ \A j \in DOMAIN subgoals : j # i => subgoals'[j] = subgoals[j]
  <2>1. subgoals' = [subgoals EXCEPT ![i].status = verdict]
    BY <1>1
  <2>2. verdict \in SubgoalStatuses
    BY <1>7 DEF SubgoalStatuses
  <2> HIDE DEF verdict
  <2>3. QED
    BY <1>3, <2>1, <2>2, SubgoalUpdate
<1>9. /\ accepted' = accepted \cup AcceptedFrom(base, found)
      /\ executed' = executed + 1 /\ toolCalls' = toolCalls + got.calls
  BY <1>1
<1>10. \/ /\ toolCalls' >= MaxToolCalls
          /\ reason' = {"budget_exhausted"} /\ status' = "completed"
          /\ UNCHANGED <<items, active>>
       \/ /\ \E k \in ForReview(found) : items' = Append(items, item(k))
          /\ reason' = {"human_review_required"} /\ status' = "needs_review"
          /\ active' = {}
       \/ /\ toolCalls' < MaxToolCalls /\ active' = {}
          /\ UNCHANGED <<status, reason, items>>
  BY <1>1 DEF Stop
<1> HIDE DEF verdict, item
<1>11. /\ ForReview(found) \subseteq DOMAIN found
       /\ \A k \in DOMAIN found : k \in Nat \ {0} /\ found[k] \in CandidateStatuses
  BY <1>4 DEF ForReview, First, Positions
<1>12. accepted' = {k \in DOMAIN candidates' : candidates'[k].status = "accepted"}
  <2>1. accepted = {k \in DOMAIN candidates : candidates[k].status = "accepted"}
    BY DEF GraphInv, AcceptedMatchCandidates
  <2>2. ASSUME NEW k \in DOMAIN candidates'
        PROVE  k \in accepted' <=> candidates'[k].status = "accepted"
    <3>1. CASE k \in 1..base
      <4>1. k \notin AcceptedFrom(base, found)
        BY <1>3, <1>4, <1>11, <3>1 DEF AcceptedFrom, Positions
      <4>2. QED
        BY <1>5, <1>6, <1>9, <2>1, <3>1, <4>1
    <3>2. CASE k \notin 1..base
      <4>1. k - base \in 1..Len(found) /\ k = base + (k - base)
        BY <1>3, <1>4, <1>5, <3>2
      <4>2. candidates'[k].status = found[k - base]
        BY <1>5, <3>2
      <4>3. k \in AcceptedFrom(base, found) <=> found[k - base] = "accepted"
        BY <1>3, <1>4, <4>1 DEF AcceptedFrom, Positions
      <4>4. k \notin accepted
        BY <1>6, <2>1, <3>2
      <4>5. QED
        BY <1>9, <4>2, <4>3, <4>4
    <3>3. QED
      BY <3>1, <3>2
  <2>3. accepted' \subseteq DOMAIN candidates'
    <3>1. AcceptedFrom(base, found) \subseteq 1..(base + Len(found))
      BY <1>3, <1>4 DEF AcceptedFrom, Positions
    <3>2. 1..base \subseteq 1..(base + Len(found))
      BY <1>3, <1>4
    <3>3. QED
      BY <1>5, <1>6, <1>9, <2>1, <3>1, <3>2
  <2>4. QED
    BY <2>2, <2>3
<1>13. \/ /\ status' # "needs_review"
          /\ items' = items /\ Pending(items') = {}
       \/ /\ status' = "needs_review" /\ items' \in Seq(ItemRecords)
          /\ Pending(items') # {}
          /\ \A k \in DOMAIN items' :
                \/ k \in DOMAIN items /\ items'[k] = items[k]
                \/ items'[k].object \in DOMAIN candidates'
  <2>1. Pending(items) = {}
    BY <1>3 DEF GraphInv, Waits
  <2>2. ASSUME NEW k \in ForReview(found), items' = Append(items, item(k))
        PROVE  /\ items' \in Seq(ItemRecords) /\ Pending(items') # {}
               /\ \A j \in DOMAIN items' :
                    \/ j \in DOMAIN items /\ items'[j] = items[j]
                    \/ items'[j].object \in DOMAIN candidates'
    <3>1. base + k \in DOMAIN candidates' /\ base + k \in Nat \ {0}
      BY <1>3, <1>4, <1>5, <1>11
    <3>2. item(k) \in ItemRecords /\ item(k).status = "pending"
          /\ item(k).object = base + k
      BY <3>1 DEF item, ItemRecords
    <3>3. QED
      BY <1>3, <2>2, <3>1, <3>2, AddedItem
  <2>3. QED
    BY <1>3, <1>10, <2>1, <2>2
<1>14. GraphTypeOK'
  <2>1. accepted' \subseteq DOMAIN candidates'
    BY <1>12
  <2>2. items' \in Seq(ItemRecords)
    BY <1>3, <1>13
  <2>3. /\ status' \in RunStatuses /\ reason' \in SUBSET StopReasons
        /\ active' \subseteq DOMAIN subgoals'
    BY <1>8, <1>10 DEF GraphInv, GraphTypeOK, RunStatuses, StopReasons
  <2>4. executed' \in Nat /\ toolCalls' \in Nat
    BY <1>3, <1>4, <1>9
  <2>5. QED
    BY <1>2, <1>5, <1>8, <2>1, <2>2, <2>3, <2>4 DEF GraphTypeOK
<1>15. Executing'
  <2>1. ASSUME NEW k \in DOMAIN candidates'
        PROVE  candidates'[k].subgoal \in DOMAIN subgoals'
    <3>1. CASE k \in 1..base
      BY <1>5, <1>6, <1>8, <3>1 DEF GraphInv, Executing
    <3>2. CASE k \notin 1..base
      BY <1>3, <1>5, <1>8, <3>2
    <3>3. QED
      BY <3>1, <3>2
  <2>2. QED
    BY <1>2, <2>1 DEF Executing
<1>16. CompletedHasEvidence'
  <2> SUFFICES ASSUME NEW j \in Completed(subgoals'), NEW k \in DOMAIN candidates',
                      candidates'[k].subgoal = j
               PROVE  \E m \in accepted' : candidates'[m].subgoal = j
    BY DEF CompletedHasEvidence
  <2>1. CASE j = i
    <3>1. verdict = "completed"
      BY <1>8, <2>1 DEF Completed
    <3>2. PICK m \in DOMAIN found : found[m] = "accepted"
      BY <3>1 DEF verdict, SubgoalVerdict, Positions
    <3>3. base + m \in accepted' /\ base + m \in (DOMAIN candidates') \ (1..base)
      <4> HIDE DEF base, found
      <4>1. base + m \in AcceptedFrom(base, found)
        BY <3>2 DEF AcceptedFrom, Positions
      <4>2. base + m \in accepted'
        BY <1>9, <4>1
      <4>3. m \in 1..Len(found)
        BY <1>4, <3>2
      <4>4. base + m \in 1..(base + Len(found)) /\ base + m \notin 1..base
        BY <1>3, <1>4, <4>3
      <4>5. QED
        BY <1>5, <4>2, <4>4
    <3>4. QED
      BY <1>5, <2>1, <3>3
  <2>2. CASE j # i
    <3>1. j \in Completed(subgoals)
      BY <1>8, <2>2 DEF Completed
    <3>2. k \in 1..base
      BY <1>5, <2>2
    <3>3. PICK m \in accepted : candidates[m].subgoal = j
      BY <1>5, <1>6, <3>1, <3>2 DEF GraphInv, CompletedHasEvidence
    <3>4. m \in accepted' /\ candidates'[m].subgoal = j
      BY <1>5, <1>9, <3>3 DEF GraphInv, GraphTypeOK
    <3>5. QED
      BY <3>4
  <2>3. QED
    BY <2>1, <2>2
<1>17. BudgetRespected' /\ DependenciesMet' /\ Counting'
  <2>1. executed < MaxSubgoals /\ MaxSubgoals \in Nat
    BY <1>2, GraphAssumption DEF GraphInv, BudgetRespected
  <2>2. BudgetRespected'
    BY <1>2, <1>3, <1>9, <2>1 DEF BudgetRespected
  <2>3. DependenciesMet' /\ Counting'
    BY <1>2, <1>10 DEF DependenciesMet, Counting
  <2>4. QED
    BY <2>2, <2>3
<1>18. AcceptedMatchCandidates' /\ Waits(status, items)'
  BY <1>12, <1>13 DEF AcceptedMatchCandidates, Waits
<1>19. ItemsRefer(items, candidates)'
  <2>1. DOMAIN candidates \subseteq DOMAIN candidates'
    BY <1>3, <1>4, <1>5, <1>6
  <2>2. QED
    BY <1>13, <2>1 DEF GraphInv, ItemsRefer
<1>20. QED
  BY <1>14, <1>15, <1>16, <1>17, <1>18, <1>19 DEF GraphInv
LEMMA GraphKeeps ==
    ASSUME GraphInv, GraphNext
    PROVE  GraphInv'
<1>1. CASE Initialize
  BY <1>1, InitializeKeeps
<1>2. CASE FinishEnded
  BY <1>2, EndingKeeps DEF FinishEnded
<1>3. CASE StopOnSubgoals \/ StopOnTime
  BY <1>3, EndingKeeps DEF StopOnSubgoals, StopOnTime, Planning, Stop, StopReasons
<1>4. CASE PlannerStops
  <2>1. PICK more \in Proposed : subgoals' = subgoals \o more
    BY <1>4 DEF PlannerStops
  <2>2. reason' \in SUBSET StopReasons /\ status' = "completed"
    BY <1>4 DEF PlannerStops, Stop, StopReasons
  <2>3. QED
    BY <1>4, <2>1, <2>2, DecisionEndsKeeps DEF PlannerStops
<1>5. CASE PlannerSelectsNoTools
  <2>1. PICK more \in Proposed : subgoals' = subgoals \o more
    BY <1>5 DEF PlannerSelectsNoTools
  <2>2. reason' \in SUBSET StopReasons /\ status' = "completed"
    BY <1>5 DEF PlannerSelectsNoTools, Stop, StopReasons
  <2>3. QED
    BY <1>5, <2>1, <2>2, DecisionEndsKeeps DEF PlannerSelectsNoTools
<1>6. CASE PlannerCallsTools
  BY <1>6, PlannerCallsKeeps
<1>7. CASE SubgoalFails
  BY <1>7, SubgoalFailsKeeps
<1>8. CASE NoToolEvents
  BY <1>8, NoToolEventsKeeps
<1>9. CASE ToolEvents
  BY <1>9, ToolEventsKeeps
<1>10. CASE NormalizerRaises
  BY <1>10, EndingKeeps DEF NormalizerRaises
<1>11. QED
  BY <1>1, <1>2, <1>3, <1>4, <1>5, <1>6, <1>7, <1>8, <1>9, <1>10 DEF GraphNext

-----------------------------------------------------------------------------
(* The stored row *)

RowOK(r) ==
    /\ r \in Rows
    /\ Waits(r.status, r.items)
    /\ r.accepted \subseteq DOMAIN r.candidates
    /\ ItemsRefer(r.items, r.candidates)

\* A review in flight holds a copy of the row that is as good as the row.
ReviewOK(q) ==
    /\ q \in Reviews
    /\ RowOK(q.row)
    /\ q.at \in IF q.kind = "item" THEN DOMAIN q.row.items
                ELSE DOMAIN q.row.candidates

\* Before its run has ended a row has nothing to review.
Blank ==
    /\ row # NoRow => row.items = <<>> /\ row.candidates = <<>>
                      /\ row.status \in {"queued", "running"}
    /\ \A v \in Reviewers : review[v] = {}

RunInv ==
    /\ GraphInv
    /\ task \in {"none", "scheduled", "graph", "ended", "lost"}
    /\ row = NoRow <=> task = "none"
    /\ row # NoRow => RowOK(row)
    /\ review \in [Reviewers -> SUBSET Reviews]
    /\ \A v \in Reviewers : \A q \in review[v] : ReviewOK(q)
    /\ task \in {"none", "scheduled", "graph"} => Blank

\* A review of an item keeps a row as it should be.
LEMMA ReviewedItemOK ==
    ASSUME NEW r, RowOK(r), NEW k \in DOMAIN r.items, NEW action \in Actions
    PROVE  RowOK(ReviewedItem(r, k, action))
<1> DEFINE its == [r.items EXCEPT ![k].status = Verdict[action]]
           ids == IF r.items[k].about = "evidence_candidate"
                  THEN Accept(r.accepted, r.items[k].object, action)
                  ELSE r.accepted
           new == ReviewedItem(r, k, action)
<1>1. /\ r \in Rows /\ r.items \in Seq(ItemRecords)
      /\ r.candidates \in Seq(CandidateRecords) /\ r.accepted \in SUBSET (Nat \ {0})
      /\ r.status \in RunStatuses
  BY DEF RowOK, Rows
<1>2. Verdict[action] \in {"approved", "rejected", "commented"}
  BY DEF Verdict, Actions
<1>3. r.items[k] \in ItemRecords /\ \A j \in DOMAIN r.items : r.items[j] \in ItemRecords
  BY <1>1
<1>4. /\ DOMAIN its = DOMAIN r.items
      /\ \A j \in DOMAIN r.items : j # k => its[j] = r.items[j]
      /\ its[k] = [r.items[k] EXCEPT !.status = Verdict[action]]
  BY <1>1
<1>5. /\ its[k] \in ItemRecords /\ its[k].status = Verdict[action]
      /\ its[k].about = r.items[k].about /\ its[k].object = r.items[k].object
  BY <1>2, <1>3, <1>4 DEF ItemRecords
<1>6. its \in Seq(ItemRecords)
  <2>1. its \in [1..Len(r.items) -> ItemRecords]
    BY <1>1, <1>3, <1>4, <1>5
  <2>2. QED
    BY <1>1, <2>1
<1>7. ids \subseteq DOMAIN r.candidates
  BY DEF RowOK, ItemsRefer, Accept
<1>8. DOMAIN r.candidates \subseteq Nat \ {0}
  BY <1>1
<1>9. Pending(its) \subseteq Pending(r.items)
  BY <1>2, <1>4, <1>5 DEF Pending
<1> HIDE DEF its, ids
<1>10. new = [r EXCEPT !.items = its, !.accepted = ids,
                       !.status = IF Pending(its) = {} THEN "completed" ELSE @]
  BY DEF ReviewedItem, its, ids
<1>11. /\ new \in Rows /\ new.items = its /\ new.accepted = ids
       /\ new.candidates = r.candidates
       /\ new.status = IF Pending(its) = {} THEN "completed" ELSE r.status
  BY <1>1, <1>6, <1>7, <1>8, <1>10 DEF Rows, RunStatuses
<1>12. Waits(new.status, new.items)
  BY <1>9, <1>11 DEF RowOK, Waits
<1>13. ItemsRefer(its, r.candidates)
  BY <1>4, <1>5 DEF RowOK, ItemsRefer
<1>14. QED
  BY <1>7, <1>11, <1>12, <1>13 DEF RowOK

\* So does a review of a candidate.
LEMMA ReviewedCandidateOK ==
    ASSUME NEW r, RowOK(r), NEW k \in DOMAIN r.candidates, NEW action \in Actions
    PROVE  RowOK(ReviewedCandidate(r, k, action))
<1> DEFINE st == CASE action = "approve" -> "accepted"
                   [] action = "reject"  -> "rejected"
                   [] OTHER              -> r.candidates[k].status
           cands == [r.candidates EXCEPT ![k].status = st]
           ids == Accept(r.accepted, k, action)
           done == /\ \A j \in DOMAIN cands : cands[j].status # "needs_review"
                   /\ Pending(r.items) = {}
           new == ReviewedCandidate(r, k, action)
<1>1. /\ r \in Rows /\ r.items \in Seq(ItemRecords)
      /\ r.candidates \in Seq(CandidateRecords) /\ r.accepted \in SUBSET (Nat \ {0})
      /\ r.status \in RunStatuses
  BY DEF RowOK, Rows
<1>2. \A j \in DOMAIN r.candidates : r.candidates[j] \in CandidateRecords
  BY <1>1
<1>3. st \in CandidateStatuses
  BY <1>2 DEF CandidateRecords, CandidateStatuses
<1> HIDE DEF st
<1>4. cands \in [1..Len(r.candidates) -> CandidateRecords]
  <2>1. /\ DOMAIN cands = DOMAIN r.candidates
        /\ \A j \in DOMAIN r.candidates : j # k => cands[j] = r.candidates[j]
        /\ cands[k] = [r.candidates[k] EXCEPT !.status = st]
    BY <1>1
  <2>2. cands[k] \in CandidateRecords
    BY <1>2, <1>3, <2>1 DEF CandidateRecords
  <2>3. QED
    BY <1>1, <1>2, <2>1, <2>2
<1>5. cands \in Seq(CandidateRecords) /\ DOMAIN cands = DOMAIN r.candidates
  BY <1>1, <1>4
<1>6. ids \subseteq DOMAIN r.candidates /\ DOMAIN r.candidates \subseteq Nat \ {0}
  BY <1>1 DEF RowOK, Accept
<1> HIDE DEF cands, ids, done
<1>7. new = [r EXCEPT !.candidates = cands, !.accepted = ids,
                      !.status = IF done THEN "completed" ELSE @]
  BY DEF ReviewedCandidate, st, cands, ids, done
<1>8. /\ new \in Rows /\ new.items = r.items /\ new.accepted = ids
      /\ new.candidates = cands
      /\ new.status = IF done THEN "completed" ELSE r.status
  BY <1>1, <1>5, <1>6, <1>7 DEF Rows, RunStatuses
<1>9. Waits(new.status, new.items)
  BY <1>8 DEF RowOK, Waits, done
<1>10. ItemsRefer(r.items, cands)
  BY <1>5 DEF RowOK, ItemsRefer
<1>11. QED
  BY <1>5, <1>6, <1>8, <1>9, <1>10 DEF RowOK

-----------------------------------------------------------------------------
(* The run, its row and its reviewers *)

LEMMA RunStarts == Init => RunInv
<1> SUFFICES ASSUME Init PROVE RunInv
  OBVIOUS
<1>1. GraphInv
  BY GraphStarts DEF Init
<1>2. QED
  BY <1>1 DEF Init, RunInv, Blank

LEMMA StoreResultKeeps ==
    ASSUME RunInv, StoreResult
    PROVE  RunInv'
<1> USE DEF StoreResult
<1>1. GraphInv'
  <2>1. UNCHANGED graphVars
    OBVIOUS
  <2>2. QED
    BY <2>1 DEF RunInv, graphVars, GraphInv, GraphTypeOK, DependenciesMet,
       BudgetRespected, CompletedHasEvidence, AcceptedMatchCandidates, Counting,
       Executing, Waits, ItemsRefer, Completed, Pending
<1>2. GraphTypeOK /\ Waits(status, items) /\ ItemsRefer(items, candidates)
  BY DEF RunInv, GraphInv
<1>3. accepted \in SUBSET (Nat \ {0})
  BY <1>2 DEF GraphTypeOK
<1>4. RowOK(row')
  BY <1>2, <1>3 DEF GraphTypeOK, RowOK, Rows
<1>5. row' # NoRow
  BY <1>4, RunAssumption DEF RowOK
<1>6. QED
  BY <1>1, <1>4, <1>5 DEF RunInv

LEMMA WriteRowKeeps ==
    ASSUME RunInv, NEW v \in Reviewers, WriteRow(v)
    PROVE  RunInv'
<1>1. PICK q \in review[v] :
         row' = IF q.kind = "item" THEN ReviewedItem(q.row, q.at, q.action)
                ELSE ReviewedCandidate(q.row, q.at, q.action)
  BY DEF WriteRow
<1>2. /\ review' = [review EXCEPT ![v] = {}] /\ UNCHANGED <<graphVars, task>>
  BY DEF WriteRow
<1>3. ReviewOK(q) /\ q.action \in Actions
  BY <1>1 DEF RunInv, ReviewOK, Reviews
<1>4. RowOK(row')
  BY <1>1, <1>3, ReviewedItemOK, ReviewedCandidateOK DEF ReviewOK
<1>5. row' # NoRow
  BY <1>4, RunAssumption DEF RowOK
<1>6. GraphInv'
  BY <1>2 DEF RunInv, graphVars, GraphInv, GraphTypeOK, DependenciesMet,
     BudgetRespected, CompletedHasEvidence, AcceptedMatchCandidates, Counting,
     Executing, Waits, ItemsRefer, Completed, Pending
<1>7. task \in {"ended", "lost"}
  BY <1>1 DEF RunInv, Blank
<1>8. /\ review' \in [Reviewers -> SUBSET Reviews]
      /\ \A w \in Reviewers : \A p \in review'[w] : ReviewOK(p)
  BY <1>2 DEF RunInv
<1>9. QED
  BY <1>2, <1>4, <1>5, <1>6, <1>7, <1>8 DEF RunInv

LEMMA ReadRowKeeps ==
    ASSUME RunInv, NEW v \in Reviewers, ReadRow(v)
    PROVE  RunInv'
<1>1. row # NoRow /\ RowOK(row) /\ UNCHANGED <<graphVars, row, task>>
  BY DEF ReadRow, RunInv
<1>2. PICK q : /\ review' = [review EXCEPT ![v] = {q}]
               /\ ReviewOK(q)
               /\ row.items # <<>> \/ row.candidates # <<>>
  <2>1. PICK action \in Actions :
         \/ \E k \in DOMAIN row.items :
              review' = [review EXCEPT ![v] =
                 {[row |-> row, kind |-> "item", at |-> k, action |-> action]}]
         \/ \E k \in DOMAIN row.candidates :
              review' = [review EXCEPT ![v] =
                 {[row |-> row, kind |-> "candidate", at |-> k, action |-> action]}]
    BY DEF ReadRow
  <2>2. /\ row.items \in Seq(ItemRecords) /\ row.candidates \in Seq(CandidateRecords)
    BY <1>1 DEF RowOK, Rows
  <2>3. CASE \E k \in DOMAIN row.items :
              review' = [review EXCEPT ![v] =
                 {[row |-> row, kind |-> "item", at |-> k, action |-> action]}]
    <3>1. PICK k \in DOMAIN row.items :
              review' = [review EXCEPT ![v] =
                 {[row |-> row, kind |-> "item", at |-> k, action |-> action]}]
      BY <2>3
    <3>2. k \in Nat \ {0} /\ row.items # <<>>
      BY <2>2, <3>1
    <3>3. ReviewOK([row |-> row, kind |-> "item", at |-> k, action |-> action])
      BY <1>1, <3>1, <3>2 DEF ReviewOK, Reviews, RowOK
    <3>4. QED
      BY <3>1, <3>2, <3>3
  <2>4. CASE \E k \in DOMAIN row.candidates :
              review' = [review EXCEPT ![v] =
                 {[row |-> row, kind |-> "candidate", at |-> k, action |-> action]}]
    <3>1. PICK k \in DOMAIN row.candidates :
              review' = [review EXCEPT ![v] =
                 {[row |-> row, kind |-> "candidate", at |-> k, action |-> action]}]
      BY <2>4
    <3>2. k \in Nat \ {0} /\ row.candidates # <<>>
      BY <2>2, <3>1
    <3>3. ReviewOK([row |-> row, kind |-> "candidate", at |-> k, action |-> action])
      BY <1>1, <3>1, <3>2 DEF ReviewOK, Reviews, RowOK
    <3>4. QED
      BY <3>1, <3>2, <3>3
  <2>5. QED
    BY <2>1, <2>3, <2>4
<1>3. q \in Reviews
  BY <1>2 DEF ReviewOK
<1>4. GraphInv'
  BY <1>1 DEF RunInv, graphVars, GraphInv, GraphTypeOK, DependenciesMet,
     BudgetRespected, CompletedHasEvidence, AcceptedMatchCandidates, Counting,
     Executing, Waits, ItemsRefer, Completed, Pending
<1>5. task \in {"ended", "lost"}
  BY <1>1, <1>2 DEF RunInv, Blank
<1>6. /\ review' \in [Reviewers -> SUBSET Reviews]
      /\ \A w \in Reviewers : \A p \in review'[w] : ReviewOK(p)
  BY <1>2, <1>3 DEF RunInv
<1>7. QED
  BY <1>1, <1>4, <1>5, <1>6 DEF RunInv

LEMMA RunKeeps ==
    ASSUME RunInv, Next
    PROVE  RunInv'
<1> DEFINE SameGraph == UNCHANGED graphVars => GraphInv'
<1>0. SameGraph
  BY DEF RunInv, graphVars, GraphInv, GraphTypeOK, DependenciesMet,
     BudgetRespected, CompletedHasEvidence, AcceptedMatchCandidates, Counting,
     Executing, Waits, ItemsRefer, Completed, Pending
<1>1. CASE Start
  <2>1. RowOK(row')
    BY <1>1 DEF Start, RowOK, Rows, RunStatuses, Waits, Pending, ItemsRefer
  <2>2. row' # NoRow
    BY <2>1, RunAssumption DEF RowOK
  <2>3. QED
    BY <1>0, <1>1, <2>1, <2>2 DEF Start, RunInv, Blank
<1>2. CASE MarkRunning
  <2>1. row # NoRow /\ RowOK(row) /\ Blank
    BY <1>2 DEF MarkRunning, RunInv
  <2>2. /\ row' \in Rows /\ row'.status = "running"
        /\ row'.items = row.items /\ row'.candidates = row.candidates
        /\ row'.accepted = row.accepted
    BY <1>2, <2>1 DEF MarkRunning, RowOK, Rows, RunStatuses
  <2>3. RowOK(row') /\ row' # NoRow
    BY <2>1, <2>2, RunAssumption DEF RowOK, Waits, Pending, ItemsRefer, Blank
  <2>4. QED
    BY <1>0, <1>2, <2>1, <2>2, <2>3 DEF MarkRunning, RunInv, Blank
<1>3. CASE GraphStep
  <2>1. GraphInv'
    BY <1>3, GraphKeeps DEF GraphStep, RunInv
  <2>2. QED
    BY <1>3, <2>1 DEF GraphStep, RunInv, Blank
<1>4. CASE StoreResult
  BY <1>4, StoreResultKeeps
<1>5. CASE StoreFailure
  <2>1. row # NoRow /\ RowOK(row) /\ Blank
    BY <1>5 DEF StoreFailure, RunInv
  <2>2. /\ row' \in Rows /\ row'.status = "failed"
        /\ row'.items = row.items /\ row'.candidates = row.candidates
        /\ row'.accepted = row.accepted
    BY <1>5, <2>1 DEF StoreFailure, RowOK, Rows, RunStatuses
  <2>3. RowOK(row') /\ row' # NoRow
    BY <2>1, <2>2, RunAssumption DEF RowOK, Waits, Pending, ItemsRefer, Blank
  <2>4. QED
    BY <1>0, <1>5, <2>3 DEF StoreFailure, RunInv
<1>6. CASE Crash
  BY <1>0, <1>6 DEF Crash, RunInv, Blank
<1>7. CASE \E v \in Reviewers : ReadRow(v)
  BY <1>7, ReadRowKeeps
<1>8. CASE \E v \in Reviewers : WriteRow(v)
  BY <1>8, WriteRowKeeps
<1>9. QED
  BY <1>1, <1>2, <1>3, <1>4, <1>5, <1>6, <1>7, <1>8 DEF Next, TaskStep

-----------------------------------------------------------------------------
(* Theorems *)

\* The invariant that makes the others inductive, of every reachable state.
THEOREM RunInvHolds == Spec => []RunInv
<1>1. Init => RunInv
  BY RunStarts
<1>2. RunInv /\ [Next]_vars => RunInv'
  <2> SUFFICES ASSUME RunInv, [Next]_vars PROVE RunInv'
    OBVIOUS
  <2>1. CASE Next
    BY <2>1, RunKeeps
  <2>2. CASE UNCHANGED vars
    BY <2>2 DEF vars, RunInv, Blank, graphVars, GraphInv, GraphTypeOK,
       DependenciesMet, BudgetRespected, CompletedHasEvidence,
       AcceptedMatchCandidates, Counting, Executing, Waits, ItemsRefer, Completed,
       Pending
  <2>3. QED
    BY <2>1, <2>2
<1>3. QED
  BY <1>1, <1>2, PTL DEF Spec

\* The graph's state, the stored row and the reviews in flight keep their shapes.
THEOREM RunTypeCorrect == Spec => []TypeOK
<1>1. RunInv => TypeOK
  BY DEF RunInv, GraphInv, RowOK, TypeOK
<1>2. QED
  BY <1>1, RunInvHolds, PTL

\* A subgoal is executed only after everything it depends on, for every plan a
\* model may propose while the run goes on.
THEOREM DependenciesAlwaysMet == Spec => []DependenciesMet
<1>1. RunInv => DependenciesMet
  BY DEF RunInv, GraphInv
<1>2. QED
  BY <1>1, RunInvHolds, PTL

\* A subgoal that ran and is complete has an accepted candidate of its own, and
\* the accepted ids the graph returns are those of its accepted candidates.
THEOREM EvidenceAlwaysAccounted == Spec => []EvidenceAccounted
<1>1. RunInv => EvidenceAccounted
  BY DEF RunInv, GraphInv, EvidenceAccounted
<1>2. QED
  BY <1>1, RunInvHolds, PTL

\* Neither budget is exceeded by the start of one more subgoal.
THEOREM BudgetsAreRespected == Spec => []BudgetRespected
<1>1. RunInv => BudgetRespected
  BY DEF RunInv, GraphInv
<1>2. QED
  BY <1>1, RunInvHolds, PTL

\* A stored run waits for review exactly while it has a pending item, with any
\* number of reviewers who overwrite each other's answers.
THEOREM WaitsWhilePending == Spec => []WaitsForReview
<1>1. RunInv => WaitsForReview
  BY DEF RunInv, RowOK, Waits, WaitsForReview
<1>2. QED
  BY <1>1, RunInvHolds, PTL

\* What a stored run accepts or puts to review is in it.
THEOREM ReviewsAlwaysRefer == Spec => []ReviewsRefer
<1>1. RunInv => ReviewsRefer
  BY DEF RunInv, RowOK, ItemsRefer, ReviewsRefer
<1>2. QED
  BY <1>1, RunInvHolds, PTL

-----------------------------------------------------------------------------
(* One reviewer at a time *)

\* What a review in flight has read is what is stored.
Fresh == \A v \in Reviewers : \A q \in review[v] : q.row = row

LEMMA FreshKeeps ==
    ASSUME \A v, w \in Reviewers : v = w, RunInv, Fresh, [Next]_vars
    PROVE  Fresh'
<1>1. CASE UNCHANGED vars
  BY <1>1 DEF vars, Fresh
<1>2. CASE Start \/ MarkRunning \/ StoreResult \/ StoreFailure
  BY <1>2 DEF Start, MarkRunning, StoreResult, StoreFailure, RunInv, Blank, Fresh
<1>3. CASE GraphStep
  BY <1>3 DEF GraphStep, Fresh
<1>4. CASE Crash
  BY <1>4 DEF Crash, Fresh
<1>5. CASE \E v \in Reviewers : ReadRow(v)
  <2>1. PICK v \in Reviewers : ReadRow(v)
    BY <1>5
  <2>2. UNCHANGED row
    BY <2>1 DEF ReadRow
  <2>3. \E q : q.row = row /\ review' = [review EXCEPT ![v] = {q}]
    BY <2>1 DEF ReadRow
  <2>4. QED
    BY <2>1, <2>2, <2>3 DEF RunInv, Fresh
<1>6. CASE \E v \in Reviewers : WriteRow(v)
  BY <1>6 DEF WriteRow, RunInv, Fresh
<1>7. QED
  BY <1>1, <1>2, <1>3, <1>4, <1>5, <1>6 DEF Next, TaskStep

\* Answering on the stored row itself keeps what was answered before.
LEMMA ReviewKeepsAnswers ==
    ASSUME NEW r, RowOK(r), NEW q, ReviewOK(q), q.row = r
    PROVE  LET new == IF q.kind = "item" THEN ReviewedItem(r, q.at, q.action)
                      ELSE ReviewedCandidate(r, q.at, q.action)
           IN  AcceptedKept(r, new) /\ DecisionsKept(r, new)
<1>1. /\ r.items \in Seq(ItemRecords) /\ r.candidates \in Seq(CandidateRecords)
      /\ q.action \in Actions /\ q.kind \in {"item", "candidate"}
      /\ DOMAIN r = {"status", "candidates", "accepted", "items"}
  BY DEF RowOK, Rows, ReviewOK, Reviews
<1>2. CASE q.kind = "item"
  <2> DEFINE k == q.at
             new == ReviewedItem(r, k, q.action)
             its == [r.items EXCEPT ![k].status = Verdict[q.action]]
  <2>1. k \in DOMAIN r.items
    BY <1>2 DEF ReviewOK
  <2>2. /\ DOMAIN its = DOMAIN r.items
        /\ its[k] = [r.items[k] EXCEPT !.status = Verdict[q.action]]
        /\ \A j \in DOMAIN r.items : j # k => its[j] = r.items[j]
    BY <2>1
  <2>3. r.items[k] \in ItemRecords
    BY <1>1, <2>1
  <2>4. /\ its[k].status = Verdict[q.action]
        /\ its[k].about = r.items[k].about /\ its[k].object = r.items[k].object
    BY <2>2, <2>3 DEF ItemRecords
  <2> HIDE DEF its, k
  <2>5. new = [r EXCEPT !.items = its,
                 !.accepted = IF r.items[k].about = "evidence_candidate"
                              THEN Accept(r.accepted, r.items[k].object, q.action)
                              ELSE r.accepted,
                 !.status = IF Pending(its) = {} THEN "completed" ELSE @]
    BY DEF ReviewedItem, its, k
  <2>6. /\ new.items = its
        /\ new.accepted = IF r.items[k].about = "evidence_candidate"
                          THEN Accept(r.accepted, r.items[k].object, q.action)
                          ELSE r.accepted
    BY <1>1, <2>5
  <2> HIDE DEF new
  <2>7. DecisionsKept(r, new)
    <3>1. its[k].status # "pending"
      BY <1>1, <2>4 DEF Verdict, Actions
    <3>2. \A j \in DOMAIN its : its[j].status = "pending" => r.items[j].status = "pending"
      BY <2>2, <3>1
    <3>3. Pending(its) \subseteq Pending(r.items)
      BY <2>2, <3>2 DEF Pending
    <3>4. QED
      BY <2>6, <3>3 DEF DecisionsKept
  <2>8. ASSUME NEW id \in r.accepted \ new.accepted PROVE Rejected(new, id)
    <3>1. /\ r.items[k].about = "evidence_candidate" /\ q.action = "reject"
          /\ r.items[k].object = id
      BY <2>6, <2>8 DEF Accept
    <3>2. Verdict[q.action] = "rejected"
      BY <3>1 DEF Verdict
    <3>3. /\ k \in DOMAIN its /\ its[k].status = "rejected"
          /\ its[k].about = "evidence_candidate" /\ its[k].object = id
      BY <2>1, <2>2, <2>4, <3>1, <3>2
    <3>4. QED
      BY <2>6, <3>3 DEF Rejected
  <2>9. QED
    BY <1>2, <2>7, <2>8 DEF AcceptedKept, new, k
<1>3. CASE q.kind = "candidate"
  <2> DEFINE k == q.at
             new == ReviewedCandidate(r, k, q.action)
             st == CASE q.action = "approve" -> "accepted"
                     [] q.action = "reject"  -> "rejected"
                     [] OTHER                -> r.candidates[k].status
             cands == [r.candidates EXCEPT ![k].status = st]
  <2>1. k \in DOMAIN r.candidates
    BY <1>3 DEF ReviewOK
  <2>2. r.candidates[k] \in CandidateRecords
    BY <1>1, <2>1
  <2> HIDE DEF st, k
  <2>3. cands[k].status = st
    BY <2>1, <2>2 DEF CandidateRecords
  <2> HIDE DEF cands
  <2>4. new = [r EXCEPT !.candidates = cands,
                 !.accepted = Accept(@, k, q.action),
                 !.status = IF /\ \A j \in DOMAIN cands :
                                     cands[j].status # "needs_review"
                               /\ Pending(r.items) = {}
                            THEN "completed" ELSE @]
    BY DEF ReviewedCandidate, st, cands, k
  <2>5. /\ new.items = r.items /\ new.candidates = cands
        /\ new.accepted = Accept(r.accepted, k, q.action)
    BY <1>1, <2>4
  <2> HIDE DEF new
  <2>6. DecisionsKept(r, new)
    BY <2>5 DEF DecisionsKept
  <2>7. ASSUME NEW id \in r.accepted \ new.accepted PROVE Rejected(new, id)
    <3>1. id = k /\ q.action = "reject"
      BY <2>5, <2>7 DEF Accept
    <3>2. st = "rejected"
      BY <3>1 DEF st
    <3>3. QED
      BY <2>3, <2>5, <3>1, <3>2 DEF Rejected
  <2>8. QED
    BY <1>3, <2>6, <2>7 DEF AcceptedKept, new, k
<1>4. QED
  BY <1>1, <1>2, <1>3

LEMMA AnswersStandStep ==
    ASSUME RunInv, Fresh, [Next]_vars, row' # row
    PROVE  AcceptedKept(row, row') /\ DecisionsKept(row, row')
<1>1. CASE Start
  BY <1>1 DEF Start, RunInv, AcceptedKept, DecisionsKept
<1>2. CASE MarkRunning \/ StoreResult \/ StoreFailure
  <2>1. /\ row # NoRow /\ row.items = <<>> /\ row.candidates = <<>>
        /\ row.accepted \subseteq DOMAIN row.candidates
    BY <1>2 DEF MarkRunning, StoreResult, StoreFailure, RunInv, Blank, RowOK
  <2>2. row.accepted = {} /\ DOMAIN row.items = {}
    BY <2>1
  <2>3. QED
    BY <2>2 DEF AcceptedKept, DecisionsKept
<1>3. CASE GraphStep \/ Crash \/ \E v \in Reviewers : ReadRow(v)
  BY <1>3 DEF GraphStep, Crash, ReadRow
<1>4. CASE \E v \in Reviewers : WriteRow(v)
  <2>0. PICK v \in Reviewers : WriteRow(v)
    BY <1>4
  <2>1. PICK q \in review[v] :
           row' = IF q.kind = "item" THEN ReviewedItem(q.row, q.at, q.action)
                  ELSE ReviewedCandidate(q.row, q.at, q.action)
    BY <2>0 DEF WriteRow
  <2>2. ReviewOK(q) /\ q.row = row /\ RowOK(row)
    BY <2>1 DEF RunInv, Fresh, ReviewOK
  <2>3. QED
    BY <2>1, <2>2, ReviewKeepsAnswers
<1>5. CASE UNCHANGED vars
  BY <1>5 DEF vars
<1>6. QED
  BY <1>1, <1>2, <1>3, <1>4, <1>5 DEF Next, TaskStep

\* Reviews that do not overlap keep what was answered before, whatever the
\* background task stores meanwhile and whenever the server dies.
THEOREM AnswersStandAlone ==
    ASSUME \A v, w \in Reviewers : v = w
    PROVE  Spec => AnswersStand
<1>1. Init => Fresh
  BY DEF Init, Fresh
<1>2. RunInv /\ Fresh /\ [Next]_vars => Fresh'
  BY FreshKeeps
<1>3. RunInv /\ Fresh /\ [Next]_vars
        => [AcceptedKept(row, row') /\ DecisionsKept(row, row')]_row
  BY AnswersStandStep
<1>4. QED
  BY <1>1, <1>2, <1>3, RunInvHolds, PTL DEF Spec, AnswersStand

-----------------------------------------------------------------------------
(* The loop ends *)

\* How many nodes are left, node by node.
LEMMA NodesLeftAt ==
    /\ pc = "initialize" => NodesLeft = 2 * MaxSubgoals + 3
    /\ pc = "plan_next" /\ status = "running" => NodesLeft = 2 * (MaxSubgoals - executed) + 2
    /\ pc = "execute" => NodesLeft = 2 * (MaxSubgoals - executed) + 1
    /\ pc = "plan_next" /\ status # "running" => NodesLeft = 1
    /\ pc = "done" \/ pc = "raised" => NodesLeft = 0
BY DEF NodesLeft

LEMMA NodesLeftAfter ==
    /\ pc' = "plan_next" /\ status' = "running"
          => NodesLeft' = 2 * (MaxSubgoals - executed') + 2
    /\ pc' = "execute" => NodesLeft' = 2 * (MaxSubgoals - executed') + 1
    /\ pc' = "plan_next" /\ status' # "running" => NodesLeft' = 1
    /\ pc' = "done" \/ pc' = "raised" => NodesLeft' = 0
BY DEF NodesLeft

\* A step goes from a node to one with fewer nodes left.
LEMMA LoopStep ==
    ASSUME GraphInv, GraphNext
    PROVE  NodesLeft' \in 0..(NodesLeft - 1)
<1>1. executed \in Nat /\ MaxSubgoals \in Nat \ {0} /\ executed <= MaxSubgoals
  BY GraphAssumption DEF GraphInv, GraphTypeOK, BudgetRespected
<1>2. CASE Initialize
  <2>1. pc = "initialize" /\ executed = 0
    BY <1>2 DEF Initialize, GraphInv, Counting
  <2>2. pc' = "plan_next" /\ status' = "running" /\ executed' = executed
    BY <1>2 DEF Initialize, counters
  <2> QED BY <1>1, <2>1, <2>2, NodesLeftAt, NodesLeftAfter
<1>3. CASE FinishEnded
  <2>1. pc = "plan_next" /\ status # "running" /\ pc' = "done" BY <1>3 DEF FinishEnded
  <2> QED BY <2>1, NodesLeftAt, NodesLeftAfter
<1>4. CASE StopOnSubgoals \/ StopOnTime \/ PlannerStops \/ PlannerSelectsNoTools
  <2>1. pc = "plan_next" /\ status = "running" /\ pc' = "done"
    BY <1>4 DEF StopOnSubgoals, StopOnTime, PlannerStops, PlannerSelectsNoTools,
                Deciding, Planning
  <2> QED BY <1>1, <2>1, NodesLeftAt, NodesLeftAfter
<1>5. CASE PlannerCallsTools
  <2>1. pc = "plan_next" /\ status = "running" /\ executed < MaxSubgoals
        /\ executed' = executed /\ (pc' = "done" \/ pc' = "execute")
    BY <1>5 DEF PlannerCallsTools, Deciding, Planning, SubgoalsLeft, counters
  <2> QED BY <1>1, <2>1, NodesLeftAt, NodesLeftAfter
<1>6. CASE pc = "execute"
  <2>1. executed < MaxSubgoals /\ status = "running"
    BY <1>6 DEF GraphInv, BudgetRespected, Executing
  <2>2. CASE SubgoalFails \/ NoToolEvents
    <3>1. pc' = "plan_next" /\ status' # "running"
      BY <2>2 DEF SubgoalFails, NoToolEvents, Stop
    <3> QED BY <1>1, <1>6, <2>1, <3>1, NodesLeftAt, NodesLeftAfter
  <2>3. CASE ToolEvents
    <3>1. pc' = "plan_next" /\ executed' = executed + 1 BY <2>3 DEF ToolEvents
    <3>2. CASE status' = "running"
      BY <1>1, <1>6, <2>1, <3>1, <3>2, NodesLeftAt, NodesLeftAfter
    <3>3. CASE status' # "running"
      BY <1>1, <1>6, <2>1, <3>1, <3>3, NodesLeftAt, NodesLeftAfter
    <3> QED BY <3>2, <3>3
  <2>4. CASE NormalizerRaises
    <3>1. pc' = "raised" BY <2>4 DEF NormalizerRaises
    <3> QED BY <1>1, <1>6, <2>1, <3>1, NodesLeftAt, NodesLeftAfter
  <2> QED BY <1>6, <2>2, <2>3, <2>4
          DEF GraphNext, Initialize, FinishEnded, StopOnSubgoals, StopOnTime, PlannerStops,
              PlannerSelectsNoTools, PlannerCallsTools, Deciding, Planning
<1> QED BY <1>2, <1>3, <1>4, <1>5, <1>6
        DEF GraphNext, SubgoalFails, NoToolEvents, ToolEvents, NormalizerRaises

\* For any budget, plan, model and outcome of the tools every step of the planner
\* loop takes it nearer to its end, so a run takes at most 2 * max_subgoals + 3
\* steps of its graph (global_agent.py:116-157).
THEOREM LoopAlwaysEnds == Spec => LoopWindsDown
<1>1. RunInv /\ [Next]_vars => [NodesLeft' \in 0..(NodesLeft - 1)]_graphVars
  <2> SUFFICES ASSUME RunInv, [Next]_vars
               PROVE  NodesLeft' \in 0..(NodesLeft - 1) \/ UNCHANGED graphVars
    OBVIOUS
  <2>1. CASE GraphStep
    <3>1. GraphInv /\ GraphNext BY <2>1 DEF RunInv, GraphStep
    <3> QED BY <3>1, LoopStep
  <2>2. CASE ~GraphStep
    BY <2>2 DEF Next, TaskStep, Start, MarkRunning, StoreResult, StoreFailure, Crash,
                ReadRow, WriteRow, vars
  <2> QED BY <2>1, <2>2
<1> QED BY <1>1, RunInvHolds, PTL DEF Spec, LoopWindsDown
=============================================================================

----------------------------- MODULE AgentRuns -----------------------------
(***************************************************************************)
(* One agent run behind the HTTP API (api/agent_runs.py): the background   *)
(* task that runs the planner graph, the stored row, and the analysts who  *)
(* review it.  A handler reads the row, works on its copy and writes the   *)
(* whole copy back; the store serializes the reads and writes, not the     *)
(* handlers.  A resumed run is a new run with a row of its own.            *)
(***************************************************************************)
EXTENDS GlobalAgentGraph

CONSTANTS
    Reviewers,    \* the review requests that may be in flight
    NoRow,        \* no row is stored yet
    MayCrash      \* may the server process die?

Actions == {"approve", "reject", "comment"}

Rows == [status: RunStatuses, candidates: Seq(CandidateRecords),
         accepted: SUBSET (Nat \ {0}), items: Seq(ItemRecords)]

Reviews == [row: Rows, kind: {"item", "candidate"}, at: Nat \ {0}, action: Actions]

ASSUME RunAssumption ==
    /\ NoRow \notin Rows
    /\ MayCrash \in BOOLEAN

VARIABLES
    row,     \* what the store holds for the run
    task,    \* the background task
    review   \* what each reviewer's handler has read: a set of at most one

vars == <<graphVars, row, task, review>>

Init ==
    /\ GraphInit
    /\ row = NoRow
    /\ task = "none"
    /\ review = [v \in Reviewers |-> {}]

-----------------------------------------------------------------------------
(* The run *)

\* POST /agent-runs and POST /agent-runs/{id}/resume.
Start ==
    /\ task = "none"
    /\ row' = [status |-> "queued", candidates |-> <<>>, accepted |-> {},
               items |-> <<>>]
    /\ task' = "scheduled"
    /\ UNCHANGED <<graphVars, review>>

MarkRunning ==
    /\ task = "scheduled"
    /\ row' = [row EXCEPT !.status = "running"]
    /\ task' = "graph"
    /\ UNCHANGED <<graphVars, review>>

\* The graph works on a state of its own, off the event loop.
GraphStep ==
    /\ task = "graph"
    /\ GraphNext
    /\ UNCHANGED <<row, task, review>>

\* Mutant: the stored state is updated, and its candidates are forgotten.
StoreResultPartially ==
    /\ task = "graph"
    /\ pc = "done"
    /\ row' = [row EXCEPT !.status = status, !.accepted = accepted, !.items = items]
    /\ task' = "ended"
    /\ UNCHANGED <<graphVars, review>>

\* The state the graph returned replaces the stored one.
StoreResult ==
    /\ task = "graph"
    /\ pc = "done"
    /\ row' = [status |-> status, candidates |-> candidates,
               accepted |-> accepted, items |-> items]
    /\ task' = "ended"
    /\ UNCHANGED <<graphVars, review>>

\* Mutant: only the construction of the runtime is guarded.
StoreFailureBuildOnly ==
    /\ task = "graph"
    /\ pc = "initialize"
    /\ row' = [row EXCEPT !.status = "failed"]
    /\ task' = "ended"
    /\ UNCHANGED <<graphVars, review>>

\* The runtime could not be built, or the graph raised: all it had is lost.
StoreFailure ==
    /\ task = "graph"
    /\ pc \in {"initialize", "raised"}
    /\ row' = [row EXCEPT !.status = "failed"]
    /\ task' = "ended"
    /\ UNCHANGED <<graphVars, review>>

\* The process dies; nothing picks up the row of an unfinished run again.
Crash ==
    /\ MayCrash
    /\ task' = IF task \in {"scheduled", "graph"} THEN "lost" ELSE task
    /\ review' = [v \in Reviewers |-> {}]
    /\ UNCHANGED <<graphVars, row>>

-----------------------------------------------------------------------------
(* Reviews *)

Pending(its) == {k \in DOMAIN its : its[k].status = "pending"}

Verdict == [approve |-> "approved", reject |-> "rejected", comment |-> "commented"]

\* Mutant: a comment withdraws the candidate.
AcceptApprovedOnly(ids, id, action) ==
    IF action = "approve" THEN ids \cup {id} ELSE ids \ {id}

\* accepted_evidence_ids after an action on candidate id.
Accept(ids, id, action) ==
    CASE action = "approve" -> ids \cup {id}
      [] action = "reject"  -> ids \ {id}
      [] OTHER              -> ids

\* review_agent_run_item: the candidate itself keeps its status.
ReviewedItem(r, k, action) ==
    LET its == [r.items EXCEPT ![k].status = Verdict[action]]
        ids == IF r.items[k].about = "evidence_candidate"
               THEN Accept(r.accepted, r.items[k].object, action) ELSE r.accepted
    IN  [r EXCEPT !.items = its, !.accepted = ids,
                  !.status = IF Pending(its) = {} THEN "completed" ELSE @]

\* Mutant: the pending review items are not looked at.
ReviewedCandidateIgnoringItems(r, k, action) ==
    LET new == CASE action = "approve" -> "accepted"
                 [] action = "reject"  -> "rejected"
                 [] OTHER              -> r.candidates[k].status
        cands == [r.candidates EXCEPT ![k].status = new]
    IN  [r EXCEPT !.candidates = cands,
                  !.accepted = Accept(@, k, action),
                  !.status = IF \A j \in DOMAIN cands :
                                    cands[j].status # "needs_review"
                             THEN "completed" ELSE @]

\* review_agent_evidence_candidate: an item on the candidate stays as it is.
ReviewedCandidate(r, k, action) ==
    LET new == CASE action = "approve" -> "accepted"
                 [] action = "reject"  -> "rejected"
                 [] OTHER              -> r.candidates[k].status
        cands == [r.candidates EXCEPT ![k].status = new]
    IN  [r EXCEPT !.candidates = cands,
                  !.accepted = Accept(@, k, action),
                  !.status = IF /\ \A j \in DOMAIN cands :
                                      cands[j].status # "needs_review"
                                /\ Pending(r.items) = {}
                             THEN "completed" ELSE @]

\* The handler reads the row; an unknown item or candidate is a 404.
ReadRow(v) ==
    /\ row # NoRow
    /\ review[v] = {}
    /\ \E action \in Actions :
         \/ \E k \in DOMAIN row.items :
              review' = [review EXCEPT ![v] =
                 {[row |-> row, kind |-> "item", at |-> k, action |-> action]}]
         \/ \E k \in DOMAIN row.candidates :
              review' = [review EXCEPT ![v] =
                 {[row |-> row, kind |-> "candidate", at |-> k, action |-> action]}]
    /\ UNCHANGED <<graphVars, row, task>>

WriteRow(v) ==
    /\ \E q \in review[v] :
         row' = IF q.kind = "item" THEN ReviewedItem(q.row, q.at, q.action)
                ELSE ReviewedCandidate(q.row, q.at, q.action)
    /\ review' = [review EXCEPT ![v] = {}]
    /\ UNCHANGED <<graphVars, task>>

-----------------------------------------------------------------------------
TaskStep == MarkRunning \/ GraphStep \/ StoreResult \/ StoreFailure

Next ==
    \/ Start \/ TaskStep \/ Crash
    \/ \E v \in Reviewers : ReadRow(v) \/ WriteRow(v)

Spec == Init /\ [][Next]_vars

\* The event loop keeps running the task while the process lives.
FairSpec == Spec /\ WF_vars(TaskStep)

-----------------------------------------------------------------------------
(* Properties *)

TypeOK ==
    /\ GraphTypeOK
    /\ row \in Rows \cup {NoRow}
    /\ task \in {"none", "scheduled", "graph", "ended", "lost"}
    /\ review \in [Reviewers -> SUBSET Reviews]

\* A stored run waits for review exactly while it has an item to review, so the
\* API can always bring it to an end, and no earlier.
WaitsForReview ==
    row # NoRow => (row.status = "needs_review" <=> Pending(row.items) # {})

\* Whatever a reviewer still refers to is in the row: no id accepted or put to
\* review is left without its candidate, also after the graph's state replaced
\* the one the run was queued with.
ReviewsRefer ==
    row # NoRow =>
        /\ row.accepted \subseteq DOMAIN row.candidates
        /\ \A k \in DOMAIN row.items :
             row.items[k].about = "evidence_candidate" =>
                 row.items[k].object \in DOMAIN row.candidates

Rejected(r, id) ==
    \/ r.candidates[id].status = "rejected"
    \/ \E k \in DOMAIN r.items : /\ r.items[k].object = id
                                 /\ r.items[k].about = "evidence_candidate"
                                 /\ r.items[k].status = "rejected"

\* A candidate accepted before is still accepted, or was rejected.
AcceptedKept(before, after) ==
    before # NoRow =>
        \A id \in before.accepted \ after.accepted : Rejected(after, id)

DecisionsKept(before, after) ==
    before # NoRow =>
        Pending(after.items) \cap DOMAIN before.items \subseteq Pending(before.items)

\* With one reviewer at a time what was answered stands, also against the task
\* that runs in the background: no item decided on becomes pending again, and no
\* accepted candidate is dropped but by a rejection.
AnswersStand ==
    [][AcceptedKept(row, row') /\ DecisionsKept(row, row')]_row

\* tests/api/test_agent_runs_api.py:215, after an approval "candidate_id in
\* state.accepted_evidence_ids": an approved candidate stays accepted.
ApprovalsStand == [][AcceptedKept(row, row')]_row

\* A run that was started reaches a terminal status unless the server dies.
RunsEnd ==
    task = "scheduled" ~>
        \/ task = "lost"
        \/ row # NoRow /\ row.status \in {"completed", "failed", "needs_review"}
=============================================================================

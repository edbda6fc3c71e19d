--------------------------- MODULE ChangeReviews ---------------------------
(***************************************************************************)
(* Changes as analysts work on them: a request detects the changes of a    *)
(* company, stores them (research/change_store.py), and answers with the   *)
(* reviews they have; the research queue does so for several companies     *)
(* (api/research.py, research/comparison.py).  Snapshots and reviews are   *)
(* written by other requests between these steps.                          *)
(***************************************************************************)
EXTENDS ResearchChanges, SequencesExt, DataOperators

CONSTANTS
    Companies,        \* sequence of the tickers a queue is asked for, in their order
    Beginnings,       \* histories a company may begin with
    NewSnapshots,     \* snapshots that may be taken
    ReviewStatuses,   \* what a review may say: "confirmed", "ignored", "needs_review"
    MaxSnapshots,     \* bound on the snapshots of a company
    MaxStatuses       \* bound on the reviews

ASSUME ReviewBoundsAssumption == MaxSnapshots \in Nat /\ MaxStatuses \in Nat

\* What a run stores (orchestrator.py): values and levels are numbers, and a
\* financial component that failed has loaded nothing.
WellTaken(snapshot) ==
    /\ DOMAIN snapshot = {"points", "calls", "risks", "components", "sources", "asOf"}
    /\ \A points \in snapshot.points : \A p \in points : p.value \in Int
    /\ \A call \in snapshot.calls : \A d \in Levels : call.levels[d] \in Int
    /\ ("financials" \in DOMAIN snapshot.components
        /\ snapshot.components["financials"] \in {"failed", "unavailable"}) => snapshot.points = {}

ASSUME SnapshotsAssumption ==
    /\ Companies \in Seq(ToSet(Companies))
    /\ \A content \in NewSnapshots : WellTaken(content)
    /\ \A taken \in Beginnings : taken \in Seq(ToSet(taken)) /\ \A s \in ToSet(taken) : WellTaken(s)

VARIABLES
    history,     \* research_snapshots: the snapshots of each company, latest last
    stored,      \* research_changes: [ticker, change]
    reviews,     \* research_change_reviews: a function from stored changes to statuses
    statusesGiven,  \* reviews so far
    request,     \* the request that is under way
    answer       \* the last answer: [mode, asked, sets, entries, touched]

reviewVars == <<history, stored, reviews, statusesGiven, request, answer>>

Watched == ToSet(Companies)
NoReader == [stage |-> "idle"]
NoAnswer == [mode |-> "none", sets |-> <<>>, entries |-> <<>>, touched |-> {}]
-----------------------------------------------------------------------------
(* Change sets.  A row is a change of a company with its review. *)

RowsBetween(ticker, previous, current) ==
    {[ticker |-> ticker, change |-> c] : c \in DetectResearchChanges(previous, current)}

\* There are two snapshots, and the last is newer than the one before.
Compared(taken) == Len(taken) >= 2 /\ taken[Len(taken) - 1].asOf < taken[Len(taken)].asOf

LatestRows(ticker) ==
    LET taken == history[ticker] IN
    IF Compared(taken) THEN RowsBetween(ticker, taken[Len(taken) - 1], taken[Len(taken)]) ELSE {}

ReviewOf(row) == IF row \in DOMAIN reviews THEN reviews[row] ELSE "unreviewed"

ApplyReviews(rows) == {[row |-> r, review |-> ReviewOf(r)] : r \in rows}

\* Mutant: what was reviewed, whatever the review said, is not listed.
ActionableUnreviewed(set) ==
    {x \in set : x.row.change.materiality \in {"high", "medium", "unknown"} /\ x.review = "unreviewed"}

\* What the queue lists of a change set: high, medium and unknown, not ignored.
Actionable(set) ==
    {x \in set : x.row.change.materiality \in {"high", "medium", "unknown"} /\ x.review # "ignored"}

Priority(listed) ==
    IF \E x \in listed : x.row.change.materiality = "high" THEN 1
    ELSE IF \/ \E x \in listed : x.row.change.materiality = "unknown"
            \/ \E x, y \in listed : x # y
    THEN 2
    ELSE 3

Entry(ticker, set) == [ticker |-> ticker, priority |-> Priority(Actionable(set)), rows |-> {x.row : x \in Actionable(set)}]

\* The entries of one priority that list something.
OfPriority(sets, p) ==
    LET entries == [i \in DOMAIN sets |-> Entry(Companies[i], sets[i])] IN
    Selected(entries, {i \in DOMAIN sets : entries[i].rows # {} /\ entries[i].priority = p})

\* By priority, companies of one priority in the order of their names.
BuildResearchQueue(sets) == OfPriority(sets, 1) \o OfPriority(sets, 2) \o OfPriority(sets, 3)
-----------------------------------------------------------------------------
ReviewInit ==
    /\ history \in [Watched -> Beginnings]
    /\ stored = {} /\ reviews = <<>> /\ statusesGiven = 0
    /\ request = NoReader /\ answer = NoAnswer

\* POST /research-queue, or GET /changes of one company.
Ask(mode, companies) ==
    /\ request.stage = "idle"
    /\ request' = [stage |-> "read", mode |-> mode, asked |-> companies, sets |-> <<>>, found |-> {}, touched |-> {}]
    /\ UNCHANGED <<history, stored, reviews, statusesGiven, answer>>

Current == request.asked[Len(request.sets) + 1]

\* list_snapshots and the detection.  A company with too few snapshots is skipped.
ReadSnapshots ==
    /\ request.stage = "read" /\ Len(request.sets) < Len(request.asked)
    /\ request' = IF Compared(history[Current]) THEN [request EXCEPT !.stage = "save", !.found = LatestRows(Current)]
                  ELSE IF request.mode = "list" THEN NoReader
                  ELSE [request EXCEPT !.sets = Append(@, {})]
    /\ UNCHANGED <<history, stored, reviews, statusesGiven, answer>>

\* save_change_set: a change that is stored stays as it is.
SaveChanges ==
    /\ request.stage = "save"
    /\ stored' = stored \cup request.found
    /\ request' = [request EXCEPT !.stage = "apply"]
    /\ UNCHANGED <<history, reviews, statusesGiven, answer>>

\* apply_reviews, in a transaction of its own.
ReadReviews ==
    /\ request.stage = "apply"
    /\ request' = [request EXCEPT !.stage = "read", !.sets = Append(@, ApplyReviews(request.found)), !.found = {}]
    /\ UNCHANGED <<history, stored, reviews, statusesGiven, answer>>

GiveAnswer ==
    /\ request.stage = "read" /\ Len(request.sets) = Len(request.asked)
    /\ answer' = [mode |-> request.mode, sets |-> request.sets, touched |-> request.touched,
                  entries |-> IF request.mode = "queue" THEN BuildResearchQueue(request.sets) ELSE <<>>]
    /\ request' = NoReader
    /\ UNCHANGED <<history, stored, reviews, statusesGiven>>

Touched(ticker) ==
    request' = IF request.stage = "idle" THEN NoReader ELSE [request EXCEPT !.touched = @ \cup {ticker}]

\* A research run stores a snapshot; its cut-off date may be that of the last
\* one, and one that is stored is not stored again.
TakeSnapshot(ticker, content, later) ==
    LET taken == history[ticker]
        last == IF taken = <<>> THEN 0 ELSE taken[Len(taken)].asOf
        row == [content EXCEPT !.asOf = last + later] IN
    /\ Len(taken) < MaxSnapshots /\ row \notin ToSet(taken)
    /\ history' = [history EXCEPT ![ticker] = Append(@, row)]
    /\ answer' = NoAnswer
    /\ Touched(ticker)
    /\ UNCHANGED <<stored, reviews, statusesGiven>>

\* review_change: the last review of a change counts; an unknown one is refused.
ReviewChange(row, status) ==
    /\ statusesGiven < MaxStatuses /\ row \in stored
    /\ reviews' = [r \in DOMAIN reviews \cup {row} |-> IF r = row THEN status ELSE reviews[r]]
    /\ statusesGiven' = statusesGiven + 1
    /\ answer' = NoAnswer
    /\ Touched(row.ticker)
    /\ UNCHANGED <<history, stored>>

ReviewNext ==
    \/ Ask("queue", Companies)
    \/ \E i \in DOMAIN Companies : Ask("list", <<Companies[i]>>)
    \/ ReadSnapshots \/ SaveChanges \/ ReadReviews \/ GiveAnswer
    \/ \E i \in DOMAIN Companies, content \in NewSnapshots, later \in 0..1 : TakeSnapshot(Companies[i], content, later)
    \/ \E row \in stored, status \in ReviewStatuses : ReviewChange(row, status)

ReviewSpec == ReviewInit /\ [][ReviewNext]_reviewVars
-----------------------------------------------------------------------------
(* Properties *)

\* A way back is reported as the opposite of the way there: of a value, a tone
\* or a level that moved and would move back both changes are there, with the
\* same two sides and the other direction.
ChangesTurnBack ==
    \A t \in Watched : \A j \in DOMAIN history[t] : \A i \in 1..(j - 1) :
        LET there == DetectResearchChanges(history[t][i], history[t][j])
            back == DetectResearchChanges(history[t][j], history[t][i])
            opposite == [strengthened |-> "weakened", weakened |-> "strengthened", persistent |-> "persistent"] IN
        \A c \in there : (c.category \in {"financial", "management", "guidance"} /\ c.before # NoValue) =>
            \E d \in back : /\ d.key = c.key /\ d.before = c.after /\ d.after = c.before
                            /\ d.status = opposite[c.status]

\* What a run failed to load is a warning: no risk is reported as resolved, no
\* metric as moved and no source as gone because a component failed.
LossIsNoChange ==
    \A t \in Watched : \A j \in DOMAIN history[t] : \A i \in 1..(j - 1) :
        LET lost == ComparisonWarnings(history[t][i], history[t][j])
            found == DetectResearchChanges(history[t][i], history[t][j]) IN
        /\ "risks" \in lost => \A c \in found : c.category # "risk"
        /\ "financials" \in lost => \A c \in found : c.category # "financial"
        /\ lost # {} => \A c \in found : ~(c.category = "evidence" /\ c.key = <<"source_coverage">>)

\* What an answer shows is stored: the review of a change on the list finds it.
ShownIsStored == \A i \in DOMAIN answer.sets : \A x \in answer.sets[i] : x.row \in stored

\* The entry of a company that nobody touched while the queue was built is what
\* the two latest snapshots and the reviews give, whatever happened to the
\* others meanwhile: no change that matters is missing and none is ignored.
QueuesAreRight ==
    answer.mode = "queue" =>
        \A i \in DOMAIN Companies : Companies[i] \notin answer.touched =>
            LET due == {r \in LatestRows(Companies[i]) :
                           r.change.materiality # "low" /\ ReviewOf(r) # "ignored"}
                shown == {e \in ToSet(answer.entries) : e.ticker = Companies[i]} IN
            UNION {e.rows : e \in shown} = due /\ Cardinality(shown) <= 1

\* The queue is in the order of its priorities, and a change of high
\* materiality, which evidence on both sides backs, puts a company first.
QueueIsOrdered ==
    \A i, j \in DOMAIN answer.entries :
        LET high(e) == \E r \in e.rows : r.change.materiality = "high" IN
        (high(answer.entries[j]) /\ ~high(answer.entries[i])) => j < i

ReviewsHold == ChangesTurnBack /\ LossIsNoChange /\ ShownIsStored /\ QueuesAreRight /\ QueueIsOrdered
=============================================================================

------------------------- MODULE EvidenceCandidates -------------------------
(***************************************************************************)
(* How the results of an agent's tools become evidence candidates          *)
(* (evidence/candidates.py), one batch for each subgoal of a run           *)
(* (ai/graphs/global_agent.py).  An event keeps the first 500 characters   *)
(* of a result (ai/toolsets.py): a longer result is no JSON any more and   *)
(* its first fields are found by pattern.  GlobalAgentGraph says what the  *)
(* run does with the candidates.                                           *)
(***************************************************************************)
EXTENDS Integers, Sequences, FiniteSets, SequencesExt, DataOperators

CONSTANTS
    Goals,       \* sequence of the subgoals of a run
    ToolResults, \* results a tool may return: [tool, ok, whole, shown, results, pages]
    MaxResults,  \* results of one subgoal
    Overlap      \* percent of a subgoal's words a text has: [goal -> [text -> 0..100]]

\* A run never has two subgoals of one id.
ASSUME CandidatesAssumption ==
    /\ MaxResults \in Nat
    /\ Goals \in Seq(STRING) /\ \A g, h \in DOMAIN Goals : Goals[g] = Goals[h] => g = h
    /\ \A result \in ToolResults :
           /\ result.results \in Seq([url : STRING, text : {<<>>} \cup (STRING \X STRING)])
           /\ result.pages \in Seq([url : STRING, text : {<<>>} \cup (STRING \X STRING), failed : BOOLEAN])

VARIABLES
    goalBatches,    \* results of each subgoal that was run, in order
    candidateRows,  \* the candidates of the run
    acceptedIds     \* ids of the accepted ones

candidateVars == <<goalBatches, candidateRows, acceptedIds>>

NoUrl == "none"
NoText == <<>>    \* a text is <<its first 120 characters, its next 80>>

EvidenceKind ==
    [web_search |-> "web", web_fetch |-> "web", search_and_fetch |-> "web",
     sec_fetch_filing |-> "filing", transcript_lookup |-> "transcript",
     financial_metrics_lookup |-> "financial_metric", xbrl_fact_lookup |-> "financial_metric",
     graph_query |-> "graph_path", graph_path_search |-> "graph_path", browser_explore |-> "browser"]

\* Percent, by the type of the source.
QualityOf(kind) ==
    CASE kind \in {"filing", "financial_metric"} -> 100
      [] kind = "transcript" -> 80
      [] kind \in {"web", "browser"} -> 60
      [] kind = "graph_path" -> 50
-----------------------------------------------------------------------------
(* Rows of a result.  A row is [url, text]; a page may have failed. *)

Turns == 10

FetchedPages(result) ==
    LET read == Selected(result.pages, {i \in DOMAIN result.pages : ~result.pages[i].failed}) IN
    [i \in DOMAIN read |-> [url |-> read[i].url, text |-> read[i].text]]

WholeRows(result) ==
    IF result.tool \notin DOMAIN EvidenceKind THEN <<>> ELSE
    CASE result.tool = "web_fetch" -> FetchedPages(result)
      [] result.tool = "search_and_fetch" -> result.results \o FetchedPages(result)
      [] result.tool = "transcript_lookup" ->
            SubSeq(result.results, 1, IF Len(result.results) < Turns THEN Len(result.results) ELSE Turns)
      [] OTHER -> result.results

\* The fields of a result stand one after the other: the URL of a search
\* result before its text, the text of a filing before its URL.
Legible(result, row, field) ==
    LET first == IF result.tool = "sec_fetch_filing" THEN "text" ELSE "url" IN
    row \in DOMAIN result.results /\ result.shown >= 2 * row - (IF field = first THEN 1 ELSE 0)

CutRows(result) ==
    LET url == IF Legible(result, 1, "url") THEN result.results[1].url ELSE NoUrl
        text == IF Legible(result, 1, "text") THEN result.results[1].text ELSE NoText IN
    IF \/ text = NoText
       \/ result.tool \notin {"sec_fetch_filing", "web_search", "search_and_fetch"}
       \/ result.tool # "sec_fetch_filing" /\ url = NoUrl
    THEN <<>> ELSE <<[url |-> url, text |-> text]>>

RowsFrom(result) == IF result.whole /\ WholeRows(result) # <<>> THEN WholeRows(result) ELSE CutRows(result)
-----------------------------------------------------------------------------
(* Candidates *)

EvidenceRow(goal, n, kind, row, status, confidence) ==
    [id |-> <<goal, n, kind, row.url, row.text>>, goal |-> goal, event |-> n, kind |-> kind,
     url |-> row.url, text |-> row.text, status |-> status, confidence |-> confidence]

\* What a result is rejected for is the text of its only candidate.
Unusable(goal, n, why) == EvidenceRow(goal, n, "web", [url |-> NoUrl, text |-> <<why, "">>], "rejected", 0)

\* A filing counts as grounded; the quality of no kind is below one half.
BuildCandidate(goal, n, kind, row) ==
    LET quality == QualityOf(kind)
        overlap == IF row.text = NoText THEN 0 ELSE Overlap[goal][row.text]
        grounding == IF kind \in {"filing", "financial_metric"} /\ overlap < 25 THEN 25 ELSE overlap
        located == kind \in {"web", "transcript", "browser"} => row.url # NoUrl
        halved == (quality + grounding) \div 2 IN
    IF row.text = NoText \/ ~located THEN EvidenceRow(goal, n, kind, row, "rejected", 0)
    ELSE IF grounding < 25
         THEN EvidenceRow(goal, n, kind, row, "needs_review", IF halved < 49 THEN halved ELSE 49)
         ELSE EvidenceRow(goal, n, kind, row, "accepted", (60 * quality + 40 * grounding) \div 100)

NormalizeEvent(goal, n, result) ==
    LET rows == RowsFrom(result) IN
    IF ~result.ok THEN <<Unusable(goal, n, "tool execution failed")>>
    ELSE IF rows # <<>>
         THEN [i \in DOMAIN rows |-> BuildCandidate(goal, n, EvidenceKind[result.tool], rows[i])]
    ELSE <<Unusable(goal, n, IF result.whole THEN "no source-backed evidence" ELSE "not valid JSON")>>

\* Mutant: pages are told apart by their URL.
DedupeUrl(row) == <<row.kind, row.url>>

Opening(text) == IF text = NoText THEN "" ELSE text[1]
DedupeKey(row) == <<row.kind, row.url, Opening(row.text)>>

\* The first candidate with a key stays.
DedupeCandidates(rows) ==
    Selected(rows, {i \in DOMAIN rows : \A j \in 1..(i - 1) : DedupeKey(rows[j]) # DedupeKey(rows[i])})

AllRows(goal, results) == Chained([n \in DOMAIN results |-> NormalizeEvent(goal, n, results[n])])

NormalizeEvents(goal, results) == DedupeCandidates(AllRows(goal, results))
-----------------------------------------------------------------------------
CandidatesInit == goalBatches = <<>> /\ candidateRows = <<>> /\ acceptedIds = <<>>

RunGoal(results) ==
    LET rows == NormalizeEvents(Goals[Len(goalBatches) + 1], results) IN
    /\ Len(goalBatches) < Len(Goals)
    /\ goalBatches' = Append(goalBatches, results)
    /\ candidateRows' = candidateRows \o rows
    /\ acceptedIds' = acceptedIds \o
           LET taken == Selected(rows, {i \in DOMAIN rows : rows[i].status = "accepted"}) IN
           [i \in DOMAIN taken |-> taken[i].id]

CandidatesNext == \E results \in BoundedSeq(ToolResults, MaxResults) : RunGoal(results)

CandidatesSpec == CandidatesInit /\ [][CandidatesNext]_candidateVars
-----------------------------------------------------------------------------
(* Properties *)

ResultOf(row) == goalBatches[CHOOSE g \in DOMAIN goalBatches : Goals[g] = row.goal][row.event]

\* A candidate that counts, or that a person may accept, quotes what one
\* row of its own successful result says, under that row's URL: a result that
\* was cut in the middle pairs no URL with the text of another row.  A filing
\* that was cut may lose its URL, nothing else may.
CandidatesQuoteTheirSource ==
    \A i \in DOMAIN candidateRows : LET row == candidateRows[i] IN row.status # "rejected" =>
        LET result == ResultOf(row) IN
        /\ result.ok
        /\ \E read \in ToSet(result.results) \cup ToSet(FetchedPages(result)) :
              /\ read.text = row.text /\ row.text # NoText
              /\ row.url = read.url \/ (row.kind = "filing" /\ row.url = NoUrl)
        /\ row.kind \in {"web", "transcript", "browser"} => row.url # NoUrl

\* No result disappears: each text of each result of a subgoal, and each reason
\* for refusing one, has a candidate with its first words, from there or from
\* an earlier result of the subgoal.
NoResultIsLost ==
    \A g \in DOMAIN goalBatches : \A n \in DOMAIN goalBatches[g] :
        \A row \in ToSet(NormalizeEvent(Goals[g], n, goalBatches[g][n])) :
            \E i \in DOMAIN candidateRows :
                /\ candidateRows[i].goal = Goals[g] /\ candidateRows[i].event <= n
                /\ candidateRows[i].url = row.url /\ candidateRows[i].kind = row.kind
                /\ Opening(candidateRows[i].text) = Opening(row.text)

\* An id names one candidate of a run, though texts that differ late have one key.
IdsNameOneCandidate ==
    /\ \A i, j \in DOMAIN candidateRows : candidateRows[i].id = candidateRows[j].id => i = j
    /\ ToSet(acceptedIds) = {candidateRows[i].id : i \in {k \in DOMAIN candidateRows : candidateRows[k].status = "accepted"}}

CandidatesHold == CandidatesQuoteTheirSource /\ NoResultIsLost /\ IdsNameOneCandidate
=============================================================================

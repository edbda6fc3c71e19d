--------------------------- MODULE FinRiskSources ---------------------------
(***************************************************************************)
(* Where a FinRisk workflow takes its raw material from, as pure           *)
(* operators: the filing risks of filing_risk_extractor.py and the market  *)
(* evidence of market_explorer_step.py.                                    *)
(*                                                                         *)
(* An id is a sequence: prefixing one, as in f"ne-{risk_id}", puts an      *)
(* element before it.  A risk is [id, severity, quoted], a market evidence *)
(* [id, risk, url, supports, contradicts, abated, confidence], where       *)
(* abated says that its text uses contradiction language; confidence is in *)
(* hundredths.  A filing is [form, dated, fetched, text, llm, keyword]:    *)
(* what the model and the keywords find in its section 1A.  A tool event   *)
(* is [id, tool, success, found, pages] with the search results and the    *)
(* fetched pages of its payload, each [url, http, source, text, long,      *)
(* abated] with a URL <<domain, path>>.                                    *)
(***************************************************************************)
EXTENDS Integers, Sequences, FiniteSets, SequencesExt

CONSTANTS
    NoRisk,          \* the risk of a market evidence about none in particular
    MaxFilings,      \* how many recent submissions are looked at
    MaxCandidates,   \* how many 10-K and 10-Q filings are tried
    MaxSearches      \* the request's max_browser_steps

Ids(s) == {s[i].id : i \in DOMAIN s}

FirstOf(s, n) == SubSeq(s, 1, Min({n, Len(s)}))

-----------------------------------------------------------------------------
(* filing_risk_extractor: the first recent filing that yields risks *)

Candidates(filings) ==
    FirstOf(SelectSeq(FirstOf(filings, MaxFilings),
                      LAMBDA f : f.form \in {"10-K", "10-Q"} /\ f.dated),
            MaxCandidates)

\* The model's risks, or those of the keywords when it is missing, raises
\* or finds none.
RisksOfFiling(f) ==
    IF ~f.fetched \/ ~f.text THEN <<>>
    ELSE IF f.llm # <<>> THEN f.llm ELSE f.keyword

ExtractLive(filings) ==
    LET tried == Candidates(filings)
        k == SelectInSeq(tried, LAMBDA f : RisksOfFiling(f) # <<>>)
    IN  IF k = 0 THEN <<>> ELSE RisksOfFiling(tried[k])

Quoted(risks) == SelectSeq(risks, LAMBDA r : r.quoted)

-----------------------------------------------------------------------------
(* market_explorer *)

BaseConfidence ==
    [filing |-> 90, regulatory |-> 90, company |-> 80, financial |-> 75,
     transcript |-> 80, news |-> 65, other |-> 45]

SourceConfidence(source, long) == BaseConfidence[source] - (IF long THEN 0 ELSE 15)

Supporting(id, risk, page, confidence) ==
    [id |-> id, risk |-> risk, url |-> page.url, supports |-> TRUE,
     contradicts |-> FALSE, abated |-> page.abated, confidence |-> confidence]

Trusted(page) ==
    page.text /\ page.http /\ SourceConfidence(page.source, page.long) >= 50

EvidenceOfPages(risk, id, pages) ==
    LET kept == SelectSeq([i \in DOMAIN pages |-> <<i, pages[i]>>],
                          LAMBDA p : Trusted(p[2]))
    IN  [i \in DOMAIN kept |->
            Supporting(<<"llm", risk.id>> \o id \o <<kept[i][1]>>, risk.id, kept[i][2],
                       SourceConfidence(kept[i][2].source, kept[i][2].long))]

EvidenceOfEvent(risk, event) ==
    IF ~event.success THEN <<>>
    ELSE CASE event.tool = "web_search" -> EvidenceOfPages(risk, event.id, event.found)
           [] event.tool = "search_and_fetch" ->
                EvidenceOfPages(risk, event.id, event.found)
                    \o EvidenceOfPages(risk, event.id \o <<"fetch">>, event.pages)
           [] event.tool = "web_fetch" -> EvidenceOfPages(risk, event.id, FirstOf(event.pages, 1))
           [] event.tool = "transcript_lookup" ->
                IF event.pages # <<>> /\ event.pages[1].http /\ event.pages[1].text
                THEN <<Supporting(<<"llm", risk.id>> \o event.id, risk.id, event.pages[1], 80)>>
                ELSE <<>>
           [] OTHER -> <<>>

\* Every risk is explored with the tools; `events' is what they report.
ExploreWithModel(risks, events) ==
    FlattenSeq([r \in DOMAIN risks |->
        FlattenSeq([e \in DOMAIN events |-> EvidenceOfEvent(risks[r], events[e])])])

\* The risks by falling severity, ties in their order.
BySeverity(risks) ==
    LET Before(i, j) == \/ risks[i].severity > risks[j].severity
                        \/ risks[i].severity = risks[j].severity /\ i < j
    IN  [k \in DOMAIN risks |->
            risks[CHOOSE i \in DOMAIN risks :
                    Cardinality({j \in DOMAIN risks : Before(j, i)}) = k - 1]]

\* One search per risk within the budget; `page' is the first result, if any.
ExploreWithSearch(risks, pages) ==
    LET searched == FirstOf(BySeverity(risks), MaxSearches)
    IN  IF pages = <<>> THEN <<>>
        ELSE [i \in DOMAIN searched |->
                Supporting(<<"market", "web">> \o pages[1].url, searched[i].id, pages[1], 70)]

ExploreLive(risks, events, pages) ==
    LET found == ExploreWithModel(risks, events)
    IN  IF found # <<>> THEN found ELSE ExploreWithSearch(risks, pages)

\* What the step keeps: evidence of a known risk or of none.
Attached(market, risks) ==
    SelectSeq(market, LAMBDA e : e.risk = NoRisk \/ e.risk \in Ids(risks))
=============================================================================

--------------------------- MODULE MCServerParts ---------------------------
(* Small values for the constants of ServerParts. *)
EXTENDS ServerParts, MCFinRisk, MCSupplyChain

-----------------------------------------------------------------------------
(* AnalystJournal, AnalystRecords: a point of one identity twice, one that is *)
(* imported with another value, and actuals filed before and after it.        *)

MCPeriods == {<<1, 2>>}

Point(identity, id, observed, asOf, value) ==
    [identity |-> identity, id |-> id, observed |-> observed, asOf |-> asOf, value |-> value, unit |-> "USD"]

MCPoints == {Point("i", "x", 1, 1, 1), Point("i", "x", 1, 2, 2), Point("i", "y", 1, 2, 1)}
MCImports == {<<Point("i", "y", 1, 2, 1), Point("i", "x", 1, 1, 0), Point("i", "x", 1, 1, 1)>>}

MCPeers ==
    {[base |-> "A", members |-> {"A", "B"}, confirmed |-> TRUE],
     [base |-> "A", members |-> {"A", "C"}, confirmed |-> TRUE],
     [base |-> "A", members |-> {"A", "C"}, confirmed |-> FALSE]}

Actual(filed) == [filed |-> filed, ended |-> 1, value |-> 2, unit |-> "USD"]
MCActuals == {{Actual(2)}, {Actual(0), Actual(3)}}

-----------------------------------------------------------------------------
(* FinancialFacts: quarters as year to date, one of them amended and one also *)
(* framed, and a year with its parts, filed later and amended again; another   *)
(* amendment of the half year without a filing day.                           *)

Fact(n, metric, form, amended, fp, framed, start, end, filed, value) ==
    [n |-> n, metric |-> metric, form |-> form, amended |-> amended, fp |-> fp, frame |-> framed,
     start |-> start, end |-> end, filed |-> filed, value |-> value]

MCFilings ==
    {Fact(1, "revenue", "10-Q", FALSE, "Q1", FALSE, 0, 3, 1, 4),
     Fact(2, "revenue", "10-Q", FALSE, "Q2", FALSE, 0, 6, 2, 9),
     Fact(3, "revenue", "10-Q", TRUE, "Q1", FALSE, 0, 3, 4, 5),
     Fact(4, "revenue", "10-Q", FALSE, "Q3", FALSE, 0, 9, 2, 14),
     Fact(5, "revenue", "10-Q", FALSE, "Q3", TRUE, 6, 9, 2, 6),
     Fact(6, "revenue", "10-K", FALSE, "FY", FALSE, 0, 12, 3, 20),
     Fact(7, "operating_cash_flow", "10-K", FALSE, "FY", FALSE, 0, 12, 3, 8),
     Fact(8, "capital_expenditure", "10-K", FALSE, "FY", FALSE, 0, 12, 3, -3),
     Fact(9, "revenue", "10-Q", TRUE, "Q2", FALSE, 0, 6, Undated, 8)}

ASSUME RegularFilings

-----------------------------------------------------------------------------
(* ToolCatalogue: a call of each tool, one of them with an unknown company. *)

Listed10(accession, form, parts) == [accession |-> accession, form |-> form, sections |-> parts]
OneRow == <<[concept |-> "rev"]>>

MCRegistry ==
    "AAA" :> [cik |-> 1,
              filings |-> <<Listed10("a1", "10-K", {"section_1a", "full_text"}),
                            Listed10("a2", "10-Q", {"full_text"})>>,
              calls |-> "q1" :> <<"qa", "prepared">>,
              metrics |-> <<"pe", "eps">>, facts |-> OneRow \o OneRow, former |-> OneRow]

MCForms == {"10-K", "10-Q"}
Asks(tool) == [tool |-> tool]

MCToolRequests ==
    {Asks("web_search"), Asks("browser_explore"),
     [tool |-> "sec_fetch_filing", ticker |-> "AAA", forms |-> MCForms, accession |-> "a2", section |-> "section_1a"],
     [tool |-> "sec_list_filings", ticker |-> "ZZZ", forms |-> MCForms, limit |-> 1],
     [tool |-> "transcript_lookup", ticker |-> "AAA", period |-> "q2", section |-> "all"],
     [tool |-> "management_snapshot_lookup", ticker |-> "AAA", period |-> "q1", against |-> "none"],
     [tool |-> "financial_metrics_lookup", ticker |-> "AAA", metrics |-> {"pe"}],
     [tool |-> "xbrl_fact_lookup", ticker |-> "AAA", concepts |-> <<"rev", "rev">>, limit |-> 1],
     [tool |-> "financial_snapshot_lookup", ticker |-> "AAA"],
     [tool |-> "graph_path_search", entity |-> "n1", target |-> "n3", hops |-> 9, edges |-> {}]}

MCGraphNodes == {"n1", "n2", "n3"}
MCGraphEdges == {<<"n1", "n2", "A">>, <<"n2", "n3", "B">>, <<"n3", "n1", "A">>}
MCGrants == {[scopes |-> {"company_research"}, interactive |-> i, write |-> FALSE] : i \in BOOLEAN}

-----------------------------------------------------------------------------
(* BrowserSession: a page with a link, one behind a consent dialog, one that *)
(* is blocked, and one that redirects to one that refuses.                   *)

SitePage(kind, text, blocked, refused, to) ==
    [kind |-> kind, text |-> text, blocked |-> blocked, refused |-> refused, to |-> to]

MCSite ==
    "u1" :> SitePage("content", "x", FALSE, FALSE, "u1") @@ "u2" :> SitePage("consent", "y", FALSE, FALSE, "u2")
    @@ "u3" :> SitePage("verification", "z", TRUE, FALSE, "u3")
    @@ "u4" :> SitePage("content", "w", FALSE, FALSE, "u5") @@ "u5" :> SitePage("content", "v", FALSE, TRUE, "u5")

MCLinks == "u1" :> "u3" @@ "u2" :> "u1"
MCInitialUrls == <<"u2", "u4">>

-----------------------------------------------------------------------------
(* GraphReasoning: a cycle through a supplier and a country, and an event. *)

Edge(source, target, type, confidence, cites) ==
    [source |-> source, target |-> target, type |-> type, confidence |-> confidence, cites |-> cites]

MCEdgesOf ==
    {Edge("AAA", "sup", "DEPENDS_ON", 90, {"e1"}), Edge("sup", "tw", "LOCATED_IN", 60, {}),
     Edge("tw", "AAA", "AFFECTS", 70, {}), Edge("tw", "ev", "EXPOSED_TO", 55, {"e2"}),
     Edge("AAA", "ev", "AFFECTS", 40, {"e1"})}

MCEvidenceRows ==
    {[id |-> "e1", source |-> "filing", credibility |-> 90], [id |-> "e2", source |-> "web", credibility |-> 50]}

MCEdgeTypes == "supply" :> {"DEPENDS_ON", "LOCATED_IN", "EXPOSED_TO"}

-----------------------------------------------------------------------------
(* ResearchDatabase, SearchRouter, MemoryLayer: a release and two that go on *)
(* from it differently; results of low, plain and preferred domains, one URL *)
(* twice, on a refused and a blacklisted page; one text under two ids, an    *)
(* edge that is a guess and a page of the web asked to be active.            *)

MCReleases == {<<"a">>, <<"a", "b">>, <<"a", "c">>}

Result(url, low, preferred, rank) ==
    [url |-> url, low |-> low, preferred |-> preferred, snippet |-> TRUE, title |-> preferred, rank |-> rank]

MCProviders == <<"tavily", "ddg">>
MCRequests == {[query |-> "q", most |-> n] : n \in 1..2}
MCFoundLists ==
    {<<>>, <<Result("u1", TRUE, FALSE, 1)>>,
     <<Result("u1", FALSE, FALSE, 1), Result("u2", FALSE, TRUE, 2), Result("u2", FALSE, TRUE, 3)>>}

Whole == [dynamic |-> FALSE, wellFormed |-> TRUE, refused |-> FALSE, network |-> "ok", http |-> 200,
          parses |-> TRUE, blacklisted |-> FALSE]
MCPages == "u1" :> [Whole EXCEPT !.blacklisted = TRUE] @@ "u2" :> [Whole EXCEPT !.http = 403]

Remembered(kind, id, source, text, status, hypothesis, tokens) ==
    [kind |-> kind, id |-> id, source |-> source, text |-> text, url |-> "u", asked |-> status,
     hypothesis |-> hypothesis, tokens |-> tokens]

MCSources ==
    {Remembered("evidence_memory", "1", "filing", "a", "default", FALSE, 3),
     Remembered("evidence_memory", "2", "filing", "a", "default", FALSE, 3),
     Remembered("graph_edge", "3", "graph", "b", "active", TRUE, 2),
     Remembered("graph_edge", "4", "graph", "d", "default", FALSE, 2),
     Remembered("evidence_memory", "1", "web", "c", "active", FALSE, 2)}

-----------------------------------------------------------------------------
(* CompanySources: a ticker with two candidates, of which the anchored one  *)
(* is the second, and one with a predecessor.  FilingReading: a line of     *)
(* each sort.  TranscriptSources: calls with a titled and without a titled  *)
(* CEO, with a sponsor and an operator first.                               *)

MCCiks == {"1", "2", "3"}
MCListed == "AAA" :> <<"1", "2">> @@ "BBB" :> <<"3">>
MCAnchors == "AAA" :> "2"

Line(item, ends, cautions, opens) == [item |-> item, ends |-> ends, cautions |-> cautions, opens |-> opens]
MCLines ==
    {Line("section_1a", TRUE, FALSE, FALSE), Line("section_1a", FALSE, TRUE, FALSE),
     Line("section_7", TRUE, FALSE, TRUE), Line("none", FALSE, FALSE, FALSE),
     Line("none", FALSE, TRUE, TRUE), Line("none", TRUE, FALSE, FALSE)}

Submission(form, filed, complete) ==
    [identified |-> filed # 2, form |-> form, filed |-> filed, complete |-> complete]
MCSubmissions ==
    {<<Submission("10-K", 3, TRUE), Submission("8-K", 2, TRUE), Submission("10-K", 1, TRUE),
       Submission("8-K", 1, FALSE)>>,
     <<Submission("8-K", 1, FALSE), Submission("10-K", 1, TRUE), Submission("10-Q", 1, TRUE)>>}

MCTitle ==
    "Ann" :> "ceo" @@ "Bob" :> "unknown" @@ "Cid" :> "unknown" @@ "Dan" :> "unknown"
    @@ "Sponsor" :> "unknown" @@ "Op" :> "operator" @@ "Unknown" :> "unknown"

Turn(speaker, marker, hint, text) == [speaker |-> speaker, marker |-> marker, hint |-> hint, text |-> text]
MCRawCalls ==
    {<<Turn("Sponsor", FALSE, FALSE, FALSE), Turn("Bob", FALSE, FALSE, TRUE), Turn("Cid", FALSE, FALSE, TRUE),
       Turn("Bob", FALSE, TRUE, TRUE), Turn("Dan", FALSE, FALSE, TRUE)>>,
     <<Turn("Op", FALSE, FALSE, FALSE), Turn("Ann", FALSE, FALSE, TRUE), Turn("Bob", TRUE, FALSE, TRUE),
       Turn("Unknown", FALSE, FALSE, TRUE), Turn("Bob", FALSE, FALSE, FALSE)>>}
MCWanted == {<<"defeatbeta", 1>>, <<"fmp", 1>>}

-----------------------------------------------------------------------------
(* CompanyAnalysis: texts with several signals, one and none; the stand-in *)
(* corpus knows another company.                                           *)

FilingText(text, year) == [text |-> text, year |-> year]
MCFilingTexts ==
    "sec" :> <<FilingText("f1", 2), FilingText("f2", 1), FilingText("f3", 1)>>
    @@ "defeatbeta" :> <<FilingText("f2", 1)>> @@ "corpus" :> <<FilingText("o1", 2), FilingText("o2", 1)>>
MCCallTexts == "defeatbeta" :> <<"c1">> @@ "fmp" :> <<"c1", "c2">> @@ "alpha_vantage" :> <<>>
MCSignals ==
    "f1" :> {"supply", "risk"} @@ "f2" :> {"risk", "policy"} @@ "f3" :> {} @@ "o1" :> {"supply"} @@ "o2" :> {}
    @@ "c1" :> {"tone", "supply"} @@ "c2" :> {"risk", "tone"} @@ "w1" :> {"supply", "risk"}
MCWebTexts == <<"w1">>

-----------------------------------------------------------------------------
(* EvidenceCandidates: results whole and cut, a text that begins like      *)
(* another, a page that failed, a result without a URL or without a text.  *)

MCGoals == <<"g1", "g2">>
TextA == <<"a", "x">>
LateA == <<"a", "y">>
TextB == <<"b", "">>
EmptyTable == <<"{}", "">>

Read(url, text) == [url |-> url, text |-> text]
ToolResult(tool, whole, shown, results, pages) ==
    [tool |-> tool, ok |-> TRUE, whole |-> whole, shown |-> shown, results |-> results, pages |-> pages]

MCToolResults ==
    {ToolResult("web_search", TRUE, 4, <<Read("u1", TextA), Read("u2", TextB)>>, <<>>),
     ToolResult("web_search", FALSE, 3, <<Read("u1", TextB), Read("u1", TextA)>>, <<>>),
     ToolResult("web_search", FALSE, 4, <<Read("u1", NoText), Read("u2", TextB)>>, <<>>),
     ToolResult("search_and_fetch", TRUE, 2, <<Read("u1", TextA)>>,
              <<[url |-> "u2", text |-> TextB, failed |-> TRUE], [url |-> "u1", text |-> LateA, failed |-> FALSE]>>),
     ToolResult("sec_fetch_filing", FALSE, 1, <<Read("u3", TextB)>>, <<>>),
     ToolResult("sec_fetch_filing", TRUE, 2, <<Read(NoUrl, NoText)>>, <<>>),
     ToolResult("transcript_lookup", TRUE, 2, <<Read("u4", TextA), Read("u4", TextB)>>, <<>>),
     ToolResult("xbrl_fact_lookup", TRUE, 2, <<Read(NoUrl, EmptyTable)>>, <<>>),
     ToolResult("graph_path_search", TRUE, 2, <<Read(NoUrl, TextB)>>, <<>>),
     [ToolResult("browser_explore", FALSE, 0, <<>>, <<>>) EXCEPT !.ok = FALSE]}

MCOverlap ==
    "g1" :> (TextA :> 40 @@ TextB :> 10 @@ LateA :> 40 @@ EmptyTable :> 0)
    @@ "g2" :> (TextA :> 0 @@ TextB :> 30 @@ LateA :> 0 @@ EmptyTable :> 0)

-----------------------------------------------------------------------------
(* ChangeReviews: a revenue that rises by eight percent, a better outlook, *)
(* a source that contradicts another, and a run whose components fail.     *)

MCCompanies == <<"AAA", "BBB">>

Metric(end, value, cites) ==
    [metric |-> "revenue", kind |-> "quarter", end |-> end, filed |-> end, value |-> value, sources |-> cites]
Call(outlook, uncertainty) ==
    [tones |-> [d \in Tones |-> IF d = "guidance_signal" THEN outlook ELSE "neutral"],
     levels |-> [d \in Levels |-> IF d = "uncertainty" THEN uncertainty ELSE 10],
     topics |-> "demand" :> outlook, cites |-> {"t1"}]
Cited(id, fact, value) == [id |-> id, fact |-> fact, value |-> value]
Rated(status) == "r1" :> [status |-> status, severity |-> "high", cites |-> {"f1"}]

Taken(points, calls, risks, state, sources) ==
    [points |-> points, calls |-> calls, risks |-> risks, sources |-> sources, asOf |-> 1,
     components |-> [c \in {"financials", "risks"} |-> state]]

MCBeginnings ==
    {<<Taken({{Metric(1, 100, {"f1"})}}, {Call("neutral", 20)}, Rated("new"), "complete",
             {Cited("s1", "f", 1), Cited("s2", "none", 0)})>>}
MCSnapshots ==
    {Taken({{Metric(2, 108, {"f2"}), Metric(1, 100, {"f1"})}}, {Call("positive", 26)}, Rated("new"), "complete",
           {Cited("s1", "f", 1), Cited("s2", "f", 2)}),
     Taken({}, {}, <<>>, "failed", {})}
=============================================================================

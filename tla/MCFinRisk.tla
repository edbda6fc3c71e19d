----------------------------- MODULE MCFinRisk -----------------------------
(* Small fixtures, filings and search results for FinRiskWorkflow. *)
EXTENDS FinRiskWorkflow

Risk(id, severity) == [id |-> <<id>>, severity |-> severity, quoted |-> TRUE]

SixRisks == [i \in 1..6 |-> Risk(<<"r1", "r2", "r3", "r4", "r5", "r6">>[i], 1 + (i % 3))]

\* None, one, one twice with another and an unquoted one, and more than five.
MCFixtureRisks ==
    {<<>>, <<Risk("r1", 3)>>,
     <<Risk("r1", 2), Risk("r2", 5), Risk("r1", 4), [Risk("r3", 5) EXCEPT !.quoted = FALSE]>>,
     SixRisks}

Market(id, risk, domain, supports, contradicts) ==
    [id |-> <<id>>, risk |-> risk, url |-> <<domain, "/a">>, supports |-> supports,
     contradicts |-> contradicts, abated |-> contradicts, confidence |-> 70]

\* None; evidence of no risk in particular; one URL for two risks, an unknown
\* risk and a row that takes no side; a refutation.
MCFixtureMarket ==
    {<<>>,
     <<Market("g", NoRisk, "d", TRUE, FALSE)>>,
     <<Market("a", <<"r1">>, "d", TRUE, FALSE), Market("b", <<"r2">>, "d", TRUE, FALSE),
       Market("c", <<"r9">>, "e", TRUE, FALSE), Market("n", <<"r1">>, "f", FALSE, FALSE)>>,
     <<Market("a", <<"r1">>, "d", FALSE, TRUE)>>}

\* No insight; cites of a risk, of evidence of no risk, and of nothing known.
MCFixtureInsights ==
    {<<>>, << <<<<"raw", "r1">>>> >>, << <<>>, <<<<"raw", "g">>>> >>,
     << <<<<"raw", "r1">>>>, <<<<"raw", "zz">>>> >>}

Filing(form, llm, keyword) ==
    [form |-> form, dated |-> TRUE, fetched |-> TRUE, text |-> TRUE, llm |-> llm, keyword |-> keyword]

\* A filing of another form, one without a date and one that cannot be
\* fetched come before the first that yields risks, or beyond the candidates.
MCFilingLists ==
    {<<>>,
     <<Filing("8-K", <<Risk("x", 1)>>, <<>>), Filing("10-K", <<Risk("r1", 4)>>, <<>>)>>,
     <<[Filing("10-Q", <<Risk("x", 1)>>, <<>>) EXCEPT !.dated = FALSE],
       [Filing("10-K", <<Risk("x", 1)>>, <<>>) EXCEPT !.fetched = FALSE],
       Filing("10-Q", <<>>, <<Risk("r1", 3), Risk("r2", 3)>>)>>,
     <<Filing("10-K", <<>>, <<>>), Filing("10-Q", <<>>, <<>>), Filing("10-K", <<Risk("x", 1)>>, <<>>)>>}

Page(source, long) ==
    [url |-> <<source, "/p">>, http |-> TRUE, source |-> source, text |-> TRUE,
     long |-> long, abated |-> FALSE]

Event(id, tool, found, pages) ==
    [id |-> <<id>>, tool |-> tool, success |-> TRUE, found |-> found, pages |-> pages]

MCEventLists ==
    {<<>>,
     <<Event("e1", "web_search", <<Page("other", TRUE)>>, <<>>)>>,
     <<Event("e1", "search_and_fetch", <<Page("news", TRUE)>>, <<Page("financial", FALSE)>>),
       Event("e2", "transcript_lookup", <<>>, <<Page("transcript", TRUE)>>)>>}

MCPageLists == {<<>>, <<Page("news", TRUE)>>}
=============================================================================

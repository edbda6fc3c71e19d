-------------------------- MODULE CompanyAnalysis ---------------------------
(***************************************************************************)
(* The command line's analysis of one company                              *)
(* (pipelines/analyze_company.py): sources tried one after the other, rule *)
(* agents that may fail one by one, and a report made of what is left.     *)
(*                                                                         *)
(* Evidence is an identifier; a text is known as [text, form], by the rule *)
(* pass as a section or a sentence of it, by the agents as a row.  A claim *)
(* is [id, kind, cites, confidence]; Signals says which agents find        *)
(* something in a text.                                                    *)
(***************************************************************************)
EXTENDS Integers, FiniteSets, Sequences, SequencesExt, DataOperators

CONSTANTS
    FilingTexts,    \* source of filings -> its texts [text, year], newest first
    CallTexts,      \* provider -> its transcripts' texts, newest first
    WebTexts,       \* what a web search finds
    Signals,        \* text -> subset of {"supply", "risk", "tone", "policy"}
    Years,          \* fiscal years somebody asks for, 0 for any
    MaxTranscripts  \* bound on the transcripts

FilingSources == <<"sec", "defeatbeta", "corpus">>
TranscriptProviders == <<"defeatbeta", "fmp", "alpha_vantage">>

ASSUME AnalysisAssumption ==
    /\ MaxTranscripts \in Nat
    /\ \A i \in 1..3 : FilingTexts[FilingSources[i]] \in Seq(ToSet(FilingTexts[FilingSources[i]]))
    /\ \A i \in 1..3 : CallTexts[TranscriptProviders[i]] \in Seq(ToSet(CallTexts[TranscriptProviders[i]]))
    /\ WebTexts \in Seq(ToSet(WebTexts))

VARIABLES
    stage,      \* where the pipeline is
    arguments,      \* the arguments: [year, web, transcripts]
    raw,        \* [filings, calls, web]: texts that were loaded
    claims,     \* all_claims; after the merge the claims of the state
    evidence,   \* all_evidence; after the merge the evidence of the state
    hypotheses, \* [kind, cites]
    report      \* [lines, sources, unsupported], or NoBrief

analysisVars == <<stage, arguments, raw, claims, evidence, hypotheses, report>>

Stages == <<"filings", "calls", "web", "supply", "risk", "sentiment", "policy",
            "merge", "opportunity", "critic", "report", "done">>
StageAfter(s) == Stages[1 + (CHOOSE i \in DOMAIN Stages : Stages[i] = s)]
NoBrief == [lines |-> {}, sources |-> <<>>, unsupported |-> {}]

AnalysisInit ==
    /\ stage = "filings"
    /\ arguments \in [year : Years, web : BOOLEAN, transcripts : 0..MaxTranscripts]
    /\ raw = [filings |-> <<>>, calls |-> <<>>, web |-> <<>>]
    /\ claims = <<>> /\ evidence = <<>> /\ hypotheses = <<>>
    /\ report = NoBrief

At(s) == stage = s /\ stage' = StageAfter(s)

-----------------------------------------------------------------------------
(* Sources *)

FirstNonEmpty(alternatives) ==
    LET some == {i \in DOMAIN alternatives : alternatives[i] # <<>>}
    IN  IF some = {} THEN <<>> ELSE alternatives[CHOOSE i \in some : \A j \in some : i <= j]

\* What a source gives: each download may fail; SEC and the catalogue stop at
\* the first filing of the year (and keep the ones before it), the corpus
\* gives the first one of the year, of whichever company.
GivenBy(source, year, failed) ==
    LET there == FilingTexts[source]
        arrived == Selected(there, {i \in DOMAIN there : there[i].text \notin failed})
        ofYear == {i \in DOMAIN arrived : arrived[i].year = year}
        first == CHOOSE i \in ofYear : \A j \in ofYear : i <= j
    IN  IF source # "corpus" THEN IF year # 0 /\ ofYear # {} THEN SubSeq(arrived, 1, first) ELSE arrived
        ELSE IF arrived = <<>> THEN <<>>
        ELSE IF year = 0 THEN <<arrived[1]>>
        ELSE IF ofYear = {} THEN <<>> ELSE <<arrived[first]>>

\* _load_filings_live: the next source when the one before gave nothing.
LoadFilings ==
    /\ At("filings")
    /\ \E failed \in SUBSET UNION {{FilingTexts[s][i].text : i \in DOMAIN FilingTexts[s]} : s \in DOMAIN FilingTexts} :
         LET filings == FirstNonEmpty([i \in 1..3 |-> GivenBy(FilingSources[i], arguments.year, failed)])
         IN  raw' = [raw EXCEPT !.filings = [i \in DOMAIN filings |-> filings[i].text]]
    /\ UNCHANGED <<arguments, claims, evidence, hypotheses, report>>

\* _load_transcripts_live: the providers that are configured, in their order,
\* until one gave a transcript.
LoadTranscripts ==
    /\ At("calls")
    /\ \E usable \in SUBSET DOMAIN CallTexts :
         LET Calls(p) == IF p \in usable
                         THEN SubSeq(CallTexts[p], 1, IF Len(CallTexts[p]) < arguments.transcripts THEN Len(CallTexts[p]) ELSE arguments.transcripts)
                         ELSE <<>>
         IN  raw' = [raw EXCEPT !.calls = FirstNonEmpty([i \in 1..3 |-> Calls(TranscriptProviders[i])])]
    /\ UNCHANGED <<arguments, claims, evidence, hypotheses, report>>

LoadWeb ==
    /\ At("web")
    /\ \E found \in IF arguments.web THEN {<<>>, WebTexts} ELSE {<<>>} : raw' = [raw EXCEPT !.web = found]
    /\ UNCHANGED <<arguments, claims, evidence, hypotheses, report>>

RowOf(text) == [text |-> text, form |-> "row"]
Sentence(text) == [text |-> text, form |-> "sentence"]
Rows(texts) == [i \in DOMAIN texts |-> RowOf(texts[i])]
WebRows == Rows(raw.web)
AllTexts == raw.web \o raw.filings \o raw.calls
Mentioning(signal, texts) == Selected(texts, {i \in DOMAIN texts : signal \in Signals[texts[i]]})

-----------------------------------------------------------------------------
(* Agents.  One that raises has left the lists as they were. *)

Claim(id, kind, cites) == [id |-> id, kind |-> kind, cites |-> cites, confidence |-> 55]

Extend(moreClaims, moreEvidence) ==
    \/ claims' = claims \o moreClaims /\ evidence' = evidence \o moreEvidence
    \/ UNCHANGED <<claims, evidence>>

\* extract_supply_chain_claims: a sentence is evidence of its own.
RunSupplyRules ==
    LET found == Mentioning("supply", AllTexts)
    IN  /\ At("supply")
        /\ Extend([i \in DOMAIN found |-> Claim(<<"supply", found[i]>>, "supply_chain", {Sentence(found[i])})],
                  [i \in DOMAIN found |-> Sentence(found[i])])
        /\ UNCHANGED <<arguments, raw, hypotheses, report>>

\* analyze_company_risks: a seed for each row with a risk in it and, from
\* RiskAgent, a claim that counts them, which cites nothing.
RiskSignals(texts) ==
    LET found == Mentioning("risk", texts)
        seeds == [i \in DOMAIN found |-> Claim(<<"risk", found[i]>>, "risk", {RowOf(found[i])})]
    IN  IF found = <<>> THEN <<>> ELSE Append(seeds, Claim(<<"risk_category", "all">>, "risk", {}))

RunRisks ==
    LET texts == raw.filings \o raw.calls \o raw.web
    IN  /\ At("risk")
        /\ Extend(RiskSignals(texts), Rows(texts))
        /\ UNCHANGED <<arguments, raw, hypotheses, report>>

\* analyze_management_sentiment: claims about the rows of the calls, whose
\* evidence only the risk agent hands on.
RunSentiment ==
    LET toned == Mentioning("tone", raw.calls)
    IN  /\ At("sentiment")
        /\ Extend(IF toned = <<>> THEN <<>>
                  ELSE <<Claim(<<"tone", "calls">>, "sentiment", {RowOf(toned[i]) : i \in DOMAIN toned})>>, <<>>)
        /\ UNCHANGED <<arguments, raw, hypotheses, report>>

PolicyClaims(rows) ==
    LET found == Selected(rows, {i \in DOMAIN rows : "policy" \in Signals[rows[i].text]})
    IN  [i \in DOMAIN found |-> Claim(<<"policy", found[i].text>>, "policy_exposure", {found[i]})]

\* PolicyGeoAgent looks at the evidence of the state, which has none yet.
RunPolicy ==
    /\ At("policy")
    /\ Extend(PolicyClaims(<<>>), <<>>)
    /\ UNCHANGED <<arguments, raw, hypotheses, report>>

Deduplicated(rows) == Selected(rows, {i \in DOMAIN rows : \A j \in 1..(i - 1) : rows[j] # rows[i]})

\* What was collected becomes the state's.
Merge ==
    /\ At("merge")
    /\ evidence' = WebRows \o Deduplicated(evidence)
    /\ UNCHANGED <<arguments, raw, claims, hypotheses, report>>

-----------------------------------------------------------------------------
(* OpportunityAgent, CriticAgent, ReportAgent *)

FirstOfKind(kind) ==
    LET some == {i \in DOMAIN claims : claims[i].kind = kind}
    IN  IF some = {} THEN {} ELSE {CHOOSE i \in some : \A j \in some : i <= j}

\* _gather_evidence: the claim's own, or else the first row there is.
Gathered(claim) ==
    IF claim.cites # {} \/ evidence = <<>> THEN claim.cites ELSE {evidence[1]}

Hypothesis(kind, i) == [kind |-> kind, cites |-> Gathered(claims[i])]

\* generate: one hypothesis for a rule; of the paddings, whose texts are all
\* the same, the first; a placeholder when there were fewer than three.
Generated ==
    LET supply == FirstOfKind("supply_chain")
        tone == FirstOfKind("sentiment")
        risk == FirstOfKind("risk")
        policy == FirstOfKind("policy_exposure")
        spare == {i \in DOMAIN claims : i \notin supply \cup tone \cup risk \cup policy /\ claims[i].cites # {}}
        demand == {CHOOSE i \in spare : \A j \in spare : i <= j : k \in IF spare = {} THEN {} ELSE {1}}
        turned == IF risk # {} THEN tone ELSE {}
        rules == Cardinality(supply) + Cardinality(policy) + Cardinality(turned) + Cardinality(risk)
        placeholder == IF rules + Cardinality(spare) < 3 /\ evidence # <<>> THEN {1} ELSE {}
    IN  SetToSeq({Hypothesis("supply_chain_opportunity", i) : i \in supply}
                 \cup {Hypothesis("policy_beneficiary", i) : i \in policy}
                 \cup {Hypothesis("sentiment_turnaround", i) : i \in turned}
                 \cup {Hypothesis("risk_mispricing", i) : i \in risk}
                 \cup {Hypothesis("demand_acceleration", i) : i \in demand}
                 \cup {[kind |-> "placeholder", cites |-> {evidence[i] : i \in {1, 2} \cap DOMAIN evidence}] : k \in placeholder})

DiscoverOpportunities ==
    /\ At("opportunity")
    /\ hypotheses' \in {Generated, <<>>}
    /\ UNCHANGED <<arguments, raw, claims, evidence, report>>

\* CriticAgent: claims without evidence are dropped, very sure ones with one
\* row are capped.
Criticised(some) ==
    LET kept == Selected(some, {i \in DOMAIN some : some[i].cites # {}})
    IN  [i \in DOMAIN kept |->
            IF kept[i].confidence > 90 /\ Cardinality(kept[i].cites) < 2 THEN [kept[i] EXCEPT !.confidence = 80] ELSE kept[i]]

\* The pass works on a state of its own; the list that was filtered is not
\* the one the report is made from.  Only the caps, set on shared claims,
\* are seen.
Criticise ==
    LET capped == {Criticised(claims)[i] : i \in DOMAIN Criticised(claims)}
    IN  /\ At("critic")
        /\ claims' = [i \in DOMAIN claims |->
               LET own == {c \in capped : c.id = claims[i].id} IN IF own = {} THEN claims[i] ELSE CHOOSE c \in own : TRUE]
        /\ UNCHANGED <<arguments, raw, evidence, hypotheses, report>>

\* _index_evidence: numbers of the sources.
NumbersOf(cites, sources) == {i \in DOMAIN sources : sources[i] \in cites}

\* Mutant: lines without a reference are kept.
AllLinesOf(items, sources) ==
    {[of |-> items[i], refs |-> NumbersOf(items[i].cites, sources)] : i \in DOMAIN items}

\* A line of the body is a claim or a hypothesis that cites a listed source.
LinesOf(items, sources) ==
    {[of |-> items[i], refs |-> NumbersOf(items[i].cites, sources)] :
        i \in {i \in DOMAIN items : NumbersOf(items[i].cites, sources) # {}}}

\* ReportAgent.generate
WriteBrief ==
    LET sources == Deduplicated(evidence)
    IN  /\ At("report")
        /\ report' = [lines |-> LinesOf(claims, sources) \cup LinesOf(hypotheses, sources),
                      sources |-> sources,
                      unsupported |-> {claims[i].id : i \in {i \in DOMAIN claims : claims[i].cites = {}}}]
        /\ UNCHANGED <<arguments, raw, claims, evidence, hypotheses>>

AnalysisNext ==
    \/ LoadFilings \/ LoadTranscripts \/ LoadWeb
    \/ RunSupplyRules \/ RunRisks \/ RunSentiment \/ RunPolicy \/ Merge
    \/ DiscoverOpportunities \/ Criticise \/ WriteBrief

AnalysisSpec == AnalysisInit /\ [][AnalysisNext]_analysisVars

-----------------------------------------------------------------------------

\* Whichever sources and agents failed, and though the critic's list is not
\* the one the report reads: every line of the body has a reference, all
\* references of a line stand for sources it is about, no source is listed
\* twice, and a claim without evidence is in the list of those and no line.
ReportAssertsEvidence ==
    /\ \A line \in report.lines :
         /\ line.refs # {}
         /\ \A n \in line.refs : report.sources[n] \in line.of.cites
    /\ \A i, j \in DOMAIN report.sources : report.sources[i] = report.sources[j] => i = j
    /\ report # NoBrief => \A i \in DOMAIN claims : claims[i].cites = {} =>
         /\ claims[i].id \in report.unsupported
         /\ \A line \in report.lines : line.of # claims[i]
=============================================================================

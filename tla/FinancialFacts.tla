--------------------------- MODULE FinancialFacts ---------------------------
(***************************************************************************)
(* The financial snapshot of one company, built from what it has filed     *)
(* (research/financial_snapshot.py), and the check of its arithmetic       *)
(* (research/financial_reconciliation.py).  A day is thirty calendar days: *)
(* a quarter ends three days after the last.                               *)
(***************************************************************************)
EXTENDS DataOperators

CONSTANTS
    Filings,      \* facts a company may file: [n, metric, form, amended, fp, frame, start, end, filed, value]
    Undated,      \* the day of a fact whose filing day is missing or no date
    AsOfDays,     \* days a reader asks about
    Policies,     \* of restatements: "latest_known", "original", "amended_only"
    LastDay       \* bound of the clock

ASSUME FinancialAssumption ==
    /\ LastDay \in Nat /\ AsOfDays \subseteq Int /\ Undated \notin Int
    /\ \A f \in Filings :
        /\ f.n \in Nat /\ f.filed \in Int \cup {Undated} /\ f.start \in Int /\ f.end \in Int /\ f.value \in Int
        /\ f.metric \notin {"free_cash_flow", "operating_margin"}
    /\ \A f, g \in Filings : f.n = g.n => f = g

VARIABLES facts, today, snapshot

financialVars == <<facts, today, snapshot>>

InstantMetrics == {"current_debt", "long_term_debt", "total_debt"}
TtmMetrics == {"revenue", "operating_income", "operating_cash_flow", "free_cash_flow"}
MarginOf == [operating_income |-> "operating_margin"]
NoSnapshot == [asOf |-> 0, policy |-> "none", at |-> 0, undated |-> {}, points |-> {}, changes |-> {}]

QuarterMonths == 2..4
YearMonths == 11..13
NextQuarter(p, q) == q.end - p.end \in QuarterMonths
YearApart(p, q) == q.end - p.end \in YearMonths
-----------------------------------------------------------------------------
(* Reported points *)

\* The year to date of Q2 and Q3 is not a quarter; a 6-K is told by its length.
FactKind(f) ==
    LET days == f.end - f.start IN
    IF f.metric \in InstantMetrics THEN "instant"
    ELSE IF f.form \in {"10-K", "20-F"} \/ f.fp = "FY" THEN "annual"
    ELSE IF (f.form = "10-Q" /\ (f.frame \/ f.fp = "Q1")) \/ (f.form = "6-K" /\ days <= 4) THEN "quarter"
    ELSE IF (f.form = "10-Q" /\ f.fp \in {"Q2", "Q3"}) \/ (f.form = "6-K" /\ days < 11) THEN "year_to_date"
    ELSE "unknown"

\* Mutant: the end of the period is compared, not the day of the filing.
UsableByPeriod(f, asOf) == f.form \in {"10-K", "10-Q", "20-F", "6-K"} /\ f.end <= asOf

\* A fact without a filing day is in the snapshot of every day.
Usable(f, asOf) ==
    f.form \in {"10-K", "10-Q", "20-F", "6-K"} /\ (f.filed = Undated \/ f.filed <= asOf)

\* Mutant: the dates that stand for no date are swapped.
UndatedWins(f, same, policy) ==
    LET before(a, b) == b # Undated /\ (a = Undated \/ a < b)
        after(a, b)  == b # Undated /\ (a = Undated \/ a > b) IN
    \A g \in same \ {f} :
        \/ policy = "original" /\ before(f.filed, g.filed)
        \/ policy # "original" /\ after(f.filed, g.filed)
        \/ f.filed = g.filed /\ f.n < g.n

\* Of the facts of one period one is kept; the first one of a tie.  One without
\* a day gives way to any other, as the latest of all or as the earliest.
KeptFacts(f, same, policy) ==
    LET before(a, b) == a # Undated /\ (b = Undated \/ a < b)
        after(a, b)  == a # Undated /\ (b = Undated \/ a > b) IN
    \A g \in same \ {f} :
        \/ policy = "original" /\ before(f.filed, g.filed)
        \/ policy # "original" /\ after(f.filed, g.filed)
        \/ f.filed = g.filed /\ f.n < g.n

DedupeFacts(rows, policy) ==
    LET allowed == {f \in rows : policy = "amended_only" => f.amended} IN
    {f \in allowed :
        KeptFacts(f, {g \in allowed : g.metric = f.metric /\ g.end = f.end /\ FactKind(g) = FactKind(f)}, policy)}

\* start = -1 stands for no start, derived = "no" for a reported point.
MetricPoint(metric, kind, fp, start, end, value, derived, sources) ==
    [metric |-> metric, kind |-> kind, fp |-> fp, start |-> start, end |-> end,
     value |-> value, derived |-> derived, sources |-> sources]

ToPoint(f) == MetricPoint(f.metric, FactKind(f), f.fp, f.start, f.end, f.value, "no", {f.n})
-----------------------------------------------------------------------------
(* Derived points *)

Difference(current, prior, fp, how) ==
    MetricPoint(current.metric, "quarter", fp, -1, current.end, current.value - prior.value, how,
          current.sources \cup prior.sources)

\* Q2 and Q3 from the year to date, Q4 from the year, within one start; where
\* the quarter is not there already.
QuarterRules ==
    {[of |-> "year_to_date", less |-> "quarter", after |-> "Q1", gives |-> "Q2", how |-> "Q2 YTD - Q1"],
     [of |-> "year_to_date", less |-> "year_to_date", after |-> "Q2", gives |-> "Q3", how |-> "Q3 YTD - Q2"],
     [of |-> "annual", less |-> "year_to_date", after |-> "Q3", gives |-> "Q4", how |-> "FY - Q3 YTD"]}

DeriveQuarters(points, rule) ==
    LET flows == {p \in points : p.metric \notin InstantMetrics /\ p.start # -1}
        isThere(c) == \E q \in points :
            /\ q.kind = "quarter" /\ q.metric = c.metric
            /\ q.end = c.end \/ (q \in flows /\ q.start = c.start /\ q.fp = rule.gives)
        totals == {c \in flows : c.kind = rule.of /\ (rule.of = "annual" \/ c.fp = rule.gives) /\ ~isThere(c)} IN
    UNION {{Difference(c, q, rule.gives, rule.how) :
              q \in {x \in flows : x.kind = rule.less /\ x.fp = rule.after /\ x.metric = c.metric /\ x.start = c.start}} :
           c \in totals}

DeriveDiscreteQuarters(points) == UNION {DeriveQuarters(points, rule) : rule \in QuarterRules}

\* A point of two metrics of one period and kind.
Combine(points, first, second, metric, value(_, _)) ==
    UNION {{MetricPoint(metric, p.kind, p.fp, p.start, p.end, value(p.value, q.value), metric,
                  p.sources \cup q.sources) :
              q \in {r \in points : r.metric = second /\ r.end = p.end /\ r.kind = p.kind}} :
           p \in {r \in points : r.metric = first}}

DeriveTotalDebt(points) ==
    Combine(points, "long_term_debt", "current_debt", "total_debt", LAMBDA a, b : a + b)

DeriveFreeCashFlow(points) ==
    Combine(points, "operating_cash_flow", "capital_expenditure", "free_cash_flow",
            LAMBDA a, b : a - (IF b < 0 THEN -b ELSE b))

Percent(a, b) == IF b > 0 THEN (100 * a) \div b ELSE (-100 * a) \div (-b)

\* A margin in percent; a revenue of zero has none.
DeriveMargins(points) ==
    LET earning == {p \in points : p.metric # "revenue" \/ p.value # 0} IN
    UNION {Combine(earning, m, "revenue", MarginOf[m], Percent) : m \in DOMAIN MarginOf}

SeriesOf(points, metric, kind) == {p \in points : p.metric = metric /\ p.kind = kind}

\* The last points of a series up to p, in the order of their ends.
LastUpTo(series, p, count) ==
    {q \in series : q.end <= p.end /\ Cardinality({r \in series : q.end < r.end /\ r.end <= p.end}) < count}

Before(series, p) == {q \in series : q.end < p.end /\ \A r \in series : r.end <= q.end \/ r.end >= p.end}

\* Mutant: the last quarters there are, four or not.
WindowHoldsShort(window) == \A q \in window : \A r \in Before(window, q) : NextQuarter(r, q)

WindowHolds(window) ==
    /\ Cardinality(window) = 4
    /\ \A q \in window : \A r \in Before(window, q) : NextQuarter(r, q)

TotalOf(window) == Balance(window, [p \in window |-> p.value])

DeriveTtm(points) ==
    UNION {LET series == SeriesOf(points, m, "quarter") IN
           {LET window == LastUpTo(series, p, 4)
                first == CHOOSE q \in window : \A r \in window : q.end <= r.end IN
            MetricPoint(m, "ttm", p.fp, first.start, p.end, TotalOf(window), "ttm", UNION {q.sources : q \in window}) :
                p \in {q \in series : WindowHolds(LastUpTo(series, q, 4))}} : m \in TtmMetrics}

\* Changes against the quarter before, the quarter and the year of a year ago.
Change(p, q, type) ==
    [metric |-> p.metric, type |-> type, current |-> p.end, before |-> q.end,
     change |-> p.value - q.value, sources |-> p.sources \cup q.sources]

MonthsOff(p, q) == IF p.end - q.end < 12 THEN 12 - (p.end - q.end) ELSE p.end - q.end - 12

\* Against the point of the series that comes nth before, when that is close.
ChangesInSeries(series, type, months, nth) ==
    UNION {{Change(p, q, type) : q \in {r \in series : r.end < p.end /\ p.end - r.end \in months
                /\ Cardinality({x \in series : r.end < x.end /\ x.end <= p.end}) = nth}} : p \in series}

\* Against the point nearest to a year before, of those about a year before.
ChangesOverYear(series) ==
    UNION {{Change(p, q, "yoy") :
              q \in {r \in series : /\ r.end < p.end /\ YearApart(r, p)
                                    /\ \A x \in series : x.end < p.end /\ YearApart(x, p) => MonthsOff(p, r) <= MonthsOff(p, x)}} :
           p \in series}

DeriveChanges(points) ==
    UNION {ChangesInSeries(SeriesOf(points, m, "quarter"), "qoq", QuarterMonths, 1)
           \cup ChangesOverYear(SeriesOf(points, m, "quarter"))
           \cup ChangesInSeries(SeriesOf(points, m, "ttm"), "ttm_yoy", YearMonths, 4)
           \cup ChangesInSeries(SeriesOf(points, m, "annual"), "annual_yoy", YearMonths, 1) :
           m \in {p.metric : p \in points}}

BuildPoints(rows, asOf, policy) ==
    LET reported == {ToPoint(f) : f \in DedupeFacts({g \in rows : Usable(g, asOf)}, policy)}
        quarters == reported \cup DeriveDiscreteQuarters(reported)
        debts == quarters \cup DeriveTotalDebt(quarters)
        flows == debts \cup DeriveFreeCashFlow(debts)
        sums == flows \cup DeriveTtm(flows) IN
    sums \cup DeriveMargins(sums)
-----------------------------------------------------------------------------
FinancialInit == facts = {} /\ today = 0 /\ snapshot = NoSnapshot

\* What a company files on a day is known from that day on, and what has no day
\* may come on any; not every company files everything.
File ==
    /\ \E f \in Filings \ facts :
        /\ f.filed \in {today, Undated}
        /\ \A g \in facts : g.filed = f.filed => g.n < f.n
        /\ facts' = facts \cup {f}
    /\ UNCHANGED <<today, snapshot>>

NextDay ==
    /\ today < LastDay
    /\ today' = today + 1
    /\ UNCHANGED <<facts, snapshot>>

UndatedFacts(rows) == {f \in rows : f.filed = Undated}

\* build_snapshot: of the facts as they are now, known on or before a day.
\* "undated" is history: the facts without a day there were.
BuildSnapshot ==
    /\ snapshot = NoSnapshot
    /\ \E asOf \in AsOfDays, policy \in Policies :
        LET points == BuildPoints(facts, asOf, policy) IN
        snapshot' = [asOf |-> asOf, policy |-> policy, at |-> today,
                     undated |-> UndatedFacts(facts), points |-> points, changes |-> DeriveChanges(points)]
    /\ UNCHANGED <<facts, today>>

FinancialNext == File \/ NextDay \/ BuildSnapshot

FinancialSpec == FinancialInit /\ [][FinancialNext]_financialVars
-----------------------------------------------------------------------------
(* The check of a snapshot *)

YtdBefore(points, c) ==
    LET prior == {q \in points : q.metric = c.metric /\ q.kind = "year_to_date"
                                 /\ q.start = c.start /\ q.end < c.end} IN
    {q \in prior : \A r \in prior : r.end <= q.end}

QuarterBefore(points, c) ==
    {q \in points : q.metric = c.metric /\ q.kind = "quarter" /\ q.start = c.start}

DerivedQuarterMatches(p, points) ==
    LET total(kind) == {c \in points : c.metric = p.metric /\ c.kind = kind /\ c.end = p.end}
        matches(kind, prior(_, _)) == \E c \in total(kind) : \E q \in prior(points, c) : p.value = c.value - q.value IN
    CASE p.derived = "FY - Q3 YTD"  -> matches("annual", YtdBefore)
      [] p.derived = "Q2 YTD - Q1"  -> matches("year_to_date", QuarterBefore)
      [] p.derived = "Q3 YTD - Q2"  -> matches("year_to_date", YtdBefore)
      [] OTHER -> TRUE

TtmMatches(p, points) ==
    LET window == LastUpTo(SeriesOf(points, p.metric, "quarter"), p, 4) IN
    Cardinality(window) = 4 /\ p.value = TotalOf(window)

Reconciles(points) ==
    \A p \in points :
        /\ p.kind = "quarter" /\ p.metric # "free_cash_flow" => DerivedQuarterMatches(p, points)
        /\ p.kind = "ttm" /\ p.metric \in TtmMetrics => TtmMatches(p, points)
-----------------------------------------------------------------------------
(* Properties *)

FinancialTypeOK ==
    /\ facts \subseteq Filings
    /\ today \in 0..LastDay
    /\ \A p \in snapshot.points : p.kind \in {"instant", "annual", "quarter", "year_to_date", "ttm", "unknown"}

FiledOn(sources) == {f.filed : f \in {g \in Filings : g.n \in sources}}

\* Periods on calendar months: years that begin in one month of the calendar,
\* quarters and years to date within them.
OnMonths(kind, p, first) ==
    /\ kind = "annual" => p.start % 12 = first /\ p.end = p.start + 12
    /\ kind = "year_to_date" =>
        /\ p.start % 12 = first
        /\ (p.fp = "Q2" /\ p.end = p.start + 6) \/ (p.fp = "Q3" /\ p.end = p.start + 9)
    /\ kind = "quarter" =>
        /\ p.start % 3 = first % 3 /\ p.end = p.start + 3
        /\ p.fp = "Q1" => p.start % 12 = first

RegularFilings == \E first \in 0..11 : \A f \in Filings : OnMonths(FactKind(f), f, first)

\* What a metric is computed from.
PartsOf(metric) ==
    CASE metric = "free_cash_flow"   -> {"operating_cash_flow", "capital_expenditure"}
      [] metric = "operating_margin" -> {"operating_income", "revenue"}
      [] OTHER -> {metric}

\* The quarters of a trailing sum are those of the year of a: the first one as
\* reported, the others by difference.
MadeOfTheYear(points, metric, a) ==
    \A q \in LastUpTo(SeriesOf(points, metric, "quarter"), a, 4) :
        q.derived # "no" \/ (q.fp = "Q1" /\ q.start = a.start)

\* Expenditure that changes its sign does not add up to its amount.
OneSign(quarters) == (\A q \in quarters : q.value >= 0) \/ (\A q \in quarters : q.value <= 0)

\* The sum of four derived quarters of a year is the year; so are the cash flow
\* and the margin that are computed of such sums.
TtmIsTheYear(points) ==
    \A a, p \in points :
        (/\ a.kind = "annual" /\ p.kind = "ttm" /\ p.metric = a.metric /\ p.end = a.end
         /\ \A part \in PartsOf(a.metric) : MadeOfTheYear(points, part, a)
         /\ a.metric = "free_cash_flow" =>
                OneSign(LastUpTo(SeriesOf(points, "capital_expenditure", "quarter"), a, 4)))
        => p.value = a.value

\* A snapshot as of a day uses nothing whose filing day is later, through however
\* many derived points and changes, under every policy of restatements.  A fact
\* without a filing day is in every snapshot: of it nothing is promised.
KnowsOnlyTheFiled ==
    \A x \in snapshot.points \cup snapshot.changes :
        \A d \in FiledOn(x.sources) \ {Undated} : d <= snapshot.asOf

\* The points reported by facts that have a day.
DatedPoints(points) == {p \in points : p.derived = "no" /\ Undated \notin FiledOn(p.sources)}

\* A snapshot of a day that is over comes out the same when it is built again
\* later, unless a fact without a day has come since; and also then no such fact
\* takes the place of one with a day.
RebuildsTheSame ==
    LET again == BuildPoints(facts, snapshot.asOf, snapshot.policy) IN
    snapshot.asOf < snapshot.at =>
        /\ snapshot.undated = UndatedFacts(facts) => snapshot.points = again
        /\ DatedPoints(snapshot.points) = DatedPoints(again)

SnapshotIsPointInTime == KnowsOnlyTheFiled /\ RebuildsTheSame

\* The quarters and sums of a snapshot agree with what they were made of, when
\* periods are regular: the builder pairs periods by their ends.
SnapshotAddsUp == Reconciles(snapshot.points) /\ TtmIsTheYear(snapshot.points)
=============================================================================

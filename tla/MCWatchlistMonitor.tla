----------------------- MODULE MCWatchlistMonitor -----------------------
(* Instances of WatchlistMonitor for TLC. *)
EXTENDS WatchlistMonitor, TLC

CONSTANTS fact1, fact2

\* The provider's answers for a component whose fact at each time is f[t]: a
\* fact is filed when it first appears.
Filings(f) ==
    [t \in Time |->
        [fact |-> f[t],
         filed |-> CHOOSE u \in 0..t : /\ \A v \in u..t : f[v] = f[t]
                                       /\ u > 0 => f[u - 1] # f[t]]]

Always(fact) == Filings([t \in Time |-> fact])

\* The provider's answers when it gives no date.
Unfiled(f) == [t \in Time |-> [fact |-> f[t], filed |-> Undated]]
From(start, before, after) ==
    Filings([t \in Time |-> IF t < start THEN before ELSE after])

\* Filings that come and are restated, in every course that starts with fact1
\* until instant 1, with a steady transcript and steady risks; and one restatement
\* beside a transcript published without a date.
FilingHistories ==
    LET With(filings, transcript) ==
            [financials |-> filings, management |-> transcript, risks |-> Always(fact1)]
        courses == {f \in [Time -> {fact1, fact2}] : f[0] = fact1 /\ f[1] = fact1}
    IN  {With(Filings(f), Always(fact1)) : f \in courses}
        \cup {With(From(3, fact1, fact2), Unfiled([t \in Time |-> fact1]))}

\* A filing and a risk that appear one after the other; a risk that goes and
\* comes back before a filing; an undated restatement that is taken back.
FilingsAndRisks ==
    LET With(financials, risks) ==
            [financials |-> financials, management |-> Always(fact1), risks |-> risks]
        Except(start, usual, then) == Filings([t \in Time |-> IF t = start THEN then ELSE usual])
    IN  {With(From(2, fact1, fact2), From(3, NoRisks, fact1)),
         With(From(3, fact1, fact2), Except(2, fact1, NoRisks)),
         With(Unfiled([t \in Time |-> IF t = 2 THEN fact2 ELSE fact1]),
              From(2, NoRisks, fact1))}

MCSeverity == [financials |-> "high", management |-> "low", risks |-> "medium"]

\* Scans of the present, and dry ones of the present and of a day gone by.
NowOrDryRequests == [asOf: {Now}, dry: BOOLEAN] \cup [asOf: {1}, dry: {TRUE}]
UserRuns == [asOf: {Now}, optional: {{"risks"}}, linked: BOOLEAN]
NowOnly == [asOf: {Now}, dry: {FALSE}]
DatedRequests == [asOf: {Now, MaxTime}, dry: {FALSE}]
Symmetry == Permutations(Scanners)
=========================================================================

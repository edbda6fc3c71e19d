--------------------------- MODULE CompanySources ---------------------------
(***************************************************************************)
(* Where a company and its filings come from: the ticker resolvers         *)
(* (data/ticker_resolver.py) and the file they share, and the SEC client   *)
(* (data/sec_client.py) that several callers share.  How a filing is read  *)
(* is in FilingReading.                                                    *)
(*                                                                         *)
(* A resolver is one TickerResolver: the code makes one for a call and one *)
(* for the application, in the threads of one or several processes.  The   *)
(* file is read, changed and written whole; writing it is not atomic, and  *)
(* what is read in between cannot be parsed.                               *)
(***************************************************************************)
EXTENDS Integers, FiniteSets, Sequences

CONSTANTS
    Resolvers,      \* TickerResolver instances that share the file
    Tickers,        \* tickers somebody asks for
    Ciks,           \* CIKs of companies
    Listed,         \* ticker -> sequence of the CIKs that SEC lists for it
    Anchors,        \* _FALLBACK_TICKERS: some tickers -> CIK
    Predecessors,   \* tickers with an entry in _HISTORICAL_CIKS
    SecCallers,     \* threads that share one SECClient
    Interval,       \* ticks between two requests, 1 / rate_limit_per_second
    MaxTime         \* bound on the clock

ASSUME SourcesAssumption ==
    /\ Tickers # {}
    /\ Listed \in [Tickers -> Seq(Ciks)]
    /\ DOMAIN Anchors \subseteq Tickers /\ Anchors \in [DOMAIN Anchors -> Ciks]
    /\ Predecessors \subseteq Tickers
    /\ Interval \in Nat /\ MaxTime \in Nat /\ Interval <= MaxTime

VARIABLES
    tickerFile,     \* [state |-> "absent", "whole" or "torn", rows]
    known,          \* resolver -> its _memory_cache
    resolving,      \* resolver -> the call it is in
    now,            \* time.monotonic() in ticks
    lastCall,       \* _last_call_ts of the client
    calling,        \* caller -> its request
    sent            \* caller -> when it sent each attempt of its last request

sourceVars == <<tickerFile, known, resolving, now, lastCall, calling, sent>>

Identities == [cik : Ciks \cup {"none"}, source : {"none", "cache", "sec", "fallback"}, predecessors : BOOLEAN]
Nobody == [cik |-> "none", source |-> "none", predecessors |-> FALSE]
NoRows == [t \in Tickers |-> Nobody]
Resting == [at |-> "idle", ticker |-> CHOOSE t \in Tickers : TRUE, found |-> Nobody, rows |-> NoRows]
NoRequest == [at |-> "idle", attempt |-> 0, wake |-> 0]

SourcesTypeOK ==
    /\ tickerFile \in [state : {"absent", "whole", "torn"}, rows : [Tickers -> Identities]]
    /\ known \in [Resolvers -> [Tickers -> Identities]]
    /\ resolving \in [Resolvers -> [at : {"idle", "sec", "persist", "truncate", "write"}, ticker : Tickers,
                                    found : Identities, rows : [Tickers -> Identities]]]
    /\ now \in 0..MaxTime /\ lastCall \in 0..MaxTime
    /\ calling \in [SecCallers -> [at : {"idle", "sleeping", "sending"}, attempt : 0..3, wake : Nat]]

SourcesInit ==
    /\ tickerFile = [state |-> "absent", rows |-> NoRows]
    /\ known = [r \in Resolvers |-> NoRows]
    /\ resolving = [r \in Resolvers |-> Resting]
    /\ now = Interval /\ lastCall = 0
    /\ calling = [c \in SecCallers |-> NoRequest]
    /\ sent = [c \in SecCallers |-> <<>>]

-----------------------------------------------------------------------------
(* TickerResolver.resolve *)

\* _load_from_disk: nothing from a file that is absent or cannot be parsed;
\* predecessors are filled in from the table.
OnDisk(ticker) ==
    LET row == tickerFile.rows[ticker]
    IN  IF tickerFile.state = "whole" /\ row # Nobody
        THEN [row EXCEPT !.predecessors = @ \/ ticker \in Predecessors]
        ELSE Nobody

\* Mutant: the first entry of the ticker.
FirstCandidate(ticker) == Listed[ticker][1]

\* _fetch_from_sec: among the entries of the ticker, the anchored one.
Candidate(ticker) ==
    LET listed == {Listed[ticker][i] : i \in DOMAIN Listed[ticker]}
    IN  IF ticker \in DOMAIN Anchors /\ Anchors[ticker] \in listed
        THEN Anchors[ticker]
        ELSE Listed[ticker][1]

Remember(r, ticker, company) == known' = [known EXCEPT ![r][ticker] = company]

\* resolve, up to the request to SEC: the memory of the resolver, then the
\* file, whose rows are relabelled as cached.
ResolveTicker(r, ticker) ==
    /\ resolving[r].at = "idle"
    /\ known[r][ticker] = Nobody
    /\ IF OnDisk(ticker) # Nobody
       THEN /\ Remember(r, ticker, [OnDisk(ticker) EXCEPT !.source = "cache"])
            /\ UNCHANGED resolving
       ELSE /\ resolving' = [resolving EXCEPT ![r].at = "sec", ![r].ticker = ticker]
            /\ UNCHANGED known
    /\ UNCHANGED <<tickerFile, now, lastCall, calling, sent>>

SecAnswers(r) ==
    LET ticker == resolving[r].ticker
        company == [cik |-> Candidate(ticker), source |-> "sec", predecessors |-> ticker \in Predecessors]
    IN  /\ resolving[r].at = "sec"
        /\ Listed[ticker] # <<>>
        /\ Remember(r, ticker, company)
        /\ resolving' = [resolving EXCEPT ![r].at = "persist", ![r].found = company]
        /\ UNCHANGED <<tickerFile, now, lastCall, calling, sent>>

\* No answer, or none for the ticker: the built-in table, without
\* predecessors, kept in memory and not in the file.
FallBack(r) ==
    LET ticker == resolving[r].ticker
    IN  /\ resolving[r].at = "sec"
        /\ IF ticker \in DOMAIN Anchors
           THEN Remember(r, ticker, [cik |-> Anchors[ticker], source |-> "fallback", predecessors |-> FALSE])
           ELSE UNCHANGED known
        /\ resolving' = [resolving EXCEPT ![r] = Resting]
        /\ UNCHANGED <<tickerFile, now, lastCall, calling, sent>>

\* _persist_to_disk reads the file (nothing, when it cannot be parsed)...
ReadTickerFile(r) ==
    LET rows == IF tickerFile.state = "whole" THEN tickerFile.rows ELSE NoRows
    IN  /\ resolving[r].at = "persist"
        /\ resolving' = [resolving EXCEPT ![r].at = "truncate", ![r].rows = [rows EXCEPT ![resolving[r].ticker] = resolving[r].found]]
        /\ UNCHANGED <<tickerFile, known, now, lastCall, calling, sent>>

\* ... opens it for writing, which empties it...
TruncateTickerFile(r) ==
    /\ resolving[r].at = "truncate"
    /\ tickerFile' = [state |-> "torn", rows |-> NoRows]
    /\ resolving' = [resolving EXCEPT ![r].at = "write"]
    /\ UNCHANGED <<known, now, lastCall, calling, sent>>

\* ... and writes what it read with its own row.
WriteTickerFile(r) ==
    /\ resolving[r].at = "write"
    /\ tickerFile' = [state |-> "whole", rows |-> resolving[r].rows]
    /\ resolving' = [resolving EXCEPT ![r] = Resting]
    /\ UNCHANGED <<known, now, lastCall, calling, sent>>

\* The disk refuses: the write is given up.
PersistFails(r) ==
    /\ resolving[r].at \in {"persist", "truncate", "write"}
    /\ resolving' = [resolving EXCEPT ![r] = Resting]
    /\ UNCHANGED <<tickerFile, known, now, lastCall, calling, sent>>

\* The process of the resolver stops; the next one starts without memory.
ResolverRestarts(r) ==
    /\ resolving' = [resolving EXCEPT ![r] = Resting]
    /\ known' = [known EXCEPT ![r] = NoRows]
    /\ UNCHANGED <<tickerFile, now, lastCall, calling, sent>>

-----------------------------------------------------------------------------
(* SECClient: _wait_for_slot and the retries of _request *)

PassTime ==
    /\ now < MaxTime
    /\ now' = now + 1
    /\ UNCHANGED <<tickerFile, known, resolving, lastCall, calling, sent>>

\* _wait_for_slot reads _last_call_ts and sleeps for what is missing.
WaitForSlot(c) ==
    LET r == calling[c]
        again == r.attempt > 0 /\ r.at = "idle"
    IN  /\ r.at = "idle" /\ r.attempt < 3
        /\ calling' = [calling EXCEPT ![c] = [at |-> "sleeping", attempt |-> r.attempt + 1,
                          wake |-> IF now - lastCall < Interval THEN lastCall + Interval ELSE now]]
        /\ sent' = IF again THEN sent ELSE [sent EXCEPT ![c] = <<>>]
        /\ UNCHANGED <<tickerFile, known, resolving, now, lastCall>>

\* It wakes up and takes the slot: nothing says another caller did not.
TakeSlot(c) ==
    /\ calling[c].at = "sleeping" /\ now >= calling[c].wake
    /\ lastCall' = now
    /\ calling' = [calling EXCEPT ![c].at = "sending"]
    /\ sent' = [sent EXCEPT ![c] = Append(@, now)]
    /\ UNCHANGED <<tickerFile, known, resolving, now>>

Answered(c) ==
    /\ calling[c].at = "sending"
    /\ calling' = [calling EXCEPT ![c] = NoRequest]
    /\ UNCHANGED <<tickerFile, known, resolving, now, lastCall, sent>>

\* Any error is retried, a missing resource too; the third one is raised.
\* get_filing_html, which is not decorated, raises the first one.
SecFails(c) ==
    \E retried \in BOOLEAN :
        /\ calling[c].at = "sending"
        /\ calling' = [calling EXCEPT ![c] =
               IF retried /\ calling[c].attempt < 3 THEN [@ EXCEPT !.at = "idle"] ELSE NoRequest]
        /\ UNCHANGED <<tickerFile, known, resolving, now, lastCall, sent>>

ResolverNext ==
    \E r \in Resolvers :
        \/ \E ticker \in Tickers : ResolveTicker(r, ticker)
        \/ SecAnswers(r) \/ FallBack(r)
        \/ ReadTickerFile(r) \/ TruncateTickerFile(r) \/ WriteTickerFile(r) \/ PersistFails(r)
        \/ ResolverRestarts(r)

ClientNext ==
    \/ PassTime
    \/ \E c \in SecCallers : WaitForSlot(c) \/ TakeSlot(c) \/ Answered(c) \/ SecFails(c)

\* The two share no state: each is followed on its own.
SourcesNext == ResolverNext \/ ClientNext

SourcesSpec == SourcesInit /\ [][SourcesNext]_sourceVars

-----------------------------------------------------------------------------

\* The anchor of a ticker that SEC lists with it, else any entry that SEC or
\* the table has for the ticker.
IsRight(ticker, company) ==
    LET listed == {Listed[ticker][i] : i \in DOMAIN Listed[ticker]}
        anchor == IF ticker \in DOMAIN Anchors THEN {Anchors[ticker]} ELSE {}
    IN  company.cik \in (IF anchor \cap listed # {} THEN anchor ELSE anchor \cup listed)

\* Whatever failed, was cached, torn or overwritten by another resolver, a
\* ticker is resolved to a right company, in memory and in the file, which
\* never holds a company of the built-in table.
IdentityIsAnchored ==
    \A ticker \in Tickers :
        /\ tickerFile.rows[ticker] # Nobody =>
             IsRight(ticker, tickerFile.rows[ticker]) /\ tickerFile.rows[ticker].source = "sec"
        /\ \A r \in Resolvers : known[r][ticker] # Nobody => IsRight(ticker, known[r][ticker])

\* A request is tried three times at most, and the attempts of one caller are
\* an interval apart though the other callers move the same timestamp.
RequestsAreSpaced ==
    \A c \in SecCallers :
        /\ Len(sent[c]) <= 3
        /\ \A i \in 2..Len(sent[c]) : sent[c][i] - sent[c][i - 1] >= Interval

SourcesHold == IdentityIsAnchored /\ RequestsAreSpaced
=============================================================================

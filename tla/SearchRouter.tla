---------------------------- MODULE SearchRouter ----------------------------
(***************************************************************************)
(* Web searches over several providers with a cache in SQLite              *)
(* (tools/search_router.py, search_cache.py, providers/) and the pages     *)
(* fetched from what they find (tools/web_fetch.py).  Searches run in      *)
(* threads over one cache; a read of the cache and the pruning of an       *)
(* expired row take its lock one after the other.                          *)
(*                                                                         *)
(* A result is [url, low, preferred, snippet, title, rank].                *)
(***************************************************************************)
EXTENDS Integers, FiniteSets, Sequences, SequencesExt

CONSTANTS
    Searchers,      \* threads that search
    Providers,      \* sequence of providers, in SEARCH_PROVIDER_ORDER
    Requests,       \* records [query, most]: effective query with intent and range, max_results
    FoundLists,     \* what a provider may find
    Pages,          \* url -> the page behind it
    MaxPages,       \* pages fetched of a response
    Ttl,            \* seconds a row lives
    MaxSearchTime,  \* bound of the clock
    SearchBound     \* bound of the searches

\* What a provider finds: whether the domain is excluded or preferred, and
\* whether there are a title and a snippet.
SearchResults == [url : DOMAIN Pages, low : BOOLEAN, preferred : BOOLEAN, snippet : BOOLEAN, title : BOOLEAN, rank : Nat]

ASSUME SearchAssumption ==
    /\ FoundLists \subseteq Seq(SearchResults)
    /\ Len(Providers) \in Nat \ {0}
    /\ \A request \in Requests : request.most \in Nat
    /\ MaxPages \in Nat \ {0} /\ Ttl \in Nat /\ MaxSearchTime \in Nat /\ SearchBound \in Nat

VARIABLES
    cached,        \* rows: key -> row, for the keys that have one
    searcher,      \* where each search is
    searchClock,
    searches       \* how many were begun

searchVars == <<cached, searcher, searchClock, searches>>

-----------------------------------------------------------------------------
(* Ranking *)

\* _source_quality in quarters of a point.
Quality(r) ==
    (IF r.preferred THEN 12 ELSE 0) + (IF r.snippet THEN 2 ELSE -2) + (IF r.title THEN 1 ELSE 0)

\* Without excluded domains, best first, old rank among equals; ranked anew.
RankSearchResponse(found, most) ==
    LET Before(i, j) == \/ Quality(found[i]) > Quality(found[j])
                        \/ /\ Quality(found[i]) = Quality(found[j])
                           /\ \/ found[i].rank < found[j].rank
                              \/ found[i].rank = found[j].rank /\ i < j
        Left(taken) == {i \in DOMAIN found : ~found[i].low} \ Range(taken)
        Best(left) == CHOOSE i \in left : \A j \in left : ~Before(j, i)
        best[n \in 0..Len(found)] ==
            IF n = 0 THEN <<>>
            ELSE IF Left(best[n - 1]) = {} \/ Len(best[n - 1]) >= most THEN best[n - 1]
            ELSE Append(best[n - 1], Best(Left(best[n - 1])))
        kept == best[Len(found)]
    IN  [i \in DOMAIN kept |-> [found[kept[i]] EXCEPT !.rank = i]]

-----------------------------------------------------------------------------
(* Pages *)

\* web_fetch: the first check that fails names the error.
WebFetch(page) ==
    IF page.dynamic               THEN "BLACKLISTED_DOMAIN"
    ELSE IF ~page.wellFormed      THEN "INVALID_URL"
    ELSE IF page.refused          THEN "SSRF_BLOCKED"
    ELSE IF page.network # "ok"   THEN page.network
    ELSE IF page.http = 404       THEN "404_NOT_FOUND"
    ELSE IF page.http = 403       THEN "403_FORBIDDEN"
    ELSE IF page.http >= 400      THEN "UNKNOWN"
    ELSE IF ~page.parses          THEN "PARSE_ERROR"
    ELSE "success"

Blacklisted(url) == Pages[url].blacklisted

\* fetch_search_results: each URL once, none of the blacklist, so many.
UrlsToFetch(results) ==
    LET Skip(urls, url) == url \in Range(urls) \/ Blacklisted(url) \/ Len(urls) >= MaxPages
        urls[n \in 0..Len(results)] ==
            IF n = 0 THEN <<>>
            ELSE IF Skip(urls[n - 1], results[n].url) THEN urls[n - 1]
            ELSE Append(urls[n - 1], results[n].url)
    IN  urls[Len(results)]

FetchSearchResults(results) ==
    LET urls == UrlsToFetch(results)
    IN  [i \in DOMAIN urls |-> [url |-> urls[i], outcome |-> WebFetch(Pages[urls[i]])]]

-----------------------------------------------------------------------------

NoResponse == [results |-> <<>>, by |-> "none", age |-> 0, row |-> {}]

IdleSearcher ==
    [stage |-> "idle", request |-> "none", at |-> 1, last |-> NoResponse,
     response |-> NoResponse, usable |-> FALSE, pages |-> <<>>]

SearchInit ==
    /\ cached = <<>>
    /\ searcher = [s \in Searchers |-> IdleSearcher]
    /\ searchClock = 0
    /\ searches = 0

\* Mutant: max_results is not part of the key.
MakeKeyOfQuery(provider, request) == <<provider, request.query>>

MakeKey(provider, request) == <<provider, request>>

KeyOf(s) == MakeKey(Providers[searcher[s].at], searcher[s].request)

SearchGoes(s, new) == searcher' = [searcher EXCEPT ![s] = new]

BeginSearch(s) ==
    /\ searcher[s].stage \in {"idle", "done"}
    /\ searches < SearchBound
    /\ \E request \in Requests :
        SearchGoes(s, [IdleSearcher EXCEPT !.stage = "lookup", !.request = request])
    /\ searches' = searches + 1
    /\ UNCHANGED <<cached, searchClock>>

Respond(s, response) == SearchGoes(s, [searcher[s] EXCEPT !.stage = "done", !.response = response])

\* After the last provider of the cache, the first is asked.
LookedUp(s) ==
    LET at == searcher[s].at
    IN  IF at < Len(Providers) THEN [searcher[s] EXCEPT !.stage = "lookup", !.at = at + 1]
        ELSE [searcher[s] EXCEPT !.stage = "ask", !.at = 1]

Expired(row) == row.at + Ttl < searchClock

Lookup(s) ==
    /\ searcher[s].stage = "lookup"
    /\ IF KeyOf(s) \notin DOMAIN cached THEN SearchGoes(s, LookedUp(s))
       ELSE LET row == cached[KeyOf(s)]
            IN  IF Expired(row) THEN SearchGoes(s, [searcher[s] EXCEPT !.stage = "prune"])
                ELSE Respond(s, [results |-> RankSearchResponse(row.results, searcher[s].request.most),
                                 by |-> Providers[searcher[s].at], age |-> searchClock - row.at, row |-> {row}])
    /\ UNCHANGED <<cached, searchClock, searches>>

\* The row is deleted by its key, whatever is there by now.
Prune(s) ==
    /\ searcher[s].stage = "prune"
    /\ cached' = [k \in DOMAIN cached \ {KeyOf(s)} |-> cached[k]]
    /\ SearchGoes(s, LookedUp(s))
    /\ UNCHANGED <<searchClock, searches>>

Row(s, results) ==
    [results |-> results, request |-> searcher[s].request, by |-> Providers[searcher[s].at], at |-> searchClock]

CacheWith(key, row) == [k \in DOMAIN cached \cup {key} |-> IF k = key THEN row ELSE cached[k]]

\* Storing may fail, which is ignored.
CacheStore(s, results) == cached' \in {cached, CacheWith(KeyOf(s), Row(s, results))}

Asked(s) == [searcher[s] EXCEPT !.at = @ + 1]

\* A provider that is not available, raises or returns nothing at all.
ProviderFails(s) ==
    /\ searcher[s].stage = "ask"
    /\ searcher[s].at <= Len(Providers)
    /\ SearchGoes(s, Asked(s))
    /\ UNCHANGED <<cached, searchClock, searches>>

\* It answers: the first answer with a usable result is ranked, stored and
\* returned; any other is remembered.  A provider turns its own failures
\* into an answer without results.
ProviderAnswers(s) ==
    /\ searcher[s].stage = "ask"
    /\ searcher[s].at <= Len(Providers)
    /\ \E found \in FoundLists :
        LET ranked == RankSearchResponse(found, searcher[s].request.most)
            response == [NoResponse EXCEPT !.results = ranked, !.by = Providers[searcher[s].at]]
        IN  IF ranked # <<>>
            THEN /\ CacheStore(s, ranked)
                 /\ SearchGoes(s, [searcher[s] EXCEPT !.stage = "done", !.response = response, !.usable = TRUE])
            ELSE /\ SearchGoes(s, [Asked(s) EXCEPT !.last = [response EXCEPT !.results = found]])
                 /\ UNCHANGED cached
    /\ UNCHANGED <<searchClock, searches>>

\* Every provider failed or had nothing usable: the last answer is returned,
\* and stored, ranked to nothing, when it had results.
GiveUp(s) ==
    LET last == searcher[s].last
        key == MakeKey(last.by, searcher[s].request)
        row == [results |-> <<>>, request |-> searcher[s].request, by |-> last.by, at |-> searchClock]
    IN  /\ searcher[s].stage = "ask"
        /\ searcher[s].at > Len(Providers)
        /\ IF last.results = <<>> THEN UNCHANGED cached
           ELSE cached' \in {cached, CacheWith(key, row)}
        /\ Respond(s, [last EXCEPT !.results = RankSearchResponse(@, searcher[s].request.most)])
        /\ UNCHANGED <<searchClock, searches>>

FetchPages(s) ==
    /\ searcher[s].stage = "done"
    /\ searcher[s].response.results # <<>>
    /\ SearchGoes(s, [searcher[s] EXCEPT !.stage = "fetched", !.pages = FetchSearchResults(searcher[s].response.results)])
    /\ UNCHANGED <<cached, searchClock, searches>>

EndSearch(s) ==
    /\ searcher[s].stage = "fetched"
    /\ SearchGoes(s, IdleSearcher)
    /\ UNCHANGED <<cached, searchClock, searches>>

SearchTick ==
    /\ searchClock < MaxSearchTime
    /\ searchClock' = searchClock + 1
    /\ UNCHANGED <<cached, searcher, searches>>

SearchNext ==
    \/ \E s \in Searchers :
        \/ BeginSearch(s) \/ Lookup(s) \/ Prune(s) \/ ProviderFails(s) \/ ProviderAnswers(s)
        \/ GiveUp(s) \/ FetchPages(s) \/ EndSearch(s)
    \/ SearchTick

SearchSpec == SearchInit /\ [][SearchNext]_searchVars
-----------------------------------------------------------------------------
(* Properties *)

SearchTypeOK ==
    /\ searchClock \in 0..MaxSearchTime /\ searches \in 0..SearchBound
    /\ \A s \in Searchers :
        /\ searcher[s].stage \in {"idle", "lookup", "prune", "ask", "done", "fetched"}
        /\ searcher[s].at \in 1..(Len(Providers) + 1)

\* What a caller gets is ranked and within its bound, and none of it comes
\* from an excluded domain.
Presentable(results, most) ==
    /\ Len(results) <= most
    /\ \A i \in DOMAIN results : results[i].rank = i /\ ~results[i].low
    /\ \A i, j \in DOMAIN results : i < j => Quality(results[i]) >= Quality(results[j])

\* A cached answer is what its provider said to the very same request, and no
\* older than it may be, with any prunes and stores of others in between.
FromCacheFor(response, request) ==
    \A row \in response.row :
        response.age <= Ttl /\ row.request = request /\ row.by = response.by

Fetched(pages) ==
    /\ Len(pages) <= MaxPages
    /\ \A i, j \in DOMAIN pages : pages[i].url = pages[j].url => i = j
    /\ \A i \in DOMAIN pages : ~Blacklisted(pages[i].url)

\* Every search that returns has a presentable answer, from a provider asked
\* or from a row of the cache that may stand for it.
SearchesAreSound ==
    \A s \in Searchers : searcher[s].stage \in {"done", "fetched"} =>
        /\ Presentable(searcher[s].response.results, searcher[s].request.most)
        /\ FromCacheFor(searcher[s].response, searcher[s].request)
        /\ Fetched(searcher[s].pages)
=============================================================================

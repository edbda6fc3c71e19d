--------------------------- MODULE FilingReading ----------------------------
(***************************************************************************)
(* Which filings of a company are listed (data/filing_fetcher.py) and      *)
(* which sections are read out of one (data/sec_sections.py).              *)
(*                                                                         *)
(* A document is a sequence of lines [item, ends, cautions, opens]: the    *)
(* section whose heading the line looks like, whether it is an "Item N."   *)
(* that ends a section, whether it has the words of a forward-looking      *)
(* statement, and whether a blank line precedes it.  A section is the set  *)
(* of the lines it is made of; lengths are counted in lines.               *)
(***************************************************************************)
EXTENDS Integers, FiniteSets, Sequences, FiniteSetsExt, SequencesExt

CONSTANTS
    Lines,          \* lines that a document may have
    MaxLines,       \* bound on its length
    Submissions,    \* lists of filings: sequences of [form, filed, complete, identified]
    Floors,         \* earliest dates somebody asks for
    Limits          \* limits somebody asks for

ASSUME ReadingAssumption ==
    /\ MaxLines \in Nat /\ Limits \subseteq Int
    /\ \A rows \in Submissions : rows \in Seq({rows[i] : i \in DOMAIN rows})

VARIABLES
    document,       \* text of the filing
    sections,       \* sections read out of it
    listing         \* [asked, found] of the last list_filings

readingVars == <<document, sections, listing>>

\* Sections that are mapped by the regular expressions of both modules, and
\* the one whose disclaimer is stripped.
SectionNames == {"section_1", "section_1a", "section_7"}
RiskFactors == "section_1a"

NoDocument == <<>>
NoListing == [asked |-> [forms |-> {}, since |-> 0, limit |-> 1, rows |-> <<>>], found |-> <<>>]

-----------------------------------------------------------------------------
(* SectionParser *)

\* _next_boundary: the first line after the heading that ends a section.
NextBoundary(doc, start) ==
    LET ends == {i \in (start + 1)..Len(doc) : doc[i].ends}
    IN  IF ends = {} THEN Len(doc) + 1 ELSE Min(ends)

\* _strip_forward_looking: the first paragraph with the words is dropped,
\* wherever it stands.
Paragraph(doc, chunk, i) ==
    {j \in chunk : \A k \in chunk : (Min({i, j}) < k /\ k <= Max({i, j})) => ~doc[k].opens}

StripForwardLooking(doc, chunk) ==
    LET cautions == {i \in chunk : doc[i].cautions}
    IN  IF cautions = {} THEN chunk ELSE chunk \ Paragraph(doc, chunk, Min(cautions))

ChunkAt(doc, name, start) ==
    LET chunk == start..(NextBoundary(doc, start) - 1)
    IN  IF name = RiskFactors THEN StripForwardLooking(doc, chunk) ELSE chunk

\* Mutant: the first occurrence, with its disclaimer.
FirstSection(doc, name) ==
    LET starts == {i \in 1..Len(doc) : doc[i].item = name}
    IN  IF starts = {} THEN {} ELSE (Min(starts) + 1)..(NextBoundary(doc, Min(starts)) - 1)

\* The longest occurrence, the first of those; its heading is removed, and
\* a section of nothing else is none.
ParsedSection(doc, name) ==
    LET starts == {i \in 1..Len(doc) : doc[i].item = name}
        Longest(i) == \A j \in starts : Cardinality(ChunkAt(doc, name, i)) >= Cardinality(ChunkAt(doc, name, j))
        best == {i \in starts : Longest(i) /\ ChunkAt(doc, name, i) # {}}
    IN  IF best = {} THEN {} ELSE ChunkAt(doc, name, Min(best)) \ {Min(best)}

ParseSections(doc) == [name \in SectionNames |-> ParsedSection(doc, name)]

\* _extract_sections of the fetcher, when the parser raised: the first
\* occurrence of each name, up to the next one of them or the next item.
LegacySections(doc) ==
    LET First(name) == {i \in 1..Len(doc) : doc[i].item = name /\ \A j \in 1..(i - 1) : doc[j].item # name}
        firsts == UNION {First(name) : name \in SectionNames}
        End(start) == Min({NextBoundary(doc, start)} \cup {i \in firsts : i > start})
    IN  [name \in SectionNames |-> UNION {start..(End(start) - 1) : start \in First(name)}]

\* FilingFetcher.fetch_filing (one call of either kind is followed); the full text is kept in any case.
FetchFiling(doc) ==
    /\ document = NoDocument /\ listing = NoListing
    /\ document' = doc
    /\ sections' \in {ParseSections(doc), LegacySections(doc)}
    /\ UNCHANGED listing

-----------------------------------------------------------------------------
(* FilingFetcher.list_filings *)

\* Filings of a wanted form and not before the date; rows without a date are
\* skipped.
Listable(rows, forms, since) ==
    {f \in {rows[i] : i \in DOMAIN rows} : f.complete /\ f.form \in forms /\ f.filed >= since}

\* The loop over the rows: the limit is looked at after a row was taken.
TakeFilings(rows, wanted, limit) ==
    LET taken[n \in 0..Len(rows)] ==
            IF n = 0 THEN <<>>
            ELSE IF rows[n] \in wanted /\ Len(taken[n - 1]) < Max({limit, 1})
            THEN Append(taken[n - 1], rows[n])
            ELSE taken[n - 1]
    IN  taken[Len(rows)]

ListFilings(rows, forms, since, limit) == TakeFilings(rows, Listable(rows, forms, since), limit)

\* fetch_filings_catalog_defeatbeta: a row without accession or CIK is
\* skipped as well, and no driver is no filing.
CatalogueFilings(rows, forms, since, limit) ==
    {<<>>, TakeFilings(rows, {f \in Listable(rows, forms, since) : f.identified}, limit)}

\* No form asked for is every form.
AskForFilings ==
    \E rows \in Submissions, forms \in SUBSET {"10-K", "8-K"}, since \in Floors, limit \in Limits :
        LET wanted == IF forms = {} THEN {rows[i].form : i \in DOMAIN rows} ELSE forms
        IN  /\ listing = NoListing /\ document = NoDocument
            /\ \E found \in {ListFilings(rows, wanted, since, limit)} \cup CatalogueFilings(rows, wanted, since, limit) :
                 listing' = [asked |-> [forms |-> wanted, since |-> since, limit |-> limit, rows |-> rows], found |-> found]
            /\ UNCHANGED <<document, sections>>

ReadingInit ==
    /\ document = NoDocument
    /\ sections = [name \in SectionNames |-> {}]
    /\ listing = NoListing

ReadingNext ==
    \/ \E n \in 1..MaxLines : \E doc \in [1..n -> Lines] : FetchFiling(doc)
    \/ AskForFilings

ReadingSpec == ReadingInit /\ [][ReadingNext]_readingVars

-----------------------------------------------------------------------------

\* A section never runs into the next item: of the lines that end one it holds
\* at most its own heading, as its first (the older reading keeps that).  The
\* parser never prefers a shorter occurrence of a section, so a risk section
\* with text outside of its disclaimer is not taken for its mention.
SectionsAreBounded ==
    \A name \in SectionNames :
        LET section == sections[name]
            Body(i) == ChunkAt(document, name, i) \ {i}
        IN  /\ section \subseteq DOMAIN document
            /\ \A i \in section : document[i].ends => document[i].item = name /\ i = Min(section)
            /\ sections = ParseSections(document) =>
                 \A i \in DOMAIN document : document[i].item = name =>
                     Cardinality(section) >= Cardinality(Body(i)) - 1

\* A list has filings of the wanted forms, none before the date asked for, and
\* more than the limit only when the limit is below one.
ListIsWanted ==
    /\ \A i \in DOMAIN listing.found :
         listing.found[i].form \in listing.asked.forms /\ listing.found[i].filed >= listing.asked.since
    /\ Len(listing.found) <= Max({listing.asked.limit, 1})

FilingsHold == SectionsAreBounded /\ ListIsWanted
=============================================================================

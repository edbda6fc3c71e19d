------------------------- MODULE TranscriptSources --------------------------
(***************************************************************************)
(* Earnings-call transcripts: three providers (data/providers), who read   *)
(* the speakers' roles and the sections out of the raw rows, and the file  *)
(* cache they share (data/transcripts.py).  A provider object is built for *)
(* a call; calls run in threads of one process.                            *)
(*                                                                         *)
(* A row of a transcript is [speaker, marker, hint, text]: whether it has  *)
(* the words "question-and-answer session", one of the looser phrases      *)
(* DefeatBeta is read with, and any text.  Title says what a speaker's     *)
(* label tells of the role.                                                *)
(***************************************************************************)
EXTENDS Integers, FiniteSets, Sequences, SequencesExt

CONSTANTS
    Readers,        \* calls of get_transcript
    Quarters,        \* fiscal quarters somebody asks for
    Title,          \* speaker -> role the label says, or "unknown"
    RawCalls,       \* sequences of rows a provider may send
    Wanted          \* what they ask for: pairs of a provider and a quarter

TranscriptVendors == {"defeatbeta", "fmp", "alpha_vantage"}

ASSUME TranscriptAssumption ==
    /\ RawCalls \subseteq Seq([speaker : DOMAIN Title, marker : BOOLEAN, hint : BOOLEAN, text : BOOLEAN])
    /\ Wanted \subseteq TranscriptVendors \X Quarters

VARIABLES
    driver,         \* _TICKER_CLS: "untried" or "ready"
    transcriptFile, \* <<provider, period>> -> its cache file
    reading         \* reader -> [at, provider, period, transcript]

transcriptVars == <<driver, transcriptFile, reading>>

NoTranscript == [provider |-> "none", period |-> 0, turns |-> <<>>]
AbsentFile == [state |-> "absent", transcript |-> NoTranscript]
NotReading == [at |-> "idle", provider |-> "none", period |-> 0, transcript |-> NoTranscript]

TranscriptTypeOK ==
    /\ driver \in {"untried", "ready"}
    /\ \A k \in TranscriptVendors \X Quarters : transcriptFile[k].state \in {"absent", "torn", "whole"}
    /\ \A r \in Readers : reading[r].at \in {"idle", "request", "truncate", "write", "given", "raised"}

TranscriptInit ==
    /\ driver = "untried"
    /\ transcriptFile = [k \in TranscriptVendors \X Quarters |-> AbsentFile]
    /\ reading = [r \in Readers |-> NotReading]

-----------------------------------------------------------------------------
(* Rows into turns *)

\* infer_section for the one with the canonical marker; DefeatBeta has no
\* section for an empty row at the start and writes prepared remarks instead.
SectionAfter(provider, row, section) ==
    IF section = "qa" \/ row.marker \/ (provider = "defeatbeta" /\ row.hint) THEN "qa"
    ELSE IF section = "unknown" /\ ~row.text THEN "unknown"
    ELSE "prepared_remarks"

\* What is remembered from one row to the next: roles of the speakers that
\* have one, the executive that the next nameless speaker will be.
NoMemory == [roles |-> [s \in DOMAIN Title |-> "unknown"], next |-> "ceo", section |-> "unknown", turns |-> <<>>]

\* Mutant: who spoke before is forgotten.
RoleByPosition(memory, speaker) ==
    IF Title[speaker] # "unknown" \/ speaker = "Unknown" THEN Title[speaker] ELSE memory.next

\* An unknown speaker is who it was before; the first one without a role is
\* the CEO, the second one the CFO.
RoleOf(memory, speaker) ==
    IF Title[speaker] # "unknown" THEN Title[speaker]
    ELSE IF memory.roles[speaker] # "unknown" \/ speaker = "Unknown" THEN memory.roles[speaker]
    ELSE memory.next

AddTurn(provider, memory, row) ==
    LET role == RoleOf(memory, row.speaker)
        section == SectionAfter(provider, row, memory.section)
        positional == /\ Title[row.speaker] = "unknown"
                      /\ memory.roles[row.speaker] = "unknown"
                      /\ row.speaker # "Unknown"
        written == IF provider = "defeatbeta" /\ section = "unknown" THEN "prepared_remarks" ELSE section
    IN  [roles   |-> IF role \in {"ceo", "cfo"} THEN [memory.roles EXCEPT ![row.speaker] = role] ELSE memory.roles,
         next    |-> IF ~positional THEN memory.next ELSE IF memory.next = "ceo" THEN "cfo" ELSE "unknown",
         section |-> section,
         turns   |-> Append(memory.turns, [speaker |-> row.speaker, role |-> role, section |-> written])]

\* _parse_turns, _parse_detail, _parse_payload.  DefeatBeta leaves out the
\* sponsor's rows that are empty.
ParseTurns(provider, rows) ==
    LET Sponsor(row) == provider = "defeatbeta" /\ row.speaker = "Sponsor" /\ ~row.text
        Parsed[n \in 0..Len(rows)] ==
            IF n = 0 THEN NoMemory
            ELSE IF Sponsor(rows[n]) THEN Parsed[n - 1]
            ELSE AddTurn(provider, Parsed[n - 1], rows[n])
    IN  Parsed[Len(rows)].turns

-----------------------------------------------------------------------------
(* get_transcript *)

Stay(r, what) == reading' = [reading EXCEPT ![r] = what]

\* DefeatBeta is imported when the provider is built, again and again as long
\* as it cannot be.
ImportDriver ==
    /\ driver' = "ready"
    /\ UNCHANGED <<transcriptFile, reading>>

\* The cache first; a file that cannot be parsed is none.
AskForTranscript(r, provider, period) ==
    LET file == transcriptFile[<<provider, period>>]
        asked == [NotReading EXCEPT !.provider = provider, !.period = period]
    IN  /\ reading[r].at = "idle"
        /\ Stay(r, IF provider = "defeatbeta" /\ driver # "ready" THEN [asked EXCEPT !.at = "raised"]
                   ELSE IF file.state = "whole" THEN [asked EXCEPT !.at = "given", !.transcript = file.transcript]
                   ELSE [asked EXCEPT !.at = "request"])
        /\ UNCHANGED <<driver, transcriptFile>>

\* What a provider sends: rows of some period, or a note or an error in a
\* response whose status is 200.
Payloads(provider, period) ==
    {[of |-> p, note |-> note, rows |-> rows] :
        p \in IF provider = "fmp" THEN Quarters ELSE {period},
        note \in IF provider = "alpha_vantage" THEN {"none", "limit", "other"} ELSE {"none"},
        rows \in RawCalls \cup {<<>>}}

\* Mutant: whatever FMP sends is what was asked for.
IsAnyTranscript(provider, period, payload) ==
    payload.note # "limit" /\ (provider # "fmp" => payload.rows # <<>>)

\* FMP's _first_match, Alpha Vantage's _raise_for_payload, the empty frame of
\* DefeatBeta.  FMP takes a transcript without turns, the others none.
IsTranscript(provider, period, payload) ==
    /\ payload.of = period
    /\ payload.note # "limit"
    /\ provider # "fmp" => payload.rows # <<>>

\* The transcript takes ticker and period from the call, its turns from the
\* payload its period here is the one of those turns.
ProviderSends(r) ==
    \E payload \in Payloads(reading[r].provider, reading[r].period) :
        LET provider == reading[r].provider
            transcript == [provider |-> provider, period |-> payload.of, turns |-> ParseTurns(provider, payload.rows)]
        IN  /\ reading[r].at = "request"
            /\ IF IsTranscript(provider, reading[r].period, payload)
               THEN Stay(r, [reading[r] EXCEPT !.at = "truncate", !.transcript = transcript])
               ELSE Stay(r, [reading[r] EXCEPT !.at = "raised"])
            /\ UNCHANGED <<driver, transcriptFile>>

\* 404, 429, other errors, a body that is not JSON; nothing is tried again.
ProviderRefuses(r) ==
    /\ reading[r].at = "request"
    /\ Stay(r, [reading[r] EXCEPT !.at = "raised"])
    /\ UNCHANGED <<driver, transcriptFile>>

\* TranscriptCache.set writes the file in place.
TruncateTranscript(r) ==
    LET key == <<reading[r].provider, reading[r].period>>
    IN  /\ reading[r].at = "truncate"
        /\ transcriptFile' = [transcriptFile EXCEPT ![key] = [AbsentFile EXCEPT !.state = "torn"]]
        /\ Stay(r, [reading[r] EXCEPT !.at = "write"])
        /\ UNCHANGED driver

WriteTranscript(r) ==
    LET key == <<reading[r].provider, reading[r].period>>
    IN  /\ reading[r].at = "write"
        /\ transcriptFile' = [transcriptFile EXCEPT ![key] = [state |-> "whole", transcript |-> reading[r].transcript]]
        /\ Stay(r, [reading[r] EXCEPT !.at = "given"])
        /\ UNCHANGED driver

\* The disk refuses: the error is the caller's, the transcript is lost.
CacheRaises(r) ==
    /\ reading[r].at \in {"truncate", "write"}
    /\ Stay(r, [reading[r] EXCEPT !.at = "raised"])
    /\ UNCHANGED <<driver, transcriptFile>>

ReaderEnds(r) ==
    /\ reading[r].at \in {"given", "raised"}
    /\ Stay(r, NotReading)
    /\ UNCHANGED <<driver, transcriptFile>>

ProcessRestarts ==
    /\ driver' = "untried"
    /\ reading' = [r \in Readers |-> NotReading]
    /\ UNCHANGED transcriptFile

TranscriptNext ==
    \/ ImportDriver
    \/ \E r \in Readers :
        \/ \E wanted \in Wanted : AskForTranscript(r, wanted[1], wanted[2])
        \/ ProviderSends(r) \/ ProviderRefuses(r)
        \/ TruncateTranscript(r) \/ WriteTranscript(r) \/ CacheRaises(r)
        \/ ReaderEnds(r)
    \/ ProcessRestarts

TranscriptSpec == TranscriptInit /\ [][TranscriptNext]_transcriptVars

-----------------------------------------------------------------------------

Held == {reading[r].transcript : r \in {r \in Readers : reading[r].at \in {"write", "given"}}}
        \cup {transcriptFile[k].transcript : k \in TranscriptVendors \X Quarters}

\* Every transcript in the cache or given to a caller is of the provider and
\* the quarter it is filed under, however many callers wrote the file and
\* wherever one of them stopped.
PeriodsAreRight ==
    /\ \A k \in TranscriptVendors \X Quarters : transcriptFile[k].state = "whole" =>
         <<transcriptFile[k].transcript.provider, transcriptFile[k].transcript.period>> = k
    /\ \A r \in Readers : reading[r].at = "given" =>
         /\ reading[r].transcript.provider = reading[r].provider
         /\ reading[r].transcript.period = reading[r].period

\* In a transcript a speaker has one role from the first turn to the last, at
\* most one CEO and one CFO were named by position, and what follows a turn
\* of the questions is one too.
Guessed(turns, role) ==
    {turns[i].speaker : i \in {i \in DOMAIN turns : Title[turns[i].speaker] = "unknown" /\ turns[i].role = role}}

Consistent(turns) ==
    /\ \A i, j \in DOMAIN turns : turns[i].speaker = turns[j].speaker => turns[i].role = turns[j].role
    /\ \A role \in {"ceo", "cfo"} : Cardinality(Guessed(turns, role)) <= 1
    /\ \A i, j \in DOMAIN turns : (i < j /\ turns[i].section = "qa") => turns[j].section = "qa"

TurnsAreConsistent == \A transcript \in Held : Consistent(transcript.turns)

TranscriptsHold == PeriodsAreRight /\ TurnsAreConsistent
=============================================================================

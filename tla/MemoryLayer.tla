---------------------------- MODULE MemoryLayer ----------------------------
(***************************************************************************)
(* The long-lived memory of evidence and graph edges (memory/): items that *)
(* pass the write guardrails (evaluation/memory_guardrails.py) are stored  *)
(* under the hash of what they say, change their status, and are picked    *)
(* for the context of a step within a token budget.                        *)
(*                                                                         *)
(* The lock of the store is held for one statement at a time: a            *)
(* status change reads the item, looks for its hash and writes it back.    *)
(***************************************************************************)
EXTENDS Integers, FiniteSets, Sequences, SequencesExt, DataOperators

CONSTANTS
    MemoryUsers,     \* threads over one store
    Sources,         \* evidence and edges to be remembered, with the status asked for
    Budgets,         \* token budgets of a context
    MaxConsidered,   \* max_candidates of the selection policy
    MaxSelected,     \* max_selected_items
    MaxMemoryCalls   \* bound of the calls

ASSUME MemoryAssumption ==
    /\ MaxConsidered \in Nat /\ MaxSelected \in Nat /\ MaxMemoryCalls \in Nat /\ Budgets \subseteq Nat
    /\ \A e \in Sources : e.tokens \in Nat

VARIABLES memories, memoryUser, contextPack, memoryCalls

memoryVars == <<memories, memoryUser, contextPack, memoryCalls>>

-----------------------------------------------------------------------------
(* Items *)

Primary == {"filing", "company", "regulatory"}

\* adapters.py; a source is [kind, id, source, text, url, asked, hypothesis, tokens]:
\* the caller may ask for a status.  The hash leaves out the id.  The provenance of
\* an item does not name who extracted it.
MemoryItem(e) ==
    [id |-> <<e.kind, e.id>>, hash |-> <<e.kind, e.source, e.url, e.text>>, kind |-> e.kind,
     source |-> e.source, url |-> e.url, tokens |-> e.tokens,
     weight |-> IF e.source \in Primary THEN 95 ELSE 65,
     claim |-> IF e.hypothesis THEN "hypothesis" ELSE "evidence",
     status |-> IF e.asked # "default" THEN e.asked
                ELSE IF e.source \in Primary \cup {"fixture"} \/ (e.kind = "graph_edge" /\ ~e.hypothesis)
                THEN "active" ELSE "candidate"]

\* The third test of the guardrails, provenance["extracted_by"] = "llm", is left
\* out: no adapter writes that key, so it holds of no item they make.
Untrusted(item) == item.claim = "hypothesis" \/ item.source \in {"web", "news"}

\* MemoryWriteGuardrails: what is not trusted is a candidate at most.
Guarded(item) ==
    IF Untrusted(item) /\ item.status = "active" THEN [item EXCEPT !.status = "candidate"] ELSE item

Writable(item) == ~(item.kind = "domain_prior" /\ item.claim = "evidence")

-----------------------------------------------------------------------------
(* Contexts *)

CanEnterContext(item) == item.status \notin {"rejected", "deprecated"}

\* rank_memory_item: credibility, a bonus for primary sources and graph
\* edges, a penalty for stale items.
ContextScore(item) ==
    2 * item.weight + (IF item.source \in Primary THEN 100 ELSE 0)
        + (IF item.kind = "graph_edge" THEN 150 ELSE 0) - (IF item.status = "stale" THEN 200 ELSE 0)

NoPack == [built |-> FALSE, selected |-> {}, rejected |-> {}, tokens |-> 0, budget |-> 0, seen |-> {}]

\* search_candidates: the most credible first, so many of them.
SearchCandidates(items) == Ranked(items, [item \in items |-> item.weight], MaxConsidered)

Exceeds(pack, item) == pack.tokens + item.tokens > pack.budget

Reject(pack, item) == [pack EXCEPT !.rejected = @ \cup {item}]

\* What still fits is added.
Add(pack, item) ==
    IF Cardinality(pack.selected) >= MaxSelected \/ Exceeds(pack, item) THEN Reject(pack, item)
    ELSE [pack EXCEPT !.selected = @ \cup {item}, !.tokens = @ + item.tokens]

\* ContextManager.build: what can enter, in the order of the score.
BuildContext(items, budget) ==
    LET considered == ToSet(SearchCandidates(items))
        usable == {item \in considered : CanEnterContext(item)}
        order == Ranked(usable, [item \in usable |-> ContextScore(item)], Cardinality(usable))
        start == [built |-> TRUE, selected |-> {}, rejected |-> considered \ usable, tokens |-> 0,
                  budget |-> budget, seen |-> considered]
        pack[n \in 0..Len(order)] == IF n = 0 THEN start ELSE Add(pack[n - 1], order[n])
    IN  pack[Len(order)]

-----------------------------------------------------------------------------

IdleUser == [stage |-> "idle", item |-> {}]

MemoryInit ==
    /\ memories = {}
    /\ memoryUser = [u \in MemoryUsers |-> IdleUser]
    /\ contextPack = NoPack
    /\ memoryCalls = 0

MemoryCall ==
    /\ memoryCalls < MaxMemoryCalls
    /\ memoryCalls' = memoryCalls + 1

Holds(u, stage, item) == memoryUser' = [memoryUser EXCEPT ![u] = [stage |-> stage, item |-> {item}]]

\* Mutant: items are stored as they come.
IngestUnguarded(u) ==
    /\ memoryUser[u].stage = "idle"
    /\ MemoryCall
    /\ \E e \in Sources : Holds(u, "find", MemoryItem(e))
    /\ UNCHANGED <<memories, contextPack>>

\* MemoryIngestor.ingest up to the store.
Ingest(u) ==
    /\ memoryUser[u].stage = "idle"
    /\ MemoryCall
    /\ \E e \in Sources :
        /\ Writable(MemoryItem(e))
        /\ Holds(u, "find", Guarded(MemoryItem(e)))
    /\ UNCHANGED <<memories, contextPack>>

\* mark_used, mark_rejected, mark_stale: read first.
Transition(u) ==
    /\ memoryUser[u].stage = "idle"
    /\ MemoryCall
    /\ \E item \in memories, status \in {"used", "rejected", "stale"} :
        Holds(u, "find", [item EXCEPT !.status = status])
    /\ UNCHANGED <<memories, contextPack>>

\* upsert: an item with the hash of a stored one takes its id ...
FindByHash(u) ==
    /\ memoryUser[u].stage = "find"
    /\ \E item \in memoryUser[u].item :
        LET same == {m \in memories : m.hash = item.hash}
        IN  \/ \E m \in same : Holds(u, "write", [item EXCEPT !.id = m.id])
            \/ same = {} /\ Holds(u, "write", item)
    /\ UNCHANGED <<memories, contextPack, memoryCalls>>

\* ... and replaces the row of that id; the hash of another row raises.
WriteMemory(u) ==
    /\ memoryUser[u].stage = "write"
    /\ \E item \in memoryUser[u].item :
        memories' = IF \E m \in memories : m.hash = item.hash /\ m.id # item.id THEN memories
                    ELSE {m \in memories : m.id # item.id} \cup {item}
    /\ memoryUser' = [memoryUser EXCEPT ![u] = IdleUser]
    /\ UNCHANGED <<contextPack, memoryCalls>>

BuildPack ==
    /\ \E budget \in Budgets : contextPack' = BuildContext(memories, budget)
    /\ UNCHANGED <<memories, memoryUser, memoryCalls>>

MemoryNext ==
    \/ \E u \in MemoryUsers : Ingest(u) \/ Transition(u) \/ FindByHash(u) \/ WriteMemory(u)
    \/ BuildPack

MemorySpec == MemoryInit /\ [][MemoryNext]_memoryVars
-----------------------------------------------------------------------------
(* Properties *)

TokensOf(items) == Total(items, [item \in items |-> item.tokens])

MemoryTypeOK ==
    /\ memoryCalls \in 0..MaxMemoryCalls
    /\ \A u \in MemoryUsers : memoryUser[u].stage \in {"idle", "find", "write"}

UniqueMemories ==
    \A m, n \in memories : m.id = n.id \/ m.hash = n.hash => m = n

PackFits(pack) ==
    /\ Cardinality(pack.selected) <= MaxSelected
    /\ TokensOf(pack.selected) <= pack.budget
    /\ \A item \in pack.selected : CanEnterContext(item)
    /\ \A i, j \in pack.selected : i.hash = j.hash => i = j
    /\ pack.seen = pack.selected \cup pack.rejected /\ pack.selected \cap pack.rejected = {}

\* Through every interleaving of writers: no two rows say the same or have one
\* id, no hypothesis and nothing of the web or the news is active, also where the
\* caller asked for that, and a context fits its budget, repeats nothing, holds
\* nothing rejected and accounts for all it saw.
MemoryHolds ==
    /\ UniqueMemories
    /\ \A m \in memories : m.status = "active" => m.claim # "hypothesis" /\ m.source \notin {"web", "news"}
    /\ contextPack.built => PackFits(contextPack)
=============================================================================

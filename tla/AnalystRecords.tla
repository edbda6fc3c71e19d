--------------------------- MODULE AnalystRecords ---------------------------
(***************************************************************************)
(* Expectations (research/expectations.py), peer groups                    *)
(* (research/peer_groups.py) and valuation assumptions                     *)
(* (research/valuation_store.py) under the requests of api/research.py,    *)
(* each of which runs in a thread of its own.                              *)
(***************************************************************************)
EXTENDS Integers, Sequences, FiniteSets

CONSTANTS
    Desks,        \* requests that may be under way at once
    Points,       \* expectations: [id, identity, observed, asOf, value, unit]
    Imports,      \* CSV files: sequences of Points and of rows without a value
    Actuals,      \* sets of reported points [filed, ended, value, unit] of one metric and period
    Groups,       \* peer group ids, as uuid4 hands them out
    Peers,        \* inputs of a peer group: [base, members, confirmed]
    Kinds         \* of valuations

VARIABLES
    expectations, groups, valuations,   \* the three tables
    desk,            \* what each request has read and will do next
    told,            \* expectations the answers of save gave back
    deletedGroups,   \* groups a delete was answered for
    surprises        \* comparisons that were answered: [expectation, actual]

recordVars == <<expectations, groups, valuations, desk, told, deletedGroups, surprises>>

AtDesk == [stage |-> "free"]

RecordsInit ==
    /\ expectations = {} /\ groups = <<>> /\ valuations = {}
    /\ desk = [c \in Desks |-> AtDesk]
    /\ told = {} /\ deletedGroups = {} /\ surprises = {}

Free(c) == desk[c].stage = "free"
Take(c, work) == desk' = [desk EXCEPT ![c] = work]
Leave(c) == Take(c, AtDesk)
-----------------------------------------------------------------------------
(* Expectations *)

\* What ExpectationPoint accepts: a number, not known before it was observed.
Valid(row) == row.value # 0 /\ row.observed <= row.asOf

\* Same identity under another id: the unique index refuses the row.
Refused(p) ==
    /\ \A e \in expectations : e.id # p.id
    /\ \E e \in expectations : e.identity = p.identity

\* Mutant: the last point of an id is kept.
SaveLastPoint(p) ==
    /\ ~Refused(p)
    /\ expectations' = {e \in expectations : e.id # p.id} \cup {p}
    /\ told' = told \cup {p}

\* A point of the same id is answered with the one that is stored.
SavePoint(p) ==
    LET stored == {e \in expectations : e.id = p.id} IN
    /\ ~Refused(p)
    /\ expectations' = IF stored = {} THEN expectations \cup {p} ELSE expectations
    /\ told' = told \cup (IF stored = {} THEN {p} ELSE stored)

SaveExpectation(c) ==
    /\ Free(c)
    /\ \E p \in {q \in Points : Valid(q)} : SavePoint(p)
    /\ UNCHANGED <<groups, valuations, desk, deletedGroups, surprises>>

\* import_csv saves row by row; a bad row, or one the index refuses, ends
\* it, and what it saved before stays.
BeginImport(c) ==
    /\ Free(c)
    /\ \E file \in Imports : Take(c, [stage |-> "import", file |-> file])
    /\ UNCHANGED <<expectations, groups, valuations, told, deletedGroups, surprises>>

ImportRow(c) ==
    /\ desk[c].stage = "import"
    /\ LET p == Head(desk[c].file)
           rest == Tail(desk[c].file) IN
        IF Valid(p) /\ ~Refused(p)
        THEN SavePoint(p) /\ Take(c, IF rest = <<>> THEN AtDesk ELSE [desk[c] EXCEPT !.file = rest])
        ELSE Leave(c) /\ UNCHANGED <<expectations, told>>
    /\ UNCHANGED <<groups, valuations, deletedGroups, surprises>>

\* Of the reported points the last that was filed is compared (a point
\* without a filing day, 0, comes first), if the expectation was known before.
LastFiled(points) ==
    CHOOSE a \in points : \A b \in points :
        a.filed > b.filed \/ (a.filed = b.filed /\ a.ended >= b.ended)

CompareExpectation(c) ==
    /\ Free(c)
    /\ \E e \in expectations, reported \in Actuals :
        LET candidates == {a \in reported : a.unit = e.unit} IN
        /\ candidates # {}
        /\ LastFiled(candidates).filed = 0 \/ e.asOf < LastFiled(candidates).filed
        /\ surprises' = surprises \cup {[expectation |-> e, actual |-> LastFiled(candidates)]}
    /\ UNCHANGED <<expectations, groups, valuations, desk, told, deletedGroups>>
-----------------------------------------------------------------------------
(* Peer groups and valuations *)

\* What PeerGroupInput accepts.
Accepted(p) == p.base \in p.members /\ Cardinality(p.members) >= 2 /\ p.confirmed

CreateGroup(c, g) ==
    /\ Free(c) /\ g \notin DOMAIN groups \cup deletedGroups
    /\ \E p \in {q \in Peers : Accepted(q)} :
        groups' = [x \in DOMAIN groups \cup {g} |-> IF x = g THEN p ELSE groups[x]]
    /\ UNCHANGED <<expectations, valuations, desk, told, deletedGroups, surprises>>

\* update reads the group and updates its row: of a group that was deleted
\* in between it changes nothing, and answers the group all the same.
ReadGroup(c, g) ==
    /\ Free(c) /\ g \in DOMAIN groups
    /\ \E p \in {q \in Peers : Accepted(q)} : Take(c, [stage |-> "group", group |-> g, input |-> p])
    /\ UNCHANGED <<expectations, groups, valuations, told, deletedGroups, surprises>>

Updated(g, p) == IF g \in DOMAIN groups THEN [groups EXCEPT ![g] = p] ELSE groups

UpdateGroup(c) ==
    /\ desk[c].stage = "group"
    /\ groups' = Updated(desk[c].group, desk[c].input)
    /\ Leave(c)
    /\ UNCHANGED <<expectations, valuations, told, deletedGroups, surprises>>

DeleteGroup(c, g) ==
    /\ Free(c) /\ g \in DOMAIN groups
    /\ groups' = [x \in DOMAIN groups \ {g} |-> groups[x]]
    /\ deletedGroups' = deletedGroups \cup {g}
    /\ UNCHANGED <<expectations, valuations, desk, told, surprises>>

\* The four calculations insert what they were asked and what came out.
SaveValuation(c) ==
    /\ Free(c)
    /\ \E kind \in Kinds : valuations' = valuations \cup {kind}
    /\ UNCHANGED <<expectations, groups, desk, told, deletedGroups, surprises>>

RecordsNext ==
    \E c \in Desks :
        \/ SaveExpectation(c) \/ BeginImport(c) \/ ImportRow(c) \/ CompareExpectation(c)
        \/ \E g \in Groups : CreateGroup(c, g) \/ ReadGroup(c, g) \/ DeleteGroup(c, g)
        \/ UpdateGroup(c) \/ SaveValuation(c)

RecordsSpec == RecordsInit /\ [][RecordsNext]_recordVars
-----------------------------------------------------------------------------
(* Properties *)

RecordsTypeOK ==
    /\ \A e \in expectations : Valid(e)
    /\ DOMAIN groups \subseteq Groups /\ \A g \in DOMAIN groups : Accepted(groups[g])
    /\ valuations \subseteq Kinds
    /\ DOMAIN desk = Desks
    /\ deletedGroups \subseteq Groups

\* A point in time is recorded once: what a save answered, and what a
\* surprise was measured against, is what later readers find, whatever is
\* posted or imported after it; and a group that was deleted never comes
\* back from an update that had read it before.
RecordsStay ==
    /\ told \subseteq expectations
    /\ \A s \in surprises : s.expectation \in expectations
    /\ \A e, f \in expectations : e.identity = f.identity => e = f
    /\ deletedGroups \cap DOMAIN groups = {}
=============================================================================

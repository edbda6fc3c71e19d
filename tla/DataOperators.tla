--------------------------- MODULE DataOperators ---------------------------
(***************************************************************************)
(* What the loops and comprehensions of several modules do with a sequence, *)
(* told by its indices: a set of them takes the place of a test, so that    *)
(* one lemma (DataInduction) serves every caller.                           *)
(***************************************************************************)
EXTENDS Integers, Sequences, FiniteSets

\* The elements of s at the given indices, in their order: [x for x in s if ...].
Selected(s, which) ==
    LET taken[n \in 0..Len(s)] ==
            IF n = 0 THEN <<>>
            ELSE IF n \in which THEN Append(taken[n - 1], s[n]) ELSE taken[n - 1]
    IN  taken[Len(s)]

\* The elements of lists, one list after the other: [x for list in lists for x in list].
Chained(lists) ==
    LET chained[n \in 0..Len(lists)] == IF n = 0 THEN <<>> ELSE chained[n - 1] \o lists[n]
    IN  chained[Len(lists)]

\* What the elements of a finite set amount to, one by one: sum(amount[x] for x in set).
Total(set, amount) == Cardinality(UNION {{x} \X (1..amount[x]) : x \in set})

\* The same for amounts of either sign.
Balance(set, amount) == Total(set, amount) - Total(set, [x \in set |-> -amount[x]])

\* The n elements of a finite set with the best score, the best one first:
\* sorted(set, key=score, reverse=True)[:n].
Ranked(set, score, n) ==
    LET best[k \in 0..n] ==
            IF k = 0 THEN <<>>
            ELSE LET left == set \ {best[k - 1][i] : i \in DOMAIN best[k - 1]} IN
                 IF left = {} THEN best[k - 1]
                 ELSE Append(best[k - 1], CHOOSE x \in left : \A y \in left : score[y] <= score[x])
    IN  best[n]
=============================================================================

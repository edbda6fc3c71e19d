--------------------------- MODULE DataInduction ---------------------------
(***************************************************************************)
(* Induction over an interval of the naturals with a set in place of a     *)
(* predicate, what follows from it of recursive functions, and the facts   *)
(* about sequences that the proofs of several modules use.                 *)
(***************************************************************************)
EXTENDS DataOperators, FiniteSetTheorems, SequenceTheorems, WellFoundedInduction, TLAPS

\* A set of naturals that is not empty has a least element.
LEMMA Smallest ==
    ASSUME NEW T, T \subseteq Nat, T # {}
    PROVE  \E m \in T : \A j \in T : m <= j
<1> DEFINE R == OpToRel(<, Nat)
<1>1. IsWellFoundedOn(R, Nat)
  BY NatLessThanWellFounded
<1>2. \A x, y \in Nat : x < y => <<x, y>> \in R
  BY DEF OpToRel
<1> HIDE DEF R
<1>3. PICK m \in T : \A j \in T : ~(<<j, m>> \in R)
  BY <1>1, WFMin
<1>4. ASSUME NEW j \in T PROVE m <= j
  <2>1. m \in Nat /\ j \in Nat /\ ~(j < m) BY <1>2, <1>3
  <2> QED BY <2>1
<1> QED BY <1>4

\* The least element of such a set is one of its elements.
LEMMA FirstIndex ==
    ASSUME NEW T, T \subseteq Nat, T # {}
    PROVE  (CHOOSE i \in T : \A j \in T : i <= j) \in T
<1>1. \E i \in T : \A j \in T : i <= j BY Smallest
<1> QED BY <1>1

\* A set that holds 0, and with each number below n the next one, holds them all.
LEMMA Induction ==
    ASSUME NEW n \in Nat, NEW S, 0 \in S, \A i \in 0..(n - 1) : i \in S => i + 1 \in S
    PROVE  0..n \subseteq S
<1> DEFINE Bad == {i \in 0..n : i \notin S}
<1> SUFFICES ASSUME NEW k \in 0..n, k \notin S PROVE FALSE
  OBVIOUS
<1>1. PICK m \in Bad : \A j \in Bad : m <= j
  <2>1. Bad \subseteq Nat /\ Bad # {} OBVIOUS
  <2> HIDE DEF Bad
  <2> QED BY <2>1, Smallest
<1>2. m # 0 /\ m - 1 \in 0..(n - 1) /\ m - 1 \notin Bad BY <1>1
<1> QED BY <1>1, <1>2

\* A function that starts at b and gets each value from the one before it.
IsRun(g, n, D, b, G) ==
    /\ g \in [0..n -> D] /\ g[0] = b
    /\ \A i \in 1..n : i - 1 \in 0..n /\ g[i - 1] \in D /\ g[i] = G[<<i, g[i - 1]>>]

\* There is one, when the step stays in a set.
LEMMA Recursion ==
    ASSUME NEW n \in Nat, NEW D, NEW b \in D, NEW G \in [(1..n) \X D -> D]
    PROVE  \E g : IsRun(g, n, D, b, G)
<1> DEFINE Is(g, k) == g \in [0..k -> D] /\ g[0] = b /\ \A i \in 1..k : g[i] = G[<<i, g[i - 1]>>]
           S == {k \in 0..n : \E g : Is(g, k)}
<1>1. 0 \in S
  <2> DEFINE g == [i \in 0..0 |-> b]
  <2>1. g \in [0..0 -> D] /\ g[0] = b /\ 1..0 = {} OBVIOUS
  <2> HIDE DEF g
  <2> QED BY <2>1
<1>2. ASSUME NEW i \in 0..(n - 1), i \in S PROVE i + 1 \in S
  <2>1. PICK g : Is(g, i) BY <1>2
  <2> DEFINE h == [x \in 0..(i + 1) |-> IF x = i + 1 THEN G[<<i + 1, g[i]>>] ELSE g[x]]
  <2>2. G[<<i + 1, g[i]>>] \in D BY <2>1
  <2>3. h \in [0..(i + 1) -> D] /\ h[0] = b BY <2>1, <2>2
  <2>4. ASSUME NEW x \in 1..(i + 1) PROVE h[x] = G[<<x, h[x - 1]>>]
    <3>1. CASE x = i + 1
      <4>1. h[x] = G[<<x, g[i]>>] /\ x - 1 = i BY <3>1
      <4>2. i \in 0..(i + 1) /\ i # i + 1 OBVIOUS
      <4>3. h[i] = g[i] BY <4>2
      <4> QED BY <4>1, <4>3
    <3>2. CASE x # i + 1
      <4>1. x \in 1..i /\ x - 1 \in 0..i /\ x \in 0..(i + 1) /\ x - 1 \in 0..(i + 1) /\ x - 1 # i + 1 BY <3>2
      <4>2. h[x] = g[x] /\ h[x - 1] = g[x - 1] BY <3>2, <4>1
      <4> QED BY <2>1, <4>1, <4>2
    <3> QED BY <3>1, <3>2
  <2>5. i + 1 \in 0..n OBVIOUS
  <2> HIDE DEF h
  <2> QED BY <2>3, <2>4, <2>5
<1>3. 0..n \subseteq S
  <2> HIDE DEF S
  <2> QED BY <1>1, <1>2, Induction
<1>4. n \in S BY <1>3
<1>5. \A i \in 1..n : i - 1 \in 0..n OBVIOUS
<1> QED BY <1>4, <1>5 DEF IsRun

\* What holds at the start and is kept by every step holds at the end.
LEMMA RunStays ==
    ASSUME NEW n \in Nat, NEW D, NEW F, F[0] \in D, \A i \in 1..n : F[i - 1] \in D => F[i] \in D
    PROVE  F[n] \in D
<1> DEFINE S == {i \in 0..n : F[i] \in D}
<1>1. \A i \in 0..(n - 1) : i \in S => i + 1 \in S
  <2> SUFFICES ASSUME NEW i \in 0..(n - 1), F[i] \in D PROVE i + 1 \in S
    OBVIOUS
  <2>1. i + 1 \in 1..n /\ (i + 1) - 1 = i OBVIOUS
  <2> QED BY <2>1
<1>2. 0 \in S OBVIOUS
<1> HIDE DEF S
<1>3. 0..n \subseteq S BY <1>1, <1>2, Induction
<1> QED BY <1>3 DEF S
-----------------------------------------------------------------------------
\* A sequence whose elements are in a set is one over the set.
LEMMA SeqOfElements ==
    ASSUME NEW A, NEW B, NEW s \in Seq(A), \A i \in 1..Len(s) : s[i] \in B
    PROVE  s \in Seq(B)
  BY ElementOfSeq, SeqDef

LEMMA Appended ==
    ASSUME NEW S, NEW s \in Seq(S), NEW x \in S
    PROVE  /\ Append(s, x) \in Seq(S) /\ Len(s) \in Nat /\ Len(Append(s, x)) = Len(s) + 1
           /\ Append(s, x)[Len(s) + 1] = x
           /\ \A i \in 1..Len(s) : Append(s, x)[i] = s[i] /\ s[i] \in S
  BY ElementOfSeq

LEMMA SeqOfFunction ==
    ASSUME NEW n \in Nat, NEW S, NEW f \in [1..n -> S]
    PROVE  f \in Seq(S) /\ Len(f) = n /\ DOMAIN f = 1..n
  BY SeqDef
-----------------------------------------------------------------------------
(* DataOperators *)

\* r is the selection from the first n elements of s, and at tells from where each is.
IsSelection(r, s, which, n, at) ==
    /\ Len(r) \in Nat /\ Len(r) <= n
    /\ at \in [1..Len(r) -> which \cap (1..n)]
    /\ \A j \in 1..Len(r) : r[j] = s[at[j]]
    /\ \A j, k \in 1..Len(r) : j < k => at[j] < at[k]
    /\ \A i \in which \cap (1..n) : \E j \in 1..Len(r) : at[j] = i

\* The loop keeps it: a selection of the elements so far.
LEMMA SelectedIsSelection ==
    ASSUME NEW S, NEW s \in Seq(S), NEW which
    PROVE  /\ Selected(s, which) \in Seq(S)
           /\ \E at : IsSelection(Selected(s, which), s, which, Len(s), at)
<1> DEFINE N == Len(s)
           D == Seq(S)
           Step(n, r) == IF n \in which THEN Append(r, s[n]) ELSE r
           G == [p \in (1..N) \X D |-> Step(p[1], p[2])]
           F == CHOOSE f : f = [n \in 0..N |-> IF n = 0 THEN <<>>
                                               ELSE IF n \in which THEN Append(f[n - 1], s[n]) ELSE f[n - 1]]
<1>1. N \in Nat /\ \A n \in 1..N : s[n] \in S BY ElementOfSeq
<1>2. Selected(s, which) = F[N] BY DEF Selected
<1> HIDE DEF N
<1>3. <<>> \in D OBVIOUS
<1>4. ASSUME NEW n \in 1..N, NEW r \in D PROVE Step(n, r) \in D
  BY <1>1, <1>4, Appended
<1>5. G \in [(1..N) \X D -> D] BY <1>4
<1> HIDE DEF D
<1>6. PICK g : IsRun(g, N, D, <<>>, G)
  <2>1. \E g : IsRun(g, N, D, <<>>, G)
    <3> HIDE DEF G
    <3> QED BY <1>1, <1>3, <1>5, Recursion
  <2> QED BY <2>1
<1>7. /\ g \in [0..N -> D] /\ g[0] = <<>>
      /\ \A n \in 1..N : n - 1 \in 0..N /\ g[n - 1] \in D /\ g[n] = Step(n, g[n - 1])
  BY <1>6, <1>1 DEF IsRun
<1>8. g = [n \in 0..N |-> IF n = 0 THEN <<>> ELSE IF n \in which THEN Append(g[n - 1], s[n]) ELSE g[n - 1]]
  <2>1. \A n \in 0..N : n # 0 => n \in 1..N BY <1>1
  <2> QED BY <1>7, <2>1
<1>9. F = [n \in 0..N |-> IF n = 0 THEN <<>> ELSE IF n \in which THEN Append(F[n - 1], s[n]) ELSE F[n - 1]]
  BY <1>8
<1> HIDE DEF F
<1>10. F[0] = <<>> /\ \A n \in 1..N : F[n] = Step(n, F[n - 1])
  <2>1. \A n \in 1..N : n \in 0..N /\ n # 0 BY <1>1
  <2>2. 0 \in 0..N BY <1>1
  <2> QED BY <1>9, <2>1, <2>2
<1> HIDE DEF G
<1> DEFINE T == {n \in 0..N : F[n] \in D /\ \E at : IsSelection(F[n], s, which, n, at)}
<1>11. 0 \in T
  <2> DEFINE none == [x \in 1..0 |-> x]
  <2>1. Len(<<>>) = 0 /\ 1..0 = {} OBVIOUS
  <2>2. IsSelection(<<>>, s, which, 0, none) BY <2>1 DEF IsSelection
  <2> HIDE DEF none
  <2>3. 0 \in 0..N BY <1>1
  <2> QED BY <1>3, <1>10, <2>2, <2>3
<1>12. ASSUME NEW n \in 0..(N - 1), n \in T PROVE n + 1 \in T
  <2>1. n \in Nat /\ n + 1 \in 1..N /\ n + 1 \in 0..N /\ (n + 1) - 1 = n BY <1>1
  <2>2. PICK at : IsSelection(F[n], s, which, n, at) BY <1>12
  <2>3. F[n] \in Seq(S) BY <1>12 DEF D
  <2>4. F[n + 1] = IF n + 1 \in which THEN Append(F[n], s[n + 1]) ELSE F[n] BY <1>10, <2>1
  <2>5. CASE n + 1 \notin which
    <3>1. which \cap (1..(n + 1)) = which \cap (1..n) BY <2>1, <2>5
    <3>2. IsSelection(F[n], s, which, n + 1, at) BY <2>1, <2>2, <3>1 DEF IsSelection
    <3> QED BY <1>12, <2>1, <2>4, <2>5, <3>2
  <2>6. CASE n + 1 \in which
    <3> DEFINE r == F[n]
               more == [j \in 1..(Len(r) + 1) |-> IF j = Len(r) + 1 THEN n + 1 ELSE at[j]]
               q == Append(r, s[n + 1])
    <3>1. s[n + 1] \in S BY <1>1, <2>1
    <3>2. /\ q \in Seq(S) /\ Len(r) \in Nat /\ Len(q) = Len(r) + 1 /\ q[Len(r) + 1] = s[n + 1]
          /\ \A j \in 1..Len(r) : q[j] = r[j]
      BY <2>3, <3>1, Appended
    <3>3. F[n + 1] = q BY <2>4, <2>6
    <3> HIDE DEF q
    <3>4. /\ Len(r) <= n /\ at \in [1..Len(r) -> which \cap (1..n)]
          /\ \A j \in 1..Len(r) : r[j] = s[at[j]]
          /\ \A j, k \in 1..Len(r) : j < k => at[j] < at[k]
          /\ \A i \in which \cap (1..n) : \E j \in 1..Len(r) : at[j] = i
      BY <2>2 DEF IsSelection
    <3> HIDE DEF r
    <3>5. \A j \in 1..(Len(r) + 1) : j # Len(r) + 1 => j \in 1..Len(r) BY <3>2
    <3>6. more \in [1..(Len(r) + 1) -> which \cap (1..(n + 1))]
      BY <2>1, <2>6, <3>2, <3>4, <3>5
    <3>7. \A j \in 1..(Len(r) + 1) : q[j] = s[more[j]] BY <3>2, <3>4, <3>5
    <3>8. ASSUME NEW j \in 1..(Len(r) + 1), NEW k \in 1..(Len(r) + 1), j < k PROVE more[j] < more[k]
      <4>0. j \in 1..Len(r) /\ j # Len(r) + 1 BY <3>2, <3>8
      <4>1. j \in 1..Len(r) /\ at[j] \in 1..n /\ more[j] = at[j] BY <3>4, <4>0
      <4>2. CASE k = Len(r) + 1 BY <2>1, <4>1, <4>2
      <4>3. CASE k # Len(r) + 1 BY <3>4, <3>5, <3>8, <4>1, <4>3
      <4> QED BY <4>2, <4>3
    <3>9. ASSUME NEW i \in which \cap (1..(n + 1)) PROVE \E j \in 1..(Len(r) + 1) : more[j] = i
      <4>1. CASE i = n + 1 BY <3>2, <4>1
      <4>2. CASE i # n + 1
        <5>1. i \in which \cap (1..n) BY <2>1, <4>2
        <5>2. PICK j \in 1..Len(r) : at[j] = i BY <3>4, <5>1
        <5>3. j \in 1..(Len(r) + 1) /\ j # Len(r) + 1 BY <3>2
        <5> QED BY <5>2, <5>3
      <4> QED BY <4>1, <4>2
    <3> HIDE DEF more
    <3>10. IsSelection(q, s, which, n + 1, more)
      <4>1. Len(q) \in Nat /\ Len(q) <= n + 1 BY <2>1, <3>2, <3>4
      <4> QED BY <4>1, <3>2, <3>6, <3>7, <3>8, <3>9 DEF IsSelection
    <3> QED BY <2>1, <3>2, <3>3, <3>10 DEF D
  <2> QED BY <2>5, <2>6
<1>13. N \in T
  <2> HIDE DEF T
  <2>1. 0..N \subseteq T BY <1>1, <1>11, <1>12, Induction
  <2>2. N \in 0..N BY <1>1
  <2> QED BY <2>1, <2>2
<1> QED BY <1>2, <1>13 DEF D, N

\* The selection has the selected elements and no others, and is no longer.
LEMMA SelectedHas ==
    ASSUME NEW S, NEW s \in Seq(S), NEW which
    PROVE  /\ Selected(s, which) \in Seq(S)
           /\ Len(Selected(s, which)) \in Nat /\ Len(Selected(s, which)) <= Len(s)
           /\ \A j \in 1..Len(Selected(s, which)) :
                \E i \in 1..Len(s) : i \in which /\ Selected(s, which)[j] = s[i]
           /\ \A i \in 1..Len(s) : i \in which =>
                \E j \in 1..Len(Selected(s, which)) : Selected(s, which)[j] = s[i]
<1>1. PICK at : IsSelection(Selected(s, which), s, which, Len(s), at) BY SelectedIsSelection
<1>2. Selected(s, which) \in Seq(S) BY SelectedIsSelection
<1> DEFINE r == Selected(s, which)
<1> HIDE DEF r
<1>3. /\ Len(r) \in Nat /\ Len(r) <= Len(s)
      /\ at \in [1..Len(r) -> which \cap (1..Len(s))]
      /\ \A j \in 1..Len(r) : r[j] = s[at[j]]
      /\ \A i \in which \cap (1..Len(s)) : \E j \in 1..Len(r) : at[j] = i
  BY <1>1 DEF IsSelection, r
<1>4. \A i \in 1..Len(s) : i \in which => \E j \in 1..Len(r) : r[j] = s[i] BY <1>3
<1>5. \A j \in 1..Len(r) : \E i \in 1..Len(s) : i \in which /\ r[j] = s[i] BY <1>3
<1> QED BY <1>2, <1>3, <1>4, <1>5 DEF r
-----------------------------------------------------------------------------
\* A finite set that is not empty has an element with the best score.
LEMMA BestOfSome ==
    ASSUME NEW S, IsFiniteSet(S), NEW f, \A x \in S : f[x] \in Int, NEW B, B \subseteq S, B # {}
    PROVE  \E x \in B : \A y \in B : f[y] <= f[x]
<1> DEFINE N == Cardinality(S)
           T == {k \in 0..N : \A U \in SUBSET S :
                     Cardinality(U) = k /\ U # {} => \E x \in U : \A y \in U : f[y] <= f[x]}
<1>1. N \in Nat BY FS_CardinalityType
<1>2. ASSUME NEW U, U \subseteq S
      PROVE  IsFiniteSet(U) /\ Cardinality(U) \in Nat /\ Cardinality(U) <= N /\ (Cardinality(U) = 0 <=> U = {})
  BY <1>2, FS_Subset, FS_CardinalityType, FS_EmptySet
<1>3. 0 \in T BY <1>1, <1>2
<1> HIDE DEF N
<1>4. ASSUME NEW k \in 0..(N - 1), k \in T PROVE k + 1 \in T
  <2>1. ASSUME NEW U \in SUBSET S, Cardinality(U) = k + 1, U # {} PROVE \E x \in U : \A y \in U : f[y] <= f[x]
    <3>1. PICK u \in U : TRUE BY <2>1
    <3>2. IsFiniteSet(U) BY <1>2
    <3>3. Cardinality(U \ {u}) = Cardinality(U) - 1 BY <3>1, <3>2, FS_RemoveElement
    <3>4. Cardinality(U \ {u}) = k BY <1>1, <2>1, <3>3
    <3>5. \A y \in U : f[y] \in Int BY <2>1
    <3>6. CASE U \ {u} = {}
      <4>1. \A y \in U : y = u BY <3>6
      <4> QED BY <3>1, <3>5, <4>1
    <3>7. CASE U \ {u} # {}
      <4>1. U \ {u} \in SUBSET S OBVIOUS
      <4>2. \E x \in U \ {u} : \A y \in U \ {u} : f[y] <= f[x] BY <1>4, <3>4, <3>7, <4>1
      <4>3. PICK x \in U \ {u} : \A y \in U \ {u} : f[y] <= f[x] BY <4>2
      <4>4. f[x] \in Int /\ f[u] \in Int BY <3>1, <3>5, <4>3
      <4>5. CASE f[u] <= f[x]
        <5>1. \A y \in U : f[y] <= f[x] BY <4>3, <4>5
        <5> QED BY <4>3, <5>1
      <4>6. CASE ~(f[u] <= f[x])
        <5>1. ASSUME NEW y \in U PROVE f[y] <= f[u]
          <6>1. CASE y = u BY <4>4, <6>1
          <6>2. CASE y # u
            <7>1. f[y] <= f[x] /\ f[y] \in Int BY <3>5, <4>3, <6>2
            <7> QED BY <4>4, <4>6, <7>1
          <6> QED BY <6>1, <6>2
        <5> QED BY <3>1, <5>1
      <4> QED BY <4>5, <4>6
    <3> QED BY <3>6, <3>7
  <2>2. k + 1 \in 0..N BY <1>1
  <2> QED BY <2>1, <2>2
<1>5. 0..N \subseteq T
  <2> HIDE DEF T
  <2> QED BY <1>1, <1>3, <1>4, Induction
<1>6. Cardinality(B) \in 0..N BY <1>1, <1>2
<1>7. Cardinality(B) \in T BY <1>5, <1>6
<1> QED BY <1>7

\* s has no element twice.
OnceEach(s) == \A i, j \in 1..Len(s) : s[i] = s[j] => i = j

\* The elements of s, as a set.
In(s) == {s[i] : i \in DOMAIN s}

\* So many of the set and no more, none twice; all of it when there is room.
LEMMA RankedHas ==
    ASSUME NEW S, IsFiniteSet(S), NEW score, \A x \in S : score[x] \in Int, NEW N \in Nat
    PROVE  /\ Ranked(S, score, N) \in Seq(S)
           /\ Len(Ranked(S, score, N)) \in Nat /\ Len(Ranked(S, score, N)) <= N
           /\ OnceEach(Ranked(S, score, N))
           /\ Len(Ranked(S, score, N)) = N \/ In(Ranked(S, score, N)) = S
<1> DEFINE D == Seq(S)
           Left(r) == S \ {r[i] : i \in DOMAIN r}
           Best1(r) == CHOOSE x \in Left(r) : \A y \in Left(r) : score[y] <= score[x]
           Step(r) == IF Left(r) = {} THEN r ELSE Append(r, Best1(r))
           G == [p \in (1..N) \X D |-> Step(p[2])]
           F == CHOOSE best : best = [k \in 0..N |->
                    IF k = 0 THEN <<>>
                    ELSE LET left == S \ {best[k - 1][i] : i \in DOMAIN best[k - 1]} IN
                         IF left = {} THEN best[k - 1]
                         ELSE Append(best[k - 1], CHOOSE x \in left : \A y \in left : score[y] <= score[x])]
<1>1. Ranked(S, score, N) = F[N] BY DEF Ranked
<1>2. ASSUME NEW r \in D, Left(r) # {} PROVE Best1(r) \in Left(r)
  <2> DEFINE L == Left(r)
  <2>1. L \subseteq S /\ L # {} BY <1>2
  <2> HIDE DEF L
  <2>2. \E x \in L : \A y \in L : score[y] <= score[x] BY <2>1, BestOfSome
  <2>3. (CHOOSE x \in L : \A y \in L : score[y] <= score[x]) \in L BY <2>2
  <2> QED BY <2>3 DEF L
<1>3. ASSUME NEW r \in D PROVE Step(r) \in D
  <2>1. CASE Left(r) = {} BY <2>1
  <2>2. CASE Left(r) # {}
    <3>1. Best1(r) \in S BY <1>2, <2>2
    <3> HIDE DEF Best1
    <3>2. Append(r, Best1(r)) \in Seq(S) BY <3>1, Appended
    <3> QED BY <2>2, <3>2
  <2> QED BY <2>1, <2>2
<1>4. <<>> \in D OBVIOUS
<1> HIDE DEF D
<1>5. G \in [(1..N) \X D -> D]
  <2> HIDE DEF Step
  <2> QED BY <1>3
<1>6. PICK g : IsRun(g, N, D, <<>>, G)
  <2>1. \E g : IsRun(g, N, D, <<>>, G)
    <3> HIDE DEF G
    <3> QED BY <1>4, <1>5, Recursion
  <2> QED BY <2>1
<1>7. /\ g \in [0..N -> D] /\ g[0] = <<>>
      /\ \A n \in 1..N : n - 1 \in 0..N /\ g[n - 1] \in D /\ g[n] = Step(g[n - 1])
  <2> HIDE DEF Step
  <2> QED BY <1>6 DEF IsRun
<1>8. g = [n \in 0..N |-> IF n = 0 THEN <<>> ELSE Step(g[n - 1])]
  <2>1. \A n \in 0..N : n # 0 => n \in 1..N OBVIOUS
  <2> HIDE DEF Step
  <2> QED BY <1>7, <2>1
<1>9. F = [n \in 0..N |-> IF n = 0 THEN <<>> ELSE Step(F[n - 1])]
  <2>0. \E best : best = [k \in 0..N |->
                    IF k = 0 THEN <<>>
                    ELSE LET left == S \ {best[k - 1][i] : i \in DOMAIN best[k - 1]} IN
                         IF left = {} THEN best[k - 1]
                         ELSE Append(best[k - 1], CHOOSE x \in left : \A y \in left : score[y] <= score[x])]
    <3> WITNESS g
    <3> QED BY <1>8
  <2>1. F = [k \in 0..N |->
                    IF k = 0 THEN <<>>
                    ELSE LET left == S \ {F[k - 1][i] : i \in DOMAIN F[k - 1]} IN
                         IF left = {} THEN F[k - 1]
                         ELSE Append(F[k - 1], CHOOSE x \in left : \A y \in left : score[y] <= score[x])]
    BY <2>0
  <2> HIDE DEF F
  <2> QED BY <2>1
<1> HIDE DEF F
<1>10. F[0] = <<>> /\ \A n \in 1..N : F[n] = Step(F[n - 1])
  <2>1. \A n \in 1..N : n \in 0..N /\ n # 0 OBVIOUS
  <2>2. 0 \in 0..N OBVIOUS
  <2> HIDE DEF Step
  <2> QED BY <1>9, <2>1, <2>2
<1> HIDE DEF G
<1> DEFINE P(n) == F[n] \in Seq(S) /\ Len(F[n]) <= n /\ OnceEach(F[n]) /\ (Len(F[n]) = n \/ In(F[n]) = S)
           T == {n \in 0..N : P(n)}
<1>11. 0 \in T
  <2>1. F[0] = <<>> /\ 0 \in 0..N
    <3> HIDE DEF Step
    <3> QED BY <1>10
  <2>2. <<>> \in Seq(S) /\ Len(<<>>) = 0 /\ OnceEach(<<>>) BY DEF OnceEach
  <2> HIDE DEF F
  <2>3. F[0] \in Seq(S) /\ Len(F[0]) = 0 /\ OnceEach(F[0]) BY <2>1, <2>2
  <2>4. P(0) BY <2>3
  <2> HIDE DEF P
  <2> QED BY <2>1, <2>4
<1>12. ASSUME NEW n \in 0..(N - 1), n \in T PROVE n + 1 \in T
  <2> DEFINE r == F[n]
             x == Best1(r)
  <2>1. n \in Nat /\ n + 1 \in 1..N /\ n + 1 \in 0..N /\ (n + 1) - 1 = n OBVIOUS
  <2>2. F[n + 1] = Step(r)
    <3> HIDE DEF Step
    <3>1. F[n + 1] = Step(F[(n + 1) - 1]) BY <1>10, <2>1
    <3> QED BY <2>1, <3>1
  <2>3. r \in Seq(S) /\ Len(r) <= n /\ OnceEach(r) /\ (Len(r) = n \/ In(r) = S) BY <1>12
  <2>4. CASE Left(r) = {}
    <3>1. F[n + 1] = r BY <2>2, <2>4
    <3>2. Len(r) \in Nat BY <2>3
    <3>3. Len(r) <= n + 1 BY <2>1, <2>3, <3>2
    <3>4. In(r) = S
      <4>1. S \subseteq In(r) BY <2>4 DEF In
      <4>2. In(r) \subseteq S BY <2>3, ElementOfSeq DEF In
      <4> QED BY <4>1, <4>2
    <3> HIDE DEF r
    <3>5. F[n + 1] \in Seq(S) /\ Len(F[n + 1]) <= n + 1 /\ OnceEach(F[n + 1]) /\ In(F[n + 1]) = S
      BY <2>3, <3>1, <3>3, <3>4
    <3> QED BY <2>1, <3>5
  <2>5. CASE Left(r) # {}
    <3>1. x \in Left(r) BY <1>2, <2>3, <2>5 DEF D
    <3>2. F[n + 1] = Append(r, x) BY <2>2, <2>5
    <3>3. x \in S /\ \A i \in DOMAIN r : r[i] # x BY <3>1
    <3> HIDE DEF x, r
    <3>4. /\ Append(r, x) \in Seq(S) /\ Len(r) \in Nat /\ Len(Append(r, x)) = Len(r) + 1
          /\ Append(r, x)[Len(r) + 1] = x
          /\ \A i \in 1..Len(r) : Append(r, x)[i] = r[i] /\ r[i] \in S
      BY <2>3, <3>3, Appended
    <3>5. DOMAIN r = 1..Len(r) BY <2>3
    <3> DEFINE q == Append(r, x)
    <3>6. ASSUME NEW i \in 1..Len(q), NEW j \in 1..Len(q), q[i] = q[j] PROVE i = j
      <4> HIDE DEF q
      <4>1. Len(q) = Len(r) + 1 /\ q[Len(r) + 1] = x /\ \A k \in 1..Len(r) : q[k] = r[k] BY <3>4 DEF q
      <4>2. i = Len(r) + 1 \/ i \in 1..Len(r) BY <3>4, <4>1
      <4>3. j = Len(r) + 1 \/ j \in 1..Len(r) BY <3>4, <4>1
      <4>4. \A k \in 1..Len(r) : r[k] # x BY <3>3, <3>5
      <4>5. CASE i \in 1..Len(r) /\ j \in 1..Len(r) BY <2>3, <3>6, <4>1, <4>5 DEF OnceEach
      <4>6. CASE i = Len(r) + 1 /\ j \in 1..Len(r) BY <3>6, <4>1, <4>4, <4>6
      <4>7. CASE j = Len(r) + 1 /\ i \in 1..Len(r) BY <3>6, <4>1, <4>4, <4>7
      <4> QED BY <4>2, <4>3, <4>5, <4>6, <4>7
    <3>7. OnceEach(q)
      <4> HIDE DEF q
      <4> QED BY <3>6 DEF OnceEach
    <3>8. Len(q) <= n + 1 BY <2>1, <2>3, <3>4
    <3>9. Len(r) = n
      <4>1. In(r) # S BY <3>3 DEF In
      <4> QED BY <2>3, <4>1
    <3>10. Len(q) = n + 1 BY <3>4, <3>9
    <3>11. q \in Seq(S) BY <3>4
    <3> HIDE DEF q
    <3>12. F[n + 1] = q BY <3>2 DEF q
    <3> QED BY <2>1, <3>7, <3>8, <3>10, <3>11, <3>12
  <2> QED BY <2>4, <2>5
<1>13. N \in T
  <2> HIDE DEF T
  <2>1. 0..N \subseteq T BY <1>11, <1>12, Induction
  <2>2. N \in 0..N OBVIOUS
  <2> QED BY <2>1, <2>2
<1>14. Len(F[N]) \in Nat BY <1>13
<1> QED BY <1>1, <1>13, <1>14

\* A sequence that has nothing twice is as long as what it has is large.
LEMMA OnceCounts ==
    ASSUME NEW S, NEW s \in Seq(S), OnceEach(s)
    PROVE  IsFiniteSet(In(s)) /\ Cardinality(In(s)) = Len(s) /\ In(s) \subseteq S
<1>1. Len(s) \in Nat /\ DOMAIN s = 1..Len(s) /\ s \in [1..Len(s) -> S] BY ElementOfSeq
<1>2. IsFiniteSet(1..Len(s)) /\ Cardinality(1..Len(s)) = Len(s) BY <1>1, FS_Interval
<1> DEFINE f == [i \in 1..Len(s) |-> s[i]]
<1>3. f \in Bijection(1..Len(s), In(s))
  <2>1. f \in [1..Len(s) -> In(s)] BY <1>1 DEF In
  <2>2. \A i, j \in 1..Len(s) : f[i] = f[j] => i = j BY DEF OnceEach
  <2>3. \A x \in In(s) : \E i \in 1..Len(s) : f[i] = x BY <1>1 DEF In
  <2> HIDE DEF f
  <2>4. f \in Injection(1..Len(s), In(s)) BY <2>1, <2>2 DEF Injection, IsInjective
  <2>5. f \in Surjection(1..Len(s), In(s)) BY <2>1, <2>3 DEF Surjection
  <2> QED BY <2>4, <2>5 DEF Bijection
<1> HIDE DEF f
<1>4. IsFiniteSet(In(s)) /\ Cardinality(In(s)) = Cardinality(1..Len(s))
  <2>1. ExistsBijection(1..Len(s), In(s)) BY <1>3 DEF ExistsBijection
  <2> QED BY <1>2, <2>1, FS_Bijection
<1> QED BY <1>1, <1>2, <1>4 DEF In

\* With room for all of them, the ranked elements are the set.
LEMMA RankedAll ==
    ASSUME NEW S, IsFiniteSet(S), NEW score, \A x \in S : score[x] \in Int
    PROVE  /\ Ranked(S, score, Cardinality(S)) \in Seq(S)
           /\ In(Ranked(S, score, Cardinality(S))) = S
           /\ OnceEach(Ranked(S, score, Cardinality(S)))
<1> DEFINE N == Cardinality(S)
           r == Ranked(S, score, N)
<1>1. N \in Nat BY FS_CardinalityType
<1> HIDE DEF N
<1>2. r \in Seq(S) /\ Len(r) \in Nat /\ OnceEach(r) /\ (Len(r) = N \/ In(r) = S) BY <1>1, RankedHas
<1> HIDE DEF r
<1>3. IsFiniteSet(In(r)) /\ Cardinality(In(r)) = Len(r) /\ In(r) \subseteq S BY <1>2, OnceCounts
<1>4. CASE Len(r) = N
  <2>1. Cardinality(In(r)) = Cardinality(S) BY <1>3, <1>4 DEF N
  <2> QED BY <1>2, <1>3, <2>1, FS_Subset DEF r, N
<1>5. CASE In(r) = S BY <1>2, <1>5 DEF r, N
<1> QED BY <1>2, <1>4, <1>5
-----------------------------------------------------------------------------
\* r has the elements of the first n of the lists; from tells of which list each is.
IsChained(r, lists, n, from) ==
    /\ Len(r) \in Nat /\ from \in [1..Len(r) -> 1..n]
    /\ \A k \in 1..Len(r) : \E i \in 1..Len(lists[from[k]]) : r[k] = lists[from[k]][i]
    /\ \A k, l \in 1..Len(r) : k < l => from[k] <= from[l]
    /\ \A m \in 1..n : \A i \in 1..Len(lists[m]) : \E k \in 1..Len(r) : from[k] = m /\ r[k] = lists[m][i]

LEMMA Concatenated ==
    ASSUME NEW S, NEW s \in Seq(S), NEW t \in Seq(S)
    PROVE  /\ s \o t \in Seq(S) /\ Len(s) \in Nat /\ Len(t) \in Nat /\ Len(s \o t) = Len(s) + Len(t)
           /\ \A k \in 1..Len(s) : (s \o t)[k] = s[k]
           /\ \A i \in 1..Len(t) : Len(s) + i \in 1..(Len(s) + Len(t)) /\ (s \o t)[Len(s) + i] = t[i]
           /\ \A k \in 1..(Len(s) + Len(t)) : k \in 1..Len(s) \/
                  (k > Len(s) /\ k - Len(s) \in 1..Len(t) /\ (s \o t)[k] = t[k - Len(s)])
<1>1. Len(s) \in Nat /\ Len(t) \in Nat OBVIOUS
<1>2. s \o t \in Seq(S) /\ Len(s \o t) = Len(s) + Len(t) BY ConcatProperties
<1>3. \A k \in 1..(Len(s) + Len(t)) : (s \o t)[k] = IF k <= Len(s) THEN s[k] ELSE t[k - Len(s)] BY ConcatProperties
<1> DEFINE m == Len(s)
           n == Len(t)
           q == s \o t
<1>4. m \in Nat /\ n \in Nat /\ \A k \in 1..(m + n) : q[k] = IF k <= m THEN s[k] ELSE t[k - m] BY <1>1, <1>3
<1> HIDE DEF m, n, q
<1>5. \A k \in 1..m : q[k] = s[k]
  <2>1. \A k \in 1..m : k \in 1..(m + n) /\ k <= m BY <1>4
  <2> QED BY <1>4, <2>1
<1>6. ASSUME NEW i \in 1..n PROVE m + i \in 1..(m + n) /\ q[m + i] = t[i]
  <2>1. m + i \in 1..(m + n) /\ ~(m + i <= m) /\ (m + i) - m = i BY <1>4
  <2> QED BY <1>4, <2>1
<1>7. ASSUME NEW k \in 1..(m + n), k \notin 1..m PROVE k > m /\ k - m \in 1..n /\ q[k] = t[k - m]
  <2>1. k > m /\ ~(k <= m) /\ k - m \in 1..n BY <1>4, <1>7
  <2> QED BY <1>4, <2>1
<1> QED BY <1>1, <1>2, <1>5, <1>6, <1>7 DEF m, n, q

LEMMA ChainedHas ==
    ASSUME NEW S, NEW lists \in Seq(Seq(S))
    PROVE  /\ Chained(lists) \in Seq(S)
           /\ \E from : IsChained(Chained(lists), lists, Len(lists), from)
<1> DEFINE N == Len(lists)
           D == Seq(S)
           G == [p \in (1..N) \X D |-> p[2] \o lists[p[1]]]
           F == CHOOSE chained : chained = [n \in 0..N |-> IF n = 0 THEN <<>> ELSE chained[n - 1] \o lists[n]]
<1>1. N \in Nat /\ \A n \in 1..N : lists[n] \in Seq(S) BY ElementOfSeq
<1>2. Chained(lists) = F[N] BY DEF Chained
<1> HIDE DEF N
<1>3. <<>> \in D OBVIOUS
<1>4. ASSUME NEW n \in 1..N, NEW r \in D PROVE r \o lists[n] \in D BY <1>1, Concatenated
<1>5. G \in [(1..N) \X D -> D]
  <2> HIDE DEF D
  <2> QED BY <1>4
<1> HIDE DEF D
<1>6. PICK g : IsRun(g, N, D, <<>>, G)
  <2>1. \E g : IsRun(g, N, D, <<>>, G)
    <3> HIDE DEF G
    <3> QED BY <1>1, <1>3, <1>5, Recursion
  <2> QED BY <2>1
<1>7. /\ g \in [0..N -> D] /\ g[0] = <<>>
      /\ \A n \in 1..N : n - 1 \in 0..N /\ g[n - 1] \in D /\ g[n] = g[n - 1] \o lists[n]
  BY <1>6, <1>1 DEF IsRun
<1>8. g = [n \in 0..N |-> IF n = 0 THEN <<>> ELSE g[n - 1] \o lists[n]]
  <2>1. \A n \in 0..N : n # 0 => n \in 1..N BY <1>1
  <2> QED BY <1>7, <2>1
<1>9. F = [n \in 0..N |-> IF n = 0 THEN <<>> ELSE F[n - 1] \o lists[n]]
  BY <1>8
<1> HIDE DEF F
<1>10. F[0] = <<>> /\ \A n \in 1..N : F[n] = F[n - 1] \o lists[n]
  <2>1. \A n \in 1..N : n \in 0..N /\ n # 0 BY <1>1
  <2>2. 0 \in 0..N BY <1>1
  <2> QED BY <1>9, <2>1, <2>2
<1> HIDE DEF G
<1> DEFINE P(n) == F[n] \in Seq(S) /\ \E from : IsChained(F[n], lists, n, from)
           T == {n \in 0..N : P(n)}
<1>11. 0 \in T
  <2> DEFINE none == [x \in 1..0 |-> x]
  <2>1. Len(<<>>) = 0 /\ 1..0 = {} /\ none \in [1..0 -> 1..0] OBVIOUS
  <2> HIDE DEF none
  <2>2. IsChained(<<>>, lists, 0, none) BY <2>1 DEF IsChained
  <2>3. P(0) BY <1>10, <2>2
  <2>4. 0 \in 0..N BY <1>1
  <2> HIDE DEF P
  <2> QED BY <2>3, <2>4
<1>12. ASSUME NEW n \in 0..(N - 1), n \in T PROVE n + 1 \in T
  <2> DEFINE r == F[n]
             m == n + 1
             t == lists[m]
             q == r \o t
  <2>1. n \in Nat /\ m \in 1..N /\ m \in 0..N /\ m - 1 = n BY <1>1
  <2>2. P(n) BY <1>12
  <2>3. PICK from : IsChained(r, lists, n, from) BY <2>2
  <2>4. r \in Seq(S) BY <2>2
  <2>5. F[m] = q BY <1>10, <2>1
  <2>6. t \in Seq(S) BY <1>1, <2>1
  <2> HIDE DEF r, t
  <2>7. /\ q \in Seq(S) /\ Len(r) \in Nat /\ Len(t) \in Nat /\ Len(q) = Len(r) + Len(t)
        /\ \A k \in 1..Len(r) : q[k] = r[k]
        /\ \A i \in 1..Len(t) : Len(r) + i \in 1..(Len(r) + Len(t)) /\ q[Len(r) + i] = t[i]
        /\ \A k \in 1..(Len(r) + Len(t)) : k \in 1..Len(r) \/ (k > Len(r) /\ k - Len(r) \in 1..Len(t) /\ q[k] = t[k - Len(r)])
    BY <2>4, <2>6, Concatenated
  <2> DEFINE L == Len(r)
             J == Len(t)
             more == [k \in 1..(L + J) |-> IF k \in 1..L THEN from[k] ELSE m]
  <2> HIDE DEF q
  <2>8. /\ from \in [1..L -> 1..n]
        /\ \A k \in 1..L : \E i \in 1..Len(lists[from[k]]) : r[k] = lists[from[k]][i]
        /\ \A k, l \in 1..L : k < l => from[k] <= from[l]
        /\ \A j \in 1..n : \A i \in 1..Len(lists[j]) : \E k \in 1..L : from[k] = j /\ r[k] = lists[j][i]
    BY <2>3 DEF IsChained
  <2>9. L \in Nat /\ J \in Nat /\ Len(q) = L + J BY <2>7
  <2>10. \A k \in 1..L : k \in 1..(L + J) /\ more[k] = from[k] /\ from[k] \in 1..n
    <3> HIDE DEF L, J
    <3>1. \A k \in 1..L : k \in 1..(L + J) BY <2>9
    <3>2. \A k \in 1..L : from[k] \in 1..n BY <2>8
    <3> HIDE DEF m
    <3> QED BY <3>1, <3>2
  <2>11. \A k \in 1..(L + J) : k \notin 1..L => more[k] = m OBVIOUS
  <2>12. more \in [1..(L + J) -> 1..m]
    <3>1. m \in 1..m /\ 1..n \subseteq 1..m BY <2>1
    <3> HIDE DEF m, L, J
    <3>2. \A k \in 1..L : from[k] \in 1..m BY <2>8, <3>1
    <3>3. \A k \in 1..(L + J) : (IF k \in 1..L THEN from[k] ELSE m) \in 1..m BY <3>1, <3>2
    <3> QED BY <3>3
  <2> HIDE DEF more, L, J
  <2>13. ASSUME NEW k \in 1..(L + J) PROVE \E i \in 1..Len(lists[more[k]]) : q[k] = lists[more[k]][i]
    <3>1. CASE k \in 1..L
      <4>1. q[k] = r[k] BY <2>7, <3>1 DEF L
      <4>2. more[k] = from[k] BY <2>10, <3>1
      <4>3. \E i \in 1..Len(lists[from[k]]) : r[k] = lists[from[k]][i] BY <2>8, <3>1
      <4> QED BY <4>1, <4>2, <4>3
    <3>2. CASE k \notin 1..L
      <4>1. k - L \in 1..J /\ q[k] = t[k - L] BY <2>7, <3>2 DEF L, J
      <4>2. more[k] = m BY <2>11, <3>2
      <4> QED BY <4>1, <4>2 DEF J, t
    <3> QED BY <3>1, <3>2
  <2>14. ASSUME NEW k \in 1..(L + J), NEW l \in 1..(L + J), k < l PROVE more[k] <= more[l]
    <3>1. CASE l \in 1..L
      <4>1. k \in 1..L BY <2>9, <2>14, <3>1
      <4> QED BY <2>8, <2>10, <2>14, <3>1, <4>1
    <3>2. CASE l \notin 1..L
      <4>1. more[l] = m BY <2>11, <3>2
      <4>2. more[k] \in 1..m BY <2>12
      <4> QED BY <4>1, <4>2, <2>1
    <3> QED BY <3>1, <3>2
  <2>15. ASSUME NEW j \in 1..m, NEW i \in 1..Len(lists[j]) PROVE \E k \in 1..(L + J) : more[k] = j /\ q[k] = lists[j][i]
    <3>1. CASE j = m
      <4>1. i \in 1..J BY <3>1 DEF J, t
      <4>2. L + i \in 1..(L + J) /\ q[L + i] = t[i] BY <2>7, <4>1 DEF L, J
      <4>3. L + i \notin 1..L BY <2>9, <4>1
      <4> QED BY <2>11, <3>1, <4>2, <4>3 DEF t
    <3>2. CASE j # m
      <4>1. j \in 1..n BY <2>1, <3>2
      <4>2. PICK k \in 1..L : from[k] = j /\ r[k] = lists[j][i] BY <2>8, <4>1
      <4>3. q[k] = r[k] BY <2>7 DEF L
      <4> QED BY <2>10, <4>2, <4>3
    <3> QED BY <3>1, <3>2
  <2>16. IsChained(q, lists, m, more)
    <3>1. Len(q) \in Nat BY <2>9
    <3> HIDE DEF m
    <3> QED BY <2>9, <2>12, <2>13, <2>14, <2>15, <3>1 DEF IsChained
  <2>17. P(m) BY <2>5, <2>7, <2>16
  <2> HIDE DEF P
  <2> QED BY <2>1, <2>17
<1>13. P(N)
  <2> HIDE DEF P
  <2>1. 0..N \subseteq T
    <3> HIDE DEF T
    <3> QED BY <1>1, <1>11, <1>12, Induction
  <2>2. N \in 0..N BY <1>1
  <2> QED BY <2>1, <2>2
<1> QED BY <1>2, <1>13 DEF N
-----------------------------------------------------------------------------
\* Nothing amounts to nothing; one element more adds what it amounts to.
LEMMA TotalHas ==
    ASSUME NEW S, IsFiniteSet(S), NEW f, \A x \in S : f[x] \in Nat
    PROVE  /\ Total(S, f) \in Nat
           /\ Total({}, f) = 0
           /\ \A U \in SUBSET S : \A x \in S \ U : Total(U, f) \in Nat /\ Total(U \cup {x}, f) = Total(U, f) + f[x]
<1> DEFINE Units(U) == UNION {{x} \X (1..f[x]) : x \in U}
<1>1. ASSUME NEW x \in S PROVE IsFiniteSet({x} \X (1..f[x])) /\ Cardinality({x} \X (1..f[x])) = f[x]
  <2>1. IsFiniteSet({x}) /\ Cardinality({x}) = 1 BY FS_Singleton
  <2>2. f[x] \in Nat OBVIOUS
  <2> DEFINE n == f[x]
  <2>3. IsFiniteSet(1..f[x]) /\ Cardinality(1..f[x]) = f[x]
    <3>1. n \in Nat BY <2>2
    <3> HIDE DEF n
    <3>2. IsFiniteSet(1..n) /\ Cardinality(1..n) = IF 1 > n THEN 0 ELSE n - 1 + 1 BY <3>1, FS_Interval
    <3>3. Cardinality(1..n) = n BY <3>1, <3>2
    <3> QED BY <3>2, <3>3 DEF n
  <2>4. IsFiniteSet({x} \X (1..f[x])) /\ Cardinality({x} \X (1..f[x])) = Cardinality({x}) * Cardinality(1..f[x])
    BY <2>1, <2>3, FS_Product
  <2>5. Cardinality({x} \X (1..f[x])) = 1 * f[x] BY <2>1, <2>3, <2>4
  <2> QED BY <2>2, <2>4, <2>5
<1>2. ASSUME NEW U \in SUBSET S, IsFiniteSet(Units(U)), NEW x \in S \ U
      PROVE  IsFiniteSet(Units(U \cup {x})) /\ Cardinality(Units(U \cup {x})) = Cardinality(Units(U)) + f[x]
  <2> DEFINE A == Units(U)
             B == {x} \X (1..f[x])
  <2>1. Units(U \cup {x}) = A \cup B
    <3>1. ASSUME NEW p \in Units(U \cup {x}) PROVE p \in A \cup B OBVIOUS
    <3>2. ASSUME NEW p \in A \cup B PROVE p \in Units(U \cup {x}) OBVIOUS
    <3> QED BY <3>1, <3>2
  <2>2. A \cap B = {}
    <3> SUFFICES ASSUME NEW p, p \in A, p \in B PROVE FALSE
      OBVIOUS
    <3>1. p[1] = x OBVIOUS
    <3>2. PICK y \in U : p \in {y} \X (1..f[y]) OBVIOUS
    <3> QED BY <3>1, <3>2
  <2>3. IsFiniteSet(A) /\ IsFiniteSet(B) /\ Cardinality(B) = f[x] BY <1>1, <1>2
  <2> HIDE DEF A, B
  <2>4. IsFiniteSet(A \cup B) /\ Cardinality(A \cup B) = Cardinality(A) + Cardinality(B)
    <3>1. IsFiniteSet(A \cup B) /\ Cardinality(A \cup B) = Cardinality(A) + Cardinality(B) - Cardinality(A \cap B)
      BY <2>3, FS_Union
    <3>2. Cardinality(A \cap B) = 0 BY <2>2, FS_EmptySet
    <3>3. Cardinality(A) \in Nat /\ Cardinality(B) \in Nat BY <2>3, FS_CardinalityType
    <3> QED BY <3>1, <3>2, <3>3
  <2> QED BY <2>1, <2>3, <2>4 DEF A
<1> DEFINE N == Cardinality(S)
           T == {k \in 0..N : \A U \in SUBSET S : Cardinality(U) = k => IsFiniteSet(Units(U))}
<1>3. N \in Nat BY FS_CardinalityType
<1>4. ASSUME NEW U, U \subseteq S
      PROVE  IsFiniteSet(U) /\ Cardinality(U) \in Nat /\ Cardinality(U) <= N /\ (Cardinality(U) = 0 <=> U = {})
  BY <1>4, FS_Subset, FS_CardinalityType, FS_EmptySet
<1>5. Units({}) = {} OBVIOUS
<1>6. 0 \in T
  <2>1. \A U \in SUBSET S : Cardinality(U) = 0 => IsFiniteSet(Units(U)) BY <1>4, <1>5, FS_EmptySet
  <2> HIDE DEF Units
  <2> QED BY <1>3, <2>1
<1> HIDE DEF N, Units
<1>7. ASSUME NEW k \in 0..(N - 1), k \in T PROVE k + 1 \in T
  <2>1. ASSUME NEW U \in SUBSET S, Cardinality(U) = k + 1 PROVE IsFiniteSet(Units(U))
    <3>1. U # {} BY <1>4, <2>1
    <3>2. PICK x \in U : TRUE BY <3>1
    <3> DEFINE V == U \ {x}
    <3>3. Cardinality(V) = Cardinality(U) - 1 BY <1>4, <3>2, FS_RemoveElement
    <3>4. V \in SUBSET S /\ x \in S \ V /\ V \cup {x} = U BY <3>2
    <3> HIDE DEF V
    <3>5. Cardinality(V) = k BY <1>3, <2>1, <3>3
    <3>6. IsFiniteSet(Units(V)) BY <1>7, <3>4, <3>5
    <3>7. IsFiniteSet(Units(V \cup {x})) BY <1>2, <3>4, <3>6
    <3> QED BY <3>4, <3>7
  <2>2. k + 1 \in 0..N BY <1>3
  <2> QED BY <2>1, <2>2
<1>8. \A U \in SUBSET S : IsFiniteSet(Units(U))
  <2>1. 0..N \subseteq T
    <3> HIDE DEF T
    <3> QED BY <1>3, <1>6, <1>7, Induction
  <2> SUFFICES ASSUME NEW U \in SUBSET S PROVE IsFiniteSet(Units(U))
    OBVIOUS
  <2>2. Cardinality(U) \in 0..N BY <1>3, <1>4
  <2>3. Cardinality(U) \in T BY <2>1, <2>2
  <2> QED BY <2>3
<1>9. \A U : Total(U, f) = Cardinality(Units(U)) BY DEF Total, Units
<1>10. \A U \in SUBSET S : Total(U, f) \in Nat BY <1>8, <1>9, FS_CardinalityType
<1>11. Total({}, f) = 0 BY <1>5, <1>9, FS_EmptySet
<1>12. ASSUME NEW U \in SUBSET S, NEW x \in S \ U PROVE Total(U \cup {x}, f) = Total(U, f) + f[x]
  BY <1>2, <1>8, <1>9
<1> QED BY <1>10, <1>11, <1>12

\* Nothing is a balance of 0; one element more adds its amount, of either sign.
LEMMA BalanceHas ==
    ASSUME NEW S, IsFiniteSet(S), NEW f, \A x \in S : f[x] \in Int
    PROVE  /\ Balance({}, f) = 0
           /\ \A U \in SUBSET S : \A x \in S \ U :
                Balance(U, f) \in Int /\ Balance(U \cup {x}, f) = Balance(U, f) + f[x]
<1> DEFINE gain == [x \in S |-> IF f[x] > 0 THEN f[x] ELSE 0]
           loss == [x \in S |-> IF f[x] < 0 THEN -f[x] ELSE 0]
<1>1. \A x \in S : gain[x] \in Nat /\ loss[x] \in Nat /\ f[x] = gain[x] - loss[x] OBVIOUS
<1>2. \A x \in S : 1..gain[x] = 1..f[x] /\ 1..loss[x] = 1..(-f[x])
  <2> SUFFICES ASSUME NEW x \in S PROVE 1..gain[x] = 1..f[x] /\ 1..loss[x] = 1..(-f[x])
    OBVIOUS
  <2> DEFINE n == f[x]
  <2>1. n \in Int /\ gain[x] = (IF n > 0 THEN n ELSE 0) /\ loss[x] = (IF n < 0 THEN -n ELSE 0) OBVIOUS
  <2> HIDE DEF n, gain, loss
  <2>2. 1..gain[x] = 1..n BY <2>1
  <2>3. 1..loss[x] = 1..(-n) BY <2>1
  <2> QED BY <2>2, <2>3 DEF n
<1> HIDE DEF gain, loss
<1>3. ASSUME NEW U \in SUBSET S
      PROVE  Balance(U, f) = Total(U, gain) - Total(U, loss)
  <2> DEFINE minus == [x \in U |-> -f[x]]
  <2>1. \A x \in U : 1..gain[x] = 1..f[x] /\ 1..loss[x] = 1..minus[x] BY <1>2
  <2> HIDE DEF minus
  <2>2. UNION {{x} \X (1..f[x]) : x \in U} = UNION {{x} \X (1..gain[x]) : x \in U} BY <2>1
  <2>3. UNION {{x} \X (1..minus[x]) : x \in U} = UNION {{x} \X (1..loss[x]) : x \in U} BY <2>1
  <2>4. Total(U, f) = Total(U, gain) /\ Total(U, minus) = Total(U, loss) BY <2>2, <2>3 DEF Total
  <2> QED BY <2>4 DEF Balance, minus
<1>4. /\ Total({}, gain) = 0
      /\ \A U \in SUBSET S : \A x \in S \ U : Total(U, gain) \in Nat /\ Total(U \cup {x}, gain) = Total(U, gain) + gain[x]
  BY <1>1, TotalHas
<1>5. /\ Total({}, loss) = 0
      /\ \A U \in SUBSET S : \A x \in S \ U : Total(U, loss) \in Nat /\ Total(U \cup {x}, loss) = Total(U, loss) + loss[x]
  BY <1>1, TotalHas
<1>6. Balance({}, f) = 0 BY <1>3, <1>4, <1>5
<1>7. ASSUME NEW U \in SUBSET S, NEW x \in S \ U
      PROVE  Balance(U, f) \in Int /\ Balance(U \cup {x}, f) = Balance(U, f) + f[x]
  <2>1. U \cup {x} \in SUBSET S OBVIOUS
  <2>2. Balance(U, f) = Total(U, gain) - Total(U, loss) /\ Balance(U \cup {x}, f) = Total(U \cup {x}, gain) - Total(U \cup {x}, loss)
    BY <1>3, <2>1
  <2>3. /\ Total(U, gain) \in Nat /\ Total(U \cup {x}, gain) = Total(U, gain) + gain[x]
        /\ Total(U, loss) \in Nat /\ Total(U \cup {x}, loss) = Total(U, loss) + loss[x]
    BY <1>4, <1>5
  <2>4. gain[x] \in Nat /\ loss[x] \in Nat /\ f[x] = gain[x] - loss[x] BY <1>1
  <2> QED BY <2>2, <2>3, <2>4
<1> QED BY <1>6, <1>7

\* What a function makes of a finite set is finite.
LEMMA ImageIsFinite ==
    ASSUME NEW S, IsFiniteSet(S), NEW f
    PROVE  IsFiniteSet({f[x] : x \in S})
<1> DEFINE g == [x \in S |-> f[x]]
           T == {f[x] : x \in S}
<1>1. g \in [S -> T] OBVIOUS
<1>2. \A t \in T : \E x \in S : g[x] = t OBVIOUS
<1> HIDE DEF g, T
<1>3. g \in Surjection(S, T) BY <1>1, <1>2 DEF Surjection
<1>4. IsFiniteSet(T) BY <1>3, FS_Surjection
<1> QED BY <1>4 DEF T
-----------------------------------------------------------------------------
\* Two sequences, one after the other, have what the first has and what the second has.
LEMMA JoinedHas ==
    ASSUME NEW s, s \in Seq(In(s)), NEW t, t \in Seq(In(t))
    PROVE  s \o t \in Seq(In(s \o t)) /\ In(s \o t) = In(s) \cup In(t)
<1> DEFINE S == In(s) \cup In(t)
           q == s \o t
<1>1. s \in Seq(S) /\ t \in Seq(S)
  <2>1. \A i \in 1..Len(s) : s[i] \in S BY ElementOfSeq
  <2>2. \A i \in 1..Len(t) : t[i] \in S BY ElementOfSeq
  <2> HIDE DEF S
  <2> QED BY <2>1, <2>2, SeqOfElements
<1>2. DOMAIN s = 1..Len(s) /\ DOMAIN t = 1..Len(t) OBVIOUS
<1> HIDE DEF S
<1>3. /\ q \in Seq(S) /\ Len(s) \in Nat /\ Len(t) \in Nat /\ Len(q) = Len(s) + Len(t)
      /\ \A k \in 1..Len(s) : q[k] = s[k]
      /\ \A i \in 1..Len(t) : Len(s) + i \in 1..(Len(s) + Len(t)) /\ q[Len(s) + i] = t[i]
      /\ \A k \in 1..(Len(s) + Len(t)) : k \in 1..Len(s) \/
             (k > Len(s) /\ k - Len(s) \in 1..Len(t) /\ q[k] = t[k - Len(s)])
  BY <1>1, Concatenated
<1> HIDE DEF q
<1>4. DOMAIN q = 1..(Len(s) + Len(t)) BY <1>3
<1>5. In(q) \subseteq S
  <2> SUFFICES ASSUME NEW k \in 1..(Len(s) + Len(t)) PROVE q[k] \in S
    BY <1>4 DEF In
  <2>1. CASE k \in 1..Len(s) BY <1>2, <1>3, <2>1 DEF S, In
  <2>2. CASE k \notin 1..Len(s)
    <3>1. k - Len(s) \in 1..Len(t) /\ q[k] = t[k - Len(s)] BY <1>3, <2>2
    <3> QED BY <1>2, <3>1 DEF S, In
  <2> QED BY <2>1, <2>2
<1>6. In(s) \subseteq In(q)
  <2>1. ASSUME NEW k \in 1..Len(s) PROVE s[k] \in In(q)
    <3>1. k \in DOMAIN q /\ q[k] = s[k] BY <1>3, <1>4
    <3> QED BY <3>1 DEF In
  <2> QED BY <1>2, <2>1 DEF In
<1>7. In(t) \subseteq In(q)
  <2>1. ASSUME NEW k \in 1..Len(t) PROVE t[k] \in In(q)
    <3>1. Len(s) + k \in DOMAIN q /\ q[Len(s) + k] = t[k] BY <1>3, <1>4
    <3> QED BY <3>1 DEF In
  <2> QED BY <1>2, <2>1 DEF In
<1>8. q \in Seq(In(q))
  <2>1. \A k \in 1..Len(q) : q[k] \in In(q) BY <1>3, <1>4 DEF In
  <2> QED BY <1>3, <2>1, SeqOfElements
<1> QED BY <1>5, <1>6, <1>7, <1>8 DEF q, S

\* A sequence of whatever its elements are.
IsList(s) == s \in Seq(In(s))

LEMMA ListOver ==
    ASSUME NEW S, NEW s \in Seq(S)
    PROVE  IsList(s)
<1>1. \A i \in 1..Len(s) : s[i] \in In(s)
  <2>1. DOMAIN s = 1..Len(s) OBVIOUS
  <2> QED BY <2>1 DEF In
<1> QED BY <1>1, SeqOfElements DEF IsList

LEMMA NothingIsAList == IsList(<<>>)
<1>1. <<>> \in Seq({}) OBVIOUS
<1> QED BY <1>1, ListOver

LEMMA ListOfFunction ==
    ASSUME NEW f, NEW n \in Nat, f = [i \in 1..n |-> f[i]]
    PROVE  IsList(f) /\ DOMAIN f = 1..n
<1>1. DOMAIN f = 1..n OBVIOUS
<1>2. f \in [1..n -> In(f)] BY DEF In
<1> QED BY <1>1, <1>2, SeqOfFunction DEF IsList

\* What is made of each element of a list is a list.
LEMMA ListByList ==
    ASSUME NEW s, IsList(s), NEW f, f = [i \in DOMAIN s |-> f[i]]
    PROVE  IsList(f)
<1>1. DOMAIN s = 1..Len(s) /\ Len(s) \in Nat BY DEF IsList
<1>2. f = [i \in 1..Len(s) |-> f[i]] BY <1>1
<1> DEFINE n == Len(s)
<1> HIDE DEF n
<1>3. n \in Nat /\ f = [i \in 1..n |-> f[i]] BY <1>1, <1>2 DEF n
<1> QED BY <1>3, ListOfFunction

LEMMA SelectedIsList ==
    ASSUME NEW s, IsList(s), NEW which
    PROVE  IsList(Selected(s, which)) /\ In(Selected(s, which)) \subseteq In(s)
<1> DEFINE r == Selected(s, which)
<1>1. r \in Seq(In(s)) /\ Len(r) \in Nat BY SelectedIsSelection DEF IsList
<1> HIDE DEF r
<1>2. IsList(r) BY <1>1, ListOver
<1>3. \A i \in 1..Len(r) : r[i] \in In(s) BY <1>1, ElementOfSeq
<1>4. DOMAIN r = 1..Len(r) BY <1>1
<1>5. In(r) \subseteq In(s) BY <1>3, <1>4 DEF In
<1> QED BY <1>2, <1>5 DEF r

\* The first elements of a list are one.
LEMMA PrefixIsList ==
    ASSUME NEW s, IsList(s), NEW n \in Nat, n <= Len(s)
    PROVE  IsList(SubSeq(s, 1, n))
<1>1. SubSeq(s, 1, n) \in Seq(In(s))
  <2>1. \A i \in 1..n : s[i] \in In(s)
    <3>1. \A i \in 1..n : i \in DOMAIN s BY DEF IsList
    <3> QED BY <3>1 DEF In
  <2> QED BY <2>1, SubSeqProperties DEF IsList
<1> QED BY <1>1, ListOver

\* The elements that no earlier one equals are none of them twice.
LEMMA FirstsOnce ==
    ASSUME NEW s, IsList(s)
    PROVE  OnceEach(Selected(s, {i \in DOMAIN s : \A j \in 1..(i - 1) : s[j] # s[i]}))
<1> DEFINE which == {i \in DOMAIN s : \A j \in 1..(i - 1) : s[j] # s[i]}
           r == Selected(s, which)
<1>1. PICK at : IsSelection(r, s, which, Len(s), at)
  <2> HIDE DEF which
  <2> QED BY SelectedIsSelection DEF IsList
<1>2. /\ at \in [1..Len(r) -> which \cap (1..Len(s))]
      /\ \A j \in 1..Len(r) : r[j] = s[at[j]]
      /\ \A j, k \in 1..Len(r) : j < k => at[j] < at[k]
      /\ Len(r) \in Nat
  BY <1>1 DEF IsSelection
<1>3. \A i \in which : \A j \in 1..(i - 1) : s[j] # s[i] OBVIOUS
<1>4. Len(s) \in Nat BY DEF IsList
<1> HIDE DEF r, which
<1>5. ASSUME NEW j \in 1..Len(r), NEW k \in 1..Len(r), j < k PROVE r[j] # r[k]
  <2>1. at[j] \in 1..Len(s) /\ at[k] \in 1..Len(s) /\ at[k] \in which /\ at[j] < at[k] BY <1>2, <1>5
  <2>2. at[j] \in 1..(at[k] - 1) BY <1>4, <2>1
  <2>3. s[at[j]] # s[at[k]] BY <1>3, <2>1, <2>2
  <2> QED BY <1>2, <2>3
<1>6. ASSUME NEW j \in 1..Len(r), NEW k \in 1..Len(r), r[j] = r[k] PROVE j = k
  <2>1. ~(j < k) BY <1>5, <1>6
  <2>2. ~(k < j) BY <1>5, <1>6
  <2> QED BY <1>2, <2>1, <2>2
<1> QED BY <1>6 DEF OnceEach, r, which
\* The first of each key that is not in K.
IsFirsts(r, s, key, K, at) ==
    /\ at \in [1..Len(r) -> 1..Len(s)]
    /\ \A k \in 1..Len(r) : r[k] = s[at[k]] /\ key[at[k]] \notin K
    /\ \A j, k \in 1..Len(r) : key[at[j]] = key[at[k]] => j = k
    /\ \A i \in 1..Len(s) : key[i] \notin K => \E k \in 1..Len(r) : key[at[k]] = key[i]

LEMMA FirstsBy ==
    ASSUME NEW S, NEW s \in Seq(S), NEW key, NEW K, NEW W,
           W = {i \in DOMAIN s : key[i] \notin K /\ \A j \in 1..(i - 1) : key[j] # key[i]}
    PROVE  /\ Selected(s, W) \in Seq(S)
           /\ \E at : IsFirsts(Selected(s, W), s, key, K, at)
<1> DEFINE r == Selected(s, W)
<1>1. PICK at : IsSelection(r, s, W, Len(s), at)
  BY SelectedIsSelection
<1>2. r \in Seq(S) /\ DOMAIN s = 1..Len(s) /\ Len(s) \in Nat /\ W \cap (1..Len(s)) = W /\ W \subseteq Nat
  BY SelectedIsSelection
<1> HIDE DEF r
<1>3. /\ Len(r) \in Nat /\ at \in [1..Len(r) -> W]
      /\ \A k \in 1..Len(r) : r[k] = s[at[k]]
      /\ \A j, k \in 1..Len(r) : j < k => at[j] < at[k]
      /\ \A i \in W : \E k \in 1..Len(r) : at[k] = i
  BY <1>1, <1>2 DEF IsSelection
<1>4. at \in [1..Len(r) -> 1..Len(s)]
  BY <1>2, <1>3
<1>5. \A k \in 1..Len(r) : r[k] = s[at[k]] /\ key[at[k]] \notin K
  BY <1>3
<1>6. \A j, k \in 1..Len(r) : j < k => key[at[j]] # key[at[k]]
  <2> SUFFICES ASSUME NEW j \in 1..Len(r), NEW k \in 1..Len(r), j < k PROVE key[at[j]] # key[at[k]]
    OBVIOUS
  <2>1. at[j] < at[k] /\ at[j] \in 1..Len(s) /\ at[k] \in W /\ at[k] \in Nat
    BY <1>2, <1>3, <1>4
  <2> QED BY <2>1, <1>2, SMTT(30)
<1>7. \A j, k \in 1..Len(r) : key[at[j]] = key[at[k]] => j = k
  BY <1>6, <1>3
<1>8. ASSUME NEW i \in 1..Len(s), key[i] \notin K PROVE \E k \in 1..Len(r) : key[at[k]] = key[i]
  <2> DEFINE T == {j \in 1..Len(s) : key[j] = key[i]}
  <2>1. T \subseteq Nat /\ T # {}
    BY <1>2
  <2>2. PICK m \in T : \A j \in T : m <= j
    BY <2>1, Smallest
  <2>3. m \in 1..Len(s) /\ key[m] = key[i]
    BY <2>2
  <2>4. \A j \in 1..(m - 1) : key[j] # key[m]
    BY <2>2, <2>3, <1>2
  <2>5. m \in W
    BY <2>3, <2>4, <1>2, <1>8
  <2> QED BY <2>5, <2>3, <1>3
<1>9. IsFirsts(r, s, key, K, at)
  BY <1>4, <1>5, <1>7, <1>8 DEF IsFirsts
<1> QED BY <1>2, <1>9 DEF r

\* A selection that leaves nothing out.
LEMMA SelectedAll ==
    ASSUME NEW S, NEW s \in Seq(S), NEW W, DOMAIN s \subseteq W
    PROVE  Selected(s, W) = s
<1> DEFINE N == Len(s)
           r == Selected(s, W)
<1>1. PICK at : IsSelection(r, s, W, N, at)
  BY SelectedIsSelection
<1>2. r \in Seq(S) /\ N \in Nat /\ Len(r) \in Nat /\ DOMAIN s = 1..N /\ DOMAIN r = 1..Len(r)
  BY SelectedIsSelection
<1> HIDE DEF r, N
<1>3. /\ at \in [1..Len(r) -> 1..N] /\ Len(r) <= N
      /\ \A j \in 1..Len(r) : r[j] = s[at[j]]
      /\ \A j, k \in 1..Len(r) : j < k => at[j] < at[k]
      /\ \A i \in 1..N : \E j \in 1..Len(r) : at[j] = i
  <2>1. W \cap (1..N) = 1..N BY <1>2
  <2> QED BY <1>1, <2>1 DEF IsSelection
<1> DEFINE T == {k \in 0..N : k <= Len(r) /\ \A j \in 1..k : at[j] = j}
<1>4. 0 \in T BY <1>2
<1>5. ASSUME NEW k \in 0..(N - 1), k \in T PROVE k + 1 \in T
  <2>1. k + 1 \in 1..N /\ k \in Nat BY <1>2
  <2>2. PICK i \in 1..Len(r) : at[i] = k + 1 BY <1>3, <2>1
  <2>3. \A j \in 1..k : at[j] = j /\ at[j] # k + 1 BY <1>5, <2>1
  <2>4. i \notin 1..k BY <2>2, <2>3
  <2>5. k + 1 <= Len(r) /\ k + 1 \in 1..Len(r) BY <2>4, <2>1, <1>2
  <2>6. i = k + 1
    <3> SUFFICES ASSUME k + 1 < i PROVE FALSE BY <2>4, <2>1, <1>2
    <3>1. at[k + 1] < k + 1 /\ at[k + 1] \in 1..N BY <1>3, <2>2, <2>5
    <3>2. at[k + 1] \in 1..k BY <3>1, <2>1, <1>2
    <3>3. at[at[k + 1]] = at[k + 1] BY <3>2, <2>3
    <3>4. at[k + 1] \in 1..Len(r) /\ at[k + 1] < k + 1 BY <3>2, <2>5, <1>2, <2>1
    <3>5. at[at[k + 1]] < at[k + 1] BY <3>4, <2>5, <1>3
    <3> QED BY <3>3, <3>5, <3>1, <1>2
  <2>7. \A j \in 1..(k + 1) : at[j] = j
    <3>1. \A j \in 1..(k + 1) : j \in 1..k \/ j = k + 1 BY <2>1
    <3> QED BY <3>1, <2>2, <2>3, <2>6
  <2> QED BY <2>1, <2>5, <2>7, <1>2
<1>6. 0..N \subseteq T
  <2> HIDE DEF T
  <2> QED BY <1>2, <1>4, <1>5, Induction
<1>7. N \in T BY <1>6, <1>2
<1>8. Len(r) = N /\ \A j \in 1..N : r[j] = s[j]
  <2>1. N <= Len(r) /\ \A j \in 1..N : at[j] = j BY <1>7
  <2>2. Len(r) <= N BY <1>3
  <2>3. Len(r) \in Nat /\ N \in Nat BY <1>2
  <2>4. Len(r) = N BY ONLY <2>1, <2>2, <2>3
  <2> QED BY <2>1, <2>4, <1>3
<1> QED BY <1>2, <1>8 DEF r, N

\* The first of the highest, as max() finds it.
LEMMA BestOfAlike ==
    ASSUME NEW N \in Nat, NEW T, T \subseteq 1..N, T # {}, NEW f, \A i \in T : f[i] \in Int
    PROVE  \E i \in T : \A j \in T : f[j] < f[i] \/ (f[j] = f[i] /\ i <= j)
<1>1. IsFiniteSet(T)
  <2>1. IsFiniteSet(1..N) BY FS_Interval
  <2> QED BY <2>1, FS_Subset
<1>2. PICK b \in T : \A j \in T : f[j] <= f[b] BY <1>1, BestOfSome
<1> DEFINE U == {i \in T : f[i] = f[b]}
<1>3. U \subseteq Nat /\ U # {}
  <2>1. b \in U BY <1>2
  <2>2. T \subseteq Nat OBVIOUS
  <2> QED BY <2>1, <2>2
<1>4. PICK m \in U : \A j \in U : m <= j BY <1>3, Smallest
<1>5. ASSUME NEW j \in T PROVE f[j] < f[m] \/ (f[j] = f[m] /\ m <= j)
  <2>1. f[m] = f[b] /\ f[j] <= f[b] /\ f[j] \in Int /\ f[b] \in Int BY <1>2, <1>4
  <2>2. CASE f[j] = f[b] BY <2>1, <2>2, <1>4
  <2>3. CASE f[j] # f[b] BY <2>1, <2>3
  <2> QED BY <2>2, <2>3
<1> QED BY <1>4, <1>5

\* A list made of another one, element by element.
LEMMA ListTyped ==
    ASSUME NEW S, NEW A, NEW s \in Seq(A), NEW f, f = [i \in DOMAIN s |-> f[i]], \A i \in DOMAIN s : f[i] \in S
    PROVE  f \in Seq(S) /\ DOMAIN f = DOMAIN s
<1>1. DOMAIN s = 1..Len(s) /\ Len(s) \in Nat OBVIOUS
<1>2. f \in [1..Len(s) -> S] BY <1>1
<1> QED BY <1>1, <1>2, SeqOfFunction
=============================================================================

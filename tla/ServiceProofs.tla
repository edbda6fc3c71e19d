--------------------------- MODULE ServiceProofs ----------------------------
(***************************************************************************)
(* What the clients of outside services hand on, and what the limiter lets *)
(* in, whatever the services answer: RateLimiter, SearchRouter,            *)
(* CompanySources, FilingReading, TranscriptSources. Then what an agent    *)
(* reaches of them: the browser it drives (BrowserSession), the tools it   *)
(* calls (ToolCatalogue) and the candidates of evidence that are made of   *)
(* their results (EvidenceCandidates). Loops over data are recursive       *)
(* functions in the models, and DataInduction carries an invariant         *)
(* through them.                                                           *)
(***************************************************************************)
EXTENDS RateLimiter, SearchRouter, CompanySources, FilingReading, TranscriptSources,
        BrowserSession, ToolCatalogue, EvidenceCandidates,
        DataInduction, SequenceTheorems, FiniteSetTheorems

-----------------------------------------------------------------------------
(* RateLimiter *)

\* The loop takes the hits up to the cutoff, whatever the bucket holds.
LEMMA DropsTheOld ==
    ASSUME NEW bucket \in Seq(Nat), NEW cutoff \in Int
    PROVE  /\ Dropped(bucket, cutoff) \in 0..Len(bucket)
           /\ \A i \in 1..Dropped(bucket, cutoff) : bucket[i] <= cutoff
           /\ Dropped(bucket, cutoff) < Len(bucket) => bucket[Dropped(bucket, cutoff) + 1] > cutoff
<1> DEFINE Ends == {n \in 0..Len(bucket) : n < Len(bucket) => bucket[n + 1] > cutoff}
<1>1. Len(bucket) \in Ends /\ Ends \subseteq Nat OBVIOUS
<1>2. PICK n \in Ends : \A m \in Ends : n <= m
  <2> HIDE DEF Ends
  <2> QED BY <1>1, Smallest
<1>3. ASSUME NEW i \in 1..n PROVE bucket[i] <= cutoff
  <2>1. i - 1 \notin Ends /\ i - 1 \in 0..Len(bucket) /\ bucket[i] \in Int BY <1>2
  <2> QED BY <2>1
<1>4. n \in 0..Len(bucket) /\ (n < Len(bucket) => bucket[n + 1] > cutoff) BY <1>2
<1> QED BY <1>3, <1>4 DEF Dropped

\* What is live is the end of the bucket: hits are in the order of time.
LEMMA LiveIsASuffix ==
    ASSUME NEW bucket \in Seq(Nat), NEW instant \in Nat
    PROVE  \E n \in 0..Len(bucket) :
              /\ Live(bucket, instant) \in Seq(Nat) /\ Len(Live(bucket, instant)) = Len(bucket) - n
              /\ \A i \in 1..(Len(bucket) - n) : Live(bucket, instant)[i] = bucket[n + i]
              /\ \A i \in 1..n : bucket[i] <= instant - Window
              /\ n < Len(bucket) => bucket[n + 1] > instant - Window
<1> DEFINE n == Dropped(bucket, instant - Window)
<1>1. /\ n \in 0..Len(bucket) /\ \A i \in 1..n : bucket[i] <= instant - Window
      /\ n < Len(bucket) => bucket[n + 1] > instant - Window
  <2>1. instant - Window \in Int BY LimiterAssumption
  <2> QED BY <2>1, DropsTheOld
<1>2. Live(bucket, instant) = SubSeq(bucket, n + 1, Len(bucket))
  BY DEF Live
<1> HIDE DEF n
<1>3. /\ SubSeq(bucket, n + 1, Len(bucket)) \in Seq(Nat) /\ Len(SubSeq(bucket, n + 1, Len(bucket))) = Len(bucket) - n
      /\ \A i \in 1..(Len(bucket) - n) : SubSeq(bucket, n + 1, Len(bucket))[i] = bucket[n + i]
  BY <1>1
<1> QED BY <1>1, <1>2, <1>3

\* A bucket holds the last of the requests let in, and what left it had left the window.
Suffix(c) ==
    LET before == Len(admitted[c]) - Len(hits[c])
    IN  /\ before >= 0 /\ Len(hits[c]) <= MaxRequests
        /\ \A i \in 1..Len(hits[c]) : hits[c][i] = admitted[c][before + i]
        /\ \A i \in 1..before : admitted[c][i] + Window <= ticks

\* Who was refused had as many requests in the window as are allowed, and
\* was told when the first of them leaves it.
RightlyRefused(r) ==
    /\ r.at \in Nat /\ r.bucket \in Seq(Nat) /\ Len(r.bucket) = MaxRequests
    /\ r.bucket[1] <= r.at /\ r.bucket[1] + Window > r.at
    /\ r.wait = RetryAfter(r.bucket, r.at)

\* Buckets hold the ends of what was let in, in order, and refusals were right.
LimiterInv ==
    /\ LimiterTypeOK /\ WindowsHold
    /\ \A c \in Clients : Suffix(c)
    /\ \A c \in Clients : \A i \in 1..Len(admitted[c]) : admitted[c][i] <= ticks
    /\ DOMAIN refusal = Clients
    /\ \A c \in Clients : refusal[c] # NoRefusal => RightlyRefused(refusal[c])

\* Division rounds down.
LEMMA Division ==
    ASSUME NEW x \in Nat, NEW s \in Nat \ {0}
    PROVE  /\ (x \div s) \in Nat /\ (x \div s) * s \in Int
           /\ (x \div s) * s <= x /\ x < (x \div s) * s + s
  OBVIOUS

\* Waiting as long as one is told is enough, also after rounding up to seconds.
LEMMA RefusedIsRight == ASSUME NEW r, RightlyRefused(r) PROVE RetryIsRight(r)
<1> DEFINE x == r.bucket[1] + Window - r.at
           until == r.at + r.wait * Second
<1>1. r.at \in Nat /\ r.bucket \in Seq(Nat) /\ r.bucket[1] \in Nat /\ Len(r.bucket) = MaxRequests
  BY LimiterAssumption DEF RightlyRefused
<1>2. x \in Nat /\ Second \in Nat \ {0} /\ Window \in Nat
  BY <1>1, LimiterAssumption DEF RightlyRefused
<1>3. /\ (x \div Second) \in Nat /\ (x \div Second) * Second \in Int
      /\ (x \div Second) * Second <= x /\ x < (x \div Second) * Second + Second
  BY <1>2, Division
<1>4. r.wait = (x \div Second) + 1
  BY <1>3, LimiterAssumption DEF RightlyRefused, RetryAfter
<1>5. r.wait * Second = (x \div Second) * Second + Second
  BY <1>2, <1>3, <1>4
<1>6. until \in Nat /\ r.bucket[1] <= until - Window /\ until <= r.bucket[1] + Window + Second
  <2>1. PICK whole : whole = (x \div Second) * Second OBVIOUS
  <2>2. until = r.at + (whole + Second) BY <1>5, <2>1
  <2> HIDE DEF x, until
  <2>3. x = r.bucket[1] + Window - r.at BY DEF x
  <2>4. whole \in Int /\ whole <= x /\ x < whole + Second BY <1>3, <2>1
  <2>5. PICK b, at : b = r.bucket[1] /\ at = r.at OBVIOUS
  <2>6. b \in Nat /\ at \in Nat /\ x = b + Window - at /\ until = at + (whole + Second) BY <1>1, <2>2, <2>3, <2>5
  <2>7. until \in Nat /\ b <= until - Window /\ until <= b + Window + Second BY <1>2, <2>4, <2>6
  <2> QED BY <2>5, <2>7
<1>7. Len(Live(r.bucket, until)) < MaxRequests
  <2> HIDE DEF until
  <2>1. PICK n \in 0..Len(r.bucket) :
           /\ Len(Live(r.bucket, until)) = Len(r.bucket) - n
           /\ n < Len(r.bucket) => r.bucket[n + 1] > until - Window
    BY <1>1, <1>6, LiveIsASuffix
  <2> QED BY <1>1, <1>2, <1>6, <2>1, LimiterAssumption
<1> QED BY <1>6, <1>7 DEF RetryIsRight

\* No requests yet.
LEMMA LimiterInitInv == LimiterInit => LimiterInv
  BY LimiterAssumption DEF LimiterInit, LimiterInv, LimiterTypeOK, WindowsHold, Suffix

\* What a check works on: the live part of the bucket of a key.
LEMMA LiveOfKey ==
    ASSUME LimiterInv, NEW c \in Clients, NEW live, live = Live(hits[c], ticks)
    PROVE  /\ live \in Seq(0..MaxTicks) /\ Len(live) <= MaxRequests /\ Len(live) <= Len(admitted[c])
           /\ \A i \in 1..Len(live) : live[i] = admitted[c][Len(admitted[c]) - Len(live) + i]
           /\ \A i \in 1..(Len(admitted[c]) - Len(live)) : admitted[c][i] + Window <= ticks
           /\ \A i \in 1..Len(live) : live[i] <= ticks
           /\ Len(live) > 0 => live[1] + Window > ticks
<1> DEFINE M == Len(hits[c])
           N == Len(admitted[c])
           K == Len(live)
           old(i) == hits[c][i]
           all(i) == admitted[c][i]
           lve(i) == live[i]
<1>1. /\ N \in Nat /\ M \in Nat /\ M <= N /\ M <= MaxRequests /\ MaxRequests \in Nat
      /\ ticks \in Nat /\ MaxTicks \in Nat /\ Window \in Nat
      /\ \A i \in 1..N : all(i) \in 0..MaxTicks /\ all(i) <= ticks
      /\ \A i \in 1..M : old(i) \in 0..MaxTicks /\ old(i) = all(N - M + i)
      /\ \A i \in 1..(N - M) : all(i) + Window <= ticks
  <2>1. hits[c] \in Seq(0..MaxTicks) /\ admitted[c] \in Seq(0..MaxTicks) /\ ticks \in 0..MaxTicks
    BY DEF LimiterInv, LimiterTypeOK
  <2>2. Suffix(c) /\ \A i \in 1..Len(admitted[c]) : admitted[c][i] <= ticks BY DEF LimiterInv
  <2>3. N \in Nat /\ M \in Nat /\ MaxRequests \in Nat /\ MaxTicks \in Nat /\ Window \in Nat
    BY <2>1, LimiterAssumption
  <2>4. /\ \A i \in 1..N : all(i) \in 0..MaxTicks
        /\ \A i \in 1..M : old(i) \in 0..MaxTicks
    BY <2>1, ElementOfSeq
  <2>5. /\ N - M >= 0 /\ M <= MaxRequests /\ \A i \in 1..M : old(i) = all(N - M + i)
        /\ \A i \in 1..(N - M) : all(i) + Window <= ticks
    BY <2>2 DEF Suffix
  <2>6. ticks \in 0..MaxTicks /\ \A i \in 1..N : all(i) <= ticks BY <2>1, <2>2
  <2> HIDE DEF M, N, old, all
  <2> QED BY <2>3, <2>4, <2>5, <2>6
<1>2. hits[c] \in Seq(Nat) BY <1>1 DEF LimiterInv, LimiterTypeOK
<1>3. PICK n \in 0..M :
          /\ live \in Seq(Nat) /\ K = M - n
          /\ \A i \in 1..(M - n) : lve(i) = old(n + i)
          /\ \A i \in 1..n : old(i) <= ticks - Window
          /\ n < M => old(n + 1) > ticks - Window
  BY <1>1, <1>2, LiveIsASuffix
<1> HIDE DEF M, N, K, old, all, lve
<1>4. K \in Nat /\ n \in Nat /\ K <= N /\ K <= MaxRequests BY <1>1, <1>3
<1>5. ASSUME NEW i \in 1..K PROVE lve(i) \in 0..MaxTicks /\ lve(i) = all(N - K + i) /\ lve(i) <= ticks
  <2>1. n + i \in 1..M /\ N - M + (n + i) = N - K + i /\ N - K + i \in 1..N
    BY <1>1, <1>3, <1>4
  <2>2. lve(i) = old(n + i) BY <1>3, <1>5
  <2>3. old(n + i) = all(N - M + (n + i)) /\ old(n + i) \in 0..MaxTicks BY <1>1, <2>1
  <2>4. all(N - K + i) <= ticks BY <1>1, <2>1
  <2> QED BY <2>1, <2>2, <2>3, <2>4
<1>6. ASSUME NEW i \in 1..(N - K) PROVE all(i) + Window <= ticks
  <2>1. CASE i <= N - M
    BY <1>1, <1>4, <2>1
  <2>2. CASE i > N - M
    <3>1. PICK j : j = i - (N - M) OBVIOUS
    <3>2. j \in 1..n /\ j \in 1..M /\ N - M + j = i BY <1>1, <1>3, <1>4, <2>2, <3>1
    <3>3. old(j) = all(i) /\ old(j) <= ticks - Window /\ old(j) \in 0..MaxTicks BY <1>1, <1>3, <3>2
    <3> QED BY <1>1, <3>3
  <2> QED BY <1>1, <1>4, <2>1, <2>2
<1>7. K > 0 => lve(1) + Window > ticks
  <2>1. K > 0 => n < M /\ lve(1) = old(n + 1) /\ n + 1 \in 1..M BY <1>1, <1>3, <1>4
  <2>2. K > 0 => old(n + 1) \in 0..MaxTicks BY <1>1, <2>1
  <2> QED BY <1>1, <1>3, <2>1, <2>2
<1>8. live \in Seq(0..MaxTicks)
  <2>1. \A i \in 1..Len(live) : live[i] \in 0..MaxTicks BY <1>5 DEF K, lve
  <2> QED BY <1>3, <2>1, SeqOfElements
<1> QED BY <1>4, <1>5, <1>6, <1>7, <1>8 DEF M, N, K, old, all, lve

\* Time passes, a request is let in, or refused (rate_limit.py check).
LEMMA LimiterNextInv == LimiterInv /\ [LimiterNext]_limiterVars => LimiterInv'
<1> SUFFICES ASSUME LimiterInv, [LimiterNext]_limiterVars PROVE LimiterInv'
  OBVIOUS
<1>t. LimiterTypeOK BY DEF LimiterInv
<1>1. CASE UNCHANGED limiterVars
  BY <1>1 DEF limiterVars, LimiterInv, LimiterTypeOK, WindowsHold, Suffix
<1>2. CASE LimiterTick
  <2>1. ticks' = ticks + 1 /\ ticks' \in 0..MaxTicks /\ ticks \in Nat /\ UNCHANGED <<hits, admitted, refusal>>
    BY <1>2, <1>t, LimiterAssumption DEF LimiterTick, LimiterTypeOK
  <2>2. LimiterTypeOK' /\ WindowsHold' BY <2>1 DEF LimiterInv, LimiterTypeOK, WindowsHold
  <2>3. \A c \in Clients : \A i \in 1..Len(admitted[c]) : admitted[c][i] \in Nat
    <3>1. ASSUME NEW c \in Clients, NEW i \in 1..Len(admitted[c]) PROVE admitted[c][i] \in Nat
      <4>1. admitted[c] \in Seq(0..MaxTicks) BY <1>t DEF LimiterTypeOK
      <4>2. admitted[c][i] \in 0..MaxTicks BY <4>1, ElementOfSeq
      <4> QED BY <4>2, LimiterAssumption
    <3> QED BY <3>1
  <2>4. \A c \in Clients : Suffix(c)'
    BY <2>1, <2>3, <1>t, LimiterAssumption, SMTT(30) DEF LimiterInv, LimiterTypeOK, Suffix
  <2>5. \A c \in Clients : \A i \in 1..Len(admitted[c]) : admitted[c][i] <= ticks + 1
    BY <2>1, <2>3 DEF LimiterInv
  <2> QED BY <2>1, <2>2, <2>4, <2>5 DEF LimiterInv
<1>3. ASSUME NEW c \in Clients, Admit(c) PROVE LimiterInv'
  <2>1. PICK live : live = Live(hits[c], ticks) OBVIOUS
  <2>2. /\ live \in Seq(0..MaxTicks) /\ Len(live) <= Len(admitted[c])
        /\ \A i \in 1..Len(live) : live[i] = admitted[c][Len(admitted[c]) - Len(live) + i]
        /\ \A i \in 1..(Len(admitted[c]) - Len(live)) : admitted[c][i] + Window <= ticks
    BY <2>1, LiveOfKey
  <2>3. /\ Len(live) < MaxRequests /\ hits' = [hits EXCEPT ![c] = Append(live, ticks)]
        /\ admitted' = [admitted EXCEPT ![c] = Append(@, ticks)] /\ UNCHANGED <<refusal, ticks>>
    BY <1>3, <2>1 DEF Admit
  <2>4. PICK all : all = admitted[c] OBVIOUS
  <2>5. all \in Seq(0..MaxTicks) /\ ticks \in 0..MaxTicks /\ ticks \in Nat BY <1>t, <2>4, LimiterAssumption DEF LimiterTypeOK
  <2>6. /\ hits'[c] = Append(live, ticks) /\ admitted'[c] = Append(all, ticks)
        /\ \A e \in Clients : e # c => hits'[e] = hits[e] /\ admitted'[e] = admitted[e]
    BY <2>3, <2>4, <1>t DEF LimiterTypeOK
  <2>7. LimiterTypeOK'
    <3>1. Append(live, ticks) \in Seq(0..MaxTicks) /\ Append(all, ticks) \in Seq(0..MaxTicks) BY <2>2, <2>5
    <3> QED BY <2>3, <2>4, <3>1, <1>t DEF LimiterTypeOK
  <2>8. \A i \in 1..Len(Append(all, ticks)) : Append(all, ticks)[i] <= ticks
    BY <2>4, <2>5 DEF LimiterInv
  <2>9. Suffix(c)'
    <3>1. Len(Append(live, ticks)) = Len(live) + 1 /\ Len(Append(all, ticks)) = Len(all) + 1
      BY <2>2, <2>5
    <3>2. \A i \in 1..(Len(live) + 1) : Append(live, ticks)[i] = Append(all, ticks)[Len(all) - Len(live) + i]
      <4>1. ASSUME NEW i \in 1..Len(live) PROVE Append(live, ticks)[i] = Append(all, ticks)[Len(all) - Len(live) + i]
        BY <2>2, <2>4, <2>5
      <4>2. Append(live, ticks)[Len(live) + 1] = ticks /\ Append(all, ticks)[Len(all) + 1] = ticks BY <2>2, <2>5
      <4>3. Len(all) \in Nat /\ Len(live) \in Nat BY <2>2, <2>5
      <4>4. Len(all) - Len(live) + (Len(live) + 1) = Len(all) + 1 BY <4>3
      <4>5. ASSUME NEW i \in 1..(Len(live) + 1) PROVE i \in 1..Len(live) \/ i = Len(live) + 1 BY <4>3
      <4> QED BY <4>1, <4>2, <4>4, <4>5
    <3>3. \A i \in 1..(Len(all) - Len(live)) : Append(all, ticks)[i] + Window <= ticks
      BY <2>2, <2>4, <2>5
    <3>4. Len(all) + 1 - (Len(live) + 1) = Len(all) - Len(live) BY <2>2, <2>5
    <3>5. Len(all) \in Nat /\ Len(live) \in Nat /\ MaxRequests \in Nat /\ Len(live) <= Len(all)
      BY <2>2, <2>4, <2>5, LimiterAssumption
    <3>6. PICK h, a : h = Append(live, ticks) /\ a = Append(all, ticks) OBVIOUS
    <3>7. /\ Len(h) = Len(live) + 1 /\ Len(a) = Len(all) + 1 /\ Len(a) - Len(h) = Len(all) - Len(live)
          /\ \A i \in 1..Len(h) : h[i] = a[Len(a) - Len(h) + i]
          /\ \A i \in 1..(Len(a) - Len(h)) : a[i] + Window <= ticks
          /\ Len(a) - Len(h) >= 0 /\ Len(h) <= MaxRequests
      <4>1. /\ Len(h) = Len(live) + 1 /\ Len(a) = Len(all) + 1
            /\ \A i \in 1..(Len(live) + 1) : h[i] = a[Len(all) - Len(live) + i]
            /\ \A i \in 1..(Len(all) - Len(live)) : a[i] + Window <= ticks
        BY <3>1, <3>2, <3>3, <3>6
      <4>2. Len(a) - Len(h) = Len(all) - Len(live) BY <3>5, <4>1
      <4>3. Len(h) <= MaxRequests /\ Len(a) - Len(h) >= 0 BY <2>3, <3>5, <4>1, <4>2
      <4>4. 1..Len(h) = 1..(Len(live) + 1) /\ 1..(Len(a) - Len(h)) = 1..(Len(all) - Len(live)) BY <4>1, <4>2
      <4>5. \A i \in 1..Len(h) : h[i] = a[Len(a) - Len(h) + i] BY <4>1, <4>2, <4>4
      <4>6. \A i \in 1..(Len(a) - Len(h)) : a[i] + Window <= ticks BY <4>1, <4>4
      <4> QED BY <4>1, <4>2, <4>3, <4>5, <4>6
    <3>8. hits'[c] = h /\ admitted'[c] = a /\ ticks' = ticks BY <2>3, <2>6, <3>6
    <3> QED BY <3>7, <3>8 DEF Suffix
  <2>10. WindowsHold'
    <3>1. ASSUME NEW i \in 1..(Len(all) + 1), NEW j \in 1..(Len(all) + 1), j = i + MaxRequests
          PROVE  Append(all, ticks)[j] - Append(all, ticks)[i] >= Window
      <4>1. MaxRequests \in Nat \ {0} /\ Window \in Nat BY LimiterAssumption
      <4>2. i \in 1..Len(all) /\ Append(all, ticks)[i] = all[i] BY <2>5, <3>1, <4>1
      <4>3. CASE j <= Len(all)
        <5>1. j \in 1..Len(all) /\ Append(all, ticks)[j] = all[j] BY <2>5, <4>3
        <5>2. all[j] - all[i] >= Window
          BY <2>4, <2>5, <3>1, <4>2, <5>1 DEF LimiterInv, WindowsHold
        <5> QED BY <4>2, <5>1, <5>2
      <4>4. CASE j = Len(all) + 1
        <5>1. Append(all, ticks)[j] = ticks BY <2>5, <4>4
        <5>2. Len(all) \in Nat /\ Len(live) \in Nat /\ all[i] \in 0..MaxTicks
          <6>1. Len(all) \in Nat /\ Len(live) \in Nat BY <2>2, <2>5
          <6>2. all[i] \in 0..MaxTicks BY <2>5, <4>2, ElementOfSeq
          <6> QED BY <6>1, <6>2
        <5>3. i \in 1..(Len(all) - Len(live)) BY <2>3, <3>1, <4>1, <4>2, <4>4, <5>2
        <5>4. all[i] + Window <= ticks BY <2>2, <2>4, <5>3
        <5> QED BY <2>5, <4>1, <4>2, <5>1, <5>2, <5>4, LimiterAssumption
      <4> QED BY <2>5, <4>3, <4>4
    <3>2. DOMAIN Append(all, ticks) = 1..(Len(all) + 1) BY <2>5
    <3> QED BY <2>6, <3>1, <3>2 DEF LimiterInv, WindowsHold
  <2>11. ASSUME NEW e \in Clients PROVE Suffix(e)'
    <3>1. CASE e # c
      <4>1. hits'[e] = hits[e] /\ admitted'[e] = admitted[e] /\ ticks' = ticks BY <2>3, <2>6, <3>1
      <4>2. Suffix(e) BY DEF LimiterInv
      <4> QED BY <4>1, <4>2 DEF Suffix
    <3> QED BY <2>9, <3>1
  <2> QED BY <2>3, <2>6, <2>7, <2>8, <2>10, <2>11 DEF LimiterInv
<1>4. ASSUME NEW c \in Clients, Refuse(c) PROVE LimiterInv'
  <2>1. PICK live : live = Live(hits[c], ticks) OBVIOUS
  <2>2. /\ live \in Seq(0..MaxTicks) /\ Len(live) <= MaxRequests /\ Len(live) <= Len(admitted[c])
        /\ \A i \in 1..Len(live) : live[i] = admitted[c][Len(admitted[c]) - Len(live) + i]
        /\ \A i \in 1..(Len(admitted[c]) - Len(live)) : admitted[c][i] + Window <= ticks
        /\ \A i \in 1..Len(live) : live[i] <= ticks
        /\ Len(live) > 0 => live[1] + Window > ticks
    BY <2>1, LiveOfKey
  <2>3. /\ Len(live) >= MaxRequests /\ hits' = [hits EXCEPT ![c] = live]
        /\ refusal' = [refusal EXCEPT ![c] = [at |-> ticks, bucket |-> live, wait |-> RetryAfter(live, ticks)]]
        /\ UNCHANGED <<admitted, ticks>>
    BY <1>4, <2>1 DEF Refuse
  <2>4. /\ hits'[c] = live /\ refusal'[c] = [at |-> ticks, bucket |-> live, wait |-> RetryAfter(live, ticks)]
        /\ \A e \in Clients : e # c => hits'[e] = hits[e] /\ refusal'[e] = refusal[e]
    BY <2>3, <1>t DEF LimiterInv, LimiterTypeOK
  <2>5. LimiterTypeOK' /\ WindowsHold' BY <2>2, <2>3, <1>t DEF LimiterInv, LimiterTypeOK, WindowsHold
  <2>6. \A e \in Clients : Suffix(e)'
    <3>1. Len(admitted[c]) \in Nat /\ Len(live) \in Nat BY <2>2, <1>t DEF LimiterTypeOK
    <3>2. admitted' = admitted /\ ticks' = ticks /\ hits'[c] = live BY <2>3, <2>4
    <3>3. Len(admitted[c]) - Len(live) >= 0 BY <2>2, <3>1
    <3>4. Suffix(c)' BY <2>2, <3>2, <3>3 DEF Suffix
    <3>5. ASSUME NEW e \in Clients, e # c PROVE Suffix(e)'
      <4>1. hits'[e] = hits[e] /\ admitted' = admitted /\ ticks' = ticks BY <2>3, <2>4, <3>5
      <4>2. Suffix(e) BY DEF LimiterInv
      <4> QED BY <4>1, <4>2 DEF Suffix
    <3> QED BY <3>4, <3>5
  <2>7. RightlyRefused(refusal'[c])
    <3>1. PICK r : r = refusal'[c] OBVIOUS
    <3>2. r.at = ticks /\ r.bucket = live /\ r.wait = RetryAfter(live, ticks) BY <2>4, <3>1
    <3>3. ticks \in Nat /\ MaxRequests \in Nat \ {0} /\ Len(live) \in Nat BY <2>2, <1>t, LimiterAssumption DEF LimiterTypeOK
    <3>4. Len(live) = MaxRequests /\ 1 \in 1..Len(live) /\ Len(live) > 0 BY <2>2, <2>3, <3>3
    <3>5. live \in Seq(Nat) BY <2>2, LimiterAssumption
    <3>6. live[1] <= ticks /\ live[1] + Window > ticks BY <2>2, <3>4
    <3>7. RightlyRefused(r) BY <3>2, <3>3, <3>4, <3>5, <3>6 DEF RightlyRefused
    <3> QED BY <3>1, <3>7
  <2> QED BY <2>3, <2>4, <2>5, <2>6, <2>7 DEF LimiterInv
<1> QED BY <1>1, <1>2, <1>3, <1>4 DEF LimiterNext, LimitedRequest

\* For any clients, limits and windows: no window of time admits more than
\* the limit, wherever it begins, and a Retry-After that was told is enough.
THEOREM LimiterSound == LimiterSpec => [](LimiterTypeOK /\ LimitHolds)
<1>1. LimiterInv => LimiterTypeOK /\ LimitHolds
  BY RefusedIsRight DEF LimiterInv, LimitHolds
<1> QED BY <1>1, LimiterInitInv, LimiterNextInv, PTL DEF LimiterSpec

-----------------------------------------------------------------------------
(* SearchRouter *)

\* The quality of a result has small bounds (search_router.py).
LEMMA QualityIsBounded ==
    ASSUME NEW r
    PROVE  Quality(r) \in -2..15 /\ Quality(r) \in Int
  BY DEF Quality

\* Among results left there is one that none of the others comes before.
LEMMA SomeIsBest ==
    ASSUME NEW found \in Seq(SearchResults), NEW left \in SUBSET DOMAIN found, left # {}
    PROVE  \E i \in left : \A j \in left :
             ~(\/ Quality(found[j]) > Quality(found[i])
               \/ /\ Quality(found[j]) = Quality(found[i])
                  /\ \/ found[j].rank < found[i].rank
                     \/ found[j].rank = found[i].rank /\ j < i)
<1>1. \A i \in left : found[i].rank \in Nat /\ i \in Nat /\ Quality(found[i]) \in -2..15
  <2>1. \A i \in left : found[i] \in SearchResults /\ i \in Nat BY ElementOfSeq
  <2>2. \A i \in left : Quality(found[i]) \in -2..15 BY QualityIsBounded
  <2> QED BY <2>1, <2>2 DEF SearchResults
<1> DEFINE worth == {15 - Quality(found[i]) : i \in left}
<1>2. PICK q \in worth : \A x \in worth : q <= x
  <2>0. \A x \in -2..15 : 15 - x \in Nat OBVIOUS
  <2>1. \A i \in left : 15 - Quality(found[i]) \in Nat BY <1>1, <2>0
  <2>2. worth \subseteq Nat /\ worth # {} BY <2>1
  <2> HIDE DEF worth
  <2> QED BY <2>2, Smallest
<1> DEFINE good == {i \in left : 15 - Quality(found[i]) = q}
           ranks == {found[i].rank : i \in good}
<1>3. PICK r \in ranks : \A x \in ranks : r <= x
  <2>1. ranks \subseteq Nat /\ ranks # {} BY <1>1, <1>2
  <2> QED BY <2>1, Smallest
<1> DEFINE firsts == {i \in good : found[i].rank = r}
<1>4. PICK i \in firsts : \A x \in firsts : i <= x
  <2>1. firsts \subseteq Nat /\ firsts # {} BY <1>1, <1>3
  <2> QED BY <2>1, Smallest
<1>5. i \in left /\ 15 - Quality(found[i]) = q /\ found[i].rank = r BY <1>4
<1>6. ASSUME NEW j \in left
      PROVE  ~(\/ Quality(found[j]) > Quality(found[i])
               \/ /\ Quality(found[j]) = Quality(found[i])
                  /\ \/ found[j].rank < found[i].rank
                     \/ found[j].rank = found[i].rank /\ j < i)
  <2>0. PICK a \in Int : a = Quality(found[j]) BY QualityIsBounded
  <2>1. PICK b \in Int : b = Quality(found[i]) /\ a = Quality(found[j]) BY <2>0, QualityIsBounded
  <2>2. ~(a > b)
    <3>1. q <= 15 - a BY <1>2, <2>1
    <3> QED BY <3>1, <2>1, <1>5
  <2>3. ASSUME a = b PROVE ~(found[j].rank < found[i].rank)
    <3>1. j \in good BY <2>1, <2>3, <1>5
    <3>2. r <= found[j].rank BY <3>1, <1>3
    <3> QED BY <3>2, <1>1, <1>5
  <2>4. ASSUME a = b, found[j].rank = found[i].rank PROVE ~(j < i)
    <3>1. j \in firsts BY <2>1, <2>4, <1>5
    <3>2. i <= j BY <3>1, <1>4
    <3> QED BY <3>2, <1>1, <1>5
  <2> QED BY <2>1, <2>2, <2>3, <2>4
<1> QED BY <1>5, <1>6

\* What is ranked so far: indices of usable results, the better ones first,
\* and none that is left is better.
RankedSoFar(found, most, s) ==
    /\ s \in Seq(DOMAIN found) /\ Len(s) <= most
    /\ \A i \in 1..Len(s) : ~found[s[i]].low
    /\ \A i, j \in 1..Len(s) : i < j => Quality(found[s[i]]) >= Quality(found[s[j]])
    /\ \A i \in 1..Len(s) : \A x \in DOMAIN found : (~found[x].low /\ x \notin Range(s)) =>
         Quality(found[s[i]]) >= Quality(found[x])

\* What a ranking shows is of what was found, in order, the best first.
LEMMA RankedIsPresentable ==
    ASSUME NEW found \in Seq(SearchResults), NEW most \in Nat
    PROVE  /\ RankSearchResponse(found, most) \in Seq(SearchResults)
           /\ Presentable(RankSearchResponse(found, most), most)
<1> DEFINE N == Len(found)
           D == {s \in Seq(DOMAIN found) : RankedSoFar(found, most, s)}
           Before(i, j) == \/ Quality(found[i]) > Quality(found[j])
                           \/ /\ Quality(found[i]) = Quality(found[j])
                              /\ \/ found[i].rank < found[j].rank
                                 \/ found[i].rank = found[j].rank /\ i < j
           Left(s) == {i \in DOMAIN found : ~found[i].low} \ Range(s)
           Best(left) == CHOOSE i \in left : \A j \in left : ~Before(j, i)
           Step(s) == IF Left(s) = {} \/ Len(s) >= most THEN s ELSE Append(s, Best(Left(s)))
           G == [p \in (1..N) \X D |-> Step(p[2])]
           F == CHOOSE g : g = [n \in 0..N |->
                    IF n = 0 THEN <<>>
                    ELSE IF Left(g[n - 1]) = {} \/ Len(g[n - 1]) >= most THEN g[n - 1]
                    ELSE Append(g[n - 1], Best(Left(g[n - 1])))]
           kept == F[N]
<1>0. RankSearchResponse(found, most) = [i \in DOMAIN kept |-> [found[kept[i]] EXCEPT !.rank = i]]
  BY DEF RankSearchResponse
<1>1. N \in Nat OBVIOUS
<1>2. <<>> \in D
  <2>1. <<>> \in Seq(DOMAIN found) /\ Len(<<>>) = 0 OBVIOUS
  <2> QED BY <2>1 DEF RankedSoFar
<1>3. ASSUME NEW s \in D PROVE Step(s) \in D
  <2>1. CASE Left(s) = {} \/ Len(s) >= most BY <2>1
  <2>2. CASE ~(Left(s) = {} \/ Len(s) >= most)
    <3> DEFINE b == Best(Left(s))
    <3>1. b \in Left(s) /\ \A j \in Left(s) : ~(Quality(found[j]) > Quality(found[b]))
      <4>1. \E i \in Left(s) : \A j \in Left(s) : ~Before(j, i)
        <5>1. Left(s) \in SUBSET DOMAIN found /\ Left(s) # {} BY <2>2
        <5> HIDE DEF Left
        <5> QED BY <5>1, SomeIsBest
      <4>2. b \in Left(s) /\ \A j \in Left(s) : ~Before(j, b)
        <5> HIDE DEF Left, Before
        <5> QED BY <4>1
      <4> HIDE DEF b, Left
      <4> QED BY <4>2
    <3>2. b \in DOMAIN found /\ ~found[b].low /\ b \notin Range(s) BY <3>1
    <3>3. \A x \in DOMAIN found : Quality(found[x]) \in Int
      <4> SUFFICES ASSUME NEW x \in DOMAIN found PROVE Quality(found[x]) \in Int
        OBVIOUS
      <4> QED BY QualityIsBounded
    <3>4. \A x \in DOMAIN found : (~found[x].low /\ x \notin Range(s)) => Quality(found[b]) >= Quality(found[x])
      <4>1. \A x \in DOMAIN found : (~found[x].low /\ x \notin Range(s)) => x \in Left(s) OBVIOUS
      <4> HIDE DEF b, Left
      <4> QED BY <3>1, <3>2, <3>3, <4>1
    <3> HIDE DEF b
    <3> DEFINE t == Append(s, b)
    <3>5. /\ t \in Seq(DOMAIN found) /\ Len(s) \in Nat /\ Len(t) = Len(s) + 1 /\ t[Len(s) + 1] = b
          /\ \A i \in 1..Len(s) : t[i] = s[i] /\ s[i] \in DOMAIN found
      BY <3>2, Appended
    <3>6. RankedSoFar(found, most, s) OBVIOUS
    <3>7. PICK L \in Nat : L = Len(s) BY <3>5
    <3>8. \A x : x \in Range(s) => x \in Range(t)
      <4>1. DOMAIN s = 1..L /\ DOMAIN t = 1..(L + 1)
        <5> HIDE DEF t
        <5> QED BY <3>5, <3>7
      <4>2. \A i \in 1..L : i \in 1..(L + 1) /\ t[i] = s[i] BY <3>5, <3>7
      <4> HIDE DEF t
      <4> QED BY <4>1, <4>2 DEF Range
    <3>9. Len(t) <= most BY <2>2, <3>5
    <3> HIDE DEF t
    <3>10. \A i \in 1..Len(t) : ~found[t[i]].low /\ t[i] \in DOMAIN found
      <4>1. \A i \in 1..(L + 1) : i = L + 1 \/ i \in 1..L OBVIOUS
      <4> QED BY <3>2, <3>5, <3>6, <3>7, <4>1 DEF RankedSoFar
    <3>11. \A i, j \in 1..Len(t) : i < j => Quality(found[t[i]]) >= Quality(found[t[j]])
      <4> SUFFICES ASSUME NEW i \in 1..(L + 1), NEW j \in 1..(L + 1), i < j
                   PROVE  Quality(found[t[i]]) >= Quality(found[t[j]])
        BY <3>5, <3>7
      <4>1. i \in 1..L /\ t[i] = s[i]
        <5>1. i \in 1..L BY <3>7
        <5> QED BY <3>5, <3>7, <5>1
      <4>2. CASE j = L + 1
        <5>1. t[j] = b BY <3>5, <3>7, <4>2
        <5> QED BY <3>2, <3>6, <3>7, <4>1, <5>1 DEF RankedSoFar
      <4>3. CASE j \in 1..L
        <5>1. t[j] = s[j] BY <3>5, <3>7, <4>3
        <5> QED BY <3>6, <3>7, <4>1, <4>3, <5>1 DEF RankedSoFar
      <4>4. j = L + 1 \/ j \in 1..L
        <5>1. \A k \in 1..(L + 1) : k = L + 1 \/ k \in 1..L BY ONLY <3>7
        <5> QED BY <5>1
      <4> QED BY <4>2, <4>3, <4>4
    <3>12. ASSUME NEW i \in 1..(L + 1), NEW x \in DOMAIN found, ~found[x].low, x \notin Range(t)
           PROVE  Quality(found[t[i]]) >= Quality(found[x])
      <4>1. x \notin Range(s) BY <3>8, <3>12
      <4>2. CASE i = L + 1
        <5>1. t[i] = b BY <3>5, <3>7, <4>2
        <5> QED BY <3>4, <3>12, <4>1, <5>1
      <4>3. CASE i \in 1..L
        <5>1. t[i] = s[i] BY <3>5, <3>7, <4>3
        <5> QED BY <3>6, <3>7, <3>12, <4>1, <4>3, <5>1 DEF RankedSoFar
      <4> QED BY <4>2, <4>3
    <3>13. t \in D BY <3>5, <3>7, <3>9, <3>10, <3>11, <3>12 DEF RankedSoFar
    <3>14. Step(s) = t
      <4> HIDE DEF Left, Best
      <4> QED BY <2>2 DEF t, b
    <3> QED BY <3>13, <3>14
  <2> QED BY <2>1, <2>2
<1> HIDE DEF N, D
<1>4. G \in [(1..N) \X D -> D]
  <2> HIDE DEF Step
  <2> QED BY <1>3
<1>5. PICK g \in [0..N -> D] : /\ g[0] = <<>>
                               /\ \A i \in 1..N : i - 1 \in 0..N /\ g[i - 1] \in D /\ g[i] = G[<<i, g[i - 1]>>]
  <2> HIDE DEF G
  <2>1. \E g : IsRun(g, N, D, <<>>, G) BY <1>1, <1>2, <1>4, Recursion
  <2> QED BY <2>1 DEF IsRun
<1>6. \A i \in 1..N : g[i] = Step(g[i - 1])
  <2> HIDE DEF Step
  <2> QED BY <1>5
<1>7. g = [n \in 0..N |-> IF n = 0 THEN <<>> ELSE Step(g[n - 1])]
  <2> HIDE DEF Step
  <2> QED BY <1>1, <1>5, <1>6
<1>8. F = [n \in 0..N |-> IF n = 0 THEN <<>> ELSE Step(F[n - 1])]
  <2> HIDE DEF Left, Best
  <2> QED BY <1>7
<1> HIDE DEF F, Step
<1>9. F[0] \in D /\ \A i \in 1..N : F[i - 1] \in D => F[i] \in D
  BY <1>1, <1>2, <1>3, <1>8
<1>10. F[N] \in D BY <1>1, <1>9, RunStays
<1>11. PICK s \in Seq(DOMAIN found) : s = kept /\ RankedSoFar(found, most, s) BY <1>10 DEF D
<1> HIDE DEF kept
<1> DEFINE ranked == [i \in 1..Len(s) |-> [found[s[i]] EXCEPT !.rank = i]]
<1>12. RankSearchResponse(found, most) = ranked BY <1>0, <1>11
<1>13. Len(s) \in Nat /\ \A i \in 1..Len(s) : s[i] \in DOMAIN found /\ found[s[i]] \in SearchResults
  <2>1. \A i \in 1..Len(s) : s[i] \in DOMAIN found BY ElementOfSeq
  <2> QED BY <2>1, ElementOfSeq
<1>14. \A i \in 1..Len(s) : /\ [found[s[i]] EXCEPT !.rank = i] \in SearchResults
                            /\ [found[s[i]] EXCEPT !.rank = i].rank = i
                            /\ [found[s[i]] EXCEPT !.rank = i].low = found[s[i]].low
                            /\ Quality([found[s[i]] EXCEPT !.rank = i]) = Quality(found[s[i]])
  <2> SUFFICES ASSUME NEW r \in SearchResults, NEW i \in Nat
               PROVE  LET new == [r EXCEPT !.rank = i]
                      IN  new \in SearchResults /\ new.rank = i /\ new.low = r.low /\ Quality(new) = Quality(r)
    BY <1>13
  <2> DEFINE new == [r EXCEPT !.rank = i]
  <2>1. /\ new \in SearchResults /\ new.rank = i /\ new.low = r.low
        /\ new.preferred = r.preferred /\ new.snippet = r.snippet /\ new.title = r.title
    BY DEF SearchResults
  <2> HIDE DEF new
  <2>2. Quality(new) = Quality(r) BY <2>1 DEF Quality
  <2> QED BY <2>1, <2>2 DEF new
<1>15. ranked \in Seq(SearchResults) /\ Len(ranked) = Len(s) /\ DOMAIN ranked = 1..Len(s)
  <2>1. ranked \in [1..Len(s) -> SearchResults] BY <1>14
  <2>2. ranked \in Seq(SearchResults)
    <3> HIDE DEF ranked
    <3> QED BY <2>1, <1>13, SeqOfFunction
  <2>3. Len(ranked) = Len(s) BY <1>13
  <2> QED BY <2>2, <2>3
<1>16. Presentable(ranked, most)
  <2>1. \A i \in DOMAIN ranked : ranked[i].rank = i /\ ~ranked[i].low
    BY <1>11, <1>14, <1>15 DEF RankedSoFar
  <2>2. \A i, j \in DOMAIN ranked : i < j => Quality(ranked[i]) >= Quality(ranked[j])
    BY <1>11, <1>14, <1>15 DEF RankedSoFar
  <2> QED BY <2>1, <2>2, <1>11, <1>15 DEF Presentable, RankedSoFar
<1> QED BY <1>12, <1>15, <1>16

\* What is chosen to be fetched is a URL of the results, and each once.
LEMMA UrlsAreFetchable ==
    ASSUME NEW results \in Seq(SearchResults)
    PROVE  Fetched(FetchSearchResults(results))
<1> DEFINE N == Len(results)
           Urls == DOMAIN Pages
           D == {s \in Seq(Urls) : /\ Len(s) <= MaxPages
                                   /\ \A i, j \in 1..Len(s) : s[i] = s[j] => i = j
                                   /\ \A i \in 1..Len(s) : ~Blacklisted(s[i])}
           Passed(s, url) == url \in Range(s) \/ Blacklisted(url) \/ Len(s) >= MaxPages
           Step(i, s) == IF Passed(s, results[i].url) THEN s ELSE Append(s, results[i].url)
           G == [p \in (1..N) \X D |-> Step(p[1], p[2])]
           F == CHOOSE g : g = [n \in 0..N |->
                    IF n = 0 THEN <<>>
                    ELSE IF Passed(g[n - 1], results[n].url) THEN g[n - 1]
                    ELSE Append(g[n - 1], results[n].url)]
<1>0. UrlsToFetch(results) = F[N] BY DEF UrlsToFetch
<1>1. N \in Nat OBVIOUS
<1>2. <<>> \in D
  <2>1. <<>> \in Seq(Urls) /\ Len(<<>>) = 0 OBVIOUS
  <2> QED BY <2>1, SearchAssumption
<1>3. ASSUME NEW i \in 1..N, NEW s \in D PROVE Step(i, s) \in D
  <2>1. CASE Passed(s, results[i].url) BY <2>1
  <2>2. CASE ~Passed(s, results[i].url)
    <3>1. results[i] \in SearchResults BY ElementOfSeq
    <3>2. PICK url \in Urls : url = results[i].url BY <3>1 DEF SearchResults
    <3>3. url \notin Range(s) /\ ~Blacklisted(url) /\ Len(s) < MaxPages BY <2>2, <3>2, SearchAssumption
    <3>4. PICK t : t = Append(s, url) OBVIOUS
    <3>5. /\ t \in Seq(Urls) /\ Len(s) \in Nat /\ Len(t) = Len(s) + 1 /\ t[Len(s) + 1] = url
          /\ \A k \in 1..Len(s) : t[k] = s[k] /\ s[k] \in Urls
      BY <3>4, Appended
    <3>6. PICK L \in Nat : L = Len(s) BY <3>5
    <3>7. \A k \in 1..L : s[k] # url BY <3>3, <3>6 DEF Range
    <3>8. \A k \in 1..(L + 1) : k = L + 1 \/ k \in 1..L OBVIOUS
    <3>9. L + 1 <= MaxPages BY <3>3, <3>6, SearchAssumption
    <3>10. /\ \A k, l \in 1..L : s[k] = s[l] => k = l
           /\ \A k \in 1..L : ~Blacklisted(s[k])
      BY <3>6
    <3>11. \A k, l \in 1..(L + 1) : t[k] = t[l] => k = l BY <3>5, <3>6, <3>7, <3>8, <3>10
    <3>12. \A k \in 1..(L + 1) : ~Blacklisted(t[k]) BY <3>3, <3>5, <3>6, <3>8, <3>10
    <3>13. t \in D BY <3>5, <3>6, <3>9, <3>11, <3>12
    <3>14. Step(i, s) = t
      <4> HIDE DEF Passed
      <4> QED BY <2>2, <3>2, <3>4
    <3> QED BY <3>13, <3>14
  <2> QED BY <2>1, <2>2
<1> HIDE DEF N, D, Urls
<1>4. G \in [(1..N) \X D -> D]
  <2> HIDE DEF Step
  <2> QED BY <1>3
<1>5. PICK g \in [0..N -> D] : /\ g[0] = <<>>
                               /\ \A i \in 1..N : i - 1 \in 0..N /\ g[i - 1] \in D /\ g[i] = G[<<i, g[i - 1]>>]
  <2> HIDE DEF G
  <2>1. \E g : IsRun(g, N, D, <<>>, G) BY <1>1, <1>2, <1>4, Recursion
  <2> QED BY <2>1 DEF IsRun
<1>6. \A i \in 1..N : g[i] = Step(i, g[i - 1])
  <2> HIDE DEF Step
  <2> QED BY <1>5
<1>7. g = [n \in 0..N |-> IF n = 0 THEN <<>> ELSE Step(n, g[n - 1])]
  <2> HIDE DEF Step
  <2> QED BY <1>1, <1>5, <1>6
<1>8. F = [n \in 0..N |-> IF n = 0 THEN <<>> ELSE Step(n, F[n - 1])]
  <2> HIDE DEF Passed
  <2> QED BY <1>7
<1> HIDE DEF F, Step
<1>9. F[0] \in D /\ \A i \in 1..N : F[i - 1] \in D => F[i] \in D
  BY <1>1, <1>2, <1>3, <1>8
<1>10. F[N] \in D BY <1>1, <1>9, RunStays
<1>11. PICK s \in D : s = UrlsToFetch(results) BY <1>0, <1>10
<1> DEFINE pages == [i \in DOMAIN s |-> [url |-> s[i], outcome |-> WebFetch(Pages[s[i]])]]
<1>12. FetchSearchResults(results) = pages BY <1>11 DEF FetchSearchResults
<1>13. s \in Seq(Urls) /\ Len(s) \in Nat /\ DOMAIN s = 1..Len(s) BY DEF D
<1>14. Len(pages) = Len(s) /\ DOMAIN pages = 1..Len(s) /\ \A i \in 1..Len(s) : pages[i].url = s[i]
  <2> HIDE DEF D
  <2> QED BY <1>13
<1> HIDE DEF pages
<1> QED BY <1>12, <1>13, <1>14 DEF Fetched, D

\* Who may answer, what a cache stores, and what a request carries.
SearchVendors == {Providers[i] : i \in 1..Len(Providers)} \cup {"none"}
CacheRows == [results : Seq(SearchResults), request : Requests, by : SearchVendors, at : Nat]
SearchResponses == [results : Seq(SearchResults), by : SearchVendors, age : Int, row : SUBSET CacheRows]
FetchedLists == {<<>>} \cup {FetchSearchResults(results) : results \in Seq(SearchResults)}
SearchStates ==
    [stage : {"idle", "lookup", "prune", "ask", "done", "fetched"}, request : Requests \cup {"none"},
     at : 1..(Len(Providers) + 1), last : SearchResponses, response : SearchResponses, usable : BOOLEAN, pages : FetchedLists]

\* A row is stored under the key of its own request and provider.
CacheGood(c) == \A k \in DOMAIN c : c[k] \in CacheRows /\ k = <<c[k].by, c[k].request>>

\* A request that has an answer has one of its own, from who it says.
SearcherGood(x) ==
    /\ x.stage # "idle" => x.request \in Requests
    /\ x.stage \in {"lookup", "prune"} => x.at <= Len(Providers)
    /\ x.last.row = {}
    /\ x.stage \in {"done", "fetched"} =>
         /\ Presentable(x.response.results, x.request.most)
         /\ FromCacheFor(x.response, x.request)

\* The cache is right, and so is what every request holds.
SearchInv ==
    /\ searchClock \in 0..MaxSearchTime /\ searches \in 0..SearchBound
    /\ CacheGood(cached)
    /\ searcher \in [Searchers -> SearchStates]
    /\ \A s \in Searchers : SearcherGood(searcher[s])

\* The invariant gives the type and the property.
LEMMA SearchInvImplies == SearchInv => SearchTypeOK /\ SearchesAreSound
<1> SUFFICES ASSUME SearchInv PROVE SearchTypeOK /\ SearchesAreSound
  OBVIOUS
<1>1. SearchTypeOK BY DEF SearchInv, SearchTypeOK, SearchStates
<1>2. ASSUME NEW s \in Searchers PROVE Fetched(searcher[s].pages)
  <2>1. searcher[s].pages \in FetchedLists BY DEF SearchInv, SearchStates
  <2>2. Fetched(<<>>)
    <3>1. Len(<<>>) = 0 /\ DOMAIN <<>> = {} OBVIOUS
    <3> QED BY <3>1, SearchAssumption DEF Fetched
  <2> QED BY <2>1, <2>2, UrlsAreFetchable DEF FetchedLists
<1>3. SearchesAreSound BY <1>2 DEF SearchesAreSound, SearchInv, SearcherGood
<1> QED BY <1>1, <1>3

\* A step of one request leaves the others alone.
LEMMA StepOfSearch ==
    ASSUME SearchInv, NEW s \in Searchers, NEW x \in SearchStates, SearcherGood(x), SearchGoes(s, x),
           CacheGood(cached'), searchClock' = searchClock, searches' \in 0..SearchBound
    PROVE  SearchInv'
<1>1. searcher' \in [Searchers -> SearchStates] /\ \A q \in Searchers : searcher'[q] \in {x, searcher[q]}
  BY DEF SearchGoes, SearchInv
<1>2. \A q \in Searchers : SearcherGood(searcher'[q])
  BY <1>1 DEF SearchInv
<1> QED BY <1>1, <1>2 DEF SearchInv

\* A cache that loses rows, or gains a right one, stays right.
LEMMA CacheKept ==
    ASSUME CacheGood(cached), NEW row \in CacheRows
    PROVE  CacheGood(CacheWith(<<row.by, row.request>>, row))
  BY DEF CacheGood, CacheWith

\* A request that begins or ends holds nothing.
LEMMA NothingHeld ==
    /\ NoResponse \in SearchResponses /\ IdleSearcher \in SearchStates /\ SearcherGood(IdleSearcher)
    /\ IdleSearcher.stage = "idle" /\ IdleSearcher.at = 1 /\ IdleSearcher.last = NoResponse
    /\ NoResponse.row = {} /\ NoResponse.age = 0 /\ IdleSearcher.response = NoResponse
<1>1. <<>> \in Seq(SearchResults) OBVIOUS
<1>2. NoResponse \in SearchResponses BY <1>1 DEF NoResponse, SearchResponses, SearchVendors
<1>3. /\ IdleSearcher.stage = "idle" /\ IdleSearcher.at = 1 /\ IdleSearcher.last = NoResponse
      /\ NoResponse.row = {} /\ NoResponse.age = 0 /\ IdleSearcher.response = NoResponse
  BY DEF IdleSearcher, NoResponse
<1>4. IdleSearcher \in SearchStates
  BY <1>2, SearchAssumption DEF IdleSearcher, SearchStates, FetchedLists
<1> QED BY <1>2, <1>3, <1>4 DEF SearcherGood

\* One action per step of a search (search_router.py, search_cache.py).
LEMMA SearchStep ==
    ASSUME SearchInv, [SearchNext]_searchVars
    PROVE  SearchInv'
<1>1. CASE UNCHANGED searchVars
  <2>1. cached' = cached /\ searcher' = searcher /\ searchClock' = searchClock /\ searches' = searches
    BY <1>1 DEF searchVars
  <2> QED BY <2>1 DEF SearchInv
<1>2. CASE SearchTick
  <2>1. cached' = cached /\ searcher' = searcher /\ searchClock' \in 0..MaxSearchTime /\ searches' = searches
    BY <1>2, SearchAssumption DEF SearchTick, SearchInv
  <2> QED BY <2>1 DEF SearchInv
<1> SUFFICES ASSUME NEW s \in Searchers,
                    \/ BeginSearch(s) \/ Lookup(s) \/ Prune(s) \/ ProviderFails(s) \/ ProviderAnswers(s)
                    \/ GiveUp(s) \/ FetchPages(s) \/ EndSearch(s)
             PROVE  SearchInv'
  BY <1>1, <1>2 DEF SearchNext
<1> DEFINE x == searcher[s]
<1>3. x \in SearchStates /\ SearcherGood(x) /\ CacheGood(cached) BY DEF SearchInv
<1>4. searchClock \in Nat /\ searches \in 0..SearchBound /\ Len(Providers) \in Nat \ {0} /\ Ttl \in Nat
  BY SearchAssumption DEF SearchInv
<1>5. ASSUME x.stage \in {"lookup", "prune"}
      PROVE  LookedUp(s) \in SearchStates /\ SearcherGood(LookedUp(s))
  <2>1. x.at \in 1..Len(Providers) /\ x.request \in Requests BY <1>3, <1>4, <1>5 DEF SearcherGood, SearchStates
  <2>2. CASE x.at < Len(Providers)
    <3> DEFINE new == [x EXCEPT !.stage = "lookup", !.at = x.at + 1]
    <3>1. LookedUp(s) = new BY <2>2 DEF LookedUp
    <3>2. new \in SearchStates /\ new.stage = "lookup" /\ new.at = x.at + 1 /\ new.request = x.request /\ new.last = x.last
      <4>1. x.at + 1 \in 1..(Len(Providers) + 1) BY <1>4, <2>1, <2>2
      <4> QED BY <1>3, <4>1 DEF SearchStates
    <3> HIDE DEF new
    <3>3. SearcherGood(new) BY <1>3, <1>4, <2>1, <2>2, <3>2 DEF SearcherGood
    <3> QED BY <3>1, <3>2, <3>3
  <2>3. CASE ~(x.at < Len(Providers))
    <3> DEFINE new == [x EXCEPT !.stage = "ask", !.at = 1]
    <3>1. LookedUp(s) = new BY <2>3 DEF LookedUp
    <3>2. new \in SearchStates /\ new.stage = "ask" /\ new.request = x.request /\ new.last = x.last
      <4>1. 1 \in 1..(Len(Providers) + 1) BY <1>4
      <4> QED BY <1>3, <4>1 DEF SearchStates
    <3> HIDE DEF new
    <3>3. SearcherGood(new) BY <1>3, <2>1, <3>2 DEF SearcherGood
    <3> QED BY <3>1, <3>2, <3>3
  <2> QED BY <2>2, <2>3
<1>6. CASE BeginSearch(s)
  <2>1. PICK request \in Requests :
          SearchGoes(s, [IdleSearcher EXCEPT !.stage = "lookup", !.request = request])
    BY <1>6 DEF BeginSearch
  <2>2. searches' \in 0..SearchBound /\ cached' = cached /\ searchClock' = searchClock
    <3>1. searches < SearchBound /\ searches' = searches + 1 /\ cached' = cached /\ searchClock' = searchClock
      BY <1>6 DEF BeginSearch
    <3> QED BY <1>4, <3>1, SearchAssumption
  <2> DEFINE new == [IdleSearcher EXCEPT !.stage = "lookup", !.request = request]
  <2>3. new \in SearchStates /\ new.stage = "lookup" /\ new.at = 1 /\ new.request = request /\ new.last = NoResponse
    BY NothingHeld DEF SearchStates
  <2> HIDE DEF new
  <2>4. SearcherGood(new) BY <1>4, <2>3, NothingHeld DEF SearcherGood
  <2> QED BY <1>3, <2>1, <2>2, <2>3, <2>4, StepOfSearch DEF new
<1>7. CASE Lookup(s)
  <2>1. x.stage = "lookup" /\ cached' = cached /\ searchClock' = searchClock /\ searches' = searches
    BY <1>7 DEF Lookup
  <2>2. x.at \in 1..Len(Providers) /\ x.request \in Requests /\ Providers[x.at] \in SearchVendors
    BY <1>3, <1>4, <2>1 DEF SearcherGood, SearchStates, SearchVendors
  <2>3. CASE KeyOf(s) \notin DOMAIN cached
    <3>1. SearchGoes(s, LookedUp(s)) BY <1>7, <2>3 DEF Lookup
    <3> QED BY <1>3, <1>4, <1>5, <2>1, <3>1, StepOfSearch
  <2>4. CASE KeyOf(s) \in DOMAIN cached
    <3>1. PICK row \in CacheRows : row = cached[KeyOf(s)] /\ KeyOf(s) = <<row.by, row.request>>
      BY <1>3, <2>4 DEF CacheGood
    <3>2. row.by = Providers[x.at] /\ row.request = x.request
      BY <3>1 DEF KeyOf, MakeKey
    <3>3. CASE Expired(row)
      <4> DEFINE new == [x EXCEPT !.stage = "prune"]
      <4>1. SearchGoes(s, new) BY <1>7, <2>4, <3>1, <3>3 DEF Lookup
      <4>2. new \in SearchStates /\ new.stage = "prune" /\ new.at = x.at /\ new.request = x.request /\ new.last = x.last
        BY <1>3 DEF SearchStates
      <4> HIDE DEF new
      <4>3. SearcherGood(new) BY <1>3, <2>2, <4>2 DEF SearcherGood
      <4> QED BY <1>3, <1>4, <2>1, <4>1, <4>2, <4>3, StepOfSearch
    <3>4. CASE ~Expired(row)
      <4> DEFINE ranked == RankSearchResponse(row.results, x.request.most)
                 response == [results |-> ranked, by |-> Providers[x.at], age |-> searchClock - row.at, row |-> {row}]
                 new == [x EXCEPT !.stage = "done", !.response = response]
      <4>1. SearchGoes(s, new) BY <1>7, <2>4, <3>1, <3>4 DEF Lookup, Respond
      <4>2. ranked \in Seq(SearchResults) /\ Presentable(ranked, x.request.most)
        <5>1. row.results \in Seq(SearchResults) /\ x.request.most \in Nat
          BY <2>2, SearchAssumption DEF CacheRows
        <5> QED BY <5>1, RankedIsPresentable
      <4> HIDE DEF ranked
      <4>3. row.at \in Nat BY DEF CacheRows
      <4>4. response \in SearchResponses /\ response.age <= Ttl /\ response.row = {row} /\ response.by = row.by /\ response.results = ranked
        BY <1>4, <2>2, <3>2, <3>4, <4>2, <4>3 DEF SearchResponses, Expired
      <4> HIDE DEF response
      <4>5. /\ new \in SearchStates /\ new.stage = "done" /\ new.request = x.request /\ new.last = x.last
            /\ new.response = response
        BY <1>3, <4>4 DEF SearchStates
      <4> HIDE DEF new
      <4>6. SearcherGood(new) BY <1>3, <2>2, <3>2, <4>2, <4>4, <4>5 DEF SearcherGood, FromCacheFor
      <4> QED BY <1>3, <1>4, <2>1, <4>1, <4>5, <4>6, StepOfSearch
    <3> QED BY <3>3, <3>4
  <2> QED BY <2>3, <2>4
<1>8. CASE Prune(s)
  <2>1. /\ x.stage = "prune" /\ cached' = [k \in DOMAIN cached \ {KeyOf(s)} |-> cached[k]]
        /\ searchClock' = searchClock /\ searches' = searches /\ SearchGoes(s, LookedUp(s))
    BY <1>8 DEF Prune
  <2>2. CacheGood(cached') BY <1>3, <2>1 DEF CacheGood
  <2> QED BY <1>4, <1>5, <2>1, <2>2, StepOfSearch
<1>asked. ASSUME x.stage = "ask", x.at <= Len(Providers)
          PROVE  /\ Asked(s) \in SearchStates /\ Asked(s).stage = "ask"
                 /\ Asked(s).request = x.request /\ Asked(s).last = x.last
  <2>1. x.at + 1 \in 1..(Len(Providers) + 1) BY <1>3, <1>4, <1>asked, SearchAssumption DEF SearchStates
  <2> QED BY <1>3, <1>asked, <2>1 DEF Asked, SearchStates
<1>9. CASE ProviderFails(s)
  <2>1. /\ x.stage = "ask" /\ x.at <= Len(Providers) /\ SearchGoes(s, Asked(s))
        /\ cached' = cached /\ searchClock' = searchClock /\ searches' = searches
    BY <1>9 DEF ProviderFails
  <2>2. Asked(s) \in SearchStates /\ Asked(s).stage = "ask" /\ Asked(s).request = x.request /\ Asked(s).last = x.last
    BY <2>1, <1>asked
  <2>3. SearcherGood(Asked(s)) BY <1>3, <2>1, <2>2 DEF SearcherGood
  <2> QED BY <1>3, <1>4, <2>1, <2>2, <2>3, StepOfSearch
<1>10. CASE ProviderAnswers(s)
  <2>1. x.stage = "ask" /\ x.at <= Len(Providers) /\ searchClock' = searchClock /\ searches' = searches
    BY <1>10 DEF ProviderAnswers
  <2>2. x.at \in 1..Len(Providers) /\ x.request \in Requests /\ Providers[x.at] \in SearchVendors
    BY <1>3, <1>4, <2>1 DEF SearcherGood, SearchStates, SearchVendors
  <2>3. PICK found \in FoundLists :
          LET ranked == RankSearchResponse(found, x.request.most)
              response == [NoResponse EXCEPT !.results = ranked, !.by = Providers[x.at]]
          IN  \/ /\ CacheStore(s, ranked)
                 /\ SearchGoes(s, [x EXCEPT !.stage = "done", !.response = response, !.usable = TRUE])
              \/ /\ SearchGoes(s, [Asked(s) EXCEPT !.last = [response EXCEPT !.results = found]])
                 /\ UNCHANGED cached
    <3> HIDE DEF SearchGoes, CacheStore
    <3> QED BY <1>10 DEF ProviderAnswers
  <2>4. PICK ranked \in Seq(SearchResults) :
          ranked = RankSearchResponse(found, x.request.most) /\ Presentable(ranked, x.request.most)
    <3>1. found \in Seq(SearchResults) /\ x.request.most \in Nat BY <2>2, SearchAssumption
    <3> QED BY <3>1, RankedIsPresentable
  <2> DEFINE response == [NoResponse EXCEPT !.results = ranked, !.by = Providers[x.at]]
             last == [response EXCEPT !.results = found]
  <2>5. response \in SearchResponses /\ response.row = {} /\ response.results = ranked
    BY <2>2, NothingHeld DEF SearchResponses
  <2>6. CASE CacheStore(s, ranked) /\ SearchGoes(s, [x EXCEPT !.stage = "done", !.response = response, !.usable = TRUE])
    <3> DEFINE new == [x EXCEPT !.stage = "done", !.response = response, !.usable = TRUE]
    <3>1. /\ new \in SearchStates /\ new.stage = "done" /\ new.request = x.request /\ new.last = x.last
          /\ new.response = response
      <4> HIDE DEF response
      <4> QED BY <1>3, <2>5 DEF SearchStates
    <3>2. CacheGood(cached')
      <4>1. Row(s, ranked) \in CacheRows /\ KeyOf(s) = <<Row(s, ranked).by, Row(s, ranked).request>>
        BY <1>4, <2>2 DEF Row, CacheRows, KeyOf, MakeKey
      <4>2. cached' = cached \/ cached' = CacheWith(KeyOf(s), Row(s, ranked)) BY <2>6 DEF CacheStore
      <4> HIDE DEF x
      <4> QED BY <1>3, <4>1, <4>2, CacheKept
    <3> HIDE DEF new, response
    <3>3. SearcherGood(new) BY <1>3, <2>2, <2>4, <2>5, <3>1 DEF SearcherGood, FromCacheFor
    <3> QED BY <1>4, <2>1, <2>6, <3>1, <3>2, <3>3, StepOfSearch DEF new
  <2>7. CASE SearchGoes(s, [Asked(s) EXCEPT !.last = last]) /\ UNCHANGED cached
    <3> DEFINE new == [Asked(s) EXCEPT !.last = last]
    <3>1. last \in SearchResponses /\ last.row = {}
      <4>1. found \in Seq(SearchResults) BY SearchAssumption
      <4> HIDE DEF response
      <4> QED BY <2>5, <4>1 DEF SearchResponses
    <3>2. Asked(s) \in SearchStates /\ Asked(s).stage = "ask" /\ Asked(s).request = x.request
      BY <2>1, <1>asked
    <3>3. new \in SearchStates /\ new.stage = "ask" /\ new.request = x.request /\ new.last = last
      <4> HIDE DEF last
      <4> QED BY <3>1, <3>2 DEF SearchStates
    <3> HIDE DEF new, last
    <3>4. SearcherGood(new) BY <2>2, <3>1, <3>3 DEF SearcherGood
    <3> QED BY <1>3, <1>4, <2>1, <2>7, <3>3, <3>4, StepOfSearch DEF new
  <2> QED BY <2>3, <2>4, <2>6, <2>7
<1>11. CASE GiveUp(s)
  <2> DEFINE last == x.last
             row == [results |-> <<>>, request |-> x.request, by |-> last.by, at |-> searchClock]
             ranked == RankSearchResponse(last.results, x.request.most)
             response == [last EXCEPT !.results = ranked]
             new == [x EXCEPT !.stage = "done", !.response = response]
  <2>1. /\ x.stage = "ask" /\ searchClock' = searchClock /\ searches' = searches
        /\ SearchGoes(s, new)
        /\ cached' = cached \/ cached' = CacheWith(MakeKey(last.by, x.request), row)
    BY <1>11 DEF GiveUp, Respond
  <2>2. x.request \in Requests /\ x.request.most \in Nat /\ last \in SearchResponses /\ last.row = {}
    BY <1>3, <2>1, SearchAssumption DEF SearcherGood, SearchStates
  <2>3. row \in CacheRows /\ MakeKey(last.by, x.request) = <<row.by, row.request>>
    BY <1>4, <2>2 DEF CacheRows, SearchResponses, MakeKey
  <2>4. CacheGood(cached')
    <3> HIDE DEF row, last
    <3> QED BY <1>3, <2>1, <2>3, CacheKept
  <2>5. ranked \in Seq(SearchResults) /\ Presentable(ranked, x.request.most)
    <3>1. last.results \in Seq(SearchResults) BY <2>2 DEF SearchResponses
    <3> QED BY <2>2, <3>1, RankedIsPresentable
  <2>6. response \in SearchResponses /\ response.row = {} /\ response.results = ranked
    <3> HIDE DEF ranked, last
    <3> QED BY <2>2, <2>5 DEF SearchResponses
  <2>7. /\ new \in SearchStates /\ new.stage = "done" /\ new.request = x.request /\ new.last = x.last
        /\ new.response = response
    <3> HIDE DEF response
    <3> QED BY <1>3, <2>6 DEF SearchStates
  <2> HIDE DEF new, response, ranked, row, last
  <2>8. SearcherGood(new) BY <1>3, <2>2, <2>5, <2>6, <2>7 DEF SearcherGood, FromCacheFor
  <2> QED BY <1>4, <2>1, <2>4, <2>7, <2>8, StepOfSearch
<1>12. CASE FetchPages(s)
  <2> DEFINE pages == FetchSearchResults(x.response.results)
             new == [x EXCEPT !.stage = "fetched", !.pages = pages]
  <2>1. /\ x.stage = "done" /\ SearchGoes(s, new)
        /\ cached' = cached /\ searchClock' = searchClock /\ searches' = searches
    BY <1>12 DEF FetchPages
  <2>2. pages \in FetchedLists BY <1>3 DEF SearchStates, SearchResponses, FetchedLists
  <2>3. /\ new \in SearchStates /\ new.stage = "fetched" /\ new.request = x.request /\ new.last = x.last
        /\ new.response = x.response
    <3> HIDE DEF pages
    <3> QED BY <1>3, <2>2 DEF SearchStates
  <2> HIDE DEF new
  <2>4. SearcherGood(new) BY <1>3, <2>1, <2>3 DEF SearcherGood
  <2> QED BY <1>3, <1>4, <2>1, <2>3, <2>4, StepOfSearch
<1>13. CASE EndSearch(s)
  <2>1. SearchGoes(s, IdleSearcher) /\ cached' = cached /\ searchClock' = searchClock /\ searches' = searches
    BY <1>13 DEF EndSearch
  <2> QED BY <1>3, <1>4, <2>1, NothingHeld, StepOfSearch
<1> QED BY <1>6, <1>7, <1>8, <1>9, <1>10, <1>11, <1>12, <1>13

\* For any requests, providers that fail or answer anything, and a cache that
\* is filled, pruned and read by several at once: an answer is for its own
\* request, from whom it names, and in order; what is fetched is from it.
THEOREM SearchSound == SearchSpec => [](SearchTypeOK /\ SearchesAreSound)
<1>1. SearchInit => SearchInv
  <2> SUFFICES ASSUME SearchInit PROVE SearchInv
    OBVIOUS
  <2>1. CacheGood(<<>>) BY DEF CacheGood
  <2> QED BY <2>1, NothingHeld, SearchAssumption DEF SearchInit, SearchInv
<1> QED BY <1>1, SearchStep, SearchInvImplies, PTL DEF SearchSpec

-----------------------------------------------------------------------------
(* CompanySources *)

\* What a resolver carries between its statements.
Resolutions == [at : {"idle", "sec", "persist", "truncate", "write"},
                ticker : Tickers, found : Identities, rows : [Tickers -> Identities]]

\* Rows that may be written to the file.
FromSec(rows) ==
    /\ rows \in [Tickers -> Identities]
    /\ \A t \in Tickers : rows[t] # Nobody => IsRight(t, rows[t]) /\ rows[t].source = "sec"

\* Rows of the file are right wherever a process stopped while it wrote them.
ResolverInv ==
    /\ tickerFile \in [state : {"absent", "whole", "torn"}, rows : [Tickers -> Identities]]
    /\ FromSec(tickerFile.rows)
    /\ known \in [Resolvers -> [Tickers -> Identities]]
    /\ \A r \in Resolvers : \A t \in Tickers : known[r][t] # Nobody => IsRight(t, known[r][t])
    /\ resolving \in [Resolvers -> Resolutions]
    /\ \A r \in Resolvers :
        /\ FromSec(resolving[r].rows)
        /\ resolving[r].at = "persist" =>
             IsRight(resolving[r].ticker, resolving[r].found) /\ resolving[r].found.source = "sec"

\* The last attempt of a request lies an interval before the next one may go.
Spaced(c) ==
    LET r == calling[c]
        s == sent[c]
    IN  /\ s \in Seq(Nat) /\ Len(s) <= 3
        /\ \A i \in 1..Len(s) : s[i] <= lastCall
        /\ \A i \in 2..Len(s) : s[i] - s[i - 1] >= Interval
        /\ r.at = "idle" => r.attempt < 3 /\ (r.attempt > 0 => Len(s) = r.attempt)
        /\ r.at = "sending" => r.attempt > 0 /\ Len(s) = r.attempt
        /\ r.at = "sleeping" =>
             r.attempt > 0 /\ Len(s) = r.attempt - 1 /\ (Len(s) > 0 => r.wake >= s[Len(s)] + Interval)

\* One request at a time may have an attempt that is not followed yet.
ClientInv ==
    /\ now \in 0..MaxTime /\ lastCall \in 0..MaxTime /\ lastCall <= now
    /\ calling \in [SecCallers -> [at : {"idle", "sleeping", "sending"}, attempt : 0..3, wake : Nat]]
    /\ DOMAIN sent = SecCallers
    /\ \A c \in SecCallers : Spaced(c)

\* The invariant of both parts.
SourcesInv == ResolverInv /\ ClientInv

\* What SEC lists for a ticker is its identity (company_resolver.py).
LEMMA CandidateIsRight ==
    ASSUME NEW t \in Tickers, Listed[t] # <<>>, NEW company, company.cik = Candidate(t)
    PROVE  IsRight(t, company) /\ Candidate(t) \in Ciks
<1>1. Listed[t] \in Seq(Ciks) BY SourcesAssumption
<1>2. 1 \in DOMAIN Listed[t] /\ Listed[t][1] \in Ciks BY <1>1
<1>3. t \in DOMAIN Anchors => Anchors[t] \in Ciks BY SourcesAssumption
<1> QED BY <1>2, <1>3 DEF IsRight, Candidate

\* An anchor is of its own ticker.
LEMMA AnchorIsRight ==
    ASSUME NEW t \in DOMAIN Anchors, NEW company, company.cik = Anchors[t]
    PROVE  IsRight(t, company) /\ Anchors[t] \in Ciks
  BY SourcesAssumption DEF IsRight

\* A resolver that is done holds nothing that is to be written.
LEMMA RestingIsRight ==
    /\ Resting \in Resolutions /\ Resting.at = "idle"
    /\ FromSec(Resting.rows) /\ FromSec(NoRows) /\ NoRows \in [Tickers -> Identities]
    /\ \A t \in Tickers : NoRows[t] = Nobody
<1>1. Nobody \in Identities BY DEF Nobody, Identities
<1>2. NoRows \in [Tickers -> Identities] /\ \A t \in Tickers : NoRows[t] = Nobody BY <1>1 DEF NoRows
<1>3. FromSec(NoRows) BY <1>2 DEF FromSec
<1>4. (CHOOSE t \in Tickers : TRUE) \in Tickers BY SourcesAssumption
<1>5. Resting \in Resolutions /\ Resting.at = "idle" /\ Resting.rows = NoRows BY <1>1, <1>2, <1>4 DEF Resting, Resolutions
<1> QED BY <1>2, <1>3, <1>5

\* Nothing is known and nothing was requested.
LEMMA SourcesInitInv == SourcesInit => SourcesInv
<1> SUFFICES ASSUME SourcesInit PROVE SourcesInv
  OBVIOUS
<1>1. ResolverInv BY RestingIsRight DEF SourcesInit, ResolverInv, FromSec
<1>2. ClientInv BY SourcesAssumption DEF SourcesInit, ClientInv, Spaced, NoRequest
<1> QED BY <1>1, <1>2 DEF SourcesInv

\* The steps of a resolver leave the client alone.
LEMMA ResolverMoves ==
    ASSUME ResolverInv, NEW r \in Resolvers, NEW new \in Resolutions, resolving' = [resolving EXCEPT ![r] = new],
           FromSec(new.rows), new.at = "persist" => IsRight(new.ticker, new.found) /\ new.found.source = "sec",
           tickerFile' = tickerFile, known' = known
    PROVE  ResolverInv'
  BY DEF ResolverInv, FromSec

\* The steps of a resolver, of which several share the file.
LEMMA ResolverStep == ResolverInv /\ ResolverNext => ResolverInv'
<1> SUFFICES ASSUME ResolverInv, NEW r \in Resolvers,
                    \/ \E ticker \in Tickers : ResolveTicker(r, ticker)
                    \/ SecAnswers(r) \/ FallBack(r)
                    \/ ReadTickerFile(r) \/ TruncateTickerFile(r) \/ WriteTickerFile(r) \/ PersistFails(r)
                    \/ ResolverRestarts(r)
             PROVE  ResolverInv'
  BY DEF ResolverNext
<1> USE DEF ResolverInv
<1>1. ASSUME NEW t \in Tickers, ResolveTicker(r, t) PROVE ResolverInv'
  <2>1. CASE OnDisk(t) # Nobody
    <3>1. PICK company : company = [OnDisk(t) EXCEPT !.source = "cache"] OBVIOUS
    <3>2. /\ known' = [known EXCEPT ![r][t] = company] /\ UNCHANGED <<resolving, tickerFile>>
      BY <1>1, <2>1, <3>1 DEF ResolveTicker, Remember
    <3>3. tickerFile.rows[t] # Nobody /\ OnDisk(t) \in Identities /\ OnDisk(t).cik = tickerFile.rows[t].cik
      <4>1. PICK row : row = tickerFile.rows[t] OBVIOUS
      <4>2. row \in Identities BY <4>1
      <4>3. row # Nobody /\ OnDisk(t) = [row EXCEPT !.predecessors = @ \/ t \in Predecessors]
        BY <2>1, <4>1 DEF OnDisk
      <4>4. (row.predecessors \/ t \in Predecessors) \in BOOLEAN OBVIOUS
      <4> QED BY <4>1, <4>2, <4>3, <4>4 DEF Identities
    <3>4. company \in Identities /\ company.cik = tickerFile.rows[t].cik BY <3>1, <3>3 DEF Identities
    <3>5. IsRight(t, company) BY <3>3, <3>4 DEF FromSec, IsRight
    <3> QED BY <3>2, <3>4, <3>5
  <2>2. CASE OnDisk(t) = Nobody
    <3>1. PICK new : new = [resolving[r] EXCEPT !.at = "sec", !.ticker = t] OBVIOUS
    <3>2. resolving' = [resolving EXCEPT ![r] = new] /\ UNCHANGED <<known, tickerFile>>
      BY <1>1, <2>2, <3>1 DEF ResolveTicker
    <3>3. new \in Resolutions /\ new.at = "sec" /\ new.rows = resolving[r].rows BY <3>1 DEF Resolutions
    <3>4. FromSec(new.rows) BY <3>3
    <3> HIDE DEF ResolverInv
    <3> QED BY <3>2, <3>3, <3>4, ResolverMoves
  <2> QED BY <2>1, <2>2
<1>2. CASE SecAnswers(r)
  <2>1. PICK t, company : t = resolving[r].ticker /\ company = [cik |-> Candidate(t), source |-> "sec", predecessors |-> t \in Predecessors]
    OBVIOUS
  <2>2. /\ t \in Tickers /\ Listed[t] # <<>> /\ known' = [known EXCEPT ![r][t] = company]
        /\ resolving' = [resolving EXCEPT ![r].at = "persist", ![r].found = company] /\ UNCHANGED tickerFile
    BY <1>2, <2>1 DEF SecAnswers, Remember, Resolutions
  <2>3. company \in Identities /\ IsRight(t, company) /\ company.source = "sec"
    BY <2>1, <2>2, CandidateIsRight DEF Identities
  <2>4. PICK new : new = [resolving[r] EXCEPT !.at = "persist", !.found = company] OBVIOUS
  <2>5. /\ new \in Resolutions /\ new.rows = resolving[r].rows /\ new.ticker = t /\ new.found = company
        /\ resolving' = [resolving EXCEPT ![r] = new]
    BY <2>1, <2>2, <2>3, <2>4 DEF Resolutions
  <2>6. known' \in [Resolvers -> [Tickers -> Identities]] BY <2>2, <2>3
  <2>7. \A q \in Resolvers : \A u \in Tickers : known'[q][u] # Nobody => IsRight(u, known'[q][u])
    BY <2>2, <2>3
  <2>8. resolving' \in [Resolvers -> Resolutions] /\ resolving'[r] = new
        /\ \A q \in Resolvers \ {r} : resolving'[q] = resolving[q]
    BY <2>5
  <2>9. \A q \in Resolvers : /\ FromSec(resolving'[q].rows)
           /\ resolving'[q].at = "persist" =>
                IsRight(resolving'[q].ticker, resolving'[q].found) /\ resolving'[q].found.source = "sec"
    BY <2>3, <2>5, <2>8
  <2> QED BY <2>2, <2>6, <2>7, <2>8, <2>9
<1>3. CASE FallBack(r)
  <2>1. PICK t : t = resolving[r].ticker OBVIOUS
  <2>2. t \in Tickers /\ resolving' = [resolving EXCEPT ![r] = Resting] /\ UNCHANGED tickerFile
    BY <1>3, <2>1 DEF FallBack, Resolutions
  <2>3. CASE t \in DOMAIN Anchors
    <3>1. PICK company : company = [cik |-> Anchors[t], source |-> "fallback", predecessors |-> FALSE] OBVIOUS
    <3>2. known' = [known EXCEPT ![r][t] = company] BY <1>3, <2>1, <2>3, <3>1 DEF FallBack, Remember
    <3>3. company \in Identities /\ IsRight(t, company) BY <2>3, <3>1, AnchorIsRight DEF Identities
    <3> QED BY <2>2, <3>2, <3>3, RestingIsRight
  <2>4. CASE t \notin DOMAIN Anchors
    BY <1>3, <2>1, <2>2, <2>4, RestingIsRight DEF FallBack
  <2> QED BY <2>3, <2>4
<1>4. CASE ReadTickerFile(r)
  <2>1. PICK rows : rows = IF tickerFile.state = "whole" THEN tickerFile.rows ELSE NoRows OBVIOUS
  <2>2. PICK new : new = [rows EXCEPT ![resolving[r].ticker] = resolving[r].found] OBVIOUS
  <2>3. /\ resolving[r].at = "persist" /\ UNCHANGED <<tickerFile, known>>
        /\ resolving' = [resolving EXCEPT ![r].at = "truncate", ![r].rows = new]
    BY <1>4, <2>1, <2>2 DEF ReadTickerFile
  <2>4. FromSec(rows) BY <2>1, RestingIsRight
  <2>5. FromSec(new) BY <2>2, <2>3, <2>4 DEF FromSec, Resolutions
  <2>6. PICK next : next = [resolving[r] EXCEPT !.at = "truncate", !.rows = new] OBVIOUS
  <2>7. next \in Resolutions /\ next.at = "truncate" /\ next.rows = new /\ resolving' = [resolving EXCEPT ![r] = next]
    BY <2>3, <2>5, <2>6 DEF FromSec, Resolutions
  <2> HIDE DEF ResolverInv
  <2> QED BY <2>3, <2>5, <2>7, ResolverMoves
<1>5. CASE TruncateTickerFile(r)
  <2>1. PICK next : next = [resolving[r] EXCEPT !.at = "write"] OBVIOUS
  <2>2. /\ next \in Resolutions /\ next.at = "write" /\ next.rows = resolving[r].rows
        /\ resolving' = [resolving EXCEPT ![r] = next]
        /\ known' = known /\ tickerFile' = [state |-> "torn", rows |-> NoRows]
    BY <1>5, <2>1 DEF TruncateTickerFile, Resolutions
  <2> QED BY <2>2, RestingIsRight DEF FromSec
<1>6. CASE WriteTickerFile(r)
  BY <1>6, RestingIsRight DEF WriteTickerFile, FromSec
<1>7. CASE PersistFails(r)
  BY <1>7, RestingIsRight DEF PersistFails
<1>8. CASE ResolverRestarts(r)
  BY <1>8, RestingIsRight DEF ResolverRestarts, FromSec
<1> QED BY <1>1, <1>2, <1>3, <1>4, <1>5, <1>6, <1>7, <1>8

\* The steps of the client's requests, which share the last call's time.
LEMMA ClientStep == ClientInv /\ ClientNext => ClientInv'
<1> SUFFICES ASSUME ClientInv, ClientNext PROVE ClientInv'
  OBVIOUS
<1> USE DEF ClientInv
<1>n. Interval \in Nat /\ MaxTime \in Nat /\ now \in Nat /\ lastCall \in Nat BY SourcesAssumption
<1>1. CASE PassTime
  BY <1>1, <1>n DEF PassTime, Spaced
<1>2. ASSUME NEW c \in SecCallers, WaitForSlot(c) PROVE ClientInv'
  <2>1. PICK r, wake : r = calling[c] /\ wake = IF now - lastCall < Interval THEN lastCall + Interval ELSE now OBVIOUS
  <2>2. /\ r.at = "idle" /\ r.attempt < 3 /\ UNCHANGED <<now, lastCall>>
        /\ calling' = [calling EXCEPT ![c] = [at |-> "sleeping", attempt |-> r.attempt + 1, wake |-> wake]]
        /\ sent' = IF r.attempt > 0 THEN sent ELSE [sent EXCEPT ![c] = <<>>]
    BY <1>2, <2>1 DEF WaitForSlot
  <2>3. wake \in Nat /\ wake >= lastCall + Interval /\ r.attempt \in Nat BY <1>n, <2>1
  <2>4. calling' \in [SecCallers -> [at : {"idle", "sleeping", "sending"}, attempt : 0..3, wake : Nat]]
    BY <2>2, <2>3
  <2>5. Spaced(c) BY DEF ClientInv
  <2>6. Spaced(c)'
    <3>1. CASE r.attempt > 0
      <4>1. PICK s : s = sent[c] OBVIOUS
      <4>2. s \in Seq(Nat) /\ Len(s) = r.attempt /\ Len(s) \in 1..Len(s) /\ s[Len(s)] <= lastCall /\ s[Len(s)] \in Nat
        BY <2>1, <2>2, <2>3, <2>5, <3>1, <4>1 DEF Spaced
      <4>3. wake >= s[Len(s)] + Interval BY <1>n, <2>3, <4>2
      <4>4. sent' = sent /\ calling'[c] = [at |-> "sleeping", attempt |-> r.attempt + 1, wake |-> wake] BY <2>2, <3>1
      <4>5. r.attempt + 1 > 0 /\ Len(s) = (r.attempt + 1) - 1 BY <2>3, <4>2
      <4> QED BY <2>2, <2>5, <4>1, <4>2, <4>3, <4>4, <4>5 DEF Spaced
    <3>2. CASE r.attempt = 0
      <4>1. sent'[c] = <<>> /\ calling'[c] = [at |-> "sleeping", attempt |-> 1, wake |-> wake] BY <2>2, <3>2
      <4> QED BY <4>1 DEF Spaced
    <3> QED BY <2>3, <3>1, <3>2
  <2>7. ASSUME NEW e \in SecCallers, e # c PROVE Spaced(e)'
    <3>1. Spaced(e) /\ calling'[e] = calling[e] /\ sent'[e] = sent[e] /\ lastCall' = lastCall BY <2>2, <2>7
    <3> QED BY <3>1 DEF Spaced
  <2> QED BY <2>2, <2>4, <2>6, <2>7
<1>3. ASSUME NEW c \in SecCallers, TakeSlot(c) PROVE ClientInv'
  <2>1. PICK r, s : r = calling[c] /\ s = sent[c] OBVIOUS
  <2>2. /\ r.at = "sleeping" /\ now >= r.wake /\ lastCall' = now /\ now' = now
        /\ calling' = [calling EXCEPT ![c].at = "sending"] /\ sent' = [sent EXCEPT ![c] = Append(s, now)]
    BY <1>3, <2>1 DEF TakeSlot
  <2>3. /\ s \in Seq(Nat) /\ r.attempt \in 1..3 /\ Len(s) = r.attempt - 1 /\ r.wake \in Nat
        /\ Len(s) > 0 => r.wake >= s[Len(s)] + Interval
        /\ \A i \in 1..Len(s) : s[i] <= lastCall
        /\ \A i \in 2..Len(s) : s[i] - s[i - 1] >= Interval
    BY <2>1, <2>2, SMTT(30) DEF Spaced
  <2>4. PICK L, t : L = Len(s) /\ t = Append(s, now) OBVIOUS
  <2>5. /\ t \in Seq(Nat) /\ Len(t) = L + 1 /\ t[L + 1] = now /\ L \in Nat
        /\ \A i \in 1..L : t[i] = s[i] /\ s[i] \in Nat
    <3>1. s \in Seq(Nat) /\ now \in Nat BY <1>n, <2>3
    <3>2. /\ Append(s, now) \in Seq(Nat) /\ Len(s) \in Nat /\ Len(Append(s, now)) = Len(s) + 1
          /\ Append(s, now)[Len(s) + 1] = now
          /\ \A i \in 1..Len(s) : Append(s, now)[i] = s[i] /\ s[i] \in Nat
      BY <3>1, Appended
    <3> QED BY <2>4, <3>2
  <2>6. \A i \in 1..(L + 1) : t[i] <= now
    <3>1. \A i \in 1..(L + 1) : i = L + 1 \/ i \in 1..L BY <2>5
    <3>2. \A i \in 1..L : t[i] <= now BY <1>n, <2>3, <2>4, <2>5
    <3> QED BY <1>n, <2>5, <3>1, <3>2
  <2>7. ASSUME NEW i \in 2..(L + 1) PROVE t[i] - t[i - 1] >= Interval
    <3>1. CASE i \in 2..L
      <4>1. i \in 1..L /\ i - 1 \in 1..L BY <2>5, <3>1
      <4> QED BY <2>3, <2>4, <2>5, <3>1, <4>1
    <3>2. CASE i = L + 1
      <4>1. L > 0 /\ L \in 1..L /\ i - 1 = L BY <2>5, <3>2
      <4>2. t[i - 1] = s[L] /\ s[L] \in Nat /\ t[i] = now BY <2>5, <3>2, <4>1
      <4>3. r.wake >= s[L] + Interval BY <2>3, <2>4, <4>1
      <4>4. now >= s[L] + Interval
        <5>1. PICK w, q : w = r.wake /\ q = s[L] OBVIOUS
        <5>2. w \in Nat /\ q \in Nat /\ w >= q + Interval /\ now >= w BY <2>2, <2>3, <4>2, <4>3, <5>1
        <5> QED BY <1>n, <5>1, <5>2
      <4> QED BY <1>n, <4>2, <4>4
    <3> QED BY <2>5, <3>1, <3>2
  <2>8. Spaced(c)'
    <3>1. calling'[c] = [r EXCEPT !.at = "sending"] /\ sent'[c] = t /\ lastCall' = now
      BY <2>1, <2>2, <2>4
    <3>2. Len(t) = r.attempt /\ Len(t) <= 3 /\ r.attempt > 0 BY <2>3, <2>4, <2>5
    <3>3. calling'[c].at = "sending" /\ calling'[c].attempt = r.attempt BY <2>1, <3>1
    <3> QED BY <2>5, <2>6, <2>7, <3>1, <3>2, <3>3 DEF Spaced
  <2>9. ASSUME NEW e \in SecCallers, e # c PROVE Spaced(e)'
    <3>1. Spaced(e) /\ calling'[e] = calling[e] /\ sent'[e] = sent[e] /\ lastCall' = now BY <2>2, <2>9
    <3>2. sent[e] \in Seq(Nat) /\ \A i \in 1..Len(sent[e]) : sent[e][i] <= lastCall BY <3>1 DEF Spaced
    <3>3. \A i \in 1..Len(sent[e]) : sent[e][i] <= now
      <4>1. \A i \in 1..Len(sent[e]) : sent[e][i] \in Nat BY <3>2, ElementOfSeq
      <4> QED BY <1>n, <3>2, <4>1
    <3> QED BY <3>1, <3>2, <3>3 DEF Spaced
  <2>10. calling' \in [SecCallers -> [at : {"idle", "sleeping", "sending"}, attempt : 0..3, wake : Nat]]
    BY <2>2
  <2> QED BY <1>n, <2>2, <2>8, <2>9, <2>10
<1>4. ASSUME NEW c \in SecCallers, Answered(c) \/ SecFails(c) PROVE ClientInv'
  <2>1. /\ calling[c].at = "sending" /\ UNCHANGED <<now, lastCall, sent>>
        /\ \/ calling' = [calling EXCEPT ![c] = NoRequest]
           \/ calling[c].attempt < 3 /\ calling' = [calling EXCEPT ![c].at = "idle"]
    BY <1>4 DEF Answered, SecFails
  <2>2. Spaced(c)'
    <3>1. Spaced(c) /\ sent' = sent /\ lastCall' = lastCall BY <2>1
    <3>2. \/ calling'[c] = NoRequest
          \/ calling[c].attempt < 3 /\ calling'[c] = [calling[c] EXCEPT !.at = "idle"]
      BY <2>1
    <3>3. CASE calling'[c] = NoRequest BY <3>1, <3>3 DEF Spaced, NoRequest
    <3>4. CASE calling[c].attempt < 3 /\ calling'[c] = [calling[c] EXCEPT !.at = "idle"]
      <4>1. calling'[c].at = "idle" /\ calling'[c].attempt = calling[c].attempt BY <3>4
      <4> QED BY <2>1, <3>1, <3>4, <4>1 DEF Spaced
    <3> QED BY <3>2, <3>3, <3>4
  <2>3. ASSUME NEW e \in SecCallers, e # c PROVE Spaced(e)'
    <3>1. Spaced(e) /\ calling'[e] = calling[e] /\ sent'[e] = sent[e] /\ lastCall' = lastCall BY <2>1, <2>3
    <3> QED BY <3>1 DEF Spaced
  <2> QED BY <2>1, <2>2, <2>3 DEF NoRequest
<1> QED BY <1>1, <1>2, <1>3, <1>4 DEF ClientNext

\* For any tickers, processes and callers: an identity that is handed on is
\* the ticker's own, and attempts at SEC keep their interval
\* (company_resolver.py, sec_client.py).
THEOREM SourcesSound == SourcesSpec => [](SourcesTypeOK /\ SourcesHold)
<1>1. SourcesInv /\ [SourcesNext]_sourceVars => SourcesInv'
  <2> SUFFICES ASSUME SourcesInv, [SourcesNext]_sourceVars PROVE SourcesInv'
    OBVIOUS
  <2>1. CASE UNCHANGED sourceVars
    BY <2>1 DEF sourceVars, SourcesInv, ResolverInv, FromSec, ClientInv, Spaced
  <2>2. CASE ResolverNext
    <3>1. UNCHANGED <<now, lastCall, calling, sent>>
      BY <2>2 DEF ResolverNext, ResolveTicker, SecAnswers, FallBack, ReadTickerFile, TruncateTickerFile,
         WriteTickerFile, PersistFails, ResolverRestarts
    <3>2. ClientInv' BY <3>1 DEF SourcesInv, ClientInv, Spaced
    <3> QED BY <2>2, <3>2, ResolverStep DEF SourcesInv
  <2>3. CASE ClientNext
    <3>1. UNCHANGED <<tickerFile, known, resolving>>
      BY <2>3 DEF ClientNext, PassTime, WaitForSlot, TakeSlot, Answered, SecFails
    <3>2. ResolverInv' BY <3>1 DEF SourcesInv, ResolverInv, FromSec
    <3> QED BY <2>3, <3>2, ClientStep DEF SourcesInv
  <2> QED BY <2>1, <2>2, <2>3 DEF SourcesNext
<1>2. SourcesInv => SourcesTypeOK /\ SourcesHold
  <2>1. ResolverInv => IdentityIsAnchored BY DEF ResolverInv, FromSec, IdentityIsAnchored
  <2>2. ClientInv => RequestsAreSpaced BY DEF ClientInv, Spaced, RequestsAreSpaced
  <2>3. ResolverInv /\ ClientInv => SourcesTypeOK
    BY DEF ResolverInv, ClientInv, SourcesTypeOK, Identities, Resolutions
  <2> QED BY <2>1, <2>2, <2>3 DEF SourcesInv, SourcesHold
<1> QED BY <1>1, <1>2, SourcesInitInv, PTL DEF SourcesSpec

-----------------------------------------------------------------------------
(* FilingReading *)

\* The larger of two numbers.
LEMMA MaxOfTwo ==
    ASSUME NEW a \in Int, NEW b \in Int
    PROVE  Max({a, b}) \in {a, b} /\ Max({a, b}) >= a /\ Max({a, b}) >= b
<1>1. \E x \in {a, b} : \A y \in {a, b} : x >= y OBVIOUS
<1> QED BY <1>1 DEF Max

\* Whatever the rows, the loop takes only wanted ones and stops at the limit.
LEMMA TakesWanted ==
    ASSUME NEW A, NEW rows \in Seq(A), NEW wanted, NEW limit \in Int
    PROVE  TakeFilings(rows, wanted, limit) \in Seq(wanted) /\ Len(TakeFilings(rows, wanted, limit)) <= Max({limit, 1})
<1> DEFINE N == Len(rows)
           M == Max({limit, 1})
           D == {s \in Seq(wanted) : Len(s) <= M}
           Step(i, s) == IF rows[i] \in wanted /\ Len(s) < M THEN Append(s, rows[i]) ELSE s
           G == [p \in (1..N) \X D |-> Step(p[1], p[2])]
           F == CHOOSE g : g = [n \in 0..N |-> IF n = 0 THEN <<>> ELSE Step(n, g[n - 1])]
<1>1. N \in Nat /\ M \in Int /\ M >= 1
  BY MaxOfTwo
<1>0. TakeFilings(rows, wanted, limit) = F[N]
  BY DEF TakeFilings
<1> HIDE DEF N, M
<1>2. <<>> \in D BY <1>1
<1>3. ASSUME NEW i, NEW s \in D PROVE Step(i, s) \in D
  BY <1>1, Appended
<1>4. G \in [(1..N) \X D -> D] BY <1>3
<1>5. PICK g \in [0..N -> D] : g[0] = <<>> /\ \A i \in 1..N : g[i] = G[<<i, g[i - 1]>>]
  <2> HIDE DEF D, G
  <2>1. \E g : IsRun(g, N, D, <<>>, G)
    BY <1>1, <1>2, <1>4, Recursion
  <2> QED BY <2>1 DEF IsRun
<1>6. ASSUME NEW i \in 1..N PROVE g[i - 1] \in D /\ g[i] = Step(i, g[i - 1])
  <2>1. i - 1 \in 0..N BY <1>1
  <2>2. g[i - 1] \in D /\ <<i, g[i - 1]>> \in (1..N) \X D BY <1>5, <2>1
  <2> HIDE DEF Step, D
  <2> QED BY <1>5, <2>2
<1>7. g = [n \in 0..N |-> IF n = 0 THEN <<>> ELSE Step(n, g[n - 1])]
  <2> HIDE DEF D, Step
  <2> QED BY <1>1, <1>5, <1>6
<1>8. F = [n \in 0..N |-> IF n = 0 THEN <<>> ELSE Step(n, F[n - 1])]
  <2> HIDE DEF Step
  <2> QED BY <1>7
<1> HIDE DEF F
<1> DEFINE S == {n \in 0..N : F[n] \in D}
<1>9. 0..N \subseteq S
  <2>1. 0 \in S BY <1>1, <1>2, <1>8
  <2>2. ASSUME NEW i \in 0..(N - 1), i \in S PROVE i + 1 \in S
    <3>1. i + 1 \in 0..N /\ i + 1 # 0 /\ (i + 1) - 1 = i BY <1>1
    <3>2. F[i + 1] = Step(i + 1, F[i]) BY <1>8, <3>1
    <3> HIDE DEF Step, D
    <3> QED BY <1>3, <2>2, <3>1, <3>2
  <2> HIDE DEF S
  <2> QED BY <1>1, <2>1, <2>2, Induction
<1>10. F[N] \in D BY <1>1, <1>9
<1> QED BY <1>0, <1>10 DEF M

\* The smallest of a set of naturals.
LEMMA MinOfNaturals ==
    ASSUME NEW T, T \subseteq Nat, T # {}
    PROVE  Min(T) \in T /\ \A j \in T : Min(T) <= j
<1>1. \E m \in T : \A j \in T : m <= j BY Smallest
<1> QED BY <1>1 DEF Min

\* Where a section ends: after its heading, within the document.
LEMMA BoundaryFacts ==
    ASSUME NEW doc, Len(doc) \in Nat, NEW start \in 1..Len(doc)
    PROVE  /\ NextBoundary(doc, start) \in (start + 1)..(Len(doc) + 1)
           /\ \A k \in (start + 1)..(NextBoundary(doc, start) - 1) : ~doc[k].ends
<1> DEFINE ends == {i \in (start + 1)..Len(doc) : doc[i].ends}
<1>1. CASE ends = {}
  BY <1>1 DEF NextBoundary
<1>2. CASE ends # {}
  <2>1. ends \subseteq Nat OBVIOUS
  <2>2. Min(ends) \in ends /\ \A j \in ends : Min(ends) <= j
    <3> HIDE DEF ends
    <3> QED BY <1>2, <2>1, MinOfNaturals
  <2>3. PICK m : m = Min(ends) OBVIOUS
  <2>4. NextBoundary(doc, start) = m BY <1>2, <2>3 DEF NextBoundary
  <2>5. m \in (start + 1)..Len(doc) BY <2>2, <2>3
  <2>6. ASSUME NEW k \in (start + 1)..(m - 1) PROVE ~doc[k].ends
    <3>1. k \notin ends BY <2>2, <2>3, <2>5
    <3> QED BY <2>5, <3>1
  <2> QED BY <2>4, <2>5, <2>6
<1> QED BY <1>1, <1>2

\* A chunk of a section is as long as its bounds say.
LEMMA ChunkFacts ==
    ASSUME NEW doc, Len(doc) \in Nat, NEW name, NEW start \in 1..Len(doc)
    PROVE  /\ ChunkAt(doc, name, start) \subseteq start..Len(doc)
           /\ \A k \in ChunkAt(doc, name, start) : k # start => ~doc[k].ends
           /\ IsFiniteSet(ChunkAt(doc, name, start)) /\ Cardinality(ChunkAt(doc, name, start)) \in 0..Len(doc)
<1>1. ChunkAt(doc, name, start) \subseteq start..(NextBoundary(doc, start) - 1)
  BY DEF ChunkAt, StripForwardLooking, Paragraph
<1>2. /\ ChunkAt(doc, name, start) \subseteq start..Len(doc)
      /\ \A k \in ChunkAt(doc, name, start) : k # start => ~doc[k].ends
  BY <1>1, BoundaryFacts
<1>3. ChunkAt(doc, name, start) \subseteq 1..Len(doc) BY <1>2
<1>4. IsFiniteSet(1..Len(doc)) /\ Cardinality(1..Len(doc)) = Len(doc)
  <2>1. 1 \in Int /\ Len(doc) \in Int OBVIOUS
  <2>2. IsFiniteSet(1..Len(doc)) /\ Cardinality(1..Len(doc)) = IF 1 > Len(doc) THEN 0 ELSE Len(doc) - 1 + 1
    BY <2>1, FS_Interval
  <2> QED BY <2>2
<1>5. /\ IsFiniteSet(ChunkAt(doc, name, start)) /\ Cardinality(ChunkAt(doc, name, start)) <= Len(doc)
  BY <1>3, <1>4, FS_Subset
<1>6. Cardinality(ChunkAt(doc, name, start)) \in Nat BY <1>5, FS_CardinalityType
<1> QED BY <1>2, <1>5, <1>6

\* The parser takes one of the longest occurrences.
LEMMA ParsedIsLongest ==
    ASSUME NEW doc, Len(doc) \in Nat, DOMAIN doc = 1..Len(doc), NEW name
    PROVE  /\ ParsedSection(doc, name) \subseteq DOMAIN doc
           /\ \A k \in ParsedSection(doc, name) : ~doc[k].ends
           /\ \A i \in DOMAIN doc : doc[i].item = name =>
                 Cardinality(ParsedSection(doc, name)) >= Cardinality(ChunkAt(doc, name, i) \ {i}) - 1
<1> DEFINE starts == {i \in 1..Len(doc) : doc[i].item = name}
           C(i) == ChunkAt(doc, name, i)
           Longest(i) == \A j \in starts : Cardinality(C(i)) >= Cardinality(C(j))
           best == {i \in starts : Longest(i) /\ C(i) # {}}
           section == ParsedSection(doc, name)
<1>1. section = IF best = {} THEN {} ELSE C(Min(best)) \ {Min(best)}
  BY DEF ParsedSection
<1>2. ASSUME NEW i \in starts
      PROVE  /\ C(i) \subseteq i..Len(doc) /\ \A k \in C(i) : k # i => ~doc[k].ends
             /\ IsFiniteSet(C(i)) /\ Cardinality(C(i)) \in 0..Len(doc)
  BY ChunkFacts
<1>3. ASSUME NEW i \in starts PROVE Cardinality(C(i) \ {i}) \in Int /\ Cardinality(C(i) \ {i}) <= Cardinality(C(i))
  <2> HIDE DEF C
  <2>1. IsFiniteSet(C(i) \ {i}) /\ Cardinality(C(i) \ {i}) <= Cardinality(C(i)) BY <1>2, FS_Subset
  <2> QED BY <2>1, FS_CardinalityType
<1> HIDE DEF C
<1>4. CASE best = {}
  <2>1. section = {} /\ Cardinality(section) = 0 BY <1>1, <1>4, FS_EmptySet
  <2>2. ASSUME NEW i \in starts PROVE Cardinality(C(i)) <= 0
    <3> DEFINE short == {Len(doc) - Cardinality(C(j)) : j \in starts}
    <3>1. short \subseteq Nat /\ short # {} BY <1>2
    <3>2. PICK least \in short : \A m \in short : least <= m
      <4> HIDE DEF short
      <4> QED BY <3>1, Smallest
    <3>3. PICK j \in starts : least = Len(doc) - Cardinality(C(j)) BY <3>2
    <3>4. Longest(j)
      <4>1. ASSUME NEW m \in starts PROVE Cardinality(C(j)) >= Cardinality(C(m))
        <5>1. Len(doc) - Cardinality(C(m)) >= Len(doc) - Cardinality(C(j)) BY <3>2, <3>3
        <5> QED BY <1>2, <5>1
      <4> QED BY <4>1
    <3>5. C(j) = {} BY <1>4, <3>4
    <3> QED BY <3>4, <3>5, FS_EmptySet
  <2>3. ASSUME NEW i \in starts PROVE Cardinality(section) >= Cardinality(C(i) \ {i}) - 1
    BY <1>2, <1>3, <2>1, <2>2
  <2> QED BY <2>1, <2>3 DEF C
<1>5. CASE best # {}
  <2>1. PICK m : m = Min(best) OBVIOUS
  <2>2. m \in best
    <3>1. best \subseteq Nat OBVIOUS
    <3> HIDE DEF best
    <3> QED BY <1>5, <2>1, <3>1, MinOfNaturals
  <2>3. section = C(m) \ {m} BY <1>1, <1>5, <2>1
  <2>4. Cardinality(section) >= Cardinality(C(m)) - 1 /\ Cardinality(section) \in Int
    <3>1. IsFiniteSet(C(m)) /\ Cardinality(C(m)) \in Int BY <1>2, <2>2
    <3>2. Cardinality(C(m) \ {m}) = IF m \in C(m) THEN Cardinality(C(m)) - 1 ELSE Cardinality(C(m))
      BY <3>1, FS_RemoveElement
    <3> QED BY <2>3, <3>1, <3>2
  <2>5. ASSUME NEW i \in starts PROVE Cardinality(section) >= Cardinality(C(i) \ {i}) - 1
    <3>1. Cardinality(C(m)) >= Cardinality(C(i)) BY <2>2
    <3> QED BY <1>2, <1>3, <2>2, <2>4, <3>1
  <2>6. section \subseteq DOMAIN doc /\ \A k \in section : ~doc[k].ends BY <1>2, <2>2, <2>3
  <2> HIDE DEF section, best
  <2> QED BY <2>5, <2>6 DEF C, section
<1> QED BY <1>4, <1>5

\* The older reading keeps the heading and stops no later.
LEMMA LegacyIsBounded ==
    ASSUME NEW doc, Len(doc) \in Nat, DOMAIN doc = 1..Len(doc), NEW name \in SectionNames
    PROVE  /\ LegacySections(doc)[name] \subseteq DOMAIN doc
           /\ \A i \in LegacySections(doc)[name] :
                 doc[i].ends => doc[i].item = name /\ i = Min(LegacySections(doc)[name])
<1> DEFINE First(x) == {i \in 1..Len(doc) : doc[i].item = x /\ \A j \in 1..(i - 1) : doc[j].item # x}
           firsts == UNION {First(x) : x \in SectionNames}
           End(start) == Min({NextBoundary(doc, start)} \cup {i \in firsts : i > start})
           section == LegacySections(doc)[name]
<1>1. section = UNION {start..(End(start) - 1) : start \in First(name)}
  BY DEF LegacySections
<1>2. ASSUME NEW start \in 1..Len(doc) PROVE End(start) \in (start + 1)..NextBoundary(doc, start)
  <2> DEFINE T == {NextBoundary(doc, start)} \cup {i \in firsts : i > start}
  <2>1. NextBoundary(doc, start) \in (start + 1)..(Len(doc) + 1) BY BoundaryFacts
  <2>2. \A t \in T : t \in Nat /\ t > start BY <2>1
  <2>3. NextBoundary(doc, start) \in T OBVIOUS
  <2>4. Min(T) \in T /\ \A j \in T : Min(T) <= j
    <3> HIDE DEF T
    <3> QED BY <2>2, <2>3, MinOfNaturals
  <2>5. End(start) = Min(T) OBVIOUS
  <2> HIDE DEF T, End
  <2> QED BY <2>1, <2>2, <2>3, <2>4, <2>5
<1>3. \A i, j \in First(name) : i = j
  <2> SUFFICES ASSUME NEW i \in First(name), NEW j \in First(name), i < j PROVE FALSE
    OBVIOUS
  <2>1. i \in 1..(j - 1) OBVIOUS
  <2> QED BY <2>1
<1>4. CASE First(name) = {}
  BY <1>1, <1>4
<1>5. CASE First(name) # {}
  <2>1. PICK start : start \in First(name) BY <1>5
  <2>2. First(name) = {start} BY <1>3, <2>1
  <2>3. section = start..(End(start) - 1)
    <3> HIDE DEF End, First, section
    <3>1. {x..(End(x) - 1) : x \in {start}} = {start..(End(start) - 1)} OBVIOUS
    <3> QED BY <1>1, <2>2, <3>1
  <2>4. start \in 1..Len(doc) /\ doc[start].item = name BY <2>1
  <2>5. /\ End(start) \in (start + 1)..NextBoundary(doc, start)
        /\ NextBoundary(doc, start) \in (start + 1)..(Len(doc) + 1)
        /\ \A k \in (start + 1)..(NextBoundary(doc, start) - 1) : ~doc[k].ends
    BY <1>2, <2>4, BoundaryFacts
  <2> HIDE DEF section, End, First
  <2>6. section \subseteq Nat /\ start \in section /\ \A j \in section : start <= j
    BY <2>3, <2>4, <2>5
  <2>7. Min(section) = start
    <3>1. Min(section) \in section /\ \A j \in section : Min(section) <= j BY <2>6, MinOfNaturals
    <3>2. ASSUME NEW m \in section, \A j \in section : m <= j PROVE m = start
      <4>1. m \in Nat /\ start \in Nat /\ start <= m /\ m <= start BY <2>6, <3>2
      <4> QED BY <4>1
    <3> QED BY <3>1, <3>2
  <2>8. section \subseteq DOMAIN doc BY <2>3, <2>4, <2>5
  <2>9. ASSUME NEW i \in section, doc[i].ends PROVE i = start
    BY <2>3, <2>4, <2>5, <2>9
  <2> QED BY <2>4, <2>7, <2>8, <2>9 DEF section
<1> QED BY <1>4, <1>5

\* What a reading finds of each item.
SectionsFor(doc, read) ==
    \A name \in SectionNames :
        /\ read[name] \subseteq DOMAIN doc
        /\ \A i \in read[name] : doc[i].ends => doc[i].item = name /\ i = Min(read[name])
        /\ read = ParseSections(doc) =>
             \A i \in DOMAIN doc : doc[i].item = name =>
                 Cardinality(read[name]) >= Cardinality(ChunkAt(doc, name, i) \ {i}) - 1

\* Both readings are of the document and of the item asked for.
LEMMA ReadSectionsHold ==
    ASSUME NEW n \in Nat, NEW doc \in [1..n -> Lines], NEW read \in {ParseSections(doc), LegacySections(doc)}
    PROVE  SectionsFor(doc, read)
<1>1. Len(doc) = n /\ Len(doc) \in Nat /\ DOMAIN doc = 1..Len(doc)
  <2>1. doc \in Seq(Lines) BY SeqDef
  <2> QED BY <2>1
<1>2. ASSUME NEW name \in SectionNames, read = ParseSections(doc)
      PROVE  read[name] = ParsedSection(doc, name)
  BY <1>2 DEF ParseSections
<1>3. CASE read = ParseSections(doc)
  BY <1>1, <1>2, <1>3, ParsedIsLongest DEF SectionsFor
<1>4. CASE read # ParseSections(doc)
  BY <1>1, <1>4, LegacyIsBounded DEF SectionsFor
<1> QED BY <1>3, <1>4

\* A list of filings has the forms that were asked for and is within its limit.
LEMMA ListedIsWanted ==
    ASSUME NEW rows \in Submissions, NEW forms, NEW since, NEW limit \in Limits,
           NEW found \in {ListFilings(rows, forms, since, limit)} \cup CatalogueFilings(rows, forms, since, limit)
    PROVE  /\ \A i \in DOMAIN found : found[i].form \in forms /\ found[i].filed >= since
           /\ Len(found) <= Max({limit, 1})
<1> DEFINE all == Listable(rows, forms, since)
           some == {f \in all : f.identified}
<1>1. limit \in Int /\ rows \in Seq({rows[i] : i \in DOMAIN rows})
  BY ReadingAssumption
<1>2. \/ found = <<>> \/ found = TakeFilings(rows, all, limit) \/ found = TakeFilings(rows, some, limit)
  BY DEF ListFilings, CatalogueFilings
<1>3. 0 <= Max({limit, 1}) BY <1>1, MaxOfTwo
<1> HIDE DEF all, some
<1>4. /\ TakeFilings(rows, all, limit) \in Seq(all) /\ Len(TakeFilings(rows, all, limit)) <= Max({limit, 1})
      /\ TakeFilings(rows, some, limit) \in Seq(some) /\ Len(TakeFilings(rows, some, limit)) <= Max({limit, 1})
  BY <1>1, TakesWanted
<1>5. \A f \in all \cup some : f.form \in forms /\ f.filed >= since BY DEF all, some, Listable
<1>6. found \in Seq(all \cup some) /\ Len(found) <= Max({limit, 1})
  <2>1. CASE found = <<>> BY <1>3, <2>1
  <2>2. CASE found = TakeFilings(rows, all, limit) BY <1>4, <2>2, SeqMonotonic
  <2>3. CASE found = TakeFilings(rows, some, limit) BY <1>4, <2>3, SeqMonotonic
  <2> QED BY <1>2, <2>1, <2>2, <2>3
<1>7. \A i \in DOMAIN found : found[i] \in all \cup some BY <1>6, ElementOfSeq
<1> QED BY <1>5, <1>6, <1>7

\* Of every document and every index: what is read and listed is what was asked for.
THEOREM ReadingSound == ReadingSpec => []FilingsHold
<1> DEFINE I == SectionsFor(document, sections) /\ ListIsWanted
<1>1. ReadingInit => I
  <2> SUFFICES ASSUME ReadingInit PROVE I
    OBVIOUS
  <2>1. document = <<>> /\ \A name \in SectionNames : sections[name] = {} BY DEF ReadingInit, NoDocument
  <2>2. Max({1, 1}) \in {1, 1} BY MaxOfTwo
  <2>3. ListIsWanted
    <3>1. listing.found = <<>> /\ listing.asked.limit = 1 BY DEF ReadingInit, NoListing
    <3>2. Len(<<>>) = 0 /\ DOMAIN <<>> = {} OBVIOUS
    <3>3. 0 <= Max({1, 1}) BY <2>2
    <3> QED BY <3>1, <3>2, <3>3 DEF ListIsWanted
  <2>4. SectionsFor(document, sections) BY <2>1 DEF SectionsFor
  <2> QED BY <2>3, <2>4
<1>2. I /\ [ReadingNext]_readingVars => I'
  <2> SUFFICES ASSUME I, [ReadingNext]_readingVars PROVE I'
    OBVIOUS
  <2>1. CASE UNCHANGED readingVars BY <2>1 DEF readingVars, SectionsFor, ListIsWanted
  <2>2. ASSUME NEW n \in 1..MaxLines, NEW doc \in [1..n -> Lines], FetchFiling(doc) PROVE I'
    <3>1. document' = doc /\ sections' \in {ParseSections(doc), LegacySections(doc)} /\ listing' = listing
      BY <2>2 DEF FetchFiling
    <3>2. n \in Nat BY ReadingAssumption
    <3>3. SectionsFor(document', sections') BY <3>1, <3>2, ReadSectionsHold
    <3>4. ListIsWanted' BY <3>1 DEF ListIsWanted
    <3> QED BY <3>3, <3>4
  <2>3. CASE AskForFilings
    <3>0. PICK rows \in Submissions, forms \in SUBSET {"10-K", "8-K"}, since \in Floors, limit \in Limits :
             LET wanted == IF forms = {} THEN {rows[i].form : i \in DOMAIN rows} ELSE forms
             IN  \E found \in {ListFilings(rows, wanted, since, limit)} \cup CatalogueFilings(rows, wanted, since, limit) :
                    listing' = [asked |-> [forms |-> wanted, since |-> since, limit |-> limit, rows |-> rows], found |-> found]
      BY <2>3 DEF AskForFilings
    <3>1. PICK wanted :
             \E found \in {ListFilings(rows, wanted, since, limit)} \cup CatalogueFilings(rows, wanted, since, limit) :
                listing' = [asked |-> [forms |-> wanted, since |-> since, limit |-> limit, rows |-> rows], found |-> found]
      BY <3>0
    <3>2. PICK found \in {ListFilings(rows, wanted, since, limit)} \cup CatalogueFilings(rows, wanted, since, limit) :
             listing' = [asked |-> [forms |-> wanted, since |-> since, limit |-> limit, rows |-> rows], found |-> found]
      BY <3>1
    <3>3. ListIsWanted'
      <4>1. listing'.found = found /\ listing'.asked.forms = wanted /\ listing'.asked.since = since /\ listing'.asked.limit = limit
        BY <3>2
      <4>2. /\ \A i \in DOMAIN found : found[i].form \in wanted /\ found[i].filed >= since
            /\ Len(found) <= Max({limit, 1})
        BY ListedIsWanted
      <4> QED BY <4>1, <4>2 DEF ListIsWanted
    <3>4. UNCHANGED <<document, sections>> BY <2>3 DEF AskForFilings
    <3> QED BY <3>3, <3>4 DEF SectionsFor
  <2> QED BY <2>1, <2>2, <2>3 DEF ReadingNext
<1>3. I => FilingsHold
  BY DEF SectionsFor, SectionsAreBounded, FilingsHold
<1> QED BY <1>1, <1>2, <1>3, PTL DEF ReadingSpec

-----------------------------------------------------------------------------
(* TranscriptSources *)

\* What a turn, and the parser's memory while it reads a call, are made of.
Guesses == {"unknown", "ceo", "cfo"}
SectionNamesOfTurns == {"unknown", "qa", "prepared_remarks"}
TurnRoles == Guesses \cup {Title[s] : s \in DOMAIN Title}
TurnRows == [speaker : DOMAIN Title, role : TurnRoles, section : SectionNamesOfTurns]
Memories == [roles : [DOMAIN Title -> Guesses], next : Guesses, section : SectionNamesOfTurns, turns : Seq(TurnRows)]
CallRows == [speaker : DOMAIN Title, marker : BOOLEAN, hint : BOOLEAN, text : BOOLEAN]

\* The role of every turn is what the label says or what is remembered of the
\* speaker; who was named by position is one for each office, and the offices
\* that are named already are no longer given.
RolesKept(m) ==
    /\ \A i \in DOMAIN m.turns :
         LET s == m.turns[i].speaker
         IN  /\ m.turns[i].role = IF Title[s] # "unknown" THEN Title[s] ELSE m.roles[s]
             /\ (Title[s] = "unknown" /\ s # "Unknown" /\ m.roles[s] = "unknown") => m.next = "unknown"
    /\ \A s, t \in DOMAIN Title :
         (Title[s] = "unknown" /\ Title[t] = "unknown" /\ m.roles[s] = m.roles[t] /\ m.roles[s] # "unknown") => s = t
    /\ \A s \in DOMAIN Title : Title[s] = "unknown" =>
         /\ m.next = "ceo" => m.roles[s] = "unknown"
         /\ m.next = "cfo" => m.roles[s] # "cfo"

\* After the first question no turn is of the prepared remarks.
QuestionsLast(m) ==
    \A i \in DOMAIN m.turns : m.turns[i].section = "qa" =>
        m.section = "qa" /\ \A j \in DOMAIN m.turns : i < j => m.turns[j].section = "qa"

\* What the parser keeps true from row to row.
GoodMemories == {m \in Memories : RolesKept(m) /\ QuestionsLast(m)}

\* One more row keeps the memory good.
LEMMA TurnKeepsMemory ==
    ASSUME NEW provider, NEW m \in GoodMemories, NEW row \in CallRows
    PROVE  AddTurn(provider, m, row) \in GoodMemories
<1> DEFINE s == row.speaker
           role == RoleOf(m, s)
           section == SectionAfter(provider, row, m.section)
           written == IF provider = "defeatbeta" /\ section = "unknown" THEN "prepared_remarks" ELSE section
           positional == Title[s] = "unknown" /\ m.roles[s] = "unknown" /\ s # "Unknown"
           roles == IF role \in {"ceo", "cfo"} THEN [m.roles EXCEPT ![s] = role] ELSE m.roles
           next == IF ~positional THEN m.next ELSE IF m.next = "ceo" THEN "cfo" ELSE "unknown"
           turn == [speaker |-> s, role |-> role, section |-> written]
           turns == Append(m.turns, turn)
           after == [roles |-> roles, next |-> next, section |-> section, turns |-> turns]
<1>1. AddTurn(provider, m, row) = after BY DEF AddTurn
<1>2. /\ s \in DOMAIN Title /\ m.roles \in [DOMAIN Title -> Guesses] /\ m.next \in Guesses
      /\ m.section \in SectionNamesOfTurns /\ m.turns \in Seq(TurnRows) /\ RolesKept(m) /\ QuestionsLast(m)
  BY DEF GoodMemories, Memories, CallRows
<1>3. section \in SectionNamesOfTurns /\ written \in SectionNamesOfTurns /\ (written = "qa" <=> section = "qa")
      /\ (m.section = "qa" => section = "qa")
  BY <1>2 DEF SectionAfter, SectionNamesOfTurns
<1>4. /\ Title[s] # "unknown" => role = Title[s]
      /\ (Title[s] = "unknown" /\ m.roles[s] # "unknown") => role = m.roles[s]
      /\ (Title[s] = "unknown" /\ m.roles[s] = "unknown" /\ s = "Unknown") => role = "unknown"
      /\ positional => role = m.next
  BY <1>2 DEF RoleOf
<1>5. role \in TurnRoles
  BY <1>2, <1>4 DEF TurnRoles, Guesses
<1> HIDE DEF section, written, role
<1>6. turn \in TurnRows BY <1>2, <1>3, <1>5 DEF TurnRows
<1>7. /\ turns \in Seq(TurnRows) /\ Len(m.turns) \in Nat /\ Len(turns) = Len(m.turns) + 1
      /\ turns[Len(m.turns) + 1] = turn /\ \A i \in 1..Len(m.turns) : turns[i] = m.turns[i] /\ m.turns[i] \in TurnRows
  <2> HIDE DEF turn
  <2> QED BY <1>2, <1>6, Appended
<1>8. /\ roles \in [DOMAIN Title -> Guesses]
      /\ \A t \in DOMAIN Title : t # s => roles[t] = m.roles[t]
      /\ roles[s] = IF role \in {"ceo", "cfo"} THEN role ELSE m.roles[s]
  BY <1>2 DEF Guesses
<1>9. next \in Guesses /\ (~positional => next = m.next) /\ ((positional /\ m.next = "ceo") => next = "cfo")
      /\ ((positional /\ m.next # "ceo") => next = "unknown")
  <2> HIDE DEF positional
  <2>1. CASE ~positional BY <1>2, <2>1
  <2>2. CASE positional /\ m.next = "ceo" BY <2>2 DEF Guesses
  <2>3. CASE positional /\ m.next # "ceo" BY <2>3 DEF Guesses
  <2> QED BY <2>1, <2>2, <2>3
<1>10. PICK L \in Nat : L = Len(m.turns) BY <1>7
<1>11. DOMAIN m.turns = 1..L /\ DOMAIN turns = 1..(L + 1) BY <1>2, <1>7, <1>10
<1> HIDE DEF roles, next, turns
<1>12. ASSUME NEW i \in DOMAIN turns
       PROVE  /\ turns[i].speaker \in DOMAIN Title
              /\ (i = L + 1 /\ turns[i] = turn) \/ (i \in DOMAIN m.turns /\ turns[i] = m.turns[i])
  <2> HIDE DEF turn
  <2>1. (i = L + 1 /\ turns[i] = turn) \/ (i \in DOMAIN m.turns /\ turns[i] = m.turns[i] /\ m.turns[i] \in TurnRows)
    BY <1>7, <1>10, <1>11
  <2>2. turns[i] \in TurnRows BY <1>6, <2>1
  <2> QED BY <2>1, <2>2 DEF TurnRows
<1>13. RolesKept(after)
  <2>1. ASSUME NEW i \in DOMAIN turns, NEW x, x = turns[i].speaker
        PROVE  /\ turns[i].role = IF Title[x] # "unknown" THEN Title[x] ELSE roles[x]
               /\ (Title[x] = "unknown" /\ x # "Unknown" /\ roles[x] = "unknown") => next = "unknown"
    <3>1. CASE i = L + 1 /\ turns[i] = turn
      <4>1. x = s /\ turns[i].role = role BY <2>1, <3>1
      <4> QED BY <4>1, <1>2, <1>4, <1>8, <1>9 DEF Guesses
    <3>2. CASE i \in DOMAIN m.turns /\ turns[i] = m.turns[i]
      <4>1. /\ m.turns[i].role = IF Title[x] # "unknown" THEN Title[x] ELSE m.roles[x]
            /\ (Title[x] = "unknown" /\ x # "Unknown" /\ m.roles[x] = "unknown") => m.next = "unknown"
        BY <1>2, <2>1, <3>2 DEF RolesKept
      <4>2. x \in DOMAIN Title BY <2>1, <1>12
      <4>3. CASE x # s BY <4>1, <4>2, <4>3, <3>2, <1>8, <1>9, <1>2 DEF Guesses
      <4>4. CASE x = s BY <4>1, <4>4, <3>2, <1>4, <1>8, <1>9, <1>2 DEF Guesses
      <4> QED BY <4>3, <4>4
    <3> QED BY <3>1, <3>2, <1>12
  <2>2. ASSUME NEW x \in DOMAIN Title, NEW t \in DOMAIN Title, Title[x] = "unknown", Title[t] = "unknown",
               roles[x] = roles[t], roles[x] # "unknown"
        PROVE  x = t
    <3>1. (m.roles[x] = m.roles[t] /\ m.roles[x] # "unknown") => x = t BY <1>2, <2>2 DEF RolesKept
    <3>2. \A y \in {x, t} : /\ m.next = "ceo" => m.roles[y] = "unknown"
                            /\ m.next = "cfo" => m.roles[y] # "cfo"
      BY <1>2, <2>2 DEF RolesKept
    <3> QED BY <2>2, <3>1, <3>2, <1>2, <1>4, <1>8 DEF Guesses
  <2>3. ASSUME NEW x \in DOMAIN Title, Title[x] = "unknown"
        PROVE  /\ next = "ceo" => roles[x] = "unknown"
               /\ next = "cfo" => roles[x] # "cfo"
    <3>1. /\ m.next = "ceo" => m.roles[x] = "unknown"
          /\ m.next = "cfo" => m.roles[x] # "cfo"
      BY <1>2, <2>3 DEF RolesKept
    <3> QED BY <2>3, <3>1, <1>2, <1>4, <1>8, <1>9 DEF Guesses
  <2> QED BY <2>1, <2>2, <2>3 DEF RolesKept
<1>14. QuestionsLast(after)
  <2>1. ASSUME NEW i \in DOMAIN turns, turns[i].section = "qa"
        PROVE  section = "qa" /\ \A j \in DOMAIN turns : i < j => turns[j].section = "qa"
    <3>1. CASE i = L + 1 /\ turns[i] = turn
      BY <1>3, <1>11, <2>1, <3>1
    <3>2. CASE i \in DOMAIN m.turns /\ turns[i] = m.turns[i]
      <4>1. m.section = "qa" /\ \A j \in DOMAIN m.turns : i < j => m.turns[j].section = "qa"
        BY <1>2, <2>1, <3>2 DEF QuestionsLast
      <4>2. section = "qa" /\ turn.section = "qa" BY <1>3, <4>1
      <4> QED BY <1>12, <4>1, <4>2
    <3> QED BY <3>1, <3>2, <1>12
  <2> QED BY <2>1 DEF QuestionsLast
<1> QED BY <1>1, <1>2, <1>3, <1>7, <1>8, <1>9, <1>13, <1>14 DEF GoodMemories, Memories

\* A good memory has consistent turns.
LEMMA GoodIsConsistent ==
    ASSUME NEW m \in GoodMemories
    PROVE  Consistent(m.turns)
<1>1. RolesKept(m) /\ QuestionsLast(m) /\ m.turns \in Seq(TurnRows) BY DEF GoodMemories, Memories
<1>2. \A i \in DOMAIN m.turns : m.turns[i].speaker \in DOMAIN Title
  <2>1. \A i \in DOMAIN m.turns : m.turns[i] \in TurnRows BY <1>1, ElementOfSeq
  <2> QED BY <2>1 DEF TurnRows
<1>3. \A i, j \in DOMAIN m.turns : m.turns[i].speaker = m.turns[j].speaker => m.turns[i].role = m.turns[j].role
  BY <1>1 DEF RolesKept
<1>4. ASSUME NEW role \in {"ceo", "cfo"} PROVE Cardinality(Guessed(m.turns, role)) <= 1
  <2>1. \A x, y \in Guessed(m.turns, role) : x = y
    BY <1>1, <1>2 DEF RolesKept, Guessed
  <2>2. Guessed(m.turns, role) = {} \/ \E x : Guessed(m.turns, role) = {x}
    <3> HIDE DEF Guessed
    <3> QED BY <2>1
  <2> HIDE DEF Guessed
  <2>3. Cardinality({}) = 0 /\ \A x : Cardinality({x}) = 1 BY FS_EmptySet, FS_Singleton
  <2>4. CASE Guessed(m.turns, role) = {} BY <2>3, <2>4
  <2>5. CASE \E x : Guessed(m.turns, role) = {x}
    <3>1. PICK x : Guessed(m.turns, role) = {x} BY <2>5
    <3>2. Cardinality(Guessed(m.turns, role)) = 1 BY <2>3, <3>1
    <3> QED BY <3>2
  <2> QED BY <2>2, <2>4, <2>5
<1>5. \A i, j \in DOMAIN m.turns : (i < j /\ m.turns[i].section = "qa") => m.turns[j].section = "qa"
  BY <1>1 DEF QuestionsLast
<1> QED BY <1>3, <1>4, <1>5 DEF Consistent

\* Whatever the rows of a call, its turns are consistent.
LEMMA ParsedIsConsistent ==
    ASSUME NEW provider, NEW rows \in Seq(CallRows)
    PROVE  ParseTurns(provider, rows) \in Seq(TurnRows) /\ Consistent(ParseTurns(provider, rows))
<1> DEFINE N == Len(rows)
           D == GoodMemories
           Sponsor(row) == provider = "defeatbeta" /\ row.speaker = "Sponsor" /\ ~row.text
           Step(i, m) == IF Sponsor(rows[i]) THEN m ELSE AddTurn(provider, m, rows[i])
           G == [p \in (1..N) \X D |-> Step(p[1], p[2])]
           F == CHOOSE g : g = [n \in 0..N |->
                    IF n = 0 THEN NoMemory ELSE IF Sponsor(rows[n]) THEN g[n - 1] ELSE AddTurn(provider, g[n - 1], rows[n])]
<1>1. N \in Nat OBVIOUS
<1>0. ParseTurns(provider, rows) = F[N].turns
  BY DEF ParseTurns
<1>2. NoMemory \in D
  <2>1. NoMemory \in Memories BY DEF NoMemory, Memories, Guesses, SectionNamesOfTurns
  <2>2. DOMAIN NoMemory.turns = {} BY DEF NoMemory
  <2>3. \A s \in DOMAIN Title : NoMemory.roles[s] = "unknown" BY DEF NoMemory
  <2> QED BY <2>1, <2>2, <2>3 DEF GoodMemories, RolesKept, QuestionsLast
<1>3. ASSUME NEW i \in 1..N, NEW m \in D PROVE Step(i, m) \in D
  <2>1. rows[i] \in CallRows BY ElementOfSeq
  <2> QED BY <2>1, TurnKeepsMemory
<1> HIDE DEF N, D
<1>4. G \in [(1..N) \X D -> D]
  <2> HIDE DEF Step
  <2> QED BY <1>3
<1>5. PICK g \in [0..N -> D] : g[0] = NoMemory /\ \A i \in 1..N : g[i] = G[<<i, g[i - 1]>>]
  <2> HIDE DEF G
  <2>1. \E g : IsRun(g, N, D, NoMemory, G)
    BY <1>1, <1>2, <1>4, Recursion
  <2> QED BY <2>1 DEF IsRun
<1>6. ASSUME NEW i \in 1..N PROVE g[i - 1] \in D /\ g[i] = Step(i, g[i - 1])
  <2>1. i - 1 \in 0..N BY <1>1
  <2>2. g[i - 1] \in D /\ <<i, g[i - 1]>> \in (1..N) \X D BY <1>5, <2>1
  <2> HIDE DEF Step
  <2> QED BY <1>5, <2>2
<1>7. g = [n \in 0..N |-> IF n = 0 THEN NoMemory ELSE Step(n, g[n - 1])]
  <2> HIDE DEF Step
  <2> QED BY <1>1, <1>5, <1>6
<1>8. F = [n \in 0..N |-> IF n = 0 THEN NoMemory ELSE Step(n, F[n - 1])]
  <2> HIDE DEF Sponsor
  <2> QED BY <1>7
<1> HIDE DEF F
<1> DEFINE S == {n \in 0..N : F[n] \in D}
<1>9. 0..N \subseteq S
  <2>1. 0 \in S BY <1>1, <1>2, <1>8
  <2>2. ASSUME NEW i \in 0..(N - 1), i \in S PROVE i + 1 \in S
    <3>1. i + 1 \in 0..N /\ i + 1 # 0 /\ (i + 1) - 1 = i /\ i + 1 \in 1..N BY <1>1
    <3> HIDE DEF Step
    <3>2. F[i + 1] = Step(i + 1, F[i]) BY <1>8, <3>1
    <3> QED BY <1>3, <2>2, <3>1, <3>2
  <2> HIDE DEF S
  <2> QED BY <1>1, <2>1, <2>2, Induction
<1>10. F[N] \in GoodMemories BY <1>1, <1>9 DEF D
<1> QED BY <1>0, <1>10, GoodIsConsistent DEF GoodMemories, Memories

\* The files of the disk cache, and what a call carries.
TranscriptKeys == TranscriptVendors \X Quarters
Transcripts == [provider : TranscriptVendors \cup {"none"}, period : Quarters \cup {0}, turns : Seq(TurnRows)]
TranscriptFiles == [state : {"absent", "torn", "whole"}, transcript : Transcripts]
Readings == [at : {"idle", "request", "truncate", "write", "given", "raised"},
             provider : TranscriptVendors \cup {"none"}, period : Quarters \cup {0}, transcript : Transcripts]

\* A transcript is of its key and consistent.
TranscriptGood(transcript, key) ==
    /\ transcript.provider = key[1] /\ transcript.period = key[2]
    /\ Consistent(transcript.turns)

\* A whole file is of its key and consistent, one that is not holds no turns.
FileGood(file, key) ==
    /\ file.state = "whole" => TranscriptGood(file.transcript, key)
    /\ file.state # "whole" => file.transcript = NoTranscript

\* What a call is about to write, or gave, is of its own key and consistent.
ReadingGood(x) ==
    /\ x.at # "idle" => <<x.provider, x.period>> \in TranscriptKeys
    /\ x.at \in {"truncate", "write", "given"} => TranscriptGood(x.transcript, <<x.provider, x.period>>)

\* Every file is right wherever a process stopped while it wrote it.
TranscriptInv ==
    /\ transcriptFile \in [TranscriptKeys -> TranscriptFiles]
    /\ reading \in [Readers -> Readings]
    /\ driver \in {"untried", "ready"}
    /\ \A k \in TranscriptKeys : FileGood(transcriptFile[k], k)
    /\ \A r \in Readers : ReadingGood(reading[r])

\* A step moves one reader and at most one file.
LEMMA StepOfReader ==
    ASSUME TranscriptInv, NEW r \in Readers, NEW x \in Readings, ReadingGood(x), Stay(r, x), driver' = driver,
           \/ transcriptFile' = transcriptFile
           \/ \E key \in TranscriptKeys : \E file \in TranscriptFiles :
                FileGood(file, key) /\ transcriptFile' = [transcriptFile EXCEPT ![key] = file]
    PROVE  TranscriptInv'
<1>1. reading' \in [Readers -> Readings] /\ \A q \in Readers : reading'[q] \in {x, reading[q]}
  BY DEF Stay, TranscriptInv
<1>2. transcriptFile' \in [TranscriptKeys -> TranscriptFiles] /\ \A k \in TranscriptKeys : FileGood(transcriptFile'[k], k)
  <2>1. CASE transcriptFile' = transcriptFile BY <2>1 DEF TranscriptInv
  <2>2. ASSUME NEW key \in TranscriptKeys, NEW file \in TranscriptFiles, FileGood(file, key),
               transcriptFile' = [transcriptFile EXCEPT ![key] = file]
        PROVE  transcriptFile' \in [TranscriptKeys -> TranscriptFiles] /\ \A k \in TranscriptKeys : FileGood(transcriptFile'[k], k)
    <3>1. transcriptFile \in [TranscriptKeys -> TranscriptFiles] /\ \A k \in TranscriptKeys : FileGood(transcriptFile[k], k)
      BY DEF TranscriptInv
    <3>2. transcriptFile'[key] = file /\ \A k \in TranscriptKeys : k # key => transcriptFile'[k] = transcriptFile[k]
      BY <2>2, <3>1
    <3> QED BY <2>2, <3>1, <3>2
  <2> QED BY <2>1, <2>2
<1>3. \A q \in Readers : ReadingGood(reading'[q])
  BY <1>1 DEF TranscriptInv
<1> QED BY <1>1, <1>2, <1>3 DEF TranscriptInv

\* One action per step of a reader, several of which share the files.
LEMMA TranscriptStep ==
    ASSUME TranscriptInv, [TranscriptNext]_transcriptVars
    PROVE  TranscriptInv'
<1>1. CASE UNCHANGED transcriptVars
  <2>1. transcriptFile' = transcriptFile /\ reading' = reading /\ driver' = driver BY <1>1 DEF transcriptVars
  <2> QED BY <2>1 DEF TranscriptInv
<1>2. CASE ImportDriver
  <2>1. transcriptFile' = transcriptFile /\ reading' = reading /\ driver' = "ready" BY <1>2 DEF ImportDriver
  <2> QED BY <2>1 DEF TranscriptInv
<1>0. NotReading \in Readings /\ ReadingGood(NotReading)
  BY SeqDef DEF NotReading, NoTranscript, Readings, Transcripts, ReadingGood
<1>00. NoTranscript \in Transcripts /\ AbsentFile = [state |-> "absent", transcript |-> NoTranscript]
  BY SeqDef DEF NoTranscript, Transcripts, AbsentFile
<1>3. CASE ProcessRestarts
  <2>1. transcriptFile' = transcriptFile /\ driver' = "untried" /\ reading' = [r \in Readers |-> NotReading]
    BY <1>3 DEF ProcessRestarts
  <2>2. reading' \in [Readers -> Readings] /\ \A r \in Readers : ReadingGood(reading'[r]) BY <2>1, <1>0
  <2> QED BY <2>1, <2>2 DEF TranscriptInv
<1>4. ASSUME NEW r \in Readers, NEW wanted \in Wanted, AskForTranscript(r, wanted[1], wanted[2])
      PROVE  TranscriptInv'
  <2> DEFINE key == <<wanted[1], wanted[2]>>
             asked == [NotReading EXCEPT !.provider = wanted[1], !.period = wanted[2]]
             given == [asked EXCEPT !.at = "given", !.transcript = transcriptFile[key].transcript]
  <2>1. wanted[1] \in TranscriptVendors /\ wanted[2] \in Quarters /\ key \in TranscriptKeys
    BY TranscriptAssumption DEF TranscriptKeys
  <2>2. transcriptFile[key] \in TranscriptFiles /\ FileGood(transcriptFile[key], key)
    BY <2>1 DEF TranscriptInv
  <2>3. /\ [asked EXCEPT !.at = "raised"] \in Readings /\ ReadingGood([asked EXCEPT !.at = "raised"])
        /\ [asked EXCEPT !.at = "request"] \in Readings /\ ReadingGood([asked EXCEPT !.at = "request"])
    BY <2>1, <1>0 DEF NotReading, Readings, ReadingGood
  <2>4. ASSUME transcriptFile[key].state = "whole"
        PROVE  given \in Readings /\ ReadingGood(given)
    <3>1. PICK t \in Transcripts : t = transcriptFile[key].transcript BY <2>2 DEF TranscriptFiles
    <3>2. TranscriptGood(t, key) BY <2>2, <2>4, <3>1 DEF FileGood
    <3>3. asked \in Readings /\ asked.provider = wanted[1] /\ asked.period = wanted[2]
      BY <2>1, <1>0 DEF NotReading, Readings
    <3>4. given \in Readings /\ given.at = "given" /\ given.transcript = t /\ given.provider = wanted[1] /\ given.period = wanted[2]
      <4> HIDE DEF asked
      <4> QED BY <3>1, <3>3 DEF Readings
    <3> HIDE DEF given, asked
    <3> QED BY <2>1, <3>2, <3>4 DEF ReadingGood
  <2>5. UNCHANGED <<driver, transcriptFile>> BY <1>4 DEF AskForTranscript
  <2>6. \/ Stay(r, [asked EXCEPT !.at = "raised"])
        \/ Stay(r, [asked EXCEPT !.at = "request"])
        \/ transcriptFile[key].state = "whole" /\ Stay(r, given)
    <3> HIDE DEF Stay
    <3> QED BY <1>4 DEF AskForTranscript
  <2> HIDE DEF asked, given
  <2> QED BY <2>3, <2>4, <2>5, <2>6, StepOfReader
<1>5. ASSUME NEW r \in Readers, ProviderSends(r) PROVE TranscriptInv'
  <2> DEFINE provider == reading[r].provider
             period == reading[r].period
  <2>1. reading[r].at = "request" /\ UNCHANGED <<driver, transcriptFile>> BY <1>5 DEF ProviderSends
  <2>2. reading[r] \in Readings /\ provider \in TranscriptVendors /\ period \in Quarters
    BY <2>1 DEF TranscriptInv, ReadingGood, TranscriptKeys
  <2>3. PICK payload \in Payloads(provider, period) :
            LET transcript == [provider |-> provider, period |-> payload.of, turns |-> ParseTurns(provider, payload.rows)]
            IN  \/ payload.of = period /\ Stay(r, [reading[r] EXCEPT !.at = "truncate", !.transcript = transcript])
                \/ Stay(r, [reading[r] EXCEPT !.at = "raised"])
    BY <1>5 DEF ProviderSends, IsTranscript
  <2>4. payload.rows \in Seq(CallRows)
    <3>1. payload.rows \in RawCalls \cup {<<>>} BY DEF Payloads
    <3>2. <<>> \in Seq(CallRows) BY EmptySeq
    <3>3. RawCalls \subseteq Seq(CallRows) BY TranscriptAssumption DEF CallRows
    <3> QED BY <3>1, <3>2, <3>3
  <2>5. PICK turns \in Seq(TurnRows) : turns = ParseTurns(provider, payload.rows) /\ Consistent(turns)
    BY <2>4, ParsedIsConsistent
  <2> DEFINE transcript == [provider |-> provider, period |-> payload.of, turns |-> turns]
             asked == [reading[r] EXCEPT !.at = "truncate", !.transcript = transcript]
             raised == [reading[r] EXCEPT !.at = "raised"]
  <2>6. CASE payload.of = period /\ Stay(r, asked)
    <3>1. transcript \in Transcripts /\ TranscriptGood(transcript, <<provider, period>>)
      BY <2>2, <2>5, <2>6 DEF Transcripts, TranscriptGood
    <3>2. asked \in Readings /\ asked.provider = provider /\ asked.period = period /\ asked.transcript = transcript
      <4> HIDE DEF transcript
      <4> QED BY <2>2, <3>1 DEF Readings
    <3>3. <<provider, period>> \in TranscriptKeys BY <2>2 DEF TranscriptKeys
    <3> HIDE DEF transcript, asked, provider, period
    <3>4. ReadingGood(asked) BY <3>1, <3>2, <3>3 DEF ReadingGood
    <3> QED BY <2>1, <2>6, <3>2, <3>4, StepOfReader
  <2>7. CASE Stay(r, raised)
    <3>1. raised \in Readings /\ raised.at = "raised" /\ raised.provider = provider /\ raised.period = period
      BY <2>2 DEF Readings
    <3>2. <<provider, period>> \in TranscriptKeys BY <2>2 DEF TranscriptKeys
    <3> HIDE DEF raised, provider, period
    <3>3. ReadingGood(raised) BY <3>1, <3>2 DEF ReadingGood
    <3> QED BY <2>1, <2>7, <3>1, <3>3, StepOfReader
  <2> QED BY <2>3, <2>5, <2>6, <2>7
<1>6. ASSUME NEW r \in Readers, ProviderRefuses(r) \/ CacheRaises(r) PROVE TranscriptInv'
  <2> DEFINE raised == [reading[r] EXCEPT !.at = "raised"]
  <2>1. /\ reading[r].at \in {"request", "truncate", "write"} /\ UNCHANGED <<driver, transcriptFile>>
        /\ Stay(r, raised)
    BY <1>6 DEF ProviderRefuses, CacheRaises
  <2>2. reading[r] \in Readings /\ <<reading[r].provider, reading[r].period>> \in TranscriptKeys
    BY <2>1 DEF TranscriptInv, ReadingGood
  <2>3. raised \in Readings /\ raised.at = "raised" /\ raised.provider = reading[r].provider /\ raised.period = reading[r].period
    BY <2>2 DEF Readings
  <2> HIDE DEF raised
  <2>4. ReadingGood(raised) BY <2>2, <2>3 DEF ReadingGood
  <2> QED BY <2>1, <2>3, <2>4, StepOfReader
<1>7. ASSUME NEW r \in Readers, TruncateTranscript(r) \/ WriteTranscript(r) PROVE TranscriptInv'
  <2> DEFINE key == <<reading[r].provider, reading[r].period>>
  <2>1. /\ reading[r].at \in {"truncate", "write"} /\ driver' = driver
        /\ \E at \in {"write", "given"} : Stay(r, [reading[r] EXCEPT !.at = at])
        /\ \E file \in {[AbsentFile EXCEPT !.state = "torn"], [state |-> "whole", transcript |-> reading[r].transcript]} :
             transcriptFile' = [transcriptFile EXCEPT ![key] = file]
    BY <1>7 DEF TruncateTranscript, WriteTranscript
  <2>2. /\ reading[r] \in Readings /\ key \in TranscriptKeys /\ TranscriptGood(reading[r].transcript, key)
        /\ reading[r].transcript \in Transcripts
    BY <2>1 DEF TranscriptInv, ReadingGood, Readings
  <2>3. PICK at \in {"write", "given"} : Stay(r, [reading[r] EXCEPT !.at = at]) BY <2>1
  <2> DEFINE moved == [reading[r] EXCEPT !.at = at]
  <2>4. moved \in Readings /\ moved.at = at /\ moved.provider = reading[r].provider
        /\ moved.period = reading[r].period /\ moved.transcript = reading[r].transcript
    BY <2>2 DEF Readings
  <2>5. PICK file : /\ file \in {[AbsentFile EXCEPT !.state = "torn"], [state |-> "whole", transcript |-> reading[r].transcript]}
                    /\ transcriptFile' = [transcriptFile EXCEPT ![key] = file]
    BY <2>1
  <2>6. file \in TranscriptFiles /\ FileGood(file, key)
    <3>1. CASE file = [AbsentFile EXCEPT !.state = "torn"]
      <4>1. file = [state |-> "torn", transcript |-> NoTranscript] BY <1>00, <3>1
      <4> QED BY <4>1, <1>00 DEF TranscriptFiles, FileGood
    <3>2. CASE file = [state |-> "whole", transcript |-> reading[r].transcript]
      BY <2>2, <3>2 DEF TranscriptFiles, FileGood
    <3> QED BY <2>5, <3>1, <3>2
  <2> HIDE DEF moved
  <2>7. ReadingGood(moved) BY <2>2, <2>4 DEF ReadingGood
  <2> QED BY <2>1, <2>2, <2>3, <2>4, <2>5, <2>6, <2>7, StepOfReader DEF moved
<1>8. ASSUME NEW r \in Readers, ReaderEnds(r) PROVE TranscriptInv'
  <2>1. Stay(r, NotReading) /\ UNCHANGED <<driver, transcriptFile>> BY <1>8 DEF ReaderEnds
  <2> QED BY <1>0, <2>1, StepOfReader
<1> QED BY <1>1, <1>2, <1>3, <1>4, <1>5, <1>6, <1>7, <1>8 DEF TranscriptNext

\* The invariant gives the type and the property.
LEMMA TranscriptInvImplies == TranscriptInv => TranscriptTypeOK /\ TranscriptsHold
<1> SUFFICES ASSUME TranscriptInv PROVE TranscriptTypeOK /\ TranscriptsHold
  OBVIOUS
<1>1. TranscriptTypeOK
  BY DEF TranscriptInv, TranscriptTypeOK, TranscriptFiles, Readings, TranscriptKeys
<1>2. PeriodsAreRight
  <2>1. ASSUME NEW k \in TranscriptVendors \X Quarters, transcriptFile[k].state = "whole"
        PROVE  <<transcriptFile[k].transcript.provider, transcriptFile[k].transcript.period>> = k
    <3>1. TranscriptGood(transcriptFile[k].transcript, k) BY <2>1 DEF TranscriptInv, FileGood, TranscriptKeys
    <3>2. k = <<k[1], k[2]>> OBVIOUS
    <3> QED BY <3>1, <3>2 DEF TranscriptGood
  <2>2. ASSUME NEW r \in Readers, reading[r].at = "given"
        PROVE  reading[r].transcript.provider = reading[r].provider /\ reading[r].transcript.period = reading[r].period
    BY <2>2 DEF TranscriptInv, ReadingGood, TranscriptGood
  <2> QED BY <2>1, <2>2 DEF PeriodsAreRight
<1>3. TurnsAreConsistent
  <2>1. ASSUME NEW r \in Readers, reading[r].at \in {"write", "given"} PROVE Consistent(reading[r].transcript.turns)
    BY <2>1 DEF TranscriptInv, ReadingGood, TranscriptGood
  <2>2. ASSUME NEW k \in TranscriptVendors \X Quarters PROVE Consistent(transcriptFile[k].transcript.turns)
    <3>1. CASE transcriptFile[k].state = "whole" BY <3>1 DEF TranscriptInv, FileGood, TranscriptGood, TranscriptKeys
    <3>2. CASE transcriptFile[k].state # "whole"
      <4>1. transcriptFile[k].transcript.turns = <<>> BY <3>2 DEF TranscriptInv, FileGood, TranscriptKeys, NoTranscript
      <4>2. Cardinality({}) = 0 /\ Guessed(<<>>, "ceo") = {} /\ Guessed(<<>>, "cfo") = {} BY FS_EmptySet DEF Guessed
      <4> HIDE DEF Guessed
      <4>3. Cardinality(Guessed(<<>>, "ceo")) = 0 /\ Cardinality(Guessed(<<>>, "cfo")) = 0 BY <4>2
      <4>4. Consistent(<<>>) BY <4>3 DEF Consistent
      <4> QED BY <4>1, <4>4
    <3> QED BY <3>1, <3>2
  <2> QED BY <2>1, <2>2 DEF TurnsAreConsistent, Held
<1> QED BY <1>1, <1>2, <1>3 DEF TranscriptsHold

\* For any calls, rows and readers: a transcript is of the period and of a
\* provider that was asked, and within it a speaker has one role, an office
\* one speaker, and questions come last (transcripts.py).
THEOREM TranscriptsSound == TranscriptSpec => [](TranscriptTypeOK /\ TranscriptsHold)
<1>1. TranscriptInit => TranscriptInv
  <2> SUFFICES ASSUME TranscriptInit PROVE TranscriptInv
    OBVIOUS
  <2>1. NoTranscript \in Transcripts BY SeqDef DEF NoTranscript, Transcripts
  <2>2. AbsentFile \in TranscriptFiles /\ \A k : FileGood(AbsentFile, k) BY <2>1 DEF AbsentFile, TranscriptFiles, FileGood
  <2>3. NotReading \in Readings /\ ReadingGood(NotReading) BY <2>1 DEF NotReading, Readings, ReadingGood
  <2> QED BY <2>2, <2>3 DEF TranscriptInit, TranscriptInv, TranscriptKeys
<1> QED BY <1>1, TranscriptStep, TranscriptInvImplies, PTL DEF TranscriptSpec

-----------------------------------------------------------------------------
(* BrowserSession *)

Everyone == Tabs \cup {Main}
Texts == {Nowhere} \cup {Site[url].text : url \in DOMAIN Site}
FoundAt == [url : DOMAIN Site, text : Texts]
Stops == {"none", "model_finished", "step_limit", "blocked", "enough_evidence", "checkpoint"}
TabStates == {"idle", "acting", "opened", "settled", "summing", "again"}
TabRows == [state : TabStates, act : Acts \cup {"none", "initial"}, url : {Nowhere} \cup DOMAIN Site, text : Texts]
SessionRows ==
    [step : Nat, ops : Nat, errors : Nat, visited : SUBSET DOMAIN Site, findings : Seq(FoundAt), stopped : Stops]

\* The actions at work, and those that may still count an error.
Busy == {t \in Everyone : tabs[t].state # "idle"}
Acting == {t \in Everyone : tabs[t].state = "acting"}

SessionTyped ==
    /\ page \in [url : {Nowhere} \cup DOMAIN Site, clear : BOOLEAN]
    /\ session \in SessionRows
    /\ tabs \in [Everyone -> TabRows]
    /\ opening \in 0..(Initials + 1)

\* Every action at work has a step that no finding uses yet, and one about to
\* act an operation that no error uses yet.
StepsCover ==
    /\ session.step <= MaxSteps
    /\ IsFiniteSet(Busy) /\ IsFiniteSet(Acting)
    /\ Len(session.findings) + Cardinality(Busy) <= session.step
    /\ session.errors + Cardinality(Acting) <= session.ops

\* What is being summed up was visited, and so was what was found.
VisitedFirst ==
    /\ \A i \in DOMAIN session.findings : session.findings[i].url \in session.visited
    /\ \A t \in Everyone : tabs[t].state \in {"summing", "again"} => tabs[t].url \in session.visited

\* The initial addresses come first, alone and not stopped.
InTurn ==
    /\ opening > 0 => session.stopped = "none" /\ \A t \in Tabs : tabs[t].state = "idle"
    /\ tabs[Main].state # "idle" => opening \in 1..Initials
    /\ \A t \in Everyone : tabs[t].state = "acting" => tabs[t].url \in DOMAIN Site

SessionInv == SessionTyped /\ StepsCover /\ VisitedFirst /\ InTurn

LEMMA InitialsNat == Initials \in Nat /\ \A i \in 1..Initials : InitialUrls[i] \in DOMAIN Site
<1> DEFINE n == Len(InitialUrls)
<1>1. n \in Nat /\ \A i \in 1..n : InitialUrls[i] \in DOMAIN Site BY BrowserAssumption
<1>2. Initials = IF n < 3 THEN n ELSE 3 BY DEF Initials
<1> HIDE DEF n
<1> QED BY <1>1, <1>2

LEMMA TextsKnown ==
    ASSUME SessionTyped
    PROVE  /\ Text(page) \in Texts
           /\ Kind(page) # "short" => page.url \in DOMAIN Site
           /\ page.url # Nowhere => page.url \in DOMAIN Site
<1> QED BY DEF SessionTyped, Text, Kind, Texts

LEMMA BrowserStarts == SessionInit => SessionInv
<1> SUFFICES ASSUME SessionInit PROVE SessionInv OBVIOUS
<1> USE DEF SessionInit
<1>1. Rest \in TabRows BY DEF Rest, TabRows, TabStates, Texts
<1>2. <<>> \in Seq(FoundAt) /\ Len(<<>>) = 0 OBVIOUS
<1>3. SessionTyped
  <2>1. page \in [url : {Nowhere} \cup DOMAIN Site, clear : BOOLEAN] BY DEF Blank
  <2>2. session \in SessionRows BY <1>2 DEF SessionRows, Stops
  <2>3. tabs \in [Everyone -> TabRows] BY <1>1 DEF Everyone
  <2>4. opening \in 0..(Initials + 1) BY InitialsNat
  <2> QED BY <2>1, <2>2, <2>3, <2>4 DEF SessionTyped
<1>4. \A t \in Everyone : tabs[t].state = "idle" BY DEF Everyone, Rest
<1>5. Busy = {} /\ Acting = {} BY <1>4 DEF Busy, Acting
<1>6. StepsCover BY <1>2, <1>5, FS_EmptySet, BrowserAssumption DEF StepsCover
<1>7. VisitedFirst BY <1>4, <1>2 DEF VisitedFirst
<1>8. InTurn BY <1>4, InitialsNat DEF InTurn, Everyone
<1> QED BY <1>3, <1>6, <1>7, <1>8 DEF SessionInv

\* The counts after one action begins, moves on or ends.
LEMMA OneBegins ==
    ASSUME SessionInv, NEW t \in Everyone, tabs[t].state = "idle", NEW row \in TabRows,
           row.state # "idle", tabs' = [tabs EXCEPT ![t] = row]
    PROVE  /\ IsFiniteSet(Busy') /\ IsFiniteSet(Acting')
           /\ Cardinality(Busy') = Cardinality(Busy) + 1
           /\ Cardinality(Acting') <= Cardinality(Acting) + 1
           /\ row.state # "acting" => Cardinality(Acting') = Cardinality(Acting)
           /\ Cardinality(Busy) \in Nat /\ Cardinality(Acting) \in Nat
           /\ Cardinality(Busy') \in Nat /\ Cardinality(Acting') \in Nat
<1>1. tabs \in [Everyone -> TabRows] /\ IsFiniteSet(Busy) /\ IsFiniteSet(Acting)
  BY DEF SessionInv, SessionTyped, StepsCover
<1>2. t \notin Busy /\ Busy' = Busy \cup {t} BY <1>1 DEF Busy
<1>3. t \notin Acting BY DEF Acting
<1>4. Acting' = IF row.state = "acting" THEN Acting \cup {t} ELSE Acting BY <1>1, <1>3 DEF Acting
<1>5. Cardinality(Busy) \in Nat /\ Cardinality(Acting) \in Nat BY <1>1, FS_CardinalityType
<1>6. IsFiniteSet(Busy \cup {t}) /\ Cardinality(Busy \cup {t}) = Cardinality(Busy) + 1 BY <1>1, <1>2, FS_AddElement
<1>7. IsFiniteSet(Acting \cup {t}) /\ Cardinality(Acting \cup {t}) = Cardinality(Acting) + 1
  BY <1>1, <1>3, FS_AddElement
<1>8. Cardinality(Acting) + 1 \in Nat BY <1>5
<1> QED BY <1>1, <1>2, <1>4, <1>5, <1>6, <1>7, <1>8

LEMMA OneMoves ==
    ASSUME SessionInv, NEW t \in Everyone, tabs[t].state # "idle", NEW row \in TabRows,
           row.state \notin {"idle", "acting"}, tabs' = [tabs EXCEPT ![t] = row]
    PROVE  /\ Busy' = Busy
           /\ IsFiniteSet(Busy') /\ IsFiniteSet(Acting')
           /\ Cardinality(Acting') =
                  IF tabs[t].state = "acting" THEN Cardinality(Acting) - 1 ELSE Cardinality(Acting)
           /\ Cardinality(Busy) \in Nat /\ Cardinality(Acting) \in Nat
           /\ Cardinality(Acting') \in Nat
<1>1. tabs \in [Everyone -> TabRows] /\ IsFiniteSet(Busy) /\ IsFiniteSet(Acting)
  BY DEF SessionInv, SessionTyped, StepsCover
<1>2. t \in Busy /\ Busy' = Busy BY <1>1 DEF Busy
<1>3. Acting' = Acting \ {t} BY <1>1 DEF Acting
<1>4. t \in Acting <=> tabs[t].state = "acting" BY DEF Acting
<1> QED BY <1>1, <1>2, <1>3, <1>4, FS_RemoveElement, FS_CardinalityType

LEMMA OneEnds ==
    ASSUME SessionInv, NEW t \in Everyone, tabs[t].state \notin {"idle", "acting"},
           tabs' = [tabs EXCEPT ![t] = Rest]
    PROVE  /\ IsFiniteSet(Busy') /\ IsFiniteSet(Acting')
           /\ Acting' = Acting
           /\ Cardinality(Busy') = Cardinality(Busy) - 1
           /\ Cardinality(Busy) \in Nat /\ Cardinality(Acting) \in Nat
           /\ Cardinality(Busy') \in Nat
<1>1. tabs \in [Everyone -> TabRows] /\ IsFiniteSet(Busy) /\ IsFiniteSet(Acting)
  BY DEF SessionInv, SessionTyped, StepsCover
<1>0. Rest.state = "idle" BY DEF Rest
<1>2. t \in Busy /\ Busy' = Busy \ {t} BY <1>0, <1>1 DEF Busy
<1>3. Acting' = Acting BY <1>0, <1>1 DEF Acting
<1> QED BY <1>1, <1>2, <1>3, FS_RemoveElement, FS_CardinalityType

LEMMA PagesOpen ==
    ASSUME SessionTyped, NEW url \in DOMAIN Site
    PROVE  Opened(url) \in [url : {Nowhere} \cup DOMAIN Site, clear : BOOLEAN]
BY BrowserAssumption DEF Opened, SessionTyped

\* The fields of the session after one of its changes.
LEMMA CountedSteps ==
    ASSUME NEW s \in SessionRows, NEW r, r = [s EXCEPT !.step = @ + 1, !.ops = @ + 1]
    PROVE  /\ r \in SessionRows
           /\ r.step = s.step + 1 /\ r.ops = s.ops + 1 /\ r.errors = s.errors
           /\ r.findings = s.findings /\ r.visited = s.visited /\ r.stopped = s.stopped
<1>1. /\ s = [step |-> s.step, ops |-> s.ops, errors |-> s.errors, visited |-> s.visited,
                findings |-> s.findings, stopped |-> s.stopped]
      /\ s.step \in Nat /\ s.ops \in Nat /\ s.errors \in Nat /\ s.visited \in SUBSET DOMAIN Site
      /\ s.findings \in Seq(FoundAt) /\ s.stopped \in Stops
  BY DEF SessionRows
<1>2. r = [step |-> s.step + 1, ops |-> s.ops + 1, errors |-> s.errors, visited |-> s.visited,
           findings |-> s.findings, stopped |-> s.stopped]
  BY <1>1
<1>3. s.step + 1 \in Nat /\ s.ops + 1 \in Nat BY <1>1
<1> QED BY <1>1, <1>2, <1>3 DEF SessionRows

\* One action more at work, one step more taken.
LEMMA OneMore ==
    ASSUME NEW found \in Nat, NEW busy \in Nat, NEW step \in Nat, found + busy <= step
    PROVE  found + (busy + 1) <= step + 1
OBVIOUS

LEMMA FirstVisited == ASSUME SessionInv, VisitInitial PROVE SessionInv'
<1>0. SessionTyped /\ StepsCover /\ VisitedFirst /\ InTurn BY DEF SessionInv
<1> DEFINE row == [Rest EXCEPT !.state = "opened", !.act = "initial"]
<1>1. row \in TabRows /\ row.state = "opened" BY DEF Rest, TabRows, TabStates, Texts
<1>2. /\ opening \in 1..Initials /\ session.step < MaxSteps /\ tabs[Main].state = "idle"
      /\ page' \in {page, Opened(InitialUrls[opening])}
      /\ session' = [session EXCEPT !.step = @ + 1, !.ops = @ + 1]
      /\ tabs' = [tabs EXCEPT ![Main] = row]
      /\ opening' = opening
  BY DEF VisitInitial, Interrupted
<1>3. Main \in Everyone /\ tabs \in [Everyone -> TabRows] BY <1>0 DEF Everyone, SessionTyped
<1> HIDE DEF row
<1>4. /\ IsFiniteSet(Busy') /\ IsFiniteSet(Acting')
      /\ Cardinality(Busy') = Cardinality(Busy) + 1 /\ Cardinality(Acting') = Cardinality(Acting)
      /\ Cardinality(Busy) \in Nat /\ Cardinality(Acting) \in Nat
  BY <1>1, <1>2, <1>3, OneBegins
<1>5. session \in SessionRows BY <1>0 DEF SessionTyped
<1>6. /\ session' \in SessionRows
      /\ session'.step = session.step + 1 /\ session'.ops = session.ops + 1 /\ session'.errors = session.errors
      /\ session'.findings = session.findings /\ session'.visited = session.visited
      /\ session'.stopped = session.stopped
  BY <1>2, <1>5, CountedSteps
<1>7. SessionTyped'
  <2>1. page' \in [url : {Nowhere} \cup DOMAIN Site, clear : BOOLEAN]
    BY <1>0, <1>2, InitialsNat, PagesOpen DEF SessionTyped
  <2> QED BY <1>0, <1>1, <1>2, <1>3, <1>6, <2>1 DEF SessionTyped
<1>8. StepsCover' 
  <2>1. Len(session.findings) \in Nat /\ session.step \in Nat /\ session.ops \in Nat /\ session.errors \in Nat
    BY <1>5 DEF SessionRows
  <2>2. session.step <= MaxSteps /\ session.step + 1 <= MaxSteps BY <1>2, <2>1, BrowserAssumption
  <2>3. Len(session.findings) + Cardinality(Busy) <= session.step /\ session.errors + Cardinality(Acting) <= session.ops
    BY <1>0 DEF StepsCover
  <2>4. Len(session'.findings) + Cardinality(Busy') <= session'.step
    BY ONLY <1>4, <1>6, <2>1, <2>3, OneMore
  <2>5. session'.errors + Cardinality(Acting') <= session'.ops
    BY <1>4, <1>6, <2>1, <2>3
  <2> QED BY <1>4, <1>6, <2>2, <2>4, <2>5 DEF StepsCover
<1>9. VisitedFirst' BY <1>0, <1>1, <1>2, <1>3, <1>6 DEF VisitedFirst
<1>10. InTurn'
  <2>1. opening > 0 BY <1>2, InitialsNat
  <2>2. \A t \in Tabs : t # Main /\ t \in Everyone BY BrowserAssumption DEF Main, Everyone
  <2>3. \A t \in Everyone : tabs'[t] = IF t = Main THEN row ELSE tabs[t] BY <1>2, <1>3
  <2>4. \A t \in Tabs : tabs'[t].state = "idle" BY <1>0, <2>1, <2>2, <2>3 DEF InTurn
  <2>5. session'.stopped = "none" BY <1>0, <1>6, <2>1 DEF InTurn
  <2>6. \A t \in Everyone : tabs'[t].state # "acting"
    BY <1>1, <2>3, <2>4 DEF Everyone
  <2> QED BY <1>2, <2>4, <2>5, <2>6 DEF InTurn
<1> QED BY <1>7, <1>8, <1>9, <1>10 DEF SessionInv

LEMMA FirstsEnd == ASSUME SessionInv, InitialsEnd PROVE SessionInv'
<1>0. SessionTyped /\ StepsCover /\ VisitedFirst /\ InTurn BY DEF SessionInv
<1>1. page' = page /\ session' = session /\ tabs' = tabs /\ opening' = 0 /\ tabs[Main].state = "idle"
  BY DEF InitialsEnd
<1>2. Busy' = Busy /\ Acting' = Acting BY <1>1 DEF Busy, Acting
<1>3. SessionTyped' BY <1>0, <1>1, InitialsNat DEF SessionTyped
<1>4. StepsCover' BY <1>0, <1>1, <1>2 DEF StepsCover
<1>5. VisitedFirst' BY <1>0, <1>1 DEF VisitedFirst
<1>6. InTurn' BY <1>0, <1>1 DEF InTurn
<1> QED BY <1>3, <1>4, <1>5, <1>6 DEF SessionInv

LEMMA ActionStarts == ASSUME SessionInv, NEW t \in Tabs, StartAction(t) PROVE SessionInv'
<1>0. SessionTyped /\ StepsCover /\ VisitedFirst /\ InTurn BY DEF SessionInv
<1>1. PICK act \in Acts, url \in DOMAIN Site :
        tabs' = [tabs EXCEPT ![t] = [Rest EXCEPT !.state = "acting", !.act = act, !.url = url]]
  BY DEF StartAction
<1> DEFINE row == [Rest EXCEPT !.state = "acting", !.act = act, !.url = url]
<1>2. row \in TabRows /\ row.state = "acting" /\ row.url \in DOMAIN Site
  BY DEF Rest, TabRows, TabStates, Texts
<1>3. /\ opening = 0 /\ tabs[t].state = "idle" /\ session.stopped = "none" /\ session.step < MaxSteps
      /\ session' = [session EXCEPT !.step = @ + 1, !.ops = @ + 1]
      /\ tabs' = [tabs EXCEPT ![t] = row] /\ page' = page /\ opening' = opening
  BY <1>1 DEF StartAction, MayAct
<1>4. t \in Everyone /\ t # Main /\ tabs \in [Everyone -> TabRows] BY <1>0, BrowserAssumption DEF Everyone, SessionTyped, Main
<1> HIDE DEF row
<1>5. /\ IsFiniteSet(Busy') /\ IsFiniteSet(Acting')
      /\ Cardinality(Busy') = Cardinality(Busy) + 1 /\ Cardinality(Acting') <= Cardinality(Acting) + 1
      /\ Cardinality(Busy) \in Nat /\ Cardinality(Acting) \in Nat /\ Cardinality(Acting') \in Nat
  BY <1>2, <1>3, <1>4, OneBegins
<1>6. session \in SessionRows BY <1>0 DEF SessionTyped
<1>7. /\ session' \in SessionRows
      /\ session'.step = session.step + 1 /\ session'.ops = session.ops + 1 /\ session'.errors = session.errors
      /\ session'.findings = session.findings /\ session'.visited = session.visited
      /\ session'.stopped = session.stopped
  BY <1>3, <1>6, CountedSteps
<1>8. SessionTyped' BY <1>0, <1>2, <1>3, <1>4, <1>7 DEF SessionTyped
<1>9. StepsCover'
  <2>1. Len(session.findings) \in Nat /\ session.step \in Nat /\ session.ops \in Nat /\ session.errors \in Nat
    BY <1>6 DEF SessionRows
  <2>2. session.step <= MaxSteps /\ session.step + 1 <= MaxSteps BY <1>3, <2>1, BrowserAssumption
  <2>3. Len(session.findings) + Cardinality(Busy) <= session.step /\ session.errors + Cardinality(Acting) <= session.ops
    BY <1>0 DEF StepsCover
  <2>4. Len(session'.findings) + Cardinality(Busy') <= session'.step BY ONLY <1>5, <1>7, <2>1, <2>3, OneMore
  <2>5. session.errors + Cardinality(Acting') <= session.ops + 1 BY <1>5, <2>1, <2>3
  <2> QED BY <1>5, <1>7, <2>2, <2>4, <2>5 DEF StepsCover
<1>10. VisitedFirst' BY <1>0, <1>2, <1>3, <1>4, <1>7 DEF VisitedFirst
<1>11. InTurn' BY <1>0, <1>2, <1>3, <1>4, <1>7 DEF InTurn
<1> QED BY <1>8, <1>9, <1>10, <1>11 DEF SessionInv

LEMMA StopSet ==
    ASSUME SessionInv, opening = 0, opening' = opening, page' = page, tabs' = tabs,
           NEW reason \in Stops, session' = [session EXCEPT !.stopped = reason]
    PROVE  SessionInv'
<1>0. SessionTyped /\ StepsCover /\ VisitedFirst /\ InTurn BY DEF SessionInv
<1>1. session \in SessionRows BY <1>0 DEF SessionTyped
<1>2. /\ session' \in SessionRows
      /\ session'.step = session.step /\ session'.ops = session.ops /\ session'.errors = session.errors
      /\ session'.findings = session.findings /\ session'.visited = session.visited
  BY <1>1 DEF SessionRows
<1>3. Busy' = Busy /\ Acting' = Acting BY DEF Busy, Acting
<1>4. SessionTyped' BY <1>0, <1>2 DEF SessionTyped
<1>5. StepsCover' BY <1>0, <1>2, <1>3 DEF StepsCover
<1>6. VisitedFirst' BY <1>0, <1>2 DEF VisitedFirst
<1>7. InTurn' BY <1>0, <1>2 DEF InTurn
<1> QED BY <1>4, <1>5, <1>6, <1>7 DEF SessionInv

LEMMA Missed ==
    ASSUME NEW s \in SessionRows, NEW r, r = [s EXCEPT !.errors = @ + 1]
    PROVE  /\ r \in SessionRows
           /\ r.step = s.step /\ r.ops = s.ops /\ r.errors = s.errors + 1
           /\ r.findings = s.findings /\ r.visited = s.visited /\ r.stopped = s.stopped
<1>1. /\ s = [step |-> s.step, ops |-> s.ops, errors |-> s.errors, visited |-> s.visited,
                findings |-> s.findings, stopped |-> s.stopped]
      /\ s.step \in Nat /\ s.ops \in Nat /\ s.errors \in Nat /\ s.visited \in SUBSET DOMAIN Site
      /\ s.findings \in Seq(FoundAt) /\ s.stopped \in Stops
  BY DEF SessionRows
<1>2. r = [step |-> s.step, ops |-> s.ops, errors |-> s.errors + 1, visited |-> s.visited,
           findings |-> s.findings, stopped |-> s.stopped]
  BY <1>1
<1>3. s.errors + 1 \in Nat BY <1>1
<1> QED BY <1>1, <1>2, <1>3 DEF SessionRows

\* An action moves on: it counts an error only when it was about to act, and
\* what it is to sum up was visited.
LEMMA ActionMoves ==
    ASSUME SessionInv, NEW t \in Everyone, tabs[t].state # "idle", NEW row \in TabRows,
           row.state \notin {"idle", "acting"}, tabs' = [tabs EXCEPT ![t] = row],
           page' \in [url : {Nowhere} \cup DOMAIN Site, clear : BOOLEAN], opening' = opening,
           session' \in SessionRows, session'.step = session.step, session'.ops = session.ops,
           session'.findings = session.findings, session'.stopped = session.stopped,
           session.visited \subseteq session'.visited,
           session'.errors = session.errors
             \/ (session'.errors = session.errors + 1 /\ tabs[t].state = "acting"),
           row.state \in {"summing", "again"} => row.url \in session'.visited
    PROVE  SessionInv'
<1>0. SessionTyped /\ StepsCover /\ VisitedFirst /\ InTurn BY DEF SessionInv
<1>1. tabs \in [Everyone -> TabRows] /\ session \in SessionRows BY <1>0 DEF SessionTyped
<1>2. /\ Busy' = Busy /\ IsFiniteSet(Busy') /\ IsFiniteSet(Acting')
      /\ Cardinality(Acting') =
             IF tabs[t].state = "acting" THEN Cardinality(Acting) - 1 ELSE Cardinality(Acting)
      /\ Cardinality(Busy) \in Nat /\ Cardinality(Acting) \in Nat /\ Cardinality(Acting') \in Nat
  BY OneMoves
<1>3. SessionTyped' BY <1>0, <1>1 DEF SessionTyped
<1>4. StepsCover'
  <2>1. session.step \in Nat /\ session.ops \in Nat /\ session.errors \in Nat BY <1>1 DEF SessionRows
  <2>2. session.errors + Cardinality(Acting) <= session.ops BY <1>0 DEF StepsCover
  <2>3. session'.errors + Cardinality(Acting') <= session'.ops BY <1>2, <2>1, <2>2
  <2> QED BY <1>0, <1>2, <2>3 DEF StepsCover
<1>5. VisitedFirst' BY <1>0, <1>1 DEF VisitedFirst
<1>6. InTurn'
  <2>1. \A u \in Everyone : tabs'[u] = IF u = t THEN row ELSE tabs[u] BY <1>1
  <2>2. opening > 0 => t = Main BY <1>0 DEF InTurn, Everyone
  <2>3. \A u \in Tabs : u # Main /\ u \in Everyone BY BrowserAssumption DEF Main, Everyone
  <2>4. opening > 0 => session'.stopped = "none" /\ \A u \in Tabs : tabs'[u].state = "idle"
    BY <1>0, <2>1, <2>2, <2>3 DEF InTurn
  <2>5. Main \in Everyone BY DEF Everyone
  <2>6. tabs'[Main].state # "idle" => opening \in 1..Initials BY <1>0, <2>1, <2>5 DEF InTurn
  <2>7. \A u \in Everyone : tabs'[u].state = "acting" => tabs'[u].url \in DOMAIN Site BY <1>0, <2>1 DEF InTurn
  <2> QED BY <2>4, <2>6, <2>7 DEF InTurn
<1> QED BY <1>3, <1>4, <1>5, <1>6 DEF SessionInv

LEMMA ActionLands == ASSUME SessionInv, NEW t \in Tabs, Act(t) PROVE SessionInv'
<1>0. SessionTyped /\ InTurn BY DEF SessionInv
<1>1. t \in Everyone /\ tabs[t] \in TabRows /\ session \in SessionRows BY <1>0 DEF SessionTyped, Everyone
<1> DEFINE row == [tabs[t] EXCEPT !.state = "opened"]
           AllPages == [url : {Nowhere} \cup DOMAIN Site, clear : BOOLEAN]
<1>2. row \in TabRows /\ row.state = "opened" BY <1>1 DEF TabRows, TabStates
<1>3. tabs[t].state = "acting" /\ tabs[t].url \in DOMAIN Site BY <1>0, <1>1 DEF Act, InTurn
<1>4. /\ tabs' = [tabs EXCEPT ![t] = row] /\ opening' = opening
      /\ session' = session \/ session' = [session EXCEPT !.errors = @ + 1]
  BY DEF Act
<1>5. page' \in AllPages
  <2>1. page \in AllPages BY <1>0 DEF SessionTyped
  <2>2. Opened(tabs[t].url) \in AllPages BY <1>0, <1>3, PagesOpen
  <2>3. page.url \in DOMAIN Links => [url |-> Links[page.url], clear |-> FALSE] \in AllPages
    BY BrowserAssumption
  <2>4. \/ page' = page \/ page' = Opened(tabs[t].url)
        \/ page.url \in DOMAIN Links /\ page' = [url |-> Links[page.url], clear |-> FALSE]
    BY DEF Act, Interrupted
  <2> QED BY <2>1, <2>2, <2>3, <2>4
<1>6. /\ session' \in SessionRows /\ session'.step = session.step /\ session'.ops = session.ops
      /\ session'.findings = session.findings /\ session'.stopped = session.stopped
      /\ session'.visited = session.visited
      /\ session'.errors = session.errors \/ session'.errors = session.errors + 1
  BY <1>1, <1>4, Missed
<1> HIDE DEF row, AllPages
<1> QED BY <1>1, <1>2, <1>3, <1>4, <1>5, <1>6, ActionMoves DEF AllPages

LEMMA ActionSettles == ASSUME SessionInv, NEW t \in Everyone, Settle(t) PROVE SessionInv'
<1>0. SessionTyped BY DEF SessionInv
<1>1. tabs[t] \in TabRows /\ session \in SessionRows BY <1>0 DEF SessionTyped
<1> DEFINE row == [tabs[t] EXCEPT !.state = "settled"]
<1>2. row \in TabRows /\ row.state = "settled" BY <1>1 DEF TabRows, TabStates
<1>3. /\ tabs' = [tabs EXCEPT ![t] = row] /\ opening' = opening /\ session' = session
      /\ tabs[t].state = "opened"
  BY DEF Settle
<1>4. page' \in [url : {Nowhere} \cup DOMAIN Site, clear : BOOLEAN]
  BY <1>0 DEF Settle, Dismissed, SessionTyped
<1> HIDE DEF row
<1> QED BY <1>1, <1>2, <1>3, <1>4, ActionMoves

LEMMA LookedAt ==
    ASSUME SessionInv
    PROVE  /\ Looked \in SessionRows /\ Looked.step = session.step /\ Looked.ops = session.ops
           /\ Looked.errors = session.errors /\ Looked.findings = session.findings
           /\ Looked.stopped = session.stopped /\ session.visited \subseteq Looked.visited
           /\ page.url # Nowhere => page.url \in Looked.visited
<1>0. SessionTyped BY DEF SessionInv
<1>1. session \in SessionRows BY <1>0 DEF SessionTyped
<1>2. page.url # Nowhere => page.url \in DOMAIN Site BY <1>0, TextsKnown
<1> QED BY <1>1, <1>2 DEF Looked, SessionRows

LEMMA PageLookedAt == ASSUME SessionInv, NEW t \in Everyone, LookAtPage(t) PROVE SessionInv'
<1>0. SessionTyped BY DEF SessionInv
<1>1. tabs[t] \in TabRows BY <1>0 DEF SessionTyped
<1>2. Kind(page) \in {"content", "consent"} /\ page.url \in DOMAIN Site /\ Text(page) \in Texts
  BY <1>0, TextsKnown DEF LookAtPage
<1>3. page.url # Nowhere BY <1>2 DEF Kind
<1>4. PICK state \in {"summing", "again"} :
        /\ tabs' = [tabs EXCEPT ![t] = [@ EXCEPT !.state = state, !.url = page.url, !.text = Text(page)]]
        /\ page' = page \/ page' \in Dismissed(page)
  BY DEF LookAtPage
<1> DEFINE row == [tabs[t] EXCEPT !.state = state, !.url = page.url, !.text = Text(page)]
<1>5. row \in TabRows /\ row.state = state /\ row.url = page.url
  BY <1>1, <1>2 DEF TabRows, TabStates
<1>6. tabs' = [tabs EXCEPT ![t] = row] BY <1>4
<1>7. session' = Looked /\ opening' = opening /\ tabs[t].state = "settled" BY DEF LookAtPage
<1>8. page' \in [url : {Nowhere} \cup DOMAIN Site, clear : BOOLEAN]
  BY <1>0, <1>4 DEF Dismissed, SessionTyped
<1> HIDE DEF row
<1> QED BY <1>3, <1>5, <1>6, <1>7, <1>8, LookedAt, ActionMoves

\* An action ends, with a session s that has a finding more or not.
LEMMA ActionEnds ==
    ASSUME SessionInv, NEW t \in Everyone, tabs[t].state \notin {"idle", "acting"},
           NEW s \in SessionRows, s.step = session.step, s.ops = session.ops, s.errors = session.errors,
           s.stopped = session.stopped, session.visited \subseteq s.visited,
           Len(s.findings) <= Len(session.findings) + 1,
           \A i \in DOMAIN s.findings : s.findings[i].url \in s.visited,
           page' = page, Ended(t, s)
    PROVE  SessionInv'
<1>0. SessionTyped /\ StepsCover /\ VisitedFirst /\ InTurn BY DEF SessionInv
<1>1. tabs \in [Everyone -> TabRows] /\ session \in SessionRows BY <1>0 DEF SessionTyped
<1>2. tabs' = [tabs EXCEPT ![t] = Rest] BY DEF Ended
<1>3. /\ IsFiniteSet(Busy') /\ IsFiniteSet(Acting') /\ Acting' = Acting
      /\ Cardinality(Busy') = Cardinality(Busy) - 1
      /\ Cardinality(Busy) \in Nat /\ Cardinality(Acting) \in Nat /\ Cardinality(Busy') \in Nat
  BY <1>2, OneEnds
<1>4. Rest \in TabRows /\ Rest.state = "idle" BY DEF Rest, TabRows, TabStates, Texts
<1>5. /\ session' \in SessionRows /\ session'.step = s.step /\ session'.ops = s.ops
      /\ session'.errors = s.errors /\ session'.findings = s.findings /\ session'.visited = s.visited
      /\ t = Main => session' = s
  <2>1. CASE t = Main BY <2>1 DEF Ended
  <2>2. CASE t # Main
    <3>1. PICK reason \in StopReason(s) : session' = [s EXCEPT !.stopped = reason] BY <2>2 DEF Ended
    <3>2. reason \in Stops BY BrowserAssumption DEF StopReason, Stops, SessionRows
    <3> QED BY <2>2, <3>1, <3>2 DEF SessionRows
  <2> QED BY <2>1, <2>2
<1>6. IF t = Main THEN opening \in 1..Initials /\ opening' = opening + 1 ELSE opening = 0 /\ opening' = opening
  <2>1. t = Main => opening \in 1..Initials BY <1>0 DEF InTurn
  <2>2. t # Main => ~(opening > 0) BY <1>0 DEF InTurn, Everyone
  <2>3. opening \in Nat BY <1>0, InitialsNat DEF SessionTyped
  <2> QED BY <2>1, <2>2, <2>3 DEF Ended
<1>7. SessionTyped' BY <1>0, <1>1, <1>2, <1>4, <1>5, <1>6, InitialsNat DEF SessionTyped
<1>8. StepsCover'
  <2>1. session.step \in Nat /\ Len(session.findings) \in Nat /\ Len(s.findings) \in Nat BY <1>1 DEF SessionRows
  <2>2. Len(session.findings) + Cardinality(Busy) <= session.step BY <1>0 DEF StepsCover
  <2>3. Len(session'.findings) + Cardinality(Busy') <= session'.step BY <1>3, <1>5, <2>1, <2>2
  <2> QED BY <1>0, <1>3, <1>5, <2>3 DEF StepsCover
<1>9. \A u \in Everyone : tabs'[u] = IF u = t THEN Rest ELSE tabs[u] BY <1>1, <1>2
<1>10. VisitedFirst' BY <1>0, <1>4, <1>5, <1>9 DEF VisitedFirst
<1>11. InTurn'
  <2>1. Main \in Everyone /\ \A u \in Tabs : u # Main /\ u \in Everyone BY BrowserAssumption DEF Main, Everyone
  <2>2. CASE t = Main
    <3>1. opening > 0 BY <1>6, <2>2, InitialsNat
    <3> QED BY <1>0, <1>4, <1>5, <1>9, <2>1, <2>2, <3>1 DEF InTurn
  <2>3. CASE t # Main
    <3>1. ~(opening' > 0) BY <1>6, <2>3
    <3> QED BY <1>0, <1>4, <1>6, <1>9, <2>1, <2>3, <3>1 DEF InTurn
  <2> QED BY <2>2, <2>3
<1> QED BY <1>7, <1>8, <1>10, <1>11 DEF SessionInv

LEMMA SkipEnds == ASSUME SessionInv, NEW t \in Everyone, Skip(t) PROVE SessionInv'
<1>0. SessionTyped /\ VisitedFirst BY DEF SessionInv
<1>1. session \in SessionRows BY <1>0 DEF SessionTyped
<1>2. PICK s \in {session, Looked} : Ended(t, s) BY DEF Skip
<1>3. /\ s \in SessionRows /\ s.step = session.step /\ s.ops = session.ops /\ s.errors = session.errors
      /\ s.stopped = session.stopped /\ session.visited \subseteq s.visited /\ s.findings = session.findings
  BY <1>1, LookedAt
<1>4. Len(s.findings) <= Len(session.findings) + 1
  <2>1. Len(session.findings) \in Nat BY <1>1 DEF SessionRows
  <2> QED BY <1>3, <2>1
<1>5. \A i \in DOMAIN s.findings : s.findings[i].url \in s.visited BY <1>0, <1>3 DEF VisitedFirst
<1>6. page' = page /\ tabs[t].state = "settled" BY DEF Skip
<1> QED BY <1>2, <1>3, <1>4, <1>5, <1>6, ActionEnds

LEMMA SameSession ==
    ASSUME SessionInv
    PROVE  /\ session \in SessionRows /\ Len(session.findings) <= Len(session.findings) + 1
           /\ \A i \in DOMAIN session.findings : session.findings[i].url \in session.visited
<1>1. session \in SessionRows BY DEF SessionInv, SessionTyped
<1>2. Len(session.findings) \in Nat BY <1>1 DEF SessionRows
<1> QED BY <1>1, <1>2 DEF SessionInv, VisitedFirst

LEMMA LookedAgain == ASSUME SessionInv, NEW t \in Everyone, LookAgain(t) PROVE SessionInv'
<1>0. SessionTyped /\ VisitedFirst BY DEF SessionInv
<1>1. tabs[t].state = "again" /\ page' = page BY DEF LookAgain
<1>2. CASE Ended(t, session) BY <1>1, <1>2, SameSession, ActionEnds
<1>3. CASE ~Ended(t, session)
  <2>1. tabs[t] \in TabRows /\ tabs[t].url \in session.visited /\ session \in SessionRows
    BY <1>0, <1>1 DEF SessionTyped, VisitedFirst
  <2> DEFINE row == [tabs[t] EXCEPT !.state = "summing", !.text = Text(page)]
  <2>2. row \in TabRows /\ row.state = "summing" /\ row.url = tabs[t].url
    BY <1>0, <2>1, TextsKnown DEF TabRows, TabStates
  <2>3. tabs' = [tabs EXCEPT ![t] = row] /\ session' = session /\ opening' = opening BY <1>3 DEF LookAgain
  <2>4. page' \in [url : {Nowhere} \cup DOMAIN Site, clear : BOOLEAN] BY <1>0, <1>1 DEF SessionTyped
  <2> HIDE DEF row
  <2> QED BY <1>1, <2>1, <2>2, <2>3, <2>4, ActionMoves
<1> QED BY <1>2, <1>3

LEMMA FindingRecorded == ASSUME SessionInv, NEW t \in Everyone, Record(t) PROVE SessionInv'
<1>0. SessionTyped /\ VisitedFirst BY DEF SessionInv
<1>1. tabs[t].state = "summing" /\ page' = page BY DEF Record
<1>2. CASE Ended(t, session) BY <1>1, <1>2, SameSession, ActionEnds
<1>3. CASE ~Ended(t, session)
  <2>1. tabs[t] \in TabRows /\ tabs[t].url \in session.visited /\ session \in SessionRows
    BY <1>0, <1>1 DEF SessionTyped, VisitedFirst
  <2> DEFINE finding == [url |-> tabs[t].url, text |-> tabs[t].text]
             s == [session EXCEPT !.findings = Append(session.findings, finding)]
  <2>2. session.findings \in Seq(FoundAt) /\ session.visited \subseteq DOMAIN Site BY <2>1 DEF SessionRows
  <2>3. finding \in FoundAt /\ finding.url \in session.visited BY <2>1, <2>2 DEF FoundAt, TabRows
  <2> HIDE DEF finding
  <2>4. /\ Append(session.findings, finding) \in Seq(FoundAt)
        /\ Len(Append(session.findings, finding)) <= Len(session.findings) + 1
        /\ \A i \in DOMAIN Append(session.findings, finding) :
              Append(session.findings, finding)[i].url \in session.visited
    BY <2>2, <2>3, SameSession
  <2>5. /\ s \in SessionRows /\ s.step = session.step /\ s.ops = session.ops /\ s.errors = session.errors
        /\ s.stopped = session.stopped /\ s.visited = session.visited
        /\ s.findings = Append(session.findings, finding)
    BY <2>1, <2>4 DEF SessionRows
  <2>6. Ended(t, s) BY <1>3 DEF Record, Found, finding
  <2> HIDE DEF s
  <2> QED BY <1>1, <2>4, <2>5, <2>6, ActionEnds
<1> QED BY <1>2, <1>3

LEMMA SessionSteps == SessionInv /\ [SessionNext]_sessionVars => SessionInv'
<1> SUFFICES ASSUME SessionInv, [SessionNext]_sessionVars PROVE SessionInv' OBVIOUS
<1>1. CASE VisitInitial BY <1>1, FirstVisited
<1>2. CASE InitialsEnd BY <1>2, FirstsEnd
<1>3. ASSUME NEW t \in Tabs, StartAction(t) PROVE SessionInv' BY <1>3, ActionStarts
<1>4. ASSUME NEW t \in Tabs, StopChosen(t) \/ LimitSeen(t) PROVE SessionInv'
  BY <1>4, StopSet DEF StopChosen, LimitSeen, Stops
<1>5. ASSUME NEW t \in Tabs, Act(t) PROVE SessionInv' BY <1>5, ActionLands
<1>6. ASSUME NEW t \in Everyone, Settle(t) PROVE SessionInv' BY <1>6, ActionSettles
<1>7. ASSUME NEW t \in Everyone, Skip(t) PROVE SessionInv' BY <1>7, SkipEnds
<1>8. ASSUME NEW t \in Everyone, LookAtPage(t) PROVE SessionInv' BY <1>8, PageLookedAt
<1>9. ASSUME NEW t \in Everyone, LookAgain(t) PROVE SessionInv' BY <1>9, LookedAgain
<1>10. ASSUME NEW t \in Everyone, Record(t) PROVE SessionInv' BY <1>10, FindingRecorded
<1>11. CASE UNCHANGED sessionVars
  <2>1. Busy' = Busy /\ Acting' = Acting BY <1>11 DEF Busy, Acting, sessionVars
  <2> QED BY <1>11, <2>1 DEF sessionVars, SessionInv, SessionTyped, StepsCover, VisitedFirst, InTurn
<1> QED BY <1>1, <1>2, <1>3, <1>4, <1>5, <1>6, <1>7, <1>8, <1>9, <1>10, <1>11 DEF SessionNext, Everyone

LEMMA SessionInvSuffices == SessionInv => SessionTypeOK /\ BrowsingIsBounded
<1> SUFFICES ASSUME SessionInv PROVE SessionTypeOK /\ BrowsingIsBounded OBVIOUS
<1>0. SessionTyped /\ StepsCover /\ VisitedFirst BY DEF SessionInv
<1>1. session \in SessionRows BY <1>0 DEF SessionTyped
<1>2. session.step \in Nat /\ session.ops \in Nat /\ session.errors \in Nat /\ Len(session.findings) \in Nat
  BY <1>1 DEF SessionRows
<1>3. Cardinality(Busy) \in Nat /\ Cardinality(Acting) \in Nat BY <1>0, FS_CardinalityType DEF StepsCover
<1>4. session.errors <= session.ops /\ Len(session.findings) <= session.step
  BY <1>0, <1>2, <1>3 DEF StepsCover
<1>5. SessionTypeOK
  BY <1>0, <1>1, <1>2, <1>4 DEF SessionTypeOK, SessionTyped, SessionRows
<1>6. BrowsingIsBounded BY <1>0, <1>4 DEF BrowsingIsBounded, StepsCover, VisitedFirst
<1> QED BY <1>5, <1>6

\* A session that was stopped counts no step and is not started again.
LEMMA StopsAreFinal ==
    ASSUME SessionInv, [SessionNext]_sessionVars PROVE StopIsFinal
<1>0. SessionTyped /\ InTurn BY DEF SessionInv
<1>1. session \in SessionRows BY <1>0 DEF SessionTyped
<1>2. SUFFICES ASSUME session.stopped # "none"
               PROVE  session'.step = session.step /\ session'.stopped # "none"
  BY DEF StopIsFinal
<1>3. CASE VisitInitial
  <2>1. opening > 0 BY <1>3, InitialsNat DEF VisitInitial
  <2> QED BY <1>0, <1>2, <2>1 DEF InTurn
<1>4. CASE InitialsEnd BY <1>2, <1>4 DEF InitialsEnd
<1>5. ASSUME NEW t \in Tabs, StartAction(t) PROVE FALSE BY <1>2, <1>5 DEF StartAction, MayAct
<1>6. ASSUME NEW t \in Tabs, StopChosen(t) \/ LimitSeen(t) PROVE FALSE BY <1>2, <1>6 DEF StopChosen, LimitSeen
<1>7. ASSUME NEW t \in Tabs, Act(t) PROVE session'.step = session.step /\ session'.stopped # "none"
  <2>1. session' = session \/ session' = [session EXCEPT !.errors = @ + 1] BY <1>7 DEF Act
  <2> QED BY <1>1, <1>2, <2>1, Missed
<1>8. ASSUME NEW t \in Everyone, Settle(t) PROVE session' = session BY <1>8 DEF Settle
<1>9. ASSUME NEW t \in Everyone, LookAtPage(t) PROVE session' = Looked BY <1>9 DEF LookAtPage
<1>10. ASSUME NEW t \in Everyone, NEW s \in SessionRows, s.step = session.step, s.stopped = session.stopped, Ended(t, s)
       PROVE session'.step = session.step /\ session'.stopped # "none"
  <2>1. CASE t = Main BY <1>2, <1>10, <2>1 DEF Ended
  <2>2. CASE t # Main
    <3>1. PICK reason \in StopReason(s) : session' = [s EXCEPT !.stopped = reason] BY <1>10, <2>2 DEF Ended
    <3>2. reason # "none" BY <1>2, <1>10 DEF StopReason
    <3> QED BY <1>10, <3>1, <3>2 DEF SessionRows
  <2> QED BY <2>1, <2>2
<1>11. ASSUME NEW t \in Everyone, Skip(t) PROVE session'.step = session.step /\ session'.stopped # "none"
  <2>1. PICK s \in {session, Looked} : Ended(t, s) BY <1>11 DEF Skip
  <2>2. s \in SessionRows /\ s.step = session.step /\ s.stopped = session.stopped BY <1>1, LookedAt
  <2> QED BY <1>10, <2>1, <2>2
<1>12. ASSUME NEW t \in Everyone, LookAgain(t) PROVE session'.step = session.step /\ session'.stopped # "none"
  BY <1>1, <1>2, <1>10, <1>12 DEF LookAgain
<1>13. ASSUME NEW t \in Everyone, Record(t) PROVE session'.step = session.step /\ session'.stopped # "none"
  <2>1. CASE Ended(t, session) BY <1>1, <1>10, <2>1
  <2>2. CASE Ended(t, [session EXCEPT !.findings = Found(t)])
    <3> DEFINE s == [session EXCEPT !.findings = Found(t)]
    <3>1. Found(t) \in Seq(FoundAt)
      <4>1. tabs[t] \in TabRows /\ tabs[t].url \in session.visited
        BY <1>0, <1>13 DEF SessionTyped, SessionInv, VisitedFirst, Record
      <4>2. session.visited \subseteq DOMAIN Site /\ session.findings \in Seq(FoundAt) BY <1>1 DEF SessionRows
      <4>3. [url |-> tabs[t].url, text |-> tabs[t].text] \in FoundAt BY <4>1, <4>2 DEF FoundAt, TabRows
      <4> QED BY <4>2, <4>3 DEF Found
    <3>2. s \in SessionRows /\ s.step = session.step /\ s.stopped = session.stopped BY <1>1, <3>1 DEF SessionRows
    <3> HIDE DEF s
    <3>3. Ended(t, s) BY <2>2 DEF s
    <3> QED BY <1>10, <3>2, <3>3
  <2> QED BY <1>13, <2>1, <2>2 DEF Record
<1>14. CASE UNCHANGED sessionVars BY <1>2, <1>14 DEF sessionVars
<1>15. session.step = Looked.step /\ Looked.stopped = session.stopped BY LookedAt
<1> QED BY <1>2, <1>3, <1>4, <1>5, <1>6, <1>7, <1>8, <1>9, <1>11, <1>12, <1>13, <1>14, <1>15 DEF SessionNext, Everyone

\* The steps of a session, and what they rest on, hold throughout.
THEOREM BrowsingSound == SessionSpec => []SessionTypeOK /\ [][BrowsingHolds]_sessionVars
<1>1. SessionInv /\ [SessionNext]_sessionVars => StopIsFinal BY StopsAreFinal
<1> QED BY <1>1, BrowserStarts, SessionSteps, SessionInvSuffices, PTL DEF SessionSpec, BrowsingHolds

-----------------------------------------------------------------------------
(* ToolCatalogue *)

Phases == {"thinking", "calling", "answered", "failed"}
ToolRuns == [phase : Phases, grant : Grants, scope : ToolScopes, round : 0..MaxToolRounds, graph : GraphSources]
ToolsAsked == {q.tool : q \in ToolRequests}
ToolEvents ==
    [call : ToolCalls, round : 0..MaxToolRounds, tool : ToolsAsked, status : {"success", "failed"}, truncated : BOOLEAN]
DoneCalls == {c \in ToolCalls : toolCalls[c].state = "done"}

ToolTyped ==
    /\ toolRun \in ToolRuns
    /\ DOMAIN toolCalls = ToolCalls
    /\ \A c \in ToolCalls :
         /\ DOMAIN toolCalls[c] = {"state", "request", "envelope"}
         /\ toolCalls[c].state \in {"unused", "running", "done"}
         /\ toolCalls[c].state # "unused" => toolCalls[c].request \in ToolRequests
         /\ toolCalls[c].state # "done" => toolCalls[c].envelope.status = "failed"
    /\ toolEvents \in Seq(ToolEvents)
    /\ browsing \subseteq ToolCalls

\* As many events as calls that are done, none at work but in a round, and no
\* more calls than a run may make.
CallsCounted ==
    /\ Len(toolEvents) = Cardinality(DoneCalls)
    /\ toolRun.phase # "calling" => RunningCalls = {}
    /\ Cardinality(UsedCalls) <= MaxTotalToolCalls

ToolInv == ToolTyped /\ CallsCounted /\ Audited /\ OnlyGrantedBrowse /\ FilingsAreAsked

LEMMA ToolsStart == ToolInit => ToolInv
<1> SUFFICES ASSUME ToolInit PROVE ToolInv OBVIOUS
<1> USE DEF ToolInit
<1>1. NoCall.state = "unused" /\ DOMAIN NoCall = {"state", "request", "envelope"} /\ NoCall.envelope.status = "failed"
  BY DEF NoCall, FailedEnvelope
<1>2. \A c \in ToolCalls : toolCalls[c] = NoCall OBVIOUS
<1>3. <<>> \in Seq(ToolEvents) /\ Len(<<>>) = 0 /\ DOMAIN <<>> = {} OBVIOUS
<1>4. ToolTyped BY <1>1, <1>2, <1>3, ToolAssumption DEF ToolTyped, ToolRuns, Phases
<1>5. DoneCalls = {} /\ RunningCalls = {} /\ UsedCalls = {} BY <1>1, <1>2 DEF DoneCalls, RunningCalls, UsedCalls
<1>6. CallsCounted BY <1>3, <1>5, FS_EmptySet, ToolAssumption DEF CallsCounted
<1>7. Audited BY <1>1, <1>2, <1>3 DEF Audited, EventsOf
<1>8. OnlyGrantedBrowse BY DEF OnlyGrantedBrowse
<1>9. FilingsAreAsked BY <1>1, <1>2 DEF FilingsAreAsked
<1> QED BY <1>4, <1>6, <1>7, <1>8, <1>9 DEF ToolInv

LEMMA CallsFinite ==
    /\ \A S \in SUBSET ToolCalls : IsFiniteSet(S) /\ Cardinality(S) \in Nat
BY ToolAssumption, FS_Subset, FS_CardinalityType

\* A round of calls starts, or would be one too many.
LEMMA RoundStarts == ASSUME ToolInv, ModelCalls PROVE ToolInv'
<1>0. ToolTyped /\ CallsCounted /\ Audited /\ OnlyGrantedBrowse /\ FilingsAreAsked BY DEF ToolInv
<1>1. PICK batch \in SUBSET (ToolCalls \ UsedCalls) \ {{}}, requests \in [ToolCalls -> ToolRequests] :
        IF Cardinality(UsedCalls \cup batch) > MaxTotalToolCalls
        THEN /\ toolRun' = [toolRun EXCEPT !.phase = "failed"]
             /\ UNCHANGED toolCalls
        ELSE /\ toolRun' = [toolRun EXCEPT !.phase = "calling", !.round = @ + 1]
             /\ toolCalls' = [c \in ToolCalls |->
                    IF c \in batch THEN [NoCall EXCEPT !.state = "running", !.request = requests[c]]
                    ELSE toolCalls[c]]
  BY DEF ModelCalls
<1>2. toolEvents' = toolEvents /\ browsing' = browsing /\ toolRun.phase = "thinking" /\ toolRun.round < MaxToolRounds
  BY DEF ModelCalls
<1>3. toolRun \in ToolRuns BY <1>0 DEF ToolTyped
<1>4. RunningCalls = {} BY <1>0, <1>2 DEF CallsCounted
<1>5. CASE Cardinality(UsedCalls \cup batch) > MaxTotalToolCalls
  <2>1. toolRun' = [toolRun EXCEPT !.phase = "failed"] /\ toolCalls' = toolCalls BY <1>1, <1>5
  <2>2. toolRun' \in ToolRuns /\ toolRun'.grant = toolRun.grant /\ toolRun'.phase = "failed"
    BY <1>3, <2>1 DEF ToolRuns, Phases
  <2>3. DoneCalls' = DoneCalls /\ RunningCalls' = RunningCalls /\ UsedCalls' = UsedCalls
    BY <2>1 DEF DoneCalls, RunningCalls, UsedCalls
  <2>4. ToolTyped' BY <1>0, <1>2, <2>1, <2>2 DEF ToolTyped
  <2>5. CallsCounted' BY <1>0, <1>2, <1>4, <2>3 DEF CallsCounted
  <2>6. Audited' BY <1>0, <1>2, <2>1 DEF Audited, EventsOf
  <2>7. OnlyGrantedBrowse' BY <1>0, <1>2, <2>2 DEF OnlyGrantedBrowse
  <2>8. FilingsAreAsked' BY <1>0, <2>1 DEF FilingsAreAsked
  <2> QED BY <2>4, <2>5, <2>6, <2>7, <2>8 DEF ToolInv
<1>6. CASE ~(Cardinality(UsedCalls \cup batch) > MaxTotalToolCalls)
  <2> DEFINE New(c) == [NoCall EXCEPT !.state = "running", !.request = requests[c]]
  <2>1. /\ toolRun' = [toolRun EXCEPT !.phase = "calling", !.round = @ + 1]
        /\ toolCalls' = [c \in ToolCalls |-> IF c \in batch THEN New(c) ELSE toolCalls[c]]
    BY <1>1, <1>6
  <2>2. toolRun' \in ToolRuns /\ toolRun'.grant = toolRun.grant /\ toolRun'.phase = "calling"
    <3>1. toolRun.round + 1 \in 0..MaxToolRounds BY <1>2, <1>3, ToolAssumption DEF ToolRuns
    <3> QED BY <1>3, <2>1, <3>1 DEF ToolRuns, Phases
  <2>3. \A c \in ToolCalls :
          /\ DOMAIN New(c) = {"state", "request", "envelope"} /\ New(c).state = "running"
          /\ New(c).request \in ToolRequests /\ New(c).envelope.status = "failed"
    BY DEF NoCall, FailedEnvelope
  <2> HIDE DEF New
  <2>4. \A c \in ToolCalls : toolCalls'[c] = IF c \in batch THEN New(c) ELSE toolCalls[c] BY <2>1
  <2>5. \A c \in batch : c \in ToolCalls /\ toolCalls[c].state = "unused"
    BY <1>0 DEF UsedCalls, ToolTyped
  <2>6. DoneCalls' = DoneCalls /\ UsedCalls' = UsedCalls \cup batch
    BY <2>3, <2>4, <2>5 DEF DoneCalls, UsedCalls
  <2>7. ToolTyped' 
    <3>1. DOMAIN toolCalls' = ToolCalls BY <2>1
    <3>2. \A c \in ToolCalls :
             /\ DOMAIN toolCalls'[c] = {"state", "request", "envelope"}
             /\ toolCalls'[c].state \in {"unused", "running", "done"}
             /\ toolCalls'[c].state # "unused" => toolCalls'[c].request \in ToolRequests
             /\ toolCalls'[c].state # "done" => toolCalls'[c].envelope.status = "failed"
      BY <1>0, <2>3, <2>4 DEF ToolTyped
    <3> QED BY <1>0, <1>2, <2>2, <3>1, <3>2 DEF ToolTyped
  <2>8. CallsCounted'
    <3>1. UsedCalls \cup batch \in SUBSET ToolCalls BY <2>5 DEF UsedCalls
    <3>2. Cardinality(UsedCalls') \in Nat /\ Cardinality(UsedCalls') <= MaxTotalToolCalls
      BY <1>6, <2>6, <3>1, CallsFinite, ToolAssumption
    <3> QED BY <1>0, <1>2, <2>2, <2>6, <3>2 DEF CallsCounted
  <2>9. Audited'
    <3>1. \A c \in ToolCalls : EventsOf(c)' = EventsOf(c) BY <1>2 DEF EventsOf
    <3> QED BY <1>0, <1>2, <2>3, <2>4, <2>5, <3>1 DEF Audited
  <2>10. OnlyGrantedBrowse' BY <1>0, <1>2, <2>2 DEF OnlyGrantedBrowse
  <2>11. FilingsAreAsked' BY <1>0, <2>3, <2>4 DEF FilingsAreAsked
  <2> QED BY <2>7, <2>8, <2>9, <2>10, <2>11 DEF ToolInv
<1> QED BY <1>5, <1>6

\* What a filing call shows is of the document it asked for.
AsAsked(q, e) ==
    (q.tool = "sec_fetch_filing" /\ e.status = "success" /\ e.data.error = "none") =>
        /\ e.data.rows[1].accession = q.accession \/ q.accession = "none"
        /\ e.data.rows[1].section \in {q.section, "full_text"}

LEMMA FirstRowsOf ==
    ASSUME NEW S, NEW rows \in Seq(S), NEW n \in Nat
    PROVE  FirstRows(rows, n) \in Seq(S)
BY DEF FirstRows

LEMMA FetchedAsAsked ==
    ASSUME NEW q, q.tool = "sec_fetch_filing", NEW graph, NEW long
    PROVE  AsAsked(q, Envelope(q, AnswerOf(q, graph), long))
<1>1. AnswerOf(q, graph) = SecFetchFiling(q) BY DEF AnswerOf
<1> DEFINE a == SecFetchFiling(q)
           e == Envelope(q, a, long)
<1>2. e.data = a BY DEF Envelope
<1> SUFFICES ASSUME a.error = "none"
             PROVE  /\ a.rows[1].accession = q.accession \/ q.accession = "none"
                    /\ a.rows[1].section \in {q.section, "full_text"}
  BY <1>1, <1>2 DEF AsAsked
<1> DEFINE filings == Registry[q.ticker].filings
           S == {filings[i] : i \in DOMAIN filings}
           listed == ListedFilings(q.ticker, q.forms, 20)
           which == {i \in DOMAIN listed : q.accession \in {"none", listed[i].accession}}
           fits == Selected(listed, which)
           section == IF q.section \in Head(fits).sections THEN q.section ELSE "full_text"
<1>3. KnownTicker(q.ticker) BY DEF SecFetchFiling, Complaint
<1>4. filings \in Seq(S) BY <1>3, ToolAssumption DEF KnownTicker
<1>5. listed \in Seq(S)
  <2> HIDE DEF S
  <2>1. \A w : Selected(filings, w) \in Seq(S) BY <1>4, SelectedHas
  <2> QED BY <2>1, FirstRowsOf DEF ListedFilings
<1>6. a = IF fits = <<>> THEN Complaint("filing not found", q.ticker)
          ELSE ToolAnswer(Head(fits).accession, <<[accession |-> Head(fits).accession, section |-> section]>>)
  BY <1>3 DEF SecFetchFiling
<1>8. fits # <<>>
  <2>1. Complaint("filing not found", q.ticker).error # "none" BY DEF Complaint
  <2> HIDE DEF fits, section, a
  <2> QED BY <1>6, <2>1
<1> HIDE DEF S, listed
<1>7. fits \in Seq(S) /\ \A j \in 1..Len(fits) : \E i \in 1..Len(listed) : i \in which /\ fits[j] = listed[i]
  <2>1. \A w : /\ Selected(listed, w) \in Seq(S) /\ Len(Selected(listed, w)) \in Nat
               /\ \A j \in 1..Len(Selected(listed, w)) :
                    \E i \in 1..Len(listed) : i \in w /\ Selected(listed, w)[j] = listed[i]
    BY <1>5, SelectedHas
  <2> HIDE DEF which
  <2> QED BY <2>1
<1> HIDE DEF fits
<1>9. Head(fits) = fits[1] /\ 1 \in 1..Len(fits) BY <1>7, <1>8
<1>10. q.accession \in {"none", Head(fits).accession} BY <1>7, <1>9
<1> HIDE DEF a, which
<1>11. a = ToolAnswer(Head(fits).accession, <<[accession |-> Head(fits).accession, section |-> section]>>)
  BY <1>6, <1>8
<1> HIDE DEF section
<1>12. a.rows[1] = [accession |-> Head(fits).accession, section |-> section] BY <1>11 DEF ToolAnswer
<1> QED BY <1>10, <1>12 DEF section

\* A call returns with its event.
LEMMA CallReturns ==
    ASSUME ToolInv, NEW c \in RunningCalls, NEW envelope, ToolReturned(c, envelope),
           envelope.tool = toolCalls[c].request.tool, envelope.status \in {"success", "failed"},
           envelope.truncated \in BOOLEAN, AsAsked(toolCalls[c].request, envelope),
           browsing' = browsing
           \/ (browsing' = browsing \cup {c} /\ toolRun.grant.interactive)
    PROVE  ToolInv'
<1>0. ToolTyped /\ CallsCounted /\ Audited /\ OnlyGrantedBrowse /\ FilingsAreAsked BY DEF ToolInv
<1>1. c \in ToolCalls /\ toolCalls[c].state = "running" BY DEF RunningCalls
<1>2. toolRun \in ToolRuns /\ toolEvents \in Seq(ToolEvents) /\ toolCalls[c].request \in ToolRequests
  BY <1>0, <1>1 DEF ToolTyped
<1> DEFINE event == EventOf(c, envelope)
<1>3. event \in ToolEvents /\ event.call = c /\ event.tool = envelope.tool /\ event.status = envelope.status
  BY <1>1, <1>2 DEF EventOf, ToolEvents, ToolsAsked, ToolRuns
<1>4. /\ toolCalls' = [toolCalls EXCEPT ![c].state = "done", ![c].envelope = envelope]
      /\ toolEvents' = Append(toolEvents, event)
      /\ toolRun' = IF RunningCalls = {c} THEN [toolRun EXCEPT !.phase = "thinking"] ELSE toolRun
  BY DEF ToolReturned
<1>5. toolRun' \in ToolRuns /\ toolRun'.grant = toolRun.grant BY <1>2, <1>4 DEF ToolRuns, Phases
<1>6. /\ DOMAIN toolCalls' = ToolCalls
      /\ \A d \in ToolCalls \ {c} : toolCalls'[d] = toolCalls[d]
      /\ DOMAIN toolCalls'[c] = {"state", "request", "envelope"}
      /\ toolCalls'[c].state = "done" /\ toolCalls'[c].request = toolCalls[c].request
      /\ toolCalls'[c].envelope = envelope
  BY <1>0, <1>1, <1>4 DEF ToolTyped
<1> HIDE DEF event
<1>7. /\ toolEvents' \in Seq(ToolEvents) /\ Len(toolEvents) \in Nat /\ Len(toolEvents') = Len(toolEvents) + 1
      /\ toolEvents'[Len(toolEvents) + 1] = event
      /\ \A i \in 1..Len(toolEvents) : toolEvents'[i] = toolEvents[i]
      /\ DOMAIN toolEvents = 1..Len(toolEvents) /\ DOMAIN toolEvents' = 1..(Len(toolEvents) + 1)
  BY <1>2, <1>3, <1>4, Appended
<1>8. DoneCalls' = DoneCalls \cup {c} /\ c \notin DoneCalls /\ UsedCalls' = UsedCalls
      /\ RunningCalls' = RunningCalls \ {c}
  BY <1>1, <1>6 DEF DoneCalls, UsedCalls, RunningCalls
<1>9. ToolTyped'
  <2>1. browsing' \subseteq ToolCalls BY <1>0, <1>1 DEF ToolTyped
  <2>2. \A d \in ToolCalls :
             /\ DOMAIN toolCalls'[d] = {"state", "request", "envelope"}
             /\ toolCalls'[d].state \in {"unused", "running", "done"}
             /\ toolCalls'[d].state # "unused" => toolCalls'[d].request \in ToolRequests
             /\ toolCalls'[d].state # "done" => toolCalls'[d].envelope.status = "failed"
    BY <1>0, <1>2, <1>6 DEF ToolTyped
  <2> QED BY <1>5, <1>6, <1>7, <2>1, <2>2 DEF ToolTyped
<1>10. CallsCounted'
  <2>1. DoneCalls \in SUBSET ToolCalls BY DEF DoneCalls
  <2>2. Cardinality(DoneCalls') = Cardinality(DoneCalls) + 1 BY <1>8, <2>1, CallsFinite, FS_AddElement
  <2>3. Len(toolEvents') = Cardinality(DoneCalls') BY <1>0, <1>7, <2>2 DEF CallsCounted
  <2>4. toolRun'.phase # "calling" => RunningCalls' = {}
    <3>1. CASE RunningCalls = {c} BY <1>8, <3>1
    <3>2. CASE RunningCalls # {c} BY <1>0, <1>4, <3>2 DEF CallsCounted
    <3> QED BY <3>1, <3>2
  <2> QED BY <1>0, <1>8, <2>3, <2>4 DEF CallsCounted
<1>11. Audited'
  <2>1. \A d \in ToolCalls \ {c} : EventsOf(d)' = EventsOf(d) BY <1>3, <1>7 DEF EventsOf
  <2>2. EventsOf(c) = {} BY <1>0, <1>1 DEF Audited
  <2>3. EventsOf(c)' = {Len(toolEvents) + 1} BY <1>3, <1>7, <2>2 DEF EventsOf
  <2>4. Cardinality(EventsOf(c)') = 1 BY <2>3, FS_Singleton
  <2>5. \A d \in ToolCalls \ {c} : \A i \in EventsOf(d) : toolEvents'[i] = toolEvents[i] BY <1>7 DEF EventsOf
  <2> DEFINE Right(d) ==
               IF toolCalls'[d].state = "done"
               THEN /\ Cardinality(EventsOf(d)') = 1
                    /\ \A i \in EventsOf(d)' :
                           /\ toolEvents'[i].tool = toolCalls'[d].request.tool
                           /\ toolEvents'[i].status = toolCalls'[d].envelope.status
               ELSE EventsOf(d)' = {}
  <2>6. Right(c) BY <1>3, <1>6, <1>7, <2>3, <2>4
  <2>7. ASSUME NEW d \in ToolCalls \ {c} PROVE Right(d) BY <1>0, <1>6, <2>1, <2>5 DEF Audited
  <2> QED BY <2>6, <2>7 DEF Audited
<1>12. OnlyGrantedBrowse' BY <1>0, <1>5 DEF OnlyGrantedBrowse
<1>13. FilingsAreAsked'
  <2>1. \A d \in ToolCalls : AsAsked(toolCalls[d].request, toolCalls[d].envelope)
    BY <1>0 DEF FilingsAreAsked, AsAsked
  <2>2. \A d \in ToolCalls : AsAsked(toolCalls'[d].request, toolCalls'[d].envelope)
    BY <1>6, <2>1
  <2> QED BY <2>2 DEF FilingsAreAsked, AsAsked
<1> QED BY <1>9, <1>10, <1>11, <1>12, <1>13 DEF ToolInv

LEMMA ToolSteps == ToolInv /\ [ToolNext]_toolVars => ToolInv'
<1> SUFFICES ASSUME ToolInv, [ToolNext]_toolVars PROVE ToolInv' OBVIOUS
<1>0. ToolTyped /\ CallsCounted /\ Audited /\ OnlyGrantedBrowse /\ FilingsAreAsked BY DEF ToolInv
<1>1. CASE ModelCalls BY <1>1, RoundStarts
<1>2. ASSUME NEW phase \in {"answered", "failed"}, toolRun.phase = "thinking",
             toolRun' = [toolRun EXCEPT !.phase = phase], UNCHANGED <<toolCalls, toolEvents, browsing>>
      PROVE  ToolInv'
  <2>1. toolRun \in ToolRuns /\ RunningCalls = {} BY <1>0, <1>2 DEF ToolTyped, CallsCounted
  <2>2. toolRun' \in ToolRuns /\ toolRun'.grant = toolRun.grant BY <1>2, <2>1 DEF ToolRuns, Phases
  <2>3. DoneCalls' = DoneCalls /\ RunningCalls' = RunningCalls /\ UsedCalls' = UsedCalls
    BY <1>2 DEF DoneCalls, RunningCalls, UsedCalls
  <2>4. ToolTyped' BY <1>0, <1>2, <2>2 DEF ToolTyped
  <2>5. CallsCounted' BY <1>0, <1>2, <2>1, <2>3 DEF CallsCounted
  <2>6. Audited' BY <1>0, <1>2 DEF Audited, EventsOf
  <2>7. OnlyGrantedBrowse' BY <1>0, <1>2, <2>2 DEF OnlyGrantedBrowse
  <2>8. FilingsAreAsked' BY <1>0, <1>2 DEF FilingsAreAsked
  <2> QED BY <2>4, <2>5, <2>6, <2>7, <2>8 DEF ToolInv
<1>3. CASE ModelAnswers BY <1>2, <1>3 DEF ModelAnswers
<1>4. CASE ModelFails BY <1>2, <1>4 DEF ModelFails
<1>5. ASSUME NEW c \in ToolCalls, CallFails(c) PROVE ToolInv'
  <2> DEFINE q == toolCalls[c].request
             e == FailedEnvelope(q)
  <2>1. e.tool = q.tool /\ e.status = "failed" /\ e.truncated = FALSE BY DEF FailedEnvelope
  <2>2. AsAsked(q, e) BY <2>1 DEF AsAsked
  <2>3. c \in RunningCalls /\ ToolReturned(c, e) /\ browsing' = browsing BY <1>5 DEF CallFails
  <2> HIDE DEF e
  <2> QED BY <2>1, <2>2, <2>3, CallReturns
<1>6. ASSUME NEW c \in ToolCalls, CallAnswers(c) PROVE ToolInv'
  <2> DEFINE q == toolCalls[c].request
  <2>1. PICK long \in BOOLEAN : ToolReturned(c, Envelope(q, AnswerOf(q, toolRun.graph), long))
    BY <1>6 DEF CallAnswers
  <2> DEFINE e == Envelope(q, AnswerOf(q, toolRun.graph), long)
  <2>2. e.tool = q.tool /\ e.status = "success" /\ e.truncated = long BY DEF Envelope
  <2>3. AsAsked(q, e)
    <3>1. CASE q.tool = "sec_fetch_filing" BY <3>1, FetchedAsAsked
    <3>2. CASE q.tool # "sec_fetch_filing" BY <3>2 DEF AsAsked
    <3> QED BY <3>1, <3>2
  <2>4. c \in RunningCalls /\ browsing' = browsing BY <1>6 DEF CallAnswers
  <2>5. ToolReturned(c, e) BY <2>1
  <2> HIDE DEF e
  <2> QED BY <2>2, <2>3, <2>4, <2>5, CallReturns
<1>7. ASSUME NEW c \in ToolCalls, BrowserTimesOut(c) PROVE ToolInv'
  <2> DEFINE q == toolCalls[c].request
             e == Envelope(q, Complaint("timed out", q.tool), FALSE)
  <2>1. e.tool = q.tool /\ e.status = "success" /\ e.truncated = FALSE BY DEF Envelope
  <2>2. q.tool = "browser_explore" /\ Allows(toolRun.grant, ProjectTools[q.tool]) BY <1>7 DEF BrowserTimesOut
  <2>3. AsAsked(q, e) BY <2>2 DEF AsAsked
  <2>4. ProjectTools["browser_explore"].risk = "interactive" BY DEF ProjectTools, ProjectTool
  <2>5. toolRun.grant.interactive BY <2>2, <2>4 DEF Allows
  <2>6. c \in RunningCalls /\ ToolReturned(c, e) /\ browsing' = browsing \cup {c} BY <1>7 DEF BrowserTimesOut
  <2> HIDE DEF e
  <2> QED BY <2>1, <2>3, <2>5, <2>6, CallReturns
<1>8. ASSUME toolRun' = toolRun, toolCalls' = toolCalls, toolEvents' = toolEvents, browsing' \subseteq browsing
      PROVE  ToolInv'
  <2>1. DoneCalls' = DoneCalls /\ RunningCalls' = RunningCalls /\ UsedCalls' = UsedCalls
    BY <1>8 DEF DoneCalls, RunningCalls, UsedCalls
  <2>2. ToolTyped' BY <1>0, <1>8 DEF ToolTyped
  <2>3. CallsCounted' BY <1>0, <1>8, <2>1 DEF CallsCounted
  <2>4. Audited' BY <1>0, <1>8 DEF Audited, EventsOf
  <2>5. OnlyGrantedBrowse' BY <1>0, <1>8 DEF OnlyGrantedBrowse
  <2>6. FilingsAreAsked' BY <1>0, <1>8 DEF FilingsAreAsked
  <2> QED BY <2>2, <2>3, <2>4, <2>5, <2>6 DEF ToolInv
<1>9. ASSUME NEW c \in ToolCalls, BrowserThreadEnds(c) PROVE ToolInv' BY <1>8, <1>9 DEF BrowserThreadEnds
<1>10. CASE UNCHANGED toolVars BY <1>8, <1>10 DEF toolVars
<1> QED BY <1>1, <1>3, <1>4, <1>5, <1>6, <1>7, <1>9, <1>10 DEF ToolNext

LEMMA ToolInvSuffices == ToolInv => ToolTypeOK /\ ToolsHold
<1> SUFFICES ASSUME ToolInv PROVE ToolTypeOK /\ ToolsHold OBVIOUS
<1>0. ToolTyped /\ CallsCounted /\ Audited /\ OnlyGrantedBrowse /\ FilingsAreAsked BY DEF ToolInv
<1>1. ToolTypeOK BY <1>0 DEF ToolTypeOK, ToolTyped, ToolRuns, Phases
<1>2. ASSUME toolRun.phase = "answered" PROVE UsedCalls = DoneCalls
  <2>1. RunningCalls = {} BY <1>0, <1>2 DEF CallsCounted
  <2> QED BY <1>0, <2>1 DEF UsedCalls, DoneCalls, RunningCalls, ToolTyped
<1>3. AnswersAreTraced BY <1>0, <1>2 DEF AnswersAreTraced, CallsCounted
<1> QED BY <1>0, <1>1, <1>3 DEF ToolsHold

\* Whatever calls overlap, fail or outlive their time: each is audited once,
\* within the budget, and shows what it was asked for.
THEOREM ToolsSound == ToolSpec => [](ToolTypeOK /\ ToolsHold)
BY ToolsStart, ToolSteps, ToolInvSuffices, PTL DEF ToolSpec

-----------------------------------------------------------------------------
(* EvidenceCandidates *)

\* A row of a result says what the result says, under its URL.
QuotesRow(row, result) ==
    \E read \in ToSet(result.results) \cup ToSet(FetchedPages(result)) :
        /\ read.text = row.text
        /\ row.url = read.url \/ (result.tool = "sec_fetch_filing" /\ row.url = NoUrl)

\* What is read of a result: rows of a tool that has a kind of evidence.
RowsRead(rows, result) ==
    /\ Len(rows) \in Nat /\ DOMAIN rows = 1..Len(rows)
    /\ \A i \in 1..Len(rows) : QuotesRow(rows[i], result)

ReadTexts == {<<>>} \cup (STRING \X STRING)

\* Pages that were fetched, and results followed by them.
LEMMA PagesRead ==
    ASSUME NEW result \in ToolResults
    PROVE  /\ RowsRead(FetchedPages(result), result) /\ RowsRead(result.results, result)
           /\ RowsRead(result.results \o FetchedPages(result), result)
           /\ \A n \in Nat : n <= Len(result.results) => RowsRead(SubSeq(result.results, 1, n), result)
<1> DEFINE Page == [url : STRING, text : ReadTexts, failed : BOOLEAN]
           Line == [url : STRING, text : ReadTexts]
           read == Selected(result.pages, {i \in DOMAIN result.pages : ~result.pages[i].failed})
           found == result.results
           fetched == FetchedPages(result)
<1>1. result.results \in Seq(Line) /\ result.pages \in Seq(Page) BY CandidatesAssumption DEF ReadTexts
<1>2. read \in Seq(Page)
  <2> HIDE DEF Page
  <2> QED BY <1>1, SelectedIsSelection
<1>3. fetched \in Seq(Line)
  <2>1. Len(read) \in Nat /\ DOMAIN read = 1..Len(read) /\ \A i \in 1..Len(read) : read[i] \in Page
    <3> HIDE DEF read, Page
    <3> QED BY <1>2, ElementOfSeq
  <2>2. fetched = [i \in 1..Len(read) |-> [url |-> read[i].url, text |-> read[i].text]]
    BY <2>1 DEF FetchedPages
  <2> HIDE DEF read, fetched
  <2>3. fetched \in [1..Len(read) -> Line] BY <2>1, <2>2
  <2> QED BY <2>1, <2>3, SeqOfFunction
<1> HIDE DEF read, Line, found, fetched
<1>4. found \in Seq(Line) BY <1>1 DEF found
<1>5. \A x : x \in ToSet(found) \cup ToSet(fetched) => QuotesRow(x, result)
  BY DEF QuotesRow, found, fetched
<1>6. ASSUME NEW s \in Seq(Line), \A i \in 1..Len(s) : s[i] \in ToSet(found) \cup ToSet(fetched)
      PROVE  RowsRead(s, result)
  <2>1. Len(s) \in Nat /\ DOMAIN s = 1..Len(s) BY <1>6
  <2> QED BY <1>5, <1>6, <2>1 DEF RowsRead
<1>7. \A i \in 1..Len(found) : found[i] \in ToSet(found) BY <1>4 DEF ToSet
<1>8. \A i \in 1..Len(fetched) : fetched[i] \in ToSet(fetched) BY <1>3 DEF ToSet
<1>9. RowsRead(found, result) /\ RowsRead(fetched, result) BY <1>3, <1>4, <1>6, <1>7, <1>8
<1>10. RowsRead(found \o fetched, result)
  <2>1. /\ found \o fetched \in Seq(Line) /\ Len(found \o fetched) = Len(found) + Len(fetched)
        /\ \A k \in 1..Len(found) : (found \o fetched)[k] = found[k]
        /\ \A k \in 1..(Len(found) + Len(fetched)) : k \in 1..Len(found) \/
               (k > Len(found) /\ k - Len(found) \in 1..Len(fetched) /\ (found \o fetched)[k] = fetched[k - Len(found)])
    BY <1>3, <1>4, Concatenated
  <2> DEFINE q == found \o fetched
  <2> HIDE DEF q
  <2>2. \A k \in 1..Len(q) : q[k] \in ToSet(found) \cup ToSet(fetched)
    BY <1>7, <1>8, <2>1 DEF q
  <2>3. q \in Seq(Line) BY <2>1 DEF q
  <2> QED BY <1>6, <2>2, <2>3 DEF q
<1>11. ASSUME NEW n \in Nat, n <= Len(found) PROVE RowsRead(SubSeq(found, 1, n), result)
  <2>1. Len(found) \in Nat BY <1>4
  <2>2. SubSeq(found, 1, n) \in Seq(Line) /\ Len(SubSeq(found, 1, n)) = n
        /\ \A i \in 1..n : SubSeq(found, 1, n)[i] = found[i] /\ i \in 1..Len(found)
    BY <1>4, <1>11, <2>1, ElementOfSeq
  <2> QED BY <1>6, <1>7, <2>2
<1> QED BY <1>9, <1>10, <1>11 DEF found, fetched

LEMMA RowsFromRead ==
    ASSUME NEW result \in ToolResults
    PROVE  /\ RowsRead(RowsFrom(result), result)
           /\ RowsFrom(result) # <<>> => result.tool \in DOMAIN EvidenceKind
<1>1. RowsRead(<<>>, result) BY DEF RowsRead
<1>2. /\ RowsRead(WholeRows(result), result)
      /\ WholeRows(result) # <<>> => result.tool \in DOMAIN EvidenceKind
  <2>1. CASE result.tool \notin DOMAIN EvidenceKind BY <1>1, <2>1 DEF WholeRows
  <2>2. CASE result.tool \in DOMAIN EvidenceKind
    <3>1. CASE result.tool = "web_fetch" BY <2>2, <3>1, PagesRead DEF WholeRows
    <3>2. CASE result.tool = "search_and_fetch" BY <2>2, <3>2, PagesRead DEF WholeRows
    <3>3. CASE result.tool = "transcript_lookup"
      <4> DEFINE n == IF Len(result.results) < Turns THEN Len(result.results) ELSE Turns
      <4>1. Len(result.results) \in Nat BY CandidatesAssumption
      <4>2. n \in Nat /\ n <= Len(result.results) BY <4>1 DEF Turns
      <4>3. WholeRows(result) = SubSeq(result.results, 1, n) BY <2>2, <3>3 DEF WholeRows
      <4> HIDE DEF n
      <4> QED BY <2>2, <4>2, <4>3, PagesRead
    <3>4. CASE result.tool \notin {"web_fetch", "search_and_fetch", "transcript_lookup"}
      <4>1. WholeRows(result) = result.results BY <2>2, <3>4 DEF WholeRows
      <4> QED BY <2>2, <4>1, PagesRead
    <3> QED BY <3>1, <3>2, <3>3, <3>4
  <2> QED BY <2>1, <2>2
<1>3. /\ RowsRead(CutRows(result), result)
      /\ CutRows(result) # <<>> => result.tool \in DOMAIN EvidenceKind
  <2> DEFINE url == IF Legible(result, 1, "url") THEN result.results[1].url ELSE NoUrl
             text == IF Legible(result, 1, "text") THEN result.results[1].text ELSE NoText
             row == [url |-> url, text |-> text]
  <2>1. CASE \/ text = NoText
             \/ result.tool \notin {"sec_fetch_filing", "web_search", "search_and_fetch"}
             \/ result.tool # "sec_fetch_filing" /\ url = NoUrl
    <3>1. CutRows(result) = <<>> BY <2>1 DEF CutRows
    <3> QED BY <1>1, <3>1
  <2>2. CASE ~(\/ text = NoText
               \/ result.tool \notin {"sec_fetch_filing", "web_search", "search_and_fetch"}
               \/ result.tool # "sec_fetch_filing" /\ url = NoUrl)
    <3>1. CutRows(result) = <<row>> BY <2>2 DEF CutRows
    <3>2. result.tool \in DOMAIN EvidenceKind BY <2>2 DEF EvidenceKind
    <3>3. text = result.results[1].text /\ 1 \in DOMAIN result.results BY <2>2 DEF Legible
    <3>4. url = result.results[1].url \/ (result.tool = "sec_fetch_filing" /\ url = NoUrl) BY <2>2
    <3>5. result.results[1] \in ToSet(result.results) BY <3>3 DEF ToSet
    <3> HIDE DEF url, text
    <3>6. row.url = url /\ row.text = text OBVIOUS
    <3> HIDE DEF row
    <3>7. QuotesRow(row, result) BY <3>3, <3>4, <3>5, <3>6 DEF QuotesRow
    <3>8. RowsRead(<<row>>, result) BY <3>7 DEF RowsRead
    <3> QED BY <3>1, <3>2, <3>8
  <2> QED BY <2>1, <2>2
<1> QED BY <1>2, <1>3 DEF RowsFrom

\* A candidate of a result names it, and quotes it unless it is rejected.
IsCandidateOf(row, goal, n, result) ==
    /\ row.id = <<goal, n, row.kind, row.url, row.text>> /\ row.goal = goal /\ row.event = n
    /\ row.status # "rejected" =>
         /\ result.ok /\ result.tool \in DOMAIN EvidenceKind /\ row.kind = EvidenceKind[result.tool]
         /\ QuotesRow(row, result) /\ row.text # NoText
         /\ row.kind \in {"web", "transcript", "browser"} => row.url # NoUrl

LEMMA BuiltCandidate ==
    ASSUME NEW result \in ToolResults, NEW goal, NEW n, result.ok, result.tool \in DOMAIN EvidenceKind,
           NEW row, QuotesRow(row, result)
    PROVE  IsCandidateOf(BuildCandidate(goal, n, EvidenceKind[result.tool], row), goal, n, result)
<1> DEFINE kind == EvidenceKind[result.tool]
           built == BuildCandidate(goal, n, kind, row)
<1>1. \E status, confidence :
        /\ built = EvidenceRow(goal, n, kind, row, status, confidence)
        /\ status # "rejected" => row.text # NoText /\ (kind \in {"web", "transcript", "browser"} => row.url # NoUrl)
  <2> DEFINE located == kind \in {"web", "transcript", "browser"} => row.url # NoUrl
  <2>1. CASE row.text = NoText \/ ~located
    <3>1. built = EvidenceRow(goal, n, kind, row, "rejected", 0) BY <2>1 DEF BuildCandidate
    <3> QED BY <3>1
  <2>2. CASE ~(row.text = NoText \/ ~located)
    <3>1. \E status, confidence : built = EvidenceRow(goal, n, kind, row, status, confidence)
      BY <2>2 DEF BuildCandidate
    <3> QED BY <2>2, <3>1
  <2> QED BY <2>1, <2>2
<1> HIDE DEF built
<1>2. PICK status, confidence :
        /\ built = EvidenceRow(goal, n, kind, row, status, confidence)
        /\ status # "rejected" => row.text # NoText /\ (kind \in {"web", "transcript", "browser"} => row.url # NoUrl)
  BY <1>1
<1> HIDE DEF kind
<1>3. /\ built.id = <<goal, n, kind, row.url, row.text>> /\ built.goal = goal /\ built.event = n /\ built.kind = kind
      /\ built.url = row.url /\ built.text = row.text /\ built.status = status
  BY <1>2 DEF EvidenceRow
<1>4. QuotesRow(built, result) BY <1>3 DEF QuotesRow
<1> QED BY <1>2, <1>3, <1>4 DEF IsCandidateOf, kind, built

LEMMA NormalizedEvent ==
    ASSUME NEW result \in ToolResults, NEW goal, NEW n
    PROVE  /\ NormalizeEvent(goal, n, result) \in Seq(ToSet(NormalizeEvent(goal, n, result)))
           /\ \A row \in ToSet(NormalizeEvent(goal, n, result)) : IsCandidateOf(row, goal, n, result)
<1>1. ASSUME NEW why PROVE IsCandidateOf(Unusable(goal, n, why), goal, n, result)
  BY DEF Unusable, EvidenceRow, IsCandidateOf
<1>2. ASSUME NEW x, NormalizeEvent(goal, n, result) = <<x>>, IsCandidateOf(x, goal, n, result)
      PROVE  /\ NormalizeEvent(goal, n, result) \in Seq(ToSet(NormalizeEvent(goal, n, result)))
             /\ \A row \in ToSet(NormalizeEvent(goal, n, result)) : IsCandidateOf(row, goal, n, result)
  <2>1. ToSet(<<x>>) = {x} BY DEF ToSet
  <2> QED BY <1>2, <2>1
<1>3. CASE ~result.ok
  <2>1. NormalizeEvent(goal, n, result) = <<Unusable(goal, n, "tool execution failed")>> BY <1>3 DEF NormalizeEvent
  <2> QED BY <1>1, <1>2, <2>1
<1>4. CASE result.ok /\ RowsFrom(result) = <<>>
  <2>1. \E why : NormalizeEvent(goal, n, result) = <<Unusable(goal, n, why)>> BY <1>4 DEF NormalizeEvent
  <2> QED BY <1>1, <1>2, <2>1
<1>5. CASE result.ok /\ RowsFrom(result) # <<>>
  <2> DEFINE rows == RowsFrom(result)
             B(i) == BuildCandidate(goal, n, EvidenceKind[result.tool], rows[i])
             s == [i \in 1..Len(rows) |-> B(i)]
  <2>1. /\ Len(rows) \in Nat /\ DOMAIN rows = 1..Len(rows) /\ result.tool \in DOMAIN EvidenceKind
        /\ \A i \in 1..Len(rows) : QuotesRow(rows[i], result)
    BY <1>5, RowsFromRead DEF RowsRead
  <2>2. NormalizeEvent(goal, n, result) = s BY <1>5, <2>1 DEF NormalizeEvent
  <2>3. \A i \in 1..Len(rows) : IsCandidateOf(B(i), goal, n, result) BY <1>5, <2>1, BuiltCandidate
  <2> HIDE DEF rows, B
  <2>4. DOMAIN s = 1..Len(rows) /\ \A i \in 1..Len(rows) : s[i] = B(i) OBVIOUS
  <2>5. ToSet(s) = {B(i) : i \in 1..Len(rows)} BY <2>4 DEF ToSet
  <2> DEFINE S == {B(i) : i \in 1..Len(rows)}
  <2>6. s \in [1..Len(rows) -> S] OBVIOUS
  <2> HIDE DEF s, S
  <2>7. s \in Seq(S) BY <2>1, <2>6, SeqOfFunction
  <2>8. \A row \in S : IsCandidateOf(row, goal, n, result) BY <2>3 DEF S
  <2> QED BY <2>2, <2>5, <2>7, <2>8 DEF S
<1> QED BY <1>3, <1>4, <1>5

\* The candidates of a subgoal: each is one of a result; none that has the
\* same key stays twice, and each row of a result has one with its key, of
\* that result or an earlier one.
LEMMA NormalizedEvents ==
    ASSUME NEW goal, NEW results \in Seq(ToolResults)
    PROVE  /\ NormalizeEvents(goal, results) \in Seq(ToSet(NormalizeEvents(goal, results)))
           /\ \A row \in ToSet(NormalizeEvents(goal, results)) : \E n \in 1..Len(results) :
                  row \in ToSet(NormalizeEvent(goal, n, results[n]))
           /\ LET rows == NormalizeEvents(goal, results) IN
                \A i, j \in 1..Len(rows) : DedupeKey(rows[i]) = DedupeKey(rows[j]) => i = j
           /\ \A n \in 1..Len(results) : \A row \in ToSet(NormalizeEvent(goal, n, results[n])) :
                  \E kept \in ToSet(NormalizeEvents(goal, results)) :
                      DedupeKey(kept) = DedupeKey(row) /\ kept.event <= n
<1> DEFINE N == Len(results)
           E(n) == NormalizeEvent(goal, n, results[n])
           S == UNION {ToSet(E(n)) : n \in 1..N}
           lists == [n \in 1..N |-> E(n)]
           all == Chained(lists)
           first == {i \in DOMAIN all : \A j \in 1..(i - 1) : DedupeKey(all[j]) # DedupeKey(all[i])}
           rows == Selected(all, first)
<1>1. N \in Nat /\ DOMAIN results = 1..N /\ \A n \in 1..N : results[n] \in ToolResults BY ElementOfSeq
<1>2. NormalizeEvents(goal, results) = rows
  <2>1. all = AllRows(goal, results) BY <1>1 DEF AllRows
  <2> HIDE DEF all
  <2> QED BY <2>1 DEF NormalizeEvents, DedupeCandidates
<1>3. \A n \in 1..N : E(n) \in Seq(ToSet(E(n))) /\ \A row \in ToSet(E(n)) : row.event = n
  BY <1>1, NormalizedEvent DEF IsCandidateOf
<1> HIDE DEF N, E
<1>4. \A n \in 1..N : E(n) \in Seq(S) /\ Len(E(n)) \in Nat /\ DOMAIN E(n) = 1..Len(E(n))
  <2> SUFFICES ASSUME NEW n \in 1..N PROVE E(n) \in Seq(S)
    OBVIOUS
  <2>1. ToSet(E(n)) \subseteq S OBVIOUS
  <2>2. E(n) \in Seq(ToSet(E(n))) BY <1>3
  <2> DEFINE e == E(n)
             A == ToSet(E(n))
  <2>3. A \subseteq S /\ e \in Seq(A) BY <2>1, <2>2
  <2> HIDE DEF e, A, S
  <2>4. \A i \in 1..Len(e) : e[i] \in S BY <2>3, ElementOfSeq
  <2>5. e \in Seq(S) BY <2>3, <2>4, SeqOfElements
  <2> QED BY <2>5 DEF e
<1> HIDE DEF S
<1>5. lists \in Seq(Seq(S)) /\ Len(lists) = N /\ \A n \in 1..N : lists[n] = E(n)
  <2>1. lists \in [1..N -> Seq(S)] BY <1>4
  <2> QED BY <1>1, <2>1, SeqOfFunction
<1> HIDE DEF lists
<1>6. all \in Seq(S) /\ \E from : IsChained(all, lists, Len(lists), from) BY <1>5, ChainedHas
<1>7. PICK from : IsChained(all, lists, N, from) BY <1>5, <1>6
<1> HIDE DEF all
<1> DEFINE M == Len(all)
<1>8. /\ M \in Nat /\ from \in [1..M -> 1..N] /\ DOMAIN all = 1..M
      /\ \A k \in 1..M : \E i \in 1..Len(E(from[k])) : all[k] = E(from[k])[i]
      /\ \A k, l \in 1..M : k < l => from[k] <= from[l]
      /\ \A m \in 1..N : \A i \in 1..Len(E(m)) : \E k \in 1..M : from[k] = m /\ all[k] = E(m)[i]
  <2>1. /\ M \in Nat /\ from \in [1..M -> 1..N]
        /\ \A k \in 1..M : \E i \in 1..Len(lists[from[k]]) : all[k] = lists[from[k]][i]
        /\ \A k, l \in 1..M : k < l => from[k] <= from[l]
        /\ \A m \in 1..N : \A i \in 1..Len(lists[m]) : \E k \in 1..M : from[k] = m /\ all[k] = lists[m][i]
    BY <1>7 DEF IsChained
  <2>2. DOMAIN all = 1..M BY <1>6
  <2> HIDE DEF M
  <2>3. \A k \in 1..M : \E i \in 1..Len(E(from[k])) : all[k] = E(from[k])[i]
    <3> SUFFICES ASSUME NEW k \in 1..M PROVE \E i \in 1..Len(E(from[k])) : all[k] = E(from[k])[i]
      OBVIOUS
    <3>1. from[k] \in 1..N BY <2>1
    <3>2. lists[from[k]] = E(from[k]) BY <1>5, <3>1
    <3>3. \E i \in 1..Len(lists[from[k]]) : all[k] = lists[from[k]][i] BY <2>1
    <3> QED BY <3>2, <3>3
  <2>4. ASSUME NEW m \in 1..N, NEW i \in 1..Len(E(m)) PROVE \E k \in 1..M : from[k] = m /\ all[k] = E(m)[i]
    <3>1. lists[m] = E(m) BY <1>5
    <3>2. i \in 1..Len(lists[m]) BY <2>4, <3>1
    <3>3. \E k \in 1..M : from[k] = m /\ all[k] = lists[m][i] BY <2>1, <3>2
    <3> QED BY <3>1, <3>3
  <2> QED BY <2>1, <2>2, <2>3, <2>4
<1>9. rows \in Seq(S) /\ \E at : IsSelection(rows, all, first, M, at)
  <2> HIDE DEF first
  <2> QED BY <1>6, SelectedIsSelection
<1>10. PICK at : IsSelection(rows, all, first, M, at) BY <1>9
<1> HIDE DEF M, rows
<1>11. /\ Len(rows) \in Nat /\ DOMAIN rows = 1..Len(rows) /\ at \in [1..Len(rows) -> first \cap (1..M)]
       /\ \A j \in 1..Len(rows) : rows[j] = all[at[j]]
       /\ \A j, k \in 1..Len(rows) : j < k => at[j] < at[k]
       /\ \A i \in first \cap (1..M) : \E j \in 1..Len(rows) : at[j] = i
  BY <1>9, <1>10 DEF IsSelection
<1>12. \A i \in first : i \in 1..M /\ \A j \in 1..(i - 1) : DedupeKey(all[j]) # DedupeKey(all[i]) BY <1>8
<1>13. \A i \in 1..M : (\A j \in 1..(i - 1) : DedupeKey(all[j]) # DedupeKey(all[i])) => i \in first BY <1>8
<1> HIDE DEF first
<1>14. \A k \in 1..M : from[k] \in 1..N /\ all[k] \in ToSet(E(from[k])) /\ all[k].event = from[k]
  <2> SUFFICES ASSUME NEW k \in 1..M PROVE from[k] \in 1..N /\ all[k] \in ToSet(E(from[k])) /\ all[k].event = from[k]
    OBVIOUS
  <2>1. from[k] \in 1..N BY <1>8
  <2>2. PICK i \in 1..Len(E(from[k])) : all[k] = E(from[k])[i] BY <1>8
  <2>3. i \in DOMAIN E(from[k]) BY <1>4, <2>1
  <2>4. all[k] \in ToSet(E(from[k])) BY <2>2, <2>3 DEF ToSet
  <2> QED BY <1>3, <2>1, <2>4
<1>15. rows \in Seq(ToSet(rows))
  <2>1. \A i \in 1..Len(rows) : rows[i] \in ToSet(rows) BY <1>11 DEF ToSet
  <2> QED BY <1>9, <2>1, SeqOfElements
<1>16. ASSUME NEW row \in ToSet(rows) PROVE \E n \in 1..N : row \in ToSet(E(n))
  <2>1. PICK j \in 1..Len(rows) : row = rows[j] BY <1>11 DEF ToSet
  <2>2. at[j] \in 1..M /\ row = all[at[j]] BY <1>11, <2>1
  <2> QED BY <1>14, <2>2
<1>17. ASSUME NEW i \in 1..Len(rows), NEW j \in 1..Len(rows), DedupeKey(rows[i]) = DedupeKey(rows[j]), i < j PROVE FALSE
  <2> DEFINE a == at[i]
             b == at[j]
  <2>1. a \in 1..M /\ b \in first /\ b \in 1..M /\ a < b /\ rows[i] = all[a] /\ rows[j] = all[b] BY <1>11, <1>17
  <2> HIDE DEF a, b
  <2>m. M \in Nat BY <1>8 DEF M
  <2>2. a \in 1..(b - 1)
    <3>1. a \in 1..M /\ b \in 1..M /\ a < b BY <2>1
    <3> HIDE <2>1
    <3> QED BY <2>m, <3>1
  <2> QED BY <1>12, <1>17, <2>1, <2>2
<1>18. \A i, j \in 1..Len(rows) : DedupeKey(rows[i]) = DedupeKey(rows[j]) => i = j
  <2> SUFFICES ASSUME NEW i \in 1..Len(rows), NEW j \in 1..Len(rows), DedupeKey(rows[i]) = DedupeKey(rows[j])
               PROVE  i = j
    OBVIOUS
  <2>1. ~(i < j) /\ ~(j < i) BY <1>17
  <2> QED BY <1>11, <2>1
<1>19. ASSUME NEW n \in 1..N, NEW row \in ToSet(E(n))
       PROVE  \E kept \in ToSet(rows) : DedupeKey(kept) = DedupeKey(row) /\ kept.event <= n
  <2>1. PICK x \in 1..Len(E(n)) : row = E(n)[x] BY <1>4 DEF ToSet
  <2>2. PICK k \in 1..M : from[k] = n /\ all[k] = row BY <1>8, <2>1
  <2> DEFINE Same == {i \in 1..M : DedupeKey(all[i]) = DedupeKey(row)}
  <2>3. Same \subseteq Nat /\ k \in Same BY <2>2
  <2>4. PICK i \in Same : \A j \in Same : i <= j
    <3> HIDE DEF Same
    <3> QED BY <2>3, Smallest
  <2>5. i \in 1..M /\ DedupeKey(all[i]) = DedupeKey(row) /\ i <= k BY <2>3, <2>4
  <2>6. M \in Nat BY <1>8 DEF M
  <2>7. ASSUME NEW j \in 1..(i - 1) PROVE DedupeKey(all[j]) # DedupeKey(all[i])
    <3>1. j \in 1..M /\ ~(i <= j) BY <2>5, <2>6
    <3> QED BY <2>4, <2>5, <3>1
  <2>8. i \in first BY <1>13, <2>5, <2>7
  <2>9. PICK y \in 1..Len(rows) : at[y] = i BY <1>11, <2>5, <2>8
  <2>10. rows[y] = all[i] /\ rows[y] \in ToSet(rows) BY <1>11, <2>9 DEF ToSet
  <2>11. from[i] <= from[k]
    <3>1. CASE i = k BY <1>14, <2>2, <3>1
    <3>2. CASE i # k
      <4>1. i < k BY <2>5, <3>2
      <4> QED BY <1>8, <2>5, <4>1 DEF M
    <3> QED BY <3>1, <3>2
  <2>12. all[i].event <= n BY <1>14, <2>2, <2>5, <2>11
  <2> QED BY <2>5, <2>10, <2>12
<1> QED BY <1>2, <1>15, <1>16, <1>18, <1>19 DEF N, E
\* Candidates are those of the results so far, of each of which a candidate has
\* the opening words; ids name one, and the accepted ids are those of the
\* accepted candidates.
CandidatesInv ==
    /\ goalBatches \in Seq(Seq(ToolResults)) /\ Len(goalBatches) <= Len(Goals)
    /\ candidateRows \in Seq(ToSet(candidateRows))
    /\ acceptedIds \in Seq(ToSet(acceptedIds))
    /\ \A row \in ToSet(candidateRows) : \E g \in 1..Len(goalBatches) : \E n \in 1..Len(goalBatches[g]) :
           row \in ToSet(NormalizeEvent(Goals[g], n, goalBatches[g][n]))
    /\ NoResultIsLost
    /\ IdsNameOneCandidate

\* Two sequences, one after the other, have what the first has and what the second has.
LEMMA BothHave ==
    ASSUME NEW s, s \in Seq(ToSet(s)), NEW t, t \in Seq(ToSet(t))
    PROVE  s \o t \in Seq(ToSet(s \o t)) /\ ToSet(s \o t) = ToSet(s) \cup ToSet(t)
<1>1. \A q : ToSet(q) = In(q) BY DEF In, ToSet
<1>2. s \in Seq(In(s)) /\ t \in Seq(In(t)) BY <1>1
<1> QED BY <1>1, <1>2, JoinedHas

LEMMA CandidatesInitInv == CandidatesInit => CandidatesInv
<1> SUFFICES ASSUME CandidatesInit PROVE CandidatesInv
  OBVIOUS
<1>1. goalBatches = <<>> /\ candidateRows = <<>> /\ acceptedIds = <<>> BY DEF CandidatesInit
<1>2. Len(Goals) \in Nat BY CandidatesAssumption
<1>3. ToSet(<<>>) = {} /\ DOMAIN <<>> = {} BY DEF ToSet
<1>4. NoResultIsLost BY <1>1, <1>3 DEF NoResultIsLost
<1>5. {candidateRows[i].id : i \in {k \in DOMAIN candidateRows : candidateRows[k].status = "accepted"}} = {}
  BY <1>1, <1>3
<1>6. IdsNameOneCandidate BY <1>1, <1>3, <1>5 DEF IdsNameOneCandidate
<1>7. <<>> \in Seq(ToSet(<<>>)) /\ <<>> \in Seq(Seq(ToolResults)) /\ Len(<<>>) = 0 OBVIOUS
<1> QED BY <1>1, <1>2, <1>3, <1>4, <1>6, <1>7 DEF CandidatesInv

\* The candidates of the results so far quote them.
LEMMA CandidatesInvSuffices == CandidatesInv => CandidatesHold
<1> SUFFICES ASSUME CandidatesInv PROVE CandidatesQuoteTheirSource
  BY DEF CandidatesInv, CandidatesHold
<1> SUFFICES ASSUME NEW i \in DOMAIN candidateRows, candidateRows[i].status # "rejected"
             PROVE  LET row == candidateRows[i]
                        result == ResultOf(row) IN
                    /\ result.ok
                    /\ \E read \in ToSet(result.results) \cup ToSet(FetchedPages(result)) :
                          /\ read.text = row.text /\ row.text # NoText
                          /\ row.url = read.url \/ (row.kind = "filing" /\ row.url = NoUrl)
                    /\ row.kind \in {"web", "transcript", "browser"} => row.url # NoUrl
  BY DEF CandidatesQuoteTheirSource
<1> DEFINE row == candidateRows[i]
<1>1. row \in ToSet(candidateRows) BY DEF ToSet
<1> HIDE DEF row
<1>2. PICK g \in 1..Len(goalBatches) : \E n \in 1..Len(goalBatches[g]) :
           row \in ToSet(NormalizeEvent(Goals[g], n, goalBatches[g][n]))
  BY <1>1 DEF CandidatesInv
<1>3. PICK n \in 1..Len(goalBatches[g]) : row \in ToSet(NormalizeEvent(Goals[g], n, goalBatches[g][n])) BY <1>2
<1> DEFINE result == goalBatches[g][n]
<1>4. goalBatches[g] \in Seq(ToolResults) /\ DOMAIN goalBatches = 1..Len(goalBatches) BY ElementOfSeq DEF CandidatesInv
<1>5. result \in ToolResults BY <1>4, ElementOfSeq
<1>6. IsCandidateOf(row, Goals[g], n, result)
  <2> HIDE DEF result
  <2>1. row \in ToSet(NormalizeEvent(Goals[g], n, result)) BY <1>3 DEF result
  <2> QED BY <1>5, <2>1, NormalizedEvent
<1>7. row.goal = Goals[g] /\ row.event = n BY <1>6 DEF IsCandidateOf
<1>8. ResultOf(row) = result
  <2>1. \A h \in DOMAIN goalBatches : h \in DOMAIN Goals
    <3>a. Goals \in Seq(STRING) BY CandidatesAssumption
    <3>b. goalBatches \in Seq(Seq(ToolResults)) /\ Len(goalBatches) <= Len(Goals) BY DEF CandidatesInv
    <3>c. Len(Goals) \in Nat BY <3>a
    <3>d. Len(goalBatches) \in Nat BY <3>b
    <3>1. Goals \in Seq(STRING) /\ Len(goalBatches) \in Nat /\ Len(Goals) \in Nat /\ Len(goalBatches) <= Len(Goals)
      BY <3>a, <3>b, <3>c, <3>d
    <3>2. DOMAIN Goals = 1..Len(Goals) BY <3>1
    <3> QED BY <1>4, <3>1, <3>2
  <2>2. \A h \in DOMAIN goalBatches : Goals[h] = row.goal => h = g BY <1>4, <1>7, <2>1, CandidatesAssumption
  <2>3. (CHOOSE h \in DOMAIN goalBatches : Goals[h] = row.goal) = g BY <1>4, <1>7, <2>2
  <2> QED BY <1>7, <2>3 DEF ResultOf
<1> HIDE DEF result
<1>9. /\ result.ok /\ row.kind = EvidenceKind[result.tool] /\ QuotesRow(row, result) /\ row.text # NoText
      /\ row.kind \in {"web", "transcript", "browser"} => row.url # NoUrl
  BY <1>6 DEF IsCandidateOf, row
<1>10. result.tool = "sec_fetch_filing" => row.kind = "filing" BY <1>9 DEF EvidenceKind
<1>11. PICK read \in ToSet(result.results) \cup ToSet(FetchedPages(result)) :
          read.text = row.text /\ (row.url = read.url \/ (result.tool = "sec_fetch_filing" /\ row.url = NoUrl))
  BY <1>9 DEF QuotesRow
<1>12. ResultOf(candidateRows[i]) = result BY <1>8 DEF row
<1> QED BY <1>9, <1>10, <1>11, <1>12 DEF row

LEMMA CandidatesSteps == CandidatesInv /\ [CandidatesNext]_candidateVars => CandidatesInv'
<1> SUFFICES ASSUME CandidatesInv, [CandidatesNext]_candidateVars PROVE CandidatesInv'
  OBVIOUS
<1>1. CASE UNCHANGED candidateVars
  BY <1>1 DEF candidateVars, CandidatesInv, NoResultIsLost, IdsNameOneCandidate
<1>2. CASE CandidatesNext
  <2>1. PICK results \in BoundedSeq(ToolResults, MaxResults) : RunGoal(results) BY <1>2 DEF CandidatesNext
  <2>2. results \in Seq(ToolResults)
    <3>1. PICK m \in 0..MaxResults : results \in [1..m -> ToolResults] BY DEF BoundedSeq, SeqOf
    <3>2. m \in Nat BY CandidatesAssumption
    <3> QED BY <3>1, <3>2, SeqOfFunction
  <2> DEFINE G == Len(goalBatches) + 1
             goal == Goals[G]
             rows == NormalizeEvents(goal, results)
             taken == Selected(rows, {i \in DOMAIN rows : rows[i].status = "accepted"})
             ids == [i \in DOMAIN taken |-> taken[i].id]
  <2>3. /\ Len(goalBatches) < Len(Goals) /\ goalBatches' = Append(goalBatches, results)
        /\ candidateRows' = candidateRows \o rows /\ acceptedIds' = acceptedIds \o ids
    BY <2>1 DEF RunGoal
  <2>4. Len(goalBatches) \in Nat /\ Len(Goals) \in Nat /\ DOMAIN Goals = 1..Len(Goals)
        /\ DOMAIN goalBatches = 1..Len(goalBatches)
    BY CandidatesAssumption DEF CandidatesInv
  <2> HIDE DEF rows, taken, ids
  <2>n. /\ G \in Nat /\ G \in 1..Len(Goals) /\ G <= Len(Goals)
        /\ \A g \in 1..Len(goalBatches) : g \in 1..G /\ g \in 1..Len(Goals) /\ g # G
        /\ \A g \in 1..G : g = G \/ g \in 1..Len(goalBatches)
    <3>1. Len(goalBatches) < Len(Goals) BY <2>3
    <3> DEFINE L == Len(goalBatches)
               M == Len(Goals)
    <3>2. L \in Nat /\ M \in Nat /\ L < M /\ G = L + 1 BY <2>4, <3>1
    <3> HIDE DEF L, M, G
    <3> QED BY <3>2 DEF L, M
  <2>5. \A g \in 1..Len(goalBatches) : Goals[g] # goal
    <3> HIDE DEF G
    <3> QED BY <2>4, <2>n, CandidatesAssumption
  <2>6. /\ rows \in Seq(ToSet(rows))
        /\ \A row \in ToSet(rows) : \E n \in 1..Len(results) : row \in ToSet(NormalizeEvent(goal, n, results[n]))
        /\ \A i, j \in 1..Len(rows) : DedupeKey(rows[i]) = DedupeKey(rows[j]) => i = j
        /\ \A n \in 1..Len(results) : \A row \in ToSet(NormalizeEvent(goal, n, results[n])) :
               \E kept \in ToSet(rows) : DedupeKey(kept) = DedupeKey(row) /\ kept.event <= n
    <3> HIDE DEF goal
    <3> QED BY <2>2, NormalizedEvents DEF rows
  <2>7. \A row \in ToSet(rows) : row.goal = goal /\ row.id = <<goal, row.event, row.kind, row.url, row.text>>
    <3> SUFFICES ASSUME NEW row \in ToSet(rows)
                 PROVE  row.goal = goal /\ row.id = <<goal, row.event, row.kind, row.url, row.text>>
      OBVIOUS
    <3> HIDE DEF goal
    <3>1. PICK n \in 1..Len(results) : row \in ToSet(NormalizeEvent(goal, n, results[n])) BY <2>6
    <3>2. results[n] \in ToolResults BY <2>2, ElementOfSeq
    <3>3. IsCandidateOf(row, goal, n, results[n]) BY <3>1, <3>2, NormalizedEvent
    <3> QED BY <3>3 DEF IsCandidateOf
  <2>8. \A row \in ToSet(candidateRows) : \E g \in 1..Len(goalBatches) :
            row.goal = Goals[g] /\ row.id = <<row.goal, row.event, row.kind, row.url, row.text>>
    <3> SUFFICES ASSUME NEW row \in ToSet(candidateRows)
                 PROVE  \E g \in 1..Len(goalBatches) :
                            row.goal = Goals[g] /\ row.id = <<row.goal, row.event, row.kind, row.url, row.text>>
      OBVIOUS
    <3>1. PICK g \in 1..Len(goalBatches) : \E n \in 1..Len(goalBatches[g]) :
              row \in ToSet(NormalizeEvent(Goals[g], n, goalBatches[g][n]))
      BY DEF CandidatesInv
    <3>2. PICK n \in 1..Len(goalBatches[g]) : row \in ToSet(NormalizeEvent(Goals[g], n, goalBatches[g][n])) BY <3>1
    <3>3. goalBatches[g] \in Seq(ToolResults) BY ElementOfSeq DEF CandidatesInv
    <3>4. goalBatches[g][n] \in ToolResults BY <3>3, ElementOfSeq
    <3>5. IsCandidateOf(row, Goals[g], n, goalBatches[g][n]) BY <3>2, <3>4, NormalizedEvent
    <3> QED BY <3>5 DEF IsCandidateOf
  <2>9. goalBatches' \in Seq(Seq(ToolResults)) /\ Len(goalBatches') = G /\ Len(goalBatches') <= Len(Goals)
        /\ DOMAIN goalBatches' = 1..G
        /\ goalBatches'[G] = results /\ \A g \in 1..Len(goalBatches) : goalBatches'[g] = goalBatches[g] /\ g \in 1..G
    <3>1. goalBatches \in Seq(Seq(ToolResults)) BY DEF CandidatesInv
    <3>2. /\ Append(goalBatches, results) \in Seq(Seq(ToolResults)) /\ Len(Append(goalBatches, results)) = G
          /\ Append(goalBatches, results)[G] = results
          /\ \A g \in 1..Len(goalBatches) : Append(goalBatches, results)[g] = goalBatches[g]
      BY <2>2, <3>1, Appended
    <3> HIDE DEF G
    <3>3. goalBatches' = Append(goalBatches, results) BY <2>3
    <3>4. goalBatches' \in Seq(Seq(ToolResults)) /\ Len(goalBatches') = G /\ goalBatches'[G] = results
          /\ \A g \in 1..Len(goalBatches) : goalBatches'[g] = goalBatches[g]
      BY <3>2, <3>3
    <3> QED BY <2>n, <3>4
  <2>10. candidateRows' \in Seq(ToSet(candidateRows')) /\ ToSet(candidateRows') = ToSet(candidateRows) \cup ToSet(rows)
    <3>1. candidateRows \in Seq(ToSet(candidateRows)) BY DEF CandidatesInv
    <3> QED BY <2>3, <2>6, <3>1, BothHave
  <2>11. ids \in Seq(ToSet(ids)) /\ ToSet(ids) = {row.id : row \in {x \in ToSet(rows) : x.status = "accepted"}}
    <3> DEFINE which == {i \in DOMAIN rows : rows[i].status = "accepted"}
               S == ToSet(rows)
    <3>1. DOMAIN rows = 1..Len(rows) /\ rows \in Seq(S) BY <2>6
    <3>2. \A i \in 1..Len(rows) : i \in which <=> rows[i].status = "accepted" BY <3>1
    <3> HIDE DEF which, S
    <3>3. /\ taken \in Seq(S) /\ Len(taken) \in Nat
          /\ \A j \in 1..Len(taken) : \E i \in 1..Len(rows) : i \in which /\ taken[j] = rows[i]
          /\ \A i \in 1..Len(rows) : i \in which => \E j \in 1..Len(taken) : taken[j] = rows[i]
      <4> DEFINE r == Selected(rows, which)
      <4>1. taken = r BY DEF which, taken
      <4>2. /\ r \in Seq(S) /\ Len(r) \in Nat
            /\ \A j \in 1..Len(r) : \E i \in 1..Len(rows) : i \in which /\ r[j] = rows[i]
            /\ \A i \in 1..Len(rows) : i \in which => \E j \in 1..Len(r) : r[j] = rows[i]
        <5>1. rows \in Seq(S) BY <3>1
        <5> HIDE <3>1
        <5> QED BY ONLY <5>1, SelectedHas DEF r
      <4> HIDE DEF r
      <4> QED BY <4>1, <4>2
    <3>4. DOMAIN taken = 1..Len(taken) BY <3>3
    <3>5. DOMAIN ids = 1..Len(taken) /\ \A j \in 1..Len(taken) : ids[j] = taken[j].id BY <3>4 DEF ids
    <3>6. ids \in Seq(ToSet(ids))
      <4>1. \A j \in 1..Len(taken) : ids[j] \in ToSet(ids) BY <3>5 DEF ToSet
      <4>2. ids \in [1..Len(taken) -> ToSet(ids)]
        <5>1. ids = [i \in 1..Len(taken) |-> ids[i]] BY <3>4, <3>5 DEF ids
        <5> QED BY <4>1, <5>1
      <4> QED BY <3>3, <4>2, SeqOfFunction
    <3>7. ToSet(ids) \subseteq {row.id : row \in {x \in ToSet(rows) : x.status = "accepted"}}
      <4> SUFFICES ASSUME NEW j \in 1..Len(taken)
                   PROVE  taken[j].id \in {row.id : row \in {x \in ToSet(rows) : x.status = "accepted"}}
        BY <3>5 DEF ToSet
      <4>1. PICK i \in 1..Len(rows) : i \in which /\ taken[j] = rows[i] BY <3>3
      <4>2. taken[j] \in ToSet(rows) /\ taken[j].status = "accepted" BY <3>1, <3>2, <4>1 DEF ToSet
      <4> QED BY <4>2
    <3>8. ASSUME NEW x \in ToSet(rows), x.status = "accepted" PROVE x.id \in ToSet(ids)
      <4>1. PICK i \in 1..Len(rows) : x = rows[i] BY <3>1 DEF ToSet
      <4>2. PICK j \in 1..Len(taken) : taken[j] = x BY <3>2, <3>3, <3>8, <4>1
      <4>3. j \in DOMAIN ids /\ ids[j] = x.id BY <3>5, <4>2
      <4> QED BY <4>3 DEF ToSet
    <3> QED BY <3>6, <3>7, <3>8
  <2>12. acceptedIds' \in Seq(ToSet(acceptedIds')) /\ ToSet(acceptedIds') = ToSet(acceptedIds) \cup ToSet(ids)
    <3>1. acceptedIds \in Seq(ToSet(acceptedIds)) BY DEF CandidatesInv
    <3> QED BY <2>3, <2>11, <3>1, BothHave
  <2> HIDE DEF goal
  <2>13. \A row \in ToSet(candidateRows') : \E g \in 1..Len(goalBatches') : \E n \in 1..Len(goalBatches'[g]) :
            row \in ToSet(NormalizeEvent(Goals[g], n, goalBatches'[g][n]))
    <3> SUFFICES ASSUME NEW row \in ToSet(candidateRows')
                 PROVE  \E g \in 1..G : \E n \in 1..Len(goalBatches'[g]) :
                            row \in ToSet(NormalizeEvent(Goals[g], n, goalBatches'[g][n]))
      BY <2>9
    <3>1. CASE row \in ToSet(candidateRows)
      <4>1. PICK g \in 1..Len(goalBatches) : \E n \in 1..Len(goalBatches[g]) :
                row \in ToSet(NormalizeEvent(Goals[g], n, goalBatches[g][n]))
        BY <3>1 DEF CandidatesInv
      <4>2. goalBatches'[g] = goalBatches[g] /\ g \in 1..G BY <2>9
      <4> QED BY <4>1, <4>2
    <3>2. CASE row \in ToSet(rows)
      <4>1. PICK n \in 1..Len(results) : row \in ToSet(NormalizeEvent(goal, n, results[n])) BY <2>6, <3>2
      <4>2. G \in 1..G /\ goalBatches'[G] = results /\ goal = Goals[G] BY <2>9, <2>n DEF goal
      <4> HIDE DEF G
      <4> QED BY <4>1, <4>2
    <3> QED BY <2>10, <3>1, <3>2
  <2>14. DOMAIN candidateRows = 1..Len(candidateRows) /\ DOMAIN rows = 1..Len(rows)
         /\ DOMAIN candidateRows' = 1..Len(candidateRows')
    BY <2>6, <2>10 DEF CandidatesInv
  <2>15. NoResultIsLost'
    <3>1. SUFFICES ASSUME NEW g \in 1..G, NEW n \in DOMAIN goalBatches'[g],
                         NEW row \in ToSet(NormalizeEvent(Goals[g], n, goalBatches'[g][n]))
                 PROVE  \E kept \in ToSet(candidateRows') :
                            /\ kept.goal = Goals[g] /\ kept.event <= n
                            /\ kept.url = row.url /\ kept.kind = row.kind /\ Opening(kept.text) = Opening(row.text)
      <4> SUFFICES ASSUME NEW g \in DOMAIN goalBatches', NEW n \in DOMAIN goalBatches'[g],
                          NEW row \in ToSet(NormalizeEvent(Goals[g], n, goalBatches'[g][n]))
                   PROVE  \E i \in DOMAIN candidateRows' :
                              /\ candidateRows'[i].goal = Goals[g] /\ candidateRows'[i].event <= n
                              /\ candidateRows'[i].url = row.url /\ candidateRows'[i].kind = row.kind
                              /\ Opening(candidateRows'[i].text) = Opening(row.text)
        BY DEF NoResultIsLost
      <4>1. g \in 1..G BY <2>9
      <4>2. PICK kept \in ToSet(candidateRows') :
                            /\ kept.goal = Goals[g] /\ kept.event <= n
                            /\ kept.url = row.url /\ kept.kind = row.kind /\ Opening(kept.text) = Opening(row.text)
        BY <3>1, <4>1
      <4>3. PICK i \in DOMAIN candidateRows' : kept = candidateRows'[i] BY DEF ToSet
      <4> QED BY <4>2, <4>3
    <3>2. CASE g = G
      <4>1. goalBatches'[g] = results /\ goal = Goals[g] BY <2>9, <3>2 DEF goal
      <4>2. n \in 1..Len(results) BY <2>2, <4>1
      <4>3. row \in ToSet(NormalizeEvent(goal, n, results[n])) BY <4>1
      <4>4. PICK kept \in ToSet(rows) : DedupeKey(kept) = DedupeKey(row) /\ kept.event <= n BY <2>6, <4>2, <4>3
      <4>5. kept.goal = goal BY <2>7
      <4>6. kept.url = row.url /\ kept.kind = row.kind /\ Opening(kept.text) = Opening(row.text)
        BY <4>4 DEF DedupeKey
      <4> QED BY <2>10, <4>1, <4>4, <4>5, <4>6
    <3>3. CASE g # G
      <4>1. g \in 1..Len(goalBatches) /\ g \in DOMAIN goalBatches BY <2>n, <2>4, <3>3
      <4>2. goalBatches'[g] = goalBatches[g] BY <2>9, <4>1
      <4>3. n \in DOMAIN goalBatches[g] /\ row \in ToSet(NormalizeEvent(Goals[g], n, goalBatches[g][n])) BY <4>2
      <4>4. PICK i \in DOMAIN candidateRows :
               /\ candidateRows[i].goal = Goals[g] /\ candidateRows[i].event <= n
               /\ candidateRows[i].url = row.url /\ candidateRows[i].kind = row.kind
               /\ Opening(candidateRows[i].text) = Opening(row.text)
        BY <4>1, <4>3 DEF CandidatesInv, NoResultIsLost
      <4>5. candidateRows[i] \in ToSet(candidateRows') BY <2>10 DEF ToSet
      <4> QED BY <4>4, <4>5
    <3> QED BY <3>2, <3>3
  <2>16. IdsNameOneCandidate'
    <3>1. ASSUME NEW x \in ToSet(candidateRows), NEW y \in ToSet(rows) PROVE x.id # y.id
      <4>1. x.id = <<x.goal, x.event, x.kind, x.url, x.text>> /\ x.goal # goal BY <2>5, <2>8
      <4>2. y.id = <<goal, y.event, y.kind, y.url, y.text>> BY <2>7
      <4> QED BY <4>1, <4>2
    <3>2. ASSUME NEW i \in 1..Len(rows), NEW j \in 1..Len(rows), rows[i].id = rows[j].id PROVE i = j
      <4>1. rows[i] \in ToSet(rows) /\ rows[j] \in ToSet(rows) BY <2>14 DEF ToSet
      <4>2. rows[i].id = <<goal, rows[i].event, rows[i].kind, rows[i].url, rows[i].text>>
            /\ rows[j].id = <<goal, rows[j].event, rows[j].kind, rows[j].url, rows[j].text>>
        BY <2>7, <4>1
      <4> DEFINE a == rows[i]
                 b == rows[j]
      <4>3. a.id = b.id /\ a.id = <<goal, a.event, a.kind, a.url, a.text>> /\ b.id = <<goal, b.event, b.kind, b.url, b.text>>
        BY <3>2, <4>2
      <4> HIDE DEF a, b
      <4>t. \A u1, u2, u3, u4, v1, v2, v3, v4 :
               <<goal, u1, u2, u3, u4>> = <<goal, v1, v2, v3, v4>> => u2 = v2 /\ u3 = v3 /\ u4 = v4
        OBVIOUS
      <4>u. <<goal, a.event, a.kind, a.url, a.text>> = <<goal, b.event, b.kind, b.url, b.text>> BY <4>3
      <4>4. a.kind = b.kind /\ a.url = b.url /\ a.text = b.text BY <4>t, <4>u
      <4>5. DedupeKey(a) = DedupeKey(b) BY <4>4 DEF DedupeKey
      <4> QED BY <2>6, <4>5 DEF a, b
    <3> DEFINE q == candidateRows'
               L == Len(candidateRows)
               J == Len(rows)
    <3>3. /\ L \in Nat /\ J \in Nat /\ Len(q) = L + J /\ \A k \in 1..L : q[k] = candidateRows[k]
          /\ \A k \in 1..(L + J) : k \in 1..L \/ (k > L /\ k - L \in 1..J /\ q[k] = rows[k - L])
      <4> DEFINE S == ToSet(candidateRows')
      <4>1. \A k \in 1..L : candidateRows[k] \in S BY <2>10, <2>14 DEF ToSet
      <4>2. \A k \in 1..J : rows[k] \in S BY <2>10, <2>14 DEF ToSet
      <4> HIDE DEF S
      <4>3. candidateRows \in Seq(ToSet(candidateRows)) BY DEF CandidatesInv
      <4>4. candidateRows \in Seq(S) BY <4>1, <4>3, SeqOfElements
      <4>5. rows \in Seq(S) BY <2>6, <4>2, SeqOfElements
      <4>6. /\ Len(candidateRows) \in Nat /\ Len(rows) \in Nat
            /\ Len(candidateRows \o rows) = Len(candidateRows) + Len(rows)
            /\ \A k \in 1..Len(candidateRows) : (candidateRows \o rows)[k] = candidateRows[k]
            /\ \A k \in 1..(Len(candidateRows) + Len(rows)) : k \in 1..Len(candidateRows) \/
                   (k > Len(candidateRows) /\ k - Len(candidateRows) \in 1..Len(rows)
                    /\ (candidateRows \o rows)[k] = rows[k - Len(candidateRows)])
        BY <4>4, <4>5, Concatenated
      <4>7. q = candidateRows \o rows BY <2>3
      <4> HIDE DEF q
      <4> QED BY <4>6, <4>7
    <3>4. \A i, j \in 1..L : candidateRows[i].id = candidateRows[j].id => i = j
      BY <2>14 DEF CandidatesInv, IdsNameOneCandidate
    <3>5. ASSUME NEW i \in 1..(L + J), NEW j \in 1..(L + J), q[i].id = q[j].id, i < j PROVE FALSE
      <4> HIDE DEF q, L, J
      <4>1. CASE j \in 1..L
        <5>1. i \in 1..L BY <3>3, <3>5, <4>1
        <5>2. q[i] = candidateRows[i] /\ q[j] = candidateRows[j] BY <3>3, <4>1, <5>1
        <5>3. i = j BY <3>4, <3>5, <4>1, <5>1, <5>2
        <5> QED BY <3>3, <3>5, <5>1, <5>3
      <4>2. CASE j \notin 1..L /\ i \in 1..L
        <5>1. q[i] = candidateRows[i] /\ q[j] = rows[j - L] /\ j - L \in 1..J BY <3>3, <4>2
        <5>2. candidateRows[i] \in ToSet(candidateRows) BY <2>14, <4>2 DEF ToSet, L
        <5>3. rows[j - L] \in ToSet(rows) BY <2>14, <5>1 DEF ToSet, J
        <5> QED BY <3>1, <3>5, <5>1, <5>2, <5>3
      <4>3. CASE j \notin 1..L /\ i \notin 1..L
        <5>1. q[i] = rows[i - L] /\ i - L \in 1..J /\ q[j] = rows[j - L] /\ j - L \in 1..J BY <3>3, <4>3
        <5>2. i - L = j - L BY <3>2, <3>5, <5>1 DEF J
        <5>3. i \in Int /\ j \in Int /\ L \in Int BY <3>3
        <5> QED BY <3>5, <5>2, <5>3
      <4> QED BY <4>1, <4>2, <4>3
    <3>6. \A i, j \in DOMAIN q : q[i].id = q[j].id => i = j
      <4>1. DOMAIN q = 1..(L + J) BY <2>14, <3>3
      <4> SUFFICES ASSUME NEW i \in 1..(L + J), NEW j \in 1..(L + J), q[i].id = q[j].id PROVE i = j
        BY <4>1
      <4> HIDE DEF q, L, J
      <4>2. ~(i < j) /\ ~(j < i) BY <3>5
      <4>3. i \in Int /\ j \in Int BY <3>3
      <4> QED BY <4>2, <4>3
    <3> DEFINE IdsOf(set) == {row.id : row \in {x \in set : x.status = "accepted"}}
    <3>7. ASSUME NEW s
          PROVE  {s[i].id : i \in {k \in DOMAIN s : s[k].status = "accepted"}} = IdsOf(ToSet(s))
      BY DEF ToSet
    <3>8. ToSet(acceptedIds) = IdsOf(ToSet(candidateRows)) BY <3>7 DEF CandidatesInv, IdsNameOneCandidate
    <3>9. ToSet(acceptedIds') = IdsOf(ToSet(candidateRows')) BY <2>10, <2>11, <2>12, <3>8
    <3>10. ToSet(acceptedIds') = {q[i].id : i \in {k \in DOMAIN q : q[k].status = "accepted"}}
      BY <3>7, <3>9
    <3> QED BY <3>6, <3>10 DEF IdsNameOneCandidate
  <2> QED BY <2>9, <2>10, <2>12, <2>13, <2>15, <2>16 DEF CandidatesInv
<1> QED BY <1>1, <1>2

\* For all goals, tools, results and bounds: what a run takes from its tools
\* quotes them, nothing of a result is lost, and an id names one candidate.
THEOREM CandidatesSound == CandidatesSpec => []CandidatesHold
  BY CandidatesInitInv, CandidatesSteps, CandidatesInvSuffices, PTL DEF CandidatesSpec
=============================================================================

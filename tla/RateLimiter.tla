---------------------------- MODULE RateLimiter ----------------------------
(***************************************************************************)
(* The sliding window that limits requests (api/rate_limit.py).  A check   *)
(* has no await in it, so it is one step.  Time goes in ticks finer than   *)
(* the seconds of Retry-After.                                             *)
(***************************************************************************)
EXTENDS Integers, Sequences

CONSTANTS
    Clients,       \* keys: "key:" and an API key, or "ip:" and a host
    NoKey,         \* a request without either
    MaxRequests,   \* RATE_LIMIT_BURST
    Window,        \* ticks of a window
    Second,        \* ticks of a second
    MaxTicks       \* bound of the clock

ASSUME LimiterAssumption ==
    /\ MaxRequests \in Nat \ {0} /\ Window \in Nat \ {0} /\ Second \in Nat \ {0} /\ MaxTicks \in Nat
    /\ NoKey \notin Clients

VARIABLES
    hits,        \* the bucket of each key: times of requests, oldest first
    admitted,    \* times of all requests let in
    refusal,     \* the last refusal of each key
    ticks

limiterVars == <<hits, admitted, refusal, ticks>>

NoRefusal == [at |-> 0, bucket |-> <<>>, wait |-> 0]

LimiterInit ==
    /\ hits = [c \in Clients |-> <<>>]
    /\ admitted = [c \in Clients |-> <<>>]
    /\ refusal = [c \in Clients |-> NoRefusal]
    /\ ticks = 0

\* How many hits the loop takes from the left: those at the cutoff or before
\* it, up to the first that is later.
Dropped(bucket, cutoff) ==
    CHOOSE n \in 0..Len(bucket) :
        /\ \A i \in 1..n : bucket[i] <= cutoff
        /\ n < Len(bucket) => bucket[n + 1] > cutoff

\* Mutant: a hit stays at the edge of the window for one tick less.
LiveTooShort(bucket, now) ==
    SubSeq(bucket, Dropped(bucket, now - Window + 1) + 1, Len(bucket))

\* What is left of a bucket when the hits that fell out of the window go.
Live(bucket, now) ==
    SubSeq(bucket, Dropped(bucket, now - Window) + 1, Len(bucket))

\* Seconds until the oldest hit has left, rounded down, and one more.
RetryAfter(bucket, now) ==
    LET wait == ((bucket[1] + Window - now) \div Second) + 1 IN IF wait < 1 THEN 1 ELSE wait

Admit(c) ==
    LET live == Live(hits[c], ticks)
    IN  /\ Len(live) < MaxRequests
        /\ hits' = [hits EXCEPT ![c] = Append(live, ticks)]
        /\ admitted' = [admitted EXCEPT ![c] = Append(@, ticks)]
        /\ UNCHANGED <<refusal, ticks>>

Refuse(c) ==
    LET live == Live(hits[c], ticks)
    IN  /\ Len(live) >= MaxRequests
        /\ hits' = [hits EXCEPT ![c] = live]
        /\ refusal' = [refusal EXCEPT ![c] =
                        [at |-> ticks, bucket |-> live, wait |-> RetryAfter(live, ticks)]]
        /\ UNCHANGED <<admitted, ticks>>

\* dispatch: a request without a key goes through.
LimitedRequest(c) == IF c = NoKey THEN UNCHANGED limiterVars ELSE Admit(c) \/ Refuse(c)

LimiterTick ==
    /\ ticks < MaxTicks
    /\ ticks' = ticks + 1
    /\ UNCHANGED <<hits, admitted, refusal>>

LimiterNext == LimiterTick \/ \E c \in Clients \cup {NoKey} : LimitedRequest(c)

LimiterSpec == LimiterInit /\ [][LimiterNext]_limiterVars
-----------------------------------------------------------------------------
(* Properties *)

LimiterTypeOK ==
    /\ hits \in [Clients -> Seq(0..MaxTicks)]
    /\ admitted \in [Clients -> Seq(0..MaxTicks)]
    /\ ticks \in 0..MaxTicks

\* No window of any position holds more than MaxRequests admitted requests.
WindowsHold ==
    \A c \in Clients : \A i, j \in DOMAIN admitted[c] :
        j = i + MaxRequests => admitted[c][j] - admitted[c][i] >= Window

\* A client that waits as long as it was told finds room, and is not told to
\* wait more than a second too long.
RetryIsRight(r) ==
    LET until == r.at + r.wait * Second
    IN  /\ Len(Live(r.bucket, until)) < MaxRequests
        /\ until <= r.bucket[1] + Window + Second

\* The limiter admits no burst over its limit across any edge of a window, and
\* the Retry-After it sends is enough and not too much.
LimitHolds == WindowsHold /\ \A c \in Clients : refusal[c] # NoRefusal => RetryIsRight(refusal[c])
=============================================================================

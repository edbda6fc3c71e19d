--------------------------- MODULE AnalystJournal ---------------------------
(***************************************************************************)
(* Theses, their reviews (research/journal.py) and the drafts of           *)
(* post-earnings reviews (research/post_earnings.py), under the requests   *)
(* of api/research.py: each runs in a thread of its own and every SQL      *)
(* statement is a step.                                                    *)
(***************************************************************************)
EXTENDS Integers

CONSTANTS
    Clerks,       \* requests that may be under way at once
    Theses,       \* thesis ids
    Periods,      \* pairs of snapshots <<from, to>> a draft may be asked for
    MaxReviews    \* bound of the reviews made

ASSUME ReviewsAssumption == MaxReviews \in Nat

VARIABLES
    theses, drafts,  \* rows by thesis id, and by <<thesis, period>>
    clerk,           \* what each request has read and will do next
    reviewsMade,
    acked,           \* reviews whose request was answered: [thesis, review]
    overwritten,     \* theses written from a copy, or a body, that is not the row
    confirmedAgain   \* drafts of which two confirmations overlapped, or one died half way

journalVars == <<theses, drafts, clerk, reviewsMade, acked, overwritten, confirmedAgain>>

Outcomes == {"supported", "invalidated"}
ThesisStatuses == {"active", "invalidated"}
Drafts == Theses \X Periods
Reviews == [id : 1..MaxReviews, outcome : Outcomes, draft : SUBSET Drafts]
ThesisRows == [status : ThesisStatuses, reviews : SUBSET Reviews]
Idle == [stage |-> "idle"]

JournalInit ==
    /\ theses = <<>> /\ drafts = <<>>
    /\ clerk = [c \in Clerks |-> Idle]
    /\ reviewsMade = 0
    /\ acked = {} /\ overwritten = {} /\ confirmedAgain = {}

With(f, k, v) == [x \in DOMAIN f \cup {k} |-> IF x = k THEN v ELSE f[x]]
Is(c, stage) == clerk[c].stage = stage
Return(c) == clerk' = [clerk EXCEPT ![c] = Idle]
Goto(c, work) == clerk' = [clerk EXCEPT ![c] = work]
-----------------------------------------------------------------------------
(* Theses and reviews *)

\* A write from a copy that is no longer what the table holds, whoever's.
SaveThesis(t, copy, row) ==
    /\ theses' = With(theses, t, row)
    /\ overwritten' = IF t \in DOMAIN theses /\ theses[t] # copy
                      THEN overwritten \cup {t} ELSE overwritten

\* POST /theses replaces the whole thesis by the body: a new one, or one
\* the client read before and changed.
PostThesis(c, t) ==
    /\ Is(c, "idle")
    /\ \E s \in ThesisStatuses :
        LET body == [status |-> s, reviews |-> {}] IN SaveThesis(t, body, body)
    /\ UNCHANGED <<drafts, clerk, reviewsMade, acked, confirmedAgain>>

ReadThesis(c, t) ==
    /\ Is(c, "idle") /\ t \in DOMAIN theses
    /\ Goto(c, [stage |-> "edit", thesis |-> t, copy |-> theses[t]])
    /\ UNCHANGED <<theses, drafts, reviewsMade, acked, overwritten, confirmedAgain>>

EditThesis(c) ==
    /\ Is(c, "edit")
    /\ \E s \in ThesisStatuses :
        SaveThesis(clerk[c].thesis, clerk[c].copy, [clerk[c].copy EXCEPT !.status = s])
    /\ Return(c)
    /\ UNCHANGED <<drafts, reviewsMade, acked, confirmedAgain>>

Reviewed(copy, review) ==
    [status |-> IF review.outcome = "invalidated" THEN "invalidated" ELSE copy.status,
     reviews |-> copy.reviews \cup {review}]

\* add_review: the thesis is read, then written whole with one review more.
BeginReview(c, t) ==
    /\ Is(c, "idle") /\ t \in DOMAIN theses /\ reviewsMade < MaxReviews
    /\ reviewsMade' = reviewsMade + 1
    /\ \E o \in Outcomes :
        Goto(c, [stage |-> "review", thesis |-> t, copy |-> theses[t],
                 review |-> [id |-> reviewsMade', outcome |-> o, draft |-> {}]])
    /\ UNCHANGED <<theses, drafts, acked, overwritten, confirmedAgain>>

AddReview(c) ==
    /\ Is(c, "review")
    /\ LET w == clerk[c] IN
        /\ SaveThesis(w.thesis, w.copy, Reviewed(w.copy, w.review))
        /\ acked' = acked \cup {[thesis |-> w.thesis, review |-> w.review]}
    /\ Return(c)
    /\ UNCHANGED <<drafts, reviewsMade, confirmedAgain>>
-----------------------------------------------------------------------------
(* Drafts of post-earnings reviews *)

\* The thesis and the snapshots are read; a draft of the same three is
\* given back, and the unique index refuses one that came in between.
DraftFor(c, t, p) ==
    /\ Is(c, "idle") /\ t \in DOMAIN theses
    /\ \/ <<t, p>> \in DOMAIN drafts /\ UNCHANGED clerk
       \/ <<t, p>> \notin DOMAIN drafts /\ Goto(c, [stage |-> "draft", draft |-> <<t, p>>])
    /\ UNCHANGED <<theses, drafts, reviewsMade, acked, overwritten, confirmedAgain>>

SaveDraft(c) ==
    /\ Is(c, "draft")
    /\ drafts' = IF clerk[c].draft \in DOMAIN drafts THEN drafts
                 ELSE With(drafts, clerk[c].draft, [status |-> "draft", review |-> 0])
    /\ Return(c)
    /\ UNCHANGED <<theses, reviewsMade, acked, overwritten, confirmedAgain>>

Confirming(c, d) == clerk[c].stage \in {"confirm", "reviewConfirm", "confirmed"} /\ clerk[c].draft = d

\* confirm: read the draft, add its review to the thesis, update the draft.
BeginConfirm(c, d) ==
    /\ Is(c, "idle") /\ d \in DOMAIN drafts /\ reviewsMade < MaxReviews
    /\ IF drafts[d].status = "confirmed"
       THEN UNCHANGED <<clerk, reviewsMade, confirmedAgain>>
       ELSE /\ reviewsMade' = reviewsMade + 1
            /\ confirmedAgain' = confirmedAgain \cup {e \in {d} : \E o \in Clerks : Confirming(o, e)}
            /\ \E o \in Outcomes :
                Goto(c, [stage |-> "confirm", thesis |-> d[1], draft |-> d,
                         review |-> [id |-> reviewsMade', outcome |-> o, draft |-> {d}]])
    /\ UNCHANGED <<theses, drafts, acked, overwritten>>

ReadForConfirm(c) ==
    /\ Is(c, "confirm")
    /\ LET w == clerk[c] IN
        Goto(c, [stage |-> "reviewConfirm", thesis |-> w.thesis, draft |-> w.draft,
                 review |-> w.review, copy |-> theses[w.thesis]])
    /\ UNCHANGED <<theses, drafts, reviewsMade, acked, overwritten, confirmedAgain>>

ReviewOfConfirm(c) ==
    /\ Is(c, "reviewConfirm")
    /\ LET w == clerk[c] IN
        /\ SaveThesis(w.thesis, w.copy, Reviewed(w.copy, w.review))
        /\ Goto(c, [stage |-> "confirmed", thesis |-> w.thesis, draft |-> w.draft, review |-> w.review])
    /\ UNCHANGED <<drafts, reviewsMade, acked, confirmedAgain>>

\* Mutant: a confirmed draft keeps the status "draft".
MarkReviewed(c) ==
    /\ Is(c, "confirmed")
    /\ drafts' = [drafts EXCEPT ![clerk[c].draft].review = clerk[c].review.id]
    /\ Return(c)
    /\ UNCHANGED <<theses, reviewsMade, acked, overwritten, confirmedAgain>>

MarkConfirmed(c) ==
    /\ Is(c, "confirmed")
    /\ LET w == clerk[c] IN
        /\ drafts' = [drafts EXCEPT ![w.draft] = [status |-> "confirmed", review |-> w.review.id]]
        /\ acked' = acked \cup {[thesis |-> w.thesis, review |-> w.review]}
    /\ Return(c)
    /\ UNCHANGED <<theses, reviewsMade, overwritten, confirmedAgain>>
-----------------------------------------------------------------------------
\* The process dies between two statements of a request.
LoseClerk(c) ==
    /\ ~Is(c, "idle")
    /\ confirmedAgain' = IF Is(c, "confirmed") THEN confirmedAgain \cup {clerk[c].draft} ELSE confirmedAgain
    /\ Return(c)
    /\ UNCHANGED <<theses, drafts, reviewsMade, acked, overwritten>>

JournalNext ==
    \E c \in Clerks :
        \/ \E t \in Theses : PostThesis(c, t) \/ ReadThesis(c, t) \/ BeginReview(c, t)
        \/ \E t \in Theses, p \in Periods : DraftFor(c, t, p)
        \/ \E d \in DOMAIN drafts : BeginConfirm(c, d)
        \/ EditThesis(c) \/ AddReview(c) \/ SaveDraft(c)
        \/ ReadForConfirm(c) \/ ReviewOfConfirm(c) \/ MarkConfirmed(c) \/ LoseClerk(c)

JournalSpec == JournalInit /\ [][JournalNext]_journalVars
-----------------------------------------------------------------------------
(* Properties *)

JournalTypeOK ==
    /\ DOMAIN theses \subseteq Theses /\ \A t \in DOMAIN theses : theses[t] \in ThesisRows
    /\ DOMAIN drafts \subseteq Drafts
    /\ \A d \in DOMAIN drafts : drafts[d] \in [status : {"draft", "confirmed"}, review : 0..MaxReviews]
    /\ DOMAIN clerk = Clerks
    /\ reviewsMade \in 0..MaxReviews
    /\ overwritten \subseteq Theses /\ confirmedAgain \subseteq Drafts

\* An answered review stays in a thesis that nobody wrote from an old copy.
ReviewsKept ==
    \A a \in acked : a.thesis \notin overwritten => a.review \in theses[a.thesis].reviews

\* A draft that two confirmations did not overlap on, and none died on
\* half way, gives its thesis one review, and is confirmed for it.
OneReviewPerDraft ==
    \A t \in DOMAIN theses : \A r, s \in theses[t].reviews : \A d \in r.draft :
        d \notin confirmedAgain =>
            /\ d \in s.draft => r = s
            /\ \/ drafts[d] = [status |-> "confirmed", review |-> r.id]
               \/ \E c \in Clerks : Confirming(c, d) /\ clerk[c].review = r

\* Reviews under requests that interleave: an answered review is kept, and
\* a confirmation counts once, but for the theses and drafts whose requests
\* crossed one another, which the code does not order.
JournalHolds == ReviewsKept /\ OneReviewPerDraft
=============================================================================

-------------------------- MODULE ApprovalDatabase --------------------------
(***************************************************************************)
(* The durable approval store of ai/approvals.py: the rows and the audit   *)
(* log are two SQLite tables, every call is a transaction that takes the   *)
(* write lock before it reads (BEGIN IMMEDIATE), and several processes     *)
(* with the same file serve calls at once.  The copies a process keeps in  *)
(* memory are not read by any of its calls and are left out.               *)
(***************************************************************************)
EXTENDS Integers, Sequences, FiniteSets

CONSTANTS
    Approvals, TTLs, MaxTime, NoItem,
    Processes,   \* those that have the file open
    MaxAudit     \* bound: calls are begun while the log has room for them

VARIABLES
    clock,
    rows,     \* deferred_tool_approvals
    audit,    \* deferred_tool_approval_audit, in the order of its sequence
    lock,     \* the process that holds the write lock, as a set
    call      \* the call each process is in, {} when none

vars == <<clock, rows, audit, lock, call>>

\* The promise.
Reference == INSTANCE DeferredApprovals WITH items <- rows

Items == Reference!Items
Statuses == Reference!Statuses
Ended == {"denied", "expired", "cancelled", "executed"}

ASSUME DatabaseAssumption ==
    /\ TTLs \subseteq Nat \ {0}
    /\ MaxTime \in Nat
    /\ NoItem \notin Items
    /\ MaxAudit \in Nat

Entries ==
    [on: Approvals, status: Statuses,
     action: Statuses \cup {"requested", "execution_rejected", "token_rejected"}]

\* A call: what it was asked, and the row it works on.
Calls == [op: {"request", "decide", "cancel", "claim"}, on: Approvals, item: Items]

Init ==
    /\ clock = 0
    /\ rows = [a \in Approvals |-> NoItem]
    /\ audit = <<>>
    /\ lock = {}
    /\ call = [p \in Processes |-> {}]

-----------------------------------------------------------------------------
(* A call begins *)

Serving == {p \in Processes : call[p] # {}}

Free(p) ==
    /\ call[p] = {}
    /\ Len(audit) + Cardinality(Serving) < MaxAudit

\* request draws a new id and dates its expiry before it waits for the file.
PrepareRequest(p) ==
    /\ Free(p)
    /\ \E a \in Approvals, ttl \in TTLs :
         /\ rows[a] = NoItem
         /\ \A other \in Processes : \A c \in call[other] : c.on # a
         /\ call' = [call EXCEPT ![p] =
              {[op |-> "request", on |-> a,
                item |-> [status |-> "pending", expiresAt |-> clock + ttl]]}]
    /\ UNCHANGED <<clock, rows, audit, lock>>

\* Mutant: BEGIN, which takes no lock before the first write.
BeginCurrentDeferred(p) ==
    /\ Free(p)
    /\ \E op \in {"decide", "cancel", "claim"}, a \in Approvals :
         /\ rows[a] # NoItem
         /\ call' = [call EXCEPT ![p] = {[op |-> op, on |-> a, item |-> rows[a]]}]
    /\ UNCHANGED <<clock, rows, audit, lock>>

\* _begin_current: the lock first, then the row.
BeginCurrent(p) ==
    /\ Free(p)
    /\ lock = {}
    /\ \E op \in {"decide", "cancel", "claim"}, a \in Approvals :
         /\ rows[a] # NoItem
         /\ call' = [call EXCEPT ![p] = {[op |-> op, on |-> a, item |-> rows[a]]}]
    /\ lock' = {p}
    /\ UNCHANGED <<clock, rows, audit>>

-----------------------------------------------------------------------------
(* and ends *)

Return(p) ==
    /\ call' = [call EXCEPT ![p] = {}]
    /\ lock' = lock \ {p}

\* Mutant: the row is committed before its audit entry, which may get lost.
CommitRowFirst(p, c, status, action) ==
    /\ rows' = [rows EXCEPT ![c.on] = [c.item EXCEPT !.status = status]]
    /\ \/ audit' = Append(audit, [on |-> c.on, status |-> status, action |-> action])
       \/ UNCHANGED audit
    /\ Return(p)
    /\ UNCHANGED clock

\* Mutant: the entry is named after the call.
CommitNamingCall(p, c, status, action) ==
    /\ rows' = [rows EXCEPT ![c.on] = [c.item EXCEPT !.status = status]]
    /\ audit' = Append(audit, [on |-> c.on, status |-> status, action |-> c.op])
    /\ Return(p)
    /\ UNCHANGED clock

\* _commit_action and _persist: the row and its audit entry in one transaction.
Commit(p, c, status, action) ==
    /\ rows' = [rows EXCEPT ![c.on] = [c.item EXCEPT !.status = status]]
    /\ audit' = Append(audit, [on |-> c.on, status |-> status, action |-> action])
    /\ Return(p)
    /\ UNCHANGED clock

CommitRequest(p) ==
    /\ lock = {}
    /\ \E c \in call[p] : c.op = "request" /\ Commit(p, c, "pending", "requested")

\* The file stayed locked for ten seconds.
RequestTimesOut(p) ==
    /\ lock # {}
    /\ \E c \in call[p] : c.op = "request"
    /\ Return(p)
    /\ UNCHANGED <<clock, rows, audit>>

\* Mutant: an approved request stays good for ever.
OverduePending(item) == item.status = "pending" /\ clock >= item.expiresAt

\* Looked at in the step that commits: the unit of the clock is long next to
\* the statements between the look and the COMMIT.
Overdue(item) ==
    item.status \in {"pending", "approved"} /\ clock >= item.expiresAt

\* _expire_current: the expiry is stored, and the call refused.
ExpireCurrent(p) ==
    \E c \in call[p] :
        /\ c.op # "request"
        /\ Overdue(c.item)
        /\ Commit(p, c, "expired", "expired")

\* decide and cancel of what is no longer pending.
RefuseNotPending(p) ==
    /\ \E c \in call[p] : /\ c.op \in {"decide", "cancel"}
                          /\ ~Overdue(c.item)
                          /\ c.item.status # "pending"
    /\ Return(p)
    /\ UNCHANGED <<clock, rows, audit>>

\* Mutant: an approval that was denied can be decided on again.
DecideAgain(p) ==
    \E c \in call[p], verdict \in {"approved", "denied"} :
        /\ c.op = "decide"
        /\ ~Overdue(c.item)
        /\ c.item.status \in {"pending", "denied"}
        /\ Commit(p, c, verdict, verdict)

Decide(p) ==
    \E c \in call[p], verdict \in {"approved", "denied"} :
        /\ c.op = "decide"
        /\ ~Overdue(c.item)
        /\ c.item.status = "pending"
        /\ Commit(p, c, verdict, verdict)

Cancel(p) ==
    \E c \in call[p] : /\ c.op = "cancel"
                       /\ ~Overdue(c.item)
                       /\ c.item.status = "pending"
                       /\ Commit(p, c, "cancelled", "cancelled")

\* claim_for_execution, with the right token or with another one.
ClaimForExecution(p) ==
    \E c \in call[p] : /\ c.op = "claim"
                       /\ ~Overdue(c.item)
                       /\ c.item.status = "approved"
                       /\ \/ Commit(p, c, "executed", "executed")
                          \/ Commit(p, c, "approved", "token_rejected")

\* Mutant: the refused claim leaves the transaction open.
RefuseClaimOpen(p) ==
    \E c \in call[p] :
        /\ c.op = "claim"
        /\ ~Overdue(c.item)
        /\ c.item.status # "approved"
        /\ UNCHANGED vars

\* A claim of what is not approved is refused, and the refusal recorded.
RefuseClaim(p) ==
    \E c \in call[p] :
        /\ c.op = "claim"
        /\ ~Overdue(c.item)
        /\ c.item.status # "approved"
        /\ Commit(p, c, c.item.status, "execution_rejected")

\* The process dies in a call: its transaction is rolled back.
Crash(p) ==
    /\ call[p] # {}
    /\ Return(p)
    /\ UNCHANGED <<clock, rows, audit>>

Tick ==
    /\ clock < MaxTime
    /\ clock' = clock + 1
    /\ UNCHANGED <<rows, audit, lock, call>>

-----------------------------------------------------------------------------
Serve(p) ==
    \/ CommitRequest(p) \/ RequestTimesOut(p)
    \/ ExpireCurrent(p) \/ RefuseNotPending(p) \/ RefuseClaim(p)
    \/ Decide(p) \/ Cancel(p) \/ ClaimForExecution(p)

Next ==
    \/ \E p \in Processes :
         PrepareRequest(p) \/ BeginCurrent(p) \/ Serve(p) \/ Crash(p)
    \/ Tick

Spec == Init /\ [][Next]_vars

\* A call is synchronous code: the process runs it to its end or dies.
FairSpec == Spec /\ \A p \in Processes : WF_vars(Serve(p))

-----------------------------------------------------------------------------
(* Properties *)

TypeOK ==
    /\ clock \in 0..MaxTime
    /\ rows \in [Approvals -> Items \cup {NoItem}]
    /\ audit \in Seq(Entries)
    /\ lock \subseteq Processes
    /\ call \in [Processes -> SUBSET Calls]

\* What a transaction has read is what is stored until it ends, so the checks
\* it makes are about the row it replaces.
ReadsAreCurrent ==
    \A p \in Processes : \A c \in call[p] :
        c.op # "request" => lock = {p} /\ rows[c.on] = c.item

\* One approval lets a tool run once, whichever processes claim it at once,
\* and whatever was claimed before one of them died.
SingleUse ==
    \A i, j \in DOMAIN audit :
        audit[i].on = audit[j].on /\ audit[i].action = "executed"
            /\ audit[j].action = "executed" => i = j

\* The log is the whole story: the last entry of an approval says what its row
\* says, and nothing changes after an entry that ends it.
AuditTellsStatus ==
    \A a \in Approvals :
        IF rows[a] = NoItem THEN \A i \in DOMAIN audit : audit[i].on # a
        ELSE \E i \in DOMAIN audit :
               /\ audit[i].on = a
               /\ audit[i].status = rows[a].status
               /\ \A j \in DOMAIN audit : audit[j].on = a => j <= i

EndIsFinal ==
    \A i, j \in DOMAIN audit :
        i < j /\ audit[i].on = audit[j].on /\ audit[i].status \in Ended =>
            /\ audit[j].status = audit[i].status
            /\ audit[j].action = "execution_rejected"

\* The durable store keeps the promise of the in-memory one, expiry included.
KeepsPromise == Reference!Spec

\* No call, and no process that dies in one, keeps the others out for ever.
CallsReturn == \A p \in Processes : call[p] # {} ~> call[p] = {}
=============================================================================

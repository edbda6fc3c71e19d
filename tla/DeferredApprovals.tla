------------------------- MODULE DeferredApprovals -------------------------
(***************************************************************************)
(* What the deferred approval of a tool call promises: the life of each    *)
(* approval as the in-memory store, the reference implementation of        *)
(* ai/approvals.py, gives it in one atomic call.  Its audit log is left to *)
(* the durable store, whose entries differ.                                *)
(***************************************************************************)
EXTENDS Integers

CONSTANTS
    Approvals,   \* the ids that may be drawn for a request
    TTLs,        \* the ttl_seconds of a request
    MaxTime,     \* bound: the horizon of the clock
    NoItem       \* the store has no such id

Statuses == {"pending", "approved", "denied", "expired", "cancelled", "executed"}

Items == [status: Statuses, expiresAt: Nat]

VARIABLES
    clock,
    items    \* _items

Init ==
    /\ clock = 0
    /\ items = [a \in Approvals |-> NoItem]

\* The expiry counts from when the request was made, which may be before a
\* store that has to wait for its file has it.
Request(a) ==
    /\ items[a] = NoItem
    /\ \E issued \in 0..clock, ttl \in TTLs :
         items' = [items EXCEPT ![a] = [status |-> "pending",
                                        expiresAt |-> issued + ttl]]
    /\ UNCHANGED clock

\* _expire_if_needed: nothing expires by itself, only when somebody calls.
Overdue(item, now) ==
    item.status \in {"pending", "approved"} /\ now >= item.expiresAt

Move(a, from, to) ==
    /\ items[a] # NoItem
    /\ items[a].status = from
    /\ ~Overdue(items[a], clock)
    /\ items' = [items EXCEPT ![a].status = to]
    /\ UNCHANGED clock

Decide(a) == Move(a, "pending", "approved") \/ Move(a, "pending", "denied")

Cancel(a) == Move(a, "pending", "cancelled")

ClaimForExecution(a) == Move(a, "approved", "executed")

Expire(a) ==
    /\ items[a] # NoItem
    /\ Overdue(items[a], clock)
    /\ items' = [items EXCEPT ![a].status = "expired"]
    /\ UNCHANGED clock

Tick ==
    /\ clock < MaxTime
    /\ clock' = clock + 1
    /\ UNCHANGED items

Next ==
    \/ \E a \in Approvals :
         Request(a) \/ Decide(a) \/ Cancel(a) \/ ClaimForExecution(a) \/ Expire(a)
    \/ Tick

Spec == Init /\ [][Next]_<<clock, items>>
=============================================================================

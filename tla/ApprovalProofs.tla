--------------------------- MODULE ApprovalProofs ---------------------------
(***************************************************************************)
(* The approval database for any number of approvals, processes and calls: *)
(* its types, single use, the audit log, and that it keeps the promise of  *)
(* the in-memory store.                                                    *)
(***************************************************************************)
EXTENDS ApprovalDatabase, SequenceTheorems, TLAPS

\* A request in flight is about an id no one else uses, and its row is new.
RequestsFresh ==
    \A p \in Processes : \A c \in call[p] :
        c.op = "request" =>
            /\ rows[c.on] = NoItem
            /\ \E issued \in 0..clock, ttl \in TTLs :
                 c.item = [status |-> "pending", expiresAt |-> issued + ttl]
            /\ \A q \in Processes : \A d \in call[q] : d.on = c.on => p = q /\ c = d

ExecutionsNamed ==
    \A i \in DOMAIN audit :
        audit[i].action = "executed" => audit[i].status = "executed"

Inv == /\ TypeOK /\ ReadsAreCurrent /\ RequestsFresh
       /\ AuditTellsStatus /\ EndIsFinal /\ ExecutionsNamed

LEMMA ItemFacts ==
    /\ NoItem \notin Items
    /\ \A it \in Items, st \in Statuses : [it EXCEPT !.status = st] \in Items
    /\ \A it \in Items, st \in Statuses : [it EXCEPT !.status = st].status = st
    /\ \A it \in Items : [it EXCEPT !.status = it.status] = it
    /\ \A it \in Items : it.status \in Statuses
BY DatabaseAssumption DEF Items, Statuses, Reference!Items, Reference!Statuses

\* Appending to the log leaves what was there where it was.
LEMMA AppendFacts ==
    ASSUME NEW S, NEW s \in Seq(S), NEW e \in S
    PROVE  /\ Append(s, e) \in Seq(S)
           /\ DOMAIN Append(s, e) = DOMAIN s \cup {Len(s) + 1}
           /\ \A i \in DOMAIN s : Append(s, e)[i] = s[i] /\ i < Len(s) + 1
           /\ Append(s, e)[Len(s) + 1] = e
           /\ DOMAIN s \subseteq Nat /\ Len(s) \in Nat
OBVIOUS

-----------------------------------------------------------------------------
(* What one committed transaction keeps *)

LEMMA CommitKeeps ==
    ASSUME Inv,
           NEW p \in Processes, NEW c \in call[p],
           NEW status \in Statuses,
           NEW action \in Statuses \cup {"requested", "execution_rejected",
                                         "token_rejected"},
           Commit(p, c, status, action),
           c.op = "request" => lock = {} /\ status = "pending" /\ action = "requested",
           c.op # "request" /\ c.item.status \in Ended =>
               status = c.item.status /\ action = "execution_rejected",
           action = "executed" => status = "executed"
    PROVE  Inv'
<1> DEFINE e == [on |-> c.on, status |-> status, action |-> action]
           n == Len(audit) + 1
<1>1. /\ c \in Calls /\ c.on \in Approvals /\ c.item \in Items
      /\ audit \in Seq(Entries) /\ e \in Entries
      /\ rows \in [Approvals -> Items \cup {NoItem}]
  BY DEF Inv, TypeOK, Calls, Entries
<1>2. /\ rows' = [rows EXCEPT ![c.on] = [c.item EXCEPT !.status = status]]
      /\ audit' = Append(audit, e)
      /\ call' = [call EXCEPT ![p] = {}] /\ lock' = lock \ {p} /\ clock' = clock
  BY DEF Commit, Return
<1>3. /\ audit' \in Seq(Entries)
      /\ DOMAIN audit' = DOMAIN audit \cup {n}
      /\ \A i \in DOMAIN audit : audit'[i] = audit[i] /\ i < n
      /\ audit'[n] = e
      /\ DOMAIN audit \subseteq Nat /\ n \in Nat
  BY <1>1, <1>2, AppendFacts
<1> HIDE DEF n
<1>e. e.on = c.on /\ e.status = status /\ e.action = action
  OBVIOUS
<1> HIDE DEF e
<1>4. /\ rows'[c.on] \in Items /\ rows'[c.on].status = status
      /\ \A a \in Approvals \ {c.on} : rows'[a] = rows[a]
  BY <1>1, <1>2, ItemFacts
<1>5. /\ call'[p] = {}
      /\ \A q \in Processes : call'[q] \subseteq call[q]
      /\ \A q \in Processes \ {p} : call'[q] = call[q]
  BY <1>2 DEF Inv, TypeOK
<1>6. TypeOK'
  BY <1>1, <1>2, <1>3, <1>4, <1>5, ItemFacts DEF Inv, TypeOK
<1>7. ReadsAreCurrent'
  <2> SUFFICES ASSUME NEW q \in Processes, NEW d \in call'[q], d.op # "request"
               PROVE  lock' = {q} /\ rows'[d.on] = d.item
    BY DEF ReadsAreCurrent
  <2>1. q # p /\ d \in call[q]
    BY <1>5
  <2>2. lock = {q} /\ rows[d.on] = d.item
    BY <2>1 DEF Inv, ReadsAreCurrent
  <2>3. c.op = "request"
    BY <2>1, <2>2 DEF Inv, ReadsAreCurrent
  <2>4. QED
    BY <2>2, <2>3
<1>8. RequestsFresh'
  <2> SUFFICES ASSUME NEW q \in Processes, NEW d \in call'[q], d.op = "request"
               PROVE  /\ rows'[d.on] = NoItem
                      /\ \E issued \in 0..clock', ttl \in TTLs :
                           d.item = [status |-> "pending", expiresAt |-> issued + ttl]
                      /\ \A r \in Processes : \A f \in call'[r] :
                           f.on = d.on => q = r /\ d = f
    BY DEF RequestsFresh
  <2>1. q # p /\ d \in call[q]
    BY <1>5
  <2>2. /\ rows[d.on] = NoItem /\ d.on \in Approvals
        /\ \E issued \in 0..clock, ttl \in TTLs :
             d.item = [status |-> "pending", expiresAt |-> issued + ttl]
        /\ \A r \in Processes : \A f \in call[r] : f.on = d.on => q = r /\ d = f
    BY <2>1 DEF Inv, RequestsFresh, TypeOK, Calls
  <2>3. d.on # c.on
    BY <2>1, <2>2
  <2>4. QED
    BY <1>2, <1>4, <1>5, <2>2, <2>3
<1>9. AuditTellsStatus'
  <2> SUFFICES ASSUME NEW a \in Approvals
               PROVE  IF rows'[a] = NoItem THEN \A i \in DOMAIN audit' : audit'[i].on # a
                      ELSE \E i \in DOMAIN audit' :
                             /\ audit'[i].on = a
                             /\ audit'[i].status = rows'[a].status
                             /\ \A j \in DOMAIN audit' : audit'[j].on = a => j <= i
    BY DEF AuditTellsStatus
  <2>1. CASE a = c.on
    <3>1. rows'[a] # NoItem
      BY <1>4, <2>1, ItemFacts
    <3>2. /\ n \in DOMAIN audit' /\ audit'[n].on = a
          /\ audit'[n].status = rows'[a].status
      BY <1>3, <1>e, <1>4, <2>1
    <3>3. \A j \in DOMAIN audit' : j <= n
      BY <1>3
    <3>4. QED
      BY <3>1, <3>2, <3>3
  <2>2. CASE a # c.on
    <3>1. rows'[a] = rows[a] /\ audit'[n].on # a
      BY <1>3, <1>e, <1>4, <2>2
    <3>2. CASE rows[a] = NoItem
      BY <1>3, <3>1, <3>2 DEF Inv, AuditTellsStatus
    <3>3. CASE rows[a] # NoItem
      <4>1. PICK i \in DOMAIN audit : /\ audit[i].on = a
                                      /\ audit[i].status = rows[a].status
                                      /\ \A j \in DOMAIN audit : audit[j].on = a => j <= i
        BY <3>3 DEF Inv, AuditTellsStatus
      <4>2. \A j \in DOMAIN audit' : audit'[j].on = a => j <= i
        BY <1>3, <3>1, <4>1
      <4>3. QED
        BY <1>3, <3>1, <3>3, <4>1, <4>2
    <3>4. QED
      BY <3>2, <3>3
  <2>3. QED
    BY <2>1, <2>2
<1>10. EndIsFinal'
  <2> SUFFICES ASSUME NEW i \in DOMAIN audit', NEW j \in DOMAIN audit', i < j,
                      audit'[i].on = audit'[j].on, audit'[i].status \in Ended
               PROVE  /\ audit'[j].status = audit'[i].status
                      /\ audit'[j].action = "execution_rejected"
    BY DEF EndIsFinal
  <2>1. i \in DOMAIN audit /\ audit'[i] = audit[i]
    BY <1>3
  <2>2. CASE j \in DOMAIN audit
    BY <1>3, <2>1, <2>2 DEF Inv, EndIsFinal
  <2>3. CASE j = n
    <3>1. audit[i].on = c.on
      BY <1>3, <1>e, <2>1, <2>3
    <3>2. rows[c.on] # NoItem
      BY <1>1, <2>1, <3>1 DEF Inv, AuditTellsStatus
    <3>3. c.op # "request"
      BY <3>2 DEF Inv, RequestsFresh
    <3>4. rows[c.on] = c.item
      BY <3>3 DEF Inv, ReadsAreCurrent
    <3>5. PICK k \in DOMAIN audit : /\ audit[k].on = c.on
                                    /\ audit[k].status = rows[c.on].status
                                    /\ \A l \in DOMAIN audit : audit[l].on = c.on => l <= k
      BY <1>1, <3>2 DEF Inv, AuditTellsStatus
    <3>6. audit[k].status = audit[i].status
      BY <1>3, <2>1, <3>1, <3>5 DEF Inv, EndIsFinal
    <3>7. c.item.status = audit[i].status
      BY <3>4, <3>5, <3>6
    <3>8. QED
      BY <1>3, <1>e, <2>1, <2>3, <3>3, <3>7
  <2>4. QED
    BY <1>3, <2>2, <2>3
<1>11. ExecutionsNamed'
  BY <1>3, <1>e DEF Inv, ExecutionsNamed
<1>12. QED
  BY <1>6, <1>7, <1>8, <1>9, <1>10, <1>11 DEF Inv

-----------------------------------------------------------------------------
(* The invariant *)

LEMMA InitInv == Init => Inv
<1> SUFFICES ASSUME Init PROVE Inv
  OBVIOUS
<1>1. TypeOK
  BY DatabaseAssumption DEF Init, TypeOK
<1>2. audit = <<>> /\ DOMAIN audit = {} /\ \A p \in Processes : call[p] = {}
  BY DEF Init
<1>3. ReadsAreCurrent /\ RequestsFresh
  BY <1>2 DEF ReadsAreCurrent, RequestsFresh
<1>4. AuditTellsStatus /\ EndIsFinal /\ ExecutionsNamed
  BY <1>2 DEF Init, AuditTellsStatus, EndIsFinal, ExecutionsNamed
<1>5. QED
  BY <1>1, <1>3, <1>4 DEF Inv

\* A call that ends without committing gives back what it held.
LEMMA ReturnKeeps ==
    ASSUME Inv, NEW p \in Processes, Return(p), UNCHANGED <<clock, rows, audit>>
    PROVE  Inv'
<1>1. /\ call'[p] = {} /\ call' \in [Processes -> SUBSET Calls]
      /\ \A q \in Processes : call'[q] \subseteq call[q]
      /\ \A q \in Processes \ {p} : call'[q] = call[q]
      /\ lock' = lock \ {p}
      /\ UNCHANGED <<clock, rows, audit>>
  BY DEF Inv, TypeOK, Return
<1>2. TypeOK'
  BY <1>1 DEF Inv, TypeOK
<1>3. ReadsAreCurrent'
  <2> SUFFICES ASSUME NEW q \in Processes, NEW d \in call'[q], d.op # "request"
               PROVE  lock' = {q} /\ rows'[d.on] = d.item
    BY DEF ReadsAreCurrent
  <2>1. q # p /\ d \in call[q]
    BY <1>1
  <2>2. lock = {q} /\ rows[d.on] = d.item
    BY <2>1 DEF Inv, ReadsAreCurrent
  <2>3. QED
    BY <1>1, <2>1, <2>2
<1>4. RequestsFresh'
  BY <1>1 DEF Inv, RequestsFresh
<1>5. AuditTellsStatus' /\ EndIsFinal' /\ ExecutionsNamed'
  BY <1>1 DEF Inv, AuditTellsStatus, EndIsFinal, ExecutionsNamed
<1>6. QED
  BY <1>2, <1>3, <1>4, <1>5 DEF Inv

LEMMA PrepareRequestKeeps ==
    ASSUME Inv, NEW p \in Processes, PrepareRequest(p)
    PROVE  Inv'
<1>1. PICK a \in Approvals, ttl \in TTLs :
        /\ rows[a] = NoItem
        /\ \A other \in Processes : \A c \in call[other] : c.on # a
        /\ call' = [call EXCEPT ![p] =
             {[op |-> "request", on |-> a,
               item |-> [status |-> "pending", expiresAt |-> clock + ttl]]}]
  BY DEF PrepareRequest
<1> DEFINE item == [status |-> "pending", expiresAt |-> clock + ttl]
           new == [op |-> "request", on |-> a, item |-> item]
<1>2. /\ call[p] = {} /\ UNCHANGED <<clock, rows, audit, lock>>
      /\ clock \in 0..MaxTime /\ clock \in Nat /\ ttl \in Nat
  BY DatabaseAssumption DEF PrepareRequest, Free, Inv, TypeOK
<1>3. item \in Items
  BY <1>2 DEF Items, Reference!Items, Reference!Statuses
<1>4. new \in Calls /\ new.op = "request" /\ new.on = a /\ new.item = item
  BY <1>3 DEF Calls
<1>5. item = [status |-> "pending", expiresAt |-> clock + ttl] /\ clock \in 0..clock
  BY <1>2
<1>6. call' = [call EXCEPT ![p] = {new}]
  BY <1>1
<1> HIDE DEF new, item
<1>7. /\ call' \in [Processes -> SUBSET Calls]
      /\ call'[p] = {new}
      /\ \A q \in Processes \ {p} : call'[q] = call[q]
  BY <1>4, <1>6 DEF Inv, TypeOK
<1>8. TypeOK'
  BY <1>2, <1>7 DEF Inv, TypeOK
<1>9. ReadsAreCurrent'
  BY <1>2, <1>4, <1>7 DEF Inv, ReadsAreCurrent
<1>10. RequestsFresh'
  <2> SUFFICES ASSUME NEW q \in Processes, NEW d \in call'[q], d.op = "request"
               PROVE  /\ rows'[d.on] = NoItem
                      /\ \E issued \in 0..clock', t \in TTLs :
                           d.item = [status |-> "pending", expiresAt |-> issued + t]
                      /\ \A r \in Processes : \A f \in call'[r] :
                           f.on = d.on => q = r /\ d = f
    BY DEF RequestsFresh
  <2>1. CASE q = p
    <3>1. d = new /\ d.on = a
      BY <1>4, <1>7, <2>1
    <3>2. rows'[d.on] = NoItem
      BY <1>1, <1>2, <3>1
    <3>3. \E issued \in 0..clock', t \in TTLs :
            d.item = [status |-> "pending", expiresAt |-> issued + t]
      BY <1>2, <1>4, <1>5, <3>1
    <3>4. \A r \in Processes : \A f \in call'[r] : f.on = d.on => q = r /\ d = f
      BY <1>1, <1>7, <2>1, <3>1
    <3>5. QED
      BY <3>2, <3>3, <3>4
  <2>2. CASE q # p
    <3>1. d \in call[q] /\ d.on # a
      BY <1>1, <1>7, <2>2
    <3>2. \A r \in Processes : \A f \in call[r] : f.on = d.on => q = r /\ d = f
      BY <3>1 DEF Inv, RequestsFresh
    <3>3. \A r \in Processes : \A f \in call'[r] : f.on = d.on => q = r /\ d = f
      BY <1>4, <1>7, <3>1, <3>2
    <3>4. /\ rows[d.on] = NoItem
          /\ \E issued \in 0..clock, t \in TTLs :
               d.item = [status |-> "pending", expiresAt |-> issued + t]
      BY <3>1 DEF Inv, RequestsFresh
    <3>5. QED
      BY <1>2, <3>3, <3>4
  <2>3. QED
    BY <2>1, <2>2
<1>11. AuditTellsStatus' /\ EndIsFinal' /\ ExecutionsNamed'
  BY <1>2 DEF Inv, AuditTellsStatus, EndIsFinal, ExecutionsNamed
<1>12. QED
  BY <1>8, <1>9, <1>10, <1>11 DEF Inv

LEMMA BeginCurrentKeeps ==
    ASSUME Inv, NEW p \in Processes, BeginCurrent(p)
    PROVE  Inv'
<1>1. PICK op \in {"decide", "cancel", "claim"}, a \in Approvals :
        /\ rows[a] # NoItem
        /\ call' = [call EXCEPT ![p] = {[op |-> op, on |-> a, item |-> rows[a]]}]
  BY DEF BeginCurrent
<1> DEFINE new == [op |-> op, on |-> a, item |-> rows[a]]
<1>2. /\ lock = {} /\ lock' = {p} /\ UNCHANGED <<clock, rows, audit>>
      /\ rows[a] \in Items
  BY <1>1 DEF BeginCurrent, Inv, TypeOK
<1>3. /\ new \in Calls /\ new.op # "request" /\ new.on = a /\ new.item = rows[a]
      /\ call' = [call EXCEPT ![p] = {new}]
  BY <1>1, <1>2 DEF Calls
<1> HIDE DEF new
<1>4. /\ call' \in [Processes -> SUBSET Calls]
      /\ call'[p] = {new}
      /\ \A q \in Processes \ {p} : call'[q] = call[q]
  BY <1>3 DEF Inv, TypeOK
<1>5. TypeOK'
  BY <1>2, <1>4 DEF Inv, TypeOK
<1>6. ReadsAreCurrent'
  BY <1>2, <1>3, <1>4 DEF Inv, ReadsAreCurrent
<1>7. RequestsFresh'
  <2> SUFFICES ASSUME NEW q \in Processes, NEW d \in call'[q], d.op = "request"
               PROVE  /\ rows'[d.on] = NoItem
                      /\ \E issued \in 0..clock', t \in TTLs :
                           d.item = [status |-> "pending", expiresAt |-> issued + t]
                      /\ \A r \in Processes : \A f \in call'[r] :
                           f.on = d.on => q = r /\ d = f
    BY DEF RequestsFresh
  <2>1. q # p /\ d \in call[q]
    BY <1>3, <1>4
  <2>2. /\ rows[d.on] = NoItem
        /\ \E issued \in 0..clock, t \in TTLs :
             d.item = [status |-> "pending", expiresAt |-> issued + t]
        /\ \A r \in Processes : \A f \in call[r] : f.on = d.on => q = r /\ d = f
    BY <2>1 DEF Inv, RequestsFresh
  <2>3. d.on # a
    BY <1>1, <2>2
  <2>4. \A r \in Processes : \A f \in call'[r] : f.on = d.on => q = r /\ d = f
    BY <1>3, <1>4, <2>2, <2>3
  <2>5. QED
    BY <1>2, <2>2, <2>4
<1>8. AuditTellsStatus' /\ EndIsFinal' /\ ExecutionsNamed'
  BY <1>2 DEF Inv, AuditTellsStatus, EndIsFinal, ExecutionsNamed
<1>9. QED
  BY <1>5, <1>6, <1>7, <1>8 DEF Inv

LEMMA TickKeeps ==
    ASSUME Inv, Tick
    PROVE  Inv'
<1>1. /\ clock \in Nat /\ clock' = clock + 1 /\ clock' \in 0..MaxTime
      /\ 0..clock \subseteq 0..clock'
      /\ UNCHANGED <<rows, audit, lock, call>>
  BY DatabaseAssumption DEF Inv, TypeOK, Tick
<1>2. TypeOK'
  BY <1>1 DEF Inv, TypeOK
<1>3. RequestsFresh'
  <2> SUFFICES ASSUME NEW p \in Processes, NEW c \in call[p], c.op = "request"
               PROVE  /\ rows[c.on] = NoItem
                      /\ \E issued \in 0..clock', ttl \in TTLs :
                           c.item = [status |-> "pending", expiresAt |-> issued + ttl]
                      /\ \A q \in Processes : \A d \in call[q] :
                           d.on = c.on => p = q /\ c = d
    BY <1>1 DEF RequestsFresh
  <2>1. QED
    BY <1>1 DEF Inv, RequestsFresh
<1>4. ReadsAreCurrent' /\ AuditTellsStatus' /\ EndIsFinal' /\ ExecutionsNamed'
  BY <1>1 DEF Inv, ReadsAreCurrent, AuditTellsStatus, EndIsFinal, ExecutionsNamed
<1>5. QED
  BY <1>2, <1>3, <1>4 DEF Inv

-----------------------------------------------------------------------------
(* Each step of a call, seen as what the promise allows *)

Promised == [Reference!Next]_<<clock, rows>>

\* A commit that leaves the status of the row as it was is a stutter.
LEMMA SameStatusStutters ==
    ASSUME Inv, NEW p \in Processes, NEW c \in call[p], c.op # "request",
           NEW action, Commit(p, c, c.item.status, action)
    PROVE  Promised
<1>1. rows[c.on] = c.item /\ c.item \in Items /\ c.on \in Approvals
  BY DEF Inv, TypeOK, ReadsAreCurrent, Calls
<1>2. [c.item EXCEPT !.status = c.item.status] = c.item
  BY <1>1, ItemFacts
<1>3. rows' = [rows EXCEPT ![c.on] = c.item] /\ clock' = clock
  BY <1>2 DEF Commit
<1>4. rows' = rows
  BY <1>1, <1>3 DEF Inv, TypeOK
<1>5. QED
  BY <1>3, <1>4 DEF Promised

\* A commit that changes the status of a current row that is not overdue is
\* the promise's Move of it.
LEMMA CommitMoves ==
    ASSUME Inv, NEW p \in Processes, NEW c \in call[p], c.op # "request",
           NEW status, NEW action, Commit(p, c, status, action), ~Overdue(c.item)
    PROVE  Reference!Move(c.on, c.item.status, status)
<1>1. /\ rows[c.on] = c.item /\ c.item \in Items /\ c.on \in Approvals
      /\ c.item # NoItem
  BY ItemFacts DEF Inv, TypeOK, ReadsAreCurrent, Calls
<1>2. rows' = [rows EXCEPT ![c.on].status = status] /\ clock' = clock
  BY <1>1 DEF Commit
<1>3. QED
  BY <1>1, <1>2 DEF Reference!Move, Reference!Overdue, Overdue

LEMMA ServeStep ==
    ASSUME Inv, NEW p \in Processes, Serve(p)
    PROVE  Inv' /\ Promised
<1> USE DEF Ended
<1>s. {"pending", "approved", "denied", "expired", "cancelled", "executed"} = Statuses
  BY DEF Statuses, Reference!Statuses
<1>c. \A c \in call[p] : c.on \in Approvals /\ c.item \in Items /\ c.item.status \in Statuses
  BY ItemFacts DEF Inv, TypeOK, Calls
<1>1. CASE CommitRequest(p)
  <2>1. PICK c \in call[p] : c.op = "request" /\ Commit(p, c, "pending", "requested")
    BY <1>1 DEF CommitRequest
  <2>2. Inv'
    BY <1>1, <1>s, <2>1, CommitKeeps DEF CommitRequest
  <2>3. /\ rows[c.on] = NoItem
        /\ \E issued \in 0..clock, ttl \in TTLs :
             c.item = [status |-> "pending", expiresAt |-> issued + ttl]
    BY <2>1 DEF Inv, RequestsFresh
  <2>4. PICK issued \in 0..clock, ttl \in TTLs :
          c.item = [status |-> "pending", expiresAt |-> issued + ttl]
    BY <2>3
  <2>5. [c.item EXCEPT !.status = "pending"] = c.item
    BY <2>4
  <2>6. rows' = [rows EXCEPT ![c.on] = c.item] /\ clock' = clock
    BY <2>1, <2>5 DEF Commit
  <2>7. Reference!Request(c.on)
    BY <2>3, <2>4, <2>6 DEF Reference!Request
  <2>8. QED
    BY <1>c, <2>2, <2>7 DEF Promised, Reference!Next
<1>2. CASE RequestTimesOut(p) \/ RefuseNotPending(p)
  <2>1. Return(p) /\ UNCHANGED <<clock, rows, audit>>
    BY <1>2 DEF RequestTimesOut, RefuseNotPending
  <2>2. QED
    BY <2>1, ReturnKeeps DEF Promised
<1>3. CASE ExpireCurrent(p)
  <2>1. PICK c \in call[p] : /\ c.op # "request" /\ Overdue(c.item)
                             /\ Commit(p, c, "expired", "expired")
    BY <1>3 DEF ExpireCurrent
  <2>2. c.item.status \notin Ended
    BY <2>1 DEF Overdue
  <2>3. Inv'
    BY <1>s, <2>1, <2>2, CommitKeeps
  <2>4. rows[c.on] = c.item /\ c.item # NoItem
    BY <1>c, <2>1, ItemFacts DEF Inv, ReadsAreCurrent
  <2>5. Reference!Expire(c.on)
    BY <2>1, <2>4 DEF Reference!Expire, Reference!Overdue, Overdue, Commit
  <2>6. QED
    BY <1>c, <2>3, <2>5 DEF Promised, Reference!Next
<1>4. CASE RefuseClaim(p)
  <2>1. PICK c \in call[p] : /\ c.op = "claim" /\ c.item.status # "approved"
                             /\ Commit(p, c, c.item.status, "execution_rejected")
    BY <1>4 DEF RefuseClaim
  <2>2. Inv'
    BY <1>c, <2>1, CommitKeeps
  <2>3. QED
    BY <2>1, <2>2, SameStatusStutters
<1>5. CASE Decide(p)
  <2>1. PICK c \in call[p], verdict \in {"approved", "denied"} :
          /\ c.op = "decide" /\ ~Overdue(c.item) /\ c.item.status = "pending"
          /\ Commit(p, c, verdict, verdict)
    BY <1>5 DEF Decide
  <2>2. Inv'
    BY <1>s, <2>1, CommitKeeps
  <2>3. Reference!Move(c.on, "pending", verdict)
    BY <2>1, CommitMoves
  <2>4. QED
    BY <1>c, <2>2, <2>3 DEF Promised, Reference!Next, Reference!Decide
<1>6. CASE Cancel(p)
  <2>1. PICK c \in call[p] :
          /\ c.op = "cancel" /\ ~Overdue(c.item) /\ c.item.status = "pending"
          /\ Commit(p, c, "cancelled", "cancelled")
    BY <1>6 DEF Cancel
  <2>2. Inv'
    BY <1>s, <2>1, CommitKeeps
  <2>3. Reference!Move(c.on, "pending", "cancelled")
    BY <2>1, CommitMoves
  <2>4. QED
    BY <1>c, <2>2, <2>3 DEF Promised, Reference!Next, Reference!Cancel
<1>7. CASE ClaimForExecution(p)
  <2>1. PICK c \in call[p] :
          /\ c.op = "claim" /\ ~Overdue(c.item) /\ c.item.status = "approved"
          /\ \/ Commit(p, c, "executed", "executed")
             \/ Commit(p, c, "approved", "token_rejected")
    BY <1>7 DEF ClaimForExecution
  <2>2. CASE Commit(p, c, "executed", "executed")
    <3>1. Inv'
      BY <1>s, <2>1, <2>2, CommitKeeps
    <3>2. Reference!Move(c.on, "approved", "executed")
      BY <2>1, <2>2, CommitMoves
    <3>3. QED
      BY <1>c, <3>1, <3>2 DEF Promised, Reference!Next, Reference!ClaimForExecution
  <2>3. CASE Commit(p, c, "approved", "token_rejected")
    <3>1. Inv'
      BY <1>s, <2>1, <2>3, CommitKeeps
    <3>2. QED
      BY <2>1, <2>3, <3>1, SameStatusStutters
  <2>4. QED
    BY <2>1, <2>2, <2>3
<1>8. QED
  BY <1>1, <1>2, <1>3, <1>4, <1>5, <1>6, <1>7 DEF Serve

LEMMA NextStep ==
    ASSUME Inv, [Next]_vars
    PROVE  Inv' /\ Promised
<1>1. ASSUME NEW p \in Processes, PrepareRequest(p)
      PROVE  Inv' /\ Promised
  BY <1>1, PrepareRequestKeeps DEF PrepareRequest, Promised
<1>2. ASSUME NEW p \in Processes, BeginCurrent(p)
      PROVE  Inv' /\ Promised
  BY <1>2, BeginCurrentKeeps DEF BeginCurrent, Promised
<1>3. ASSUME NEW p \in Processes, Serve(p)
      PROVE  Inv' /\ Promised
  BY <1>3, ServeStep
<1>4. ASSUME NEW p \in Processes, Crash(p)
      PROVE  Inv' /\ Promised
  BY <1>4, ReturnKeeps DEF Crash, Promised
<1>5. CASE Tick
  <2>1. Reference!Tick
    BY <1>5 DEF Tick, Reference!Tick
  <2>2. QED
    BY <1>5, <2>1, TickKeeps DEF Promised, Reference!Next
<1>6. CASE UNCHANGED vars
  BY <1>6 DEF vars, Inv, TypeOK, ReadsAreCurrent, RequestsFresh, AuditTellsStatus,
              EndIsFinal, ExecutionsNamed, Promised
<1>7. QED
  BY <1>1, <1>2, <1>3, <1>4, <1>5, <1>6 DEF Next

-----------------------------------------------------------------------------
(* Theorems *)

THEOREM InvHolds == Spec => []Inv
<1>1. Init => Inv
  BY InitInv
<1>2. Inv /\ [Next]_vars => Inv'
  BY NextStep
<1>3. QED
  BY <1>1, <1>2, PTL DEF Spec

\* The rows, the log, the lock and the calls keep their shapes.
THEOREM ApprovalTypeCorrect == Spec => []TypeOK
<1>1. Inv => TypeOK
  BY DEF Inv
<1>2. QED
  BY <1>1, InvHolds, PTL

\* No transaction decides on a row another one has replaced (BEGIN IMMEDIATE
\* before the SELECT of _begin_current).
THEOREM ReadsStayCurrent == Spec => []ReadsAreCurrent
<1>1. Inv => ReadsAreCurrent
  BY DEF Inv
<1>2. QED
  BY <1>1, InvHolds, PTL

\* An approval is executed at most once: the first execution ends it, and what
\* ends an approval is followed by refusals only.
THEOREM ExecutedOnce == Spec => []SingleUse
<1>1. Inv => SingleUse
  <2> SUFFICES ASSUME Inv, NEW i \in DOMAIN audit, NEW j \in DOMAIN audit,
                      audit[i].on = audit[j].on, audit[i].action = "executed",
                      audit[j].action = "executed"
               PROVE  i = j
    BY DEF SingleUse
  <2>1. audit[i].status \in Ended /\ audit[j].status \in Ended
    BY DEF Inv, ExecutionsNamed, Ended
  <2>2. i \in Nat /\ j \in Nat
    BY DEF Inv, TypeOK
  <2>3. ~(i < j) /\ ~(j < i)
    BY <2>1 DEF Inv, EndIsFinal
  <2>4. QED
    BY <2>2, <2>3
<1>2. QED
  BY <1>1, InvHolds, PTL

\* The last audit entry of every stored approval carries the status of its row.
THEOREM AuditIsComplete == Spec => []AuditTellsStatus
<1>1. Inv => AuditTellsStatus
  BY DEF Inv
<1>2. QED
  BY <1>1, InvHolds, PTL

\* After denied, expired, cancelled or executed only refused claims are logged.
THEOREM EndsAreFinal == Spec => []EndIsFinal
<1>1. Inv => EndIsFinal
  BY DEF Inv
<1>2. QED
  BY <1>1, InvHolds, PTL

\* The SQLite store implements the in-memory one, whatever the interleaving of
\* the processes and wherever one of them dies.
THEOREM PromiseKept == Spec => KeepsPromise
<1>1. Init => Reference!Init
  BY DEF Init, Reference!Init
<1>2. Inv /\ [Next]_vars => [Reference!Next]_<<clock, rows>>
  BY NextStep DEF Promised
<1>3. QED
  BY <1>1, <1>2, InvHolds, PTL DEF Spec, KeepsPromise, Reference!Spec
=============================================================================

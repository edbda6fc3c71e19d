---------------------------- MODULE StoreProofs -----------------------------
(***************************************************************************)
(* What the stores of the research database keep, for any processes,       *)
(* releases, requests and rows: its schema (ResearchDatabase), the         *)
(* conversations (ConversationStore), the analyst's records                *)
(* (AnalystRecords) and journal (AnalystJournal), the reviews of changes   *)
(* (ChangeReviews), what a run remembers for another (MemoryLayer), and    *)
(* the snapshot of what a company filed (FinancialFacts).                  *)
(***************************************************************************)
EXTENDS ConversationStore, ResearchDatabase, AnalystRecords, AnalystJournal, ChangeReviews,
        MemoryLayer, FinancialFacts, DataInduction, FiniteSetTheorems

-----------------------------------------------------------------------------
(* ConversationStore, for any processes, operations and contents. The    *)
(* invariant is inductive as it stands: batches are only added, and only *)
(* where the operation has none.                                         *)

ConversationInv == ConversationTypeOK /\ AppendsAreIdempotent

\* An answer that is true of some batches is true of those and more, as long
\* as an operation keeps one row (message_store.py's primary key).
LEMMA AnswersStayTrue ==
    ASSUME NEW a \in appends, AnswerHolds(a), batches \subseteq batches'
    PROVE  AnswerHolds(a)'
  BY DEF AnswerHolds

LEMMA ConversationInitInv == ConversationInit => ConversationInv
  BY MessageTimeAssumption
  DEF ConversationInit, ConversationInv, ConversationTypeOK, AppendsAreIdempotent,
      OneRowPerOperation, HistoryOnlyGrows, RecorderInit, NoBatches, Batches

\* Every step of a recorder, of the one that dies and of the clock keeps it.
LEMMA ConversationStep == ConversationInv /\ [ConversationNext]_conversationVars => ConversationInv'
<1> SUFFICES ASSUME ConversationInv, [ConversationNext]_conversationVars
             PROVE  ConversationInv'
  OBVIOUS
<1> USE MessageTimeAssumption DEF ConversationInv
<1>1. ASSUME NEW p \in Recorders, LoadHistory(p) PROVE ConversationInv'
  <2>1. ConversationTypeOK' BY <1>1 DEF LoadHistory, ConversationTypeOK
  <2>2. OneRowPerOperation' BY <1>1 DEF LoadHistory, AppendsAreIdempotent, OneRowPerOperation
  <2>3. \A a \in appends' : AnswerHolds(a)'
    BY <1>1, AnswersStayTrue DEF LoadHistory, AppendsAreIdempotent
  <2>4. HistoryOnlyGrows'
    BY <1>1 DEF LoadHistory, AppendsAreIdempotent, HistoryOnlyGrows, ConversationTypeOK
  <2> QED BY <2>1, <2>2, <2>3, <2>4 DEF AppendsAreIdempotent
<1>2. ASSUME NEW p \in Recorders, RecordResult(p) PROVE ConversationInv'
  <2> PICK op \in Operations, content \in Contents :
        recorder' = [recorder EXCEPT ![p] =
            [@ EXCEPT !.stage = "append", !.batch = {[op |-> op, content |-> content, at |-> messageClock]}]]
    BY <1>2 DEF RecordResult
  <2>0. {[op |-> op, content |-> content, at |-> messageClock]} \subseteq Batches
    BY DEF ConversationTypeOK, Batches
  <2>1. ConversationTypeOK'
    <3> DEFINE Rec == [stage : {"idle", "running", "append", "insert"}, batch : SUBSET Batches, history : SUBSET Batches]
               batch == {[op |-> op, content |-> content, at |-> messageClock]}
    <3>1. recorder \in [Recorders -> Rec] /\ batch \in SUBSET Batches BY <2>0 DEF ConversationTypeOK
    <3> HIDE DEF batch
    <3>2. [recorder[p] EXCEPT !.stage = "append", !.batch = batch] \in Rec BY <3>1
    <3>3. recorder' = [recorder EXCEPT ![p] = [recorder[p] EXCEPT !.stage = "append", !.batch = batch]]
      BY DEF batch
    <3> HIDE DEF Rec
    <3>4. recorder' \in [Recorders -> Rec] BY <3>1, <3>2, <3>3
    <3>5. UNCHANGED <<batches, appends, messageClock>> BY <1>2 DEF RecordResult
    <3> QED BY <3>4, <3>5 DEF ConversationTypeOK, Rec
  <2>2. OneRowPerOperation' BY <1>2 DEF RecordResult, AppendsAreIdempotent, OneRowPerOperation
  <2>3. \A a \in appends' : AnswerHolds(a)'
    BY <1>2, AnswersStayTrue DEF RecordResult, AppendsAreIdempotent
  <2>4. HistoryOnlyGrows'
    BY <1>2 DEF RecordResult, AppendsAreIdempotent, HistoryOnlyGrows, ConversationTypeOK
  <2> QED BY <2>1, <2>2, <2>3, <2>4 DEF AppendsAreIdempotent
<1>3. ASSUME NEW p \in Recorders, FindBatch(p) PROVE ConversationInv'
  <2> PICK batch \in recorder[p].batch :
        IF RowsOf(batch.op) = {}
        THEN /\ recorder' = [recorder EXCEPT ![p].stage = "insert"]
             /\ UNCHANGED appends
        ELSE /\ Answer(batch, IF \E b \in RowsOf(batch.op) : b.content = batch.content
                                 THEN "ignored" ELSE "replayed")
             /\ recorder' = [recorder EXCEPT ![p] = RecorderInit]
    BY <1>3 DEF FindBatch
  <2>0. batch \in Batches BY DEF ConversationTypeOK
  <2>u. UNCHANGED <<batches, messageClock>> BY <1>3 DEF FindBatch
  <2>1. ConversationTypeOK'
    BY <2>0, <2>u DEF ConversationTypeOK, Answer, RecorderInit, NoBatches
  <2>2. OneRowPerOperation' BY <2>u DEF AppendsAreIdempotent, OneRowPerOperation
  <2>3. ASSUME NEW a \in appends' PROVE AnswerHolds(a)'
    <3>1. CASE a \in appends BY <3>1, <2>u, AnswersStayTrue DEF AppendsAreIdempotent
    <3>2. CASE a \notin appends
      <4>1. a.batch = batch /\ RowsOf(batch.op) # {}
            /\ a.answer = IF \E b \in RowsOf(batch.op) : b.content = batch.content
                          THEN "ignored" ELSE "replayed"
        BY <3>2 DEF Answer
      <4> QED BY <4>1, <2>u DEF AnswerHolds, RowsOf
    <3> QED BY <3>1, <3>2
  <2>4. HistoryOnlyGrows'
    BY <2>u DEF AppendsAreIdempotent, HistoryOnlyGrows, ConversationTypeOK, RecorderInit, NoBatches
  <2> QED BY <2>1, <2>2, <2>3, <2>4 DEF AppendsAreIdempotent
<1>4. ASSUME NEW p \in Recorders, InsertBatch(p) PROVE ConversationInv'
  <2> PICK batch \in recorder[p].batch :
        IF RowsOf(batch.op) = {}
        THEN /\ batches' = batches \cup {batch}
             /\ Answer(batch, "stored")
        ELSE /\ Answer(batch, "refused")
             /\ UNCHANGED batches
    BY <1>4 DEF InsertBatch
  <2>0. batch \in Batches BY DEF ConversationTypeOK
  <2>u. recorder' = [recorder EXCEPT ![p] = RecorderInit] /\ UNCHANGED messageClock
    BY <1>4 DEF InsertBatch
  <2>g. batches \subseteq batches' OBVIOUS
  <2>1. ConversationTypeOK'
    BY <2>0, <2>u DEF ConversationTypeOK, Answer, RecorderInit, NoBatches
  <2>2. OneRowPerOperation' BY DEF AppendsAreIdempotent, OneRowPerOperation, RowsOf
  <2>3. ASSUME NEW a \in appends' PROVE AnswerHolds(a)'
    <3>1. CASE a \in appends BY <3>1, <2>g, AnswersStayTrue DEF AppendsAreIdempotent
    <3>2. CASE a \notin appends /\ RowsOf(batch.op) = {}
      <4>1. a.batch = batch /\ a.answer = "stored" BY <3>2 DEF Answer
      <4> QED BY <4>1, <3>2 DEF AnswerHolds
    <3>3. CASE a \notin appends /\ RowsOf(batch.op) # {}
      <4>1. a.batch = batch /\ a.answer = "refused" BY <3>3 DEF Answer
      <4> QED BY <4>1, <3>3, <2>g DEF AnswerHolds, RowsOf
    <3> QED BY <3>1, <3>2, <3>3
  <2>4. HistoryOnlyGrows'
    BY <2>u, <2>g DEF AppendsAreIdempotent, HistoryOnlyGrows, ConversationTypeOK, RecorderInit, NoBatches
  <2> QED BY <2>1, <2>2, <2>3, <2>4 DEF AppendsAreIdempotent
<1>5. ASSUME NEW p \in Recorders, LoseRecorder(p) PROVE ConversationInv'
  <2>1. ConversationTypeOK' BY <1>5 DEF LoseRecorder, ConversationTypeOK, RecorderInit, NoBatches
  <2>2. OneRowPerOperation' BY <1>5 DEF LoseRecorder, AppendsAreIdempotent, OneRowPerOperation
  <2>3. \A a \in appends' : AnswerHolds(a)'
    BY <1>5, AnswersStayTrue DEF LoseRecorder, AppendsAreIdempotent
  <2>4. HistoryOnlyGrows'
    BY <1>5 DEF LoseRecorder, AppendsAreIdempotent, HistoryOnlyGrows, ConversationTypeOK, RecorderInit, NoBatches
  <2> QED BY <2>1, <2>2, <2>3, <2>4 DEF AppendsAreIdempotent
<1>6. ASSUME MessageTick \/ UNCHANGED conversationVars PROVE ConversationInv'
  <2>u. UNCHANGED <<batches, recorder, appends>> BY <1>6 DEF MessageTick, conversationVars
  <2>1. ConversationTypeOK'
    BY <1>6, <2>u DEF MessageTick, conversationVars, ConversationTypeOK
  <2>2. OneRowPerOperation' BY <2>u DEF AppendsAreIdempotent, OneRowPerOperation
  <2>3. \A a \in appends' : AnswerHolds(a)'
    BY <2>u, AnswersStayTrue DEF AppendsAreIdempotent
  <2>4. HistoryOnlyGrows' BY <2>u DEF AppendsAreIdempotent, HistoryOnlyGrows
  <2> QED BY <2>1, <2>2, <2>3, <2>4 DEF AppendsAreIdempotent
<1> QED BY <1>1, <1>2, <1>3, <1>4, <1>5, <1>6 DEF ConversationNext

\* A message history is append-only and appends are idempotent, whatever
\* processes append whatever operations (ai/message_store.py:44-100).
THEOREM ConversationsOnlyGrow == ConversationSpec => [](ConversationTypeOK /\ AppendsAreIdempotent)
<1>1. ConversationSpec => []ConversationInv
  BY ConversationInitInv, ConversationStep, PTL DEF ConversationSpec
<1> QED BY <1>1, PTL DEF ConversationInv

-----------------------------------------------------------------------------
(* ResearchDatabase, for any processes, any releases and any length of *)
(* their migrations.                                                   *)

SchemaRows == SUBSET (Nat \X Checksums)
Schemas == [version : Nat, rows : SchemaRows, tables : SchemaRows]
OpenerStates == [stage : {"closed", "opened", "migrating"}, ships : Seq(Checksums),
                 current : Nat, target : Nat, work : Schemas]

SchemaTypes ==
    /\ schema \in Schemas /\ backup \subseteq Schemas
    /\ opener \in [Openers -> OpenerStates]
    /\ writer \in Openers \cup {NoWriter}

\* The version a process read is at most the one there is, as nobody
\* restores meanwhile; one process migrates, from a complete schema.
OpenersAgree ==
    \A p \in Openers :
        /\ opener[p].stage = "opened" => opener[p].current <= schema.version
        /\ opener[p].stage = "migrating" =>
             /\ writer = p
             /\ Complete(opener[p].work)
             /\ opener[p].current <= opener[p].work.version
             /\ schema.version <= opener[p].work.version
             /\ opener[p].target <= Len(opener[p].ships)

TargetsAreShipped ==
    \A p \in Openers : opener[p].stage = "opened" => opener[p].target <= Len(opener[p].ships)

SchemaInv == SchemaTypes /\ OpenersAgree /\ TargetsAreShipped /\ SchemaIsWhole

\* A migration that has no row in a complete schema is the next one, and the
\* schema with it is complete (database.py:190-230).
LEMMA MigrationExtends ==
    ASSUME NEW work \in Schemas, NEW current \in Nat, NEW checksum \in Checksums,
           Complete(work), current <= work.version,
           ~ \E row \in work.rows : row[1] = current + 1
    PROVE  /\ current = work.version
           /\ Migrated(work, current + 1, checksum) \in Schemas
           /\ Complete(Migrated(work, current + 1, checksum))
<1> DEFINE v == current + 1
           next == Migrated(work, v, checksum)
<1>1. work.version \in Nat /\ work.rows \in SchemaRows /\ work.tables = work.rows
  BY DEF Schemas, Complete
<1>2. v \notin 1..work.version BY DEF Complete
<1>3. current = work.version BY <1>1, <1>2
<1>4. <<v, checksum>> \in Nat \X Checksums OBVIOUS
<1>5. next \in Schemas BY <1>1, <1>4 DEF Migrated, Schemas, SchemaRows
<1>6. next.version = v /\ next.rows = work.rows \cup {<<v, checksum>>} /\ next.tables = next.rows
  BY <1>1 DEF Migrated
<1>7. {row[1] : row \in next.rows} = 1..v
  <2> HIDE DEF next
  <2>1. {row[1] : row \in work.rows} = 1..current BY <1>3 DEF Complete
  <2>2. ASSUME NEW row \in next.rows PROVE row[1] \in 1..v
    <3>1. CASE row \in work.rows
      <4>1. row[1] \in 1..current BY <2>1, <3>1
      <4> QED BY <4>1
    <3>2. CASE row = <<v, checksum>> BY <3>2
    <3> QED BY <1>6, <3>1, <3>2
  <2>3. ASSUME NEW n \in 1..v PROVE \E row \in next.rows : row[1] = n
    <3>1. CASE n \in 1..current
      <4>1. PICK row \in work.rows : row[1] = n BY <2>1, <3>1
      <4> QED BY <4>1, <1>6
    <3>2. CASE n = v
      <4>1. <<v, checksum>> \in next.rows BY <1>6
      <4>2. <<v, checksum>>[1] = n BY <3>2
      <4> QED BY <4>1, <4>2
    <3> QED BY <3>1, <3>2
  <2> QED BY <2>2, <2>3
<1>8. \A row, other \in next.rows : row[1] = other[1] => row = other
  <2> SUFFICES ASSUME NEW row \in next.rows, NEW other \in next.rows, row[1] = other[1]
               PROVE  row = other
    OBVIOUS
  <2>1. CASE row \in work.rows /\ other \in work.rows BY <2>1 DEF Complete
  <2>2. CASE row = <<v, checksum>> /\ other = <<v, checksum>> BY <2>2
  <2> QED BY <1>6, <2>1, <2>2
<1> QED BY <1>3, <1>5, <1>6, <1>7, <1>8 DEF Complete

LEMMA EmptyIsComplete == EmptySchema \in Schemas /\ Complete(EmptySchema)
  BY DEF EmptySchema, Schemas, SchemaRows, Complete

LEMMA ClosedIsOpener == ClosedOpener \in OpenerStates
  BY EmptyIsComplete DEF ClosedOpener, OpenerStates

LEMMA SchemaInitInv == SchemaInit => SchemaInv
<1> SUFFICES ASSUME SchemaInit PROVE SchemaInv OBVIOUS
<1>1. SchemaTypes BY EmptyIsComplete, ClosedIsOpener DEF SchemaInit, SchemaTypes
<1>2. OpenersAgree /\ TargetsAreShipped
  BY DEF SchemaInit, OpenersAgree, TargetsAreShipped, ClosedOpener
<1>3. SchemaIsWhole BY EmptyIsComplete DEF SchemaInit, SchemaIsWhole
<1> QED BY <1>1, <1>2, <1>3 DEF SchemaInv
-----------------------------------------------------------------------------
\* One lemma per action that has more than one conjunct to disturb.

LEMMA OpenKeepsInv == ASSUME SchemaInv, NEW p \in Openers, OpenDatabase(p) PROVE SchemaInv'
<1> PICK ships \in Releases : \E target \in 0..Maximum(ships) :
      /\ schema.version <= Maximum(ships)
      /\ opener' = [opener EXCEPT ![p] =
           [stage |-> "opened", ships |-> ships, current |-> schema.version,
            target |-> target, work |-> EmptySchema]]
  BY DEF OpenDatabase
<1> PICK target \in 0..Maximum(ships) :
      /\ schema.version <= Maximum(ships)
      /\ opener' = [opener EXCEPT ![p] =
           [stage |-> "opened", ships |-> ships, current |-> schema.version,
            target |-> target, work |-> EmptySchema]]
  OBVIOUS
<1>u. UNCHANGED <<schema, writer, backup>> BY DEF OpenDatabase
<1>s. schema.version \in Nat BY DEF SchemaInv, SchemaTypes, Schemas
<1>t. ships \in Seq(Checksums) /\ target \in Nat /\ target <= Len(ships)
  <2>1. ships \in Seq(Checksums) BY ReleasesAssumption
  <2>2. Len(ships) \in Nat BY <2>1
  <2> QED BY <2>1, <2>2 DEF Maximum
<1>1. SchemaTypes'
  BY <1>u, <1>s, <1>t, EmptyIsComplete DEF SchemaInv, SchemaTypes, OpenerStates
<1>2. OpenersAgree' BY <1>u, <1>s DEF SchemaInv, SchemaTypes, OpenersAgree
<1>3. TargetsAreShipped' BY <1>t DEF SchemaInv, SchemaTypes, TargetsAreShipped
<1>4. SchemaIsWhole' BY <1>u DEF SchemaInv, SchemaIsWhole
<1> QED BY <1>1, <1>2, <1>3, <1>4 DEF SchemaInv

\* Whoever stops goes back to closed.
LEMMA ClosingKeepsOpeners ==
    ASSUME SchemaInv, NEW p \in Openers, Closes(p),
           UNCHANGED schema, writer' = writer \/ opener[p].stage = "migrating",
           writer' \in Openers \cup {NoWriter}, UNCHANGED backup
    PROVE  SchemaInv'
<1>1. SchemaTypes' BY ClosedIsOpener DEF SchemaInv, SchemaTypes, Closes
<1>2. OpenersAgree'
  <2> SUFFICES ASSUME NEW q \in Openers
               PROVE /\ opener'[q].stage = "opened" => opener'[q].current <= schema.version
                     /\ opener'[q].stage = "migrating" =>
                          /\ writer' = q
                          /\ Complete(opener'[q].work)
                          /\ opener'[q].current <= opener'[q].work.version
                          /\ schema.version <= opener'[q].work.version
                          /\ opener'[q].target <= Len(opener'[q].ships)
    BY DEF OpenersAgree
  <2>1. CASE q = p BY <2>1 DEF SchemaInv, SchemaTypes, Closes, ClosedOpener
  <2>2. CASE q # p
    <3>1. opener'[q] = opener[q] BY <2>2 DEF Closes
    <3>2. ~(opener[p].stage = "migrating" /\ opener[q].stage = "migrating")
      BY <2>2 DEF SchemaInv, OpenersAgree
    <3> QED BY <3>1, <3>2 DEF SchemaInv, OpenersAgree
  <2> QED BY <2>1, <2>2
<1>3. TargetsAreShipped' BY DEF SchemaInv, SchemaTypes, TargetsAreShipped, Closes, ClosedOpener
<1>4. SchemaIsWhole' BY DEF SchemaInv, SchemaIsWhole
<1> QED BY <1>1, <1>2, <1>3, <1>4 DEF SchemaInv

LEMMA LockKeepsInv == ASSUME SchemaInv, NEW p \in Openers, LockDatabase(p) PROVE SchemaInv'
<1>1. CASE Mismatch(opener[p].ships)
  BY <1>1, ClosingKeepsOpeners DEF LockDatabase, SchemaInv, SchemaTypes
<1>2. CASE ~Mismatch(opener[p].ships)
  <2>u. /\ opener' = [opener EXCEPT ![p].stage = "migrating", ![p].work = schema]
        /\ writer' = p /\ writer = NoWriter /\ opener[p].stage = "opened"
        /\ UNCHANGED <<schema, backup>>
    BY <1>2 DEF LockDatabase
  <2>1. SchemaTypes' BY <2>u DEF SchemaInv, SchemaTypes, OpenerStates
  <2>2. opener'[p].stage = "migrating" /\ opener'[p].work = schema
        /\ opener'[p].current = opener[p].current
        /\ opener'[p].target = opener[p].target /\ opener'[p].ships = opener[p].ships
    BY <2>u DEF SchemaInv, SchemaTypes, OpenerStates
  <2>3. \A q \in Openers : q # p => opener'[q] = opener[q] /\ opener[q].stage # "migrating"
    BY <2>u, WriterAssumption DEF SchemaInv, SchemaTypes, OpenersAgree, NoWriter
  <2>4. schema.version \in Nat BY DEF SchemaInv, SchemaTypes, Schemas
  <2>5. OpenersAgree'
    <3> SUFFICES ASSUME NEW q \in Openers
                 PROVE /\ opener'[q].stage = "opened" => opener'[q].current <= schema.version
                       /\ opener'[q].stage = "migrating" =>
                            /\ writer' = q
                            /\ Complete(opener'[q].work)
                            /\ opener'[q].current <= opener'[q].work.version
                            /\ schema.version <= opener'[q].work.version
                            /\ opener'[q].target <= Len(opener'[q].ships)
      BY <2>u DEF OpenersAgree
    <3>1. CASE q # p BY <2>3, <3>1 DEF SchemaInv, OpenersAgree
    <3>2. CASE q = p
      <4>1. Complete(schema) BY DEF SchemaInv, SchemaIsWhole
      <4>2. opener[p].current <= schema.version /\ opener[p].target <= Len(opener[p].ships)
        BY <2>u DEF SchemaInv, OpenersAgree, TargetsAreShipped
      <4> QED BY <2>u, <2>2, <2>4, <3>2, <4>1, <4>2
    <3> QED BY <3>1, <3>2
  <2>6. TargetsAreShipped' BY <2>2, <2>3 DEF SchemaInv, TargetsAreShipped
  <2>7. SchemaIsWhole' BY <2>u DEF SchemaInv, SchemaIsWhole
  <2> QED BY <2>1, <2>5, <2>6, <2>7 DEF SchemaInv
<1> QED BY <1>1, <1>2

LEMMA MigrateKeepsInv == ASSUME SchemaInv, NEW p \in Openers, MigrateOne(p) PROVE SchemaInv'
<1> DEFINE v == opener[p].current + 1
           work == Migrated(opener[p].work, v, opener[p].ships[v])
<1>u. /\ opener[p].stage = "migrating" /\ v <= opener[p].target
      /\ ~ \E row \in opener[p].work.rows : row[1] = v
      /\ opener' = [opener EXCEPT ![p].current = v, ![p].work = work]
      /\ UNCHANGED <<schema, writer, backup>>
  BY DEF MigrateOne, NextMigration, RowExists
<1>t. opener[p] \in OpenerStates BY DEF SchemaInv, SchemaTypes
<1>a. /\ opener[p].current \in Nat /\ opener[p].target \in Nat /\ opener[p].work \in Schemas
      /\ opener[p].ships \in Seq(Checksums)
  BY <1>t DEF OpenerStates
<1>b. /\ Complete(opener[p].work) /\ opener[p].current <= opener[p].work.version
      /\ opener[p].target <= Len(opener[p].ships) /\ writer = p
      /\ schema.version <= opener[p].work.version
  BY <1>u DEF SchemaInv, OpenersAgree
<1>c. opener[p].ships[v] \in Checksums
  <2>1. v \in 1..Len(opener[p].ships) BY <1>u, <1>a, <1>b
  <2> QED BY <2>1, <1>a
<1>d. opener[p].current = opener[p].work.version /\ work \in Schemas /\ Complete(work)
  BY <1>u, <1>a, <1>b, <1>c, MigrationExtends
<1>e. work.version = v /\ v \in Nat BY <1>a DEF Migrated
<1>f. /\ opener'[p].stage = "migrating" /\ opener'[p].work = work /\ opener'[p].current = v
      /\ opener'[p].target = opener[p].target /\ opener'[p].ships = opener[p].ships
  BY <1>u, <1>t DEF SchemaInv, SchemaTypes, OpenerStates
<1>g. \A q \in Openers : q # p => opener'[q] = opener[q]
  BY <1>u DEF SchemaInv, SchemaTypes
<1>1. SchemaTypes'
  <2>1. opener' \in [Openers -> OpenerStates]
    <3>1. opener \in [Openers -> OpenerStates] BY DEF SchemaInv, SchemaTypes
    <3> DEFINE state == [opener[p] EXCEPT !.current = v, !.work = work]
    <3>2. state \in OpenerStates BY <1>t, <1>d, <1>e DEF OpenerStates
    <3>3. opener' = [opener EXCEPT ![p] = state] BY <1>u, <3>1
    <3> HIDE DEF state, v, work
    <3> QED BY <3>1, <3>2, <3>3
  <2> QED BY <2>1, <1>u DEF SchemaInv, SchemaTypes
<1>2. OpenersAgree'
  <2>0. schema.version \in Nat BY DEF SchemaInv, SchemaTypes, Schemas
  <2>1. schema.version <= v BY <1>a, <1>b, <1>d, <2>0
  <2> HIDE DEF work, v
  <2> SUFFICES ASSUME NEW q \in Openers
               PROVE /\ opener'[q].stage = "opened" => opener'[q].current <= schema.version
                     /\ opener'[q].stage = "migrating" =>
                          /\ writer' = q
                          /\ Complete(opener'[q].work)
                          /\ opener'[q].current <= opener'[q].work.version
                          /\ schema.version <= opener'[q].work.version
                          /\ opener'[q].target <= Len(opener'[q].ships)
    BY <1>u DEF OpenersAgree
  <2>2. CASE q # p BY <1>g, <1>u, <2>2 DEF SchemaInv, OpenersAgree
  <2>3. CASE q = p BY <1>u, <1>a, <1>b, <1>d, <1>e, <1>f, <2>1, <2>3
  <2> QED BY <2>2, <2>3
<1>3. TargetsAreShipped' BY <1>f, <1>g DEF SchemaInv, TargetsAreShipped
<1>4. SchemaIsWhole' BY <1>u DEF SchemaInv, SchemaIsWhole
<1> QED BY <1>1, <1>2, <1>3, <1>4 DEF SchemaInv

LEMMA CommitKeepsInv == ASSUME SchemaInv, NEW p \in Openers, CommitSchema(p) PROVE SchemaInv'
<1>u. /\ opener[p].stage = "migrating" /\ schema' = opener[p].work
      /\ opener' = [opener EXCEPT ![p] = ClosedOpener] /\ writer' = NoWriter /\ UNCHANGED backup
  BY DEF CommitSchema, Closes
<1>a. opener[p].work \in Schemas BY DEF SchemaInv, SchemaTypes, OpenerStates
<1>b. Complete(opener[p].work) /\ schema.version <= opener[p].work.version
  BY <1>u DEF SchemaInv, OpenersAgree
<1>1. SchemaTypes' BY <1>u, <1>a, ClosedIsOpener DEF SchemaInv, SchemaTypes
<1>2. OpenersAgree'
  <2> SUFFICES ASSUME NEW q \in Openers
               PROVE /\ opener'[q].stage = "opened" => opener'[q].current <= schema'.version
                     /\ opener'[q].stage # "migrating"
    BY DEF OpenersAgree
  <2>1. CASE q = p BY <1>u, <2>1 DEF SchemaInv, SchemaTypes, ClosedOpener
  <2>2. CASE q # p
    <3>1. opener'[q] = opener[q] BY <1>u, <2>2
    <3>2. opener[q].stage # "migrating" BY <1>u, <2>2 DEF SchemaInv, OpenersAgree
    <3>3. opener[q].current \in Nat /\ schema.version \in Nat /\ schema'.version \in Nat
      BY <1>u, <1>a DEF SchemaInv, SchemaTypes, OpenerStates, Schemas
    <3>4. opener[q].stage = "opened" => opener[q].current <= schema.version
      BY DEF SchemaInv, OpenersAgree
    <3> QED BY <1>u, <1>b, <3>1, <3>2, <3>3, <3>4
  <2> QED BY <2>1, <2>2
<1>3. TargetsAreShipped' BY <1>u DEF SchemaInv, SchemaTypes, TargetsAreShipped, ClosedOpener
<1>4. SchemaIsWhole' BY <1>u, <1>b DEF SchemaInv, SchemaIsWhole
<1> QED BY <1>1, <1>2, <1>3, <1>4 DEF SchemaInv

LEMMA RestoreKeepsInv == ASSUME SchemaInv, RestoreDatabase PROVE SchemaInv'
<1>u. /\ schema' \in backup /\ UNCHANGED <<opener, writer, backup>> /\ writer = NoWriter
      /\ \A p \in Openers : opener[p].stage # "opened"
  BY DEF RestoreDatabase
<1>a. \A p \in Openers : opener[p].stage # "migrating"
  BY <1>u, WriterAssumption DEF SchemaInv, OpenersAgree, NoWriter
<1>1. SchemaTypes' BY <1>u DEF SchemaInv, SchemaTypes
<1>2. OpenersAgree' /\ TargetsAreShipped' BY <1>u, <1>a DEF OpenersAgree, TargetsAreShipped
<1>3. SchemaIsWhole' BY <1>u DEF SchemaInv, SchemaIsWhole
<1> QED BY <1>1, <1>2, <1>3 DEF SchemaInv
-----------------------------------------------------------------------------
LEMMA SchemaStep == SchemaInv /\ [SchemaNext]_schemaVars => SchemaInv'
<1> SUFFICES ASSUME SchemaInv, [SchemaNext]_schemaVars PROVE SchemaInv' OBVIOUS
<1>1. ASSUME NEW p \in Openers, LockTimesOut(p) PROVE SchemaInv'
  BY <1>1, ClosingKeepsOpeners DEF LockTimesOut, SchemaInv, SchemaTypes
<1>2. ASSUME NEW p \in Openers, RollBackSchema(p) PROVE SchemaInv'
  BY <1>2, ClosingKeepsOpeners DEF RollBackSchema
<1>3. CASE BackupDatabase
  <2>1. SchemaTypes' BY <1>3 DEF BackupDatabase, SchemaInv, SchemaTypes
  <2>2. OpenersAgree' /\ TargetsAreShipped'
    BY <1>3 DEF BackupDatabase, SchemaInv, OpenersAgree, TargetsAreShipped
  <2>3. SchemaIsWhole' BY <1>3 DEF BackupDatabase, SchemaInv, SchemaIsWhole
  <2> QED BY <2>1, <2>2, <2>3 DEF SchemaInv
<1>4. CASE UNCHANGED schemaVars
  BY <1>4 DEF schemaVars, SchemaInv, SchemaTypes, OpenersAgree, TargetsAreShipped, SchemaIsWhole
<1> QED BY <1>1, <1>2, <1>3, <1>4, OpenKeepsInv, LockKeepsInv, MigrateKeepsInv, CommitKeepsInv,
           RestoreKeepsInv DEF SchemaNext

\* Whatever releases migrate the research database at once, fail or are
\* late, what is committed is a whole prefix of one history (database.py).
THEOREM MigrationsAreWhole == SchemaSpec => [](SchemaTypeOK /\ SchemaIsWhole)
<1>1. SchemaSpec => []SchemaInv BY SchemaInitInv, SchemaStep, PTL DEF SchemaSpec
<1>2. SchemaInv => SchemaTypeOK /\ SchemaIsWhole
  BY DEF SchemaInv, SchemaTypes, OpenerStates, SchemaTypeOK
<1> QED BY <1>1, <1>2, PTL

-----------------------------------------------------------------------------
(* AnalystRecords, for any requests, points, files, reported facts and peer *)
(* groups.                                                                  *)

\* RecordsStay is inductive once it is known that an id has one row, which
\* is what a save answers with.
OneRowPerId == \A e, f \in expectations : e.id = f.id => e = f

RecordsInv == RecordsStay /\ OneRowPerId

ExpectationsUnchanged == UNCHANGED <<expectations, told>>
GroupsUnchanged == UNCHANGED <<groups, deletedGroups>>

\* SaveExpectation and every row of an import (expectations.py).
LEMMA SavePointKeepsInv ==
    ASSUME RecordsInv, NEW p, SavePoint(p), UNCHANGED surprises, GroupsUnchanged
    PROVE  RecordsInv'
<1> USE DEF RecordsInv, RecordsStay, OneRowPerId, GroupsUnchanged
<1>1. CASE {e \in expectations : e.id = p.id} = {}
  <2>1. expectations' = expectations \cup {p} /\ told' = told \cup {p}
    BY <1>1 DEF SavePoint
  <2>2. \A e \in expectations : e.id # p.id BY <1>1
  <2>3. \A e \in expectations : e.identity # p.identity BY <2>2 DEF SavePoint, Refused
  <2> QED BY <2>1, <2>2, <2>3
<1>2. CASE {e \in expectations : e.id = p.id} # {}
  <2>1. /\ expectations' = expectations
        /\ told' = told \cup {e \in expectations : e.id = p.id}
    BY <1>2 DEF SavePoint
  <2> QED BY <2>1
<1> QED BY <1>1, <1>2

LEMMA GroupStepKeepsInv ==
    ASSUME RecordsInv, ExpectationsUnchanged, UNCHANGED surprises,
           deletedGroups' \cap DOMAIN groups' = {}
    PROVE  RecordsInv'
  BY DEF RecordsInv, RecordsStay, OneRowPerId, ExpectationsUnchanged

LEMMA RecordsStep == RecordsInv /\ [RecordsNext]_recordVars => RecordsInv'
<1> SUFFICES ASSUME RecordsInv, [RecordsNext]_recordVars PROVE RecordsInv' OBVIOUS
<1>0. deletedGroups \cap DOMAIN groups = {} BY DEF RecordsInv, RecordsStay
<1>1. ASSUME NEW c \in Desks, SaveExpectation(c) PROVE RecordsInv'
  BY <1>1, SavePointKeepsInv DEF SaveExpectation, GroupsUnchanged
<1>2. ASSUME NEW c \in Desks, ImportRow(c) PROVE RecordsInv'
  <2>1. CASE \E p : SavePoint(p)
    BY <1>2, <2>1, SavePointKeepsInv DEF ImportRow, GroupsUnchanged
  <2>2. CASE ExpectationsUnchanged
    BY <1>0, <1>2, <2>2, GroupStepKeepsInv DEF ImportRow
  <2> QED BY <1>2, <2>1, <2>2 DEF ImportRow, ExpectationsUnchanged
<1>3. ASSUME NEW c \in Desks, CompareExpectation(c) PROVE RecordsInv'
  <2>1. PICK e \in expectations : \E actual :
          surprises' = surprises \cup {[expectation |-> e, actual |-> actual]}
    BY <1>3 DEF CompareExpectation
  <2>2. \A s \in surprises' : s.expectation \in expectations
    BY <2>1 DEF RecordsInv, RecordsStay
  <2> QED BY <1>3, <2>2 DEF CompareExpectation, RecordsInv, RecordsStay, OneRowPerId
<1>4. ASSUME NEW c \in Desks, NEW g \in Groups, CreateGroup(c, g) PROVE RecordsInv'
  <2>1. DOMAIN groups' = DOMAIN groups \cup {g} /\ g \notin deletedGroups
    BY <1>4 DEF CreateGroup
  <2> QED BY <1>0, <1>4, <2>1, GroupStepKeepsInv DEF CreateGroup, ExpectationsUnchanged
<1>5. ASSUME NEW c \in Desks, NEW g \in Groups, DeleteGroup(c, g) PROVE RecordsInv'
  <2>1. DOMAIN groups' = DOMAIN groups \ {g} /\ deletedGroups' = deletedGroups \cup {g}
    BY <1>5 DEF DeleteGroup
  <2> QED BY <1>0, <1>5, <2>1, GroupStepKeepsInv DEF DeleteGroup, ExpectationsUnchanged
<1>6. ASSUME NEW c \in Desks, UpdateGroup(c) PROVE RecordsInv'
  <2>1. DOMAIN groups' = DOMAIN groups BY <1>6 DEF UpdateGroup, Updated
  <2> QED BY <1>0, <1>6, <2>1, GroupStepKeepsInv DEF UpdateGroup, ExpectationsUnchanged
<1>7. ASSUME NEW c \in Desks,
             \/ BeginImport(c) \/ SaveValuation(c)
             \/ \E g \in Groups : ReadGroup(c, g)
      PROVE RecordsInv'
  BY <1>0, <1>7, GroupStepKeepsInv
  DEF BeginImport, SaveValuation, ReadGroup, ExpectationsUnchanged
<1>8. CASE UNCHANGED recordVars
  BY <1>0, <1>8, GroupStepKeepsInv DEF recordVars, ExpectationsUnchanged
<1> QED BY <1>1, <1>2, <1>3, <1>4, <1>5, <1>6, <1>7, <1>8 DEF RecordsNext

\* Whatever is saved, imported, compared, changed and deleted at once: what
\* a save answered and a surprise was measured against stays, an identity
\* has one point, and a deleted peer group stays deleted
\* (expectations.py, peer_groups.py).
THEOREM RecordedPointsStay == RecordsSpec => []RecordsStay
<1>1. RecordsInit => RecordsInv
  BY DEF RecordsInit, RecordsInv, RecordsStay, OneRowPerId
<1>2. RecordsSpec => []RecordsInv BY <1>1, RecordsStep, PTL DEF RecordsSpec
<1> QED BY <1>2, PTL DEF RecordsInv

\* What a request holds between two statements.
Importing(work) == \E file : work = [stage |-> "import", file |-> file]
Updating(work) == \E g \in Groups, p \in Peers : Accepted(p) /\ work = [stage |-> "group", group |-> g, input |-> p]

RecordsTyped ==
    /\ RecordsTypeOK
    /\ desk = [c \in Desks |-> desk[c]]
    /\ groups = [g \in DOMAIN groups |-> groups[g]]
    /\ \A c \in Desks : desk[c] = AtDesk \/ Importing(desk[c]) \/ Updating(desk[c])

LEMMA ImportSteps ==
    ASSUME RecordsTyped, NEW c \in Desks, ImportRow(c)
    PROVE  RecordsTyped'
<1> USE DEF RecordsTyped
<1>1. desk[c].stage = "import" BY DEF ImportRow
<1>2. PICK file : desk[c] = [stage |-> "import", file |-> file]
  BY <1>1 DEF Importing, Updating, AtDesk
<1>3. desk' = [desk EXCEPT ![c] = desk'[c]] /\ (desk'[c] = AtDesk \/ \E g : desk'[c] = [stage |-> "import", file |-> g])
  <2>1. \A f : [[stage |-> "import", file |-> file] EXCEPT !.file = f] = [stage |-> "import", file |-> f] OBVIOUS
  <2>2. desk' = [desk EXCEPT ![c] = AtDesk] \/ desk' = [desk EXCEPT ![c] = [desk[c] EXCEPT !.file = Tail(desk[c].file)]]
    BY DEF ImportRow, Take, Leave
  <2>3. CASE desk' = [desk EXCEPT ![c] = AtDesk] BY <2>3
  <2>4. CASE desk' = [desk EXCEPT ![c] = [desk[c] EXCEPT !.file = Tail(desk[c].file)]]
    <3>1. desk' = [desk EXCEPT ![c] = [stage |-> "import", file |-> Tail(desk[c].file)]] BY <1>2, <2>1, <2>4
    <3>2. desk'[c] = [stage |-> "import", file |-> Tail(desk[c].file)] BY <3>1
    <3> QED BY <3>1, <3>2
  <2> QED BY <2>2, <2>3, <2>4
<1>4. \A e \in expectations' : Valid(e)
  BY DEF ImportRow, SavePoint, RecordsTypeOK
<1>5. UNCHANGED <<groups, valuations, deletedGroups>> BY DEF ImportRow
<1>6. \A d \in Desks : desk'[d] = AtDesk \/ Importing(desk'[d]) \/ Updating(desk'[d])
  BY <1>3 DEF Importing, Updating
<1> QED BY <1>3, <1>4, <1>5, <1>6 DEF RecordsTypeOK

LEMMA RecordsTypedSteps == RecordsTyped /\ [RecordsNext]_recordVars => RecordsTyped'
<1> SUFFICES ASSUME RecordsTyped, [RecordsNext]_recordVars PROVE RecordsTyped' OBVIOUS
<1> USE DEF RecordsTyped
<1>1. ASSUME NEW c \in Desks, SaveExpectation(c) PROVE RecordsTyped'
  BY <1>1 DEF SaveExpectation, SavePoint, RecordsTypeOK
<1>2. ASSUME NEW c \in Desks, BeginImport(c) PROVE RecordsTyped'
  <2>1. PICK file \in Imports : desk' = [desk EXCEPT ![c] = [stage |-> "import", file |-> file]]
    BY <1>2 DEF BeginImport, Take
  <2>2. desk'[c] = [stage |-> "import", file |-> file] /\ \A d \in Desks \ {c} : desk'[d] = desk[d] BY <2>1
  <2>3. desk' = [d \in Desks |-> desk'[d]] BY <2>1
  <2>4. UNCHANGED <<expectations, groups, valuations, deletedGroups>> BY <1>2 DEF BeginImport
  <2>5. RecordsTypeOK' BY <2>3, <2>4 DEF RecordsTypeOK
  <2>6. \A d \in Desks : desk'[d] = AtDesk \/ Importing(desk'[d]) \/ Updating(desk'[d])
    <3>1. Importing(desk'[c]) BY <2>2 DEF Importing
    <3> QED BY <2>2, <3>1
  <2> QED BY <2>3, <2>4, <2>5, <2>6
<1>3. ASSUME NEW c \in Desks, CompareExpectation(c) PROVE RecordsTyped'
  BY <1>3 DEF CompareExpectation, RecordsTypeOK
<1>4. ASSUME NEW c \in Desks, NEW g \in Groups, CreateGroup(c, g) PROVE RecordsTyped'
  BY <1>4 DEF CreateGroup, RecordsTypeOK
<1>5. ASSUME NEW c \in Desks, NEW g \in Groups, ReadGroup(c, g) PROVE RecordsTyped'
  <2>1. PICK p \in Peers : Accepted(p) /\ desk' = [desk EXCEPT ![c] = [stage |-> "group", group |-> g, input |-> p]]
    BY <1>5 DEF ReadGroup, Take
  <2>2. desk'[c] = [stage |-> "group", group |-> g, input |-> p] /\ \A d \in Desks \ {c} : desk'[d] = desk[d] BY <2>1
  <2>3. desk' = [d \in Desks |-> desk'[d]] BY <2>1
  <2>4. UNCHANGED <<expectations, groups, valuations, deletedGroups>> BY <1>5 DEF ReadGroup
  <2>5. RecordsTypeOK' BY <2>3, <2>4 DEF RecordsTypeOK
  <2>6. \A d \in Desks : desk'[d] = AtDesk \/ Importing(desk'[d]) \/ Updating(desk'[d])
    <3>1. Updating(desk'[c]) BY <2>1, <2>2 DEF Updating
    <3> QED BY <2>2, <3>1
  <2> QED BY <2>3, <2>4, <2>5, <2>6
<1>6. ASSUME NEW c \in Desks, NEW g \in Groups, DeleteGroup(c, g) PROVE RecordsTyped'
  BY <1>6 DEF DeleteGroup, RecordsTypeOK
<1>7. ASSUME NEW c \in Desks, UpdateGroup(c) PROVE RecordsTyped'
  <2>1. desk[c].stage = "group" BY <1>7 DEF UpdateGroup
  <2>2. PICK g \in Groups, p \in Peers : Accepted(p) /\ desk[c] = [stage |-> "group", group |-> g, input |-> p]
    BY <2>1 DEF AtDesk, Importing, Updating
  <2>3. desk' = [desk EXCEPT ![c] = AtDesk] /\ groups' = Updated(g, p) /\ UNCHANGED <<expectations, valuations, deletedGroups>>
    BY <1>7, <2>2 DEF UpdateGroup, Leave, Take
  <2>4. DOMAIN groups' = DOMAIN groups /\ (\A x \in DOMAIN groups : groups'[x] = groups[x] \/ groups'[x] = p)
        /\ groups' = [x \in DOMAIN groups' |-> groups'[x]]
    BY <2>3 DEF Updated
  <2>5. desk'[c] = AtDesk /\ \A d \in Desks \ {c} : desk'[d] = desk[d] BY <2>3
  <2>6. desk' = [d \in Desks |-> desk'[d]] BY <2>3
  <2>7. RecordsTypeOK' BY <2>2, <2>3, <2>4 DEF RecordsTypeOK
  <2> QED BY <2>4, <2>5, <2>6, <2>7
<1>8. ASSUME NEW c \in Desks, SaveValuation(c) PROVE RecordsTyped'
  BY <1>8 DEF SaveValuation, RecordsTypeOK
<1>9. CASE UNCHANGED recordVars BY <1>9 DEF recordVars, RecordsTypeOK
<1> QED BY <1>1, <1>2, <1>3, <1>4, <1>5, <1>6, <1>7, <1>8, <1>9, ImportSteps DEF RecordsNext

\* A stored expectation is valid and a stored peer group accepted, however
\* requests interleave with deletes and whatever row ends an import.
THEOREM RecordsTypeCorrect == RecordsSpec => []RecordsTypeOK
<1>1. RecordsInit => RecordsTyped
  BY DEF RecordsInit, RecordsTyped, RecordsTypeOK
<1> QED BY <1>1, RecordsTypedSteps, PTL DEF RecordsSpec, RecordsTyped

-----------------------------------------------------------------------------
(* AnalystJournal, for any requests, theses and periods. A review survives *)
(* because a row is written from a copy with at least its reviews, or the  *)
(* thesis counts as overwritten; for that it must be known what each       *)
(* request carries between two statements (ClerkOK), and that its review   *)
(* has an id of its own (IdsApart).                                        *)

\* Steps of a request that hold a copy of a row, carry a review, have it
\* still to write, and confirm a draft.
Copies(c) == clerk[c].stage \in {"edit", "review", "reviewConfirm"}
Carries(c) == clerk[c].stage \in {"review", "confirm", "reviewConfirm", "confirmed"}
Unwritten(c) == clerk[c].stage \in {"review", "confirm", "reviewConfirm"}
Confirms(c) == clerk[c].stage \in {"confirm", "reviewConfirm", "confirmed"}

\* Reviews of the rows and of the copies from which a row may be written.
Seen == {r \in Reviews : \/ \E t \in DOMAIN theses : r \in theses[t].reviews
                         \/ \E c \in Clerks : Copies(c) /\ r \in clerk[c].copy.reviews}

\* A request is about a thesis and a draft there are.
ClerkOK(c) ==
    /\ clerk[c].stage \in {"idle", "edit", "review", "draft", "confirm", "reviewConfirm", "confirmed"}
    /\ Copies(c) => clerk[c].thesis \in DOMAIN theses /\ clerk[c].copy \in ThesisRows
    /\ Carries(c) => /\ clerk[c].thesis \in DOMAIN theses
                     /\ clerk[c].review \in Reviews /\ clerk[c].review.id <= reviewsMade
    /\ clerk[c].stage = "review" => clerk[c].review.draft = {}
    /\ clerk[c].stage = "draft" => clerk[c].draft \in Drafts /\ clerk[c].draft[1] \in DOMAIN theses
    /\ Confirms(c) => clerk[c].draft \in DOMAIN drafts /\ clerk[c].review.draft = {clerk[c].draft}

JournalOK ==
    /\ JournalTypeOK
    /\ \A c \in Clerks : ClerkOK(c)
    /\ \A d \in DOMAIN drafts : d[1] \in DOMAIN theses

\* A review that was answered for is there, unless its thesis was written over.
JournalKept(t, review) == t \in DOMAIN theses /\ (t \notin overwritten => review \in theses[t].reviews)

AnswersKept ==
    /\ \A a \in acked : JournalKept(a.thesis, a.review)
    /\ \A c \in Clerks : clerk[c].stage = "confirmed" => JournalKept(clerk[c].thesis, clerk[c].review)

\* The review a request carries has an id of its own.
IdsApart ==
    /\ \A r \in Seen : r.id <= reviewsMade
    /\ \A c \in Clerks : Unwritten(c) => \A r \in Seen : r.id # clerk[c].review.id
    /\ \A c, e \in Clerks : c # e /\ Carries(c) /\ Carries(e) => clerk[c].review.id # clerk[e].review.id

\* One request at a time confirms a draft that no two crossed on.
Alone ==
    \A c \in Clerks : Confirms(c) /\ clerk[c].draft \notin confirmedAgain =>
        /\ drafts[clerk[c].draft].status = "draft"
        /\ \A e \in Clerks \ {c} : ~Confirming(e, clerk[c].draft)

Counts(r, d) ==
    \/ drafts[d] = [status |-> "confirmed", review |-> r.id]
    \/ \E c \in Clerks : Confirming(c, d) /\ clerk[c].review = r

\* What has a draft's review written is its row, or the request that is about to.
Counted ==
    \A r \in Seen : \A d \in r.draft :
        /\ d \in DOMAIN drafts
        /\ d \notin confirmedAgain => Counts(r, d) /\ \A s \in Seen : d \in s.draft => r = s

JournalInv == JournalOK /\ AnswersKept /\ IdsApart /\ Alone /\ Counted

\* A row is written from a copy, with at least its reviews (journal.py).
LEMMA SaveKeeps ==
    ASSUME JournalOK, NEW t \in Theses, NEW copy \in ThesisRows, NEW row \in ThesisRows,
           copy.reviews \subseteq row.reviews, SaveThesis(t, copy, row)
    PROVE  /\ DOMAIN theses' = DOMAIN theses \cup {t} /\ theses'[t] = row
           /\ \A u \in DOMAIN theses' : u # t => theses'[u] = theses[u]
           /\ DOMAIN theses' \subseteq Theses /\ \A u \in DOMAIN theses' : theses'[u] \in ThesisRows
           /\ overwritten \subseteq overwritten' /\ overwritten' \subseteq Theses
           /\ \A u, r : JournalKept(u, r) => JournalKept(u, r)'
  BY DEF SaveThesis, With, JournalKept, JournalOK, JournalTypeOK

\* What is seen includes what the rows hold.
LEMMA RowsSeen ==
    ASSUME JournalOK
    PROVE  /\ \A t \in DOMAIN theses : theses[t].reviews \subseteq Seen
           /\ \A c \in Clerks : Copies(c) => clerk[c].copy.reviews \subseteq Seen
  BY DEF JournalOK, JournalTypeOK, ThesisRows, ClerkOK, Seen

JournalStays == UNCHANGED <<theses, drafts, reviewsMade, acked, overwritten, confirmedAgain>>

\* POST of a whole thesis, and an edit from a copy: no review is new.
LEMMA WriteKeepsInv ==
    ASSUME JournalInv, NEW c \in Clerks, NEW t \in Theses, NEW copy \in ThesisRows, NEW row \in ThesisRows,
           row.reviews = copy.reviews, row.reviews \subseteq Seen, SaveThesis(t, copy, row),
           clerk' = clerk \/ (Return(c) /\ ~Carries(c)),
           UNCHANGED <<drafts, reviewsMade, acked, confirmedAgain>>
    PROVE  JournalInv'
<1> USE DEF JournalInv
<1>1. /\ DOMAIN theses' = DOMAIN theses \cup {t} /\ theses'[t] = row
      /\ \A u \in DOMAIN theses' : u # t => theses'[u] = theses[u]
      /\ DOMAIN theses' \subseteq Theses /\ \A u \in DOMAIN theses' : theses'[u] \in ThesisRows
      /\ overwritten \subseteq overwritten' /\ overwritten' \subseteq Theses
      /\ \A u, r : JournalKept(u, r) => JournalKept(u, r)'
  BY SaveKeeps
<1>2. \A e \in Clerks : clerk'[e] = clerk[e] \/ (clerk'[e] = Idle /\ ~Carries(e))
  BY DEF Return, JournalOK, JournalTypeOK
<1>3. Seen' \subseteq Seen
  BY <1>1, <1>2, RowsSeen DEF Seen, Copies, Idle
<1>4. JournalOK'
  BY <1>1, <1>2 DEF JournalOK, JournalTypeOK, ClerkOK, Copies, Carries, Confirms, Idle, Return
<1>5. AnswersKept'
  BY <1>1, <1>2 DEF AnswersKept, Idle
<1>6. IdsApart'
  BY <1>2, <1>3 DEF IdsApart, Unwritten, Carries, Idle
<1>7. Alone'
  BY <1>2 DEF Alone, Confirms, Confirming, Idle
<1>8. Counted'
  <2>1. \A r, d : Counts(r, d) => Counts(r, d)'
    BY <1>2 DEF Counts, Confirming, Carries
  <2> QED BY <1>3, <2>1 DEF Counted
<1> QED BY <1>4, <1>5, <1>6, <1>7, <1>8

\* add_review and the second statement of confirm write one review more.
LEMMA ReviewKeepsInv ==
    ASSUME JournalInv, NEW c \in Clerks, clerk[c].stage \in {"review", "reviewConfirm"},
           NEW w, w = clerk[c], SaveThesis(w.thesis, w.copy, Reviewed(w.copy, w.review)),
           AddReview(c) \/ ReviewOfConfirm(c)
    PROVE  JournalInv'
<1> USE DEF JournalInv
<1> DEFINE row == Reviewed(w.copy, w.review)
<1>0. /\ w.thesis \in Theses /\ w.thesis \in DOMAIN theses /\ w.copy \in ThesisRows /\ w.review \in Reviews
      /\ row \in ThesisRows /\ w.copy.reviews \subseteq row.reviews
      /\ w.review \in row.reviews /\ row.reviews = w.copy.reviews \cup {w.review}
  BY DEF JournalOK, JournalTypeOK, ClerkOK, Copies, Carries, Reviewed, ThesisRows, Reviews, Outcomes, ThesisStatuses
<1>1. /\ DOMAIN theses' = DOMAIN theses /\ theses'[w.thesis] = row
      /\ \A u \in DOMAIN theses' : u # w.thesis => theses'[u] = theses[u]
      /\ DOMAIN theses' \subseteq Theses /\ \A u \in DOMAIN theses' : theses'[u] \in ThesisRows
      /\ overwritten \subseteq overwritten' /\ overwritten' \subseteq Theses
      /\ \A u, r : JournalKept(u, r) => JournalKept(u, r)'
  <2>1. SaveThesis(w.thesis, w.copy, row) OBVIOUS
  <2> HIDE DEF row
  <2>2. /\ DOMAIN theses' = DOMAIN theses \cup {w.thesis} /\ theses'[w.thesis] = row
        /\ \A u \in DOMAIN theses' : u # w.thesis => theses'[u] = theses[u]
        /\ DOMAIN theses' \subseteq Theses /\ \A u \in DOMAIN theses' : theses'[u] \in ThesisRows
        /\ overwritten \subseteq overwritten' /\ overwritten' \subseteq Theses
        /\ \A u, r : JournalKept(u, r) => JournalKept(u, r)'
    BY <1>0, <2>1, SaveKeeps
  <2>3. DOMAIN theses \cup {w.thesis} = DOMAIN theses BY <1>0
  <2> QED BY <2>2, <2>3
<1>2. /\ clerk' = [clerk EXCEPT ![c] = clerk'[c]]
      /\ \/ w.stage = "review" /\ clerk'[c] = Idle /\ acked' = acked \cup {[thesis |-> w.thesis, review |-> w.review]}
         \/ /\ w.stage = "reviewConfirm" /\ acked' = acked
            /\ clerk'[c] = [stage |-> "confirmed", thesis |-> w.thesis, draft |-> w.draft, review |-> w.review]
      /\ UNCHANGED <<drafts, reviewsMade, confirmedAgain>>
  BY DEF AddReview, ReviewOfConfirm, Is, Return, Goto, JournalOK, JournalTypeOK
<1>x. \A e \in Clerks : e # c => clerk'[e] = clerk[e]
  BY <1>2 DEF JournalOK, JournalTypeOK
<1>3. Seen' \subseteq Seen \cup {w.review}
  BY <1>0, <1>1, <1>2, <1>x, RowsSeen DEF Seen, Copies, Idle
<1>k. JournalKept(w.thesis, w.review)'
  BY <1>0, <1>1 DEF JournalKept
<1>4. JournalOK'
  <2>1. JournalTypeOK' BY <1>1, <1>2 DEF JournalOK, JournalTypeOK
  <2>2. ClerkOK(c)' BY <1>0, <1>1, <1>2 DEF JournalOK, ClerkOK, Copies, Carries, Confirms, Idle
  <2>3. ASSUME NEW e \in Clerks, e # c PROVE ClerkOK(e)'
    BY <1>1, <1>2, <1>x, <2>3 DEF JournalOK, ClerkOK, Copies, Carries, Confirms
  <2> QED BY <1>1, <1>2, <2>1, <2>2, <2>3 DEF JournalOK
<1>5. AnswersKept'
  BY <1>1, <1>2, <1>x, <1>k DEF AnswersKept, Idle
<1>6. IdsApart'
  <2>1. \A r \in Seen' : r.id <= reviewsMade'
    BY <1>2, <1>3 DEF IdsApart, JournalOK, ClerkOK, Carries
  <2>2. ASSUME NEW e \in Clerks, Unwritten(e)', NEW r \in Seen' PROVE r.id # clerk'[e].review.id
    BY <1>2, <1>3, <1>x, <2>2 DEF IdsApart, Unwritten, Carries, Idle
  <2>3. ASSUME NEW e \in Clerks, NEW f \in Clerks, e # f, Carries(e)', Carries(f)'
        PROVE  clerk'[e].review.id # clerk'[f].review.id
    BY <1>2, <1>x, <2>3 DEF IdsApart, Carries, Idle
  <2> QED BY <2>1, <2>2, <2>3 DEF IdsApart
<1>c. \A e \in Clerks : \A d : Confirming(e, d)' <=> Confirming(e, d)
  BY <1>2, <1>x DEF Confirming, Idle
<1>d. \A e \in Clerks : Confirms(e) => clerk'[e].draft = clerk[e].draft /\ clerk'[e].review = clerk[e].review
  BY <1>2, <1>x DEF Confirms
<1>7. Alone'
  BY <1>2, <1>x, <1>c, <1>d DEF Alone, Confirms, Idle
<1>8. Counted'
  <2>1. \A r, d : Counts(r, d) => Counts(r, d)'
    <3>1. \A e \in Clerks : \A d : Confirming(e, d) => Confirms(e) BY DEF Confirming, Confirms
    <3>2. drafts' = drafts BY <1>2
    <3> QED BY <1>c, <1>d, <3>1, <3>2 DEF Counts
  <2>2. ASSUME NEW d \in w.review.draft
        PROVE  /\ w.stage = "reviewConfirm" /\ d = w.draft /\ Confirming(c, d) /\ d \in DOMAIN drafts
               /\ Counts(w.review, d)'
               /\ d \notin confirmedAgain => \A s \in Seen : d \notin s.draft
    <3>1. w.stage = "reviewConfirm" /\ d = w.draft /\ Confirming(c, d) /\ d \in DOMAIN drafts
      BY <2>2 DEF JournalOK, ClerkOK, Confirming, Confirms
    <3>2. Counts(w.review, d) BY <3>1 DEF Counts
    <3>3. ASSUME d \notin confirmedAgain, NEW s \in Seen, d \in s.draft PROVE FALSE
      <4>1. Counts(s, d) BY <3>3 DEF Counted
      <4>2. drafts[d].status = "draft" /\ \A e \in Clerks \ {c} : ~Confirming(e, d)
        BY <3>1, <3>3 DEF Alone, Confirms
      <4>3. w.review = s BY <4>1, <4>2 DEF Counts
      <4> QED BY <3>1, <4>3 DEF IdsApart, Unwritten
    <3> QED BY <2>1, <3>1, <3>2, <3>3
  <2>3. ASSUME NEW r \in Seen', NEW d \in r.draft
        PROVE  /\ d \in DOMAIN drafts'
               /\ d \notin confirmedAgain' => Counts(r, d)' /\ \A s \in Seen' : d \in s.draft => r = s
    <3>1. CASE r \in Seen
      BY <1>2, <1>3, <2>1, <2>2, <3>1 DEF Counted
    <3>2. CASE r = w.review
      BY <1>2, <1>3, <2>2, <3>2
    <3> QED BY <1>3, <3>1, <3>2
  <2> QED BY <2>3 DEF Counted
<1> QED BY <1>4, <1>5, <1>6, <1>7, <1>8

\* A request that begins, takes a review with it, or is gone: what the tables hold stays.
LEMMA MoveKeepsInv ==
    ASSUME JournalInv, NEW c \in Clerks, JournalTypeOK',
           UNCHANGED <<theses, drafts, acked, overwritten>>, reviewsMade <= reviewsMade',
           confirmedAgain \subseteq confirmedAgain',
           \A e \in Clerks : e # c => clerk'[e] = clerk[e],
           ClerkOK(c)', Copies(c)' => clerk'[c].copy.reviews \subseteq Seen,
           clerk'[c].stage # "confirmed",
           Carries(c)' => (clerk'[c].review = clerk[c].review /\ Unwritten(c))
                          \/ clerk'[c].review.id = reviewsMade + 1,
           Confirms(c)' /\ clerk'[c].draft \notin confirmedAgain' =>
              \/ Confirms(c) /\ clerk[c].draft = clerk'[c].draft
              \/ /\ drafts[clerk'[c].draft].status = "draft"
                 /\ \A e \in Clerks \ {c} : ~Confirming(e, clerk'[c].draft),
           \A e \in Clerks \ {c} : Confirms(c)' /\ Confirming(e, clerk'[c].draft) =>
              clerk'[c].draft \in confirmedAgain' \/ Confirming(c, clerk'[c].draft),
           clerk[c].stage = "confirmed" => clerk[c].draft \in confirmedAgain'
    PROVE  JournalInv'
<1> USE DEF JournalInv
<1>1. Seen' \subseteq Seen
  <2>1. \A e \in Clerks : Copies(e)' => clerk'[e].copy.reviews \subseteq Seen
    BY RowsSeen DEF Copies
  <2> QED BY <2>1 DEF Seen
<1>2. JournalOK'
  <2>1. ASSUME NEW e \in Clerks, e # c PROVE ClerkOK(e)'
    BY <2>1 DEF JournalOK, JournalTypeOK, ClerkOK, Copies, Carries, Confirms, Reviews
  <2> QED BY <2>1 DEF JournalOK
<1>3. AnswersKept'
  BY DEF AnswersKept, JournalKept
<1>4. IdsApart'
  <2>1. \A r \in Seen' : r.id <= reviewsMade'
    BY <1>1 DEF IdsApart, Seen, Reviews, JournalOK, JournalTypeOK
  <2>2. ASSUME NEW e \in Clerks, Unwritten(e)', NEW r \in Seen' PROVE r.id # clerk'[e].review.id
    <3>1. CASE e # c BY <1>1, <2>2, <3>1 DEF IdsApart, Unwritten
    <3>2. CASE e = c /\ clerk'[c].review = clerk[c].review /\ Unwritten(c)
      BY <1>1, <3>2 DEF IdsApart
    <3>3. CASE e = c /\ clerk'[c].review.id = reviewsMade + 1
      BY <1>1, <3>3 DEF IdsApart, Seen, Reviews, JournalOK, JournalTypeOK
    <3> QED BY <2>2, <3>1, <3>2, <3>3 DEF Unwritten, Carries
  <2>3. ASSUME NEW e \in Clerks, e # c, Carries(e), Carries(c)'
        PROVE  clerk[e].review.id # clerk'[c].review.id
    <3>1. CASE clerk'[c].review = clerk[c].review /\ Unwritten(c)
      BY <2>3, <3>1 DEF IdsApart, Unwritten, Carries
    <3>2. CASE clerk'[c].review.id = reviewsMade + 1
      BY <2>3, <3>2 DEF JournalOK, JournalTypeOK, ClerkOK, Reviews
    <3> QED BY <2>3, <3>1, <3>2
  <2>4. \A e \in Clerks : e # c => (Carries(e)' <=> Carries(e)) BY DEF Carries
  <2> QED BY <2>1, <2>2, <2>3, <2>4 DEF IdsApart
<1>5. \A e \in Clerks : \A d : e # c => (Confirming(e, d)' <=> Confirming(e, d))
  BY DEF Confirming
<1>6. \A e \in Clerks : e # c => (Confirms(e)' <=> Confirms(e))
  BY DEF Confirms
<1>c. \A e \in Clerks : Confirms(e) <=> Confirming(e, clerk[e].draft)
  BY DEF Confirms, Confirming
<1>d. Confirms(c)' => \A d : Confirming(c, d)' <=> d = clerk'[c].draft
  BY DEF Confirms, Confirming
<1>f. ~Confirms(c)' => \A d : ~Confirming(c, d)'
  BY DEF Confirms, Confirming
<1>7. Alone'
  <2>1. ASSUME NEW e \in Clerks, e # c, Confirms(e), NEW d, d = clerk[e].draft, d \notin confirmedAgain'
        PROVE  drafts[d].status = "draft" /\ \A o \in Clerks \ {e} : ~Confirming(o, d)'
    <3>1. drafts[d].status = "draft" /\ \A o \in Clerks \ {e} : ~Confirming(o, d)
      BY <2>1 DEF Alone
    <3>2. Confirming(e, d) BY <2>1, <1>c
    <3>3. ~Confirming(c, d)'
      BY <2>1, <3>1, <3>2, <1>d, <1>f
    <3> QED BY <3>1, <3>3, <1>5
  <2>2. ASSUME Confirms(c)', NEW d, d = clerk'[c].draft, d \notin confirmedAgain'
        PROVE  drafts[d].status = "draft" /\ \A o \in Clerks \ {c} : ~Confirming(o, d)'
    <3>1. drafts[d].status = "draft" /\ \A o \in Clerks \ {c} : ~Confirming(o, d)
      BY <2>2 DEF Alone
    <3> QED BY <3>1, <1>5
  <2>3. ASSUME NEW e \in Clerks, Confirms(e)', clerk'[e].draft \notin confirmedAgain'
        PROVE  drafts'[clerk'[e].draft].status = "draft" /\ \A o \in Clerks \ {e} : ~Confirming(o, clerk[e].draft)'
    <3>1. CASE e = c
      <4>1. PICK d : d = clerk'[c].draft OBVIOUS
      <4> QED BY <2>2, <2>3, <3>1, <4>1
    <3>2. CASE e # c
      <4>1. clerk'[e].draft = clerk[e].draft /\ Confirms(e) BY <2>3, <3>2, <1>6
      <4> QED BY <2>1, <2>3, <3>2, <4>1
    <3> QED BY <3>1, <3>2
  <2> QED BY <2>3 DEF Alone
<1>8. Counted'
  <2>1. ASSUME NEW r \in Seen, NEW d \in r.draft, d \notin confirmedAgain', Counts(r, d)
        PROVE  Counts(r, d)'
    <3>1. CASE drafts[d] = [status |-> "confirmed", review |-> r.id] BY <3>1 DEF Counts
    <3>2. CASE \E e \in Clerks : e # c /\ Confirming(e, d) /\ clerk[e].review = r
      BY <3>2, <1>5 DEF Counts
    <3>3. CASE Confirming(c, d) /\ clerk[c].review = r
      <4>1. clerk[c].stage = "confirmed" BY <3>3 DEF IdsApart, Unwritten, Confirming
      <4> QED BY <2>1, <3>3, <4>1 DEF Confirming
    <3> QED BY <2>1, <3>1, <3>2, <3>3 DEF Counts
  <2> QED BY <1>1, <2>1 DEF Counted
<1> QED BY <1>2, <1>3, <1>4, <1>7, <1>8

\* A draft is stored for a thesis there is (journal.py).
LEMMA DraftKeepsInv == ASSUME JournalInv, NEW c \in Clerks, SaveDraft(c) PROVE JournalInv'
<1> USE DEF JournalInv
<1>1. /\ Is(c, "draft") /\ clerk[c].draft \in Drafts /\ clerk[c].draft[1] \in DOMAIN theses
      /\ DOMAIN drafts' = DOMAIN drafts \cup {clerk[c].draft}
      /\ \A d \in DOMAIN drafts : drafts'[d] = drafts[d]
      /\ drafts'[clerk[c].draft] \in [status : {"draft", "confirmed"}, review : 0..MaxReviews]
      /\ clerk' = [clerk EXCEPT ![c] = Idle]
      /\ UNCHANGED <<theses, reviewsMade, acked, overwritten, confirmedAgain>>
  BY ReviewsAssumption DEF SaveDraft, With, Return, Is, JournalOK, JournalTypeOK, ClerkOK
<1>2. \A e \in Clerks : clerk'[e] = clerk[e] \/ (clerk'[e] = Idle /\ clerk[e].stage = "draft")
  BY <1>1 DEF JournalOK, JournalTypeOK, Is
<1>3. Seen' \subseteq Seen
  BY <1>1, <1>2 DEF Seen, Copies, Idle
<1>4. JournalOK'
  <2>1. JournalTypeOK' BY <1>1 DEF JournalOK, JournalTypeOK
  <2>2. \A e \in Clerks : ClerkOK(e)'
    BY <1>1, <1>2 DEF JournalOK, ClerkOK, Copies, Carries, Confirms, Idle
  <2>3. \A d \in DOMAIN drafts' : d[1] \in DOMAIN theses' BY <1>1 DEF JournalOK
  <2> QED BY <2>1, <2>2, <2>3 DEF JournalOK
<1>5. AnswersKept' BY <1>1, <1>2 DEF AnswersKept, JournalKept, Idle
<1>6. IdsApart' BY <1>1, <1>2, <1>3 DEF IdsApart, Unwritten, Carries, Idle
<1>7. \A e \in Clerks : \A d : Confirming(e, d)' <=> Confirming(e, d)
  BY <1>2 DEF Confirming, Idle
<1>8. Alone'
  <2>1. \A e \in Clerks : Confirms(e)' => clerk'[e] = clerk[e] /\ Confirms(e) /\ clerk[e].draft \in DOMAIN drafts
    BY <1>2 DEF Confirms, Idle, JournalOK, ClerkOK
  <2> QED BY <1>1, <1>7, <2>1 DEF Alone
<1>9. Counted'
  <2>1. ASSUME NEW r, NEW d \in DOMAIN drafts, Counts(r, d) PROVE Counts(r, d)'
    BY <1>1, <1>2, <2>1 DEF Counts, Confirming, Idle
  <2> QED BY <1>1, <1>3, <2>1 DEF Counted
<1> QED BY <1>4, <1>5, <1>6, <1>8, <1>9

\* The last statement of confirm: the draft points at the review the thesis has.
LEMMA MarkKeepsInv == ASSUME JournalInv, NEW c \in Clerks, MarkConfirmed(c) PROVE JournalInv'
<1> USE DEF JournalInv
<1> DEFINE d == clerk[c].draft
           v == clerk[c].review
<1>1. /\ Is(c, "confirmed") /\ d \in DOMAIN drafts /\ v \in Reviews /\ v.draft = {d} /\ clerk[c].thesis \in DOMAIN theses
      /\ DOMAIN drafts' = DOMAIN drafts /\ drafts'[d] = [status |-> "confirmed", review |-> v.id]
      /\ \A e \in DOMAIN drafts : e # d => drafts'[e] = drafts[e]
      /\ acked' = acked \cup {[thesis |-> clerk[c].thesis, review |-> v]}
      /\ clerk' = [clerk EXCEPT ![c] = Idle]
      /\ UNCHANGED <<theses, reviewsMade, overwritten, confirmedAgain>>
  BY DEF MarkConfirmed, Return, Is, JournalOK, JournalTypeOK, ClerkOK, Carries, Confirms
<1>2. clerk'[c] = Idle /\ \A e \in Clerks : e # c => clerk'[e] = clerk[e]
  BY <1>1 DEF JournalOK, JournalTypeOK
<1>3. Seen' \subseteq Seen
  BY <1>1, <1>2 DEF Seen, Copies, Idle
<1>4. JournalOK'
  <2>1. JournalTypeOK' BY <1>1 DEF JournalOK, JournalTypeOK, Reviews
  <2>2. \A e \in Clerks : ClerkOK(e)'
    BY <1>1, <1>2 DEF JournalOK, ClerkOK, Copies, Carries, Confirms, Idle
  <2> QED BY <1>1, <2>1, <2>2 DEF JournalOK
<1>5. AnswersKept'
  BY <1>1, <1>2 DEF AnswersKept, JournalKept, Idle, Is
<1>6. IdsApart'
  BY <1>1, <1>2, <1>3 DEF IdsApart, Unwritten, Carries, Idle
<1>7. Alone'
  <2>1. \A e \in Clerks : Confirms(e)' => e # c /\ clerk'[e] = clerk[e] /\ Confirms(e)
    BY <1>2 DEF Confirms, Idle
  <2>2. ASSUME NEW e \in Clerks, e # c, Confirms(e), clerk[e].draft \notin confirmedAgain
        PROVE  clerk[e].draft # d /\ clerk[e].draft \in DOMAIN drafts
    BY <1>1, <2>2 DEF Alone, Confirming, Is, JournalOK, ClerkOK
  <2>3. \A o \in Clerks : \A x : Confirming(o, x)' => Confirming(o, x)
    BY <1>2 DEF Confirming, Idle
  <2> QED BY <1>1, <2>1, <2>2, <2>3 DEF Alone
<1>8. Counted'
  <2>1. ASSUME NEW r \in Seen, NEW x \in r.draft, x \notin confirmedAgain, Counts(r, x), x \in DOMAIN drafts
        PROVE  Counts(r, x)'
    <3>1. CASE x = d
      <4>1. Confirms(c) /\ ~(\E o \in Clerks \ {c} : Confirming(o, x)) /\ drafts[x].status = "draft"
        BY <1>1, <2>1, <3>1 DEF Alone, Is, Confirms
      <4>2. v = r BY <2>1, <4>1 DEF Counts
      <4> QED BY <1>1, <3>1, <4>2 DEF Counts
    <3>2. CASE x # d
      <4>1. \A o \in Clerks : Confirming(o, x) => Confirming(o, x)' /\ clerk'[o] = clerk[o]
        BY <1>2, <3>2 DEF Confirming
      <4> QED BY <1>1, <2>1, <3>2, <4>1 DEF Counts
    <3> QED BY <3>1, <3>2
  <2> QED BY <1>1, <1>3, <2>1 DEF Counted
<1> QED BY <1>4, <1>5, <1>6, <1>7, <1>8

\* An empty database.
LEMMA JournalInitInv == JournalInit => JournalInv
  BY ReviewsAssumption DEF JournalInit, JournalInv, JournalOK, JournalTypeOK, ClerkOK, AnswersKept, IdsApart, Alone,
     Counted, Seen, Copies, Carries, Unwritten, Confirms, Idle

\* One action per step of a request.
LEMMA JournalNextInv == JournalInv /\ [JournalNext]_journalVars => JournalInv'
<1> SUFFICES ASSUME JournalInv, [JournalNext]_journalVars PROVE JournalInv'
  OBVIOUS
<1> USE DEF JournalInv
<1>t. JournalTypeOK /\ \A c \in Clerks : ClerkOK(c)
  BY DEF JournalOK
<1>1. CASE UNCHANGED journalVars
  BY <1>1 DEF journalVars, JournalOK, JournalTypeOK, ClerkOK, AnswersKept, JournalKept, IdsApart, Alone, Counted, Counts, Confirming,
     Seen, Copies, Carries, Unwritten, Confirms
<1>2. ASSUME NEW c \in Clerks, NEW t \in Theses, PostThesis(c, t) PROVE JournalInv'
  <2>1. PICK body : body \in ThesisRows /\ body.reviews \subseteq Seen /\ SaveThesis(t, body, body)
    <3>1. PICK s \in ThesisStatuses : SaveThesis(t, [status |-> s, reviews |-> {}], [status |-> s, reviews |-> {}])
      BY <1>2 DEF PostThesis
    <3>2. [status |-> s, reviews |-> {}] \in ThesisRows BY DEF ThesisRows
    <3> QED BY <3>1, <3>2
  <2>2. UNCHANGED <<drafts, reviewsMade, acked, confirmedAgain>> BY <1>2 DEF PostThesis
  <2>3. clerk' = clerk \/ (Return(c) /\ ~Carries(c)) BY <1>2 DEF PostThesis
  <2> QED BY <2>1, <2>2, <2>3, WriteKeepsInv
<1>3. ASSUME NEW c \in Clerks, EditThesis(c) PROVE JournalInv'
  <2>1. PICK s \in ThesisStatuses :
           SaveThesis(clerk[c].thesis, clerk[c].copy, [clerk[c].copy EXCEPT !.status = s])
    BY <1>3 DEF EditThesis
  <2> DEFINE row == [clerk[c].copy EXCEPT !.status = s]
             copy == clerk[c].copy
             t == clerk[c].thesis
  <2>2. t \in Theses /\ copy \in ThesisRows /\ row \in ThesisRows /\ row.reviews = copy.reviews /\ copy.reviews \subseteq Seen
    BY <1>3, <1>t, RowsSeen DEF EditThesis, Is, ClerkOK, Copies, ThesisRows, JournalTypeOK
  <2>3. SaveThesis(t, copy, row) BY <2>1
  <2>4. Return(c) /\ ~Carries(c) /\ UNCHANGED <<drafts, reviewsMade, acked, confirmedAgain>>
    BY <1>3 DEF EditThesis, Is, Carries
  <2> HIDE DEF row, copy, t
  <2> QED BY <2>2, <2>3, <2>4, WriteKeepsInv
<1>4. ASSUME NEW c \in Clerks, NEW t \in Theses, ReadThesis(c, t) PROVE JournalInv'
  <2>1. /\ clerk' = [clerk EXCEPT ![c] = [stage |-> "edit", thesis |-> t, copy |-> theses[t]]] /\ t \in DOMAIN theses
        /\ Is(c, "idle") /\ UNCHANGED <<theses, drafts, reviewsMade, acked, overwritten, confirmedAgain>>
    BY <1>4 DEF ReadThesis, Goto
  <2>2. clerk'[c] = [stage |-> "edit", thesis |-> t, copy |-> theses[t]] /\ \A e \in Clerks : e # c => clerk'[e] = clerk[e]
    BY <2>1, <1>t DEF JournalTypeOK
  <2>3. JournalTypeOK' /\ theses[t] \in ThesisRows /\ theses[t].reviews \subseteq Seen
    BY <2>1, <1>t, RowsSeen DEF JournalTypeOK
  <2>4. ClerkOK(c)' /\ ~Carries(c)' /\ ~Confirms(c)'
    BY <2>1, <2>2, <2>3 DEF ClerkOK, Copies, Carries, Confirms
  <2>5. reviewsMade <= reviewsMade' BY <2>1, <1>t DEF JournalTypeOK
  <2> QED BY <2>1, <2>2, <2>3, <2>4, <2>5, MoveKeepsInv DEF Is
<1>5. ASSUME NEW c \in Clerks, NEW t \in Theses, BeginReview(c, t) PROVE JournalInv'
  <2>1. PICK o \in Outcomes :
           clerk' = [clerk EXCEPT ![c] = [stage |-> "review", thesis |-> t, copy |-> theses[t],
                        review |-> [id |-> reviewsMade + 1, outcome |-> o, draft |-> {}]]]
    BY <1>5 DEF BeginReview, Goto
  <2>2. /\ Is(c, "idle") /\ t \in DOMAIN theses /\ reviewsMade' = reviewsMade + 1 /\ reviewsMade < MaxReviews
        /\ UNCHANGED <<theses, drafts, acked, overwritten, confirmedAgain>>
    BY <1>5 DEF BeginReview
  <2>3. /\ clerk'[c] = [stage |-> "review", thesis |-> t, copy |-> theses[t],
                        review |-> [id |-> reviewsMade + 1, outcome |-> o, draft |-> {}]]
        /\ \A e \in Clerks : e # c => clerk'[e] = clerk[e]
    BY <2>1, <1>t DEF JournalTypeOK
  <2>4. /\ JournalTypeOK' /\ theses[t] \in ThesisRows /\ theses[t].reviews \subseteq Seen /\ reviewsMade \in Nat
        /\ reviewsMade + 1 \in 1..MaxReviews
    BY <2>1, <2>2, <1>t, RowsSeen, ReviewsAssumption DEF JournalTypeOK
  <2>5. ClerkOK(c)' /\ ~Confirms(c)' /\ clerk'[c].review.id = reviewsMade + 1
    BY <2>2, <2>3, <2>4 DEF ClerkOK, Copies, Carries, Confirms, Reviews
  <2>6. reviewsMade <= reviewsMade' BY <2>2, <2>4
  <2>7. clerk'[c].copy.reviews \subseteq Seen /\ clerk'[c].stage # "confirmed" /\ clerk[c].stage # "confirmed"
    BY <2>2, <2>3, <2>4 DEF Is
  <2> QED BY <2>2, <2>3, <2>4, <2>5, <2>6, <2>7, MoveKeepsInv
<1>6. ASSUME NEW c \in Clerks, AddReview(c) PROVE JournalInv'
  <2>1. PICK w : w = clerk[c] OBVIOUS
  <2> QED BY <1>6, <2>1, ReviewKeepsInv DEF AddReview, Is
<1>7. ASSUME NEW c \in Clerks, ReviewOfConfirm(c) PROVE JournalInv'
  <2>1. PICK w : w = clerk[c] OBVIOUS
  <2> QED BY <1>7, <2>1, ReviewKeepsInv DEF ReviewOfConfirm, Is
<1>8. ASSUME NEW c \in Clerks, NEW t \in Theses, NEW p \in Periods, DraftFor(c, t, p) PROVE JournalInv'
  <2>1. CASE UNCHANGED clerk
    BY <1>1, <1>8, <2>1 DEF DraftFor, journalVars
  <2>2. CASE clerk' = [clerk EXCEPT ![c] = [stage |-> "draft", draft |-> <<t, p>>]]
    <3>1. /\ clerk'[c] = [stage |-> "draft", draft |-> <<t, p>>] /\ \A e \in Clerks : e # c => clerk'[e] = clerk[e]
          /\ Is(c, "idle") /\ t \in DOMAIN theses
          /\ UNCHANGED <<theses, drafts, reviewsMade, acked, overwritten, confirmedAgain>>
      BY <1>8, <2>2, <1>t DEF JournalTypeOK, DraftFor
    <3>2. JournalTypeOK' /\ reviewsMade <= reviewsMade' BY <1>t, <2>2, <3>1 DEF JournalTypeOK
    <3>3. ClerkOK(c)' /\ ~Carries(c)' /\ ~Confirms(c)' /\ ~Copies(c)'
      BY <3>1 DEF ClerkOK, Copies, Carries, Confirms, Drafts
    <3> QED BY <3>1, <3>2, <3>3, MoveKeepsInv DEF Is
  <2> QED BY <1>8, <2>1, <2>2 DEF DraftFor, Goto
<1>9. ASSUME NEW c \in Clerks, SaveDraft(c) PROVE JournalInv'
  BY <1>9, DraftKeepsInv
<1>10. ASSUME NEW c \in Clerks, NEW d \in DOMAIN drafts, BeginConfirm(c, d) PROVE JournalInv'
  <2>1. CASE drafts[d].status = "confirmed"
    BY <1>1, <1>10, <2>1 DEF BeginConfirm, journalVars
  <2>2. CASE drafts[d].status # "confirmed"
    <3>1. PICK o \in Outcomes :
             clerk' = [clerk EXCEPT ![c] = [stage |-> "confirm", thesis |-> d[1], draft |-> d,
                          review |-> [id |-> reviewsMade + 1, outcome |-> o, draft |-> {d}]]]
      BY <1>10, <2>2 DEF BeginConfirm, Goto
    <3>2. /\ Is(c, "idle") /\ reviewsMade' = reviewsMade + 1 /\ reviewsMade < MaxReviews
          /\ confirmedAgain' = confirmedAgain \cup {e \in {d} : \E x \in Clerks : Confirming(x, e)}
          /\ UNCHANGED <<theses, drafts, acked, overwritten>>
      BY <1>10, <2>2 DEF BeginConfirm
    <3>3. /\ clerk'[c] = [stage |-> "confirm", thesis |-> d[1], draft |-> d,
                          review |-> [id |-> reviewsMade + 1, outcome |-> o, draft |-> {d}]]
          /\ \A e \in Clerks : e # c => clerk'[e] = clerk[e]
      BY <3>1, <1>t DEF JournalTypeOK
    <3>4. /\ JournalTypeOK' /\ d \in Drafts /\ d[1] \in DOMAIN theses /\ reviewsMade \in Nat
          /\ reviewsMade + 1 \in 1..MaxReviews /\ drafts[d].status = "draft"
      BY <3>1, <3>2, <2>2, <1>t, ReviewsAssumption DEF JournalTypeOK, JournalOK
    <3>5. ClerkOK(c)' /\ ~Copies(c)' /\ clerk'[c].review.id = reviewsMade + 1 /\ clerk'[c].draft = d
      BY <3>2, <3>3, <3>4 DEF ClerkOK, Copies, Carries, Confirms, Reviews
    <3>6. reviewsMade <= reviewsMade' /\ confirmedAgain \subseteq confirmedAgain' BY <3>2, <3>4
    <3>7. clerk'[c].stage # "confirmed" /\ clerk[c].stage # "confirmed"
      BY <3>2, <3>3 DEF Is
    <3>8. d \notin confirmedAgain' => \A e \in Clerks : ~Confirming(e, d)
      BY <3>2
    <3>9. \A e \in Clerks : Confirming(e, d) => d \in confirmedAgain' BY <3>2
    <3> QED BY <3>2, <3>3, <3>4, <3>5, <3>6, <3>7, <3>8, <3>9, MoveKeepsInv
  <2> QED BY <2>1, <2>2
<1>11. ASSUME NEW c \in Clerks, ReadForConfirm(c) PROVE JournalInv'
  <2>1. PICK w : w = clerk[c] OBVIOUS
  <2>2. /\ Is(c, "confirm") /\ UNCHANGED <<theses, drafts, reviewsMade, acked, overwritten, confirmedAgain>>
        /\ clerk' = [clerk EXCEPT ![c] = [stage |-> "reviewConfirm", thesis |-> w.thesis, draft |-> w.draft,
                                          review |-> w.review, copy |-> theses[w.thesis]]]
    BY <1>11, <2>1 DEF ReadForConfirm, Goto
  <2>3. /\ clerk'[c] = [stage |-> "reviewConfirm", thesis |-> w.thesis, draft |-> w.draft,
                        review |-> w.review, copy |-> theses[w.thesis]]
        /\ \A e \in Clerks : e # c => clerk'[e] = clerk[e]
    BY <2>2, <1>t DEF JournalTypeOK
  <2>4. /\ JournalTypeOK' /\ w.thesis \in DOMAIN theses /\ theses[w.thesis] \in ThesisRows
        /\ theses[w.thesis].reviews \subseteq Seen /\ Unwritten(c) /\ Confirms(c) /\ ClerkOK(c) /\ Carries(c)
    BY <2>1, <2>2, <1>t, RowsSeen DEF JournalTypeOK, ClerkOK, Is, Carries, Unwritten, Confirms
  <2>5. ClerkOK(c)'
    BY <2>1, <2>2, <2>3, <2>4 DEF ClerkOK, Copies, Carries, Confirms
  <2>6. reviewsMade <= reviewsMade' /\ Confirming(c, w.draft) BY <2>1, <2>2, <1>t DEF JournalTypeOK, Confirming, Is
  <2> QED BY <2>1, <2>2, <2>3, <2>4, <2>5, <2>6, MoveKeepsInv DEF Is
<1>12. ASSUME NEW c \in Clerks, MarkConfirmed(c) PROVE JournalInv'
  BY <1>12, MarkKeepsInv
<1>13. ASSUME NEW c \in Clerks, LoseClerk(c) PROVE JournalInv'
  <2>1. /\ clerk' = [clerk EXCEPT ![c] = Idle] /\ UNCHANGED <<theses, drafts, reviewsMade, acked, overwritten>>
        /\ confirmedAgain' = IF Is(c, "confirmed") THEN confirmedAgain \cup {clerk[c].draft} ELSE confirmedAgain
    BY <1>13 DEF LoseClerk, Return
  <2>2. clerk'[c] = Idle /\ \A e \in Clerks : e # c => clerk'[e] = clerk[e]
    BY <2>1, <1>t DEF JournalTypeOK
  <2>3. JournalTypeOK' /\ reviewsMade <= reviewsMade' /\ confirmedAgain \subseteq confirmedAgain'
    BY <2>1, <1>t DEF JournalTypeOK, ClerkOK, Confirms, Is
  <2>4. ClerkOK(c)' /\ ~Carries(c)' /\ ~Confirms(c)' /\ ~Copies(c)' /\ clerk'[c].stage # "confirmed"
    BY <2>2 DEF ClerkOK, Copies, Carries, Confirms, Idle
  <2> QED BY <2>1, <2>2, <2>3, <2>4, MoveKeepsInv DEF Is
<1> QED BY <1>1, <1>2, <1>3, <1>4, <1>5, <1>6, <1>7, <1>8, <1>9, <1>10, <1>11, <1>12, <1>13 DEF JournalNext

\* The invariant gives both parts of the property.
LEMMA JournalInvSuffices == JournalInv => JournalHolds
<1> SUFFICES ASSUME JournalInv PROVE JournalHolds
  OBVIOUS
<1> USE DEF JournalInv
<1>1. ReviewsKept BY DEF AnswersKept, JournalKept, ReviewsKept
<1>2. OneReviewPerDraft BY RowsSeen DEF Counted, Counts, OneReviewPerDraft
<1> QED BY <1>1, <1>2 DEF JournalHolds

\* Whatever the requests and however they interleave: a review that was
\* answered for stays in its thesis unless a writer of an older copy replaced
\* it, and a draft no two confirmations crossed on gives one review
\* (journal.py: add_review, confirm).
THEOREM JournalSound == JournalSpec => [](JournalTypeOK /\ JournalHolds)
<1>1. JournalInv => JournalTypeOK /\ JournalHolds
  BY JournalInvSuffices DEF JournalInv, JournalOK
<1> QED BY <1>1, JournalInitInv, JournalNextInv, PTL DEF JournalSpec

-----------------------------------------------------------------------------
(* ChangeReviews, for any companies, histories and reviews. A queue is     *)
(* built company by company while others write: what it holds of a company *)
(* is right unless the company was touched meanwhile, which is what the    *)
(* invariant says of the request at every step.                            *)

\* The way back of each direction.
Opposite == [strengthened |-> "weakened", weakened |-> "strengthened", persistent |-> "persistent"]

\* Two changes that say the same of the way there and of the way back.
TurnsBack(c, d) == d.key = c.key /\ d.before = c.after /\ d.after = c.before /\ d.status = Opposite[c.status]

\* A value that moved, and moves back (change_detection.py).
LEMMA ValueTurnsBack ==
    ASSUME NEW a, NEW b, WellTaken(a), WellTaken(b),
           NEW c \in FinancialChanges(a, b), c.before # NoValue
    PROVE  \E d \in FinancialChanges(b, a) : TurnsBack(c, d)
<1>1. PICK before \in a.points, after \in b.points :
        \/ \E p \in LatestPoints(after) :
             c = Changed("financial", <<p.metric, p.kind>>, "new", "unknown", NoValue, PointValue(p), {}, p.sources)
        \/ \E p \in LatestPoints(before), q \in LatestPoints(after) :
             p.metric = q.metric /\ p.kind = q.kind /\ p.value # q.value /\ c = FinancialPair(p, q)
  BY DEF FinancialChanges
<1>2. PICK p \in LatestPoints(before), q \in LatestPoints(after) :
        p.metric = q.metric /\ p.kind = q.kind /\ p.value # q.value /\ c = FinancialPair(p, q)
  BY <1>1 DEF Changed
<1>3. p.value \in Int /\ q.value \in Int BY DEF LatestPoints, WellTaken
<1>4. FinancialPair(q, p) \in FinancialChanges(b, a)
  <2>1. FinancialPair(q, p) \in
          {FinancialPair(pair[1], pair[2]) :
             pair \in {both \in LatestPoints(after) \X LatestPoints(before) :
                         (both[1].metric = both[2].metric /\ both[1].kind = both[2].kind) /\ both[1].value # both[2].value}}
    <3>1. <<q, p>> \in LatestPoints(after) \X LatestPoints(before) OBVIOUS
    <3> QED BY <1>2, <3>1
  <2> QED BY <2>1 DEF FinancialChanges
<1>5. TurnsBack(c, FinancialPair(q, p))
  BY <1>2, <1>3 DEF TurnsBack, FinancialPair, Changed, Opposite
<1> QED BY <1>4, <1>5

\* A tone is as far from another as that is from it.
LEMMA ToneTurnsBack ==
    ASSUME NEW x, NEW y
    PROVE  /\ ToneDirection(x, y) \in {"strengthened", "weakened", "persistent"}
           /\ ToneDirection(y, x) = Opposite[ToneDirection(x, y)]
<1> DEFINE score == [negative |-> 1, neutral |-> 2, positive |-> 3]
<1>1. CASE ~({x, y} \subseteq DOMAIN score)
  BY <1>1 DEF ToneDirection, Opposite
<1>2. CASE {x, y} \subseteq DOMAIN score
  <2>1. x \in {"negative", "neutral", "positive"} /\ y \in {"negative", "neutral", "positive"} BY <1>2
  <2>2. score[x] \in 1..3 /\ score[y] \in 1..3 BY <2>1
  <2>3. CASE score[y] > score[x] BY <1>2, <2>2, <2>3 DEF ToneDirection, Opposite
  <2>4. CASE score[y] < score[x] BY <1>2, <2>2, <2>4 DEF ToneDirection, Opposite
  <2>5. CASE score[y] = score[x] BY <1>2, <2>2, <2>5 DEF ToneDirection, Opposite
  <2> QED BY <2>2, <2>3, <2>4, <2>5
<1> QED BY <1>1, <1>2

\* The category of a signal is one of two, and its materiality one of four.
LEMMA SignalFacts ==
    ASSUME NEW d, NEW status, NEW x, NEW y, NEW cites
    PROVE  /\ Signal(d, status, x, y, cites).category \in {"guidance", "management"}
           /\ Signal(d, status, x, y, cites).materiality \in {"high", "medium", "low", "unknown"}
  BY DEF Signal, Changed, EvidenceSafe

\* What a call says turns back when its direction does.
LEMMA SignalTurnsBack ==
    ASSUME NEW d, NEW status, NEW x, NEW y, NEW cites
    PROVE  TurnsBack(Signal(d, status, x, y, cites), Signal(d, Opposite[status], y, x, cites))
  BY DEF TurnsBack, Signal, Changed

\* A tone or a level that moved, and moves back (management_snapshot.py).
LEMMA CallTurnsBack ==
    ASSUME NEW a, NEW b, WellTaken(a), WellTaken(b), NEW c \in ManagementChanges(a, b)
    PROVE  \E d \in ManagementChanges(b, a) : TurnsBack(c, d)
<1>1. PICK old \in a.calls, new \in b.calls : c \in CallChanges(old, new)
  BY DEF ManagementChanges
<1>2. CallChanges(new, old) \subseteq ManagementChanges(b, a)
  BY DEF ManagementChanges
<1>3. new.cites \cup old.cites = old.cites \cup new.cites OBVIOUS
<1>4. CASE c \in ToneChanges(old, new)
  <2>1. PICK d \in Tones : old.tones[d] # new.tones[d] /\
          c = Signal(d, ToneDirection(old.tones[d], new.tones[d]), <<"tone", old.tones[d]>>, <<"tone", new.tones[d]>>, old.cites \cup new.cites)
    BY <1>4 DEF ToneChanges
  <2> DEFINE e == Signal(d, ToneDirection(new.tones[d], old.tones[d]), <<"tone", new.tones[d]>>, <<"tone", old.tones[d]>>, new.cites \cup old.cites)
  <2>2. e \in ToneChanges(new, old) BY <2>1 DEF ToneChanges
  <2>3. TurnsBack(c, e) BY <2>1, <1>3, ToneTurnsBack, SignalTurnsBack
  <2> QED BY <1>2, <2>2, <2>3 DEF CallChanges
<1>5. CASE c \in LevelChanges(old, new)
  <2>1. PICK d \in Levels : LevelMoves(old.levels[d], new.levels[d]) /\
          c = Signal(d, IF new.levels[d] > old.levels[d] THEN "strengthened" ELSE "weakened",
                     <<"level", old.levels[d]>>, <<"level", new.levels[d]>>, old.cites \cup new.cites)
    BY <1>5 DEF LevelChanges
  <2> DEFINE e == Signal(d, IF old.levels[d] > new.levels[d] THEN "strengthened" ELSE "weakened",
                     <<"level", new.levels[d]>>, <<"level", old.levels[d]>>, new.cites \cup old.cites)
  <2>2. old.levels[d] \in Int /\ new.levels[d] \in Int BY DEF WellTaken
  <2>3. LevelMoves(new.levels[d], old.levels[d]) /\ old.levels[d] # new.levels[d] BY <2>1, <2>2 DEF LevelMoves
  <2>4. e \in LevelChanges(new, old) BY <2>3 DEF LevelChanges
  <2>5. (IF old.levels[d] > new.levels[d] THEN "strengthened" ELSE "weakened")
          = Opposite[IF new.levels[d] > old.levels[d] THEN "strengthened" ELSE "weakened"]
    BY <2>2, <2>3 DEF Opposite
  <2>6. TurnsBack(c, e) BY <2>1, <1>3, <2>5, SignalTurnsBack
  <2> QED BY <1>2, <2>4, <2>6 DEF CallChanges
<1>6. CASE c \in TopicChanges(old, new)
  <2>1. PICK d \in DOMAIN old.topics \cap DOMAIN new.topics : old.topics[d] # new.topics[d] /\
          c = Signal(d, ToneDirection(old.topics[d], new.topics[d]), <<"topic", old.topics[d]>>, <<"topic", new.topics[d]>>, old.cites \cup new.cites)
    BY <1>6 DEF TopicChanges
  <2> DEFINE e == Signal(d, ToneDirection(new.topics[d], old.topics[d]), <<"topic", new.topics[d]>>, <<"topic", old.topics[d]>>, new.cites \cup old.cites)
  <2>2. e \in TopicChanges(new, old) BY <2>1 DEF TopicChanges
  <2>3. TurnsBack(c, e) BY <2>1, <1>3, ToneTurnsBack, SignalTurnsBack
  <2> QED BY <1>2, <2>2, <2>3 DEF CallChanges
<1> QED BY <1>1, <1>4, <1>5, <1>6 DEF CallChanges

\* All that calls are compared by are signals.
LEMMA CallChangesAreSignals ==
    ASSUME NEW a, NEW b, NEW c \in ManagementChanges(a, b)
    PROVE  c.category \in {"guidance", "management"} /\ c.materiality \in {"high", "medium", "low", "unknown"}
<1>1. PICK old \in a.calls, new \in b.calls : c \in CallChanges(old, new)
  BY DEF ManagementChanges
<1>2. \E d, status, x, y, cites : c = Signal(d, status, x, y, cites)
  <2>1. CASE c \in ToneChanges(old, new) BY <2>1 DEF ToneChanges
  <2>2. CASE c \in LevelChanges(old, new) BY <2>2 DEF LevelChanges
  <2>3. CASE c \in TopicChanges(old, new) BY <2>3 DEF TopicChanges
  <2> QED BY <1>1, <2>1, <2>2, <2>3 DEF CallChanges
<1> QED BY <1>2, SignalFacts

\* Changes of the other sorts say so.
LEMMA OtherCategories ==
    ASSUME NEW a, NEW b
    PROVE  /\ \A c \in FinancialChanges(a, b) : c.category = "financial"
           /\ \A c \in ManagementChanges(a, b) : c.category \in {"guidance", "management"}
           /\ \A c \in RiskChanges(a, b) : c.category = "risk"
           /\ \A c \in EvidenceChanges(a, b) : c.category = "evidence"
           /\ \A c \in ConflictChanges(a, b) : c.category = "evidence" /\ c.key # <<"source_coverage">>
<1>1. \A c \in FinancialChanges(a, b) : c.category = "financial" BY DEF FinancialChanges, FinancialPair, Changed
<1>2. \A c \in ManagementChanges(a, b) : c.category \in {"guidance", "management"} BY CallChangesAreSignals
<1>3. \A c \in RiskChanges(a, b) : c.category = "risk" BY DEF RiskChanges, Changed
<1>4. \A c \in EvidenceChanges(a, b) : c.category = "evidence" BY DEF EvidenceChanges, Changed
<1>5. \A c \in ConflictChanges(a, b) : c.category = "evidence" /\ c.key # <<"source_coverage">> BY DEF ConflictChanges, Changed
<1> QED BY <1>1, <1>2, <1>3, <1>4, <1>5

\* A change has one of four materialities.
LEMMA MaterialityIsKnown ==
    ASSUME NEW a, NEW b, NEW c \in DetectResearchChanges(a, b)
    PROVE  c.materiality \in {"high", "medium", "low", "unknown"}
<1>1. \A x, y : \A m \in {"high", "medium", "low", "unknown"} : EvidenceSafe(m, x, y) \in {"high", "medium", "low", "unknown"}
  BY DEF EvidenceSafe
<1>2. \A x, y : NumericMateriality(x, y) \in {"high", "medium", "low", "unknown"} BY DEF NumericMateriality
<1>3. CASE c \in FinancialChanges(a, b) BY <1>1, <1>2, <1>3 DEF FinancialChanges, FinancialPair, Changed
<1>4. CASE c \in ManagementChanges(a, b)  BY <1>4, CallChangesAreSignals
<1>5. CASE c \in RiskChanges(a, b) BY <1>5 DEF RiskChanges, Changed
<1>6. CASE c \in EvidenceChanges(a, b) BY <1>6 DEF EvidenceChanges, Changed
<1>7. CASE c \in ConflictChanges(a, b) BY <1>7 DEF ConflictChanges, Changed
<1> QED BY <1>3, <1>4, <1>5, <1>6, <1>7 DEF DetectResearchChanges

\* What failed to load changed nothing.
LEMMA FailureChangesNothing ==
    ASSUME NEW a, NEW b, WellTaken(b)
    PROVE  /\ "risks" \in ComparisonWarnings(a, b) => RiskChanges(a, b) = {}
           /\ "financials" \in ComparisonWarnings(a, b) => FinancialChanges(a, b) = {}
           /\ ComparisonWarnings(a, b) # {} => EvidenceChanges(a, b) = {}
<1>1. "risks" \in ComparisonWarnings(a, b) => RiskChanges(a, b) = {}
  BY DEF ComparisonWarnings, RiskChanges, ComponentComparable
<1>2. "financials" \in ComparisonWarnings(a, b) => FinancialChanges(a, b) = {}
  <2>1. "financials" \in ComparisonWarnings(a, b) => b.points = {} BY DEF ComparisonWarnings, WellTaken
  <2> QED BY <2>1 DEF FinancialChanges
<1>3. ComparisonWarnings(a, b) # {} => EvidenceChanges(a, b) = {}
  BY DEF ComparisonWarnings, EvidenceChanges
<1> QED BY <1>1, <1>2, <1>3
-----------------------------------------------------------------------------

\* A change set is as the last snapshots and the reviews say, unless its company was touched.
RightSet(t, set, touched) == t \notin touched => set = ApplyReviews(LatestRows(t))
RowsStored(set) == \A x \in set : x.row \in stored

\* Snapshots are added at the end of a history, and were taken well.
Histories ==
    /\ DOMAIN history = Watched
    /\ \A t \in Watched : history[t] \in Seq(ToSet(history[t])) /\ \A s \in ToSet(history[t]) : WellTaken(s)

\* What a request has found so far is right, and it is stored before it is shown.
RequestOK ==
    /\ request.stage = "idle" => request = NoReader
    /\ request.stage # "idle" =>
        /\ request.stage \in {"read", "save", "apply"}
        /\ DOMAIN request = {"stage", "mode", "asked", "sets", "found", "touched"}
        /\ request.mode \in {"queue", "list"}
        /\ request.mode = "queue" => request.asked = Companies
        /\ request.asked \in Seq(Watched)
        /\ request.sets \in Seq(ToSet(request.sets)) /\ Len(request.sets) <= Len(request.asked)
        /\ \A i \in 1..Len(request.sets) :
            RightSet(request.asked[i], request.sets[i], request.touched) /\ RowsStored(request.sets[i])
        /\ request.stage # "read" =>
            /\ Len(request.sets) < Len(request.asked)
            /\ Current \notin request.touched => request.found = LatestRows(Current)
        /\ request.stage = "apply" => request.found \subseteq stored

\* So is what was answered, until a snapshot or a review comes.
AnswerOK ==
    /\ \A i \in DOMAIN answer.sets : RowsStored(answer.sets[i])
    /\ answer.mode # "queue" => answer.entries = <<>>
    /\ answer.mode = "queue" =>
        /\ answer.sets \in Seq(ToSet(answer.sets)) /\ Len(answer.sets) = Len(Companies)
        /\ answer.entries = BuildResearchQueue(answer.sets)
        /\ \A i \in 1..Len(Companies) : RightSet(Companies[i], answer.sets[i], answer.touched)

\* The invariant of the requests.
ReviewInv == Histories /\ RequestOK /\ AnswerOK

\* The companies of a queue.
LEMMA WatchedCompanies == Companies \in Seq(Watched) /\ DOMAIN Companies = 1..Len(Companies)
  BY SnapshotsAssumption DEF Watched

\* No answer promises nothing.
LEMMA NothingAnswered == answer' = NoAnswer => AnswerOK'
  BY DEF NoAnswer, AnswerOK

\* Histories to begin with, and no request.
LEMMA ReviewInitInv == ReviewInit => ReviewInv
<1> SUFFICES ASSUME ReviewInit PROVE ReviewInv
  OBVIOUS
<1>1. Histories BY SnapshotsAssumption DEF ReviewInit, Histories
<1>2. RequestOK BY DEF ReviewInit, RequestOK, NoReader
<1>3. AnswerOK BY DEF ReviewInit, AnswerOK, NoAnswer
<1> QED BY <1>1, <1>2, <1>3 DEF ReviewInv

\* Rows of a company that was not touched do not change.
LEMMA RowsUnchanged ==
    ASSUME NEW t, history'[t] = history[t],
           \A r \in LatestRows(t) : ReviewOf(r)' = ReviewOf(r)
    PROVE  LatestRows(t)' = LatestRows(t) /\ ApplyReviews(LatestRows(t))' = ApplyReviews(LatestRows(t))
<1>1. LatestRows(t)' = LatestRows(t) BY DEF LatestRows
<1> HIDE DEF LatestRows
<1>2. ApplyReviews(LatestRows(t))' = {[row |-> r, review |-> ReviewOf(r)'] : r \in LatestRows(t)'} BY DEF ApplyReviews
<1>3. ApplyReviews(LatestRows(t)) = {[row |-> r, review |-> ReviewOf(r)] : r \in LatestRows(t)} BY DEF ApplyReviews
<1> QED BY <1>1, <1>2, <1>3

\* While nobody writes snapshots or reviews, rows stay.
LEMMA AllRowsUnchanged ==
    ASSUME UNCHANGED <<history, reviews>>
    PROVE  \A t : LatestRows(t)' = LatestRows(t) /\ ApplyReviews(LatestRows(t))' = ApplyReviews(LatestRows(t))
  BY RowsUnchanged DEF ReviewOf

\* What a change of other companies, or of the snapshots of this one, touches.
LEMMA TouchKeeps ==
    ASSUME ReviewInv, NEW ticker, Touched(ticker), answer' = NoAnswer, stored' = stored, Histories',
           \A t : t # ticker => LatestRows(t)' = LatestRows(t) /\ ApplyReviews(LatestRows(t))' = ApplyReviews(LatestRows(t))
    PROVE  ReviewInv'
<1>1. AnswerOK' BY NothingAnswered
<1>2. CASE request.stage = "idle"
  BY <1>1, <1>2 DEF Touched, RequestOK, NoReader, ReviewInv
<1>3. CASE request.stage # "idle"
  <2>1. /\ request.stage \in {"read", "save", "apply"}
        /\ DOMAIN request = {"stage", "mode", "asked", "sets", "found", "touched"}
        /\ request.mode \in {"queue", "list"} /\ (request.mode = "queue" => request.asked = Companies)
        /\ request.asked \in Seq(Watched)
        /\ request.sets \in Seq(ToSet(request.sets)) /\ Len(request.sets) <= Len(request.asked)
        /\ (request.stage # "read" => Len(request.sets) < Len(request.asked))
        /\ (request.stage = "apply" => request.found \subseteq stored)
    BY <1>3 DEF ReviewInv, RequestOK
  <2>2. /\ \A i \in 1..Len(request.sets) : RightSet(request.asked[i], request.sets[i], request.touched) /\ RowsStored(request.sets[i])
        /\ request.stage # "read" => (Current \notin request.touched => request.found = LatestRows(Current))
    BY <1>3 DEF ReviewInv, RequestOK
  <2>3. request' = [request EXCEPT !.touched = @ \cup {ticker}] BY <1>3 DEF Touched
  <2>4. /\ DOMAIN request' = {"stage", "mode", "asked", "sets", "found", "touched"}
        /\ request'.stage = request.stage /\ request'.mode = request.mode /\ request'.asked = request.asked
        /\ request'.sets = request.sets /\ request'.found = request.found
        /\ request'.touched = request.touched \cup {ticker}
    BY <2>1, <2>3
  <2>5. Current' = Current BY <2>4 DEF Current
  <2>6. \A i \in 1..Len(request.sets) :
          RightSet(request.asked[i], request.sets[i], request.touched \cup {ticker})' /\ RowsStored(request.sets[i])'
    <3> SUFFICES ASSUME NEW i \in 1..Len(request.sets)
                 PROVE  RightSet(request.asked[i], request.sets[i], request.touched \cup {ticker})' /\ RowsStored(request.sets[i])'
      OBVIOUS
    <3> QED BY <2>2, <2>4 DEF RightSet, RowsStored
  <2>7. request.stage # "read" => (Current' \notin request'.touched => request'.found = LatestRows(Current)')
    BY <2>2, <2>4, <2>5
  <2> QED BY <1>1, <2>1, <2>4, <2>6, <2>7 DEF ReviewInv, RequestOK
<1> QED BY <1>2, <1>3

\* A step of the request itself: who is asked for, and the company it is at, stay.
LEMMA RequestKeeps ==
    ASSUME ReviewInv, UNCHANGED <<history, reviews>>, stored \subseteq stored', RequestOK', AnswerOK'
    PROVE  ReviewInv'
  BY DEF ReviewInv, Histories

\* and so do the change sets that were read from them.
LEMMA SetsStay ==
    ASSUME UNCHANGED <<history, reviews>>, stored \subseteq stored', NEW t, NEW set, NEW touched
    PROVE  /\ RightSet(t, set, touched) => (RightSet(t, set, touched))'
           /\ RowsStored(set) => RowsStored(set)'
<1>1. RightSet(t, set, touched) => (RightSet(t, set, touched))' BY AllRowsUnchanged DEF RightSet
<1>2. RowsStored(set) => RowsStored(set)' BY DEF RowsStored
<1> QED BY <1>1, <1>2

\* An answer stays right for as long.
LEMMA AnswerStays ==
    ASSUME AnswerOK, UNCHANGED <<history, reviews, answer>>, stored \subseteq stored'
    PROVE  AnswerOK'
<1>1. /\ \A i \in DOMAIN answer.sets : RowsStored(answer.sets[i])'
      /\ answer.mode = "queue" => \A i \in 1..Len(Companies) : RightSet(Companies[i], answer.sets[i], answer.touched)'
  <2>1. \A i \in DOMAIN answer.sets : RowsStored(answer.sets[i])' BY SetsStay DEF AnswerOK
  <2>2. ASSUME answer.mode = "queue", NEW i \in 1..Len(Companies)
        PROVE  RightSet(Companies[i], answer.sets[i], answer.touched)'
    <3>1. RightSet(Companies[i], answer.sets[i], answer.touched) BY <2>2 DEF AnswerOK
    <3> QED BY <3>1, SetsStay DEF RightSet
  <2> QED BY <2>1, <2>2
<1> QED BY <1>1 DEF AnswerOK

\* A request begins with nothing.
LEMMA AskKeeps == ASSUME ReviewInv, NEW mode \in {"queue", "list"}, NEW asked \in Seq(Watched),
                         mode = "queue" => asked = Companies, Ask(mode, asked) PROVE ReviewInv'
<1>1. /\ DOMAIN request' = {"stage", "mode", "asked", "sets", "found", "touched"}
      /\ request'.stage = "read" /\ request'.mode = mode /\ request'.asked = asked
      /\ request'.sets = <<>> /\ UNCHANGED <<history, stored, reviews, answer>>
  BY DEF Ask
<1>2. RequestOK'
  <2>1. <<>> \in Seq(ToSet(<<>>)) /\ Len(<<>>) = 0 /\ Len(asked) \in Nat /\ 1..0 = {} OBVIOUS
  <2> QED BY <1>1, <2>1 DEF RequestOK
<1>3. AnswerOK' BY <1>1, AnswerStays DEF ReviewInv
<1> QED BY <1>1, <1>2, <1>3, RequestKeeps

\* One more set.
LEMMA SetsAppended ==
    ASSUME ReviewInv, request.stage # "idle", NEW set, Len(request.sets) < Len(request.asked),
           UNCHANGED <<history, stored, reviews, answer>>,
           RightSet(Current, set, request.touched), RowsStored(set),
           DOMAIN request' = {"stage", "mode", "asked", "sets", "found", "touched"},
           request'.stage = "read", request'.mode = request.mode, request'.asked = request.asked,
           request'.touched = request.touched, request'.sets = Append(request.sets, set)
    PROVE  ReviewInv'
<1>1. PICK old, new, asked, touched :
        old = request.sets /\ new = Append(old, set) /\ asked = request.asked /\ touched = request.touched
  OBVIOUS
<1>2. /\ request.mode \in {"queue", "list"} /\ (request.mode = "queue" => asked = Companies)
      /\ asked \in Seq(Watched) /\ old \in Seq(ToSet(old)) /\ Len(old) < Len(asked)
      /\ \A i \in 1..Len(old) : RightSet(asked[i], old[i], touched) /\ RowsStored(old[i])
  BY <1>1 DEF ReviewInv, RequestOK
<1>3. /\ new \in Seq(ToSet(old) \cup {set}) /\ Len(old) \in Nat /\ Len(new) = Len(old) + 1 /\ new[Len(old) + 1] = set
      /\ \A i \in 1..Len(old) : new[i] = old[i]
  <2>1. old \in Seq(ToSet(old) \cup {set}) BY <1>2, SeqMonotonic
  <2> QED BY <1>1, <2>1, Appended
<1>4. RightSet(asked[Len(old) + 1], set, touched) BY <1>1 DEF Current
<1>5. new \in Seq(ToSet(new))
  <2>1. \A i \in 1..Len(new) : new[i] \in ToSet(new) BY <1>3 DEF ToSet
  <2> QED BY <1>3, <2>1, SeqOfElements
<1>6. ASSUME NEW i \in 1..Len(new)
      PROVE  (RightSet(asked[i], new[i], touched))' /\ RowsStored(new[i])'
  <2>1. RightSet(asked[i], new[i], touched) /\ RowsStored(new[i])
    <3>1. CASE i = Len(old) + 1 BY <1>3, <1>4, <3>1
    <3>2. CASE i # Len(old) + 1
      <4>1. i \in 1..Len(old) BY <1>3, <3>2
      <4> QED BY <1>2, <1>3, <4>1
    <3> QED BY <3>1, <3>2
  <2> QED BY <2>1, SetsStay
<1>7. Len(new) <= Len(asked)
  <2>1. Len(asked) \in Nat BY <1>2
  <2> QED BY <1>2, <1>3, <2>1
<1>8. /\ request'.sets = new /\ request'.asked = asked /\ request'.touched = touched BY <1>1
<1>9. RequestOK' BY <1>2, <1>5, <1>6, <1>7, <1>8 DEF RequestOK
<1>10. AnswerOK' BY AnswerStays DEF ReviewInv
<1> QED BY <1>9, <1>10, RequestKeeps

\* A request for one company.
LEMMA CompanyFacts == ASSUME NEW i \in DOMAIN Companies
                      PROVE  Companies[i] \in Watched /\ <<Companies[i]>> \in Seq(Watched)
<1>1. Companies[i] \in Watched BY WatchedCompanies, ElementOfSeq
<1> QED BY <1>1

\* The two latest snapshots are read, or the company is skipped.
LEMMA ReadSnapshotsKeeps == ASSUME ReviewInv, ReadSnapshots PROVE ReviewInv'
<1>1. request.stage = "read" /\ Len(request.sets) < Len(request.asked) /\ UNCHANGED <<history, stored, reviews, answer>>
  BY DEF ReadSnapshots
<1>2. DOMAIN request = {"stage", "mode", "asked", "sets", "found", "touched"} BY <1>1 DEF ReviewInv, RequestOK
<1>3. AnswerOK' BY <1>1, AnswerStays DEF ReviewInv
<1>4. CASE Compared(history[Current])
  <2>1. request' = [request EXCEPT !.stage = "save", !.found = LatestRows(Current)] BY <1>4 DEF ReadSnapshots
  <2>2. /\ DOMAIN request' = {"stage", "mode", "asked", "sets", "found", "touched"}
        /\ request'.stage = "save" /\ request'.mode = request.mode /\ request'.asked = request.asked
        /\ request'.sets = request.sets /\ request'.found = LatestRows(Current)
        /\ request'.touched = request.touched
    BY <1>2, <2>1
  <2>3. Current' = Current /\ LatestRows(Current)' = LatestRows(Current) BY <1>1, <2>2, AllRowsUnchanged DEF Current
  <2>4. RequestOK'
    <3>1. /\ request.mode \in {"queue", "list"} /\ (request.mode = "queue" => request.asked = Companies)
          /\ request.asked \in Seq(Watched) /\ request.sets \in Seq(ToSet(request.sets))
          /\ \A i \in 1..Len(request.sets) : RightSet(request.asked[i], request.sets[i], request.touched) /\ RowsStored(request.sets[i])
      BY <1>1 DEF ReviewInv, RequestOK
    <3>2. PICK sets, asked, touched : sets = request.sets /\ asked = request.asked /\ touched = request.touched OBVIOUS
    <3>3. \A i \in 1..Len(sets) : (RightSet(asked[i], sets[i], touched))' /\ RowsStored(sets[i])'
      BY <1>1, <3>1, <3>2, SetsStay
    <3>4. request'.sets = sets /\ request'.asked = asked /\ request'.touched = touched BY <2>2, <3>2
    <3>5. Len(sets) < Len(asked) /\ Len(sets) <= Len(asked)
      <4>1. Len(sets) \in Nat /\ Len(asked) \in Nat BY <3>1, <3>2
      <4> QED BY <1>1, <3>2, <4>1
    <3>6. request'.found = LatestRows(Current)' BY <2>2, <2>3
    <3>7. sets \in Seq(ToSet(sets)) /\ asked \in Seq(Watched) /\ request'.mode \in {"queue", "list"}
          /\ (request'.mode = "queue" => asked = Companies) BY <2>2, <3>1, <3>2
    <3> QED BY <2>2, <3>3, <3>4, <3>5, <3>6, <3>7 DEF RequestOK
  <2> QED BY <1>1, <1>3, <2>4, RequestKeeps
<1>5. CASE ~Compared(history[Current]) /\ request.mode = "list"
  <2>1. request' = NoReader BY <1>5 DEF ReadSnapshots
  <2>2. RequestOK' BY <2>1 DEF RequestOK, NoReader
  <2> QED BY <1>1, <1>3, <2>2, RequestKeeps
<1>6. CASE ~Compared(history[Current]) /\ request.mode # "list"
  <2>1. request' = [request EXCEPT !.sets = Append(@, {})] BY <1>6 DEF ReadSnapshots
  <2>2. /\ DOMAIN request' = {"stage", "mode", "asked", "sets", "found", "touched"}
        /\ request'.stage = "read" /\ request'.mode = request.mode /\ request'.asked = request.asked
        /\ request'.sets = Append(request.sets, {}) /\ request'.touched = request.touched
    BY <1>1, <1>2, <2>1
  <2>3. LatestRows(Current) = {} BY <1>6 DEF LatestRows
  <2>4. RightSet(Current, {}, request.touched) /\ RowsStored({}) BY <2>3 DEF RightSet, ApplyReviews, RowsStored
  <2>5. request.stage # "idle" BY <1>1
  <2> QED BY <1>1, <2>2, <2>4, <2>5, SetsAppended
<1> QED BY <1>4, <1>5, <1>6

\* What was found is stored (change_store.py).
LEMMA SaveChangesKeeps == ASSUME ReviewInv, SaveChanges PROVE ReviewInv'
<1>1. /\ request.stage = "save" /\ UNCHANGED <<history, reviews, answer>> /\ stored' = stored \cup request.found
      /\ request' = [request EXCEPT !.stage = "apply"]
  BY DEF SaveChanges
<1>2. /\ DOMAIN request = {"stage", "mode", "asked", "sets", "found", "touched"}
      /\ request.mode \in {"queue", "list"} /\ (request.mode = "queue" => request.asked = Companies)
      /\ request.asked \in Seq(Watched) /\ request.sets \in Seq(ToSet(request.sets))
      /\ Len(request.sets) <= Len(request.asked) /\ Len(request.sets) < Len(request.asked)
      /\ \A i \in 1..Len(request.sets) : RightSet(request.asked[i], request.sets[i], request.touched) /\ RowsStored(request.sets[i])
      /\ Current \notin request.touched => request.found = LatestRows(Current)
  BY <1>1 DEF ReviewInv, RequestOK
<1>3. /\ DOMAIN request' = {"stage", "mode", "asked", "sets", "found", "touched"}
      /\ request'.stage = "apply" /\ request'.mode = request.mode /\ request'.asked = request.asked
      /\ request'.sets = request.sets /\ request'.found = request.found /\ request'.touched = request.touched
  BY <1>1, <1>2
<1>4. Current' = Current /\ LatestRows(Current)' = LatestRows(Current) BY <1>1, <1>3, AllRowsUnchanged DEF Current
<1>5. PICK sets, asked, touched : sets = request.sets /\ asked = request.asked /\ touched = request.touched OBVIOUS
<1>6. \A i \in 1..Len(sets) : (RightSet(asked[i], sets[i], touched))' /\ RowsStored(sets[i])'
  BY <1>1, <1>2, <1>5, SetsStay
<1>7. RequestOK' BY <1>1, <1>2, <1>3, <1>4, <1>5, <1>6 DEF RequestOK
<1>8. AnswerOK' BY <1>1, AnswerStays DEF ReviewInv
<1> QED BY <1>1, <1>7, <1>8, RequestKeeps

\* What was stored is shown with its reviews.
LEMMA ReadReviewsKeeps == ASSUME ReviewInv, ReadReviews PROVE ReviewInv'
<1>1. /\ request.stage = "apply" /\ UNCHANGED <<history, stored, reviews, answer>>
      /\ request' = [request EXCEPT !.stage = "read", !.sets = Append(@, ApplyReviews(request.found)), !.found = {}]
  BY DEF ReadReviews
<1>2. /\ DOMAIN request = {"stage", "mode", "asked", "sets", "found", "touched"}
      /\ Len(request.sets) < Len(request.asked)
      /\ Current \notin request.touched => request.found = LatestRows(Current)
      /\ request.found \subseteq stored
  BY <1>1 DEF ReviewInv, RequestOK
<1>3. /\ DOMAIN request' = {"stage", "mode", "asked", "sets", "found", "touched"}
      /\ request'.stage = "read" /\ request'.mode = request.mode /\ request'.asked = request.asked
      /\ request'.sets = Append(request.sets, ApplyReviews(request.found)) /\ request'.touched = request.touched
  BY <1>1, <1>2
<1>4. RightSet(Current, ApplyReviews(request.found), request.touched) BY <1>2 DEF RightSet
<1>5. RowsStored(ApplyReviews(request.found)) BY <1>2 DEF RowsStored, ApplyReviews
<1>6. request.stage # "idle" BY <1>1
<1> QED BY <1>1, <1>2, <1>3, <1>4, <1>5, <1>6, SetsAppended

\* The answer is what the request has gathered.
LEMMA GiveAnswerKeeps == ASSUME ReviewInv, GiveAnswer PROVE ReviewInv'
<1>1. /\ request.stage = "read" /\ Len(request.sets) = Len(request.asked) /\ request' = NoReader
      /\ UNCHANGED <<history, stored, reviews>>
      /\ answer'.mode = request.mode /\ answer'.sets = request.sets /\ answer'.touched = request.touched
      /\ answer'.entries = IF request.mode = "queue" THEN BuildResearchQueue(request.sets) ELSE <<>>
  BY DEF GiveAnswer
<1>2. /\ request.mode \in {"queue", "list"} /\ (request.mode = "queue" => request.asked = Companies)
      /\ request.asked \in Seq(Watched) /\ request.sets \in Seq(ToSet(request.sets))
      /\ \A i \in 1..Len(request.sets) : RightSet(request.asked[i], request.sets[i], request.touched) /\ RowsStored(request.sets[i])
  BY <1>1 DEF ReviewInv, RequestOK
<1>3. RequestOK' BY <1>1 DEF RequestOK, NoReader
<1>4. PICK sets, asked, touched : sets = request.sets /\ asked = request.asked /\ touched = request.touched OBVIOUS
<1>5. \A i \in 1..Len(sets) : (RightSet(asked[i], sets[i], touched))' /\ RowsStored(sets[i])'
  BY <1>1, <1>2, <1>4, SetsStay
<1>6. DOMAIN sets = 1..Len(sets) BY <1>2, <1>4
<1>7. BuildResearchQueue(sets)' = BuildResearchQueue(sets)
  BY DEF BuildResearchQueue, Entry, Priority, Actionable
<1>8. AnswerOK' BY <1>1, <1>2, <1>4, <1>5, <1>6 DEF AnswerOK
<1> QED BY <1>1, <1>3, <1>8, RequestKeeps

\* A snapshot is added to the ones of its company (snapshot_store.py).
LEMMA TakeSnapshotKeeps ==
    ASSUME ReviewInv, NEW ticker \in Watched, NEW content \in NewSnapshots, NEW later \in 0..1, TakeSnapshot(ticker, content, later)
    PROVE  ReviewInv'
<1> DEFINE taken == history[ticker]
           last == IF taken = <<>> THEN 0 ELSE taken[Len(taken)].asOf
           row == [content EXCEPT !.asOf = last + later]
<1>1. /\ history' = [history EXCEPT ![ticker] = Append(@, row)]
      /\ answer' = NoAnswer /\ Touched(ticker) /\ UNCHANGED <<stored, reviews>>
  BY DEF TakeSnapshot
<1>2. WellTaken(row)
  <2>1. WellTaken(content) BY SnapshotsAssumption
  <2>2. DOMAIN row = DOMAIN content /\ \A f \in DOMAIN content : f # "asOf" => row[f] = content[f] OBVIOUS
  <2>3. row.points = content.points /\ row.calls = content.calls /\ row.components = content.components
    BY <2>1, <2>2 DEF WellTaken
  <2> QED BY <2>1, <2>2, <2>3 DEF WellTaken
<1> HIDE DEF row
<1>3. Histories'
  <2>1. DOMAIN history' = Watched /\ history'[ticker] = Append(taken, row)
        /\ \A t \in Watched : t # ticker => history'[t] = history[t]
    BY <1>1 DEF ReviewInv, Histories
  <2>2. taken \in Seq(ToSet(taken)) /\ \A s \in ToSet(taken) : WellTaken(s) BY DEF ReviewInv, Histories
  <2> HIDE DEF taken
  <2>3. PICK new : new = Append(taken, row) OBVIOUS
  <2>4. new \in Seq(ToSet(taken) \cup {row})
    <3>1. taken \in Seq(ToSet(taken) \cup {row}) BY <2>2, SeqMonotonic
    <3> QED BY <2>3, <3>1
  <2>5. new \in Seq(ToSet(new))
    <3>1. \A i \in 1..Len(new) : new[i] \in ToSet(new) BY <2>4 DEF ToSet
    <3> QED BY <2>4, <3>1, SeqOfElements
  <2>6. \A s \in ToSet(new) : WellTaken(s)
    <3>1. \A i \in DOMAIN new : new[i] \in ToSet(taken) \cup {row} BY <2>4, ElementOfSeq
    <3> QED BY <1>2, <2>2, <3>1 DEF ToSet
  <2>7. \A t \in Watched : t # ticker => history[t] \in Seq(ToSet(history[t])) /\ \A s \in ToSet(history[t]) : WellTaken(s)
    BY DEF ReviewInv, Histories
  <2>8. ASSUME NEW t \in Watched
        PROVE  history'[t] \in Seq(ToSet(history'[t])) /\ \A s \in ToSet(history'[t]) : WellTaken(s)
    <3>1. CASE t = ticker BY <2>1, <2>3, <2>5, <2>6, <3>1
    <3>2. CASE t # ticker BY <2>1, <2>7, <3>2
    <3> QED BY <3>1, <3>2
  <2> QED BY <2>1, <2>8 DEF Histories
<1>4. \A t : t # ticker => LatestRows(t)' = LatestRows(t) /\ ApplyReviews(LatestRows(t))' = ApplyReviews(LatestRows(t))
  <2> SUFFICES ASSUME NEW t, t # ticker
               PROVE  LatestRows(t)' = LatestRows(t) /\ ApplyReviews(LatestRows(t))' = ApplyReviews(LatestRows(t))
    OBVIOUS
  <2>1. history'[t] = history[t] BY <1>1
  <2>2. \A r : ReviewOf(r)' = ReviewOf(r) BY <1>1 DEF ReviewOf
  <2> QED BY <2>1, <2>2, RowsUnchanged
<1> QED BY <1>1, <1>3, <1>4, TouchKeeps

\* A review is of a change of one company (change_store.py).
LEMMA ReviewChangeKeeps ==
    ASSUME ReviewInv, NEW row, NEW status, ReviewChange(row, status) PROVE ReviewInv'
<1>1. /\ reviews' = [r \in DOMAIN reviews \cup {row} |-> IF r = row THEN status ELSE reviews[r]]
      /\ answer' = NoAnswer /\ Touched(row.ticker) /\ UNCHANGED <<history, stored>>
  BY DEF ReviewChange
<1>2. Histories' BY <1>1 DEF ReviewInv, Histories
<1>3. \A t : t # row.ticker => LatestRows(t)' = LatestRows(t) /\ ApplyReviews(LatestRows(t))' = ApplyReviews(LatestRows(t))
  <2> SUFFICES ASSUME NEW t, t # row.ticker
               PROVE  LatestRows(t)' = LatestRows(t) /\ ApplyReviews(LatestRows(t))' = ApplyReviews(LatestRows(t))
    OBVIOUS
  <2>1. \A r \in LatestRows(t) : r.ticker = t BY DEF LatestRows, RowsBetween
  <2>2. \A r \in LatestRows(t) : r # row BY <2>1
  <2>3. \A r \in LatestRows(t) : ReviewOf(r)' = ReviewOf(r) BY <1>1, <2>2 DEF ReviewOf
  <2>4. history'[t] = history[t] BY <1>1
  <2> HIDE DEF LatestRows
  <2> QED BY <2>3, <2>4, RowsUnchanged
<1> QED BY <1>1, <1>2, <1>3, TouchKeeps

\* One action per step of a request, a run or a review.
LEMMA ReviewNextInv == ReviewInv /\ [ReviewNext]_reviewVars => ReviewInv'
<1> SUFFICES ASSUME ReviewInv, [ReviewNext]_reviewVars PROVE ReviewInv'
  OBVIOUS
<1>1. CASE Ask("queue", Companies) BY <1>1, AskKeeps, WatchedCompanies
<1>2. ASSUME NEW i \in DOMAIN Companies, Ask("list", <<Companies[i]>>) PROVE ReviewInv'
  <2>1. <<Companies[i]>> \in Seq(Watched) BY CompanyFacts
  <2> QED BY <1>2, <2>1, AskKeeps
<1>3. CASE ReadSnapshots BY <1>3, ReadSnapshotsKeeps
<1>4. CASE SaveChanges BY <1>4, SaveChangesKeeps
<1>5. CASE ReadReviews BY <1>5, ReadReviewsKeeps
<1>6. CASE GiveAnswer BY <1>6, GiveAnswerKeeps
<1>7. ASSUME NEW i \in DOMAIN Companies, NEW content \in NewSnapshots, NEW later \in 0..1,
             TakeSnapshot(Companies[i], content, later)
      PROVE  ReviewInv'
  BY <1>7, CompanyFacts, TakeSnapshotKeeps
<1>8. ASSUME NEW row \in stored, NEW status \in ReviewStatuses, ReviewChange(row, status) PROVE ReviewInv'
  BY <1>8, ReviewChangeKeeps
<1>9. CASE UNCHANGED reviewVars
  <2>1. UNCHANGED <<history, stored, reviews, request, answer>> BY <1>9 DEF reviewVars
  <2>2. AnswerOK' BY <2>1, AnswerStays DEF ReviewInv
  <2>3. RequestOK'
    <3>1. PICK r : r = request OBVIOUS
    <3>2. r.stage # "idle" => \A i \in 1..Len(r.sets) :
            (RightSet(r.asked[i], r.sets[i], r.touched))' /\ RowsStored(r.sets[i])'
      BY <2>1, <3>1, SetsStay DEF ReviewInv, RequestOK
    <3>3. Current' = Current /\ LatestRows(Current)' = LatestRows(Current) BY <2>1, AllRowsUnchanged DEF Current
    <3> QED BY <2>1, <3>1, <3>2, <3>3 DEF ReviewInv, RequestOK
  <2> QED BY <2>1, <2>2, <2>3, RequestKeeps
<1> QED BY <1>1, <1>2, <1>3, <1>4, <1>5, <1>6, <1>7, <1>8, <1>9 DEF ReviewNext

\* What a queue lists of each company.
ListedEntries(sets) == {e \in {Entry(Companies[i], sets[i]) : i \in 1..Len(sets)} : e.rows # {}}

\* Of one priority.
DueEntries(sets, p) == {e \in ListedEntries(sets) : e.priority = p}

\* There are three priorities.
LEMMA PriorityIsKnown == ASSUME NEW set PROVE Priority(set) \in {1, 2, 3}
  BY DEF Priority

\* The three parts of the queue, of which every entry is in the one of its priority.
LEMMA QueueOfPriority ==
    ASSUME NEW sets, sets \in Seq(ToSet(sets)), NEW p
    PROVE  /\ OfPriority(sets, p) \in Seq(DueEntries(sets, p))
           /\ \A e \in DueEntries(sets, p) : \E j \in 1..Len(OfPriority(sets, p)) : OfPriority(sets, p)[j] = e
<1> DEFINE entries == [i \in DOMAIN sets |-> Entry(Companies[i], sets[i])]
           which == {i \in DOMAIN sets : entries[i].rows # {} /\ entries[i].priority = p}
           of == Selected(entries, which)
           due == DueEntries(sets, p)
           S == {Entry(Companies[i], sets[i]) : i \in 1..Len(sets)}
<1>1. Len(sets) \in Nat /\ DOMAIN sets = 1..Len(sets) OBVIOUS
<1>2. entries \in [1..Len(sets) -> S] BY <1>1
<1>3. entries \in Seq(S) /\ Len(entries) = Len(sets)
  <2> HIDE DEF entries, S
  <2> QED BY <1>1, <1>2, SeqOfFunction
<1>4. \A i \in which : entries[i] \in due BY <1>1 DEF ListedEntries, DueEntries
<1>5. \A e \in due : \E i \in which : entries[i] = e BY <1>1 DEF ListedEntries, DueEntries
<1>6. which \subseteq 1..Len(sets) BY <1>1
<1> HIDE DEF entries, which, S, due
<1>7. /\ of \in Seq(S)
      /\ \A j \in 1..Len(of) : \E i \in 1..Len(entries) : i \in which /\ of[j] = entries[i]
      /\ \A i \in 1..Len(entries) : i \in which => \E j \in 1..Len(of) : of[j] = entries[i]
  BY <1>3, SelectedHas
<1> HIDE DEF of
<1>8. of \in Seq(due) BY <1>4, <1>7, SeqOfElements
<1>9. \A e \in due : \E j \in 1..Len(of) : of[j] = e BY <1>3, <1>5, <1>6, <1>7
<1> QED BY <1>8, <1>9 DEF of, due, which, entries, OfPriority

\* The queue has the entries that list something, those of high priority first.
LEMMA QueueHas ==
    ASSUME NEW sets, sets \in Seq(ToSet(sets))
    PROVE  /\ ToSet(BuildResearchQueue(sets)) = ListedEntries(sets)
           /\ \A i, j \in DOMAIN BuildResearchQueue(sets) :
                (BuildResearchQueue(sets)[j].priority = 1 /\ BuildResearchQueue(sets)[i].priority # 1) => j < i
<1> DEFINE due(p) == DueEntries(sets, p)
<1>2. BuildResearchQueue(sets) = OfPriority(sets, 1) \o OfPriority(sets, 2) \o OfPriority(sets, 3) BY DEF BuildResearchQueue
<1>3. \A e \in ListedEntries(sets) : e.priority \in {1, 2, 3} BY PriorityIsKnown DEF ListedEntries, Entry
<1>4. PICK a, b, c : a = OfPriority(sets, 1) /\ b = OfPriority(sets, 2) /\ c = OfPriority(sets, 3) OBVIOUS
<1>5. /\ a \in Seq(due(1)) /\ \A e \in due(1) : \E j \in 1..Len(a) : a[j] = e
      /\ b \in Seq(due(2)) /\ \A e \in due(2) : \E j \in 1..Len(b) : b[j] = e
      /\ c \in Seq(due(3)) /\ \A e \in due(3) : \E j \in 1..Len(c) : c[j] = e
  <2>0. ASSUME NEW p
        PROVE  /\ OfPriority(sets, p) \in Seq(DueEntries(sets, p))
               /\ \A e \in DueEntries(sets, p) : \E j \in 1..Len(OfPriority(sets, p)) : OfPriority(sets, p)[j] = e
    BY QueueOfPriority
  <2>1. a \in Seq(due(1)) /\ \A e \in due(1) : \E j \in 1..Len(a) : a[j] = e BY <1>4, <2>0
  <2>2. b \in Seq(due(2)) /\ \A e \in due(2) : \E j \in 1..Len(b) : b[j] = e BY <1>4, <2>0
  <2>3. c \in Seq(due(3)) /\ \A e \in due(3) : \E j \in 1..Len(c) : c[j] = e BY <1>4, <2>0
  <2> QED BY <2>1, <2>2, <2>3
<1> DEFINE L == ListedEntries(sets)
<1>6. a \in Seq(L) /\ b \in Seq(L) /\ c \in Seq(L)
  <2>1. due(1) \subseteq L /\ due(2) \subseteq L /\ due(3) \subseteq L BY DEF DueEntries
  <2> QED BY <1>5, <2>1, SeqMonotonic
<1>7. PICK q : q = (a \o b) \o c OBVIOUS
<1>8. q = BuildResearchQueue(sets) BY <1>2, <1>4, <1>7
<1> HIDE DEF L
<1>9. /\ q \in Seq(L) /\ Len(a) \in Nat /\ Len(b) \in Nat /\ Len(c) \in Nat /\ Len(q) = Len(a) + Len(b) + Len(c)
      /\ \A i \in 1..Len(q) : q[i] = IF i <= Len(a) THEN a[i] ELSE IF i <= Len(a) + Len(b) THEN b[i - Len(a)]
                                     ELSE c[i - (Len(a) + Len(b))]
  <2>1. PICK ab : ab = a \o b OBVIOUS
  <2>2. /\ ab \in Seq(L) /\ Len(ab) = Len(a) + Len(b)
        /\ \A i \in 1..(Len(a) + Len(b)) : ab[i] = IF i <= Len(a) THEN a[i] ELSE b[i - Len(a)]
    BY <1>6, <2>1, ConcatProperties
  <2>3. /\ q \in Seq(L) /\ Len(q) = Len(ab) + Len(c)
        /\ \A i \in 1..(Len(ab) + Len(c)) : q[i] = IF i <= Len(ab) THEN ab[i] ELSE c[i - Len(ab)]
    BY <1>6, <1>7, <2>1, <2>2, ConcatProperties
  <2>4. Len(a) \in Nat /\ Len(b) \in Nat /\ Len(c) \in Nat BY <1>6
  <2>5. ASSUME NEW i \in 1..Len(q)
        PROVE  q[i] = IF i <= Len(a) THEN a[i] ELSE IF i <= Len(a) + Len(b) THEN b[i - Len(a)]
                      ELSE c[i - (Len(a) + Len(b))]
    <3>1. CASE i <= Len(a) + Len(b)
      <4>1. i \in 1..(Len(a) + Len(b)) /\ i \in 1..(Len(ab) + Len(c)) BY <2>2, <2>3, <2>4, <3>1
      <4>2. q[i] = ab[i] BY <2>2, <2>3, <3>1, <4>1
      <4> QED BY <2>2, <2>4, <3>1, <4>1, <4>2
    <3>2. CASE ~(i <= Len(a) + Len(b))
      <4>1. i \in 1..(Len(ab) + Len(c)) /\ ~(i <= Len(a)) BY <2>2, <2>3, <2>4, <3>2
      <4> QED BY <2>2, <2>3, <3>2, <4>1
    <3> QED BY <3>1, <3>2
  <2> QED BY <2>2, <2>3, <2>4, <2>5
<1>10. ToSet(q) = L
  <2>1. DOMAIN q = 1..Len(q) BY <1>9
  <2>2. \A i \in DOMAIN q : q[i] \in L BY <1>9, ElementOfSeq
  <2>3. ASSUME NEW e \in L PROVE e \in ToSet(q)
    <3>1. e \in due(1) \/ e \in due(2) \/ e \in due(3) BY <1>3 DEF L, DueEntries
    <3>2. CASE e \in due(1)
      <4>1. PICK j \in 1..Len(a) : a[j] = e BY <1>5, <3>2
      <4>2. j \in 1..Len(q) /\ j <= Len(a) BY <1>9
      <4>3. q[j] = e BY <1>9, <4>1, <4>2
      <4> QED BY <2>1, <4>2, <4>3 DEF ToSet
    <3>3. CASE e \in due(2)
      <4>1. PICK j \in 1..Len(b) : b[j] = e BY <1>5, <3>3
      <4>2. Len(a) + j \in 1..Len(q) /\ ~(Len(a) + j <= Len(a)) /\ Len(a) + j <= Len(a) + Len(b) /\ (Len(a) + j) - Len(a) = j
        BY <1>9
      <4>3. q[Len(a) + j] = e BY <1>9, <4>1, <4>2
      <4> QED BY <2>1, <4>2, <4>3 DEF ToSet
    <3>4. CASE e \in due(3)
      <4>1. PICK j \in 1..Len(c) : c[j] = e BY <1>5, <3>4
      <4> DEFINE k == Len(a) + Len(b) + j
      <4>2. k \in 1..Len(q) /\ ~(k <= Len(a)) /\ ~(k <= Len(a) + Len(b)) /\ k - (Len(a) + Len(b)) = j
        BY <1>9
      <4>3. q[k] = e
        <5> HIDE DEF k
        <5> QED BY <1>9, <4>1, <4>2
      <4> QED BY <2>1, <4>2, <4>3 DEF ToSet
    <3> QED BY <3>1, <3>2, <3>3, <3>4
  <2> QED BY <2>2, <2>3 DEF ToSet
<1>11. ASSUME NEW i \in DOMAIN q, NEW j \in DOMAIN q, q[j].priority = 1, q[i].priority # 1
       PROVE  j < i
  <2>1. i \in 1..Len(q) /\ j \in 1..Len(q) BY <1>9
  <2>2. ~(i <= Len(a))
    <3>1. ASSUME i <= Len(a) PROVE FALSE
      <4>1. i \in 1..Len(a) /\ q[i] = a[i] BY <1>9, <2>1, <3>1
      <4>2. a[i] \in due(1) BY <1>5, <4>1, ElementOfSeq
      <4> QED BY <1>11, <4>1, <4>2 DEF DueEntries
    <3> QED BY <3>1
  <2>3. j <= Len(a)
    <3>1. ASSUME ~(j <= Len(a)), j <= Len(a) + Len(b) PROVE FALSE
      <4>1. j - Len(a) \in 1..Len(b) /\ q[j] = b[j - Len(a)] BY <1>9, <2>1, <3>1
      <4>2. b[j - Len(a)] \in due(2) BY <1>5, <4>1, ElementOfSeq
      <4> QED BY <1>11, <4>1, <4>2 DEF DueEntries
    <3>2. ASSUME ~(j <= Len(a)), ~(j <= Len(a) + Len(b)) PROVE FALSE
      <4>1. j - (Len(a) + Len(b)) \in 1..Len(c) /\ q[j] = c[j - (Len(a) + Len(b))] BY <1>9, <2>1, <3>2
      <4>2. c[j - (Len(a) + Len(b))] \in due(3) BY <1>5, <4>1, ElementOfSeq
      <4> QED BY <1>11, <4>1, <4>2 DEF DueEntries
    <3> QED BY <3>1, <3>2
  <2> QED BY <1>9, <2>1, <2>2, <2>3
<1> QED BY <1>8, <1>10, <1>11 DEF L

\* So the queue shows what is due, in its order.
LEMMA QueueIsRight == ReviewInv => QueuesAreRight /\ QueueIsOrdered
<1> SUFFICES ASSUME ReviewInv PROVE QueuesAreRight /\ QueueIsOrdered
  OBVIOUS
<1>1. CASE answer.mode # "queue"
  <2>1. answer.entries = <<>> BY <1>1 DEF ReviewInv, AnswerOK
  <2> QED BY <1>1, <2>1 DEF QueuesAreRight, QueueIsOrdered
<1>2. CASE answer.mode = "queue"
  <2>1. PICK sets, entries : sets = answer.sets /\ entries = answer.entries OBVIOUS
  <2>2. /\ sets \in Seq(ToSet(sets)) /\ Len(sets) = Len(Companies) /\ entries = BuildResearchQueue(sets)
        /\ \A i \in 1..Len(Companies) : RightSet(Companies[i], sets[i], answer.touched)
    BY <1>2, <2>1 DEF ReviewInv, AnswerOK
  <2>3. /\ ToSet(entries) = ListedEntries(sets)
        /\ \A i, j \in DOMAIN entries : (entries[j].priority = 1 /\ entries[i].priority # 1) => j < i
    BY <2>2, QueueHas
  <2>4. DOMAIN Companies = 1..Len(Companies) BY WatchedCompanies
  <2>5. QueuesAreRight
    <3> SUFFICES ASSUME NEW k \in DOMAIN Companies, Companies[k] \notin answer.touched
                 PROVE  LET due == {r \in LatestRows(Companies[k]) :
                                     r.change.materiality # "low" /\ ReviewOf(r) # "ignored"}
                            shown == {e \in ToSet(entries) : e.ticker = Companies[k]}
                        IN  UNION {e.rows : e \in shown} = due /\ Cardinality(shown) <= 1
      BY <2>1 DEF QueuesAreRight
    <3> DEFINE t == Companies[k]
               due == {r \in LatestRows(t) : r.change.materiality # "low" /\ ReviewOf(r) # "ignored"}
               shown == {e \in ToSet(entries) : e.ticker = t}
               set == ApplyReviews(LatestRows(t))
    <3>1. \A i \in 1..Len(sets) : Companies[i] = t => sets[i] = set
      <4>1. \A i \in 1..Len(sets) : RightSet(Companies[i], sets[i], answer.touched) BY <2>2
      <4> QED BY <4>1 DEF RightSet
    <3>2. Entry(t, set).rows = due
      <4>1. \A r \in LatestRows(t) : r.change.materiality \in {"high", "medium", "low", "unknown"}
        BY MaterialityIsKnown DEF LatestRows, RowsBetween
      <4> HIDE DEF LatestRows
      <4>2. Entry(t, set).rows = {x.row : x \in Actionable(set)} BY DEF Entry
      <4>3. Actionable(set) = {x \in set : x.row.change.materiality \in {"high", "medium", "unknown"} /\ x.review # "ignored"}
        BY DEF Actionable
      <4>4. set = {[row |-> r, review |-> ReviewOf(r)] : r \in LatestRows(t)} BY DEF ApplyReviews
      <4> HIDE DEF set, due
      <4>5. \A x \in set : x.row \in LatestRows(t) /\ x.review = ReviewOf(x.row) BY <4>4
      <4>6. ASSUME NEW r \in LatestRows(t) PROVE \E x \in set : x.row = r /\ x.review = ReviewOf(r)
        <5>1. [row |-> r, review |-> ReviewOf(r)] \in set BY <4>4
        <5> QED BY <5>1
      <4>7. {x.row : x \in Actionable(set)} \subseteq due BY <4>3, <4>5 DEF due
      <4>8. due \subseteq {x.row : x \in Actionable(set)}
        <5> SUFFICES ASSUME NEW r \in due PROVE \E x \in Actionable(set) : x.row = r
          OBVIOUS
        <5>1. PICK x \in set : x.row = r /\ x.review = ReviewOf(r) BY <4>6 DEF due
        <5>2. x \in Actionable(set) BY <4>1, <4>3, <5>1 DEF due
        <5> QED BY <5>1, <5>2
      <4> QED BY <4>2, <4>7, <4>8
    <3>3. \A ticker, some : Entry(ticker, some).ticker = ticker BY DEF Entry
    <3>4. k \in 1..Len(sets) BY <2>2, <2>4
    <3>5. shown = IF due = {} THEN {} ELSE {Entry(t, set)}
      <4>1. \A e \in shown : e = Entry(t, set) /\ e.rows # {}
        <5> SUFFICES ASSUME NEW e \in shown PROVE e = Entry(t, set) /\ e.rows # {}
          OBVIOUS
        <5>1. e \in ListedEntries(sets) /\ e.ticker = t BY <2>3
        <5>2. PICK i \in 1..Len(sets) : e = Entry(Companies[i], sets[i]) BY <5>1 DEF ListedEntries
        <5>3. Companies[i] = t BY <5>1, <5>2, <3>3
        <5>4. e = Entry(t, set) BY <5>2, <5>3, <3>1
        <5> QED BY <5>1, <5>4 DEF ListedEntries
      <4>2. due # {} => Entry(t, set) \in shown
        <5>1. Entry(t, set) = Entry(Companies[k], sets[k]) BY <3>1, <3>4
        <5>2. due # {} => Entry(t, set) \in ListedEntries(sets) BY <3>2, <3>4, <5>1 DEF ListedEntries
        <5> QED BY <2>3, <3>3, <5>2
      <4> HIDE DEF shown, due, set
      <4> QED BY <3>2, <4>1, <4>2
    <3> HIDE DEF shown, due, set, t
    <3>6. UNION {e.rows : e \in shown} = due BY <3>2, <3>5
    <3>7. Cardinality(shown) <= 1
      <4>1. Cardinality(shown) = 0 \/ Cardinality(shown) = 1 BY <3>5, FS_EmptySet, FS_Singleton
      <4> QED BY <4>1
    <3> QED BY <3>6, <3>7 DEF shown, due, t
  <2>6. QueueIsOrdered
    <3>1. \A e \in ToSet(entries) : e.priority = 1 <=> \E r \in e.rows : r.change.materiality = "high"
      <4> SUFFICES ASSUME NEW e \in ToSet(entries)
                   PROVE  e.priority = 1 <=> \E r \in e.rows : r.change.materiality = "high"
        OBVIOUS
      <4>1. PICK i \in 1..Len(sets) : e = Entry(Companies[i], sets[i]) BY <2>3 DEF ListedEntries
      <4>2. PICK listed : listed = Actionable(sets[i]) OBVIOUS
      <4>3. e.priority = Priority(listed) /\ e.rows = {x.row : x \in listed} BY <4>1, <4>2 DEF Entry
      <4>4. Priority(listed) = 1 <=> \E x \in listed : x.row.change.materiality = "high" BY DEF Priority
      <4> QED BY <4>3, <4>4
    <3>2. \A i \in DOMAIN entries : entries[i] \in ToSet(entries) BY DEF ToSet
    <3> QED BY <2>1, <2>3, <3>1, <3>2 DEF QueueIsOrdered
  <2> QED BY <2>5, <2>6
<1> QED BY <1>1, <1>2

\* The invariant gives all parts of the property.
LEMMA ReviewInvImplies == ReviewInv => ReviewsHold
<1> SUFFICES ASSUME ReviewInv PROVE ReviewsHold
  OBVIOUS
<1>1. ASSUME NEW t \in Watched, NEW j \in DOMAIN history[t], NEW i \in 1..(j - 1)
      PROVE  WellTaken(history[t][i]) /\ WellTaken(history[t][j])
  <2>1. history[t] \in Seq(ToSet(history[t])) /\ \A s \in ToSet(history[t]) : WellTaken(s) BY DEF ReviewInv, Histories
  <2>2. i \in DOMAIN history[t] BY <2>1
  <2> QED BY <2>1, <2>2 DEF ToSet
<1>2. ChangesTurnBack
  <2> SUFFICES ASSUME NEW t \in Watched, NEW j \in DOMAIN history[t], NEW i \in 1..(j - 1),
                      NEW c \in DetectResearchChanges(history[t][i], history[t][j]),
                      c.category \in {"financial", "management", "guidance"}, c.before # NoValue
               PROVE  \E d \in DetectResearchChanges(history[t][j], history[t][i]) : TurnsBack(c, d)
    BY DEF ChangesTurnBack, TurnsBack, Opposite
  <2>1. PICK a, b : a = history[t][i] /\ b = history[t][j] OBVIOUS
  <2>2. WellTaken(a) /\ WellTaken(b) BY <1>1, <2>1
  <2>3. c \in DetectResearchChanges(a, b) BY <2>1
  <2>4. c \in FinancialChanges(a, b) \/ c \in ManagementChanges(a, b)
    BY <2>3, OtherCategories DEF DetectResearchChanges
  <2>5. \E d \in FinancialChanges(b, a) \cup ManagementChanges(b, a) : TurnsBack(c, d)
    BY <2>2, <2>4, ValueTurnsBack, CallTurnsBack
  <2> QED BY <2>1, <2>5 DEF DetectResearchChanges
<1>3. LossIsNoChange
  <2> SUFFICES ASSUME NEW t \in Watched, NEW j \in DOMAIN history[t], NEW i \in 1..(j - 1)
               PROVE  LET lost == ComparisonWarnings(history[t][i], history[t][j])
                          found == DetectResearchChanges(history[t][i], history[t][j])
                      IN  /\ "risks" \in lost => \A c \in found : c.category # "risk"
                          /\ "financials" \in lost => \A c \in found : c.category # "financial"
                          /\ lost # {} => \A c \in found : ~(c.category = "evidence" /\ c.key = <<"source_coverage">>)
    BY DEF LossIsNoChange
  <2>1. PICK a, b : a = history[t][i] /\ b = history[t][j] OBVIOUS
  <2>2. WellTaken(b) BY <1>1, <2>1
  <2>3. "risks" \in ComparisonWarnings(a, b) => \A c \in DetectResearchChanges(a, b) : c.category # "risk"
    BY <2>2, FailureChangesNothing, OtherCategories DEF DetectResearchChanges
  <2>4. "financials" \in ComparisonWarnings(a, b) => \A c \in DetectResearchChanges(a, b) : c.category # "financial"
    BY <2>2, FailureChangesNothing, OtherCategories DEF DetectResearchChanges
  <2>5. ComparisonWarnings(a, b) # {} =>
          \A c \in DetectResearchChanges(a, b) : ~(c.category = "evidence" /\ c.key = <<"source_coverage">>)
    BY <2>2, FailureChangesNothing, OtherCategories DEF DetectResearchChanges
  <2> QED BY <2>1, <2>3, <2>4, <2>5
<1>4. ShownIsStored BY DEF ReviewInv, AnswerOK, RowsStored, ShownIsStored
<1> QED BY <1>2, <1>3, <1>4, QueueIsRight DEF ReviewsHold

\* For any companies, snapshots and reviews, with other requests in between: a
\* queue shows what is due of each company nobody touched, most urgent first,
\* what is shown is stored, changes turn back, and a failure is no change
\* (change_detection.py, change_store.py, comparison.py).
THEOREM ReviewsSound == ReviewSpec => []ReviewsHold
<1>1. ReviewInit => ReviewInv BY ReviewInitInv
<1>2. ReviewInv /\ [ReviewNext]_reviewVars => ReviewInv' BY ReviewNextInv
<1>3. ReviewInv => ReviewsHold BY ReviewInvImplies
<1> QED BY <1>1, <1>2, <1>3, PTL DEF ReviewSpec

-----------------------------------------------------------------------------
(* MemoryLayer *)

\* An item of the store: it has its fields, and is not active if the guardrails demote it.
IsItem(x) ==
    /\ x = [id |-> x.id, hash |-> x.hash, kind |-> x.kind, source |-> x.source, url |-> x.url,
            tokens |-> x.tokens, weight |-> x.weight, claim |-> x.claim, status |-> x.status]
    /\ x.tokens \in Nat /\ x.weight \in Nat
    /\ x.status = "active" => ~Untrusted(x)

AreItems(items) == IsFiniteSet(items) /\ (\A x \in items : IsItem(x)) /\ \A m, n \in items : m.id = n.id \/ m.hash = n.hash => m = n

MemoryInv ==
    /\ MemoryTypeOK
    /\ AreItems(memories)
    /\ memoryUser = [u \in MemoryUsers |-> memoryUser[u]]
    /\ \A u \in MemoryUsers : \A x \in memoryUser[u].item : IsItem(x)
    /\ contextPack.built => PackFits(contextPack)

LEMMA MemoryInitInv == MemoryInit => MemoryInv
<1> SUFFICES ASSUME MemoryInit PROVE MemoryInv
  OBVIOUS
<1>1. memories = {} /\ memoryUser = [u \in MemoryUsers |-> IdleUser] /\ contextPack = NoPack /\ memoryCalls = 0
  BY DEF MemoryInit
<1>2. memoryCalls \in 0..MaxMemoryCalls BY <1>1, MemoryAssumption
<1>3. \A u \in MemoryUsers : memoryUser[u].stage = "idle" /\ memoryUser[u].item = {} BY <1>1 DEF IdleUser
<1>4. AreItems(memories) BY <1>1, FS_EmptySet DEF AreItems
<1>5. contextPack.built = FALSE BY <1>1 DEF NoPack
<1> QED BY <1>1, <1>2, <1>3, <1>4, <1>5 DEF MemoryInv, MemoryTypeOK
-----------------------------------------------------------------------------
(* Contexts *)

\* A pack while it is built: what it has of the items so far fits, the
\* rest is rejected.
Packing(pack, items, seen, budget) ==
    /\ pack.built = TRUE /\ pack.budget = budget /\ pack.seen = seen
    /\ pack = [built |-> pack.built, selected |-> pack.selected, rejected |-> pack.rejected,
               tokens |-> pack.tokens, budget |-> pack.budget, seen |-> pack.seen]
    /\ pack.selected \subseteq items /\ pack.selected \cap pack.rejected = {}
    /\ pack.rejected \subseteq seen
    /\ Cardinality(pack.selected) <= MaxSelected
    /\ pack.tokens = Total(pack.selected, [item \in seen |-> item.tokens]) /\ pack.tokens <= budget

LEMMA AddedFits ==
    ASSUME NEW seen, IsFiniteSet(seen), \A x \in seen : x.tokens \in Nat, NEW items, items \subseteq seen,
           NEW budget \in Nat, NEW pack, Packing(pack, items, seen, budget),
           NEW x \in seen, x \notin items, x \notin pack.rejected
    PROVE  /\ Packing(Add(pack, x), items \cup {x}, seen, budget)
           /\ Add(pack, x).selected \cup Add(pack, x).rejected = (pack.selected \cup pack.rejected) \cup {x}
           /\ Add(pack, x).rejected \subseteq pack.rejected \cup {x}
<1> DEFINE f == [item \in seen |-> item.tokens]
           s == pack.selected
           r == pack.rejected
           t == pack.tokens
           more == [pack EXCEPT !.selected = @ \cup {x}, !.tokens = @ + x.tokens]
           less == [pack EXCEPT !.rejected = @ \cup {x}]
<1>1. /\ pack = [built |-> TRUE, selected |-> s, rejected |-> r, tokens |-> t, budget |-> budget, seen |-> seen]
      /\ s \subseteq items /\ s \cap r = {} /\ r \subseteq seen /\ Cardinality(s) <= MaxSelected
      /\ t = Total(s, f) /\ t <= budget
  BY DEF Packing
<1>2. \A y \in seen : f[y] = y.tokens /\ f[y] \in Nat OBVIOUS
<1> HIDE DEF f, s, r, t
<1>p. pack = [built |-> pack.built, selected |-> pack.selected, rejected |-> pack.rejected,
              tokens |-> pack.tokens, budget |-> pack.budget, seen |-> pack.seen]
      /\ pack.built = TRUE /\ pack.budget = budget /\ pack.seen = seen
  BY DEF Packing
<1>3. more = [built |-> TRUE, selected |-> s \cup {x}, rejected |-> r, tokens |-> t + x.tokens, budget |-> budget, seen |-> seen]
  <2>1. more = [built |-> pack.built, selected |-> pack.selected \cup {x}, rejected |-> pack.rejected,
                tokens |-> pack.tokens + x.tokens, budget |-> pack.budget, seen |-> pack.seen]
    <3> DEFINE v == pack.selected \cup {x}
               w == pack.tokens + x.tokens
    <3>1. more = [[pack EXCEPT !.selected = v] EXCEPT !.tokens = w] OBVIOUS
    <3> HIDE DEF v, w
    <3>2. [pack EXCEPT !.selected = v] =
              [built |-> pack.built, selected |-> v, rejected |-> pack.rejected,
               tokens |-> pack.tokens, budget |-> pack.budget, seen |-> pack.seen]
      BY <1>p
    <3>3. \A a, b, c, d, e, h : [[built |-> a, selected |-> b, rejected |-> c, tokens |-> d, budget |-> e, seen |-> h]
                                EXCEPT !.tokens = w] =
              [built |-> a, selected |-> b, rejected |-> c, tokens |-> w, budget |-> e, seen |-> h]
      OBVIOUS
    <3> HIDE DEF more
    <3> QED BY <3>1, <3>2, <3>3 DEF v, w
  <2> QED BY <1>p, <2>1 DEF s, r, t
<1>4. less = [built |-> TRUE, selected |-> s, rejected |-> r \cup {x}, tokens |-> t, budget |-> budget, seen |-> seen]
  <2>1. less = [built |-> pack.built, selected |-> pack.selected, rejected |-> pack.rejected \cup {x},
                tokens |-> pack.tokens, budget |-> pack.budget, seen |-> pack.seen]
    BY <1>p
  <2> QED BY <1>p, <2>1 DEF s, r, t
<1>5. s \subseteq seen /\ x \notin s /\ IsFiniteSet(s) BY <1>1, FS_Subset
<1>6. Total(s, f) \in Nat /\ Total(s \cup {x}, f) = Total(s, f) + f[x] BY <1>2, <1>5, TotalHas
<1>7. Cardinality(s) \in Nat /\ Cardinality(s \cup {x}) = Cardinality(s) + 1 BY <1>5, FS_AddElement, FS_CardinalityType
<1>8. MaxSelected \in Nat BY MemoryAssumption
<1>9. t \in Nat /\ x.tokens \in Nat BY <1>1, <1>6
<1>10. CASE Cardinality(s) >= MaxSelected \/ Exceeds(pack, x)
  <2>1. Add(pack, x) = less BY <1>10 DEF Add, Reject, s
  <2> HIDE DEF less
  <2>2. /\ less.built = TRUE /\ less.selected = s /\ less.rejected = r \cup {x} /\ less.tokens = t
        /\ less.budget = budget /\ less.seen = seen
    BY <1>4
  <2>3. s \cap (r \cup {x}) = {} BY <1>1, <1>5
  <2>4. Packing(less, items \cup {x}, seen, budget) BY <1>1, <1>4, <2>2, <2>3 DEF Packing, f
  <2> QED BY <2>1, <2>2, <2>4 DEF s, r
<1>11. CASE ~(Cardinality(s) >= MaxSelected \/ Exceeds(pack, x))
  <2>1. Add(pack, x) = more BY <1>11 DEF Add, s
  <2>2. ~(t + x.tokens > budget) BY <1>1, <1>11 DEF Exceeds, t
  <2>3. t + x.tokens <= budget BY <1>9, <2>2
  <2>4. Cardinality(s \cup {x}) <= MaxSelected BY <1>7, <1>8, <1>11
  <2>5. t + x.tokens = Total(s \cup {x}, f) BY <1>1, <1>2, <1>6
  <2> HIDE DEF more
  <2>6. /\ more.built = TRUE /\ more.selected = s \cup {x} /\ more.rejected = r /\ more.tokens = t + x.tokens
        /\ more.budget = budget /\ more.seen = seen
    BY <1>3
  <2>7. (s \cup {x}) \cap r = {} BY <1>1 DEF r
  <2>8. Packing(more, items \cup {x}, seen, budget) BY <1>1, <1>3, <2>3, <2>4, <2>5, <2>6, <2>7 DEF Packing, f
  <2> QED BY <2>1, <2>6, <2>8 DEF s, r
<1> QED BY <1>10, <1>11 DEF s

\* The pack of a budget fits it and accounts for what was considered.
LEMMA ContextFits ==
    ASSUME NEW items, AreItems(items), NEW budget \in Nat
    PROVE  PackFits(BuildContext(items, budget))
<1> DEFINE best == SearchCandidates(items)
           considered == ToSet(best)
           usable == {item \in considered : CanEnterContext(item)}
           score == [item \in usable |-> ContextScore(item)]
           order == Ranked(usable, score, Cardinality(usable))
           start == [built |-> TRUE, selected |-> {}, rejected |-> considered \ usable, tokens |-> 0,
                     budget |-> budget, seen |-> considered]
           F == CHOOSE pack : pack = [n \in 0..Len(order) |-> IF n = 0 THEN start ELSE Add(pack[n - 1], order[n])]
<1>1. BuildContext(items, budget) = F[Len(order)] BY DEF BuildContext
<1>2. IsFiniteSet(items) /\ (\A x \in items : IsItem(x)) /\ \A m, n \in items : m.hash = n.hash => m = n
  BY DEF AreItems
<1>3. \A x \in items : x.tokens \in Nat /\ x.weight \in Nat BY <1>2 DEF IsItem
<1>4. best \in Seq(items) /\ Len(best) \in Nat
  <2> DEFINE w == [item \in items |-> item.weight]
  <2>1. \A x \in items : w[x] \in Int BY <1>3
  <2>2. MaxConsidered \in Nat BY MemoryAssumption
  <2> HIDE DEF w
  <2>3. Ranked(items, w, MaxConsidered) \in Seq(items) /\ Len(Ranked(items, w, MaxConsidered)) \in Nat
    BY <1>2, <2>1, <2>2, RankedHas
  <2> QED BY <2>3 DEF SearchCandidates, w
<1> HIDE DEF best
<1>5. considered \subseteq items BY <1>4, ElementOfSeq DEF ToSet
<1>6. IsFiniteSet(considered) BY <1>2, <1>5, FS_Subset
<1> HIDE DEF considered
<1>7. usable \subseteq considered /\ IsFiniteSet(usable)
  <2>1. usable \subseteq considered OBVIOUS
  <2> QED BY <1>6, <2>1, FS_Subset
<1>8. \A x \in usable : CanEnterContext(x) OBVIOUS
<1>9. \A x \in usable : score[x] \in Int
  <2> SUFFICES ASSUME NEW x \in usable PROVE ContextScore(x) \in Int
    OBVIOUS
  <2>1. x.weight \in Nat BY <1>3, <1>5, <1>7
  <2> QED BY <2>1 DEF ContextScore
<1> HIDE DEF usable, score
<1>10. order \in Seq(usable) /\ In(order) = usable /\ OnceEach(order) BY <1>7, <1>9, RankedAll
<1> HIDE DEF order
<1> DEFINE N == Len(order)
<1>11. N \in Nat /\ DOMAIN order = 1..N /\ \A n \in 1..N : order[n] \in usable BY <1>10, ElementOfSeq
<1> DEFINE Had(n) == {order[i] : i \in 1..n}
           P(n, pack) == /\ Packing(pack, Had(n), considered, budget)
                         /\ pack.selected \cup pack.rejected = (considered \ usable) \cup Had(n)
                         /\ pack.rejected \subseteq (considered \ usable) \cup Had(n)
           D == [built : BOOLEAN, selected : SUBSET considered, rejected : SUBSET considered,
                 tokens : Nat, budget : {budget}, seen : {considered}]
           G == [p \in (1..N) \X D |-> Add(p[2], order[p[1]])]
<1>12. start = [built |-> TRUE, selected |-> {}, rejected |-> considered \ usable, tokens |-> 0,
                budget |-> budget, seen |-> considered]
  OBVIOUS
<1> HIDE DEF start, N
<1>13. start \in D BY <1>12
<1>14. ASSUME NEW n \in 1..N, NEW p \in D PROVE Add(p, order[n]) \in D
  <2> DEFINE x == order[n]
  <2>1. x \in considered /\ x.tokens \in Nat BY <1>3, <1>5, <1>7, <1>11
  <2> HIDE DEF x
  <2>2. p = [built |-> p.built, selected |-> p.selected, rejected |-> p.rejected, tokens |-> p.tokens,
             budget |-> p.budget, seen |-> p.seen]
    OBVIOUS
  <2>3. Reject(p, x) \in D BY <2>1 DEF Reject
  <2>4. [p EXCEPT !.selected = @ \cup {x}, !.tokens = @ + x.tokens] \in D
    <3>1. p.tokens + x.tokens \in Nat BY <2>1
    <3> QED BY <2>1, <3>1
  <2> HIDE DEF D
  <2> QED BY <2>3, <2>4 DEF Add, x
<1> HIDE DEF D
<1>15. G \in [(1..N) \X D -> D] BY <1>14
<1>16. PICK g : IsRun(g, N, D, start, G)
  <2>1. \E g : IsRun(g, N, D, start, G)
    <3> HIDE DEF G
    <3> QED BY <1>11, <1>13, <1>15, Recursion DEF N
  <2> QED BY <2>1
<1>17. /\ g \in [0..N -> D] /\ g[0] = start
       /\ \A n \in 1..N : n - 1 \in 0..N /\ g[n - 1] \in D /\ g[n] = Add(g[n - 1], order[n])
  BY <1>16 DEF IsRun
<1> HIDE DEF G
<1>18. N \in Nat BY <1>11 DEF N
<1>19. g = [n \in 0..N |-> IF n = 0 THEN start ELSE Add(g[n - 1], order[n])]
  <2>1. \A n \in 0..N : n # 0 => n \in 1..N BY <1>18
  <2> QED BY <1>17, <2>1
<1>20. F = [n \in 0..N |-> IF n = 0 THEN start ELSE Add(F[n - 1], order[n])] BY <1>19 DEF N
<1> HIDE DEF F
<1>21. F[0] = start /\ \A n \in 1..N : F[n] = Add(F[n - 1], order[n])
  <2>1. \A n \in 1..N : n \in 0..N /\ n # 0 BY <1>18
  <2>2. 0 \in 0..N BY <1>18
  <2> QED BY <1>20, <2>1, <2>2
<1> DEFINE T == {n \in 0..N : P(n, F[n])}
<1>22. 0 \in T
  <2>1. Had(0) = {} OBVIOUS
  <2>2. /\ start.built = TRUE /\ start.budget = budget /\ start.seen = considered /\ start.selected = {}
        /\ start.rejected = considered \ usable /\ start.tokens = 0
    BY <1>12
  <2> DEFINE f == [item \in considered |-> item.tokens]
  <2>3. Total({}, f) = 0
    <3>1. \A x \in considered : f[x] \in Nat BY <1>3, <1>5
    <3> HIDE DEF f
    <3> QED BY <1>6, <3>1, TotalHas
  <2>4. Cardinality({}) = 0 /\ MaxSelected \in Nat BY FS_EmptySet, MemoryAssumption
  <2>5. Packing(start, {}, considered, budget)
    <3>1. start = [built |-> start.built, selected |-> start.selected, rejected |-> start.rejected,
                   tokens |-> start.tokens, budget |-> start.budget, seen |-> start.seen]
      BY <1>12, <2>2
    <3> QED BY <2>2, <2>3, <2>4, <3>1 DEF Packing
  <2>6. P(0, start) BY <2>1, <2>2, <2>5
  <2>7. 0 \in 0..N BY <1>18
  <2> HIDE DEF P
  <2> QED BY <1>21, <2>6, <2>7
<1>23. ASSUME NEW n \in 0..(N - 1), n \in T PROVE n + 1 \in T
  <2> DEFINE x == order[n + 1]
             p == F[n]
  <2>1. n \in Nat /\ n + 1 \in 1..N /\ n + 1 \in 0..N /\ (n + 1) - 1 = n /\ \A i \in 1..(n + 1) : i = n + 1 \/ i \in 1..n
    BY <1>18
  <2>2. F[n + 1] = Add(p, x) BY <1>21, <2>1
  <2>3. P(n, p) BY <1>23
  <2>4. x \in usable /\ x \in considered BY <1>7, <1>11, <2>1 DEF N
  <2>5. x \notin Had(n)
    <3> SUFFICES ASSUME NEW i \in 1..n, order[i] = order[n + 1] PROVE FALSE
      OBVIOUS
    <3>1. i \in 1..N /\ i # n + 1 BY <1>18, <2>1
    <3> QED BY <1>10, <2>1, <3>1 DEF OnceEach, N
  <2>6. Had(n + 1) = Had(n) \cup {x}
    <3>1. 1..(n + 1) = 1..n \cup {n + 1} BY <2>1
    <3> QED BY <3>1
  <2>7. Had(n) \subseteq considered
    <3>1. \A i \in 1..n : i \in 1..N BY <1>18, <2>1
    <3> QED BY <1>7, <1>11, <3>1 DEF N
  <2> DEFINE H == Had(n)
             seen == considered
  <2>8. x \notin p.rejected BY <2>3, <2>4, <2>5
  <2>9. \A y \in seen : y.tokens \in Nat BY <1>3, <1>5
  <2>10. Packing(p, H, seen, budget) BY <2>3
  <2> HIDE DEF H, p, x, P
  <2>11. /\ Packing(Add(p, x), H \cup {x}, seen, budget)
         /\ Add(p, x).selected \cup Add(p, x).rejected = (p.selected \cup p.rejected) \cup {x}
         /\ Add(p, x).rejected \subseteq p.rejected \cup {x}
    <3>1. IsFiniteSet(seen) /\ H \subseteq seen /\ x \in seen /\ x \notin H BY <1>6, <2>4, <2>5, <2>7 DEF H
    <3> HIDE DEF seen
    <3> QED BY <2>8, <2>9, <2>10, <3>1, AddedFits
  <2>12. P(n + 1, Add(p, x))
    <3>1. p.selected \cup p.rejected = (considered \ usable) \cup H /\ p.rejected \subseteq (considered \ usable) \cup H
      BY <2>3 DEF P, H
    <3>2. Had(n + 1) = H \cup {x} BY <2>6 DEF H
    <3> HIDE DEF Had
    <3> QED BY <2>11, <3>1, <3>2 DEF P
  <2> QED BY <2>1, <2>2, <2>12
<1>24. P(N, F[N])
  <2> HIDE DEF P
  <2>1. 0..N \subseteq T
    <3> HIDE DEF T
    <3> QED BY <1>18, <1>22, <1>23, Induction
  <2>2. N \in 0..N BY <1>18
  <2> QED BY <2>1, <2>2
<1>25. Had(N) = usable BY <1>10, <1>11 DEF In, N
<1> DEFINE p == F[N]
<1>26. /\ p.budget = budget /\ p.seen = considered /\ p.selected \subseteq usable /\ p.selected \cap p.rejected = {}
       /\ Cardinality(p.selected) <= MaxSelected /\ p.tokens <= budget
       /\ p.tokens = Total(p.selected, [item \in considered |-> item.tokens])
       /\ p.selected \cup p.rejected = (considered \ usable) \cup usable
  <2> HIDE DEF p, Had
  <2> QED BY <1>24, <1>25 DEF Packing, p
<1>27. \A i, j \in p.selected : i.hash = j.hash => i = j BY <1>2, <1>5, <1>7, <1>26
<1>28. \A i \in p.selected : CanEnterContext(i) BY <1>8, <1>26
<1>29. TokensOf(p.selected) = p.tokens
  <2>1. \A x \in p.selected : [item \in considered |-> item.tokens][x] = [item \in p.selected |-> item.tokens][x]
    BY <1>7, <1>26
  <2> DEFINE f == [item \in considered |-> item.tokens]
             h == [item \in p.selected |-> item.tokens]
  <2> HIDE DEF f, h, p
  <2>2. \A x \in p.selected : f[x] = h[x] BY <2>1 DEF f, h
  <2>3. Total(p.selected, f) = Total(p.selected, h) BY <2>2 DEF Total
  <2> QED BY <1>26, <2>3 DEF TokensOf, f, h
<1>30. p.seen = p.selected \cup p.rejected BY <1>7, <1>26
<1>31. TokensOf(p.selected) <= p.budget BY <1>26, <1>29
<1> HIDE DEF p
<1> QED BY <1>1, <1>26, <1>27, <1>28, <1>30, <1>31 DEF PackFits, p, N
-----------------------------------------------------------------------------
\* A changed status, or an id of the row that says the same, leaves an item one.
LEMMA ChangedItem ==
    ASSUME NEW x, IsItem(x)
    PROVE  /\ \A status \in {"used", "rejected", "stale"} : IsItem([x EXCEPT !.status = status])
           /\ \A id : IsItem([x EXCEPT !.id = id])
<1>1. x = [id |-> x.id, hash |-> x.hash, kind |-> x.kind, source |-> x.source, url |-> x.url,
            tokens |-> x.tokens, weight |-> x.weight, claim |-> x.claim, status |-> x.status]
  BY DEF IsItem
<1>2. ASSUME NEW id PROVE IsItem([x EXCEPT !.id = id])
  <2> DEFINE y == [x EXCEPT !.id = id]
  <2>1. y = [id |-> id, hash |-> x.hash, kind |-> x.kind, source |-> x.source, url |-> x.url,
            tokens |-> x.tokens, weight |-> x.weight, claim |-> x.claim, status |-> x.status]
    BY <1>1
  <2> HIDE DEF y
  <2>2. y.id = id /\ y.hash = x.hash /\ y.kind = x.kind /\ y.source = x.source /\ y.url = x.url
        /\ y.tokens = x.tokens /\ y.weight = x.weight /\ y.claim = x.claim /\ y.status = x.status
    BY <2>1
  <2>3. IsItem(y) BY <2>1, <2>2 DEF IsItem, Untrusted
  <2> QED BY <2>3 DEF y
<1>3. ASSUME NEW status \in {"used", "rejected", "stale"} PROVE IsItem([x EXCEPT !.status = status])
  <2> DEFINE y == [x EXCEPT !.status = status]
  <2>1. y = [id |-> x.id, hash |-> x.hash, kind |-> x.kind, source |-> x.source, url |-> x.url,
            tokens |-> x.tokens, weight |-> x.weight, claim |-> x.claim, status |-> status]
    BY <1>1
  <2> HIDE DEF y
  <2>2. y.id = x.id /\ y.hash = x.hash /\ y.kind = x.kind /\ y.source = x.source /\ y.url = x.url
        /\ y.tokens = x.tokens /\ y.weight = x.weight /\ y.claim = x.claim /\ y.status = status
    BY <2>1
  <2>3. IsItem(y) BY <2>1, <2>2 DEF IsItem, Untrusted
  <2> QED BY <2>3 DEF y
<1> QED BY <1>2, <1>3

\* What the guardrails let through is an item.
LEMMA GuardedIsItem ==
    ASSUME NEW e \in Sources
    PROVE  IsItem(Guarded(MemoryItem(e)))
<1> DEFINE x == MemoryItem(e)
           y == [x EXCEPT !.status = "candidate"]
<1>1. x = [id |-> x.id, hash |-> x.hash, kind |-> x.kind, source |-> x.source, url |-> x.url,
            tokens |-> x.tokens, weight |-> x.weight, claim |-> x.claim, status |-> x.status]
      /\ x.tokens = e.tokens /\ x.weight \in Nat
  BY DEF MemoryItem
<1>2. e.tokens \in Nat BY MemoryAssumption
<1> HIDE DEF x
<1>3. CASE Untrusted(x) /\ x.status = "active"
  <2>1. y = [id |-> x.id, hash |-> x.hash, kind |-> x.kind, source |-> x.source, url |-> x.url,
            tokens |-> x.tokens, weight |-> x.weight, claim |-> x.claim, status |-> "candidate"]
    BY <1>1
  <2> HIDE DEF y
  <2>2. y.id = x.id /\ y.hash = x.hash /\ y.kind = x.kind /\ y.source = x.source /\ y.url = x.url
        /\ y.tokens = x.tokens /\ y.weight = x.weight /\ y.claim = x.claim /\ y.status = "candidate"
    BY <2>1
  <2>3. IsItem(y) BY <1>1, <1>2, <2>1, <2>2 DEF IsItem
  <2> QED BY <1>3, <2>3 DEF Guarded, y, x
<1>4. CASE ~(Untrusted(x) /\ x.status = "active")
  <2>1. IsItem(x) BY <1>1, <1>2, <1>4 DEF IsItem
  <2> QED BY <1>4, <2>1 DEF Guarded, x
<1> QED BY <1>3, <1>4

LEMMA MemorySteps == MemoryInv /\ [MemoryNext]_memoryVars => MemoryInv'
<1> SUFFICES ASSUME MemoryInv, [MemoryNext]_memoryVars PROVE MemoryInv'
  OBVIOUS
<1>c. MemoryCall => memoryCalls' \in 0..MaxMemoryCalls
  BY MemoryAssumption DEF MemoryCall, MemoryInv, MemoryTypeOK
<1>h. ASSUME NEW u \in MemoryUsers, NEW doing \in {"find", "write"}, NEW x, IsItem(x), Holds(u, doing, x),
             memories' = memories, contextPack' = contextPack, memoryCalls' \in 0..MaxMemoryCalls
      PROVE  MemoryInv'
  <2>1. memoryUser' = [memoryUser EXCEPT ![u] = [stage |-> doing, item |-> {x}]] BY <1>h DEF Holds
  <2>2. memoryUser = [v \in MemoryUsers |-> memoryUser[v]] BY DEF MemoryInv
  <2>3. memoryUser' = [v \in MemoryUsers |-> memoryUser'[v]]
        /\ \A v \in MemoryUsers : memoryUser'[v] = IF v = u THEN [stage |-> doing, item |-> {x}] ELSE memoryUser[v]
    BY <2>1, <2>2
  <2>4. \A v \in MemoryUsers : memoryUser'[v].stage \in {"idle", "find", "write"} /\ \A y \in memoryUser'[v].item : IsItem(y)
    BY <1>h, <2>3 DEF MemoryInv, MemoryTypeOK
  <2> QED BY <1>h, <2>3, <2>4 DEF MemoryInv, MemoryTypeOK
<1>1. CASE UNCHANGED memoryVars BY <1>1 DEF memoryVars, MemoryInv, MemoryTypeOK
<1>2. ASSUME NEW u \in MemoryUsers, Ingest(u) PROVE MemoryInv'
  <2>1. PICK e \in Sources : Holds(u, "find", Guarded(MemoryItem(e))) BY <1>2 DEF Ingest
  <2>2. memories' = memories /\ contextPack' = contextPack /\ MemoryCall BY <1>2 DEF Ingest
  <2>3. IsItem(Guarded(MemoryItem(e))) BY GuardedIsItem
  <2> QED BY <1>c, <1>h, <2>1, <2>2, <2>3
<1>3. ASSUME NEW u \in MemoryUsers, Transition(u) PROVE MemoryInv'
  <2>1. PICK x \in memories, status \in {"used", "rejected", "stale"} : Holds(u, "find", [x EXCEPT !.status = status])
    BY <1>3 DEF Transition
  <2>2. memories' = memories /\ contextPack' = contextPack /\ MemoryCall BY <1>3 DEF Transition
  <2>3. IsItem([x EXCEPT !.status = status]) BY ChangedItem DEF MemoryInv, AreItems
  <2> QED BY <1>c, <1>h, <2>1, <2>2, <2>3
<1>4. ASSUME NEW u \in MemoryUsers, FindByHash(u) PROVE MemoryInv'
  <2>1. PICK x \in memoryUser[u].item :
            (\E m \in memories : Holds(u, "write", [x EXCEPT !.id = m.id])) \/ Holds(u, "write", x)
    BY <1>4 DEF FindByHash
  <2>2. memories' = memories /\ contextPack' = contextPack /\ memoryCalls' \in 0..MaxMemoryCalls
    BY <1>4 DEF FindByHash, MemoryInv, MemoryTypeOK
  <2>3. IsItem(x) BY DEF MemoryInv
  <2>4. \A id : IsItem([x EXCEPT !.id = id]) BY <2>3, ChangedItem
  <2>5. CASE Holds(u, "write", x) BY <1>h, <2>2, <2>3, <2>5
  <2>6. ASSUME NEW m \in memories, Holds(u, "write", [x EXCEPT !.id = m.id]) PROVE MemoryInv'
    <3>1. IsItem([x EXCEPT !.id = m.id]) BY <2>4
    <3> QED BY <1>h, <2>2, <2>6, <3>1
  <2> QED BY <2>1, <2>5, <2>6
<1>5. ASSUME NEW u \in MemoryUsers, WriteMemory(u) PROVE MemoryInv'
  <2>1. PICK x \in memoryUser[u].item :
          memories' = IF \E m \in memories : m.hash = x.hash /\ m.id # x.id THEN memories
                      ELSE {m \in memories : m.id # x.id} \cup {x}
    BY <1>5 DEF WriteMemory
  <2>2. memoryUser' = [memoryUser EXCEPT ![u] = IdleUser] /\ contextPack' = contextPack /\ memoryCalls' = memoryCalls
    BY <1>5 DEF WriteMemory
  <2>3. memoryUser = [v \in MemoryUsers |-> memoryUser[v]] BY DEF MemoryInv
  <2>4. memoryUser' = [v \in MemoryUsers |-> memoryUser'[v]]
        /\ \A v \in MemoryUsers : memoryUser'[v] = IF v = u THEN IdleUser ELSE memoryUser[v]
    BY <2>2, <2>3
  <2>5. \A v \in MemoryUsers : memoryUser'[v].stage \in {"idle", "find", "write"} /\ \A y \in memoryUser'[v].item : IsItem(y)
    BY <2>4 DEF IdleUser, MemoryInv, MemoryTypeOK
  <2>6. IsItem(x) /\ AreItems(memories) BY DEF MemoryInv
  <2>7. AreItems(memories')
    <3>1. CASE \E m \in memories : m.hash = x.hash /\ m.id # x.id BY <2>1, <2>6, <3>1
    <3>2. CASE ~\E m \in memories : m.hash = x.hash /\ m.id # x.id
      <4> DEFINE rest == {m \in memories : m.id # x.id}
      <4>1. memories' = rest \cup {x} BY <2>1, <3>2
      <4>2. rest \subseteq memories /\ \A m \in rest : m.id # x.id /\ m.hash # x.hash BY <3>2
      <4> HIDE DEF rest
      <4>3. IsFiniteSet(rest \cup {x}) BY <2>6, <4>2, FS_Subset, FS_AddElement DEF AreItems
      <4>4. \A m \in rest \cup {x} : IsItem(m) BY <2>6, <4>2 DEF AreItems
      <4>5. \A m, n \in rest \cup {x} : m.id = n.id \/ m.hash = n.hash => m = n BY <2>6, <4>2 DEF AreItems
      <4> QED BY <4>1, <4>3, <4>4, <4>5 DEF AreItems
    <3> QED BY <3>1, <3>2
  <2> QED BY <2>2, <2>4, <2>5, <2>7 DEF MemoryInv, MemoryTypeOK
<1>6. CASE BuildPack
  <2>1. PICK budget \in Budgets : contextPack' = BuildContext(memories, budget) BY <1>6 DEF BuildPack
  <2>2. UNCHANGED <<memories, memoryUser, memoryCalls>> BY <1>6 DEF BuildPack
  <2>3. budget \in Nat BY MemoryAssumption
  <2>4. AreItems(memories) BY DEF MemoryInv
  <2>5. PackFits(contextPack') BY <2>1, <2>3, <2>4, ContextFits
  <2> QED BY <2>2, <2>5 DEF MemoryInv, MemoryTypeOK
<1> QED BY <1>1, <1>2, <1>3, <1>4, <1>5, <1>6 DEF MemoryNext

LEMMA MemoryInvSuffices == MemoryInv => MemoryTypeOK /\ MemoryHolds
  BY DEF MemoryInv, AreItems, IsItem, Untrusted, MemoryHolds, UniqueMemories

\* For all sources, budgets and bounds, and however writers interleave: no two
\* rows of the memory say the same or have one id, no hypothesis and nothing of
\* the web or the news is active whatever status was asked for, and a context fits
\* its budget and accounts for all it saw.
THEOREM MemorySound == MemorySpec => [](MemoryTypeOK /\ MemoryHolds)
  BY MemoryInitInv, MemorySteps, MemoryInvSuffices, PTL DEF MemorySpec

-----------------------------------------------------------------------------
(* FinancialFacts, for any filings, days and policies: a derived point is made *)
(* of facts that were known, whatever was derived from what before it.         *)

PointKinds == {"instant", "annual", "quarter", "year_to_date", "ttm", "unknown"}

\* Points made of facts of K.
MadeOf(points, K) == \A p \in points : p.sources \subseteq K /\ p.kind \in PointKinds

LEMMA PointHas ==
    ASSUME NEW metric, NEW kind, NEW fp, NEW start, NEW end, NEW value, NEW derived, NEW sources
    PROVE  /\ MetricPoint(metric, kind, fp, start, end, value, derived, sources).sources = sources
           /\ MetricPoint(metric, kind, fp, start, end, value, derived, sources).kind = kind
           /\ MetricPoint(metric, kind, fp, start, end, value, derived, sources).derived = derived
  BY DEF MetricPoint

LEMMA QuartersMadeOf ==
    ASSUME NEW K, NEW points, MadeOf(points, K)
    PROVE  MadeOf(DeriveDiscreteQuarters(points), K)
<1> SUFFICES ASSUME NEW p \in DeriveDiscreteQuarters(points) PROVE p.sources \subseteq K /\ p.kind \in PointKinds
  BY DEF MadeOf
<1>1. PICK rule \in QuarterRules : p \in DeriveQuarters(points, rule) BY DEF DeriveDiscreteQuarters
<1>2. PICK c \in points, q \in points : p = Difference(c, q, rule.gives, rule.how)
  BY <1>1 DEF DeriveQuarters
<1>3. p.sources = c.sources \cup q.sources /\ p.kind = "quarter" BY <1>2, PointHas DEF Difference
<1> QED BY <1>3 DEF MadeOf, PointKinds

LEMMA CombinedMadeOf ==
    ASSUME NEW K, NEW points, MadeOf(points, K), NEW first, NEW second, NEW metric, NEW value(_, _)
    PROVE  MadeOf(Combine(points, first, second, metric, value), K)
<1> SUFFICES ASSUME NEW p \in Combine(points, first, second, metric, value) PROVE p.sources \subseteq K /\ p.kind \in PointKinds
  BY DEF MadeOf
<1>1. PICK c \in points, q \in points : p = MetricPoint(metric, c.kind, c.fp, c.start, c.end, value(c.value, q.value), metric, c.sources \cup q.sources)
  BY DEF Combine
<1>2. p.sources = c.sources \cup q.sources /\ p.kind = c.kind BY <1>1, PointHas
<1> QED BY <1>2 DEF MadeOf

LEMMA TtmMadeOf ==
    ASSUME NEW K, NEW points, MadeOf(points, K)
    PROVE  MadeOf(DeriveTtm(points), K)
<1> SUFFICES ASSUME NEW p \in DeriveTtm(points) PROVE p.sources \subseteq K /\ p.kind \in PointKinds
  BY DEF MadeOf
<1>1. \E window \in SUBSET points : \E m, fp, start, end, value :
          p = MetricPoint(m, "ttm", fp, start, end, value, "ttm", UNION {q.sources : q \in window})
  <2>1. PICK m \in TtmMetrics :
          LET series == SeriesOf(points, m, "quarter") IN
          \E c \in series :
             LET window == LastUpTo(series, c, 4)
                 first == CHOOSE q \in window : \A r \in window : q.end <= r.end IN
             p = MetricPoint(m, "ttm", c.fp, first.start, c.end, TotalOf(window), "ttm", UNION {q.sources : q \in window})
    BY DEF DeriveTtm
  <2> DEFINE series == SeriesOf(points, m, "quarter")
  <2>2. PICK c \in series :
             LET window == LastUpTo(series, c, 4)
                 first == CHOOSE q \in window : \A r \in window : q.end <= r.end IN
             p = MetricPoint(m, "ttm", c.fp, first.start, c.end, TotalOf(window), "ttm", UNION {q.sources : q \in window})
    BY <2>1
  <2>3. LastUpTo(series, c, 4) \subseteq points BY DEF LastUpTo, SeriesOf
  <2> DEFINE window == LastUpTo(series, c, 4)
             start == (CHOOSE q \in window : \A r \in window : q.end <= r.end).start
             value == TotalOf(window)
  <2>4. p = MetricPoint(m, "ttm", c.fp, start, c.end, value, "ttm", UNION {q.sources : q \in window}) BY <2>2
  <2>5. window \in SUBSET points BY <2>3
  <2> HIDE DEF start, value, window
  <2> QED BY <2>4, <2>5
<1>2. PICK window \in SUBSET points : \E m, fp, start, end, value :
          p = MetricPoint(m, "ttm", fp, start, end, value, "ttm", UNION {q.sources : q \in window})
  BY <1>1
<1>3. p.sources = UNION {q.sources : q \in window} /\ p.kind = "ttm"
  BY <1>2 DEF MetricPoint
<1> QED BY <1>3 DEF MadeOf, PointKinds

LEMMA MarginsMadeOf ==
    ASSUME NEW K, NEW points, MadeOf(points, K)
    PROVE  MadeOf(DeriveMargins(points), K)
<1> DEFINE earning == {p \in points : p.metric # "revenue" \/ p.value # 0}
<1>1. MadeOf(earning, K) BY DEF MadeOf
<1> HIDE DEF earning
<1>2. \A m : MadeOf(Combine(earning, m, "revenue", MarginOf[m], Percent), K)
  BY <1>1, CombinedMadeOf
<1>3. \A p \in DeriveMargins(points) : \E m :
          p \in Combine(earning, m, "revenue", MarginOf[m], Percent)
  BY DEF DeriveMargins, earning
<1> QED BY <1>2, <1>3 DEF MadeOf

LEMMA BothMadeOf ==
    ASSUME NEW K, NEW P, NEW Q, MadeOf(P, K), MadeOf(Q, K)
    PROVE  MadeOf(P \cup Q, K)
  BY DEF MadeOf

LEMMA BuiltMadeOf ==
    ASSUME NEW rows, NEW asOf, NEW policy
    PROVE  MadeOf(BuildPoints(rows, asOf, policy), {f.n : f \in {g \in rows : Usable(g, asOf)}})
<1> DEFINE used == {g \in rows : Usable(g, asOf)}
           K == {f.n : f \in used}
           reported == {ToPoint(f) : f \in DedupeFacts(used, policy)}
           quarters == reported \cup DeriveDiscreteQuarters(reported)
           debts == quarters \cup DeriveTotalDebt(quarters)
           flows == debts \cup DeriveFreeCashFlow(debts)
           sums == flows \cup DeriveTtm(flows)
<1>1. MadeOf(reported, K)
  <2> SUFFICES ASSUME NEW f \in DedupeFacts(used, policy)
               PROVE  ToPoint(f).sources \subseteq K /\ ToPoint(f).kind \in PointKinds
    BY DEF MadeOf
  <2>1. f \in used BY DEF DedupeFacts
  <2>2. ToPoint(f).sources = {f.n} /\ ToPoint(f).kind = FactKind(f) BY PointHas DEF ToPoint
  <2>3. FactKind(f) \in PointKinds BY DEF FactKind, PointKinds
  <2>4. f.n \in K BY <2>1
  <2> QED BY <2>2, <2>3, <2>4
<1>2. BuildPoints(rows, asOf, policy) = sums \cup DeriveMargins(sums) BY DEF BuildPoints
<1> HIDE DEF reported, K
<1>3. MadeOf(quarters, K) BY <1>1, QuartersMadeOf, BothMadeOf
<1> HIDE DEF quarters
<1>4. MadeOf(debts, K) BY <1>3, CombinedMadeOf, BothMadeOf DEF DeriveTotalDebt
<1> HIDE DEF debts
<1>5. MadeOf(flows, K) BY <1>4, CombinedMadeOf, BothMadeOf DEF DeriveFreeCashFlow
<1> HIDE DEF flows
<1>6. MadeOf(sums, K) BY <1>5, TtmMadeOf, BothMadeOf
<1> HIDE DEF sums
<1>7. MadeOf(sums \cup DeriveMargins(sums), K) BY <1>6, MarginsMadeOf, BothMadeOf
<1> QED BY <1>2, <1>7 DEF K

\* A change is between two points.
LEMMA ChangesMadeOf ==
    ASSUME NEW K, NEW points, MadeOf(points, K), NEW x \in DeriveChanges(points)
    PROVE  x.sources \subseteq K
<1>1. \E p, q \in points : \E type : x = Change(p, q, type)
  <2>1. PICK m : \/ x \in ChangesInSeries(SeriesOf(points, m, "quarter"), "qoq", QuarterMonths, 1)
                 \/ x \in ChangesOverYear(SeriesOf(points, m, "quarter"))
                 \/ x \in ChangesInSeries(SeriesOf(points, m, "ttm"), "ttm_yoy", YearMonths, 4)
                 \/ x \in ChangesInSeries(SeriesOf(points, m, "annual"), "annual_yoy", YearMonths, 1)
    BY DEF DeriveChanges
  <2>2. \A kind : SeriesOf(points, m, kind) \subseteq points BY DEF SeriesOf
  <2>3. ASSUME NEW series, series \subseteq points, NEW type, NEW months, NEW nth,
               x \in ChangesInSeries(series, type, months, nth)
        PROVE  \E p, q \in points : x = Change(p, q, type)
    BY <2>3 DEF ChangesInSeries
  <2>4. ASSUME NEW series, series \subseteq points, x \in ChangesOverYear(series)
        PROVE  \E p, q \in points : x = Change(p, q, "yoy")
    BY <2>4 DEF ChangesOverYear
  <2>5. CASE x \in ChangesInSeries(SeriesOf(points, m, "quarter"), "qoq", QuarterMonths, 1) BY <2>2, <2>3, <2>5
  <2>6. CASE x \in ChangesOverYear(SeriesOf(points, m, "quarter")) BY <2>2, <2>4, <2>6
  <2>7. CASE x \in ChangesInSeries(SeriesOf(points, m, "ttm"), "ttm_yoy", YearMonths, 4) BY <2>2, <2>3, <2>7
  <2>8. CASE x \in ChangesInSeries(SeriesOf(points, m, "annual"), "annual_yoy", YearMonths, 1) BY <2>2, <2>3, <2>8
  <2> QED BY <2>1, <2>5, <2>6, <2>7, <2>8
<1>2. PICK p \in points, q \in points : \E type : x = Change(p, q, type) BY <1>1
<1>3. x.sources = p.sources \cup q.sources BY <1>2 DEF Change
<1> QED BY <1>3 DEF MadeOf

-----------------------------------------------------------------------------
(* The points of a snapshot that were reported with a day are those of the facts *)
(* that have one, and these do not depend on the facts that have none.           *)

Derivations(points) == \A p \in points : p.derived # "no"

LEMMA CombinedIsDerived ==
    ASSUME NEW points, NEW first, NEW second, NEW metric, metric # "no", NEW value(_, _)
    PROVE  Derivations(Combine(points, first, second, metric, value))
<1> SUFFICES ASSUME NEW p \in Combine(points, first, second, metric, value) PROVE p.derived = metric
  BY DEF Derivations
<1>1. PICK c \in points, q \in points : p = MetricPoint(metric, c.kind, c.fp, c.start, c.end, value(c.value, q.value), metric, c.sources \cup q.sources)
  BY DEF Combine
<1> QED BY <1>1, PointHas

LEMMA DerivedSaysSo ==
    ASSUME NEW points
    PROVE  /\ Derivations(DeriveDiscreteQuarters(points)) /\ Derivations(DeriveTotalDebt(points))
           /\ Derivations(DeriveFreeCashFlow(points)) /\ Derivations(DeriveTtm(points))
           /\ Derivations(DeriveMargins(points))
<1>1. Derivations(DeriveDiscreteQuarters(points))
  <2> SUFFICES ASSUME NEW p \in DeriveDiscreteQuarters(points) PROVE p.derived # "no"
    BY DEF Derivations
  <2>1. PICK rule \in QuarterRules : p \in DeriveQuarters(points, rule) BY DEF DeriveDiscreteQuarters
  <2>2. PICK c \in points, q \in points : p = Difference(c, q, rule.gives, rule.how)
    BY <2>1 DEF DeriveQuarters
  <2>3. p.derived = rule.how BY <2>2, PointHas DEF Difference
  <2>4. rule.how # "no"
    <3>1. \/ rule = [of |-> "year_to_date", less |-> "quarter", after |-> "Q1", gives |-> "Q2", how |-> "Q2 YTD - Q1"]
          \/ rule = [of |-> "year_to_date", less |-> "year_to_date", after |-> "Q2", gives |-> "Q3", how |-> "Q3 YTD - Q2"]
          \/ rule = [of |-> "annual", less |-> "year_to_date", after |-> "Q3", gives |-> "Q4", how |-> "FY - Q3 YTD"]
      BY DEF QuarterRules
    <3>2. CASE rule = [of |-> "year_to_date", less |-> "quarter", after |-> "Q1", gives |-> "Q2", how |-> "Q2 YTD - Q1"]
      <4>1. rule.how = "Q2 YTD - Q1" BY ONLY <3>2, Zenon
      <4> QED BY <4>1
    <3>3. CASE rule = [of |-> "year_to_date", less |-> "year_to_date", after |-> "Q2", gives |-> "Q3", how |-> "Q3 YTD - Q2"]
      <4>1. rule.how = "Q3 YTD - Q2" BY ONLY <3>3, Zenon
      <4> QED BY <4>1
    <3>4. CASE rule = [of |-> "annual", less |-> "year_to_date", after |-> "Q3", gives |-> "Q4", how |-> "FY - Q3 YTD"]
      <4>1. rule.how = "FY - Q3 YTD" BY ONLY <3>4, Zenon
      <4> QED BY <4>1
    <3> QED BY <3>1, <3>2, <3>3, <3>4
  <2> QED BY <2>3, <2>4
<1>2. Derivations(DeriveTotalDebt(points)) BY CombinedIsDerived DEF DeriveTotalDebt
<1>3. Derivations(DeriveFreeCashFlow(points)) BY CombinedIsDerived DEF DeriveFreeCashFlow
<1>4. Derivations(DeriveTtm(points))
  <2> SUFFICES ASSUME NEW p \in DeriveTtm(points) PROVE p.derived = "ttm"
    BY DEF Derivations
  <2>1. \E m, fp, start, end, value, sources : p = MetricPoint(m, "ttm", fp, start, end, value, "ttm", sources)
    <3>1. PICK m \in TtmMetrics :
            LET series == SeriesOf(points, m, "quarter") IN
            \E c \in series :
               LET window == LastUpTo(series, c, 4)
                   first == CHOOSE q \in window : \A r \in window : q.end <= r.end IN
               p = MetricPoint(m, "ttm", c.fp, first.start, c.end, TotalOf(window), "ttm", UNION {q.sources : q \in window})
      BY DEF DeriveTtm
    <3> DEFINE series == SeriesOf(points, m, "quarter")
    <3>2. PICK c \in series :
            LET window == LastUpTo(series, c, 4)
                first == CHOOSE q \in window : \A r \in window : q.end <= r.end IN
            p = MetricPoint(m, "ttm", c.fp, first.start, c.end, TotalOf(window), "ttm", UNION {q.sources : q \in window})
      BY <3>1
    <3> DEFINE window == LastUpTo(series, c, 4)
               start == (CHOOSE q \in window : \A r \in window : q.end <= r.end).start
               value == TotalOf(window)
               sources == UNION {q.sources : q \in window}
    <3>3. p = MetricPoint(m, "ttm", c.fp, start, c.end, value, "ttm", sources) BY <3>2
    <3> HIDE DEF start, value, window, sources
    <3> QED BY <3>3
  <2> QED BY <2>1, PointHas
<1>5. Derivations(DeriveMargins(points))
  <2> DEFINE earning == {p \in points : p.metric # "revenue" \/ p.value # 0}
  <2>1. \A m \in DOMAIN MarginOf : MarginOf[m] # "no" BY DEF MarginOf
  <2>2. \A p \in DeriveMargins(points) : \E m \in DOMAIN MarginOf :
            p \in Combine(earning, m, "revenue", MarginOf[m], Percent)
    BY DEF DeriveMargins
  <2> HIDE DEF earning
  <2>3. \A m \in DOMAIN MarginOf : Derivations(Combine(earning, m, "revenue", MarginOf[m], Percent))
    BY <2>1, CombinedIsDerived
  <2> QED BY <2>2, <2>3 DEF Derivations
<1> QED BY <1>1, <1>2, <1>3, <1>4, <1>5

Dated(rows) == {f \in rows : f.filed # Undated}

LEMMA DatedPointsOf ==
    ASSUME NEW rows, rows \subseteq Filings, NEW asOf, NEW policy
    PROVE  DatedPoints(BuildPoints(rows, asOf, policy))
             = {ToPoint(f) : f \in Dated(DedupeFacts({g \in rows : Usable(g, asOf)}, policy))}
<1> DEFINE kept == DedupeFacts({g \in rows : Usable(g, asOf)}, policy)
           reported == {ToPoint(f) : f \in kept}
           quarters == reported \cup DeriveDiscreteQuarters(reported)
           debts == quarters \cup DeriveTotalDebt(quarters)
           flows == debts \cup DeriveFreeCashFlow(debts)
           sums == flows \cup DeriveTtm(flows)
           points == sums \cup DeriveMargins(sums)
<1>1. BuildPoints(rows, asOf, policy) = points BY DEF BuildPoints
<1>2. kept \subseteq Filings BY DEF DedupeFacts
<1> HIDE DEF kept
<1>3. \A f \in kept : ToPoint(f).derived = "no" /\ ToPoint(f).sources = {f.n} BY PointHas DEF ToPoint
<1>4. \A f \in kept : FiledOn({f.n}) = {f.filed} BY <1>2, FinancialAssumption DEF FiledOn
<1>5. \A p \in points : p \in reported \/ p.derived # "no"
  <2> HIDE DEF reported
  <2>1. \A p \in quarters : p \in reported \/ p.derived # "no" BY DerivedSaysSo DEF Derivations
  <2> HIDE DEF quarters
  <2>2. \A p \in debts : p \in reported \/ p.derived # "no" BY <2>1, DerivedSaysSo DEF Derivations
  <2> HIDE DEF debts
  <2>3. \A p \in flows : p \in reported \/ p.derived # "no" BY <2>2, DerivedSaysSo DEF Derivations
  <2> HIDE DEF flows
  <2>4. \A p \in sums : p \in reported \/ p.derived # "no" BY <2>3, DerivedSaysSo DEF Derivations
  <2> HIDE DEF sums
  <2> QED BY <2>4, DerivedSaysSo DEF Derivations
<1>6. reported \subseteq points OBVIOUS
<1> HIDE DEF points
<1>7. DatedPoints(points) = {p \in reported : Undated \notin FiledOn(p.sources)}
  BY <1>3, <1>5, <1>6 DEF DatedPoints
<1>8. {p \in reported : Undated \notin FiledOn(p.sources)} = {ToPoint(f) : f \in Dated(kept)}
  BY <1>3, <1>4 DEF Dated
<1> QED BY <1>1, <1>7, <1>8 DEF kept

\* Whether a dated fact is kept is decided by the dated facts of its period.
LEMMA UndatedGivesWay ==
    ASSUME NEW used, used \subseteq Filings, NEW policy, NEW f \in Filings, f.filed = Undated
    PROVE  Dated(DedupeFacts(used \cup {f}, policy)) = Dated(DedupeFacts(used, policy))
<1> DEFINE allowed(some) == {g \in some : policy = "amended_only" => g.amended}
           same(g, some) == {h \in allowed(some) : h.metric = g.metric /\ h.end = g.end /\ FactKind(h) = FactKind(g)}
           more == used \cup {f}
<1>1. ASSUME NEW g \in Filings, g.filed # Undated
      PROVE  g \in DedupeFacts(more, policy) <=> g \in DedupeFacts(used, policy)
  <2>1. g # f BY <1>1
  <2>2. g \in allowed(more) <=> g \in allowed(used) BY <2>1
  <2>3. same(g, more) \ {g} \subseteq (same(g, used) \ {g}) \cup {f} /\ same(g, used) \subseteq same(g, more)
    OBVIOUS
  <2>4. \A h \in {f} : \/ policy = "original" /\ g.filed # Undated /\ h.filed = Undated
                       \/ policy # "original" /\ g.filed # Undated /\ h.filed = Undated
    BY <1>1
  <2> HIDE DEF same, allowed
  <2>5. KeptFacts(g, same(g, more), policy) <=> KeptFacts(g, same(g, used), policy)
    BY <2>3, <2>4 DEF KeptFacts
  <2>6. /\ g \in DedupeFacts(more, policy) <=> g \in allowed(more) /\ KeptFacts(g, same(g, more), policy)
        /\ g \in DedupeFacts(used, policy) <=> g \in allowed(used) /\ KeptFacts(g, same(g, used), policy)
    BY DEF DedupeFacts, same, allowed
  <2> QED BY <2>2, <2>5, <2>6
<1>2. DedupeFacts(more, policy) \subseteq Filings /\ DedupeFacts(used, policy) \subseteq Filings
  BY DEF DedupeFacts
<1> QED BY <1>1, <1>2 DEF Dated

-----------------------------------------------------------------------------
Earlier(asOf, some) == {f.n : f \in {g \in some : g.filed = Undated \/ g.filed <= asOf}}

\* What is filed with a day is filed by today, and a snapshot of an earlier day is
\* what the facts filed by then still give, but for those without a day.
FinancialInv ==
    /\ facts \subseteq Filings /\ today \in 0..LastDay
    /\ \A f \in facts : f.filed = Undated \/ f.filed <= today
    /\ snapshot.asOf \in Int /\ snapshot.at \in 0..today /\ snapshot.undated \subseteq facts
    /\ MadeOf(snapshot.points, Earlier(snapshot.asOf, facts))
    /\ \A x \in snapshot.changes : x.sources \subseteq Earlier(snapshot.asOf, facts)
    /\ RebuildsTheSame

LEMMA FinancialInitInv == FinancialInit => FinancialInv
<1> SUFFICES ASSUME FinancialInit PROVE FinancialInv
  OBVIOUS
<1>1. /\ facts = {} /\ today = 0 /\ snapshot.asOf = 0 /\ snapshot.at = 0
      /\ snapshot.points = {} /\ snapshot.changes = {} /\ snapshot.undated = {}
  BY DEF FinancialInit, NoSnapshot
<1>2. 0 \in 0..LastDay BY FinancialAssumption
<1> QED BY <1>1, <1>2 DEF FinancialInv, MadeOf, RebuildsTheSame

LEMMA FileKeeps ==
    ASSUME FinancialInv, File
    PROVE  FinancialInv'
<1> USE FinancialAssumption DEF FinancialInv
<1>1. PICK f \in Filings \ facts : f.filed \in {today, Undated} /\ facts' = facts \cup {f} /\ UNCHANGED <<today, snapshot>>
  BY DEF File
<1> DEFINE asOf == snapshot.asOf
           used(some) == {g \in some : Usable(g, asOf)}
<1>2. Earlier(asOf, facts) \subseteq Earlier(asOf, facts') BY <1>1 DEF Earlier
<1>3. MadeOf(snapshot.points, Earlier(asOf, facts')) BY <1>2 DEF MadeOf
<1>4. \A x \in snapshot.changes : x.sources \subseteq Earlier(asOf, facts') BY <1>2
<1>5. facts' \subseteq Filings /\ snapshot.undated \subseteq facts'
      /\ \A g \in facts' : g.filed = Undated \/ g.filed <= today
  BY <1>1
<1>6. CASE f.filed = today
  <2>1. f.filed # Undated BY <1>6
  <2>2. UndatedFacts(facts') = UndatedFacts(facts) BY <1>1, <2>1 DEF UndatedFacts
  <2>3. asOf < snapshot.at => used(facts') = used(facts)
    BY <1>1, <1>6, <2>1 DEF Usable
  <2>4. asOf < snapshot.at =>
          BuildPoints(facts', asOf, snapshot.policy) = BuildPoints(facts, asOf, snapshot.policy)
    BY <2>3 DEF BuildPoints
  <2>5. RebuildsTheSame' BY <1>1, <2>2, <2>4 DEF RebuildsTheSame
  <2> QED BY <1>1, <1>3, <1>4, <1>5, <2>5
<1>7. CASE f.filed = Undated
  <2>1. f \in UndatedFacts(facts') /\ f \notin snapshot.undated BY <1>1, <1>7 DEF UndatedFacts
  <2>2. used(facts') = used(facts) \cup {f} \/ used(facts') = used(facts)
    BY <1>1
  <2>3. used(facts) \subseteq Filings OBVIOUS
  <2> DEFINE policy == snapshot.policy
  <2>4. Dated(DedupeFacts(used(facts'), policy)) = Dated(DedupeFacts(used(facts), policy))
    <3> HIDE DEF used, policy
    <3> QED BY <1>1, <1>7, <2>2, <2>3, UndatedGivesWay
  <2>5. DatedPoints(BuildPoints(facts', asOf, policy)) = DatedPoints(BuildPoints(facts, asOf, policy))
    <3>1. /\ DatedPoints(BuildPoints(facts', asOf, policy)) = {ToPoint(g) : g \in Dated(DedupeFacts(used(facts'), policy))}
          /\ DatedPoints(BuildPoints(facts, asOf, policy)) = {ToPoint(g) : g \in Dated(DedupeFacts(used(facts), policy))}
      <4> HIDE DEF asOf, policy
      <4> QED BY <1>5, DatedPointsOf
    <3> HIDE DEF used
    <3> QED BY <2>4, <3>1
  <2>6. RebuildsTheSame' BY <1>1, <2>1, <2>5 DEF RebuildsTheSame
  <2> QED BY <1>1, <1>3, <1>4, <1>5, <2>6
<1> QED BY <1>1, <1>6, <1>7

LEMMA FinancialNextInv == FinancialInv /\ [FinancialNext]_financialVars => FinancialInv'
<1> SUFFICES ASSUME FinancialInv, [FinancialNext]_financialVars PROVE FinancialInv'
  OBVIOUS
<1> USE FinancialAssumption DEF FinancialInv
<1>1. CASE File BY <1>1, FileKeeps
<1>2. CASE NextDay
  <2>1. today < LastDay /\ today' = today + 1 /\ UNCHANGED <<facts, snapshot>> BY <1>2 DEF NextDay
  <2>2. today' \in 0..LastDay BY <2>1
  <2>3. ASSUME NEW f \in facts, f.filed # Undated PROVE f.filed <= today'
    <3>1. f.filed \in Int /\ f.filed <= today BY <2>3
    <3> QED BY <2>1, <3>1
  <2>4. snapshot.at \in 0..today' BY <2>1
  <2>5. RebuildsTheSame' BY <2>1 DEF RebuildsTheSame
  <2> QED BY <2>1, <2>2, <2>3, <2>4, <2>5
<1>3. CASE BuildSnapshot
  <2>1. PICK asOf \in AsOfDays, policy \in Policies :
          snapshot' = [asOf |-> asOf, policy |-> policy, at |-> today, undated |-> UndatedFacts(facts),
                       points |-> BuildPoints(facts, asOf, policy),
                       changes |-> DeriveChanges(BuildPoints(facts, asOf, policy))]
    BY <1>3 DEF BuildSnapshot
  <2>2. UNCHANGED <<facts, today>> BY <1>3 DEF BuildSnapshot
  <2> DEFINE points == BuildPoints(facts, asOf, policy)
             used == {f.n : f \in {g \in facts : Usable(g, asOf)}}
             known == Earlier(asOf, facts)
  <2>3. MadeOf(points, used) BY BuiltMadeOf
  <2>4. used \subseteq known BY DEF Usable, Earlier
  <2>5. snapshot'.asOf = asOf /\ snapshot'.at = today /\ snapshot'.policy = policy /\ snapshot'.points = points
        /\ snapshot'.changes = DeriveChanges(points) /\ snapshot'.undated = UndatedFacts(facts)
    BY <2>1
  <2> HIDE DEF points, used
  <2>6. MadeOf(points, known) BY <2>3, <2>4 DEF MadeOf
  <2>7. \A x \in DeriveChanges(points) : x.sources \subseteq used BY <2>3, ChangesMadeOf
  <2>8. asOf \in Int /\ today \in 0..today /\ UndatedFacts(facts) \subseteq facts BY DEF UndatedFacts
  <2>9. RebuildsTheSame' BY <2>2, <2>5 DEF RebuildsTheSame, points
  <2> QED BY <2>2, <2>4, <2>5, <2>6, <2>7, <2>8, <2>9
<1>4. CASE UNCHANGED financialVars
  BY <1>4 DEF financialVars, RebuildsTheSame, MadeOf
<1> QED BY <1>1, <1>2, <1>3, <1>4 DEF FinancialNext

\* A snapshot as of a day uses no fact whose filing day is later, and stays what
\* it is when later filings arrive; a fact without a day, which is in every
\* snapshot, never takes the place of one with a day (build_snapshot); under
\* every policy.
THEOREM SnapshotsArePointInTime == FinancialSpec => []SnapshotIsPointInTime
<1>1. FinancialSpec => []FinancialInv BY FinancialInitInv, FinancialNextInv, PTL DEF FinancialSpec
<1>2. FinancialInv => SnapshotIsPointInTime
  <2> SUFFICES ASSUME FinancialInv, NEW x \in snapshot.points \cup snapshot.changes,
                      NEW d \in FiledOn(x.sources) \ {Undated}
               PROVE  d <= snapshot.asOf
    BY DEF SnapshotIsPointInTime, KnowsOnlyTheFiled, FinancialInv
  <2>1. PICK f \in Filings : f.n \in x.sources /\ d = f.filed BY DEF FiledOn
  <2>2. x.sources \subseteq Earlier(snapshot.asOf, facts) BY DEF FinancialInv, MadeOf
  <2>3. PICK h \in facts : h.n = f.n /\ (h.filed = Undated \/ h.filed <= snapshot.asOf)
    BY <2>1, <2>2 DEF Earlier
  <2>4. h = f BY <2>1, <2>3, FinancialAssumption DEF FinancialInv
  <2> QED BY <2>1, <2>3, <2>4
<1> QED BY <1>1, <1>2, PTL

\* The kinds of the points are those there are, and facts are filed by the last day.
THEOREM FinancialTypeCorrect == FinancialSpec => []FinancialTypeOK
<1>1. FinancialSpec => []FinancialInv BY FinancialInitInv, FinancialNextInv, PTL DEF FinancialSpec
<1>2. FinancialInv => FinancialTypeOK BY DEF FinancialInv, FinancialTypeOK, MadeOf, PointKinds
<1> QED BY <1>1, <1>2, PTL

-----------------------------------------------------------------------------
(* The arithmetic of a snapshot, of filings on the months of a company: a      *)
(* metric has one quarter for each end, a trailing sum has the quarters of     *)
(* four ends in a row, and those of a year amount to it by cancelling out.     *)

\* A trailing sum is the sum of its four quarters.
LEMMA FourAmountTo ==
    ASSUME NEW a, NEW b, NEW c, NEW d, a # b, a # c, a # d, b # c, b # d, c # d,
           a.value \in Int, b.value \in Int, c.value \in Int, d.value \in Int
    PROVE  TotalOf({a, b, c, d}) = a.value + b.value + c.value + d.value
<1> DEFINE W == {a, b, c, d}
           f == [p \in W |-> p.value]
<1>1. IsFiniteSet(W)
  <2>1. IsFiniteSet({a}) BY FS_Singleton
  <2>2. IsFiniteSet({a} \cup {b}) BY <2>1, FS_AddElement
  <2>3. IsFiniteSet(({a} \cup {b}) \cup {c}) BY <2>2, FS_AddElement
  <2>4. IsFiniteSet((({a} \cup {b}) \cup {c}) \cup {d}) BY <2>3, FS_AddElement
  <2>5. W = (({a} \cup {b}) \cup {c}) \cup {d} OBVIOUS
  <2> HIDE DEF W
  <2> QED BY <2>4, <2>5
<1>2. f[a] = a.value /\ f[b] = b.value /\ f[c] = c.value /\ f[d] = d.value OBVIOUS
<1>3. \A x \in W : f[x] \in Int OBVIOUS
<1>4. {} \in SUBSET W /\ {a} \in SUBSET W /\ {a, b} \in SUBSET W /\ {a, b, c} \in SUBSET W
      /\ a \in W \ {} /\ b \in W \ {a} /\ c \in W \ {a, b} /\ d \in W \ {a, b, c}
  OBVIOUS
<1> HIDE DEF f
<1>5. /\ Balance({}, f) = 0
      /\ \A U \in SUBSET W : \A x \in W \ U :
            Balance(U, f) \in Int /\ Balance(U \cup {x}, f) = Balance(U, f) + f[x]
  <2> HIDE DEF W
  <2> QED BY <1>1, <1>3, BalanceHas
<1> HIDE DEF W
<1>6. {} \cup {a} = {a} /\ {a} \cup {b} = {a, b} /\ {a, b} \cup {c} = {a, b, c} /\ {a, b, c} \cup {d} = W BY DEF W
<1>7. Balance({} \cup {a}, f) = Balance({}, f) + f[a] BY <1>4, <1>5
<1>8. Balance({a}, f) = a.value BY <1>2, <1>5, <1>6, <1>7
<1>9. Balance({a} \cup {b}, f) = Balance({a}, f) + f[b] BY <1>4, <1>5
<1>10. Balance({a, b}, f) = a.value + b.value BY <1>2, <1>6, <1>8, <1>9
<1>11. Balance({a, b} \cup {c}, f) = Balance({a, b}, f) + f[c] BY <1>4, <1>5
<1>12. Balance({a, b, c}, f) = a.value + b.value + c.value BY <1>2, <1>6, <1>10, <1>11
<1>13. Balance({a, b, c} \cup {d}, f) = Balance({a, b, c}, f) + f[d] BY <1>4, <1>5
<1>14. Balance(W, f) = a.value + b.value + c.value + d.value BY <1>2, <1>6, <1>12, <1>13
<1> QED BY <1>14 DEF TotalOf, W, f

\* Quarters that end on the months of one grid, one for each end.
OnGrid(S, first) ==
    /\ IsFiniteSet(S)
    /\ \A p \in S : p.end \in Int /\ p.value \in Int /\ p.end % 3 = first % 3
    /\ \A p, q \in S : p.end = q.end => p = q

LEMMA GridGaps ==
    ASSUME NEW a \in Int, NEW b \in Int, a % 3 = b % 3
    PROVE  /\ b - a \in QuarterMonths => b = a + 3
           /\ a > b - 12 /\ a <= b => a \in {b - 9, b - 6, b - 3, b}
           /\ a < b => a <= b - 3
  BY DEF QuarterMonths

\* Of what ends before x in a window there is a last one, a quarter before.
LEMMA QuarterBelow ==
    ASSUME NEW W, NEW first \in 0..11, OnGrid(W, first), \A q \in W : \A r \in Before(W, q) : NextQuarter(r, q),
           NEW x \in W, NEW z \in W, z.end < x.end
    PROVE  \E y \in W : y.end = x.end - 3
<1> DEFINE gaps == {x.end - q.end : q \in {r \in W : r.end < x.end}}
<1>1. gaps \subseteq Nat /\ gaps # {} BY DEF OnGrid
<1> HIDE DEF gaps
<1>2. PICK m \in gaps : \A j \in gaps : m <= j BY <1>1, Smallest
<1>3. PICK y \in W : y.end < x.end /\ m = x.end - y.end BY <1>2 DEF gaps
<1>4. \A r \in W : r.end <= y.end \/ r.end >= x.end
  <2> SUFFICES ASSUME NEW r \in W, r.end < x.end PROVE r.end <= y.end
    BY DEF OnGrid
  <2>1. x.end - r.end \in gaps BY DEF gaps
  <2>2. x.end \in Int /\ r.end \in Int /\ y.end \in Int BY DEF OnGrid
  <2> QED BY <1>2, <1>3, <2>1, <2>2
<1>5. y \in Before(W, x) BY <1>3, <1>4 DEF Before
<1>6. x.end - y.end \in QuarterMonths BY <1>5 DEF NextQuarter
<1>7. x.end \in Int /\ y.end \in Int /\ y.end % 3 = x.end % 3 BY DEF OnGrid
<1> QED BY <1>3, <1>6, <1>7, GridGaps

LEMMA WindowIsFour ==
    ASSUME NEW S, NEW first \in 0..11, OnGrid(S, first), NEW p \in S, WindowHolds(LastUpTo(S, p, 4))
    PROVE  \E a, b, c \in S :
              /\ LastUpTo(S, p, 4) = {a, b, c, p}
              /\ a.end = p.end - 9 /\ b.end = p.end - 6 /\ c.end = p.end - 3
<1> DEFINE W == LastUpTo(S, p, 4)
<1>1. W \subseteq S /\ \A q \in W : q.end <= p.end BY DEF LastUpTo
<1>2. p \in W
  <2>1. {r \in S : p.end < r.end /\ r.end <= p.end} = {} BY DEF OnGrid
  <2>2. Cardinality({r \in S : p.end < r.end /\ r.end <= p.end}) = 0 BY <2>1, FS_EmptySet
  <2>3. p.end <= p.end BY DEF OnGrid
  <2> QED BY <2>2, <2>3 DEF LastUpTo
<1>3. Cardinality(W) = 4 /\ \A q \in W : \A r \in Before(W, q) : NextQuarter(r, q) BY DEF WindowHolds
<1> HIDE DEF W
<1>4. OnGrid(W, first) BY <1>1, FS_Subset DEF OnGrid
<1>5. \A q \in W : q.end \in Int BY <1>4 DEF OnGrid
<1>6. ASSUME NEW V, V \subseteq W, Cardinality(V) # 0 PROVE \E z : z \in V
  BY <1>6, FS_EmptySet
<1>7. Cardinality(W \ {p}) = 3 /\ IsFiniteSet(W \ {p})
  <2>1. IsFiniteSet(W) BY <1>4 DEF OnGrid
  <2> QED BY <1>2, <1>3, <2>1, FS_RemoveElement
<1>8. PICK c \in W : c.end = p.end - 3
  <2>1. PICK z \in W \ {p} : TRUE BY <1>6, <1>7
  <2>2. z.end < p.end BY <1>1, <1>2, <1>4, <1>5, <2>1 DEF OnGrid
  <2> QED BY <1>2, <1>3, <1>4, <2>1, <2>2, QuarterBelow
<1>9. Cardinality((W \ {p}) \ {c}) = 2 /\ IsFiniteSet((W \ {p}) \ {c})
  <2>1. c \in W \ {p} BY <1>2, <1>5, <1>8
  <2> QED BY <1>7, <2>1, FS_RemoveElement
<1>10. PICK b \in W : b.end = p.end - 6
  <2>1. PICK z \in (W \ {p}) \ {c} : TRUE BY <1>6, <1>9
  <2>2. z.end < p.end /\ z.end # c.end BY <1>1, <1>2, <1>4, <1>5, <2>1 DEF OnGrid
  <2>3. z.end <= p.end - 3
    <3>1. z.end % 3 = p.end % 3 BY <1>2, <1>4, <2>1 DEF OnGrid
    <3> QED BY <1>2, <1>5, <2>1, <2>2, <3>1, GridGaps
  <2>4. z.end < c.end BY <1>2, <1>5, <1>8, <2>1, <2>2, <2>3
  <2>5. PICK y \in W : y.end = c.end - 3 BY <1>3, <1>4, <1>8, <2>1, <2>4, QuarterBelow
  <2> QED BY <1>2, <1>5, <1>8, <2>5
<1>11. Cardinality(((W \ {p}) \ {c}) \ {b}) = 1 /\ IsFiniteSet(((W \ {p}) \ {c}) \ {b})
  <2>1. b \in (W \ {p}) \ {c} BY <1>2, <1>5, <1>8, <1>10
  <2> DEFINE V == (W \ {p}) \ {c}
  <2>2. IsFiniteSet(V) /\ Cardinality(V) = 2 /\ b \in V BY <1>9, <2>1
  <2> HIDE DEF V
  <2>3. IsFiniteSet(V \ {b}) /\ Cardinality(V \ {b}) = Cardinality(V) - 1 BY <2>2, FS_RemoveElement
  <2> QED BY <2>2, <2>3 DEF V
<1>12. PICK a \in W : a.end = p.end - 9
  <2>1. PICK z \in ((W \ {p}) \ {c}) \ {b} : TRUE BY <1>6, <1>11
  <2>2. z.end < p.end /\ z.end # c.end /\ z.end # b.end BY <1>1, <1>2, <1>4, <1>5, <2>1 DEF OnGrid
  <2>3. z.end % 3 = p.end % 3 /\ z.end % 3 = c.end % 3 BY <1>2, <1>4, <1>8, <2>1 DEF OnGrid
  <2>4. z.end <= p.end - 3 BY <1>2, <1>5, <2>1, <2>2, <2>3, GridGaps
  <2>5. z.end < c.end BY <1>2, <1>5, <1>8, <2>1, <2>2, <2>4
  <2>6. z.end <= c.end - 3 BY <1>5, <1>8, <2>1, <2>3, <2>5, GridGaps
  <2>7. z.end < b.end BY <1>2, <1>5, <1>8, <1>10, <2>1, <2>2, <2>6
  <2>8. PICK y \in W : y.end = b.end - 3 BY <1>3, <1>4, <1>10, <2>1, <2>7, QuarterBelow
  <2> QED BY <1>2, <1>5, <1>10, <2>8
<1>13. Cardinality((((W \ {p}) \ {c}) \ {b}) \ {a}) = 0 /\ IsFiniteSet((((W \ {p}) \ {c}) \ {b}) \ {a})
  <2>1. a \in ((W \ {p}) \ {c}) \ {b} BY <1>2, <1>5, <1>8, <1>10, <1>12
  <2> QED BY <1>11, <2>1, FS_RemoveElement
<1>14. (((W \ {p}) \ {c}) \ {b}) \ {a} = {} BY <1>13, FS_EmptySet
<1>15. W = {a, b, c, p} BY <1>2, <1>8, <1>10, <1>12, <1>14
<1> QED BY <1>1, <1>8, <1>10, <1>12, <1>15 DEF W

\* The quarters of the last four ends are in the window.
LEMMA InWindow ==
    ASSUME NEW S, NEW first \in 0..11, OnGrid(S, first), NEW p, p.end \in Int, p.end % 3 = first % 3,
           NEW q \in S, q.end \in {p.end - 9, p.end - 6, p.end - 3, p.end}
    PROVE  q \in LastUpTo(S, p, 4)
<1> DEFINE later == {r \in S : q.end < r.end /\ r.end <= p.end}
           At(e) == CHOOSE r \in S : r.end = e
           three == ({At(p.end - 6)} \cup {At(p.end - 3)}) \cup {At(p.end)}
<1>1. \A r \in S : At(r.end) = r BY DEF OnGrid
<1> HIDE DEF At
<1>2. later \subseteq three
  <2> SUFFICES ASSUME NEW r \in later PROVE r \in three
    OBVIOUS
  <2>1. r \in S /\ r.end > p.end - 12 /\ r.end <= p.end /\ r.end \in Int /\ r.end % 3 = p.end % 3 BY DEF OnGrid
  <2>2. r.end \in {p.end - 9, p.end - 6, p.end - 3, p.end} BY <2>1, GridGaps
  <2>3. q.end \in Int /\ q.end < r.end BY DEF OnGrid
  <2>4. r.end \in {p.end - 6, p.end - 3, p.end} BY <2>1, <2>2, <2>3
  <2> QED BY <1>1, <2>1, <2>4
<1>3. IsFiniteSet(three) /\ Cardinality(three) <= 3
  <2>1. ASSUME NEW T, IsFiniteSet(T), NEW x
        PROVE  IsFiniteSet(T \cup {x}) /\ Cardinality(T \cup {x}) <= Cardinality(T) + 1 /\ Cardinality(T \cup {x}) \in Nat
    <3>1. Cardinality(T) \in Nat /\ IsFiniteSet(T \cup {x}) BY <2>1, FS_AddElement, FS_CardinalityType
    <3>2. Cardinality(T \cup {x}) = Cardinality(T) \/ Cardinality(T \cup {x}) = Cardinality(T) + 1 BY <2>1, FS_AddElement
    <3> QED BY <3>1, <3>2
  <2> DEFINE A == {At(p.end - 6)}
             B == A \cup {At(p.end - 3)}
  <2>2. IsFiniteSet(A) /\ Cardinality(A) = 1 BY FS_Singleton
  <2> HIDE DEF A
  <2>3. IsFiniteSet(B) /\ Cardinality(B) <= 1 + 1 /\ Cardinality(B) \in Nat BY <2>1, <2>2
  <2> HIDE DEF B
  <2>4. IsFiniteSet(B \cup {At(p.end)}) /\ Cardinality(B \cup {At(p.end)}) <= Cardinality(B) + 1
        /\ Cardinality(B \cup {At(p.end)}) \in Nat
    BY <2>1, <2>3
  <2> QED BY <2>3, <2>4 DEF A, B
<1>4. Cardinality(later) <= 3 /\ Cardinality(later) \in Nat
  <2> HIDE DEF later, three
  <2>1. IsFiniteSet(later) /\ Cardinality(later) <= Cardinality(three) BY <1>2, <1>3, FS_Subset
  <2>2. Cardinality(later) \in Nat /\ Cardinality(three) \in Nat BY <1>3, <2>1, FS_CardinalityType
  <2> QED BY <1>3, <2>1, <2>2
<1>5. q.end <= p.end BY DEF OnGrid
<1> QED BY <1>4, <1>5 DEF LastUpTo

ReportedOf(rows, asOf, policy) == {ToPoint(f) : f \in DedupeFacts({g \in rows : Usable(g, asOf)}, policy)}

\* What is reported, on the months of a company: one point of a metric, an end
\* and a kind, and none of what only the builder computes.
RegularPoints(R, first) ==
    /\ IsFiniteSet(R)
    /\ \A p \in R :
        /\ p.derived = "no" /\ p.kind # "ttm" /\ p.metric \notin {"free_cash_flow", "operating_margin"}
        /\ p.start \in Int /\ p.end \in Int /\ p.value \in Int /\ OnMonths(p.kind, p, first)
    /\ \A p, q \in R : p.metric = q.metric /\ p.end = q.end /\ p.kind = q.kind => p = q

LEMMA ReportedIsRegular ==
    ASSUME RegularFilings, NEW rows, rows \subseteq Filings, IsFiniteSet(rows), NEW asOf, NEW policy
    PROVE  \E first \in 0..11 : RegularPoints(ReportedOf(rows, asOf, policy), first)
<1> DEFINE used == {g \in rows : Usable(g, asOf)}
           kept == DedupeFacts(used, policy)
           R == {ToPoint(f) : f \in kept}
<1>1. kept \subseteq Filings /\ IsFiniteSet(kept)
  <2>1. kept \subseteq rows BY DEF DedupeFacts
  <2> HIDE DEF kept
  <2> QED BY <2>1, FS_Subset
<1>2. ASSUME NEW f \in kept, NEW g \in kept, f.metric = g.metric, f.end = g.end, FactKind(f) = FactKind(g)
      PROVE  f = g
  <2> SUFFICES ASSUME f # g PROVE FALSE
    OBVIOUS
  <2> DEFINE allowed == {h \in used : policy = "amended_only" => h.amended}
             same(h) == {x \in allowed : x.metric = h.metric /\ x.end = h.end /\ FactKind(x) = FactKind(h)}
  <2>1. f \in allowed /\ g \in allowed /\ KeptFacts(f, same(f), policy) /\ KeptFacts(g, same(g), policy)
    BY DEF DedupeFacts
  <2>2. g \in same(f) \ {f} /\ f \in same(g) \ {g} BY <1>2, <2>1
  <2> HIDE DEF same, allowed
  <2>3. /\ f.filed \in Int \cup {Undated} /\ g.filed \in Int \cup {Undated}
        /\ f.n \in Nat /\ g.n \in Nat
    BY <1>1, FinancialAssumption
  <2>4. f.filed # g.filed
    <3> SUFFICES ASSUME f.filed = g.filed PROVE FALSE
      OBVIOUS
    <3>1. f.n < g.n /\ g.n < f.n BY <2>1, <2>2, <2>3, FinancialAssumption DEF KeptFacts
    <3> QED BY <2>3, <3>1
  <2>5. CASE f.filed = Undated \/ g.filed = Undated BY <2>1, <2>2, <2>4, <2>5 DEF KeptFacts
  <2>6. CASE f.filed \in Int /\ g.filed \in Int
    BY <2>1, <2>2, <2>4, <2>6, FinancialAssumption DEF KeptFacts
  <2> QED BY <2>3, <2>5, <2>6
<1> HIDE DEF kept
<1>3. PICK first \in 0..11 : \A f \in Filings : OnMonths(FactKind(f), f, first) BY DEF RegularFilings
<1>4. ASSUME NEW f \in kept
      PROVE  LET p == ToPoint(f) IN
             /\ p.metric = f.metric /\ p.kind = FactKind(f) /\ p.fp = f.fp /\ p.start = f.start /\ p.end = f.end
             /\ p.value = f.value /\ p.derived = "no"
  BY DEF ToPoint, MetricPoint
<1>5. ASSUME NEW f \in kept
      PROVE  LET p == ToPoint(f) IN
             /\ p.derived = "no" /\ p.kind # "ttm" /\ p.metric \notin {"free_cash_flow", "operating_margin"}
             /\ p.start \in Int /\ p.end \in Int /\ p.value \in Int /\ OnMonths(p.kind, p, first)
  <2>1. f \in Filings BY <1>1
  <2>2. f.metric \notin {"free_cash_flow", "operating_margin"} /\ f.start \in Int /\ f.end \in Int /\ f.value \in Int
    BY <2>1, FinancialAssumption
  <2>3. FactKind(f) # "ttm" BY DEF FactKind
  <2>4. OnMonths(FactKind(f), f, first) BY <1>3, <2>1
  <2> DEFINE p == ToPoint(f)
  <2>5. /\ p.metric = f.metric /\ p.kind = FactKind(f) /\ p.fp = f.fp /\ p.start = f.start /\ p.end = f.end
        /\ p.value = f.value /\ p.derived = "no"
    BY <1>4
  <2> HIDE DEF p
  <2>6. OnMonths(p.kind, p, first) BY <2>4, <2>5 DEF OnMonths
  <2>7. /\ p.derived = "no" /\ p.kind # "ttm" /\ p.metric \notin {"free_cash_flow", "operating_margin"}
        /\ p.start \in Int /\ p.end \in Int /\ p.value \in Int
    BY <2>2, <2>3, <2>5
  <2> QED BY <2>6, <2>7 DEF p
<1>6. \A p, q \in R : p.metric = q.metric /\ p.end = q.end /\ p.kind = q.kind => p = q
  <2> SUFFICES ASSUME NEW f \in kept, NEW g \in kept,
                      ToPoint(f).metric = ToPoint(g).metric, ToPoint(f).end = ToPoint(g).end,
                      ToPoint(f).kind = ToPoint(g).kind
               PROVE  ToPoint(f) = ToPoint(g)
    OBVIOUS
  <2> QED BY <1>2, <1>4
<1>7. IsFiniteSet(R)
  <2> DEFINE point == [f \in kept |-> ToPoint(f)]
  <2>1. R = {point[f] : f \in kept} OBVIOUS
  <2> HIDE DEF point, R
  <2> QED BY <1>1, <2>1, ImageIsFinite
<1>8. R = ReportedOf(rows, asOf, policy) BY DEF ReportedOf, kept
<1>9. RegularPoints(R, first) BY <1>5, <1>6, <1>7 DEF RegularPoints
<1> QED BY <1>8, <1>9

\* A derived quarter: what it is the difference of.
DifferenceOf(p, c, q) ==
    /\ p.metric = c.metric /\ p.end = c.end /\ p.value = c.value - q.value
    /\ q.metric = c.metric /\ q.start = c.start

SecondQuarter(p, c, q) ==
    /\ DifferenceOf(p, c, q) /\ p = Difference(c, q, "Q2", "Q2 YTD - Q1") /\ p.derived = "Q2 YTD - Q1"
    /\ c.kind = "year_to_date" /\ c.fp = "Q2" /\ q.kind = "quarter" /\ q.fp = "Q1"

ThirdQuarter(p, c, q) ==
    /\ DifferenceOf(p, c, q) /\ p = Difference(c, q, "Q3", "Q3 YTD - Q2") /\ p.derived = "Q3 YTD - Q2"
    /\ c.kind = "year_to_date" /\ c.fp = "Q3" /\ q.kind = "year_to_date" /\ q.fp = "Q2"

FourthQuarter(p, c, q) ==
    /\ DifferenceOf(p, c, q) /\ p = Difference(c, q, "Q4", "FY - Q3 YTD") /\ p.derived = "FY - Q3 YTD"
    /\ c.kind = "annual" /\ q.kind = "year_to_date" /\ q.fp = "Q3"

LEMMA DerivedQuarterIs ==
    ASSUME NEW R, NEW p \in DeriveDiscreteQuarters(R)
    PROVE  /\ p.kind = "quarter" /\ p.metric \notin InstantMetrics /\ p.start = -1
           /\ \A q \in R : q.kind = "quarter" /\ q.metric = p.metric => q.end # p.end
           /\ \E c, q \in R : SecondQuarter(p, c, q) \/ ThirdQuarter(p, c, q) \/ FourthQuarter(p, c, q)
<1>1. PICK rule \in QuarterRules : p \in DeriveQuarters(R, rule) BY DEF DeriveDiscreteQuarters
<1>2. PICK c \in R, q \in R :
          /\ p = Difference(c, q, rule.gives, rule.how)
          /\ c.metric \notin InstantMetrics /\ c.kind = rule.of /\ (rule.of = "annual" \/ c.fp = rule.gives)
          /\ \A x \in R : x.kind = "quarter" /\ x.metric = c.metric => x.end # c.end
          /\ q.kind = rule.less /\ q.fp = rule.after /\ q.metric = c.metric /\ q.start = c.start
  BY <1>1 DEF DeriveQuarters
<1>3. /\ p.metric = c.metric /\ p.kind = "quarter" /\ p.start = -1 /\ p.end = c.end
      /\ p.value = c.value - q.value /\ p.derived = rule.how
  BY <1>2 DEF Difference, MetricPoint
<1>4. DifferenceOf(p, c, q) BY <1>2, <1>3 DEF DifferenceOf
<1>5. SecondQuarter(p, c, q) \/ ThirdQuarter(p, c, q) \/ FourthQuarter(p, c, q)
  <2>1. CASE rule = [of |-> "year_to_date", less |-> "quarter", after |-> "Q1", gives |-> "Q2", how |-> "Q2 YTD - Q1"]
    BY <1>2, <1>3, <1>4, <2>1 DEF SecondQuarter
  <2>2. CASE rule = [of |-> "year_to_date", less |-> "year_to_date", after |-> "Q2", gives |-> "Q3", how |-> "Q3 YTD - Q2"]
    BY <1>2, <1>3, <1>4, <2>2 DEF ThirdQuarter
  <2>3. CASE rule = [of |-> "annual", less |-> "year_to_date", after |-> "Q3", gives |-> "Q4", how |-> "FY - Q3 YTD"]
    BY <1>2, <1>3, <1>4, <2>3 DEF FourthQuarter
  <2> QED BY <2>1, <2>2, <2>3 DEF QuarterRules
<1> QED BY <1>2, <1>3, <1>5

LEMMA DerivedAreFinite == ASSUME NEW R, IsFiniteSet(R) PROVE IsFiniteSet(DeriveDiscreteQuarters(R))
<1> DEFINE all == (R \X R) \X QuarterRules
           d == [t \in all |-> Difference(t[1][1], t[1][2], t[2].gives, t[2].how)]
<1>1. IsFiniteSet(R \X R) BY FS_Product
<1>2. IsFiniteSet(QuarterRules)
  <2> DEFINE A == {[of |-> "year_to_date", less |-> "quarter", after |-> "Q1", gives |-> "Q2", how |-> "Q2 YTD - Q1"]}
             B == {[of |-> "year_to_date", less |-> "year_to_date", after |-> "Q2", gives |-> "Q3", how |-> "Q3 YTD - Q2"]}
             C == {[of |-> "annual", less |-> "year_to_date", after |-> "Q3", gives |-> "Q4", how |-> "FY - Q3 YTD"]}
  <2>1. QuarterRules = (A \cup B) \cup C BY DEF QuarterRules
  <2>2. IsFiniteSet(A) /\ IsFiniteSet(B) /\ IsFiniteSet(C) BY FS_Singleton
  <2> HIDE DEF A, B, C
  <2>3. IsFiniteSet(A \cup B) BY <2>2, FS_Union
  <2> QED BY <2>1, <2>2, <2>3, FS_Union
<1>3. IsFiniteSet(all)
  <2> DEFINE P == R \X R
  <2>1. IsFiniteSet(P) BY <1>1
  <2> HIDE DEF P
  <2>2. IsFiniteSet(P \X QuarterRules) BY <1>2, <2>1, FS_Product
  <2> QED BY <2>2 DEF P
<1>4. ASSUME NEW p \in DeriveDiscreteQuarters(R) PROVE \E t \in all : p = d[t]
  <2>1. PICK rule \in QuarterRules : p \in DeriveQuarters(R, rule) BY <1>4 DEF DeriveDiscreteQuarters
  <2>2. PICK c \in R, q \in R : p = Difference(c, q, rule.gives, rule.how) BY <2>1 DEF DeriveQuarters
  <2>3. <<<<c, q>>, rule>> \in all OBVIOUS
  <2>4. d[<<<<c, q>>, rule>>] = p BY <2>2, <2>3
  <2> QED BY <2>3, <2>4
<1> HIDE DEF all, d
<1>5. IsFiniteSet({d[t] : t \in all}) BY <1>3, ImageIsFinite
<1>6. DeriveDiscreteQuarters(R) \subseteq {d[t] : t \in all} BY <1>4
<1> QED BY <1>5, <1>6, FS_Subset

LEMMA Remainders ==
    ASSUME NEW a \in Int, NEW b \in Int, NEW first \in 0..11, a % 12 = first
    PROVE  /\ a % 3 = first % 3
           /\ b = a + 3 \/ b = a + 6 \/ b = a + 9 \/ b = a + 12 => b % 3 = first % 3
           /\ \A c \in Int : c % 12 = first =>
                /\ a + 12 # c + 6 /\ a + 12 # c + 9 /\ a + 12 # c + 3
                /\ a + 6 # c + 9 /\ a + 6 # c + 3 /\ a + 9 # c + 3
  OBVIOUS

\* The months of a derived quarter and of what it is the difference of.
QuarterMonthsOf(p, c, q, first) ==
    /\ SecondQuarter(p, c, q) => c.start % 12 = first /\ p.end = c.start + 6 /\ q.end = c.start + 3
    /\ ThirdQuarter(p, c, q) => c.start % 12 = first /\ p.end = c.start + 9 /\ q.end = c.start + 6
    /\ FourthQuarter(p, c, q) => c.start % 12 = first /\ p.end = c.start + 12 /\ q.end = c.start + 9

LEMMA DerivedMonths ==
    ASSUME NEW R, NEW first \in 0..11, RegularPoints(R, first), NEW p, NEW c \in R, NEW q \in R
    PROVE  QuarterMonthsOf(p, c, q, first)
  BY DEF QuarterMonthsOf, RegularPoints, OnMonths, SecondQuarter, ThirdQuarter, FourthQuarter, DifferenceOf

LEMMA QuartersOnGrid ==
    ASSUME NEW R, NEW first \in 0..11, RegularPoints(R, first), NEW m
    PROVE  OnGrid(SeriesOf(R \cup DeriveDiscreteQuarters(R), m, "quarter"), first)
<1> DEFINE D == DeriveDiscreteQuarters(R)
           S == SeriesOf(R \cup D, m, "quarter")
<1>1. IsFiniteSet(S)
  <2>1. IsFiniteSet(R \cup D) BY DerivedAreFinite, FS_Union DEF RegularPoints
  <2>2. S \subseteq R \cup D BY DEF SeriesOf
  <2> QED BY <2>1, <2>2, FS_Subset
<1>2. ASSUME NEW p \in D
      PROVE  \E c, q \in R : (SecondQuarter(p, c, q) \/ ThirdQuarter(p, c, q) \/ FourthQuarter(p, c, q))
                             /\ p.end \in Int /\ p.value \in Int /\ c.start \in Int /\ c.start % 12 = first
                             /\ (p.end = c.start + 6 \/ p.end = c.start + 9 \/ p.end = c.start + 12)
  <2>1. PICK c \in R, q \in R : SecondQuarter(p, c, q) \/ ThirdQuarter(p, c, q) \/ FourthQuarter(p, c, q)
    BY DerivedQuarterIs
  <2>2. p.end = c.end /\ p.value = c.value - q.value
    BY <2>1 DEF SecondQuarter, ThirdQuarter, FourthQuarter, DifferenceOf
  <2>3. c.end \in Int /\ c.value \in Int /\ q.value \in Int /\ c.start \in Int BY DEF RegularPoints
  <2>4. c.start % 12 = first /\ (p.end = c.start + 6 \/ p.end = c.start + 9 \/ p.end = c.start + 12)
    <3>1. QuarterMonthsOf(p, c, q, first) BY DerivedMonths
    <3> QED BY <2>1, <3>1 DEF QuarterMonthsOf
  <2> QED BY <2>1, <2>2, <2>3, <2>4
<1> HIDE DEF D
<1>3. ASSUME NEW p \in S PROVE p.end \in Int /\ p.value \in Int /\ p.end % 3 = first % 3
  <2>1. CASE p \in R
    <3>1. p.start \in Int /\ p.start % 3 = first % 3 /\ p.end = p.start + 3 /\ p.value \in Int
      BY <2>1 DEF RegularPoints, OnMonths, SeriesOf
    <3> QED BY <3>1
  <2>2. CASE p \in D
    <3>1. PICK c \in R : p.end \in Int /\ p.value \in Int /\ c.start \in Int /\ c.start % 12 = first
                         /\ (p.end = c.start + 6 \/ p.end = c.start + 9 \/ p.end = c.start + 12)
      BY <1>2, <2>2
    <3> QED BY <3>1, Remainders
  <2> QED BY <2>1, <2>2 DEF SeriesOf
<1>4. ASSUME NEW p \in S, NEW q \in S, p.end = q.end PROVE p = q
  <2>1. p.metric = m /\ q.metric = m /\ p.kind = "quarter" /\ q.kind = "quarter" BY DEF SeriesOf
  <2>2. CASE p \in R /\ q \in R BY <1>4, <2>1, <2>2 DEF RegularPoints
  <2>3. CASE p \in D /\ q \in R BY <1>4, <2>1, <2>3, DerivedQuarterIs DEF D
  <2>4. CASE p \in R /\ q \in D BY <1>4, <2>1, <2>4, DerivedQuarterIs DEF D
  <2>5. CASE p \in D /\ q \in D
    <3>1. PICK c \in R, x \in R :
             (SecondQuarter(p, c, x) \/ ThirdQuarter(p, c, x) \/ FourthQuarter(p, c, x))
             /\ c.start \in Int /\ c.start % 12 = first
      BY <1>2, <2>5
    <3>2. PICK b \in R, y \in R :
             (SecondQuarter(q, b, y) \/ ThirdQuarter(q, b, y) \/ FourthQuarter(q, b, y))
             /\ b.start \in Int /\ b.start % 12 = first
      BY <1>2, <2>5
    <3>3. \/ SecondQuarter(p, c, x) /\ SecondQuarter(q, b, y)
          \/ ThirdQuarter(p, c, x) /\ ThirdQuarter(q, b, y)
          \/ FourthQuarter(p, c, x) /\ FourthQuarter(q, b, y)
      <4>1. QuarterMonthsOf(p, c, x, first) BY DerivedMonths
      <4>2. QuarterMonthsOf(q, b, y, first) BY DerivedMonths
      <4>3. /\ c.start + 12 # b.start + 6 /\ c.start + 12 # b.start + 9 /\ c.start + 6 # b.start + 9
            /\ b.start + 12 # c.start + 6 /\ b.start + 12 # c.start + 9 /\ b.start + 6 # c.start + 9
        BY <3>1, <3>2, Remainders
      <4> QED BY <1>4, <3>1, <3>2, <4>1, <4>2, <4>3 DEF QuarterMonthsOf
    <3>4. c = b
      <4>1. c.kind = b.kind /\ c.metric = b.metric /\ c.end = b.end
        BY <1>4, <2>1, <3>3 DEF SecondQuarter, ThirdQuarter, FourthQuarter, DifferenceOf
      <4> QED BY <4>1 DEF RegularPoints
    <3>5. x = y
      <4>1. x.kind = y.kind /\ x.metric = y.metric
        BY <2>1, <3>3 DEF SecondQuarter, ThirdQuarter, FourthQuarter, DifferenceOf
      <4>2. x.end = y.end
        <5>1. QuarterMonthsOf(p, c, x, first) BY DerivedMonths
        <5>2. QuarterMonthsOf(q, b, y, first) BY DerivedMonths
        <5> QED BY <3>3, <3>4, <5>1, <5>2 DEF QuarterMonthsOf
      <4> QED BY <4>1, <4>2 DEF RegularPoints
    <3>6. \E fp, how : p = Difference(c, x, fp, how) /\ q = Difference(b, y, fp, how)
      <4>1. CASE SecondQuarter(p, c, x) /\ SecondQuarter(q, b, y) BY <4>1 DEF SecondQuarter
      <4>2. CASE ThirdQuarter(p, c, x) /\ ThirdQuarter(q, b, y) BY <4>2 DEF ThirdQuarter
      <4>3. CASE FourthQuarter(p, c, x) /\ FourthQuarter(q, b, y) BY <4>3 DEF FourthQuarter
      <4> QED BY <3>3, <4>1, <4>2, <4>3
    <3> QED BY <3>4, <3>5, <3>6
  <2> QED BY <2>2, <2>3, <2>4, <2>5 DEF SeriesOf
<1>5. OnGrid(S, first) BY <1>1, <1>3, <1>4 DEF OnGrid
<1> QED BY <1>5 DEF D

\* Four quarters in a row up to the end of a, made of its year.
QuartersOfYear(a, w1, w2, w3, w4) ==
    /\ w1.end = a.end - 9 /\ w2.end = a.end - 6 /\ w3.end = a.end - 3 /\ w4.end = a.end
    /\ \A w \in {w1, w2, w3, w4} : w.derived # "no" \/ (w.fp = "Q1" /\ w.start = a.start)

\* What they amount to is the year.
YearAmounts(S, a) ==
    \A w1, w2, w3, w4 \in S :
        QuartersOfYear(a, w1, w2, w3, w4) => w1.value + w2.value + w3.value + w4.value = a.value

\* The quarters of a year, each the difference of what follows in it and what
\* comes before, amount to the year.
LEMMA YearAdds ==
    ASSUME NEW R, NEW first \in 0..11, RegularPoints(R, first), NEW m,
           NEW a \in R, a.metric = m, a.kind = "annual"
    PROVE  YearAmounts(SeriesOf(R \cup DeriveDiscreteQuarters(R), m, "quarter"), a)
<1> DEFINE S == SeriesOf(R \cup DeriveDiscreteQuarters(R), m, "quarter")
           s == a.start
<1> SUFFICES ASSUME NEW w1 \in S, NEW w2 \in S, NEW w3 \in S, NEW w4 \in S, QuartersOfYear(a, w1, w2, w3, w4)
             PROVE  w1.value + w2.value + w3.value + w4.value = a.value
  BY DEF YearAmounts
<1>1. s \in Int /\ s % 12 = first /\ a.end = s + 12 /\ a.value \in Int BY DEF RegularPoints, OnMonths
<1>2. \A x, y \in R : x.metric = y.metric /\ x.end = y.end /\ x.kind = y.kind => x = y BY DEF RegularPoints
<1>3. \A x \in R : x.value \in Int /\ x.start \in Int /\ x.end \in Int BY DEF RegularPoints
<1>4. ASSUME NEW w \in S, w.derived # "no" \/ (w.fp = "Q1" /\ w.start = s)
      PROVE  \/ w \in R /\ w.end = s + 3
             \/ \E c, q \in R :
                  /\ SecondQuarter(w, c, q) \/ ThirdQuarter(w, c, q) \/ FourthQuarter(w, c, q)
                  /\ QuarterMonthsOf(w, c, q, first)
  <2>1. CASE w \in R
    <3>1. w.kind = "quarter" BY DEF SeriesOf
    <3>2. w.derived = "no" /\ w.end = w.start + 3 BY <2>1, <3>1 DEF RegularPoints, OnMonths
    <3> QED BY <1>4, <2>1, <3>2
  <2>2. CASE w \in DeriveDiscreteQuarters(R)
    <3>1. PICK c \in R, q \in R : SecondQuarter(w, c, q) \/ ThirdQuarter(w, c, q) \/ FourthQuarter(w, c, q)
      BY <2>2, DerivedQuarterIs
    <3>2. QuarterMonthsOf(w, c, q, first) BY DerivedMonths
    <3> QED BY <3>1, <3>2
  <2> QED BY <2>1, <2>2 DEF SeriesOf
<1>5. \A w \in S : w.metric = m BY DEF SeriesOf
<1> HIDE DEF S, s
<1>6. ASSUME NEW c \in Int, c % 12 = first
      PROVE  /\ c + 6 # s + 3 /\ c + 9 # s + 3 /\ c + 12 # s + 3
             /\ c + 9 # s + 6 /\ c + 12 # s + 6 /\ c + 6 # s + 9 /\ c + 12 # s + 9
             /\ c + 6 # s + 12 /\ c + 9 # s + 12
  BY <1>1, <1>6, Remainders
<1>7. /\ w1 \in S /\ w2 \in S /\ w3 \in S /\ w4 \in S
      /\ \A w \in {w1, w2, w3, w4} :
            \/ w \in R /\ w.end = s + 3
            \/ \E c, q \in R :
                 /\ SecondQuarter(w, c, q) \/ ThirdQuarter(w, c, q) \/ FourthQuarter(w, c, q)
                 /\ QuarterMonthsOf(w, c, q, first)
  BY <1>4 DEF S, s, QuartersOfYear
<1>8. w1.end = s + 3 /\ w2.end = s + 6 /\ w3.end = s + 9 /\ w4.end = s + 12 BY <1>1 DEF QuartersOfYear
<1>9. PICK q4 \in R : w4.value = a.value - q4.value /\ q4.kind = "year_to_date" /\ q4.metric = m
                     /\ q4.start = s /\ q4.end = s + 9
  <2>1. PICK c \in R, q \in R :
           /\ SecondQuarter(w4, c, q) \/ ThirdQuarter(w4, c, q) \/ FourthQuarter(w4, c, q)
           /\ QuarterMonthsOf(w4, c, q, first)
    BY <1>1, <1>7, <1>8
  <2>2. FourthQuarter(w4, c, q) BY <1>3, <1>6, <1>8, <2>1 DEF QuarterMonthsOf
  <2>3. c.start + 12 = s + 12 /\ c.start \in Int /\ q.end = c.start + 9 BY <1>3, <1>8, <2>1, <2>2 DEF QuarterMonthsOf
  <2>4. c.start = s /\ q.end = s + 9 BY <1>1, <2>3
  <2>5. /\ c.metric = w4.metric /\ c.end = w4.end /\ w4.value = c.value - q.value /\ c.kind = "annual"
        /\ q.kind = "year_to_date" /\ q.metric = c.metric /\ q.start = c.start
    BY <2>2 DEF FourthQuarter, DifferenceOf
  <2>6. c = a BY <1>1, <1>2, <1>5, <1>7, <1>8, <2>5
  <2> QED BY <1>5, <1>7, <2>4, <2>5, <2>6
<1>10. PICK q3 \in R : w3.value = q4.value - q3.value /\ q3.kind = "year_to_date" /\ q3.metric = m
                      /\ q3.start = s /\ q3.end = s + 6
  <2>1. PICK c \in R, q \in R :
           /\ SecondQuarter(w3, c, q) \/ ThirdQuarter(w3, c, q) \/ FourthQuarter(w3, c, q)
           /\ QuarterMonthsOf(w3, c, q, first)
    BY <1>1, <1>7, <1>8
  <2>2. ThirdQuarter(w3, c, q) BY <1>3, <1>6, <1>8, <2>1 DEF QuarterMonthsOf
  <2>3. c.start + 9 = s + 9 /\ c.start \in Int /\ q.end = c.start + 6 BY <1>3, <1>8, <2>1, <2>2 DEF QuarterMonthsOf
  <2>4. c.start = s /\ q.end = s + 6 BY <1>1, <2>3
  <2>5. /\ c.metric = w3.metric /\ c.end = w3.end /\ w3.value = c.value - q.value /\ c.kind = "year_to_date"
        /\ q.kind = "year_to_date" /\ q.metric = c.metric /\ q.start = c.start
    BY <2>2 DEF ThirdQuarter, DifferenceOf
  <2>6. c = q4 BY <1>2, <1>5, <1>7, <1>8, <1>9, <2>5
  <2> QED BY <1>5, <1>7, <2>4, <2>5, <2>6
<1>11. PICK q2 \in R : w2.value = q3.value - q2.value /\ q2.kind = "quarter" /\ q2.metric = m /\ q2.end = s + 3
  <2>1. PICK c \in R, q \in R :
           /\ SecondQuarter(w2, c, q) \/ ThirdQuarter(w2, c, q) \/ FourthQuarter(w2, c, q)
           /\ QuarterMonthsOf(w2, c, q, first)
    BY <1>1, <1>7, <1>8
  <2>2. SecondQuarter(w2, c, q) BY <1>3, <1>6, <1>8, <2>1 DEF QuarterMonthsOf
  <2>3. c.start + 6 = s + 6 /\ c.start \in Int /\ q.end = c.start + 3 BY <1>3, <1>8, <2>1, <2>2 DEF QuarterMonthsOf
  <2>4. c.start = s /\ q.end = s + 3 BY <1>1, <2>3
  <2>5. /\ c.metric = w2.metric /\ c.end = w2.end /\ w2.value = c.value - q.value /\ c.kind = "year_to_date"
        /\ q.kind = "quarter" /\ q.metric = c.metric
    BY <2>2 DEF SecondQuarter, DifferenceOf
  <2>6. c = q3 BY <1>2, <1>5, <1>7, <1>8, <1>10, <2>5
  <2> QED BY <1>5, <1>7, <2>4, <2>5, <2>6
<1>12. w1 = q2
  <2>1. w1 \in R
    <3> SUFFICES ASSUME NEW c \in R, NEW q \in R,
                        SecondQuarter(w1, c, q) \/ ThirdQuarter(w1, c, q) \/ FourthQuarter(w1, c, q),
                        QuarterMonthsOf(w1, c, q, first)
                 PROVE  FALSE
      BY <1>7
    <3> QED BY <1>3, <1>6, <1>8 DEF QuarterMonthsOf
  <2>2. w1.kind = "quarter" BY <1>7 DEF S, SeriesOf
  <2> QED BY <1>2, <1>5, <1>7, <1>8, <1>11, <2>1, <2>2
<1> QED BY <1>1, <1>3, <1>9, <1>10, <1>11, <1>12

\* What is built of reported points, step by step.
QuartersOf(R) == R \cup DeriveDiscreteQuarters(R)
DebtsOf(R) == QuartersOf(R) \cup DeriveTotalDebt(QuartersOf(R))
FlowsOf(R) == DebtsOf(R) \cup DeriveFreeCashFlow(DebtsOf(R))
SumsOf(R) == FlowsOf(R) \cup DeriveTtm(FlowsOf(R))
PointsOf(R) == SumsOf(R) \cup DeriveMargins(SumsOf(R))

LEMMA BuiltIs ==
    ASSUME NEW rows, NEW asOf, NEW policy
    PROVE  BuildPoints(rows, asOf, policy) = PointsOf(ReportedOf(rows, asOf, policy))
  BY DEF BuildPoints, PointsOf, SumsOf, FlowsOf, DebtsOf, QuartersOf, ReportedOf

LEMMA CombinedIs ==
    ASSUME NEW P, NEW first, NEW second, NEW metric, NEW value(_, _), NEW p \in Combine(P, first, second, metric, value)
    PROVE  \E o, c \in P :
              /\ o.metric = first /\ c.metric = second /\ c.end = o.end /\ c.kind = o.kind
              /\ p = MetricPoint(metric, o.kind, o.fp, o.start, o.end, value(o.value, c.value), metric,
                                 o.sources \cup c.sources)
  BY DEF Combine

LEMMA CombinedAreFinite ==
    ASSUME NEW P, IsFiniteSet(P), NEW first, NEW second, NEW metric, NEW value(_, _)
    PROVE  IsFiniteSet(Combine(P, first, second, metric, value))
<1> DEFINE d == [t \in P \X P |-> MetricPoint(metric, t[1].kind, t[1].fp, t[1].start, t[1].end,
                      value(t[1].value, t[2].value), metric, t[1].sources \cup t[2].sources)]
<1>1. ASSUME NEW p \in Combine(P, first, second, metric, value) PROVE \E t \in P \X P : p = d[t]
  <2>1. PICK o \in P, c \in P : p = MetricPoint(metric, o.kind, o.fp, o.start, o.end, value(o.value, c.value), metric,
                                                o.sources \cup c.sources)
    BY DEF Combine
  <2>2. <<o, c>> \in P \X P OBVIOUS
  <2>3. d[<<o, c>>] = p BY <2>1, <2>2
  <2> QED BY <2>2, <2>3
<1>2. IsFiniteSet(P \X P) BY FS_Product
<1> HIDE DEF d
<1>3. IsFiniteSet({d[t] : t \in P \X P})
  <2> DEFINE T == P \X P
  <2>1. IsFiniteSet(T) BY <1>2
  <2> HIDE DEF T
  <2>2. IsFiniteSet({d[t] : t \in T}) BY <2>1, ImageIsFinite
  <2> QED BY <2>2 DEF T
<1>4. Combine(P, first, second, metric, value) \subseteq {d[t] : t \in P \X P} BY <1>1
<1> QED BY <1>3, <1>4, FS_Subset

\* A point of free cash flow: what it is made of.
FlowOf(p, o, c) ==
    /\ o.metric = "operating_cash_flow" /\ c.metric = "capital_expenditure" /\ c.end = o.end /\ c.kind = o.kind
    /\ p = MetricPoint("free_cash_flow", o.kind, o.fp, o.start, o.end,
                       o.value - (IF c.value < 0 THEN -c.value ELSE c.value), "free_cash_flow", o.sources \cup c.sources)

LEMMA FlowHas ==
    ASSUME NEW p, NEW o, NEW c, FlowOf(p, o, c)
    PROVE  /\ p.metric = "free_cash_flow" /\ p.kind = o.kind /\ p.start = o.start /\ p.end = o.end
           /\ p.value = o.value - (IF c.value < 0 THEN -c.value ELSE c.value) /\ p.derived = "free_cash_flow"
  BY DEF FlowOf, MetricPoint

LEMMA QuarterPointsAre ==
    ASSUME NEW R, NEW first \in 0..11, RegularPoints(R, first), NEW p \in QuartersOf(R)
    PROVE  /\ p.kind # "ttm" /\ p.metric \notin {"free_cash_flow", "operating_margin"}
           /\ p \in R \/ (p \in DeriveDiscreteQuarters(R) /\ p.kind = "quarter" /\ p.metric \notin InstantMetrics)
<1>1. CASE p \in R BY <1>1 DEF RegularPoints
<1>2. CASE p \in DeriveDiscreteQuarters(R)
  <2>1. PICK c \in R, q \in R : SecondQuarter(p, c, q) \/ ThirdQuarter(p, c, q) \/ FourthQuarter(p, c, q)
    BY <1>2, DerivedQuarterIs
  <2>2. p.metric = c.metric BY <2>1 DEF SecondQuarter, ThirdQuarter, FourthQuarter, DifferenceOf
  <2> QED BY <1>2, <2>2, DerivedQuarterIs DEF RegularPoints
<1> QED BY <1>1, <1>2 DEF QuartersOf

LEMMA FlowPointsAre ==
    ASSUME NEW R, NEW first \in 0..11, RegularPoints(R, first), NEW p \in FlowsOf(R)
    PROVE  \/ p \in QuartersOf(R)
           \/ p.metric = "total_debt" /\ p.derived = "total_debt" /\ p.kind # "ttm"
           \/ \E o, c \in QuartersOf(R) : FlowOf(p, o, c)
<1> DEFINE Q == QuartersOf(R)
<1>1. ASSUME NEW x \in DeriveTotalDebt(Q)
      PROVE  x.metric = "total_debt" /\ x.derived = "total_debt" /\ x.kind # "ttm"
  <2>1. PICK o \in Q, c \in Q :
          x = MetricPoint("total_debt", o.kind, o.fp, o.start, o.end, o.value + c.value, "total_debt", o.sources \cup c.sources)
    BY <1>1 DEF DeriveTotalDebt, Combine
  <2>2. o.kind # "ttm" BY QuarterPointsAre
  <2> QED BY <2>1, <2>2 DEF MetricPoint
<1>2. ASSUME p \in DeriveFreeCashFlow(DebtsOf(R))
      PROVE  \E o, c \in Q : FlowOf(p, o, c)
  <2>1. PICK o \in DebtsOf(R), c \in DebtsOf(R) :
          /\ o.metric = "operating_cash_flow" /\ c.metric = "capital_expenditure" /\ c.end = o.end /\ c.kind = o.kind
          /\ p = MetricPoint("free_cash_flow", o.kind, o.fp, o.start, o.end,
                       o.value - (IF c.value < 0 THEN -c.value ELSE c.value), "free_cash_flow", o.sources \cup c.sources)
    BY <1>2 DEF DeriveFreeCashFlow, Combine
  <2>2. o \in Q /\ c \in Q BY <1>1, <2>1 DEF DebtsOf
  <2> QED BY <2>1, <2>2 DEF FlowOf
<1> QED BY <1>1, <1>2 DEF FlowsOf, DebtsOf

LEMMA FlowsAreFinite ==
    ASSUME NEW R, NEW first \in 0..11, RegularPoints(R, first)
    PROVE  IsFiniteSet(FlowsOf(R))
<1>1. IsFiniteSet(QuartersOf(R)) BY DerivedAreFinite, FS_Union DEF QuartersOf, RegularPoints
<1>2. IsFiniteSet(DeriveTotalDebt(QuartersOf(R))) BY <1>1, CombinedAreFinite DEF DeriveTotalDebt
<1>3. IsFiniteSet(DebtsOf(R)) BY <1>1, <1>2, FS_Union DEF DebtsOf
<1>4. IsFiniteSet(DeriveFreeCashFlow(DebtsOf(R))) BY <1>3, CombinedAreFinite DEF DeriveFreeCashFlow
<1> QED BY <1>3, <1>4, FS_Union DEF FlowsOf

PartMetrics == {"revenue", "operating_income", "operating_cash_flow", "capital_expenditure"}

\* The quarters of the metrics that are reported.
LEMMA PartSeries ==
    ASSUME NEW R, NEW first \in 0..11, RegularPoints(R, first), NEW m \in PartMetrics
    PROVE  SeriesOf(FlowsOf(R), m, "quarter") = SeriesOf(QuartersOf(R), m, "quarter")
<1>1. QuartersOf(R) \subseteq FlowsOf(R) BY DEF FlowsOf, DebtsOf
<1>2. ASSUME NEW p \in FlowsOf(R), p.metric = m PROVE p \in QuartersOf(R)
  <2>1. p.metric # "total_debt" /\ p.metric # "free_cash_flow" BY <1>2 DEF PartMetrics
  <2> QED BY <2>1, FlowPointsAre, FlowHas
<1> QED BY <1>1, <1>2 DEF SeriesOf

\* The quarters of the metrics that are summed have one point for each end.
LEMMA FlowSeriesOnGrid ==
    ASSUME NEW R, NEW first \in 0..11, RegularPoints(R, first), NEW m \in PartMetrics \cup {"free_cash_flow"}
    PROVE  OnGrid(SeriesOf(FlowsOf(R), m, "quarter"), first)
<1>1. CASE m \in PartMetrics BY <1>1, PartSeries, QuartersOnGrid DEF QuartersOf
<1>2. CASE m = "free_cash_flow"
  <2> DEFINE S == SeriesOf(FlowsOf(R), m, "quarter")
             O == SeriesOf(QuartersOf(R), "operating_cash_flow", "quarter")
             C == SeriesOf(QuartersOf(R), "capital_expenditure", "quarter")
  <2>1. OnGrid(O, first) /\ OnGrid(C, first) BY QuartersOnGrid DEF QuartersOf
  <2>2. ASSUME NEW p \in S PROVE \E o \in O, c \in C : FlowOf(p, o, c)
    <3>1. p \in FlowsOf(R) /\ p.metric = "free_cash_flow" /\ p.kind = "quarter" BY <1>2, <2>2 DEF SeriesOf
    <3>2. p \notin QuartersOf(R) BY <3>1, QuarterPointsAre
    <3>3. PICK o \in QuartersOf(R), c \in QuartersOf(R) : FlowOf(p, o, c) BY <3>1, <3>2, FlowPointsAre
    <3>4. o.kind = "quarter" BY <3>1, <3>3, FlowHas
    <3>5. o \in O /\ c \in C BY <3>3, <3>4 DEF FlowOf, SeriesOf
    <3> QED BY <3>3, <3>5
  <2>3. IsFiniteSet(S)
    <3>1. S \subseteq FlowsOf(R) BY DEF SeriesOf
    <3> QED BY <3>1, FlowsAreFinite, FS_Subset
  <2> HIDE DEF S, O, C
  <2>4. ASSUME NEW p \in S PROVE p.end \in Int /\ p.value \in Int /\ p.end % 3 = first % 3
    <3>1. PICK o \in O, c \in C : FlowOf(p, o, c) BY <2>2
    <3>2. o.value \in Int /\ c.value \in Int /\ o.end \in Int /\ o.end % 3 = first % 3 BY <2>1 DEF OnGrid
    <3>3. p.end = o.end /\ p.value = o.value - (IF c.value < 0 THEN -c.value ELSE c.value) BY <3>1, FlowHas
    <3> QED BY <3>2, <3>3
  <2>5. ASSUME NEW p \in S, NEW q \in S, p.end = q.end PROVE p = q
    <3>1. PICK o \in O, c \in C : FlowOf(p, o, c) BY <2>2
    <3>2. PICK u \in O, v \in C : FlowOf(q, u, v) BY <2>2
    <3>3. p.end = o.end /\ q.end = u.end /\ c.end = o.end /\ v.end = u.end BY <3>1, <3>2, FlowHas DEF FlowOf
    <3>4. o = u /\ c = v BY <2>1, <2>5, <3>3 DEF OnGrid
    <3> QED BY <3>1, <3>2, <3>4 DEF FlowOf
  <2>6. OnGrid(S, first) BY <2>3, <2>4, <2>5 DEF OnGrid
  <2> QED BY <2>6 DEF S
<1> QED BY <1>1, <1>2

LEMMA TtmIs ==
    ASSUME NEW P, NEW p \in DeriveTtm(P)
    PROVE  \E m \in TtmMetrics : \E e \in SeriesOf(P, m, "quarter") :
              LET window == LastUpTo(SeriesOf(P, m, "quarter"), e, 4) IN
              /\ WindowHolds(window)
              /\ p.metric = m /\ p.kind = "ttm" /\ p.end = e.end /\ p.derived = "ttm" /\ p.value = TotalOf(window)
<1>1. PICK m \in TtmMetrics :
        LET series == SeriesOf(P, m, "quarter") IN
        \E e \in series :
           LET window == LastUpTo(series, e, 4)
               first == CHOOSE q \in window : \A r \in window : q.end <= r.end IN
           /\ WindowHolds(window)
           /\ p = MetricPoint(m, "ttm", e.fp, first.start, e.end, TotalOf(window), "ttm", UNION {q.sources : q \in window})
  BY DEF DeriveTtm
<1> DEFINE series == SeriesOf(P, m, "quarter")
<1>2. PICK e \in series :
        LET window == LastUpTo(series, e, 4)
            first == CHOOSE q \in window : \A r \in window : q.end <= r.end IN
        /\ WindowHolds(window)
        /\ p = MetricPoint(m, "ttm", e.fp, first.start, e.end, TotalOf(window), "ttm", UNION {q.sources : q \in window})
  BY <1>1
<1> DEFINE window == LastUpTo(series, e, 4)
           start == (CHOOSE q \in window : \A r \in window : q.end <= r.end).start
           sources == UNION {q.sources : q \in window}
<1>3. p = MetricPoint(m, "ttm", e.fp, start, e.end, TotalOf(window), "ttm", sources) /\ WindowHolds(window) BY <1>2
<1> HIDE DEF start, sources, window
<1>4. p.metric = m /\ p.kind = "ttm" /\ p.end = e.end /\ p.derived = "ttm" /\ p.value = TotalOf(window)
  BY <1>3 DEF MetricPoint
<1> QED BY <1>3, <1>4 DEF window

\* A margin: what it is made of.
MarginMade(p, o, r) ==
    /\ o.metric = "operating_income" /\ r.metric = "revenue" /\ r.end = o.end /\ r.kind = o.kind
    /\ p.metric = "operating_margin" /\ p.kind = o.kind /\ p.start = o.start /\ p.end = o.end
    /\ p.value = Percent(o.value, r.value) /\ p.derived = "operating_margin"

LEMMA MarginIs ==
    ASSUME NEW P, NEW p \in DeriveMargins(P)
    PROVE  \E o, r \in P : MarginMade(p, o, r)
<1> DEFINE earning == {q \in P : q.metric # "revenue" \/ q.value # 0}
<1>a. earning \subseteq P OBVIOUS
<1>b. PICK m \in DOMAIN MarginOf : p \in Combine(earning, m, "revenue", MarginOf[m], Percent)
  BY DEF DeriveMargins
<1> HIDE DEF earning
<1>1. \E o, r \in P :
        /\ o.metric = m /\ r.metric = "revenue" /\ r.end = o.end /\ r.kind = o.kind
        /\ p = MetricPoint(MarginOf[m], o.kind, o.fp, o.start, o.end, Percent(o.value, r.value), MarginOf[m],
                           o.sources \cup r.sources)
  <2>1. PICK o \in {q \in earning : q.metric = m} :
            p \in {MetricPoint(MarginOf[m], o.kind, o.fp, o.start, o.end, Percent(o.value, q.value), MarginOf[m],
                              o.sources \cup q.sources) :
                     q \in {x \in earning : x.metric = "revenue" /\ x.end = o.end /\ x.kind = o.kind}}
    BY <1>b DEF Combine
  <2>2. PICK r \in {x \in earning : x.metric = "revenue" /\ x.end = o.end /\ x.kind = o.kind} :
            p = MetricPoint(MarginOf[m], o.kind, o.fp, o.start, o.end, Percent(o.value, r.value), MarginOf[m],
                            o.sources \cup r.sources)
    BY <2>1
  <2>3. o \in P /\ r \in P /\ o.metric = m BY <1>a, <2>1, <2>2
  <2>4. r.metric = "revenue" /\ r.end = o.end /\ r.kind = o.kind BY <2>2
  <2> QED BY <2>2, <2>3, <2>4
<1>2. m = "operating_income" /\ MarginOf[m] = "operating_margin" BY DEF MarginOf
<1>3. PICK o \in P, r \in P :
        /\ o.metric = m /\ r.metric = "revenue" /\ r.end = o.end /\ r.kind = o.kind
        /\ p = MetricPoint(MarginOf[m], o.kind, o.fp, o.start, o.end, Percent(o.value, r.value), MarginOf[m],
                           o.sources \cup r.sources)
  BY <1>1
<1>4. MarginMade(p, o, r) BY <1>2, <1>3 DEF MarginMade, MetricPoint
<1> QED BY <1>4

\* The points of a metric in the snapshot and before the sums and margins.
LEMMA BuiltSeries ==
    ASSUME NEW R, NEW first \in 0..11, RegularPoints(R, first), NEW m, m # "operating_margin"
    PROVE  /\ SeriesOf(PointsOf(R), m, "quarter") = SeriesOf(FlowsOf(R), m, "quarter")
           /\ SeriesOf(PointsOf(R), m, "annual") = SeriesOf(FlowsOf(R), m, "annual")
           /\ SeriesOf(PointsOf(R), m, "year_to_date") = SeriesOf(FlowsOf(R), m, "year_to_date")
           /\ SeriesOf(PointsOf(R), m, "ttm") \subseteq DeriveTtm(FlowsOf(R))
<1>1. FlowsOf(R) \subseteq PointsOf(R) BY DEF PointsOf, SumsOf
<1>2. ASSUME NEW p \in PointsOf(R), p.metric = m PROVE p \in FlowsOf(R) \/ (p \in DeriveTtm(FlowsOf(R)) /\ p.kind = "ttm")
  <2>1. p \in SumsOf(R) BY <1>2, MarginIs DEF PointsOf, MarginMade
  <2> QED BY <2>1, TtmIs DEF SumsOf
<1>3. \A p \in FlowsOf(R) : p.kind # "ttm" BY FlowPointsAre, QuarterPointsAre, FlowHas
<1>4. SeriesOf(PointsOf(R), m, "ttm") \subseteq DeriveTtm(FlowsOf(R)) BY <1>2, <1>3 DEF SeriesOf
<1>5. \A kind : kind # "ttm" => SeriesOf(PointsOf(R), m, kind) = SeriesOf(FlowsOf(R), m, kind) BY <1>1, <1>2 DEF SeriesOf
<1> QED BY <1>4, <1>5

\* What is not a quarter of a metric that is reported was reported.
LEMMA TotalsAreReported ==
    ASSUME NEW R, NEW first \in 0..11, RegularPoints(R, first), NEW p \in PointsOf(R),
           p.metric \notin InstantMetrics \cup {"free_cash_flow", "operating_margin"},
           p.kind \in {"annual", "year_to_date"}
    PROVE  p \in R
<1> DEFINE m == p.metric
<1>1. p \in FlowsOf(R)
  <2>1. /\ SeriesOf(PointsOf(R), m, "annual") = SeriesOf(FlowsOf(R), m, "annual")
        /\ SeriesOf(PointsOf(R), m, "year_to_date") = SeriesOf(FlowsOf(R), m, "year_to_date")
    <3>1. m # "operating_margin" OBVIOUS
    <3> HIDE DEF m
    <3> QED BY <3>1, BuiltSeries
  <2>2. p \in SeriesOf(PointsOf(R), m, "annual") \/ p \in SeriesOf(PointsOf(R), m, "year_to_date") BY DEF SeriesOf
  <2>3. p \in SeriesOf(FlowsOf(R), m, "annual") \/ p \in SeriesOf(FlowsOf(R), m, "year_to_date") BY <2>1, <2>2
  <2> QED BY <2>3 DEF SeriesOf
<1>2. p.metric # "total_debt" BY DEF InstantMetrics
<1>3. p \in QuartersOf(R) BY <1>1, <1>2, FlowPointsAre, FlowHas
<1> QED BY <1>3, QuarterPointsAre

LEMMA QuartersReconcile ==
    ASSUME NEW R, NEW first \in 0..11, RegularPoints(R, first), NEW p \in DeriveDiscreteQuarters(R)
    PROVE  DerivedQuarterMatches(p, PointsOf(R))
<1> DEFINE P == PointsOf(R)
<1>1. R \subseteq P BY DEF PointsOf, SumsOf, FlowsOf, DebtsOf, QuartersOf
<1>2. PICK c \in R, q \in R :
          /\ SecondQuarter(p, c, q) \/ ThirdQuarter(p, c, q) \/ FourthQuarter(p, c, q)
          /\ QuarterMonthsOf(p, c, q, first)
  <2>1. PICK c \in R, q \in R : SecondQuarter(p, c, q) \/ ThirdQuarter(p, c, q) \/ FourthQuarter(p, c, q)
    BY DerivedQuarterIs
  <2> QED BY <2>1, DerivedMonths
<1>3. /\ p.metric = c.metric /\ p.end = c.end /\ p.value = c.value - q.value
      /\ q.metric = c.metric /\ q.start = c.start /\ c \in P /\ q \in P
  BY <1>1, <1>2 DEF SecondQuarter, ThirdQuarter, FourthQuarter, DifferenceOf
<1>4. c.metric \notin InstantMetrics \cup {"free_cash_flow", "operating_margin"}
  BY <1>3, DerivedQuarterIs DEF RegularPoints
<1>5. c.start \in Int /\ q.start \in Int BY DEF RegularPoints
<1>6. ASSUME NEW r \in P, r.metric = c.metric, r.kind = "year_to_date", r.start = c.start
      PROVE  r.end = c.start + 6 \/ r.end = c.start + 9
  <2>1. r \in R BY <1>4, <1>6, TotalsAreReported
  <2> QED BY <1>6, <2>1 DEF RegularPoints, OnMonths
<1> HIDE DEF P
<1>7. CASE SecondQuarter(p, c, q)
  <2>1. p.derived = "Q2 YTD - Q1" /\ c.kind = "year_to_date" /\ q.kind = "quarter" BY <1>7 DEF SecondQuarter
  <2>2. q \in QuarterBefore(P, c) BY <1>3, <2>1 DEF QuarterBefore
  <2>3. DerivedQuarterMatches(p, P) BY <1>3, <2>1, <2>2 DEF DerivedQuarterMatches
  <2> QED BY <2>3 DEF P
<1>8. CASE ThirdQuarter(p, c, q)
  <2>1. p.derived = "Q3 YTD - Q2" /\ c.kind = "year_to_date" /\ q.kind = "year_to_date" BY <1>8 DEF ThirdQuarter
  <2>2. c.end = c.start + 9 /\ q.end = c.start + 6 BY <1>2, <1>3, <1>8 DEF QuarterMonthsOf
  <2>3. q \in YtdBefore(P, c)
    <3>1. q.end < c.end BY <1>5, <2>2
    <3>2. ASSUME NEW r \in P, r.metric = c.metric, r.kind = "year_to_date", r.start = c.start, r.end < c.end
          PROVE  r.end <= q.end
      BY <1>5, <1>6, <2>2, <3>2
    <3> QED BY <1>3, <2>1, <3>1, <3>2 DEF YtdBefore
  <2>4. DerivedQuarterMatches(p, P) BY <1>3, <2>1, <2>3 DEF DerivedQuarterMatches
  <2> QED BY <2>4 DEF P
<1>9. CASE FourthQuarter(p, c, q)
  <2>1. p.derived = "FY - Q3 YTD" /\ c.kind = "annual" /\ q.kind = "year_to_date" BY <1>9 DEF FourthQuarter
  <2>2. c.end = c.start + 12 /\ q.end = c.start + 9 BY <1>2, <1>3, <1>9 DEF QuarterMonthsOf
  <2>3. q \in YtdBefore(P, c)
    <3>1. q.end < c.end BY <1>5, <2>2
    <3>2. ASSUME NEW r \in P, r.metric = c.metric, r.kind = "year_to_date", r.start = c.start
          PROVE  r.end <= q.end
      BY <1>5, <1>6, <2>2, <3>2
    <3> QED BY <1>3, <2>1, <3>1, <3>2 DEF YtdBefore
  <2>4. DerivedQuarterMatches(p, P) BY <1>3, <2>1, <2>3 DEF DerivedQuarterMatches
  <2> QED BY <2>4 DEF P
<1> QED BY <1>2, <1>7, <1>8, <1>9

LEMMA PointsReconcile ==
    ASSUME NEW R, NEW first \in 0..11, RegularPoints(R, first)
    PROVE  Reconciles(PointsOf(R))
<1> DEFINE P == PointsOf(R)
<1>1. ASSUME NEW p \in P, p.kind = "quarter", p.metric # "free_cash_flow"
      PROVE  DerivedQuarterMatches(p, P)
  <2>1. CASE p \in DeriveDiscreteQuarters(R) BY <2>1, QuartersReconcile
  <2>2. CASE p \notin DeriveDiscreteQuarters(R)
    <3>1. p.derived \in {"no", "total_debt", "operating_margin"}
      <4>1. CASE p \in FlowsOf(R)
        <5>1. p \in QuartersOf(R) \/ p.derived = "total_debt" BY <1>1, <4>1, FlowPointsAre, FlowHas
        <5> QED BY <2>2, <5>1 DEF QuartersOf, RegularPoints
      <4>2. CASE p \in DeriveTtm(FlowsOf(R)) BY <1>1, <4>2, TtmIs
      <4>3. CASE p \in DeriveMargins(SumsOf(R)) BY <4>3, MarginIs DEF MarginMade
      <4> QED BY <4>1, <4>2, <4>3 DEF PointsOf, SumsOf
    <3>2. p.derived \notin {"FY - Q3 YTD", "Q2 YTD - Q1", "Q3 YTD - Q2"} BY <3>1
    <3> HIDE DEF P
    <3> QED BY <3>2 DEF DerivedQuarterMatches
  <2> QED BY <2>1, <2>2
<1>2. ASSUME NEW p \in P, p.kind = "ttm", p.metric \in TtmMetrics
      PROVE  TtmMatches(p, P)
  <2>1. p.metric # "operating_margin" BY <1>2 DEF TtmMetrics
  <2>2. p \in DeriveTtm(FlowsOf(R)) BY <1>2, <2>1, BuiltSeries DEF SeriesOf
  <2>3. PICK m \in TtmMetrics : \E e \in SeriesOf(FlowsOf(R), m, "quarter") :
           LET window == LastUpTo(SeriesOf(FlowsOf(R), m, "quarter"), e, 4) IN
           /\ WindowHolds(window)
           /\ p.metric = m /\ p.kind = "ttm" /\ p.end = e.end /\ p.derived = "ttm" /\ p.value = TotalOf(window)
    BY <2>2, TtmIs
  <2> DEFINE S == SeriesOf(FlowsOf(R), m, "quarter")
  <2>4. PICK e \in S : /\ WindowHolds(LastUpTo(S, e, 4))
                       /\ p.metric = m /\ p.end = e.end /\ p.value = TotalOf(LastUpTo(S, e, 4))
    BY <2>3
  <2>5. SeriesOf(P, p.metric, "quarter") = S BY <2>1, <2>4, BuiltSeries
  <2> HIDE DEF S, P
  <2>6. LastUpTo(S, p, 4) = LastUpTo(S, e, 4) BY <2>4 DEF LastUpTo
  <2>7. Cardinality(LastUpTo(S, e, 4)) = 4 BY <2>4 DEF WindowHolds
  <2> QED BY <2>4, <2>5, <2>6, <2>7 DEF TtmMatches
<1> HIDE DEF P
<1>3. Reconciles(P) BY <1>1, <1>2 DEF Reconciles
<1> QED BY <1>3 DEF P

\* A trailing sum is the sum of the quarters of four ends in a row.
LEMMA SumIs ==
    ASSUME NEW R, NEW first \in 0..11, RegularPoints(R, first), NEW p \in DeriveTtm(FlowsOf(R))
    PROVE  /\ p.metric \in TtmMetrics /\ p.kind = "ttm" /\ p.end \in Int
           /\ \E w1, w2, w3, w4 \in SeriesOf(FlowsOf(R), p.metric, "quarter") :
                /\ w1.end = p.end - 9 /\ w2.end = p.end - 6 /\ w3.end = p.end - 3 /\ w4.end = p.end
                /\ p.value = w1.value + w2.value + w3.value + w4.value
<1>1. PICK m \in TtmMetrics : \E e \in SeriesOf(FlowsOf(R), m, "quarter") :
         LET window == LastUpTo(SeriesOf(FlowsOf(R), m, "quarter"), e, 4) IN
         /\ WindowHolds(window)
         /\ p.metric = m /\ p.kind = "ttm" /\ p.end = e.end /\ p.derived = "ttm" /\ p.value = TotalOf(window)
  BY TtmIs
<1> DEFINE S == SeriesOf(FlowsOf(R), m, "quarter")
<1>2. PICK e \in S : /\ WindowHolds(LastUpTo(S, e, 4))
                     /\ p.metric = m /\ p.kind = "ttm" /\ p.end = e.end /\ p.value = TotalOf(LastUpTo(S, e, 4))
  BY <1>1
<1>3. OnGrid(S, first)
  <2>1. m \in PartMetrics \cup {"free_cash_flow"} BY DEF PartMetrics, TtmMetrics
  <2> QED BY <2>1, FlowSeriesOnGrid
<1> HIDE DEF S
<1>4. PICK a \in S, b \in S, c \in S : /\ LastUpTo(S, e, 4) = {a, b, c, e}
                                       /\ a.end = e.end - 9 /\ b.end = e.end - 6 /\ c.end = e.end - 3
  BY <1>2, <1>3, WindowIsFour
<1>5. e.end \in Int /\ \A w \in S : w.value \in Int BY <1>3 DEF OnGrid
<1>6. a # b /\ a # c /\ a # e /\ b # c /\ b # e /\ c # e
  <2>1. a.end # b.end /\ a.end # c.end /\ a.end # e.end /\ b.end # c.end /\ b.end # e.end /\ c.end # e.end BY <1>4, <1>5
  <2> QED BY <2>1
<1>7. TotalOf({a, b, c, e}) = a.value + b.value + c.value + e.value BY <1>5, <1>6, FourAmountTo
<1>8. p.value = a.value + b.value + c.value + e.value BY <1>2, <1>4, <1>7
<1> QED BY <1>2, <1>4, <1>5, <1>8 DEF S

\* What a property says of the quarters in a window holds of these four.
LEMMA YearOfParts ==
    ASSUME NEW R, NEW first \in 0..11, RegularPoints(R, first), NEW m \in PartMetrics,
           NEW a \in R, a.metric = m, a.kind = "annual", NEW b, b.start = a.start, b.end = a.end,
           MadeOfTheYear(PointsOf(R), m, b),
           NEW w1 \in SeriesOf(FlowsOf(R), m, "quarter"), NEW w2 \in SeriesOf(FlowsOf(R), m, "quarter"),
           NEW w3 \in SeriesOf(FlowsOf(R), m, "quarter"), NEW w4 \in SeriesOf(FlowsOf(R), m, "quarter"),
           w1.end = a.end - 9, w2.end = a.end - 6, w3.end = a.end - 3, w4.end = a.end
    PROVE  /\ w1.value + w2.value + w3.value + w4.value = a.value
           /\ \A w \in {w1, w2, w3, w4} : w \in LastUpTo(SeriesOf(PointsOf(R), m, "quarter"), b, 4)
<1> DEFINE S == SeriesOf(FlowsOf(R), m, "quarter")
<1>1. S = SeriesOf(R \cup DeriveDiscreteQuarters(R), m, "quarter") BY PartSeries DEF QuartersOf
<1>2. SeriesOf(PointsOf(R), m, "quarter") = S
  <2>1. m # "operating_margin" BY DEF PartMetrics
  <2> QED BY <2>1, BuiltSeries
<1>3. OnGrid(S, first) BY FlowSeriesOnGrid
<1>4. b.end \in Int /\ b.end % 3 = first % 3
  <2>1. a.start \in Int /\ a.start % 12 = first /\ a.end = a.start + 12 BY DEF RegularPoints, OnMonths
  <2>2. a.end \in Int BY <2>1
  <2> QED BY <2>1, <2>2, Remainders
<1> HIDE DEF S
<1>5. w1 \in S /\ w2 \in S /\ w3 \in S /\ w4 \in S BY DEF S
<1>6. \A w \in {w1, w2, w3, w4} : w \in S /\ w.end \in {b.end - 9, b.end - 6, b.end - 3, b.end} BY <1>5
<1>7. \A w \in {w1, w2, w3, w4} : w \in LastUpTo(S, b, 4) BY <1>3, <1>4, <1>6, InWindow
<1>8. \A w \in {w1, w2, w3, w4} : w.derived # "no" \/ (w.fp = "Q1" /\ w.start = a.start)
  BY <1>2, <1>7 DEF MadeOfTheYear
<1>9. w1.value + w2.value + w3.value + w4.value = a.value
  <2>1. QuartersOfYear(a, w1, w2, w3, w4) BY <1>8 DEF QuartersOfYear
  <2>2. YearAmounts(S, a) BY <1>1, YearAdds
  <2> QED BY <1>5, <2>1, <2>2 DEF YearAmounts
<1> QED BY <1>2, <1>7, <1>9

LEMMA ReportedYear ==
    ASSUME NEW R, NEW first \in 0..11, RegularPoints(R, first), NEW p \in DeriveTtm(FlowsOf(R)),
           p.metric \in PartMetrics, NEW a \in R, a.metric = p.metric, a.kind = "annual", a.end = p.end,
           NEW b, b.start = a.start, b.end = a.end, MadeOfTheYear(PointsOf(R), p.metric, b)
    PROVE  p.value = a.value
<1> DEFINE m == p.metric
<1>1. PICK w1 \in SeriesOf(FlowsOf(R), m, "quarter"), w2 \in SeriesOf(FlowsOf(R), m, "quarter"),
           w3 \in SeriesOf(FlowsOf(R), m, "quarter"), w4 \in SeriesOf(FlowsOf(R), m, "quarter") :
        /\ w1.end = p.end - 9 /\ w2.end = p.end - 6 /\ w3.end = p.end - 3 /\ w4.end = p.end
        /\ p.value = w1.value + w2.value + w3.value + w4.value
  BY SumIs
<1>2. m \in PartMetrics /\ a.metric = m /\ MadeOfTheYear(PointsOf(R), m, b) OBVIOUS
<1> HIDE DEF m
<1>3. w1.value + w2.value + w3.value + w4.value = a.value BY <1>1, <1>2, YearOfParts
<1> QED BY <1>1, <1>3

LEMMA FlowYear ==
    ASSUME NEW R, NEW first \in 0..11, RegularPoints(R, first),
           NEW a \in PointsOf(R), a.metric = "free_cash_flow", a.kind = "annual",
           NEW p \in DeriveTtm(FlowsOf(R)), p.metric = "free_cash_flow", p.end = a.end,
           MadeOfTheYear(PointsOf(R), "operating_cash_flow", a),
           MadeOfTheYear(PointsOf(R), "capital_expenditure", a),
           OneSign(LastUpTo(SeriesOf(PointsOf(R), "capital_expenditure", "quarter"), a, 4))
    PROVE  p.value = a.value
<1> DEFINE O == SeriesOf(FlowsOf(R), "operating_cash_flow", "quarter")
           C == SeriesOf(FlowsOf(R), "capital_expenditure", "quarter")
           F == SeriesOf(FlowsOf(R), "free_cash_flow", "quarter")
<1>1. a \in FlowsOf(R)
  <2>1. SeriesOf(PointsOf(R), "free_cash_flow", "annual") = SeriesOf(FlowsOf(R), "free_cash_flow", "annual")
    BY BuiltSeries
  <2> QED BY <2>1 DEF SeriesOf
<1>2. ASSUME NEW x \in FlowsOf(R), x.metric = "free_cash_flow"
      PROVE  \E o, c \in QuartersOf(R) : FlowOf(x, o, c)
  BY <1>2, FlowPointsAre, QuarterPointsAre
<1>3. PICK o \in QuartersOf(R), c \in QuartersOf(R) : FlowOf(a, o, c) BY <1>1, <1>2
<1>4. /\ o.kind = "annual" /\ c.kind = "annual" /\ o.end = a.end /\ c.end = a.end /\ o.start = a.start
      /\ o.metric = "operating_cash_flow" /\ c.metric = "capital_expenditure"
      /\ a.value = o.value - (IF c.value < 0 THEN -c.value ELSE c.value)
  BY <1>3, FlowHas DEF FlowOf
<1>5. o \in R /\ c \in R BY <1>4, QuarterPointsAre
<1>6. c.start = a.start /\ o.value \in Int /\ c.value \in Int
  <2>1. /\ o.start \in Int /\ c.start \in Int /\ o.end = o.start + 12 /\ c.end = c.start + 12
        /\ o.value \in Int /\ c.value \in Int
    BY <1>4, <1>5 DEF RegularPoints, OnMonths
  <2> QED BY <1>4, <2>1
<1>7. ASSUME NEW w \in F
      PROVE  \E x \in O, y \in C : /\ x.end = w.end /\ y.end = w.end /\ x.value \in Int /\ y.value \in Int
                                   /\ w.value = x.value - (IF y.value < 0 THEN -y.value ELSE y.value)
  <2>1. w \in FlowsOf(R) /\ w.metric = "free_cash_flow" /\ w.kind = "quarter" BY <1>7 DEF SeriesOf
  <2>2. PICK x \in QuartersOf(R), y \in QuartersOf(R) : FlowOf(w, x, y) BY <1>2, <2>1
  <2>3. /\ x.metric = "operating_cash_flow" /\ y.metric = "capital_expenditure" /\ x.kind = "quarter" /\ y.kind = "quarter"
        /\ x.end = w.end /\ y.end = w.end
        /\ w.value = x.value - (IF y.value < 0 THEN -y.value ELSE y.value)
    BY <2>1, <2>2, FlowHas DEF FlowOf
  <2>4. x \in O /\ y \in C BY <2>3 DEF FlowsOf, DebtsOf, SeriesOf
  <2>5. OnGrid(O, first) /\ OnGrid(C, first) BY FlowSeriesOnGrid DEF PartMetrics
  <2> HIDE DEF O, C
  <2>6. x.value \in Int /\ y.value \in Int BY <2>4, <2>5 DEF OnGrid
  <2> QED BY <2>3, <2>4, <2>6
<1>8. PICK w1 \in F, w2 \in F, w3 \in F, w4 \in F :
        /\ w1.end = p.end - 9 /\ w2.end = p.end - 6 /\ w3.end = p.end - 3 /\ w4.end = p.end
        /\ p.value = w1.value + w2.value + w3.value + w4.value
  BY SumIs
<1> HIDE DEF O, C, F
<1>9. PICK x1 \in O, y1 \in C : /\ x1.end = w1.end /\ y1.end = w1.end /\ x1.value \in Int /\ y1.value \in Int
                                /\ w1.value = x1.value - (IF y1.value < 0 THEN -y1.value ELSE y1.value)
  BY <1>7, <1>8
<1>10. PICK x2 \in O, y2 \in C : /\ x2.end = w2.end /\ y2.end = w2.end /\ x2.value \in Int /\ y2.value \in Int
                                 /\ w2.value = x2.value - (IF y2.value < 0 THEN -y2.value ELSE y2.value)
  BY <1>7, <1>8
<1>11. PICK x3 \in O, y3 \in C : /\ x3.end = w3.end /\ y3.end = w3.end /\ x3.value \in Int /\ y3.value \in Int
                                 /\ w3.value = x3.value - (IF y3.value < 0 THEN -y3.value ELSE y3.value)
  BY <1>7, <1>8
<1>12. PICK x4 \in O, y4 \in C : /\ x4.end = w4.end /\ y4.end = w4.end /\ x4.value \in Int /\ y4.value \in Int
                                 /\ w4.value = x4.value - (IF y4.value < 0 THEN -y4.value ELSE y4.value)
  BY <1>7, <1>8
<1>13. x1.value + x2.value + x3.value + x4.value = o.value
  <2> DEFINE m == "operating_cash_flow"
  <2>1. m \in PartMetrics /\ MadeOfTheYear(PointsOf(R), m, a) BY DEF PartMetrics
  <2>2. x1.end = o.end - 9 /\ x2.end = o.end - 6 /\ x3.end = o.end - 3 /\ x4.end = o.end
    BY <1>4, <1>8, <1>9, <1>10, <1>11, <1>12
  <2>3. /\ x1 \in SeriesOf(FlowsOf(R), m, "quarter") /\ x2 \in SeriesOf(FlowsOf(R), m, "quarter")
        /\ x3 \in SeriesOf(FlowsOf(R), m, "quarter") /\ x4 \in SeriesOf(FlowsOf(R), m, "quarter") /\ o.metric = m
    BY <1>4 DEF O
  <2> HIDE DEF m
  <2> QED BY <1>4, <1>5, <2>1, <2>2, <2>3, YearOfParts
<1>14. /\ y1.value + y2.value + y3.value + y4.value = c.value
       /\ \A y \in {y1, y2, y3, y4} : y \in LastUpTo(SeriesOf(PointsOf(R), "capital_expenditure", "quarter"), a, 4)
  <2> DEFINE m == "capital_expenditure"
  <2>1. m \in PartMetrics /\ MadeOfTheYear(PointsOf(R), m, a) BY DEF PartMetrics
  <2>2. y1.end = c.end - 9 /\ y2.end = c.end - 6 /\ y3.end = c.end - 3 /\ y4.end = c.end
    BY <1>4, <1>8, <1>9, <1>10, <1>11, <1>12
  <2>3. /\ y1 \in SeriesOf(FlowsOf(R), m, "quarter") /\ y2 \in SeriesOf(FlowsOf(R), m, "quarter")
        /\ y3 \in SeriesOf(FlowsOf(R), m, "quarter") /\ y4 \in SeriesOf(FlowsOf(R), m, "quarter") /\ c.metric = m
    BY <1>4 DEF C
  <2> HIDE DEF m
  <2>4. /\ y1.value + y2.value + y3.value + y4.value = c.value
        /\ \A y \in {y1, y2, y3, y4} : y \in LastUpTo(SeriesOf(PointsOf(R), m, "quarter"), a, 4)
    BY <1>4, <1>5, <1>6, <2>1, <2>2, <2>3, YearOfParts
  <2> QED BY <2>4 DEF m
<1>15. (\A y \in {y1, y2, y3, y4} : y.value >= 0) \/ (\A y \in {y1, y2, y3, y4} : y.value <= 0)
  BY <1>14 DEF OneSign
<1>16. p.value = (x1.value + x2.value + x3.value + x4.value)
                  - (IF c.value < 0 THEN -c.value ELSE c.value)
  <2> DEFINE v1 == y1.value
             v2 == y2.value
             v3 == y3.value
             v4 == y4.value
             u1 == x1.value
             u2 == x2.value
             u3 == x3.value
             u4 == x4.value
             v == c.value
  <2>1. /\ v1 \in Int /\ v2 \in Int /\ v3 \in Int /\ v4 \in Int
        /\ u1 \in Int /\ u2 \in Int /\ u3 \in Int /\ u4 \in Int /\ v = v1 + v2 + v3 + v4
    BY <1>9, <1>10, <1>11, <1>12, <1>14
  <2>2. /\ w1.value = u1 - (IF v1 < 0 THEN -v1 ELSE v1) /\ w2.value = u2 - (IF v2 < 0 THEN -v2 ELSE v2)
        /\ w3.value = u3 - (IF v3 < 0 THEN -v3 ELSE v3) /\ w4.value = u4 - (IF v4 < 0 THEN -v4 ELSE v4)
    BY <1>9, <1>10, <1>11, <1>12
  <2>3. (v1 >= 0 /\ v2 >= 0 /\ v3 >= 0 /\ v4 >= 0) \/ (v1 <= 0 /\ v2 <= 0 /\ v3 <= 0 /\ v4 <= 0) BY <1>15
  <2>4. p.value = w1.value + w2.value + w3.value + w4.value BY <1>8
  <2> HIDE DEF v1, v2, v3, v4, u1, u2, u3, u4, v
  <2>5. p.value = (u1 + u2 + u3 + u4) - (IF v < 0 THEN -v ELSE v) BY <2>1, <2>2, <2>3, <2>4
  <2> QED BY <2>5 DEF u1, u2, u3, u4, v
<1> QED BY <1>4, <1>13, <1>16

LEMMA TtmIsAlwaysTheYear ==
    ASSUME NEW R, NEW first \in 0..11, RegularPoints(R, first)
    PROVE  TtmIsTheYear(PointsOf(R))
<1> DEFINE P == PointsOf(R)
<1> SUFFICES ASSUME NEW a \in P, NEW p \in P,
                    a.kind = "annual", p.kind = "ttm", p.metric = a.metric, p.end = a.end,
                    \A part \in PartsOf(a.metric) : MadeOfTheYear(P, part, a),
                    a.metric = "free_cash_flow" =>
                        OneSign(LastUpTo(SeriesOf(P, "capital_expenditure", "quarter"), a, 4))
             PROVE  p.value = a.value
  BY DEF TtmIsTheYear
<1>1. ASSUME NEW x \in P, x.metric # "operating_margin", x.kind = "ttm"
      PROVE  x \in DeriveTtm(FlowsOf(R))
  <2> DEFINE m == x.metric
  <2>1. m # "operating_margin" BY <1>1
  <2>2. x \in SeriesOf(P, m, "ttm") BY <1>1 DEF SeriesOf
  <2> HIDE DEF m
  <2>3. SeriesOf(P, m, "ttm") \subseteq DeriveTtm(FlowsOf(R)) BY <2>1, BuiltSeries
  <2> QED BY <2>2, <2>3
<1>2. ASSUME NEW x \in P, x.metric \in PartMetrics, x.kind = "annual" PROVE x \in R
  <2>1. x.metric \notin InstantMetrics \cup {"free_cash_flow", "operating_margin"}
    BY <1>2 DEF PartMetrics, InstantMetrics
  <2> QED BY <1>2, <2>1, TotalsAreReported
<1>3. SumsOf(R) \subseteq P BY DEF PointsOf
<1>4. CASE a.metric = "operating_margin"
  <2>1. \A x \in P : x.metric = "operating_margin" => x \in DeriveMargins(SumsOf(R))
    <3>1. \A x \in SumsOf(R) : x.metric # "operating_margin"
      <4>1. \A x \in DeriveTtm(FlowsOf(R)) : x.metric # "operating_margin" BY SumIs DEF TtmMetrics
      <4>2. \A x \in FlowsOf(R) : x.metric # "operating_margin" BY FlowPointsAre, QuarterPointsAre, FlowHas
      <4> QED BY <4>1, <4>2 DEF SumsOf
    <3> QED BY <3>1 DEF PointsOf
  <2>2. PICK o \in SumsOf(R), r \in SumsOf(R) : MarginMade(a, o, r) BY <1>4, <2>1, MarginIs
  <2>3. PICK t \in SumsOf(R), u \in SumsOf(R) : MarginMade(p, t, u) BY <1>4, <2>1, MarginIs
  <2>4. o \in R /\ r \in R
    <3>1. o.kind = "annual" /\ r.kind = "annual" /\ o.metric \in PartMetrics /\ r.metric \in PartMetrics
      BY <2>2 DEF MarginMade, PartMetrics
    <3> QED BY <1>2, <1>3, <3>1
  <2>5. t \in DeriveTtm(FlowsOf(R)) /\ u \in DeriveTtm(FlowsOf(R))
    <3>1. t.kind = "ttm" /\ u.kind = "ttm" /\ t.metric # "operating_margin" /\ u.metric # "operating_margin"
      BY <2>3 DEF MarginMade
    <3> QED BY <1>1, <1>3, <3>1
  <2>6. o.start = a.start /\ r.start = a.start /\ o.end = a.end /\ r.end = a.end
    <3>1. o.start \in Int /\ r.start \in Int /\ o.kind = "annual" /\ r.kind = "annual" BY <2>2, <2>4 DEF RegularPoints, MarginMade
    <3>2. o.end = o.start + 12 /\ r.end = r.start + 12 BY <2>4, <3>1 DEF RegularPoints, OnMonths
    <3> QED BY <2>2, <3>1, <3>2 DEF MarginMade
  <2>7. /\ o.metric = "operating_income" /\ t.metric = "operating_income" /\ o.kind = "annual"
        /\ r.metric = "revenue" /\ u.metric = "revenue" /\ r.kind = "annual" /\ t.end = a.end /\ u.end = a.end
    BY <2>2, <2>3 DEF MarginMade
  <2>8. MadeOfTheYear(P, "operating_income", a) /\ MadeOfTheYear(P, "revenue", a) BY <1>4 DEF PartsOf
  <2>9. t.value = o.value BY <2>4, <2>5, <2>6, <2>7, <2>8, ReportedYear DEF PartMetrics
  <2>10. u.value = r.value BY <2>4, <2>5, <2>6, <2>7, <2>8, ReportedYear DEF PartMetrics
  <2> QED BY <2>2, <2>3, <2>9, <2>10 DEF MarginMade
<1>5. CASE a.metric # "operating_margin"
  <2>1. p \in DeriveTtm(FlowsOf(R)) BY <1>1, <1>5
  <2>2. a.metric \in TtmMetrics BY <2>1, SumIs
  <2>3. CASE a.metric = "free_cash_flow"
    <3>1. MadeOfTheYear(P, "operating_cash_flow", a) /\ MadeOfTheYear(P, "capital_expenditure", a) BY <2>3 DEF PartsOf
    <3> QED BY <2>1, <2>3, <3>1, FlowYear
  <2>4. CASE a.metric # "free_cash_flow"
    <3>1. a.metric \in PartMetrics BY <2>2, <2>4 DEF TtmMetrics, PartMetrics
    <3>2. a \in R BY <1>2, <3>1
    <3>3. MadeOfTheYear(P, a.metric, a) BY <1>5, <2>4 DEF PartsOf
    <3> QED BY <2>1, <3>1, <3>2, <3>3, ReportedYear
  <2> QED BY <2>3, <2>4
<1> QED BY <1>4, <1>5

\* For any filings on the months of a company, any days and every policy, the
\* quarters and sums of a snapshot agree with what they were made of: the
\* builder pairs periods by their ends, and on such months this is right.
LEMMA BuiltAddsUp ==
    ASSUME RegularFilings, NEW rows, rows \subseteq Filings, IsFiniteSet(rows), NEW asOf, NEW policy
    PROVE  Reconciles(BuildPoints(rows, asOf, policy)) /\ TtmIsTheYear(BuildPoints(rows, asOf, policy))
<1> DEFINE R == ReportedOf(rows, asOf, policy)
<1>1. PICK first \in 0..11 : RegularPoints(R, first) BY ReportedIsRegular
<1>2. BuildPoints(rows, asOf, policy) = PointsOf(R) BY BuiltIs
<1> HIDE DEF R
<1>3. Reconciles(PointsOf(R)) BY <1>1, PointsReconcile
<1>4. TtmIsTheYear(PointsOf(R)) BY <1>1, TtmIsAlwaysTheYear
<1> QED BY <1>2, <1>3, <1>4

\* The facts are finitely many filings, and the snapshot adds up.
AddsUpInv == facts \subseteq Filings /\ IsFiniteSet(facts) /\ SnapshotAddsUp

\* The snapshots of a company whose periods are regular add up, in every
\* behaviour: whatever is filed, amended and asked for, on any day.
THEOREM SnapshotsAddUp == RegularFilings => (FinancialSpec => []SnapshotAddsUp)
<1> SUFFICES ASSUME RegularFilings PROVE FinancialSpec => []SnapshotAddsUp
  OBVIOUS
<1>1. FinancialInit => AddsUpInv
  <2> SUFFICES ASSUME FinancialInit PROVE AddsUpInv
    OBVIOUS
  <2>1. facts = {} /\ snapshot.points = {} BY DEF FinancialInit, NoSnapshot
  <2>2. IsFiniteSet(facts) BY <2>1, FS_EmptySet
  <2> QED BY <2>1, <2>2 DEF AddsUpInv, SnapshotAddsUp, Reconciles, TtmIsTheYear
<1>2. AddsUpInv /\ [FinancialNext]_financialVars => AddsUpInv'
  <2> SUFFICES ASSUME AddsUpInv, [FinancialNext]_financialVars PROVE AddsUpInv'
    OBVIOUS
  <2>1. CASE File
    <3>1. PICK f \in Filings : facts' = facts \cup {f} /\ snapshot' = snapshot BY <2>1 DEF File
    <3>2. IsFiniteSet(facts') BY <3>1, FS_AddElement DEF AddsUpInv
    <3> QED BY <3>1, <3>2 DEF AddsUpInv, SnapshotAddsUp
  <2>2. CASE NextDay BY <2>2 DEF NextDay, AddsUpInv, SnapshotAddsUp
  <2>3. CASE BuildSnapshot
    <3>1. PICK asOf \in AsOfDays, policy \in Policies : snapshot'.points = BuildPoints(facts, asOf, policy)
      BY <2>3 DEF BuildSnapshot
    <3>2. facts' = facts BY <2>3 DEF BuildSnapshot
    <3>3. Reconciles(snapshot'.points) /\ TtmIsTheYear(snapshot'.points) BY <3>1, BuiltAddsUp DEF AddsUpInv
    <3> QED BY <3>2, <3>3 DEF AddsUpInv, SnapshotAddsUp
  <2>4. CASE UNCHANGED financialVars BY <2>4 DEF financialVars, AddsUpInv, SnapshotAddsUp
  <2> QED BY <2>1, <2>2, <2>3, <2>4 DEF FinancialNext
<1>3. AddsUpInv => SnapshotAddsUp BY DEF AddsUpInv
<1> QED BY <1>1, <1>2, <1>3, PTL DEF FinancialSpec
=============================================================================

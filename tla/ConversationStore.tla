------------------------- MODULE ConversationStore -------------------------
(***************************************************************************)
(* The message batches of one conversation in SQLite (ai/message_store.py) *)
(* and the recorder that appends what an agent run adds to it              *)
(* (ai/recorder.py, ai/runtime_adapter.py).  Each process has a lock of    *)
(* its own, so a recorder stands for a process.                            *)
(***************************************************************************)
EXTENDS Integers, FiniteSets

CONSTANTS
    Recorders,       \* processes with a message store
    Operations,      \* ids "run:agent"
    Contents,        \* what a batch may hold, but for its created_at
    MaxMessageTime   \* bound of the clock

ASSUME MessageTimeAssumption == MaxMessageTime \in Nat

VARIABLES
    batches,        \* rows of agent_message_batches: [op, content, at]
    recorder,       \* what each process is about to append, and the history it loaded
    appends,        \* answers the callers of append got
    messageClock

conversationVars == <<batches, recorder, appends, messageClock>>

Batches == [op : Operations, content : Contents, at : 0..MaxMessageTime]
NoBatches == {}

\* An agent runs from the history it has loaded, which has the order of
\* (created_at, operation_id): a set of batches determines it.
RecorderInit == [stage |-> "idle", batch |-> NoBatches, history |-> NoBatches]

ConversationInit ==
    /\ batches = NoBatches
    /\ recorder = [p \in Recorders |-> RecorderInit]
    /\ appends = {}
    /\ messageClock = 0

RowsOf(op) == {b \in batches : b.op = op}

Answer(batch, answer) == appends' = appends \cup {[batch |-> batch, answer |-> answer]}

\* _run_and_record loads the history before the agent runs ...
LoadHistory(p) ==
    /\ recorder[p].stage = "idle"
    /\ recorder' = [recorder EXCEPT ![p] = [@ EXCEPT !.stage = "running", !.history = batches]]
    /\ UNCHANGED <<batches, appends, messageClock>>

\* ... and makes a batch of its result, which gets its time before the lock.
\* One agent may be run more than once in a run, with other messages.
RecordResult(p) ==
    /\ recorder[p].stage = "running"
    /\ \E op \in Operations, content \in Contents :
        recorder' = [recorder EXCEPT ![p] =
            [@ EXCEPT !.stage = "append", !.batch = {[op |-> op, content |-> content, at |-> messageClock]}]]
    /\ UNCHANGED <<batches, appends, messageClock>>

\* A row of the operation: the same content is ignored, another refused.
FindBatch(p) ==
    /\ recorder[p].stage = "append"
    /\ \E batch \in recorder[p].batch :
        IF RowsOf(batch.op) = {}
        THEN /\ recorder' = [recorder EXCEPT ![p].stage = "insert"]
             /\ UNCHANGED appends
        ELSE /\ Answer(batch, IF \E b \in RowsOf(batch.op) : b.content = batch.content
                                 THEN "ignored" ELSE "replayed")
             /\ recorder' = [recorder EXCEPT ![p] = RecorderInit]
    /\ UNCHANGED <<batches, messageClock>>

\* Mutant: a row that another process wrote meanwhile is replaced.
ReplaceBatch(p) ==
    /\ recorder[p].stage = "insert"
    /\ \E batch \in recorder[p].batch :
        /\ batches' = (batches \ RowsOf(batch.op)) \cup {batch}
        /\ Answer(batch, "stored")
    /\ recorder' = [recorder EXCEPT ![p] = RecorderInit]
    /\ UNCHANGED messageClock

\* The primary key refuses a row of the operation that came in between.
InsertBatch(p) ==
    /\ recorder[p].stage = "insert"
    /\ \E batch \in recorder[p].batch :
        IF RowsOf(batch.op) = {}
        THEN /\ batches' = batches \cup {batch}
             /\ Answer(batch, "stored")
        ELSE /\ Answer(batch, "refused")
             /\ UNCHANGED batches
    /\ recorder' = [recorder EXCEPT ![p] = RecorderInit]
    /\ UNCHANGED messageClock

\* The agent raises, or its process dies: nothing is recorded.
LoseRecorder(p) ==
    /\ recorder[p].stage # "idle"
    /\ recorder' = [recorder EXCEPT ![p] = RecorderInit]
    /\ UNCHANGED <<batches, appends, messageClock>>

MessageTick ==
    /\ messageClock < MaxMessageTime
    /\ messageClock' = messageClock + 1
    /\ UNCHANGED <<batches, recorder, appends>>

ConversationNext ==
    \/ \E p \in Recorders :
        LoadHistory(p) \/ RecordResult(p) \/ FindBatch(p) \/ InsertBatch(p) \/ LoseRecorder(p)
    \/ MessageTick

ConversationSpec == ConversationInit /\ [][ConversationNext]_conversationVars
-----------------------------------------------------------------------------
(* Properties *)

ConversationTypeOK ==
    /\ batches \subseteq Batches
    /\ recorder \in [Recorders -> [stage : {"idle", "running", "append", "insert"},
                                   batch : SUBSET Batches, history : SUBSET Batches]]
    /\ appends \subseteq [batch : Batches,
                          answer : {"stored", "ignored", "replayed", "refused"}]
    /\ messageClock \in 0..MaxMessageTime

OneRowPerOperation == \A b, c \in batches : b.op = c.op => b = c

\* What an answer says is so from then on.
AnswerHolds(a) ==
    /\ a.answer = "stored"   => a.batch \in batches
    /\ a.answer = "ignored"  => \E b \in batches : b.op = a.batch.op /\ b.content = a.batch.content
    /\ a.answer = "replayed" => \E b \in batches : b.op = a.batch.op /\ b.content # a.batch.content
    /\ a.answer = "refused"  => \E b \in batches : b.op = a.batch.op

HistoryOnlyGrows == \A p \in Recorders : recorder[p].history \subseteq batches

\* However two processes append batches, also of the same operation: one
\* row per operation, every answer stays true, and the history
\* that an agent run went on from is never taken back.
AppendsAreIdempotent ==
    OneRowPerOperation /\ (\A a \in appends : AnswerHolds(a)) /\ HistoryOnlyGrows
=============================================================================

-------------------------- MODULE ResearchDatabase --------------------------
(***************************************************************************)
(* The schema of the research database (research/database.py): every store *)
(* applies the migrations when it is opened, also when several processes,  *)
(* of several releases, do so at once.  Backup and restore copy the whole  *)
(* database.                                                               *)
(***************************************************************************)
EXTENDS Integers, FiniteSets, Sequences

CONSTANTS
    Openers,     \* processes that open the database
    Releases,    \* what a release ships: the checksums of its migrations 1, 2, ...
    Checksums

ASSUME ReleasesAssumption == \A ships \in Releases : ships \in Seq(Checksums)
ASSUME WriterAssumption == "none" \notin Openers

VARIABLES
    schema,      \* committed: [version, rows, tables]
    opener,      \* [stage, ships, current, target, work] of each process
    writer,      \* holder of the write lock
    backup       \* a copy of the database, or none

schemaVars == <<schema, opener, writer, backup>>

\* rows and tables are sets of <<version, checksum>>: what is recorded of
\* the migrations and what they made.
EmptySchema == [version |-> 0, rows |-> {}, tables |-> {}]
ClosedOpener == [stage |-> "closed", ships |-> <<>>, current |-> 0, target |-> 0, work |-> EmptySchema]
NoWriter == "none"

SchemaInit ==
    /\ schema = EmptySchema
    /\ opener = [p \in Openers |-> ClosedOpener]
    /\ writer = NoWriter
    /\ backup = {}

Maximum(ships) == Len(ships)

\* The version is read before the write lock is asked for; a release that
\* does not know it raises.
OpenDatabase(p) ==
    /\ opener[p].stage = "closed"
    /\ \E ships \in Releases : \E target \in 0..Maximum(ships) :
        /\ schema.version <= Maximum(ships)
        /\ opener' = [opener EXCEPT ![p] =
             [stage |-> "opened", ships |-> ships, current |-> schema.version,
              target |-> target, work |-> EmptySchema]]
    /\ UNCHANGED <<schema, writer, backup>>

Mismatch(ships) == \E row \in schema.rows : row[1] \in DOMAIN ships /\ ships[row[1]] # row[2]

\* Done or failed, the connection is closed.
Closes(p) == opener' = [opener EXCEPT ![p] = ClosedOpener]

\* BEGIN IMMEDIATE, and the checksums of what is there.
LockDatabase(p) ==
    /\ opener[p].stage = "opened"
    /\ writer = NoWriter
    /\ IF Mismatch(opener[p].ships)
       THEN Closes(p) /\ UNCHANGED writer
       ELSE /\ opener' = [opener EXCEPT ![p].stage = "migrating", ![p].work = schema]
            /\ writer' = p
    /\ UNCHANGED <<schema, backup>>

\* SQLite waits for the lock for some seconds only.
LockTimesOut(p) ==
    /\ opener[p].stage = "opened"
    /\ writer # NoWriter
    /\ Closes(p)
    /\ UNCHANGED <<schema, writer, backup>>

NextMigration(p) == opener[p].current + 1

Migrated(work, version, checksum) ==
    [version |-> version, rows |-> work.rows \cup {<<version, checksum>>},
     tables |-> work.tables \cup {<<version, checksum>>}]

RowExists(p, version) == \E row \in opener[p].work.rows : row[1] = version

\* Mutant: a row that is there already is no error.
MigrateOver(p) ==
    LET v == NextMigration(p)
    IN  /\ opener[p].stage = "migrating"
        /\ v <= opener[p].target
        /\ opener' = [opener EXCEPT ![p].current = v, ![p].work = Migrated(@, v, opener[p].ships[v])]
        /\ UNCHANGED <<schema, writer, backup>>

MigrateOne(p) ==
    LET v == NextMigration(p)
    IN  /\ opener[p].stage = "migrating"
        /\ v <= opener[p].target
        /\ ~RowExists(p, v)
        /\ opener' = [opener EXCEPT ![p].current = v, ![p].work = Migrated(@, v, opener[p].ships[v])]
        /\ UNCHANGED <<schema, writer, backup>>

CommitSchema(p) ==
    /\ opener[p].stage = "migrating"
    /\ NextMigration(p) > opener[p].target
    /\ schema' = opener[p].work
    /\ Closes(p)
    /\ writer' = NoWriter
    /\ UNCHANGED backup

\* A migration raises, its row is there already, or the process dies; all of
\* its transaction goes.
RollBackSchema(p) ==
    /\ opener[p].stage = "migrating"
    /\ Closes(p)
    /\ writer' = NoWriter
    /\ UNCHANGED <<schema, backup>>

BackupDatabase ==
    /\ backup' = {schema}
    /\ UNCHANGED <<schema, opener, writer>>

\* For the operator: while no process is between its two reads, which the
\* code leaves to whoever restores.
RestoreDatabase ==
    /\ writer = NoWriter
    /\ \A p \in Openers : opener[p].stage # "opened"
    /\ schema' \in backup
    /\ UNCHANGED <<opener, writer, backup>>

SchemaNext ==
    \/ \E p \in Openers :
        \/ OpenDatabase(p) \/ LockDatabase(p) \/ LockTimesOut(p) \/ MigrateOne(p)
        \/ CommitSchema(p) \/ RollBackSchema(p)
    \/ BackupDatabase
    \/ RestoreDatabase

SchemaSpec == SchemaInit /\ [][SchemaNext]_schemaVars
-----------------------------------------------------------------------------
(* Properties *)

Complete(s) ==
    /\ s.rows = s.tables
    /\ {row[1] : row \in s.rows} = 1..s.version
    /\ \A row, other \in s.rows : row[1] = other[1] => row = other

SchemaTypeOK ==
    /\ writer \in Openers \cup {NoWriter}
    /\ \A p \in Openers : opener[p].stage \in {"closed", "opened", "migrating"}

\* Whoever migrates, fails or is late: the committed schema is a whole prefix
\* of the migrations of one history, recorded as it was made.
SchemaIsWhole == Complete(schema) /\ \A copy \in backup : Complete(copy)
=============================================================================

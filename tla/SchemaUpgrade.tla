--------------------------- MODULE SchemaUpgrade ---------------------------
(***************************************************************************)
(* The start of the API process before it serves (main.py, 149-175): the   *)
(* migrations of db/schema.py, in order, the encryption of the nodes'      *)
(* passwords between them, and what the start selects after them.          *)
(*                                                                         *)
(* A migration inspects the database and runs the DDL statements that are  *)
(* missing.  MySQL commits at every DDL statement, so the process may stop *)
(* between any two of them; docker starts it again.  Some migrations look  *)
(* for their table only, others for each index as well: what a crash       *)
(* leaves behind differs.  They cover part of what the ORM selects: the    *)
(* rest is there if docker/init.sql, or somebody, made it.                 *)
(***************************************************************************)
EXTENDS Naturals, Sequences, FiniteSets

CONSTANTS
    OldDatabase,    \* the sets of migrated tables an older deployment may have
    OldParts,       \* the sets of unmigrated tables and columns it may have
    MaxStop         \* bound on crashes, restarts and lost connections

ASSUME SchemaAssumption == MaxStop \in Nat

VARIABLES
    schema,     \* tables, upgraded columns, indexes, tables with duplicate rows
    inherited,  \* the tables and columns it has that no migration makes
    passwords,  \* of the nodes: plain, encrypted, or under another master key
    startup,    \* the migration that runs and its statements still to do
    cut,        \* tables whose migration was stopped half-way
    stops

schemaVars == <<schema, inherited, passwords, startup, cut, stops>>

-----------------------------------------------------------------------------
(* Statements, and what a migration finds missing *)

Table(t)      == [kind |-> "table",  on |-> t, name |-> t]
Column(t, c)  == [kind |-> "column", on |-> t, name |-> c]
Index(t, i)   == [kind |-> "index",  on |-> t, name |-> i]
Unique(t, i)  == [kind |-> "unique", on |-> t, name |-> i]

\* DELETE of the duplicate rows; the CREATE UNIQUE INDEX after it commits both.
Repair(t, i)  == [kind |-> "repair", on |-> t, name |-> i]

AddColumn(db, t, c) == IF c \in db.columns THEN <<>> ELSE <<Column(t, c)>>

\* A migration that looks for the table creates the indexes with it, or never.
CreateTable(db, t, indexes) ==
    IF t \in db.tables THEN <<>> ELSE <<Table(t)>> \o indexes

AddIndex(db, s) == IF s.name \in db.indexes THEN <<>> ELSE <<s>>

\* Fault: a migration that finds its table looks no further.
RepairNoTable(db, t, missing) == CreateTable(db, t, missing)

\* A migration that looks for the index creates what is missing of either.
RepairTable(db, t, missing) == CreateTable(db, t, <<>>) \o missing

-----------------------------------------------------------------------------
(* The migrations: the statements each runs on a database *)

EnsureNodePassword(db) == AddColumn(db, "node", "node_password")

EnsureConfigValue(db) == AddColumn(db, "config", "config_value")

EnsureAiGeneration(db) ==
    CreateTable(db, "ai_task",
        <<Index("ai_task", "ai_task_status"), Index("ai_task", "ai_task_type")>>) \o
    CreateTable(db, "ai_artifact", <<Index("ai_artifact", "ai_artifact_task")>>)

EnsureReportColumns(db) ==
    AddColumn(db, "report", "report_region") \o
    AddColumn(db, "report", "report_service_name") \o
    AddColumn(db, "report", "report_total_threads") \o
    AddColumn(db, "report", "report_slave_count") \o
    AddColumn(db, "report", "report_grafana_instance") \o
    AddColumn(db, "report", "report_artifact_dir")

\* An old csv_resource table lacks file_type, a new one is created with it.
EnsureCsvResource(db) ==
    CreateTable(db, "csv_resource", <<Unique("csv_resource", "uk_csv_filename")>>) \o
    (IF "csv_resource" \in db.tables
     THEN AddColumn(db, "csv_resource", "csv_file_type") ELSE <<>>) \o
    CreateTable(db, "csv_binding",
        <<Unique("csv_binding", "uk_csv_binding"), Index("csv_binding", "csv_binding_file")>>) \o
    CreateTable(db, "upload_binding",
        <<Unique("upload_binding", "uk_upload_binding"),
          Index("upload_binding", "upload_binding_file")>>)

EnsureRbac(db) ==
    CreateTable(db, "role", <<Unique("role", "uk_role_code")>>) \o
    CreateTable(db, "role_permission",
        <<Index("role_permission", "role_permission_role")>>) \o
    AddColumn(db, "user", "user_role_id")

EnsureScheduledTaskLog(db) ==
    CreateTable(db, "task_log",
        <<Index("task_log", "task_log_task"), Index("task_log", "task_log_case")>>)

EnsureExecutionQueue(db) ==
    CreateTable(db, "execution_queue",
        <<Index("execution_queue", "queue_status"), Index("execution_queue", "queue_case"),
          Index("execution_queue", "queue_report")>>)

EnsureExecutionRun(db) ==
    RepairTable(db, "execution_run",
        AddIndex(db, Repair("execution_run", "uk_run_report")) \o
        AddIndex(db, Index("execution_run", "run_status")))

EnsureExecutionNode(db) ==
    RepairTable(db, "execution_node",
        AddIndex(db, Index("execution_node", "exec_node_report")) \o
        AddIndex(db, Index("execution_node", "exec_node_node")) \o
        AddIndex(db, Index("execution_node", "exec_node_status")))

\* Fault: duplicate rows are not deleted before the unique index is created.
EnsureMetricIndexOnly(db) ==
    RepairTable(db, "metric", AddIndex(db, Unique("metric", "uk_metric_bucket")))

EnsureMetricSnapshot(db) ==
    RepairTable(db, "metric", AddIndex(db, Repair("metric", "uk_metric_bucket")))

EnsureTransactionSnapshot(db) ==
    RepairTable(db, "transaction",
        AddIndex(db, Repair("transaction", "uk_transaction_name")))

\* An old table lacks active_threads, a new one is created with it.
EnsureTransactionMetric(db) ==
    CreateTable(db, "transaction_metric", <<>>) \o
    (IF "transaction_metric" \in db.tables
     THEN AddColumn(db, "transaction_metric", "transaction_active_threads") ELSE <<>>) \o
    AddIndex(db, Repair("transaction_metric", "uk_transaction_bucket"))

EnsureUserSession(db) ==
    CreateTable(db, "user_session",
        <<Unique("user_session", "uk_session_token"), Index("user_session", "session_user")>>)

\* The order of main.py; 0 is before the first, and after the last the API serves.
Migration(i, db) ==
    CASE i = 1  -> EnsureNodePassword(db)
      [] i = 2  -> EnsureConfigValue(db)
      [] i = 3  -> EnsureAiGeneration(db)
      [] i = 4  -> EnsureReportColumns(db)
      [] i = 5  -> EnsureCsvResource(db)
      [] i = 6  -> EnsureRbac(db)
      [] i = 7  -> EnsureScheduledTaskLog(db)
      [] i = 8  -> EnsureExecutionQueue(db)
      [] i = 9  -> EnsureExecutionRun(db)
      [] i = 10 -> EnsureExecutionNode(db)
      [] i = 11 -> EnsureMetricSnapshot(db)
      [] i = 12 -> EnsureTransactionSnapshot(db)
      [] i = 13 -> EnsureTransactionMetric(db)
      [] i = 14 -> EnsureUserSession(db)
Serving == 15

-----------------------------------------------------------------------------
(* What a complete database has *)

SchemaTables == {"ai_task", "ai_artifact", "csv_resource", "csv_binding",
    "upload_binding", "role", "role_permission", "task_log", "execution_queue",
    "execution_run", "execution_node", "metric", "transaction",
    "transaction_metric", "user_session"}

\* An older release had some of these tables and no others.
ASSUME OldDatabaseAssumption == OldDatabase \subseteq SUBSET SchemaTables

\* Columns of tables that every deployment has; a new table comes with its own.
OwnColumn == [csv_resource |-> "csv_file_type",
              transaction_metric |-> "transaction_active_threads"]
OldColumns == {"node_password", "config_value", "report_region",
    "report_service_name", "report_total_threads", "report_slave_count",
    "report_grafana_instance", "report_artifact_dir", "user_role_id"}
SchemaColumns == OldColumns \cup {OwnColumn[t] : t \in DOMAIN OwnColumn}

\* What the ORM selects and no migration makes, neither tables nor columns of
\* tables; init.sql makes it all but three.
BaseTables == {"node", "config", "report", "user"}
Unmigrated == BaseTables \cup {"jmx", "testcase", "scheduled_task", "audit_log",
    "node_region", "node_health_status", "testcase_timeout_seconds", "testcase_num_threads"}
MadeByInit == Unmigrated \ {"scheduled_task", "audit_log", "testcase_num_threads"}

ASSUME OldPartsAssumption == OldParts \subseteq SUBSET Unmigrated

\* What the start itself selects: every column of a test case, in the recovery.
SelectedAtStart ==
    BaseTables \cup {"testcase", "testcase_timeout_seconds", "testcase_num_threads"}

\* The tables whose rows a unique index keeps apart, and the index.
UniqueOf == [csv_resource |-> "uk_csv_filename", csv_binding |-> "uk_csv_binding",
    upload_binding |-> "uk_upload_binding", role |-> "uk_role_code",
    user_session |-> "uk_session_token", execution_run |-> "uk_run_report",
    metric |-> "uk_metric_bucket", transaction |-> "uk_transaction_name",
    transaction_metric |-> "uk_transaction_bucket"]
RepairedTables ==
    {"execution_run", "execution_node", "metric", "transaction", "transaction_metric"}

\* The indexes of each table: what the migrations run on an empty database.
Empty == [tables |-> {}, columns |-> {}, indexes |-> {}, duplicated |-> {}]
Statements(i, db) == {Migration(i, db)[k] : k \in DOMAIN Migration(i, db)}
AllStatements == UNION {Statements(i, Empty) : i \in 1..Serving - 1}
IndexesOf == [t \in SchemaTables |->
    {s.name : s \in {q \in AllStatements : q.on = t /\ q.kind \notin {"table", "column"}}}]

SchemaTypeOK ==
    /\ schema.tables \subseteq SchemaTables
    /\ schema.columns \subseteq SchemaColumns
    /\ schema.indexes \subseteq UNION {IndexesOf[t] : t \in SchemaTables}
    /\ schema.duplicated \subseteq DOMAIN UniqueOf
    /\ inherited \subseteq Unmigrated
    /\ passwords \in {"plain", "encrypted", "foreign"}
    /\ startup.at \in 0..Serving
    /\ cut \subseteq SchemaTables
    /\ stops \in 0..MaxStop

-----------------------------------------------------------------------------
Down == [at |-> 0, todo |-> <<>>]

\* The database of an older deployment: tables with the indexes they were made
\* with, save that an early release had no unique index on the repaired ones
\* and let duplicates in.  The password column of an early release is too
\* narrow for an encrypted one.
SchemaInit ==
    /\ \E tables \in OldDatabase, unindexed \in SUBSET RepairedTables,
          columns \in {{}, OldColumns} :
        /\ unindexed \in {{}, RepairedTables \cap tables}
        /\ schema = [tables |-> tables,
                     columns |-> columns \cup
                         (IF columns = {} THEN {}
                          ELSE {OwnColumn[t] : t \in DOMAIN OwnColumn \cap tables}),
                     indexes |-> UNION {IndexesOf[t] : t \in tables \ unindexed},
                     duplicated |-> unindexed \cap DOMAIN UniqueOf]
    /\ inherited \in OldParts
    /\ schema.tables \cup schema.columns # {} => BaseTables \subseteq inherited
    /\ passwords \in {"plain", "encrypted", "foreign"}
    /\ schema.columns = {} => passwords = "plain"
    /\ startup = Down
    /\ cut = {}
    /\ stops = 0

\* What the next step of the start needs: after the first migration every
\* password is encrypted under this key, and after the last the recovery finds
\* the columns it selects.
StepReady ==
    /\ startup.at = 1 => passwords = "encrypted"
    /\ startup.at + 1 = Serving => SelectedAtStart \subseteq inherited

\* The next migration inspects the database; after the last one the settings,
\* the roles and the recovery change rows, and the API serves.
NextMigration ==
    /\ startup.at < Serving
    /\ startup.todo = <<>>
    /\ StepReady
    /\ startup' = [at |-> startup.at + 1,
                   todo |-> IF startup.at + 1 = Serving THEN <<>>
                            ELSE Migration(startup.at + 1, schema)]
    /\ UNCHANGED <<schema, inherited, passwords, cut, stops>>

\* All passwords are checked, and the legacy ones encrypted, in one transaction.
MigrateNodePasswords ==
    /\ startup.at = 1
    /\ startup.todo = <<>>
    /\ passwords = "plain"
    /\ passwords' = "encrypted"
    /\ UNCHANGED <<schema, inherited, startup, cut, stops>>

\* A new table has all its columns, but no index yet.
CreatedColumns(t) == IF t \in DOMAIN OwnColumn THEN {OwnColumn[t]} ELSE {}

Executed(s) ==
    CASE s.kind = "table"  -> [schema EXCEPT !.tables = @ \cup {s.on},
                                             !.columns = @ \cup CreatedColumns(s.on)]
      [] s.kind = "column" -> [schema EXCEPT !.columns = @ \cup {s.name}]
      [] s.kind \in {"index", "unique"} -> [schema EXCEPT !.indexes = @ \cup {s.name}]
      [] s.kind = "repair" -> [schema EXCEPT !.indexes = @ \cup {s.name},
                                             !.duplicated = @ \ {s.on}]

\* A unique index cannot be created over duplicate rows; and a table that is
\* not there has no columns to inspect.
Refused(s) ==
    \/ s.kind = "unique" /\ s.on \in schema.duplicated
    \/ s.kind = "column" /\ s.on \in BaseTables \ inherited

ExecuteStatement ==
    /\ startup.todo # <<>>
    /\ ~Refused(Head(startup.todo))
    /\ schema' = Executed(Head(startup.todo))
    /\ startup' = [startup EXCEPT !.todo = Tail(@)]
    /\ UNCHANGED <<inherited, passwords, cut, stops>>

\* The tables that stand without all their indexes.
Unfinished ==
    {t \in schema.tables : \E k \in DOMAIN startup.todo : startup.todo[k].on = t}

\* A statement is refused, or the connection is lost: the error leaves the
\* lifespan, the process exits and is started again.
StatementFails ==
    /\ startup.todo # <<>>
    /\ Refused(Head(startup.todo)) \/ stops < MaxStop
    /\ stops' = IF Refused(Head(startup.todo)) THEN stops ELSE stops + 1
    /\ startup' = Down
    /\ cut' = cut \cup Unfinished
    /\ UNCHANGED <<schema, inherited, passwords>>

\* A password of another key, or a select of what the database lacks: the
\* error leaves the lifespan too.
StepFails ==
    /\ startup.at < Serving
    /\ startup.todo = <<>>
    /\ ~StepReady
    /\ passwords # "plain"
    /\ startup' = Down
    /\ UNCHANGED <<schema, inherited, passwords, cut, stops>>

\* A crash or restart, during the migrations or later.
ProcessStops ==
    /\ stops < MaxStop
    /\ startup.at > 0
    /\ stops' = stops + 1
    /\ startup' = Down
    /\ cut' = cut \cup Unfinished
    /\ UNCHANGED <<schema, inherited, passwords>>

\* While the API serves, two requests may store what a unique index would refuse.
DuplicateStored(t) ==
    /\ startup.at = Serving
    /\ UniqueOf[t] \notin schema.indexes
    /\ schema' = [schema EXCEPT !.duplicated = @ \cup {t}]
    /\ UNCHANGED <<inherited, passwords, startup, cut, stops>>

StartupStep ==
    \/ NextMigration
    \/ MigrateNodePasswords
    \/ ExecuteStatement
    \/ StatementFails
    \/ StepFails

SchemaNext ==
    \/ StartupStep
    \/ ProcessStops
    \/ \E t \in DOMAIN UniqueOf : DuplicateStored(t)

SchemaSpec == SchemaInit /\ [][SchemaNext]_schemaVars

-----------------------------------------------------------------------------
(* Properties *)

\* Whatever the database held before and wherever a start was cut off, when
\* the API serves: what the ORM selects and the database lacks is only what no
\* migration makes and the start selects nothing of; every password is
\* encrypted; every index is there and no table holds duplicate rows, unless a
\* crash fell inside the migration of the table and that migration does not
\* look for indexes.
Lacking == (SchemaTables \cup SchemaColumns \cup Unmigrated)
               \ (schema.tables \cup schema.columns \cup inherited)
ServesMigratedSchema ==
    startup.at = Serving =>
        /\ Lacking \subseteq Unmigrated \ SelectedAtStart
        /\ passwords = "encrypted"
        /\ \A t \in SchemaTables :
               IndexesOf[t] \subseteq schema.indexes \/ t \in cut \ RepairedTables
        /\ schema.duplicated \subseteq cut \ RepairedTables

\* Every start on a database that has what the start selects and no migration
\* makes, with passwords of this key, gets through, whatever else it held.
Startable == SelectedAtStart \subseteq inherited /\ passwords # "foreign"
StartupCompletes == startup.at = 1 /\ Startable ~> startup.at = Serving
=============================================================================

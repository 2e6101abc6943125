----------------------------- MODULE MCServices -----------------------------
(***************************************************************************)
(* The services of the API process around the runs, for TLC: scheduled     *)
(* tasks and the calendar they use, AI generation, accounts, the schema    *)
(* upgrade at start-up, and settings with the nightly clean-up.  They      *)
(* share no state: a behaviour of the sum lets the one `service` move that *)
(* was chosen at the start.                                                *)
(***************************************************************************)
EXTENDS Scheduler, Calendar, AiGeneration, Accounts, SchemaUpgrade, Retention

VARIABLE service

Services == {"scheduler", "calendar", "ai", "accounts", "schema", "retention"}

\* A year of four months, and a schedule of each kind.
MCMonthDays == <<31, 28, 30, 31>>
MCSchedules ==
    [type: {"daily"}, time: {0, 2}]
    \cup [type: {"weekly"}, time: {0, 2}, days: {{}, {1}, {2, 5}, {7}, 1..7}]
    \cup [type: {"monthly"}, time: {0, 2}, dom: {1, 15, 28, 31}]

MCNames == {"admin", "ann"}
MCCodes == {"admin", "user", "dev"}

\* Databases of before any of the tables, of some release, and of the last one.
MCOldDatabase ==
    {{}, {"ai_task", "csv_resource", "metric", "transaction_metric"}, SchemaTables}

\* An empty database, that of init.sql, one altered for this release, and one
\* altered as far as the start needs it.
MCOldParts ==
    {{}, MadeByInit, Unmigrated,
     Unmigrated \ {"scheduled_task", "audit_log", "node_region", "node_health_status"}}

Init ==
    /\ service \in Services
    /\ SchedulerInit /\ CalendarInit /\ AiInit /\ AccountsInit /\ RetentionInit
    /\ SchemaInit
    /\ service # "calendar" => schedule.type = "daily" /\ schedule.time = 0
    /\ service # "schema" => schema.tables \cup schema.columns \cup inherited = {}

Next ==
    \/ /\ service = "scheduler" /\ SchedulerNext
       /\ UNCHANGED <<service, calendarVars, aiVars, accountVars, schemaVars, retentionVars>>
    \/ /\ service = "calendar" /\ Tick
       /\ UNCHANGED <<service, schedulerVars, aiVars, accountVars, schemaVars, retentionVars>>
    \/ /\ service = "ai" /\ AiNext
       /\ UNCHANGED <<service, schedulerVars, calendarVars, accountVars, schemaVars, retentionVars>>
    \/ /\ service = "accounts" /\ AccountsNext
       /\ UNCHANGED <<service, schedulerVars, calendarVars, aiVars, schemaVars, retentionVars>>
    \/ /\ service = "schema" /\ SchemaNext
       /\ UNCHANGED <<service, schedulerVars, calendarVars, aiVars, accountVars, retentionVars>>
    \/ /\ service = "retention" /\ RetentionNext
       /\ UNCHANGED <<service, schedulerVars, calendarVars, aiVars, accountVars, schemaVars>>

vars == <<service, schedulerVars, calendarVars, aiVars, accountVars, schemaVars, retentionVars>>

\* The loops and tasks of the event loop get their turn: the polling loop of
\* the scheduled tasks, a generation, the start-up, the nightly clean-up.
FairSpec ==
    /\ Init /\ [][Next]_vars
    /\ WF_schedulerVars(service = "scheduler" /\ LoopStep)
    /\ \A j \in Job : WF_aiVars(service = "ai" /\ GeneratorStep(j))
    /\ WF_schemaVars(service = "schema" /\ StartupStep)
    /\ WF_retentionVars(service = "retention" /\ CleanupStep)

TypeOK ==
    /\ service \in Services
    /\ SchedulerTypeOK
    /\ AiTypeOK
    /\ AccountsTypeOK
    /\ SchemaTypeOK
    /\ RetentionTypeOK
=============================================================================

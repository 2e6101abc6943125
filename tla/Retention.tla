----------------------------- MODULE Retention -----------------------------
(***************************************************************************)
(* The settings table (services/config.py) and what the nightly clean-up   *)
(* makes of it (services/report_cleanup.py).                               *)
(*                                                                         *)
(* No index keeps two rows of one key apart, and a key with two rows       *)
(* cannot be read: the clean-up then skips the night, and a start-up that  *)
(* looks for the key fails.                                                *)
(***************************************************************************)
EXTENDS Naturals, FiniteSets

CONSTANTS
    Setting,        \* ids of setting rows, as 1..n
    Kept,           \* ids of reports
    Editor,         \* API calls on settings
    MaxSettingEdit, \* bound on these calls
    MaxNightFault   \* bound on database failures and restarts

ASSUME RetentionAssumption == MaxSettingEdit \in Nat /\ MaxNightFault \in Nat

VARIABLES
    settings,   \* the rows
    editor,     \* the calls under way: what each checked
    kept,       \* the reports
    night,      \* the clean-up loop
    server,     \* the API process: starting, up, or unable to start
    settingEdits, nightFaults

retentionVars == <<settings, editor, kept, night, server,
                   settingEdits, nightFaults>>

\* The period reports are kept for, and a key with a default value.
SettingKey == {"reports", "refresh"}
DefaultKeys == {"refresh"}

\* A period is a number of days, or no positive number; 30 is a former default.
NoSetting == [key |-> "", value |-> ""]
SettingRow ==
    [key: {"reports"}, value: {"days", "keep"}] \cup
    [key: DefaultKeys, value: {"30", "5"}]
NoEdit == [op |-> "none"]
EditCall == [op: {"add", "update"}, row: SettingRow, id: Setting \cup {0}]

RetentionTypeOK ==
    /\ settings \in [Setting -> SettingRow \cup {NoSetting}]
    /\ editor \in [Editor -> EditCall \cup {NoEdit}]
    /\ kept \in [Kept -> {"running", "done", "expired", "gone"}]
    /\ night \in [pc: {"asleep", "reports", "logs"}, list: SUBSET Kept, broken: BOOLEAN]
    /\ server \in {"starting", "up", "failed"}
    /\ settingEdits \in 0..MaxSettingEdit
    /\ nightFaults \in 0..MaxNightFault

RowsOf(key) == {i \in Setting : settings[i].key = key}
NextId(i) == settings[i] = NoSetting /\ \A j \in Setting : settings[j] = NoSetting => i <= j
Waiting == [pc |-> "asleep", list |-> {}, broken |-> FALSE]

\* get_value, as the clean-up uses it: one row, and a positive number in it.
PeriodOf(key) ==
    IF \E i \in Setting : RowsOf(key) = {i} /\ settings[i].value = "days"
    THEN "days" ELSE "skip"

RetentionInit ==
    /\ settings = [i \in Setting |-> NoSetting]
    /\ editor = [c \in Editor |-> NoEdit]
    /\ kept = [r \in Kept |-> "running"]
    /\ night = Waiting
    /\ server = "starting"
    /\ settingEdits = 0 /\ nightFaults = 0

-----------------------------------------------------------------------------
(* Settings *)

EditBegins(c, call) ==
    /\ server = "up"
    /\ editor[c] = NoEdit
    /\ settingEdits < MaxSettingEdit
    /\ settingEdits' = settingEdits + 1
    /\ editor' = [editor EXCEPT ![c] = call]
    /\ UNCHANGED <<settings, kept, night, server, nightFaults>>

\* add_config refuses a key that has a row.
CheckNewSetting(c) ==
    \E row \in SettingRow :
        /\ RowsOf(row.key) = {}
        /\ EditBegins(c, [op |-> "add", row |-> row, id |-> 0])

\* update_config looks at its row only.
ReadSetting(c) ==
    \E i \in Setting, row \in SettingRow :
        /\ settings[i] # NoSetting
        /\ EditBegins(c, [op |-> "update", row |-> row, id |-> i])

EditEnds(c) ==
    /\ editor' = [editor EXCEPT ![c] = NoEdit]
    /\ UNCHANGED <<kept, night, server, settingEdits, nightFaults>>

AddConfig(c) ==
    /\ editor[c].op = "add"
    /\ \E i \in Setting : NextId(i) /\ settings' = [settings EXCEPT ![i] = editor[c].row]
    /\ EditEnds(c)

\* A row that was deleted meanwhile raises StaleDataError.
UpdateConfig(c) ==
    LET i == editor[c].id
        row == editor[c].row IN
    /\ editor[c].op = "update"
    /\ settings' = IF settings[i] = NoSetting THEN settings
                   ELSE [settings EXCEPT ![i] = row]
    /\ EditEnds(c)

DeleteConfig(i) ==
    /\ server = "up"
    /\ settings[i] # NoSetting
    /\ settingEdits < MaxSettingEdit
    /\ settingEdits' = settingEdits + 1
    /\ settings' = [settings EXCEPT ![i] = NoSetting]
    /\ UNCHANGED <<editor, kept, night, server, nightFaults>>

\* Fault: the refresh period gets the value of another key.
DefaultRowInDays == [key |-> "refresh", value |-> "days"]

\* ensure_default_configs: a missing default is inserted, a former default is
\* replaced, and a key with two rows raises MultipleResultsFound.
DefaultRow == [key |-> "refresh", value |-> "5"]

EnsureDefaultConfigs ==
    LET rows == RowsOf("refresh") IN
    \/ /\ Cardinality(rows) > 1
       /\ server' = "failed"
       /\ UNCHANGED settings
    \/ /\ rows = {}
       /\ \E i \in Setting : NextId(i) /\ settings' = [settings EXCEPT ![i] = DefaultRow]
       /\ server' = "up"
    \/ \E i \in Setting :
       /\ rows = {i}
       /\ settings' = [settings EXCEPT ![i].value = IF @ = "30" THEN "5" ELSE @]
       /\ server' = "up"

\* The first start: a new database has no row of the key.
ServerStarts ==
    /\ server = "starting"
    /\ EnsureDefaultConfigs
    /\ UNCHANGED <<editor, kept, night, settingEdits, nightFaults>>

\* A restart ends calls and clean-up; docker starts the process again.
ServerRestarts ==
    /\ nightFaults < MaxNightFault
    /\ nightFaults' = nightFaults + 1
    /\ EnsureDefaultConfigs
    /\ editor' = [c \in Editor |-> NoEdit]
    /\ night' = Waiting
    /\ UNCHANGED <<kept, settingEdits>>

-----------------------------------------------------------------------------
(* The clean-up: _cleanup_loop *)

\* At half past two the loop opens a session and lists the expired reports,
\* running ones too.
CleanupWakes ==
    /\ server = "up"
    /\ night.pc = "asleep"
    /\ night' = [pc |-> "reports", broken |-> FALSE,
                 list |-> IF PeriodOf("reports") = "days"
                          THEN {r \in Kept : kept[r] \in {"running", "expired"}} ELSE {}]
    /\ UNCHANGED <<settings, editor, kept, server, settingEdits, nightFaults>>

\* Fault: a report that cannot be deleted is tried again before the next one.
CleanupReportInsists(r) ==
    /\ night.pc = "reports"
    /\ r \in night.list
    /\ kept' = [kept EXCEPT ![r] = IF @ = "expired" /\ ~night.broken THEN "gone" ELSE @]
    /\ night' = [night EXCEPT !.list = IF kept[r] = "running" THEN @ ELSE @ \ {r}]
    /\ UNCHANGED <<settings, editor, server, settingEdits, nightFaults>>

\* clean_report in a try of its own: a running or deleted report, or a broken
\* session, is skipped.
CleanupReport(r) ==
    /\ night.pc = "reports"
    /\ r \in night.list
    /\ kept' = [kept EXCEPT ![r] = IF @ = "expired" /\ ~night.broken THEN "gone" ELSE @]
    /\ night' = [night EXCEPT !.list = @ \ {r}]
    /\ UNCHANGED <<settings, editor, server, settingEdits, nightFaults>>

\* A database error; a session that lost its connection refuses the rest.
CleanupReportFails(r) ==
    /\ night.pc = "reports"
    /\ r \in night.list
    /\ nightFaults < MaxNightFault
    /\ nightFaults' = nightFaults + 1
    /\ \E broken \in BOOLEAN :
        night' = [night EXCEPT !.list = @ \ {r}, !.broken = broken]
    /\ UNCHANGED <<settings, editor, kept, server, settingEdits>>

CleanupReportsDone ==
    /\ night.pc = "reports"
    /\ night.list = {}
    /\ night' = [night EXCEPT !.pc = "logs"]
    /\ UNCHANGED <<settings, editor, kept, server, settingEdits, nightFaults>>

\* _cleanup_audit_logs deletes old log rows in one statement (the log is not
\* modelled), and the loop sleeps until the next night.
CleanupLogs ==
    /\ night.pc = "logs"
    /\ night' = Waiting
    /\ UNCHANGED <<settings, editor, kept, server, settingEdits, nightFaults>>

-----------------------------------------------------------------------------
(* The environment: runs end, days go by, users delete reports *)

RunEnds(r) ==
    /\ kept[r] = "running"
    /\ kept' = [kept EXCEPT ![r] = "done"]
    /\ UNCHANGED <<settings, editor, night, server, settingEdits, nightFaults>>

ReportExpires(r) ==
    /\ kept[r] = "done"
    /\ kept' = [kept EXCEPT ![r] = "expired"]
    /\ UNCHANGED <<settings, editor, night, server, settingEdits, nightFaults>>

ReportDeleted(r) ==
    /\ server = "up"
    /\ kept[r] \in {"done", "expired"}
    /\ kept' = [kept EXCEPT ![r] = "gone"]
    /\ UNCHANGED <<settings, editor, night, server, settingEdits, nightFaults>>

CleanupStep ==
    \/ CleanupWakes
    \/ \E r \in Kept : CleanupReport(r)
    \/ CleanupReportsDone
    \/ CleanupLogs

RetentionNext ==
    \/ \E c \in Editor :
        CheckNewSetting(c) \/ ReadSetting(c) \/ AddConfig(c) \/ UpdateConfig(c)
    \/ \E i \in Setting : DeleteConfig(i)
    \/ ServerStarts
    \/ ServerRestarts
    \/ CleanupStep
    \/ \E r \in Kept :
        CleanupReportFails(r) \/ RunEnds(r) \/ ReportExpires(r) \/ ReportDeleted(r)

RetentionSpec == RetentionInit /\ [][RetentionNext]_retentionVars

-----------------------------------------------------------------------------
(* Properties *)

\* An expired report goes, one night or another: neither a report that is stuck
\* running nor a failing one keeps the clean-up from it, unless the period asks
\* for keeping, cannot be read, or the server cannot start.
ExpiredIsCleaned ==
    \A r \in Kept :
        kept[r] = "expired" ~>
            \/ kept[r] = "gone"
            \/ PeriodOf("reports") # "days"
            \/ server = "failed"
=============================================================================

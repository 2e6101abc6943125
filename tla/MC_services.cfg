\* The services around the runs, one at a time: two tasks and two planners, a year of schedules, one generation, three users, three old databases, two reports and two editors of settings.
SPECIFICATION FairSpec
CONSTANTS
    Task = {t1, t2}
    NoTask = none
    Planner = {p1, p2}
    MaxPlanEdit = 3
    MaxMishap = 1
    MonthDays <- MCMonthDays
    DayParts = 4
    Schedules <- MCSchedules
    Job = {j1}
    Output = {o1, o2}
    MaxAiRestart = 1
    User = {admin, ann, bob}
    Role = {radmin, ruser, r1, r2}
    NoId = none
    Admin = admin
    AdminRole = radmin
    DefaultRole = ruser
    Name <- MCNames
    Code <- MCCodes
    Perm = {run}
    Client = {u1, u2}
    MaxAccountCall = 3
    OldDatabase <- MCOldDatabase
    OldParts <- MCOldParts
    MaxStop = 2
    Setting = {1, 2, 3}
    Kept = {1, 2}
    Editor = {c1, c2}
    MaxSettingEdit = 2
    MaxNightFault = 1
INVARIANTS
    TypeOK
    FiresOnce
    PeriodicArmed
    RunLogged
    NextRunIsNextAsked
    SuccessIsComplete
    SessionsFollowPassword
    ServesMigratedSchema
PROPERTIES
    DueIsServed
    GenerationEnds
    StartupCompletes
    ExpiredIsCleaned
CHECK_DEADLOCK FALSE

------------------------------ MODULE Calendar ------------------------------
(***************************************************************************)
(* The instant a scheduled task runs next: _compute_next_run of            *)
(* services/scheduled_task.py as a function of the clock and the schedule. *)
(*                                                                         *)
(* Instants are counted in fractions of a day since a first of the month   *)
(* that is a Monday.  A schedule names a fraction of the day; the clock    *)
(* also stands between two of them, as seconds stand between minutes.      *)
(***************************************************************************)
EXTENDS Integers, Sequences, FiniteSetsExt

CONSTANTS
    MonthDays,      \* the lengths of the months, in order
    DayParts,       \* fractions of a day the clock distinguishes
    Schedules       \* the schedules considered

\* ScheduleData: a time of the day, and days by their number.
ScheduleData ==
    [type: {"daily"}, time: 0..DayParts - 1]
    \cup [type: {"weekly"}, time: 0..DayParts - 1, days: SUBSET (1..7)]
    \cup [type: {"monthly"}, time: 0..DayParts - 1, dom: 1..31]

ASSUME CalendarAssumption ==
    /\ DayParts \in Nat \ {0}
    /\ MonthDays \in Seq(28..31) /\ Len(MonthDays) > 1
    /\ Schedules \subseteq ScheduleData

VARIABLES clock, schedule

calendarVars == <<clock, schedule>>

\* The first day of month m, counting days from 0 and months from 1.
FirstDay[m \in DOMAIN MonthDays] ==
    IF m = 1 THEN 0 ELSE FirstDay[m - 1] + MonthDays[m - 1]

Day(instant) == instant \div DayParts
Month(day) ==
    CHOOSE m \in DOMAIN MonthDays : day \in FirstDay[m]..FirstDay[m] + MonthDays[m] - 1
Weekday(day) == (day % 7) + 1
At(day, time) == day * DayParts + time

DailyRun(now, s) ==
    LET today == At(Day(now), s.time) IN
    IF today <= now THEN today + DayParts ELSE today

\* Fault: the days looked at end a day early.
WeeklyRunOfSixDays(now, s) ==
    LET Open == {d \in Day(now)..Day(now) + 6 :
                    Weekday(d) \in s.days /\ (At(d, s.time) > now \/ d > Day(now))}
    IN IF Open = {} THEN now + 8 * DayParts ELSE At(Min(Open), s.time)

\* No day chosen: a minute from now.  Otherwise the first of the next eight
\* days that is chosen, today only while its time lies ahead.
WeeklyRun(now, s) ==
    LET Open == {d \in Day(now)..Day(now) + 7 :
                    Weekday(d) \in s.days /\ (At(d, s.time) > now \/ d > Day(now))}
    IN CASE s.days = {} -> now + 1
         [] s.days # {} /\ Open = {} -> now + 7 * DayParts
         [] OTHER -> At(Min(Open), s.time)

\* The day of the month is cut to 1..28, so that every month has it.
MonthlyRun(now, s) ==
    LET dayOfMonth == Max({1, Min({28, s.dom})})
        InMonth(m) == At(FirstDay[m] + dayOfMonth - 1, s.time)
        this == Month(Day(now))
    IN IF InMonth(this) <= now THEN InMonth(this + 1) ELSE InMonth(this)

NextRun(now, s) ==
    CASE s.type = "daily" -> DailyRun(now, s)
      [] s.type = "weekly" -> WeeklyRun(now, s)
      [] s.type = "monthly" -> MonthlyRun(now, s)

CalendarInit == clock = 0 /\ schedule \in Schedules

\* The clock stops before the last month, whose successor is not listed.
Tick ==
    /\ Month(Day(clock + 1)) < Len(MonthDays)
    /\ clock' = clock + 1
    /\ UNCHANGED schedule

CalendarSpec == CalendarInit /\ [][Tick]_calendarVars

\* The first instant after `now` the schedule asks for.
Asked(instant, s) ==
    /\ instant % DayParts = s.time
    /\ CASE s.type = "daily" -> TRUE
         [] s.type = "weekly" -> Weekday(Day(instant)) \in s.days
         [] s.type = "monthly" ->
                LET day == Day(instant) IN day - FirstDay[Month(day)] + 1 = Min({28, s.dom})

\* The instant computed is the first one after now that the schedule asks for:
\* no day is skipped and none comes twice, across weeks and months.  (A weekly
\* schedule without a day, which the page does not send, asks for nothing.)
NextRunIsNextAsked ==
    LET next == NextRun(clock, schedule) IN
    \/ schedule.type = "weekly" /\ schedule.days = {}
    \/ /\ next > clock
       /\ \A i \in clock + 1..next : Asked(i, schedule) <=> i = next
=============================================================================

------------------------------ MODULE DueDates ------------------------------
(***************************************************************************)
(* The dates of a maintenance plan (apps/maintenance/services.py): the     *)
(* step from one due date to the next in the calendar, and the state the   *)
(* plan list shows beside what the nightly run would do.  Scheduler takes  *)
(* a date to be a number of days; here it is a year, a month and a day.    *)
(*                                                                         *)
(* Of Python's datetime the module takes the Gregorian calendar.           *)
(***************************************************************************)
EXTENDS Integers, Sql

CONSTANTS
  FirstDues,     \* due dates a calendar plan starts with
  Intervals,     \* interval_days of calendar plans
  MeterSteps,    \* meter_interval_hours of meter plans
  MaxMeter,      \* bound: hour-meter readings are 0 .. MaxMeter
  YearsAhead,    \* bound: a plan is advanced for so many years after its first date
  Ahead,         \* bound: the run is watched from so many days before the first due date
  Behind         \* bound: .. until so many days after it

ASSUME DueDatesAssumption ==
  /\ Intervals \subseteq Nat \ {0} /\ MeterSteps \subseteq Nat \ {0}
  /\ MaxMeter \in Nat /\ YearsAhead \in Nat /\ Ahead \in Nat /\ Behind \in Nat
  /\ None \notin Nat

VARIABLES
  schedule,      \* the plan, and how often it was served
  isActive,      \* MaintenancePlan.is_active
  retired,       \* its machine is «dado de baja»
  asOf           \* timezone.localdate()

dueDatesVars == <<schedule, isActive, retired, asOf>>

\* DUE_SOON_DAYS
DueSoonDays == 7

\* MONTHS_BY_INTERVAL_DAYS: the presets that mean a named calendar period.
MonthsByIntervalDays == [n \in {30, 90, 180, 365} |->
  CASE n = 30 -> 1 [] n = 90 -> 3 [] n = 180 -> 6 [] n = 365 -> 12]

IsLeap(y) == y % 4 = 0 /\ (y % 100 # 0 \/ y % 400 = 0)

\* calendar.monthrange(year, month)[1]
MonthLength(y, m) ==
  CASE m \in {4, 6, 9, 11} -> 30
    [] m = 2 -> IF IsLeap(y) THEN 29 ELSE 28
    [] OTHER -> 31

RealDate(date) == date.m \in 1 .. 12 /\ date.d \in 1 .. MonthLength(date.y, date.m)

\* datetime.date: years from 1, and only days that exist.
ASSUME FirstDuesAssumption ==
  /\ FirstDues # {}
  /\ \A date \in FirstDues :
       date \in [y : Nat \ {0}, m : 1 .. 12, d : 1 .. 31] /\ RealDate(date)

\* date.toordinal()
Ordinal(date) ==
  LET y == date.y - 1
      before == <<0, 31, 59, 90, 120, 151, 181, 212, 243, 273, 304, 334>>[date.m]
  IN 365 * y + y \div 4 - y \div 100 + y \div 400 + before + date.d
       + (IF date.m > 2 /\ IsLeap(date.y) THEN 1 ELSE 0)

DayAfter(date) ==
  IF date.d < MonthLength(date.y, date.m) THEN [date EXCEPT !.d = @ + 1]
  ELSE IF date.m < 12 THEN [y |-> date.y, m |-> date.m + 1, d |-> 1]
  ELSE [y |-> date.y + 1, m |-> 1, d |-> 1]

\* date + timedelta(days=n)
PlusDays(date, n) ==
  LET later[k \in 0 .. n] == IF k = 0 THEN date ELSE DayAfter(later[k - 1]) IN later[n]

\* Mutant: the day of the month is kept, whatever the length of the month.
KeepsDay(day, length) == day

\* min(due_date.day, last day of the month)
Clamped(day, length) == IF day < length THEN day ELSE length

AddMonths(date, months) ==
  LET total == date.m - 1 + months
      year == date.y + total \div 12
      month == (total % 12) + 1
  IN [y |-> year, m |-> month, d |-> Clamped(date.d, MonthLength(year, month))]

IsPreset(n) == n \in DOMAIN MonthsByIntervalDays

AdvanceDueDate(date, n) ==
  IF IsPreset(n) THEN AddMonths(date, MonthsByIntervalDays[n]) ELSE PlusDays(date, n)

\* A calendar plan has a first and a next due date; a meter plan has the newest
\* reading of its machine and the hours of the last order, hours_at_last_generated_wo.
CalendarPlan(first, n) ==
  [calendar |-> TRUE, every |-> n, first |-> first, due |-> first,
   latest |-> None, base |-> 0, served |-> 0]

MeterPlan(n) ==
  [calendar |-> FALSE, every |-> n, first |-> None, due |-> None,
   latest |-> None, base |-> 0, served |-> 0]

\* A fixed day for the meter plans, whose state does not depend on it.
SomeDay == CHOOSE date \in FirstDues : TRUE

DueDatesInit ==
  /\ isActive = TRUE /\ retired = FALSE
  /\ \/ \E first \in FirstDues, n \in Intervals :
          /\ schedule = CalendarPlan(first, n)
          /\ \E day \in [y : {first.y - 1, first.y}, m : 1 .. 12, d : 1 .. 31] :
               RealDate(day) /\ Ordinal(day) + Ahead = Ordinal(first) /\ asOf = day
     \/ \E n \in MeterSteps : schedule = MeterPlan(n) /\ asOf = SomeDay

\* _calendar_due_state
CalendarDueState ==
  IF Ordinal(schedule.due) < Ordinal(asOf) THEN "vencido"
  ELSE IF Ordinal(schedule.due) - Ordinal(asOf) <= DueSoonDays THEN "por_vencer" ELSE "al_dia"

\* Mutant: the hours of the machine, not those since the last order.
SinceNew == schedule.latest

Elapsed == schedule.latest - schedule.base

\* _meter_due_state; 0.9 of the interval, without fractions.
MeterDueState ==
  IF schedule.latest = None THEN "sin_lecturas"
  ELSE IF Elapsed >= schedule.every THEN "vencido"
  ELSE IF 10 * Elapsed >= 9 * schedule.every THEN "por_vencer" ELSE "al_dia"

\* annotate_due_state: whether the machine is still in service is not asked.
DueState ==
  IF ~isActive THEN "inactivo"
  ELSE IF schedule.calendar THEN CalendarDueState ELSE MeterDueState

\* _schedulable_plans
Schedulable == isActive /\ ~retired

\* What the run asks of a plan: that it is schedulable, and what _generate_calendar
\* (with no horizon) and _generate_meter ask.
WouldServe ==
  /\ Schedulable
  /\ IF schedule.calendar THEN Ordinal(schedule.due) <= Ordinal(asOf)
     ELSE schedule.latest # None /\ ~(schedule.latest - schedule.base < schedule.every)

\* One order of the run, and the plan's next date or base.
Serve ==
  /\ WouldServe
  /\ schedule.calendar => schedule.due.y <= schedule.first.y + YearsAhead
  /\ schedule' = IF schedule.calendar
                 THEN [schedule EXCEPT !.due = AdvanceDueDate(@, schedule.every),
                                       !.served = @ + 1]
                 ELSE [schedule EXCEPT !.base = schedule.latest]
  /\ UNCHANGED <<isActive, retired, asOf>>

Tomorrow ==
  /\ schedule.calendar
  /\ Ordinal(asOf) < Ordinal(schedule.due) + Behind
  /\ asOf' = DayAfter(asOf)
  /\ UNCHANGED <<schedule, isActive, retired>>

\* record_reading: hours never go back.  Both sides read the highest row, so that one
\* the admin site adds below it changes nothing here.
Reading ==
  /\ ~schedule.calendar
  /\ \E h \in 0 .. MaxMeter :
       /\ schedule.latest # None => h >= schedule.latest
       /\ schedule' = [schedule EXCEPT !.latest = h]
  /\ UNCHANGED <<isActive, retired, asOf>>

\* plan_toggle_active
ToggleActive ==
  /\ isActive' = ~isActive
  /\ UNCHANGED <<schedule, retired, asOf>>

\* asset_baja: the machine's plans stay as they are.
Retire ==
  /\ ~retired
  /\ retired' = TRUE
  /\ UNCHANGED <<schedule, isActive, asOf>>

DueDatesNext == Serve \/ Tomorrow \/ Reading \/ ToggleActive \/ Retire

DueDatesSpec == DueDatesInit /\ [][DueDatesNext]_dueDatesVars

Dates == [y : Nat, m : 1 .. 12, d : 1 .. 31]

\* Values of the columns.
DueDatesTypeOK ==
  /\ schedule \in [calendar : BOOLEAN, every : Nat \ {0}, first : Dates \cup {None},
                   due : Dates \cup {None}, latest : Nat \cup {None}, base : Nat, served : Nat]
  /\ isActive \in BOOLEAN /\ retired \in BOOLEAN
  /\ asOf \in Dates

MonthIndex(date) == 12 * date.y + date.m

\* However often a plan is served, its due date is a real one and no month is skipped
\* or met twice: the n-th date of a preset is n of its periods after the first, on the
\* same day or on one that every month has; any other interval is exact
\* (add_months, advance_due_date).
PeriodsAreKept ==
  schedule.calendar =>
    LET first == schedule.first
        due == schedule.due
    IN /\ RealDate(due)
       /\ IF IsPreset(schedule.every)
          THEN /\ MonthIndex(due) =
                    MonthIndex(first) + schedule.served * MonthsByIntervalDays[schedule.every]
               /\ due.d <= first.d
               /\ due.d >= first.d \/ due.d >= 28
          ELSE Ordinal(due) = Ordinal(first) + schedule.served * schedule.every

\* The list and the run agree of a machine in service: «vencido» is served, and what
\* is served is not «al día» or «inactivo».  Of a machine that was retired they do not:
\* the list goes on calling its plan «vencido», and no run serves it
\* (annotate_due_state; _schedulable_plans, _generate_calendar, _generate_meter).
DueStateAgrees ==
  /\ DueState = "vencido" /\ ~retired => WouldServe
  /\ WouldServe => DueState \in {"vencido", "por_vencer"}
=============================================================================

--------------------------- MODULE CalendarProofs ---------------------------
(***************************************************************************)
(* Proofs about DueDates and Indicators, the two components that count     *)
(* days: for any dates, intervals, orders, machines and lengths of the day *)
(* and the month.                                                          *)
(***************************************************************************)
EXTENDS DueDates, Indicators, FiniteSetTheorems, WellFoundedInduction, TLAPS

(***************************************************************************)
(* The calendar.                                                           *)
(***************************************************************************)

(* A set of natural numbers has a least one. *)
LEMMA LeastNumber ==
  ASSUME NEW S, S \subseteq Nat, S # {}
  PROVE  \E x \in S : \A y \in S : x <= y
<1> DEFINE R == StrictSubsetOrdering(Nat)
           T == {0 .. x : x \in S}
<1>1. T \subseteq FiniteSubsetsOf(Nat) /\ T # {}
  <2>1. \A x \in S : 0 .. x \in SUBSET Nat /\ IsFiniteSet(0 .. x)
    BY FS_Interval
  <2>2. QED
    BY <2>1 DEF FiniteSubsetsOf
<1>2. PICK m \in T : \A t \in T : ~ (<<t, m>> \in R)
  <2>1. IsWellFoundedOn(R, FiniteSubsetsOf(Nat))
    BY FS_StrictSubsetOrderingWellFounded
  <2> HIDE DEF R, T
  <2>2. QED
    BY <1>1, <2>1, WFMin
<1>3. PICK x \in S : m = 0 .. x
  BY <1>2
<1>4. ASSUME NEW y \in S PROVE x <= y
  <2>1. ~ (<<0 .. y, 0 .. x>> \in R)
    BY <1>2, <1>3
  <2>2. 0 .. y \in SUBSET Nat /\ 0 .. x \in SUBSET Nat
    OBVIOUS
  <2>3. ~ (0 .. y \subseteq 0 .. x /\ 0 .. y # 0 .. x)
    BY <2>1, <2>2 DEF StrictSubsetOrdering
  <2>4. y < x => 0 .. y \subseteq 0 .. x /\ x \in 0 .. x /\ x \notin 0 .. y
    OBVIOUS
  <2>5. QED
    BY <2>3, <2>4
<1>5. QED
  BY <1>4

(* The dates that exist. *)
RealDates == {date \in Dates : RealDate(date)}

(* The days of the years before y, and of the months before m in the year y. *)
YearStart(y) == 365 * (y - 1) + (y - 1) \div 4 - (y - 1) \div 100 + (y - 1) \div 400

MonthStart(y, m) ==
  <<0, 31, 59, 90, 120, 151, 181, 212, 243, 273, 304, 334>>[m]
    + (IF m > 2 /\ IsLeap(y) THEN 1 ELSE 0)

LEMMA OrdinalSplits ==
  ASSUME NEW date \in Dates
  PROVE  /\ Ordinal(date) = YearStart(date.y) + MonthStart(date.y, date.m) + date.d
         /\ YearStart(date.y) \in Int /\ MonthStart(date.y, date.m) \in Int
         /\ Ordinal(date) \in Int
<1>1. /\ MonthStart(date.y, date.m) \in Int
      /\ <<0, 31, 59, 90, 120, 151, 181, 212, 243, 273, 304, 334>>[date.m] \in Int
  BY DEF MonthStart, Dates
<1>2. YearStart(date.y) \in Int
  BY DEF YearStart, Dates
<1>3. Ordinal(date) = YearStart(date.y) + MonthStart(date.y, date.m) + date.d
  BY <1>1 DEF Ordinal, YearStart, MonthStart, Dates
<1>4. QED
  BY <1>1, <1>2, <1>3 DEF Dates

LEMMA YearIsWhole ==
  ASSUME NEW y \in Nat
  PROVE  YearStart(y + 1) = YearStart(y) + 365 + (IF IsLeap(y) THEN 1 ELSE 0)
<1>1. y \div 4 = (y - 1) \div 4 + (IF y % 4 = 0 THEN 1 ELSE 0)
  OBVIOUS
<1>2. y \div 100 = (y - 1) \div 100 + (IF y % 100 = 0 THEN 1 ELSE 0)
  OBVIOUS
<1>3. y \div 400 = (y - 1) \div 400 + (IF y % 400 = 0 THEN 1 ELSE 0)
  OBVIOUS
<1>4. (y % 400 = 0 => y % 100 = 0) /\ (y % 100 = 0 => y % 4 = 0)
  OBVIOUS
<1>5. QED
  BY <1>1, <1>2, <1>3, <1>4 DEF YearStart, IsLeap

LEMMA MonthIsWhole ==
  ASSUME NEW y \in Nat, NEW m \in 1 .. 12
  PROVE  /\ MonthLength(y, m) \in 28 .. 31
         /\ m < 12 => MonthStart(y, m + 1) = MonthStart(y, m) + MonthLength(y, m)
         /\ MonthStart(y, 1) = 0
         /\ MonthStart(y, 12) + 31 = 365 + (IF IsLeap(y) THEN 1 ELSE 0)
         /\ MonthLength(y, 12) = 31
<1>1. MonthLength(y, m) \in 28 .. 31 /\ MonthLength(y, 12) = 31
  BY DEF MonthLength
<1>2. MonthStart(y, 1) = 0 /\ MonthStart(y, 12) + 31 = 365 + (IF IsLeap(y) THEN 1 ELSE 0)
  BY DEF MonthStart
<1>3. ASSUME m < 12 PROVE MonthStart(y, m + 1) = MonthStart(y, m) + MonthLength(y, m)
  <2>1. m = 1 \/ m = 2 \/ m = 3 \/ m = 4 \/ m = 5 \/ m = 6 \/ m = 7 \/ m = 8 \/ m = 9
          \/ m = 10 \/ m = 11
    BY <1>3
  <2>2. QED
    BY <2>1 DEF MonthStart, MonthLength
<1>4. QED
  BY <1>1, <1>2, <1>3

(* The next day exists, and is one further. *)
LEMMA DayAfterIsNext ==
  ASSUME NEW date \in RealDates
  PROVE  DayAfter(date) \in RealDates /\ Ordinal(DayAfter(date)) = Ordinal(date) + 1
<1> DEFINE y == date.y
           m == date.m
           d == date.d
           next == DayAfter(date)
<1>1. /\ date \in Dates /\ y \in Nat /\ m \in 1 .. 12 /\ d \in 1 .. MonthLength(y, m)
      /\ MonthLength(y, m) \in 28 .. 31
  BY MonthIsWhole DEF RealDates, RealDate, Dates
<1>2. CASE d < MonthLength(y, m)
  <2>1. next \in Dates /\ next.y = y /\ next.m = m /\ next.d = d + 1
    BY <1>1, <1>2 DEF DayAfter, Dates
  <2>2. next \in RealDates
    BY <1>1, <1>2, <2>1 DEF RealDates, RealDate
  <2>3. QED
    BY <1>1, <2>1, <2>2, OrdinalSplits
<1>3. CASE d = MonthLength(y, m) /\ m < 12
  <2>1. next \in Dates /\ next.y = y /\ next.m = m + 1 /\ next.d = 1
    BY <1>1, <1>3 DEF DayAfter, Dates
  <2>2. next \in RealDates
    <3>1. MonthLength(y, m + 1) \in 28 .. 31
      BY <1>1, <1>3, MonthIsWhole
    <3>2. QED
      BY <1>1, <1>3, <2>1, <3>1 DEF RealDates, RealDate
  <2>3. MonthStart(y, m + 1) = MonthStart(y, m) + d
    BY <1>1, <1>3, MonthIsWhole
  <2>4. QED
    BY <1>1, <2>1, <2>2, <2>3, OrdinalSplits
<1>4. CASE d = MonthLength(y, m) /\ m = 12
  <2>1. next \in Dates /\ next.y = y + 1 /\ next.m = 1 /\ next.d = 1
    BY <1>1, <1>4 DEF DayAfter, Dates
  <2>2. next \in RealDates
    <3>1. MonthLength(y + 1, 1) \in 28 .. 31
      BY <1>1, MonthIsWhole
    <3>2. QED
      BY <2>1, <3>1 DEF RealDates, RealDate
  <2>3. /\ MonthStart(y + 1, 1) = 0 /\ d = 31
        /\ MonthStart(y, 12) + 31 = 365 + (IF IsLeap(y) THEN 1 ELSE 0)
    BY <1>1, <1>4, MonthIsWhole
  <2>4. YearStart(y + 1) = YearStart(y) + 365 + (IF IsLeap(y) THEN 1 ELSE 0)
    BY <1>1, YearIsWhole
  <2>5. QED
    BY <1>1, <1>4, <2>1, <2>2, <2>3, <2>4, OrdinalSplits
<1>5. QED
  BY <1>1, <1>2, <1>3, <1>4

(* The days that follow a date, as the function that PlusDays chooses. *)
IsLater(g, date, n) == g = [k \in 0 .. n |-> IF k = 0 THEN date ELSE DayAfter(g[k - 1])]

LEMMA LaterExists ==
  ASSUME NEW date, NEW n \in Nat
  PROVE  \E g : IsLater(g, date, n)
<1> DEFINE F == {i \in Nat : ~ \E g : IsLater(g, date, i)}
<1> SUFFICES ASSUME n \in F PROVE FALSE
  OBVIOUS
<1>1. F \subseteq Nat /\ F # {}
  OBVIOUS
<1>2. PICK i \in F : \A j \in F : i <= j
  <2> HIDE DEF F
  <2>1. QED
    BY <1>1, LeastNumber
<1>3. CASE i = 0
  <2> DEFINE g == [k \in 0 .. 0 |-> date]
  <2>1. IsLater(g, date, 0)
    BY DEF IsLater
  <2>2. QED
    BY <1>3, <2>1
<1>4. CASE i # 0
  <2>1. i - 1 \in Nat /\ i - 1 \notin F
    BY <1>2, <1>4
  <2>2. PICK g : IsLater(g, date, i - 1)
    BY <2>1
  <2> DEFINE h == [k \in 0 .. i |-> IF k = i THEN DayAfter(g[i - 1]) ELSE g[k]]
  <2>3. ASSUME NEW k \in 0 .. i PROVE h[k] = IF k = 0 THEN date ELSE DayAfter(h[k - 1])
    <3>1. CASE k = i
      BY <1>4, <3>1
    <3>2. CASE k # i
      <4>1. k \in 0 .. i - 1 /\ h[k] = g[k]
        BY <3>2
      <4>2. g[k] = IF k = 0 THEN date ELSE DayAfter(g[k - 1])
        BY <2>2, <4>1 DEF IsLater
      <4>3. k # 0 => h[k - 1] = g[k - 1]
        BY <3>2
      <4>4. QED
        BY <4>1, <4>2, <4>3
    <3>3. QED
      BY <3>1, <3>2
  <2>4. IsLater(h, date, i)
    BY <2>3 DEF IsLater
  <2>5. QED
    BY <2>4
<1>5. QED
  BY <1>3, <1>4

(* n days later is a date that exists, n further. *)
LEMMA PlusDaysIsExact ==
  ASSUME NEW date \in RealDates, NEW n \in Nat
  PROVE  PlusDays(date, n) \in RealDates /\ Ordinal(PlusDays(date, n)) = Ordinal(date) + n
<1> DEFINE g == CHOOSE later : IsLater(later, date, n)
           Good(k) == g[k] \in RealDates /\ Ordinal(g[k]) = Ordinal(date) + k
           F == {k \in 0 .. n : ~ Good(k)}
<1>1. PlusDays(date, n) = g[n]
  BY DEF PlusDays, IsLater
<1>2. \A k \in 0 .. n : g[k] = IF k = 0 THEN date ELSE DayAfter(g[k - 1])
  <2>1. IsLater(g, date, n)
    BY LaterExists
  <2> HIDE DEF g
  <2>2. QED
    BY <2>1 DEF IsLater
<1>3. Ordinal(date) \in Int
  BY OrdinalSplits DEF RealDates
<1> HIDE DEF g
<1>4. ASSUME F # {} PROVE FALSE
  <2>1. F \subseteq Nat
    OBVIOUS
  <2>2. PICK k \in F : \A j \in F : k <= j
    <3> HIDE DEF F
    <3>1. QED
      BY <1>4, <2>1, LeastNumber
  <2>3. k \in 0 .. n /\ ~ Good(k)
    OBVIOUS
  <2>4. k # 0
    BY <1>2, <1>3, <2>3
  <2>5. k - 1 \in 0 .. n /\ Good(k - 1)
    BY <2>2, <2>3, <2>4
  <2>6. g[k] = DayAfter(g[k - 1])
    BY <1>2, <2>3, <2>4
  <2>7. Good(k)
    BY <1>3, <2>3, <2>5, <2>6, DayAfterIsNext
  <2>8. QED
    BY <2>3, <2>7
<1>5. Good(n)
  BY <1>4
<1>6. QED
  BY <1>1, <1>5

(* So many months later, on the same day or on the last one of the month. *)
LEMMA AddMonthsKeepsDay ==
  ASSUME NEW date \in RealDates, NEW n \in Nat
  PROVE  LET later == AddMonths(date, n)
         IN /\ later \in RealDates
            /\ MonthIndex(later) = MonthIndex(date) + n
            /\ later.d <= date.d
            /\ later.d >= date.d \/ later.d >= 28
<1> DEFINE total == date.m - 1 + n
           y == date.y + total \div 12
           m == (total % 12) + 1
           later == AddMonths(date, n)
<1>1. /\ date \in Dates /\ date.y \in Nat /\ date.m \in 1 .. 12 /\ date.d \in 1 .. 31
      /\ total \in Nat
  BY DEF RealDates, Dates
<1>2. y \in Nat /\ m \in 1 .. 12 /\ 12 * y + m = 12 * date.y + total + 1
  BY <1>1
<1>3. later = [y |-> y, m |-> m, d |-> Clamped(date.d, MonthLength(y, m))]
  BY DEF AddMonths
<1> HIDE DEF y, m, later
<1>4. MonthLength(y, m) \in 28 .. 31
  BY <1>2, MonthIsWhole
<1>5. /\ later \in Dates /\ later.y = y /\ later.m = m
      /\ later.d \in 1 .. MonthLength(y, m) /\ later.d <= date.d
      /\ later.d >= date.d \/ later.d >= 28
  BY <1>1, <1>2, <1>3, <1>4 DEF Dates, Clamped
<1>6. QED
  BY <1>1, <1>2, <1>5 DEF RealDates, RealDate, MonthIndex, later

(***************************************************************************)
(* The plan.                                                               *)
(***************************************************************************)

(* A calendar plan has its two dates, and they exist. *)
DueDatesInv ==
  /\ DueDatesTypeOK
  /\ asOf \in RealDates
  /\ schedule.calendar => schedule.first \in RealDates /\ schedule.due \in RealDates
  /\ PeriodsAreKept

LEMMA FirstDuesAreReal == FirstDues \subseteq RealDates
BY FirstDuesAssumption DEF RealDates, Dates

LEMMA DueDatesInitInv == DueDatesInit => DueDatesInv
<1> SUFFICES ASSUME DueDatesInit PROVE DueDatesInv
  OBVIOUS
<1>0. isActive \in BOOLEAN /\ retired \in BOOLEAN
  BY DEF DueDatesInit
<1>1. CASE \E first \in FirstDues, n \in Intervals :
             /\ schedule = CalendarPlan(first, n)
             /\ \E day \in [y : {first.y - 1, first.y}, m : 1 .. 12, d : 1 .. 31] :
                  RealDate(day) /\ Ordinal(day) + Ahead = Ordinal(first) /\ asOf = day
  <2>1. PICK first \in FirstDues, n \in Intervals :
               /\ schedule = CalendarPlan(first, n)
               /\ asOf \in [y : {first.y - 1, first.y}, m : 1 .. 12, d : 1 .. 31]
               /\ RealDate(asOf)
    BY <1>1
  <2>2. first \in RealDates /\ first \in Dates /\ first.y - 1 \in Nat /\ first.y \in Nat
    BY FirstDuesAreReal, FirstDuesAssumption DEF RealDates
  <2>3. asOf \in Dates /\ asOf \in RealDates
    BY <2>1, <2>2 DEF Dates, RealDates
  <2>4. n \in Nat \ {0}
    BY DueDatesAssumption
  <2>5. DueDatesTypeOK
    BY <1>0, <2>1, <2>2, <2>3, <2>4 DEF DueDatesTypeOK, CalendarPlan
  <2>6. PeriodsAreKept
    <3>1. Ordinal(first) \in Int /\ first.m \in Int /\ first.y \in Int /\ first.d \in Int
      BY <2>2, OrdinalSplits DEF Dates
    <3>2. MonthIndex(first) \in Int
      BY <3>1 DEF MonthIndex
    <3>3. IsPreset(n) => MonthsByIntervalDays[n] \in Nat
      BY DEF IsPreset, MonthsByIntervalDays
    <3>4. schedule.first = first /\ schedule.due = first /\ schedule.served = 0
            /\ schedule.every = n
      BY <2>1 DEF CalendarPlan
    <3>5. QED
      BY <2>2, <2>4, <3>1, <3>2, <3>3, <3>4 DEF PeriodsAreKept, RealDates
  <2>7. QED
    BY <2>1, <2>2, <2>3, <2>5, <2>6 DEF DueDatesInv, CalendarPlan
<1>2. CASE \E n \in MeterSteps : schedule = MeterPlan(n) /\ asOf = SomeDay
  <2>1. PICK n \in MeterSteps : schedule = MeterPlan(n) /\ asOf = SomeDay
    BY <1>2
  <2>2. n \in Nat \ {0} /\ asOf \in RealDates /\ asOf \in Dates
    BY <2>1, FirstDuesAreReal, FirstDuesAssumption, DueDatesAssumption DEF SomeDay, RealDates
  <2>3. QED
    BY <1>0, <2>1, <2>2 DEF DueDatesInv, DueDatesTypeOK, PeriodsAreKept, MeterPlan
<1>3. QED
  BY <1>1, <1>2 DEF DueDatesInit

LEMMA AdvanceKeepsPeriods ==
  ASSUME DueDatesInv, schedule.calendar
  PROVE  LET next == AdvanceDueDate(schedule.due, schedule.every)
             first == schedule.first
             n == schedule.every
             times == schedule.served + 1
         IN /\ next \in RealDates
            /\ IF IsPreset(n)
               THEN /\ MonthIndex(next) = MonthIndex(first) + times * MonthsByIntervalDays[n]
                    /\ next.d <= first.d
                    /\ next.d >= first.d \/ next.d >= 28
               ELSE Ordinal(next) = Ordinal(first) + times * n
<1> DEFINE due == schedule.due
           n == schedule.every
           first == schedule.first
           k == schedule.served
           next == AdvanceDueDate(due, n)
<1>1. due \in RealDates /\ first \in RealDates /\ due \in Dates /\ first \in Dates
  BY DEF DueDatesInv, RealDates
<1>2. n \in Nat /\ k \in Nat
  BY DEF DueDatesInv, DueDatesTypeOK
<1>3. IF IsPreset(n)
      THEN /\ MonthIndex(due) = MonthIndex(first) + k * MonthsByIntervalDays[n]
           /\ due.d <= first.d
           /\ due.d >= first.d \/ due.d >= 28
      ELSE Ordinal(due) = Ordinal(first) + k * n
  BY DEF DueDatesInv, PeriodsAreKept
<1> HIDE DEF due, n, first, k
<1>4. CASE IsPreset(n)
  <2> DEFINE months == MonthsByIntervalDays[n]
  <2>1. months \in Nat
    BY <1>4 DEF IsPreset, MonthsByIntervalDays
  <2> HIDE DEF months
  <2>2. next = AddMonths(due, months)
    BY <1>4 DEF AdvanceDueDate, months
  <2> HIDE DEF next
  <2>3. /\ next \in RealDates /\ MonthIndex(next) = MonthIndex(due) + months
        /\ next.d <= due.d /\ (next.d >= due.d \/ next.d >= 28)
    BY <1>1, <2>1, <2>2, AddMonthsKeepsDay
  <2>4. /\ next.d \in Int /\ due.d \in Int /\ first.d \in Int
        /\ MonthIndex(first) \in Int /\ MonthIndex(due) \in Int
    BY <1>1, <2>3 DEF RealDates, Dates, MonthIndex
  <2>5. k * months + months = (k + 1) * months
    BY <1>2, <2>1
  <2>6. k * months \in Int /\ (k + 1) * months \in Int
    BY <1>2, <2>1
  <2>7. MonthIndex(next) = MonthIndex(first) + (k + 1) * months
    BY <1>3, <1>4, <2>1, <2>3, <2>4, <2>5, <2>6 DEF months
  <2>8. next.d <= first.d /\ (next.d >= first.d \/ next.d >= 28)
    BY <1>3, <1>4, <2>3, <2>4
  <2>9. QED
    BY <1>4, <2>3, <2>7, <2>8 DEF months, n, k, first, next, due
<1>5. CASE ~ IsPreset(n)
  <2>1. next = PlusDays(due, n)
    BY <1>5 DEF AdvanceDueDate
  <2> HIDE DEF next
  <2>2. next \in RealDates /\ Ordinal(next) = Ordinal(due) + n
    BY <1>1, <1>2, <2>1, PlusDaysIsExact
  <2>3. Ordinal(first) \in Int /\ k * n \in Int /\ k * n + n = (k + 1) * n
    BY <1>1, <1>2, OrdinalSplits
  <2>4. Ordinal(next) = Ordinal(first) + (k + 1) * n
    BY <1>2, <1>3, <1>5, <2>2, <2>3
  <2>5. QED
    BY <1>5, <2>2, <2>4 DEF n, k, first, next, due
<1>6. QED
  BY <1>4, <1>5

LEMMA DueDatesStepInv == DueDatesInv /\ [DueDatesNext]_dueDatesVars => DueDatesInv'
<1> SUFFICES ASSUME DueDatesInv, [DueDatesNext]_dueDatesVars PROVE DueDatesInv'
  OBVIOUS
<1>1. CASE Serve /\ schedule.calendar
  <2> DEFINE next == AdvanceDueDate(schedule.due, schedule.every)
  <2>1. /\ schedule' = [schedule EXCEPT !.due = next, !.served = @ + 1]
        /\ asOf' = asOf /\ isActive' = isActive /\ retired' = retired
    BY <1>1 DEF Serve
  <2> HIDE DEF next
  <2>2. next \in RealDates /\ next \in Dates
    BY <1>1, AdvanceKeepsPeriods DEF next, RealDates
  <2>3. DueDatesTypeOK
    BY DEF DueDatesInv
  <2>4. /\ schedule'.calendar = schedule.calendar /\ schedule'.first = schedule.first
        /\ schedule'.every = schedule.every /\ schedule'.due = next
        /\ schedule'.served = schedule.served + 1
        /\ DueDatesTypeOK'
    <3>1. schedule.served \in Nat
      BY <2>3 DEF DueDatesTypeOK
    <3> DEFINE times == schedule.served + 1
    <3>2. times \in Nat /\ schedule' = [schedule EXCEPT !.due = next, !.served = times]
      BY <2>1, <3>1
    <3> HIDE DEF times
    <3>3. /\ schedule'.calendar = schedule.calendar /\ schedule'.first = schedule.first
          /\ schedule'.every = schedule.every /\ schedule'.due = next
          /\ schedule'.served = times
          /\ DueDatesTypeOK'
      BY <2>1, <2>2, <2>3, <3>2 DEF DueDatesTypeOK
    <3>4. QED
      BY <3>3 DEF times
  <2>5. LET first == schedule.first
            n == schedule.every
            times == schedule.served + 1
        IN IF IsPreset(n)
           THEN /\ MonthIndex(next) = MonthIndex(first) + times * MonthsByIntervalDays[n]
                /\ next.d <= first.d
                /\ next.d >= first.d \/ next.d >= 28
           ELSE Ordinal(next) = Ordinal(first) + times * n
    BY <1>1, AdvanceKeepsPeriods DEF next
  <2>6. RealDate(next)
    BY <2>2 DEF RealDates
  <2>7. PeriodsAreKept'
    BY <2>4, <2>5, <2>6 DEF PeriodsAreKept
  <2>8. QED
    BY <1>1, <2>1, <2>2, <2>4, <2>7 DEF DueDatesInv
<1>2. CASE Serve /\ ~ schedule.calendar
  <2>1. /\ schedule' = [schedule EXCEPT !.base = schedule.latest]
        /\ asOf' = asOf /\ isActive' = isActive /\ retired' = retired
        /\ schedule.latest # None
    BY <1>2 DEF Serve, WouldServe
  <2>2. DueDatesTypeOK /\ asOf \in RealDates
    BY DEF DueDatesInv
  <2>3. ~ schedule'.calendar /\ DueDatesTypeOK'
    BY <1>2, <2>1, <2>2 DEF DueDatesTypeOK
  <2>4. QED
    BY <2>1, <2>2, <2>3 DEF DueDatesInv, PeriodsAreKept
<1>3. CASE Tomorrow
  <2>1. /\ asOf' \in RealDates /\ asOf' \in Dates /\ schedule' = schedule
        /\ isActive' = isActive /\ retired' = retired
    BY <1>3, DayAfterIsNext DEF Tomorrow, DueDatesInv, RealDates
  <2>2. QED
    BY <2>1 DEF DueDatesInv, DueDatesTypeOK, PeriodsAreKept
<1>4. CASE Reading
  <2>1. PICK h \in 0 .. MaxMeter : schedule' = [schedule EXCEPT !.latest = h]
    BY <1>4 DEF Reading
  <2>2. /\ h \in Nat /\ asOf' = asOf /\ ~ schedule.calendar
        /\ isActive' = isActive /\ retired' = retired
    BY <1>4, DueDatesAssumption DEF Reading
  <2>3. DueDatesTypeOK /\ asOf \in RealDates
    BY DEF DueDatesInv
  <2>4. ~ schedule'.calendar /\ DueDatesTypeOK'
    BY <2>1, <2>2, <2>3 DEF DueDatesTypeOK
  <2>5. QED
    BY <2>2, <2>3, <2>4 DEF DueDatesInv, PeriodsAreKept
<1>5. CASE UNCHANGED dueDatesVars
  BY <1>5 DEF dueDatesVars, DueDatesInv, DueDatesTypeOK, PeriodsAreKept
<1>6. CASE ToggleActive \/ Retire
  <2>1. /\ schedule' = schedule /\ asOf' = asOf
        /\ isActive' \in BOOLEAN /\ retired' \in BOOLEAN
    BY <1>6 DEF ToggleActive, Retire, DueDatesInv, DueDatesTypeOK
  <2>2. QED
    BY <2>1 DEF DueDatesInv, DueDatesTypeOK, PeriodsAreKept
<1>7. QED
  BY <1>1, <1>2, <1>3, <1>4, <1>5, <1>6 DEF DueDatesNext

LEMMA DueDatesInvariant == DueDatesSpec => []DueDatesInv
<1>1. DueDatesInit => DueDatesInv
  BY DueDatesInitInv
<1>2. DueDatesInv /\ [DueDatesNext]_dueDatesVars => DueDatesInv'
  BY DueDatesStepInv
<1>3. QED
  BY <1>1, <1>2, PTL DEF DueDatesSpec

(* The columns of a plan hold what they may, for any first dates and intervals. *)
THEOREM DueDatesTypesHold == DueDatesSpec => []DueDatesTypeOK
<1>1. DueDatesInv => DueDatesTypeOK
  BY DEF DueDatesInv
<1>2. QED
  BY <1>1, DueDatesInvariant, PTL

(* However often a plan is served, its due date exists, a named period is so many *)
(* months after the first date and any other interval so many days                *)
(* (add_months, advance_due_date).                                                *)
THEOREM PeriodsHold == DueDatesSpec => []PeriodsAreKept
<1>1. DueDatesInv => PeriodsAreKept
  BY DEF DueDatesInv
<1>2. QED
  BY <1>1, DueDatesInvariant, PTL

LEMMA StateAgrees == DueDatesInv => DueStateAgrees
<1> SUFFICES ASSUME DueDatesInv PROVE DueStateAgrees
  OBVIOUS
<1>1. CASE schedule.calendar
  <2>1. Ordinal(schedule.due) \in Int /\ Ordinal(asOf) \in Int
    BY <1>1, OrdinalSplits DEF DueDatesInv, RealDates
  <2>2. QED
    BY <1>1, <2>1 DEF DueStateAgrees, DueState, CalendarDueState, WouldServe, Schedulable,
                      DueSoonDays
<1>2. CASE ~ schedule.calendar
  <2>1. /\ schedule.latest \in Nat \cup {None} /\ schedule.base \in Nat
        /\ schedule.every \in Nat
    BY DEF DueDatesInv, DueDatesTypeOK
  <2>2. QED
    BY <1>2, <2>1 DEF DueStateAgrees, DueState, MeterDueState, WouldServe, Schedulable,
                      Elapsed
<1>3. QED
  BY <1>1, <1>2

(* Of a machine in service the plan list calls «vencido» only what the nightly run     *)
(* would serve, and of what it serves the list never says «al día» or «inactivo»;      *)
(* of a retired machine's plans the list alone says «vencido» (annotate_due_state,     *)
(* _schedulable_plans, _generate_calendar, _generate_meter).                           *)
THEOREM DueStateHolds == DueDatesSpec => []DueStateAgrees
BY DueDatesInvariant, StateAgrees, PTL

\* Until somebody edits it (plan_update, not modelled here), what is overdue stays
\* overdue until it is served or switched off, whatever days pass and readings come,
\* also after the machine was retired and no run is left that could serve it
\* (annotate_due_state, record_reading).
OverdueUntilServed ==
  [][DueState = "vencido" /\ DueState' # "vencido" =>
       \/ ~isActive'
       \/ WouldServe /\ (schedule'.due # schedule.due \/ schedule'.base # schedule.base)]_dueDatesVars

(* One step of OverdueUntilServed. *)
OverdueStep ==
  DueState = "vencido" /\ DueState' # "vencido" =>
    \/ ~isActive'
    \/ WouldServe /\ (schedule'.due # schedule.due \/ schedule'.base # schedule.base)

LEMMA ServingIsTheWayOut == DueDatesInv /\ [DueDatesNext]_dueDatesVars => OverdueStep
<1> SUFFICES ASSUME DueDatesInv, [DueDatesNext]_dueDatesVars, DueState = "vencido", isActive'
             PROVE  \/ DueState' = "vencido"
                    \/ WouldServe /\ \/ schedule'.due # schedule.due
                                     \/ schedule'.base # schedule.base
  BY DEF OverdueStep
<1>1. DueDatesTypeOK /\ isActive
  BY DEF DueDatesInv, DueState
<1>2. schedule.calendar =>
        Ordinal(schedule.due) \in Int /\ Ordinal(asOf) \in Int
          /\ Ordinal(schedule.due) < Ordinal(asOf)
  BY <1>1, OrdinalSplits DEF DueDatesInv, RealDates, DueState, CalendarDueState
<1>3. ~ schedule.calendar =>
        /\ schedule.latest \in Nat /\ schedule.base \in Nat /\ schedule.every \in Nat
        /\ schedule.latest - schedule.base >= schedule.every
  BY <1>1 DEF DueDatesTypeOK, DueState, MeterDueState, Elapsed
<1>4. CASE Serve
  <2>1. /\ asOf' = asOf /\ WouldServe
        /\ schedule'.calendar = schedule.calendar /\ schedule'.every = schedule.every
        /\ schedule'.latest = schedule.latest
    BY <1>1, <1>4 DEF Serve, DueDatesTypeOK
  <2>2. schedule'.due = schedule.due /\ schedule'.base = schedule.base => DueState' = DueState
    BY <1>1, <2>1 DEF DueState, CalendarDueState, MeterDueState, Elapsed
  <2>3. QED
    BY <2>1, <2>2
<1>5. CASE Tomorrow
  <2>1. asOf' = DayAfter(asOf) /\ schedule' = schedule /\ schedule.calendar
    BY <1>5 DEF Tomorrow
  <2>2. Ordinal(asOf') = Ordinal(asOf) + 1
    BY <2>1, DayAfterIsNext DEF DueDatesInv
  <2>3. QED
    BY <1>2, <2>1, <2>2 DEF DueState, CalendarDueState
<1>6. CASE Reading
  <2>1. PICK h \in 0 .. MaxMeter : /\ schedule.latest # None => h >= schedule.latest
                                   /\ schedule' = [schedule EXCEPT !.latest = h]
    BY <1>6 DEF Reading
  <2>2. /\ ~ schedule.calendar /\ schedule.latest # None /\ h \in Nat /\ h # None
    BY <1>3, <1>6, DueDatesAssumption DEF Reading
  <2>3. /\ ~ schedule'.calendar /\ schedule'.latest = h
        /\ schedule'.base = schedule.base /\ schedule'.every = schedule.every
    BY <1>1, <2>1, <2>2 DEF DueDatesTypeOK
  <2>4. QED
    BY <1>3, <2>1, <2>2, <2>3 DEF DueState, MeterDueState, Elapsed
<1>7. CASE ToggleActive
  <2>1. isActive' = ~isActive
    BY <1>7, Zenon DEF ToggleActive
  <2>2. ~ isActive'
    BY <1>1, <2>1, Zenon
  <2>3. QED
    BY <2>2
<1>8. CASE Retire \/ UNCHANGED dueDatesVars
  <2>1. UNCHANGED dueDatesVars => schedule' = schedule /\ asOf' = asOf
    BY DEF dueDatesVars
  <2>2. Retire => schedule' = schedule /\ asOf' = asOf
    BY DEF Retire
  <2>3. schedule' = schedule /\ asOf' = asOf
    BY <1>8, <2>1, <2>2
  <2>4. QED
    BY <1>1, <2>3 DEF DueState, CalendarDueState, MeterDueState, Elapsed
<1>9. QED
  BY <1>4, <1>5, <1>6, <1>7, <1>8 DEF DueDatesNext

(* A plan that nobody edits and that is overdue stays so until it is served or      *)
(* switched off, for any dates, intervals and readings; the plan of a retired       *)
(* machine, for which WouldServe never holds, until it is switched off              *)
(* (annotate_due_state, record_reading).                                            *)
THEOREM OverdueHolds == DueDatesSpec => OverdueUntilServed
<1>1. DueDatesSpec => [][OverdueStep]_dueDatesVars
  BY DueDatesInvariant, ServingIsTheWayOut, PTL DEF DueDatesSpec
<1>2. QED
  BY <1>1 DEF OverdueUntilServed, OverdueStep

(***************************************************************************)
(* Sums over finite sets.  A fold is a function that TLA+ chooses; what    *)
(* holds of it is shown by a least set on which it would not.              *)
(***************************************************************************)

(* The element a fold takes first. *)
Chosen(s) == CHOOSE x \in s : TRUE

(* g is the fold of + over the subsets of S. *)
IsFold(g, f, S) ==
  g = [s \in SUBSET S |-> IF s = {} THEN 0 ELSE f[Chosen(s)] + g[s \ {Chosen(s)}]]

LEMMA SumIsFold ==
  ASSUME NEW f, NEW S
  PROVE  SumFunctionOnSet(f, S) = (CHOOSE g : IsFold(g, f, S))[S]
BY DEF SumFunctionOnSet, FoldFunctionOnSet, MapThenFoldSet, IsFold, Chosen

LEMMA ChosenIsIn == ASSUME NEW s, s # {} PROVE Chosen(s) \in s
BY DEF Chosen

(* A nonempty family of finite sets has a least one. *)
LEMMA LeastSet ==
  ASSUME NEW S, IsFiniteSet(S), NEW F, F \subseteq SUBSET S, F # {}
  PROVE  \E s \in F : \A t \in F : ~ (t \subseteq s /\ t # s)
<1> DEFINE R == StrictSubsetOrdering(S)
<1>1. F \subseteq FiniteSubsetsOf(S)
  BY FS_Subset DEF FiniteSubsetsOf
<1>2. IsWellFoundedOn(R, FiniteSubsetsOf(S))
  BY FS_StrictSubsetOrderingWellFounded
<1> HIDE DEF R
<1>3. PICK s \in F : \A t \in F : ~ (<<t, s>> \in R)
  BY <1>1, <1>2, WFMin
<1>4. ASSUME NEW t \in F PROVE ~ (t \subseteq s /\ t # s)
  <2>1. t \in SUBSET S /\ s \in SUBSET S /\ <<t, s>> \notin R
    BY <1>3
  <2>2. QED
    BY <2>1 DEF R, StrictSubsetOrdering
<1>5. QED
  BY <1>4

LEMMA FoldsAgree ==
  ASSUME NEW f, NEW h, NEW S, NEW T, NEW g, NEW k, IsFold(g, f, S), IsFold(k, h, T),
         NEW u, u \subseteq S, u \subseteq T, IsFiniteSet(u), \A x \in u : f[x] = h[x]
  PROVE  g[u] = k[u]
<1> DEFINE F == {s \in SUBSET u : g[s] # k[s]}
<1> SUFFICES ASSUME g[u] # k[u] PROVE FALSE
  OBVIOUS
<1>1. F # {}
  OBVIOUS
<1>2. F \subseteq SUBSET u
  OBVIOUS
<1> HIDE DEF F
<1>3. PICK s \in F : \A t \in F : ~ (t \subseteq s /\ t # s)
  BY <1>1, <1>2, LeastSet
<1>4. s \subseteq u /\ g[s] # k[s]
  BY DEF F
<1>5. CASE s = {}
  BY <1>4, <1>5 DEF IsFold
<1>6. CASE s # {}
  <2> DEFINE x == Chosen(s)
  <2>1. x \in s
    BY <1>6, ChosenIsIn
  <2>2. g[s] = f[x] + g[s \ {x}] /\ k[s] = h[x] + k[s \ {x}]
    <3>1. s \in SUBSET S /\ s \in SUBSET T
      BY <1>4
    <3>2. g[s] = f[x] + g[s \ {x}]
      BY <1>6, <3>1 DEF IsFold
    <3>3. k[s] = h[x] + k[s \ {x}]
      BY <1>6, <3>1 DEF IsFold
    <3>4. QED
      BY <3>2, <3>3
  <2>3. s \ {x} \notin F
    BY <1>3, <2>1
  <2>4. g[s \ {x}] = k[s \ {x}]
    BY <1>4, <2>3 DEF F
  <2>5. f[x] = h[x]
    BY <1>4, <2>1
  <2>6. QED
    BY <1>4, <2>2, <2>4, <2>5
<1>7. QED
  BY <1>5, <1>6

(* The fold exists. *)
LEMMA FoldExists ==
  ASSUME NEW f, NEW S, IsFiniteSet(S)
  PROVE  \E g : IsFold(g, f, S)
<1> DEFINE F == {s \in SUBSET S : ~ \E g : IsFold(g, f, s)}
<1> SUFFICES ASSUME S \in F PROVE FALSE
  OBVIOUS
<1>1. F \subseteq SUBSET S /\ F # {}
  OBVIOUS
<1>2. \A s \in SUBSET S : s \notin F => \E g : IsFold(g, f, s)
  OBVIOUS
<1>3. \A s \in F : ~ \E g : IsFold(g, f, s)
  OBVIOUS
<1> HIDE DEF F
<1>4. PICK s \in F : \A t \in F : ~ (t \subseteq s /\ t # s)
  BY <1>1, LeastSet
<1>5. s \in SUBSET S /\ IsFiniteSet(s)
  BY <1>1, FS_Subset
<1> DEFINE G(t) == CHOOSE g : IsFold(g, f, t)
<1>6. \A t \in SUBSET s : t # s => IsFold(G(t), f, t)
  <2> SUFFICES ASSUME NEW t \in SUBSET s, t # s PROVE \E g : IsFold(g, f, t)
    OBVIOUS
  <2>1. t \notin F
    BY <1>4
  <2>2. QED
    BY <1>2, <1>5, <2>1
<1> HIDE DEF G
<1> DEFINE h == [t \in SUBSET s |-> IF t = {} THEN 0
                                   ELSE f[Chosen(t)] + G(t \ {Chosen(t)})[t \ {Chosen(t)}]]
<1>7. \A t \in SUBSET s : t # s => h[t] = G(t)[t]
  <2> SUFFICES ASSUME NEW t \in SUBSET s, t # s PROVE h[t] = G(t)[t]
    OBVIOUS
  <2>1. IsFold(G(t), f, t)
    BY <1>6
  <2>2. CASE t = {}
    <3>1. G(t)[t] = 0
      BY <2>1, <2>2 DEF IsFold
    <3>2. QED
      BY <2>2, <3>1
  <2>3. CASE t # {}
    <3> DEFINE x == Chosen(t)
               v == t \ {x}
    <3>1. x \in t
      BY <2>3, ChosenIsIn
    <3>2. v \in SUBSET s /\ v # s /\ v \subseteq t /\ IsFiniteSet(v)
      BY <1>5, <3>1, FS_Subset
    <3>3. IsFold(G(v), f, v)
      BY <1>6, <3>2
    <3>4. G(t)[v] = G(v)[v]
      BY <2>1, <3>2, <3>3, FoldsAgree
    <3>5. G(t)[t] = f[x] + G(t)[v]
      BY <2>1, <2>3 DEF IsFold
    <3>6. h[t] = f[x] + G(v)[v]
      BY <2>3
    <3>7. QED
      BY <3>4, <3>5, <3>6
  <2>4. QED
    BY <2>2, <2>3
<1>8. IsFold(h, f, s)
  <2>1. ASSUME NEW t \in SUBSET s, t # {} PROVE h[t] = f[Chosen(t)] + h[t \ {Chosen(t)}]
    <3>1. Chosen(t) \in t
      BY <2>1, ChosenIsIn
    <3>2. t \ {Chosen(t)} \in SUBSET s /\ t \ {Chosen(t)} # s
      BY <3>1
    <3>3. QED
      BY <1>7, <2>1, <3>2
  <2>2. h[{}] = 0
    OBVIOUS
  <2>3. h = [t \in SUBSET s |-> h[t]]
    OBVIOUS
  <2> HIDE DEF h
  <2>4. QED
    BY <2>1, <2>2, <2>3 DEF IsFold
<1>9. QED
  BY <1>3, <1>8

LEMMA SumStep ==
  ASSUME NEW f, NEW S, IsFiniteSet(S)
  PROVE  SumFunctionOnSet(f, S) =
           IF S = {} THEN 0
           ELSE f[Chosen(S)] + SumFunctionOnSet(f, S \ {Chosen(S)})
<1> DEFINE G(T) == CHOOSE g : IsFold(g, f, T)
           x == Chosen(S)
           T == S \ {x}
<1>1. IsFiniteSet(T)
  BY FS_Subset
<1>2. IsFold(G(S), f, S)
  BY FoldExists
<1>3. IsFold(G(T), f, T)
  BY <1>1, FoldExists
<1>4. SumFunctionOnSet(f, S) = G(S)[S] /\ SumFunctionOnSet(f, T) = G(T)[T]
  BY SumIsFold
<1> HIDE DEF G
<1>5. G(S)[S] = IF S = {} THEN 0 ELSE f[x] + G(S)[T]
  BY <1>2 DEF IsFold
<1>6. G(S)[T] = G(T)[T]
  BY <1>1, <1>2, <1>3, FoldsAgree
<1>7. QED
  BY <1>4, <1>5, <1>6

(* The sum is a number, and any element may be taken first. *)
LEMMA SumRemoves ==
  ASSUME NEW S, IsFiniteSet(S), NEW f \in [S -> Nat]
  PROVE  /\ SumFunctionOnSet(f, S) \in Nat
         /\ \A y \in S : SumFunctionOnSet(f, S) = f[y] + SumFunctionOnSet(f, S \ {y})
<1> DEFINE Good(T) == /\ SumFunctionOnSet(f, T) \in Nat
                      /\ \A y \in T : SumFunctionOnSet(f, T) = f[y] + SumFunctionOnSet(f, T \ {y})
           F == {T \in SUBSET S : ~ Good(T)}
<1> SUFFICES ASSUME S \in F PROVE FALSE
  OBVIOUS
<1>1. F \subseteq SUBSET S /\ F # {}
  OBVIOUS
<1>2. \A T \in SUBSET S : T \notin F => Good(T)
  OBVIOUS
<1>3. \A T \in F : ~ Good(T)
  OBVIOUS
<1> HIDE DEF F, Good
<1>4. PICK T \in F : \A U \in F : ~ (U \subseteq T /\ U # T)
  BY <1>1, LeastSet
<1>5. T \in SUBSET S /\ IsFiniteSet(T)
  BY <1>1, FS_Subset
<1>6. \A U \in SUBSET T : U # T => Good(U)
  BY <1>2, <1>4, <1>5
<1>7. CASE T = {}
  <2>1. SumFunctionOnSet(f, T) = 0
    BY <1>5, <1>7, SumStep
  <2>2. Good(T)
    BY <1>7, <2>1 DEF Good
  <2>3. QED
    BY <1>3, <1>4, <2>2
<1>8. CASE T # {}
  <2> DEFINE x == Chosen(T)
             sum(U) == SumFunctionOnSet(f, U)
  <2>1. x \in T /\ x \in S
    BY <1>5, <1>8, ChosenIsIn
  <2>2. sum(T) = f[x] + sum(T \ {x})
    BY <1>5, <1>8, SumStep
  <2> HIDE DEF x
  <2>3. Good(T \ {x}) /\ f[x] \in Nat
    BY <1>6, <2>1
  <2>4. sum(T) \in Nat /\ sum(T \ {x}) \in Nat
    BY <2>2, <2>3 DEF Good
  <2>5. ASSUME NEW y \in T PROVE sum(T) = f[y] + sum(T \ {y})
    <3>1. CASE y = x
      BY <2>2, <3>1
    <3>2. CASE y # x
      <4> DEFINE U == T \ {x, y}
      <4>1. Good(T \ {y}) /\ y \in S /\ f[y] \in Nat /\ Good(U)
        BY <1>5, <1>6
      <4>2. sum(T \ {x}) = f[y] + sum(U)
        <5>1. y \in T \ {x} /\ (T \ {x}) \ {y} = U
          BY <3>2
        <5>2. QED
          BY <2>3, <5>1 DEF Good
      <4>3. sum(T \ {y}) = f[x] + sum(U)
        <5>1. x \in T \ {y} /\ (T \ {y}) \ {x} = U
          BY <2>1, <3>2
        <5>2. QED
          BY <4>1, <5>1 DEF Good
      <4>4. sum(U) \in Nat
        BY <4>1 DEF Good
      <4> HIDE DEF U, sum
      <4>5. QED
        BY <2>2, <2>3, <4>1, <4>2, <4>3, <4>4
    <3>3. QED
      BY <3>1, <3>2
  <2>6. Good(T)
    BY <2>4, <2>5 DEF Good
  <2>7. QED
    BY <1>3, <2>6
<1>9. QED
  BY <1>7, <1>8

LEMMA SumRestricts ==
  ASSUME NEW f, NEW h, NEW S, IsFiniteSet(S), \A x \in S : f[x] = h[x]
  PROVE  SumFunctionOnSet(f, S) = SumFunctionOnSet(h, S)
<1> DEFINE G(k) == CHOOSE g : IsFold(g, k, S)
<1>1. IsFold(G(f), f, S) /\ IsFold(G(h), h, S)
  BY FoldExists
<1>2. SumFunctionOnSet(f, S) = G(f)[S] /\ SumFunctionOnSet(h, S) = G(h)[S]
  BY SumIsFold
<1> HIDE DEF G
<1>3. QED
  BY <1>1, <1>2, FoldsAgree

(* A part weighs no more than the whole. *)
LEMMA SumGrows ==
  ASSUME NEW S, IsFiniteSet(S), NEW f \in [S -> Nat], NEW U \in SUBSET S
  PROVE  SumFunctionOnSet(f, U) \in Nat /\ SumFunctionOnSet(f, U) <= SumFunctionOnSet(f, S)
<1> DEFINE sum(T) == SumFunctionOnSet(f, T)
<1>1. ASSUME NEW T \in SUBSET S
      PROVE  sum(T) \in Nat /\ \A y \in T : sum(T) = f[y] + sum(T \ {y})
  <2> DEFINE h == [x \in T |-> f[x]]
  <2>1. IsFiniteSet(T) /\ h \in [T -> Nat] /\ \A x \in T : f[x] = h[x]
    BY FS_Subset
  <2> HIDE DEF h
  <2>2. sum(T) = SumFunctionOnSet(h, T)
    BY <2>1, SumRestricts
  <2>3. \A y \in T : sum(T \ {y}) = SumFunctionOnSet(h, T \ {y})
    BY <2>1, FS_Subset, SumRestricts
  <2>4. QED
    BY <2>1, <2>2, <2>3, SumRemoves
<1> HIDE DEF sum
<1> DEFINE F == {T \in SUBSET S : U \subseteq T /\ ~ (sum(U) <= sum(T))}
<1>2. F \subseteq SUBSET S
  OBVIOUS
<1>3. ASSUME F # {} PROVE FALSE
  <2> HIDE DEF F
  <2>1. PICK T \in F : \A V \in F : ~ (V \subseteq T /\ V # T)
    BY <1>2, <1>3, LeastSet
  <2>2. T \in SUBSET S /\ U \subseteq T /\ ~ (sum(U) <= sum(T))
    BY DEF F
  <2>3. T # U
    BY <1>1, <2>2
  <2>4. PICK y \in T : y \notin U
    BY <2>2, <2>3
  <2>5. sum(T) = f[y] + sum(T \ {y}) /\ sum(T \ {y}) \in Nat /\ f[y] \in Nat /\ sum(U) \in Nat
    BY <1>1, <2>2
  <2>6. T \ {y} \in F
    BY <2>2, <2>4, <2>5 DEF F
  <2>7. QED
    BY <2>1, <2>6
<1>4. sum(U) <= sum(S)
  BY <1>3
<1>5. QED
  BY <1>1, <1>4 DEF sum

(***************************************************************************)
(* What the queries of the dashboard return.                               *)
(***************************************************************************)

LEMMA MultiplesGrow ==
  ASSUME NEW a \in Int, NEW b \in Int, NEW k \in Nat, a <= b
  PROVE  a * k <= b * k
<1>1. (b - a) * k >= 0
  OBVIOUS
<1>2. (b - a) * k = b * k - a * k
  OBVIOUS
<1>3. a * k \in Int /\ b * k \in Int
  OBVIOUS
<1>4. QED
  BY <1>1, <1>2, <1>3

LEMMA DayHasTicks ==
  ASSUME NEW t \in Int, NEW k \in Nat \ {0}
  PROVE  /\ t \div k \in Int
         /\ (t \div k) * k <= t /\ t < (t \div k + 1) * k
<1> DEFINE q == t \div k
           r == t % k
<1>1. q \in Int /\ r \in 0 .. k - 1 /\ t = k * q + r
  OBVIOUS
<1>2. k * q = q * k /\ (q + 1) * k = q * k + k /\ q * k \in Int
  BY <1>1
<1> HIDE DEF q, r
<1>3. q * k <= t /\ t < (q + 1) * k
  BY <1>1, <1>2
<1>4. QED
  BY <1>1, <1>3 DEF q

(* A moment is on day d or before it if and only if it is before the end of d. *)
LEMMA DayEnds ==
  ASSUME NEW t \in Int, NEW k \in Nat \ {0}, NEW d \in Int
  PROVE  t \div k <= d <=> t < (d + 1) * k
<1> DEFINE q == t \div k
<1>1. q \in Int /\ q * k <= t /\ t < (q + 1) * k
  BY DayHasTicks
<1> HIDE DEF q
<1>2. q * k \in Int /\ (q + 1) * k \in Int /\ (d + 1) * k \in Int
  BY <1>1
<1>3. q <= d => (q + 1) * k <= (d + 1) * k
  BY <1>1, MultiplesGrow
<1>4. q > d => (d + 1) * k <= q * k
  BY <1>1, MultiplesGrow
<1>5. q <= d <=> t < (d + 1) * k
  BY <1>1, <1>2, <1>3, <1>4
<1>6. QED
  BY <1>5 DEF q

Keys == {"mes", "30d"}

(* The period starts no later than it is asked for. *)
LEMMA PeriodIsPast ==
  ASSUME NEW key \in Keys, NEW now \in Nat
  PROVE  StartsAt(key, now) \in Int /\ StartsAt(key, now) <= now
<1>1. CASE key = "mes"
  <2> DEFINE day == LocalDay(now)
             first == (day \div MonthDays) * MonthDays
  <2>1. DayTicks \in Nat \ {0} /\ MonthDays \in Nat \ {0}
    BY IndicatorsAssumption
  <2>2. day \in Int /\ day * DayTicks <= now
    BY <2>1, DayHasTicks DEF LocalDay
  <2>3. (day \div MonthDays) \in Int /\ first <= day
    BY <2>1, <2>2, DayHasTicks
  <2>4. first \in Int
    BY <2>1, <2>3
  <2>5. StartsAt(key, now) = first * DayTicks
    BY <1>1 DEF StartsAt
  <2> HIDE DEF day, first
  <2>6. first * DayTicks <= day * DayTicks /\ first * DayTicks \in Int /\ day * DayTicks \in Int
    BY <2>1, <2>2, <2>3, <2>4, MultiplesGrow
  <2>7. QED
    BY <2>2, <2>5, <2>6
<1>2. CASE key = "30d"
  BY <1>2, IndicatorsAssumption DEF StartsAt
<1>3. QED
  BY <1>1, <1>2 DEF Keys

Statuses == OpenStatuses \cup DoneStatuses \cup {"none", "cancelada"}

JobRows == [status : Statuses, due : Int \cup {None}, started : Nat \cup {None},
            finished : Nat \cup {None}, downtime : Nat, cost : Nat \cup {None}]

(* What the columns of an order say together at the time now: an open order *)
(* was not finished, a finished one was started before, and both are past.  *)
Fits(row, now) ==
  /\ row.status \in {"none", "abierta"} => row.started = None /\ row.finished = None
  /\ row.status = "en_progreso" => row.started # None /\ row.finished = None
  /\ row.status \in DoneStatuses => row.finished # None
  /\ row.started # None => row.started <= now
  /\ row.finished # None =>
       row.started # None /\ row.started <= row.finished /\ row.finished <= now

JobsInv ==
  /\ clock \in 0 .. LastTick
  /\ offFleet \subseteq Fleet
  /\ job \in [Jobs -> JobRows]
  /\ \A j \in Jobs : job[j].due \in DuesOf[j] \cup {None} /\ Fits(job[j], clock)

LEMMA JobTypes ==
  ASSUME JobsInv, NEW j \in Jobs
  PROVE  /\ job[j] \in JobRows
         /\ job[j].downtime \in Nat /\ job[j].cost \in Nat \cup {None}
         /\ job[j].due \in Int \cup {None} /\ job[j].finished \in Nat \cup {None}
         /\ job[j].started \in Nat \cup {None} /\ job[j].status \in Statuses
         /\ Fits(job[j], clock)
BY DEF JobsInv, JobRows

LEMMA FitsTypes == JobsInv => IndicatorsTypeOK
<1> SUFFICES ASSUME JobsInv PROVE IndicatorsTypeOK
  OBVIOUS
<1>1. ASSUME NEW j \in Jobs, job[j].finished # None
      PROVE  job[j].started \in 0 .. job[j].finished
  <2>1. job[j].started \in Nat /\ job[j].finished \in Nat
          /\ job[j].started <= job[j].finished
    BY <1>1, JobTypes DEF Fits
  <2>2. QED
    BY <2>1
<1>2. \A j \in Jobs :
        job[j].status \in OpenStatuses \cup DoneStatuses \cup {"none", "cancelada"}
  BY JobTypes DEF Statuses
<1>3. QED
  BY <1>1, <1>2 DEF IndicatorsTypeOK, JobsInv

LEMMA DowntimeIsCounted ==
  ASSUME JobsInv, NEW js, js \subseteq Jobs
  PROVE  DowntimeOf(js) \in Nat
<1> DEFINE f == [j \in js |-> job[j].downtime]
<1>1. IsFiniteSet(js)
  BY FS_Subset, IndicatorsAssumption
<1>2. f \in [js -> Nat]
  BY JobTypes
<1> HIDE DEF f
<1>3. SumFunctionOnSet(f, js) \in Nat
  BY <1>1, <1>2, SumRemoves
<1>4. QED
  BY <1>3 DEF DowntimeOf, f

LEMMA UptimeIsATime ==
  ASSUME JobsInv, NEW m, NEW starts \in Int, NEW ends \in Int, starts <= ends
  PROVE  Uptime(m, starts, ends) \in 0 .. ends - starts
<1> DEFINE js == Of(m, ClosedIn(starts, ends))
<1>1. js \subseteq Jobs
  BY DEF Of, ClosedIn
<1> HIDE DEF js
<1>2. DowntimeOf(js) \in Nat
  BY <1>1, DowntimeIsCounted
<1>3. Uptime(m, starts, ends) = Floored(ends - starts - DowntimeOf(js))
  BY DEF Uptime, js
<1>4. QED
  BY <1>2, <1>3 DEF Floored

(* Every failure of a machine is a repair: what was finished had been started. *)
LEMMA FailuresAreRepairs ==
  ASSUME JobsInv, NEW m, NEW starts, NEW ends
  PROVE  Failures(m, starts, ends) \subseteq Repairs(starts, ends)
<1>1. ASSUME NEW j \in Failures(m, starts, ends) PROVE j \in Repairs(starts, ends)
  <2>1. /\ j \in ClosedIn(starts, ends) /\ TypeOf[j] = "correctivo" /\ j \in Jobs
        /\ job[j].finished # None
    BY DEF Failures, Of, ClosedIn
  <2>2. job[j].started # None
    BY <2>1, JobTypes DEF Fits
  <2>3. QED
    BY <2>1, <2>2 DEF Repairs
<1>2. QED
  BY <1>1

LEMMA OverdueIsFinite ==
  ASSUME JobsInv, NEW today \in Int
  PROVE  /\ Overdue(today) \subseteq Jobs /\ IsFiniteSet(Overdue(today))
         /\ \A j \in Overdue(today) :
              job[j].due \in Int /\ today - job[j].due \in Int /\ job[j].status \in OpenStatuses
<1>1. Overdue(today) \subseteq Jobs
  BY DEF Overdue
<1>2. IsFiniteSet(Overdue(today))
  BY <1>1, FS_Subset, IndicatorsAssumption
<1>3. ASSUME NEW j \in Overdue(today)
      PROVE  job[j].due \in Int /\ today - job[j].due \in Int /\ job[j].status \in OpenStatuses
  <2>1. j \in Jobs /\ job[j].due # None /\ job[j].status \in OpenStatuses
    BY DEF Overdue
  <2>2. job[j].due \in Int
    BY <2>1, JobTypes
  <2>3. QED
    BY <2>1, <2>2
<1>4. QED
  BY <1>1, <1>2, <1>3

BucketNames == {"menos_7", "de_7_a_30", "mas_30"}

(* The orders of a bucket. *)
Late(today, bucket) == {j \in Overdue(today) : BucketOf(today - job[j].due) = bucket}

LEMMA BucketsCount ==
  ASSUME JobsInv, NEW today \in Int
  PROVE  /\ \A bucket \in BucketNames : Buckets(today)[bucket] = Cardinality(Late(today, bucket))
         /\ Buckets(today).total = Cardinality(Overdue(today))
<1>1. Week \in Nat /\ Thirty \in Nat /\ Week <= Thirty
  BY IndicatorsAssumption
<1>2. \A j \in Overdue(today) : today - job[j].due \in Int
  BY OverdueIsFinite
<1>3. Late(today, "menos_7") = {j \in Overdue(today) : today - job[j].due < Week}
  BY <1>1, <1>2 DEF Late, BucketOf
<1>4. Late(today, "de_7_a_30") = {j \in Overdue(today) : today - job[j].due \in Week .. Thirty}
  BY <1>1, <1>2 DEF Late, BucketOf
<1>5. Late(today, "mas_30") = {j \in Overdue(today) : today - job[j].due > Thirty}
  BY <1>1, <1>2 DEF Late, BucketOf
<1> DEFINE counts == Buckets(today)
<1>6. /\ counts.menos_7 = Cardinality({j \in Overdue(today) : today - job[j].due < Week})
      /\ counts.de_7_a_30 =
           Cardinality({j \in Overdue(today) : today - job[j].due \in Week .. Thirty})
      /\ counts.mas_30 = Cardinality({j \in Overdue(today) : today - job[j].due > Thirty})
      /\ counts.total = Cardinality(Overdue(today))
  BY DEF Buckets
<1> HIDE DEF counts
<1>7. /\ counts["menos_7"] = Cardinality(Late(today, "menos_7"))
      /\ counts["de_7_a_30"] = Cardinality(Late(today, "de_7_a_30"))
      /\ counts["mas_30"] = Cardinality(Late(today, "mas_30"))
  BY <1>3, <1>4, <1>5, <1>6
<1>8. QED
  BY <1>6, <1>7 DEF BucketNames, counts

(* The buckets are a partition of the backlog. *)
LEMMA BucketsAdd ==
  ASSUME JobsInv, NEW today \in Int
  PROVE  /\ Buckets(today).total =
              Buckets(today).menos_7 + Buckets(today).de_7_a_30 + Buckets(today).mas_30
         /\ \A bucket \in BucketNames : Buckets(today)[bucket] \in Nat
         /\ Buckets(today).total \in Nat
<1> DEFINE A == Late(today, "menos_7")
           B == Late(today, "de_7_a_30")
           C == Late(today, "mas_30")
           D == Overdue(today)
<1>1. IsFiniteSet(D)
  BY OverdueIsFinite
<1>2. A \subseteq D /\ B \subseteq D /\ C \subseteq D
  BY DEF Late
<1>3. A \cap B = {} /\ (A \cup B) \cap C = {} /\ (A \cup B) \cup C = D
  BY DEF Late, BucketOf
<1>4. /\ Buckets(today).menos_7 = Cardinality(A) /\ Buckets(today).de_7_a_30 = Cardinality(B)
      /\ Buckets(today).mas_30 = Cardinality(C) /\ Buckets(today).total = Cardinality(D)
  BY BucketsCount DEF BucketNames
<1> HIDE DEF A, B, C, D
<1>5. IsFiniteSet(A) /\ IsFiniteSet(B) /\ IsFiniteSet(C) /\ IsFiniteSet(A \cup B)
  <2>1. A \cup B \subseteq D
    BY <1>2
  <2>2. QED
    BY <1>1, <1>2, <2>1, FS_Subset
<1>6. /\ Cardinality(A) \in Nat /\ Cardinality(B) \in Nat /\ Cardinality(C) \in Nat
      /\ Cardinality(D) \in Nat /\ Cardinality({}) = 0
  BY <1>1, <1>5, FS_CardinalityType, FS_EmptySet
<1>7. Cardinality(A \cup B) = Cardinality(A) + Cardinality(B)
  <2>1. Cardinality(A \cup B) = Cardinality(A) + Cardinality(B) - Cardinality(A \cap B)
    BY <1>5, FS_Union
  <2>2. Cardinality(A \cap B) = 0
    BY <1>3, <1>6, Zenon
  <2>3. QED
    BY <1>6, <2>1, <2>2
<1>8. Cardinality(D) = Cardinality(A) + Cardinality(B) + Cardinality(C)
  <2>1. Cardinality((A \cup B) \cup C)
          = Cardinality(A \cup B) + Cardinality(C) - Cardinality((A \cup B) \cap C)
    BY <1>5, FS_Union
  <2>2. Cardinality((A \cup B) \cap C) = 0
    BY <1>3, <1>6, Zenon
  <2>3. Cardinality((A \cup B) \cup C) = Cardinality(D)
    BY <1>3, Zenon
  <2>4. QED
    BY <1>6, <1>7, <2>1, <2>2, <2>3
<1> DEFINE counts == Buckets(today)
<1>9. /\ counts["menos_7"] \in Nat /\ counts["de_7_a_30"] \in Nat /\ counts["mas_30"] \in Nat
      /\ counts.total \in Nat /\ counts.total = counts.menos_7 + counts.de_7_a_30 + counts.mas_30
  BY <1>4, <1>6, <1>8
<1> HIDE DEF counts
<1>10. QED
  BY <1>9 DEF BucketNames, counts

(* One row of the backlog for each order of it. *)
BacklogRow(today, j) ==
  [job |-> j, due |-> job[j].due, bucket |-> BucketOf(today - job[j].due)]

LEMMA RowsAreOrders ==
  ASSUME JobsInv, NEW today \in Int
  PROVE  /\ IsFiniteSet(BacklogRows(today))
         /\ \A row \in BacklogRows(today) :
              /\ row.job \in Overdue(today) /\ row.due \in Int
              /\ row.bucket \in BucketNames
         /\ \A bucket \in BucketNames :
              Cardinality({row \in BacklogRows(today) : row.bucket = bucket})
                = Cardinality(Late(today, bucket))
<1>1. BacklogRows(today) = {BacklogRow(today, j) : j \in Overdue(today)}
  BY DEF BacklogRows, BacklogRow
<1>2. ASSUME NEW js, js \subseteq Overdue(today)
      PROVE  LET rows == {BacklogRow(today, j) : j \in js}
             IN IsFiniteSet(rows) /\ Cardinality(rows) = Cardinality(js)
  <2> DEFINE rows == {BacklogRow(today, j) : j \in js}
             f == [j \in js |-> BacklogRow(today, j)]
  <2>1. f \in [js -> rows] /\ \A j \in js : f[j].job = j
    BY DEF BacklogRow
  <2>2. \A r \in rows : \E j \in js : f[j] = r
    OBVIOUS
  <2> HIDE DEF f, rows
  <2>3. f \in Bijection(js, rows)
    BY <2>1, <2>2 DEF Bijection, Injection, Surjection, IsInjective
  <2>4. ExistsBijection(js, rows)
    BY <2>3 DEF ExistsBijection
  <2>5. IsFiniteSet(js)
    BY <1>2, OverdueIsFinite, FS_Subset
  <2>6. QED
    BY <2>4, <2>5, FS_Bijection DEF rows
<1>3. IsFiniteSet(BacklogRows(today))
  BY <1>1, <1>2
<1>4. ASSUME NEW bucket \in BucketNames
      PROVE  Cardinality({row \in BacklogRows(today) : row.bucket = bucket})
               = Cardinality(Late(today, bucket))
  <2>1. {row \in BacklogRows(today) : row.bucket = bucket}
          = {BacklogRow(today, j) : j \in Late(today, bucket)}
    BY <1>1 DEF BacklogRow, Late
  <2>2. Late(today, bucket) \subseteq Overdue(today)
    BY DEF Late
  <2>3. QED
    BY <1>2, <2>1, <2>2
<1>5. ASSUME NEW row \in BacklogRows(today)
      PROVE  row.job \in Overdue(today) /\ row.due \in Int /\ row.bucket \in BucketNames
  <2>1. PICK j \in Overdue(today) : row = BacklogRow(today, j)
    BY <1>1
  <2>2. QED
    BY <2>1, OverdueIsFinite DEF BacklogRow, BucketOf, BucketNames
<1>6. QED
  BY <1>3, <1>4, <1>5

(* The rows of the costs, and their totals. *)
LEMMA CostsAreCounted ==
  ASSUME JobsInv, NEW starts, NEW ends
  PROVE  /\ IsFiniteSet(CostRows(starts, ends))
         /\ \A r \in CostRows(starts, ends) :
              r.total \in Nat /\ r.machine \in Fleet /\ r.month \in Int
<1> DEFINE costed == {j \in ClosedIn(starts, ends) : job[j].cost # None}
           month(j) == LocalDay(job[j].finished) \div MonthDays
           like(j) == {k \in Of(MachineOf[j], costed) : month(k) = month(j)}
           total(js) == SumFunctionOnSet([j \in js |-> job[j].cost], js)
           row == [j \in costed |-> [machine |-> MachineOf[j], month |-> month(j),
                                     total |-> total(like(j))]]
           rows == CostRows(starts, ends)
<1>1. costed \subseteq Jobs /\ \A j \in costed : job[j].finished # None /\ job[j].cost # None
  BY DEF ClosedIn
<1>2. rows = {row[j] : j \in costed}
  BY DEF CostRows
<1>3. IsFiniteSet(costed)
  BY <1>1, FS_Subset, IndicatorsAssumption
<1>4. IsFiniteSet(rows)
  <2> HIDE DEF row, costed, rows
  <2>1. row \in [costed -> rows]
    BY <1>2 DEF row
  <2>2. row \in Surjection(costed, rows)
    BY <1>2, <2>1 DEF Surjection
  <2>3. QED
    BY <1>3, <2>2, FS_Surjection
<1>5. ASSUME NEW js, js \subseteq costed PROVE total(js) \in Nat
  <2> DEFINE f == [j \in js |-> job[j].cost]
  <2>1. IsFiniteSet(js)
    BY <1>3, <1>5, FS_Subset
  <2>2. f \in [js -> Nat]
    <3>1. \A j \in js : job[j].cost \in Nat
      BY <1>1, <1>5, JobTypes
    <3>2. QED
      BY <3>1
  <2> HIDE DEF f
  <2>3. SumFunctionOnSet(f, js) \in Nat
    BY <2>1, <2>2, SumRemoves
  <2>4. QED
    BY <2>3 DEF f
<1>6. ASSUME NEW j \in costed PROVE month(j) \in Int
  <2>1. job[j].finished \in Nat
    BY <1>1, JobTypes
  <2>2. LocalDay(job[j].finished) \in Int
    BY <2>1, DayHasTicks, IndicatorsAssumption DEF LocalDay
  <2>3. QED
    BY <2>2, DayHasTicks, IndicatorsAssumption
<1>7. \A j \in costed : like(j) \subseteq costed
  BY DEF Of
<1> HIDE DEF costed, month, like, total, rows
<1>8. ASSUME NEW r \in rows PROVE r.total \in Nat /\ r.machine \in Fleet /\ r.month \in Int
  <2>1. PICK j \in costed : r = row[j]
    BY <1>2
  <2>2. r.total = total(like(j)) /\ r.machine = MachineOf[j] /\ r.month = month(j)
    BY <2>1
  <2>3. MachineOf[j] \in Fleet
    BY <1>1, IndicatorsAssumption
  <2>4. QED
    BY <1>5, <1>6, <1>7, <2>2, <2>3
<1>9. QED
  BY <1>4, <1>8 DEF rows

(* The rows that are shown cost no more than all of them. *)
LEMMA PartOfTheCosts ==
  ASSUME NEW all, IsFiniteSet(all), \A r \in all : r.total \in Nat, NEW rows \in SUBSET all
  PROVE  TotalOf(rows) <= TotalOf(all) /\ TotalOf(all) \in Nat /\ TotalOf(rows) \in Nat
<1> DEFINE f == [r \in all |-> r.total]
           h == [r \in rows |-> r.total]
<1>1. f \in [all -> Nat] /\ IsFiniteSet(rows) /\ \A r \in rows : h[r] = f[r]
  BY FS_Subset
<1>2. TotalOf(rows) = SumFunctionOnSet(h, rows) /\ TotalOf(all) = SumFunctionOnSet(f, all)
  BY DEF TotalOf
<1> HIDE DEF f, h
<1>3. SumFunctionOnSet(h, rows) = SumFunctionOnSet(f, rows)
  BY <1>1, SumRestricts
<1>4. QED
  BY <1>1, <1>2, <1>3, SumGrows, SumRemoves

(***************************************************************************)
(* The orders.                                                             *)
(***************************************************************************)

(* How a step may change one order: what is closed stays closed, what a finished *)
(* one says of its work stays, and its stamp is written once, at the present time *)
(* or a tick before it.                                                           *)
Follows(old, new) ==
  /\ old.status \notin OpenStatuses \cup {"none"} => new.status \notin OpenStatuses \cup {"none"}
  /\ old.status = "cancelada" => new.status = "cancelada"
  /\ old.finished # None =>
       /\ new.finished = old.finished /\ new.started = old.started
       /\ new.downtime = old.downtime /\ new.cost = old.cost
  /\ old.finished = None => new.finished = None \/ new.finished >= clock - 1

JobStep ==
  /\ clock' = clock
  /\ job' \in [Jobs -> JobRows]
  /\ \A j \in Jobs : /\ job'[j].due \in DuesOf[j] \cup {None}
                     /\ Fits(job'[j], clock)
                     /\ Follows(job[j], job'[j])
  /\ offFleet' \subseteq Fleet

LEMMA SameFollows ==
  ASSUME JobsInv
  PROVE  \A j \in Jobs : Follows(job[j], job[j])
BY JobTypes DEF Follows

LEMMA ChangeIsAStep ==
  ASSUME JobsInv, NEW j \in Jobs, NEW row \in JobRows, Change(j, row),
         row.due \in DuesOf[j] \cup {None}, Fits(row, clock), Follows(job[j], row)
  PROVE  JobStep
<1>1. /\ job' = [job EXCEPT ![j] = row] /\ clock' = clock /\ offFleet' = offFleet
      /\ job \in [Jobs -> JobRows] /\ offFleet \subseteq Fleet
  BY DEF Change, JobsInv
<1>2. job' \in [Jobs -> JobRows] /\ \A k \in Jobs : job'[k] = IF k = j THEN row ELSE job[k]
  BY <1>1
<1>3. ASSUME NEW k \in Jobs
      PROVE  /\ job'[k].due \in DuesOf[k] \cup {None}
             /\ Fits(job'[k], clock) /\ Follows(job[k], job'[k])
  <2>1. CASE k = j
    BY <1>2, <2>1
  <2>2. CASE k # j
    BY <1>2, <2>2, SameFollows DEF JobsInv
  <2>3. QED
    BY <2>1, <2>2
<1>4. QED
  BY <1>1, <1>2, <1>3 DEF JobStep

LEMMA JobActions ==
  ASSUME JobsInv, NEW j \in Jobs,
         OpenJob(j) \/ StartJob(j) \/ FinishJob(j) \/ VerifyJob(j) \/ CancelJob(j)
  PROVE  JobStep
<1> DEFINE old == job[j]
<1>1. /\ old \in JobRows /\ old.due \in DuesOf[j] \cup {None} /\ Fits(old, clock) /\ clock \in Nat
      /\ DuesOf[j] \subseteq Int \cup {None}
  BY JobTypes, IndicatorsAssumption DEF JobsInv
<1> USE DEF Statuses, OpenStatuses, DoneStatuses
<1>2. CASE OpenJob(j)
  <2>1. PICK due \in DuesOf[j] : Change(j, [NoJob EXCEPT !.status = "abierta", !.due = due])
    BY <1>2 DEF OpenJob
  <2> DEFINE row == [NoJob EXCEPT !.status = "abierta", !.due = due]
  <2>2. /\ row \in JobRows /\ row.status = "abierta" /\ row.due = due
        /\ row.started = None /\ row.finished = None
    BY <1>1 DEF NoJob, JobRows
  <2>3. old.status = "none"
    BY <1>2 DEF OpenJob
  <2> HIDE DEF row
  <2>4. Fits(row, clock) /\ Follows(old, row)
    BY <1>1, <2>2, <2>3 DEF Fits, Follows
  <2>5. QED
    BY <2>1, <2>2, <2>4, ChangeIsAStep DEF row
<1>3. CASE StartJob(j)
  <2> DEFINE row == [old EXCEPT !.status = "en_progreso", !.started = clock]
  <2>1. old.status = "abierta" /\ Change(j, row)
    BY <1>3 DEF StartJob
  <2>2. /\ row \in JobRows /\ row.status = "en_progreso" /\ row.due = old.due
        /\ row.started = clock /\ row.finished = old.finished
    BY <1>1 DEF JobRows
  <2> HIDE DEF row, old
  <2>3. clock # None
    BY <1>1, IndicatorsAssumption
  <2>4. Fits(row, clock) /\ Follows(old, row)
    BY <1>1, <2>1, <2>2, <2>3 DEF Fits, Follows
  <2>5. QED
    BY <1>1, <2>1, <2>2, <2>4, ChangeIsAStep DEF old
<1>4. CASE FinishJob(j)
  <2>1. PICK t \in Stamps(j), d \in Downtimes, c \in Costs :
          Change(j, [old EXCEPT !.status = "terminada", !.finished = t,
                                !.downtime = d, !.cost = c])
    BY <1>4 DEF FinishJob
  <2> DEFINE row == [old EXCEPT !.status = "terminada", !.finished = t,
                                !.downtime = d, !.cost = c]
  <2>2. old.status = "en_progreso"
    BY <1>4 DEF FinishJob, MayFinish
  <2>3. old.started \in Nat /\ old.finished = None
    BY <1>1, <2>2 DEF Fits, JobRows
  <2>4. t \in Nat /\ t >= old.started /\ t >= clock - 1 /\ t <= clock /\ t # None
    BY <1>1, <2>3, IndicatorsAssumption DEF Stamps
  <2>5. d \in Nat /\ c \in Nat \cup {None}
    BY IndicatorsAssumption
  <2>6. /\ row \in JobRows /\ row.status = "terminada" /\ row.due = old.due
        /\ row.started = old.started /\ row.finished = t
    BY <1>1, <2>4, <2>5 DEF JobRows
  <2> HIDE DEF row, old
  <2>7. Fits(row, clock) /\ Follows(old, row)
    BY <1>1, <2>2, <2>3, <2>4, <2>6 DEF Fits, Follows
  <2>8. QED
    BY <1>1, <2>1, <2>6, <2>7, ChangeIsAStep DEF row, old
<1>5. CASE VerifyJob(j)
  <2> DEFINE row == [old EXCEPT !.status = "verificada"]
  <2>1. old.status = "terminada" /\ Change(j, row)
    BY <1>5 DEF VerifyJob
  <2>2. /\ row \in JobRows /\ row.status = "verificada" /\ row.due = old.due
        /\ row.started = old.started /\ row.finished = old.finished
        /\ row.downtime = old.downtime /\ row.cost = old.cost
    BY <1>1 DEF JobRows
  <2> HIDE DEF row, old
  <2>3. Fits(row, clock) /\ Follows(old, row)
    BY <1>1, <2>1, <2>2 DEF Fits, Follows
  <2>4. QED
    BY <1>1, <2>1, <2>2, <2>3, ChangeIsAStep DEF old
<1>6. CASE CancelJob(j)
  <2> DEFINE row == [old EXCEPT !.status = "cancelada"]
  <2>1. old.status \in {"abierta", "en_progreso", "terminada"} /\ Change(j, row)
    BY <1>6 DEF CancelJob
  <2>2. /\ row \in JobRows /\ row.status = "cancelada" /\ row.due = old.due
        /\ row.started = old.started /\ row.finished = old.finished
        /\ row.downtime = old.downtime /\ row.cost = old.cost
    BY <1>1 DEF JobRows
  <2> HIDE DEF row, old
  <2>3. Fits(row, clock) /\ Follows(old, row)
    BY <1>1, <2>1, <2>2 DEF Fits, Follows
  <2>4. QED
    BY <1>1, <2>1, <2>2, <2>3, ChangeIsAStep DEF old
<1>7. QED
  BY <1>2, <1>3, <1>4, <1>5, <1>6

LEMMA StillIsAStep ==
  ASSUME JobsInv, UNCHANGED <<clock, job>>, offFleet' \subseteq Fleet
  PROVE  JobStep
BY SameFollows DEF JobStep, JobsInv

LEMMA StepKeepsJobs ==
  ASSUME JobsInv, JobStep
  PROVE  JobsInv'
BY DEF JobsInv, JobStep, Fits

LEMMA TickKeepsJobs ==
  ASSUME JobsInv, Tick
  PROVE  JobsInv'
<1>1. /\ clock' = clock + 1 /\ clock' \in 0 .. LastTick /\ job' = job /\ offFleet' = offFleet
      /\ clock \in Nat
  BY IndicatorsAssumption DEF Tick, JobsInv
<1>2. ASSUME NEW j \in Jobs PROVE Fits(job[j], clock')
  BY <1>1, JobTypes DEF Fits
<1>3. QED
  BY <1>1, <1>2 DEF JobsInv, Fits

(***************************************************************************)
(* The dashboard.                                                          *)
(***************************************************************************)

(* For each machine in service, a value. *)
Tables(S) == UNION {[ms -> S] : ms \in SUBSET Fleet}

Boards ==
  [at : {"idle", "mtbf", "mttr", "compliance", "availability", "buckets", "rows", "cost", "page"},
   key : Keys \cup {None}, asked : Nat, commits : Nat,
   uptime : Tables(Int), failures : Tables(SUBSET Jobs), repairs : SUBSET Jobs,
   onTime : SUBSET Jobs, available : Tables(Int),
   buckets : [{"total", "menos_7", "de_7_a_30", "mas_30"} -> Nat] \cup {<<>>},
   list : SUBSET [job : Jobs, due : Int, bucket : BucketNames],
   costs : SUBSET [machine : Fleet, month : Int, total : Nat], total : Nat]

(* What was answered, whatever was committed meanwhile. *)
BoardInv ==
  /\ board \in Boards
  /\ board.at # "idle" => board.key \in Keys /\ board.asked = clock
  /\ board.at \notin {"cost", "page"} => board.list = {}
  /\ \A j \in board.onTime : job[j].status \notin OpenStatuses \cup {"none"}
  /\ \A row \in board.list : row.job \notin board.onTime
  /\ \A m \in DOMAIN board.available : board.available[m] \in 0 .. board.asked - Starts
  /\ board.at \in {"rows", "cost", "page"} =>
       board.buckets.total =
         board.buckets.menos_7 + board.buckets.de_7_a_30 + board.buckets.mas_30
  /\ board.at = "page" => TotalOf(board.costs) <= board.total

UptimeNow == [m \in InService |-> Uptime(m, Starts, board.asked)]
FailuresNow == [m \in InService |-> Failures(m, Starts, board.asked)]

(* What the answers say of the present state and of each other while nothing was *)
(* committed.                                                                    *)
BoardAgrees ==
  board.commits = 0 =>
    /\ board.at \notin {"idle", "mtbf"} =>
         board.uptime = UptimeNow /\ board.failures = FailuresNow
    /\ board.at \in {"compliance", "availability", "buckets", "rows", "cost", "page"} =>
         \A m \in DOMAIN board.failures : board.failures[m] \subseteq board.repairs
    /\ board.at \in {"buckets", "rows", "cost", "page"} => board.available = board.uptime
    /\ board.at \in {"rows", "cost", "page"} => board.buckets = Buckets(LocalDay(board.asked))
    /\ board.at \in {"cost", "page"} =>
         (Cardinality(board.list) < TopN =>
            \A b \in BucketNames :
              board.buckets[b] = Cardinality({row \in board.list : row.bucket = b}))

IndicatorsInv == JobsInv /\ BoardInv /\ BoardAgrees

LEMMA NoBoardFits ==
  /\ NoBoard \in Boards
  /\ DOMAIN NoBoard.available = {}
<1>1. <<>> \in Tables(Int) /\ <<>> \in Tables(SUBSET Jobs) /\ DOMAIN <<>> = {}
  <2>1. DOMAIN <<>> = {} /\ <<>> = [x \in {} |-> 0]
    OBVIOUS
  <2>2. \A S : <<>> \in [{} -> S]
    BY <2>1
  <2>3. {} \in SUBSET Fleet
    OBVIOUS
  <2>4. QED
    BY <2>1, <2>2, <2>3 DEF Tables
<1>2. QED
  BY <1>1 DEF NoBoard, Boards

LEMMA IndicatorsInitInv == IndicatorsInit => IndicatorsInv
<1> SUFFICES ASSUME IndicatorsInit PROVE IndicatorsInv
  OBVIOUS
<1>1. NoJob \in JobRows /\ Fits(NoJob, 0) /\ NoJob.due = None
  BY IndicatorsAssumption DEF NoJob, JobRows, Fits, Statuses, DoneStatuses
<1>2. JobsInv
  BY <1>1, IndicatorsAssumption DEF IndicatorsInit, JobsInv
<1>3. /\ board \in Boards /\ board.at = "idle" /\ board.list = {} /\ board.onTime = {}
      /\ DOMAIN board.available = {}
  BY NoBoardFits DEF IndicatorsInit, NoBoard
<1>4. QED
  BY <1>2, <1>3 DEF IndicatorsInv, BoardInv, BoardAgrees

LEMMA CommitKeepsBoard ==
  ASSUME IndicatorsInv, JobStep, Commit
  PROVE  BoardInv' /\ BoardAgrees'
<1>1. board \in Boards /\ clock' = clock
  BY DEF IndicatorsInv, BoardInv, JobStep
<1>2. \A j \in Jobs : job[j].status \notin OpenStatuses \cup {"none"}
                        => job'[j].status \notin OpenStatuses \cup {"none"}
  BY DEF JobStep, Follows
<1>3. board.onTime \subseteq Jobs
  BY <1>1 DEF Boards
<1>4. \A j \in board.onTime : job'[j].status \notin OpenStatuses \cup {"none"}
  BY <1>2, <1>3 DEF IndicatorsInv, BoardInv
<1>5. CASE board.at = "idle" /\ board' = board
  <2>1. BoardInv'
    BY <1>1, <1>4, <1>5 DEF IndicatorsInv, BoardInv, Starts
  <2>2. QED
    BY <1>5, <2>1 DEF BoardAgrees
<1>6. CASE board.at # "idle" /\ board' = [board EXCEPT !.commits = @ + 1]
  <2>1. /\ board' \in Boards /\ board'.commits # 0
        /\ board'.at = board.at /\ board'.key = board.key /\ board'.asked = board.asked
        /\ board'.onTime = board.onTime /\ board'.list = board.list
        /\ board'.available = board.available /\ board'.buckets = board.buckets
        /\ board'.costs = board.costs /\ board'.total = board.total
    BY <1>1, <1>6 DEF Boards
  <2>2. Starts' = Starts /\ TotalOf(board.costs)' = TotalOf(board.costs)
    BY <2>1 DEF Starts, TotalOf
  <2>3. BoardInv'
    BY <1>1, <1>4, <2>1, <2>2 DEF IndicatorsInv, BoardInv
  <2>4. QED
    BY <2>1, <2>3 DEF BoardAgrees
<1>7. QED
  BY <1>5, <1>6 DEF Commit

(* An answer changes nothing that the queries read. *)
LEMMA QueriesStay ==
  ASSUME UNCHANGED <<clock, job, offFleet>>, board'.key = board.key, board'.asked = board.asked
  PROVE  /\ Starts' = Starts /\ UptimeNow' = UptimeNow /\ FailuresNow' = FailuresNow
         /\ Buckets(LocalDay(board.asked))' = Buckets(LocalDay(board.asked))
<1>1. Starts' = Starts
  BY DEF Starts
<1>2. UptimeNow' = UptimeNow
  BY <1>1 DEF UptimeNow, InService, Uptime, DowntimeOf, Of, ClosedIn
<1>3. FailuresNow' = FailuresNow
  BY <1>1 DEF FailuresNow, InService, Failures, Of, ClosedIn
<1>4. Buckets(LocalDay(board.asked))' = Buckets(LocalDay(board.asked))
  BY DEF Buckets, Overdue
<1>5. QED
  BY <1>1, <1>2, <1>3, <1>4

LEMMA PeriodOfBoard ==
  ASSUME IndicatorsInv, board.at # "idle"
  PROVE  /\ Starts \in Int /\ board.asked \in Nat /\ Starts <= board.asked
         /\ LocalDay(board.asked) \in Int
<1>1. board.key \in Keys /\ board.asked \in Nat
  BY DEF IndicatorsInv, BoardInv, Boards
<1>2. LocalDay(board.asked) \in Int
  BY <1>1, DayHasTicks, IndicatorsAssumption DEF LocalDay
<1>3. QED
  BY <1>1, <1>2, PeriodIsPast DEF Starts

LEMMA UptimeTable ==
  ASSUME IndicatorsInv, board.at # "idle"
  PROVE  /\ UptimeNow \in Tables(Int) /\ FailuresNow \in Tables(SUBSET Jobs)
         /\ \A m \in DOMAIN UptimeNow : UptimeNow[m] \in 0 .. board.asked - Starts
<1>1. ASSUME NEW m \in InService PROVE UptimeNow[m] \in 0 .. board.asked - Starts
  BY PeriodOfBoard, UptimeIsATime DEF IndicatorsInv, UptimeNow
<1>2. Starts \in Int /\ board.asked \in Int
  BY PeriodOfBoard
<1>3. UptimeNow \in [InService -> Int]
  BY <1>1, <1>2 DEF UptimeNow
<1>4. FailuresNow \in [InService -> SUBSET Jobs]
  BY DEF FailuresNow, Failures, Of, ClosedIn
<1>5. InService \in SUBSET Fleet
  BY DEF InService
<1>6. UptimeNow \in Tables(Int) /\ FailuresNow \in Tables(SUBSET Jobs)
  BY <1>3, <1>4, <1>5 DEF Tables
<1>7. DOMAIN UptimeNow = InService
  BY DEF UptimeNow
<1>8. QED
  BY <1>1, <1>6, <1>7

LEMMA AskPeriodKeeps ==
  ASSUME IndicatorsInv, AskPeriod
  PROVE  BoardInv' /\ BoardAgrees'
<1>1. PICK key \in Keys : Answer("idle", "mtbf", [NoBoard EXCEPT !.key = key, !.asked = clock])
  BY DEF AskPeriod, Keys
<1>2. clock \in Nat /\ clock' = clock
  BY <1>1, IndicatorsAssumption DEF Answer, IndicatorsInv, JobsInv
<1>3. /\ board' \in Boards /\ board'.at = "mtbf" /\ board'.key = key /\ board'.asked = clock
      /\ board'.onTime = {} /\ board'.list = {} /\ DOMAIN board'.available = {}
  BY <1>1, <1>2, NoBoardFits DEF Answer, NoBoard, Boards
<1>4. BoardInv'
  BY <1>2, <1>3 DEF BoardInv
<1>5. BoardAgrees'
  BY <1>3 DEF BoardAgrees
<1>6. QED
  BY <1>4, <1>5

LEMMA AskMtbfKeeps ==
  ASSUME IndicatorsInv, AskMtbf
  PROVE  BoardInv' /\ BoardAgrees'
<1>1. Answer("mtbf", "mttr", [board EXCEPT !.uptime = UptimeNow, !.failures = FailuresNow])
  BY DEF AskMtbf, UptimeNow, FailuresNow
<1>2. board \in Boards /\ UptimeNow \in Tables(Int) /\ FailuresNow \in Tables(SUBSET Jobs)
        /\ board.at = "mtbf"
  BY <1>1, UptimeTable DEF Answer, IndicatorsInv, BoardInv
<1>3. /\ board' \in Boards /\ board'.at = "mttr"
      /\ board'.key = board.key /\ board'.asked = board.asked /\ board'.commits = board.commits
      /\ board'.uptime = UptimeNow /\ board'.failures = FailuresNow
      /\ board'.onTime = board.onTime /\ board'.available = board.available
      /\ board'.list = board.list /\ UNCHANGED <<clock, job, offFleet>>
  BY <1>1, <1>2 DEF Answer, Boards
<1>4. Starts' = Starts /\ UptimeNow' = UptimeNow /\ FailuresNow' = FailuresNow
  BY <1>3, QueriesStay
<1>5. BoardInv'
  BY <1>2, <1>3, <1>4 DEF IndicatorsInv, BoardInv
<1>6. BoardAgrees'
  BY <1>3, <1>4 DEF BoardAgrees
<1>7. QED
  BY <1>5, <1>6

LEMMA AskMttrKeeps ==
  ASSUME IndicatorsInv, AskMttr
  PROVE  BoardInv' /\ BoardAgrees'
<1> DEFINE repairs == Repairs(Starts, board.asked)
<1>1. Answer("mttr", "compliance", [board EXCEPT !.repairs = repairs])
  BY DEF AskMttr
<1>2. repairs \subseteq Jobs /\ \A m \in InService : FailuresNow[m] \subseteq repairs
  BY FailuresAreRepairs DEF Repairs, ClosedIn, FailuresNow, IndicatorsInv
<1> HIDE DEF repairs
<1>3. board \in Boards /\ board.at = "mttr"
  BY <1>1 DEF Answer, IndicatorsInv, BoardInv
<1>4. /\ board' \in Boards /\ board'.at = "compliance"
      /\ board'.key = board.key /\ board'.asked = board.asked /\ board'.commits = board.commits
      /\ board'.uptime = board.uptime /\ board'.failures = board.failures
      /\ board'.onTime = board.onTime /\ board'.available = board.available
      /\ board'.list = board.list /\ UNCHANGED <<clock, job, offFleet>>
      /\ board'.repairs = repairs
  BY <1>1, <1>2, <1>3 DEF Answer, Boards
<1>5. Starts' = Starts /\ UptimeNow' = UptimeNow /\ FailuresNow' = FailuresNow
  BY <1>4, QueriesStay
<1>6. BoardInv'
  BY <1>3, <1>4, <1>5 DEF IndicatorsInv, BoardInv
<1>7. DOMAIN FailuresNow = InService
  BY DEF FailuresNow
<1>8. BoardAgrees'
  BY <1>2, <1>3, <1>4, <1>5, <1>7 DEF IndicatorsInv, BoardAgrees
<1>9. QED
  BY <1>6, <1>8

LEMMA AskComplianceKeeps ==
  ASSUME IndicatorsInv, AskCompliance
  PROVE  BoardInv' /\ BoardAgrees'
<1> DEFINE onTime == {j \in Scheduled(Starts, board.asked) : OnTime(j)}
<1>1. Answer("compliance", "availability", [board EXCEPT !.onTime = onTime])
  BY DEF AskCompliance
<1>2. onTime \subseteq Jobs /\ \A j \in onTime : job[j].status \notin OpenStatuses \cup {"none"}
  BY DEF Scheduled, OnTime, OpenStatuses, DoneStatuses
<1> HIDE DEF onTime
<1>3. board \in Boards /\ board.at = "compliance" /\ board.list = {}
  BY <1>1 DEF Answer, IndicatorsInv, BoardInv
<1>4. /\ board' \in Boards /\ board'.at = "availability"
      /\ board'.key = board.key /\ board'.asked = board.asked /\ board'.commits = board.commits
      /\ board'.uptime = board.uptime /\ board'.failures = board.failures
      /\ board'.onTime = onTime /\ board'.available = board.available
      /\ board'.list = {} /\ UNCHANGED <<clock, job, offFleet>>
      /\ board'.repairs = board.repairs
  BY <1>1, <1>2, <1>3 DEF Answer, Boards
<1>5. Starts' = Starts /\ UptimeNow' = UptimeNow /\ FailuresNow' = FailuresNow
  BY <1>4, QueriesStay
<1>6. BoardInv'
  BY <1>2, <1>3, <1>4, <1>5 DEF IndicatorsInv, BoardInv
<1>7. BoardAgrees'
  BY <1>3, <1>4, <1>5 DEF IndicatorsInv, BoardAgrees
<1>8. QED
  BY <1>6, <1>7

LEMMA AskAvailabilityKeeps ==
  ASSUME IndicatorsInv, AskAvailability
  PROVE  BoardInv' /\ BoardAgrees'
<1>1. Answer("availability", "buckets", [board EXCEPT !.available = UptimeNow])
  BY DEF AskAvailability, UptimeNow
<1>2. /\ board \in Boards /\ board.at = "availability" /\ UptimeNow \in Tables(Int)
      /\ \A m \in DOMAIN UptimeNow : UptimeNow[m] \in 0 .. board.asked - Starts
  BY <1>1, UptimeTable DEF Answer, IndicatorsInv, BoardInv
<1>3. /\ board' \in Boards /\ board'.at = "buckets"
      /\ board'.key = board.key /\ board'.asked = board.asked /\ board'.commits = board.commits
      /\ board'.uptime = board.uptime /\ board'.failures = board.failures
      /\ board'.onTime = board.onTime /\ board'.available = UptimeNow
      /\ board'.list = board.list /\ UNCHANGED <<clock, job, offFleet>>
      /\ board'.repairs = board.repairs
  BY <1>1, <1>2 DEF Answer, Boards
<1>4. Starts' = Starts /\ UptimeNow' = UptimeNow /\ FailuresNow' = FailuresNow
  BY <1>3, QueriesStay
<1>5. BoardInv'
  BY <1>2, <1>3, <1>4 DEF IndicatorsInv, BoardInv
<1>6. BoardAgrees'
  BY <1>2, <1>3, <1>4 DEF IndicatorsInv, BoardAgrees
<1>7. QED
  BY <1>5, <1>6

LEMMA AskBucketsKeeps ==
  ASSUME IndicatorsInv, AskBuckets
  PROVE  BoardInv' /\ BoardAgrees'
<1> DEFINE counts == Buckets(LocalDay(board.asked))
<1>1. Answer("buckets", "rows", [board EXCEPT !.buckets = counts])
  BY DEF AskBuckets
<1>2. board \in Boards /\ board.at = "buckets"
  BY <1>1 DEF Answer, IndicatorsInv, BoardInv
<1>3. /\ counts.total = counts.menos_7 + counts.de_7_a_30 + counts.mas_30
      /\ counts \in [{"total", "menos_7", "de_7_a_30", "mas_30"} -> Nat]
  <2>1. LocalDay(board.asked) \in Int
    BY <1>2, PeriodOfBoard
  <2>2. /\ counts.total = counts.menos_7 + counts.de_7_a_30 + counts.mas_30
        /\ \A b \in BucketNames : counts[b] \in Nat
        /\ counts.total \in Nat
    BY <2>1, BucketsAdd DEF IndicatorsInv
  <2>3. counts = [b \in {"total", "menos_7", "de_7_a_30", "mas_30"} |-> counts[b]]
    BY DEF Buckets
  <2> HIDE DEF counts
  <2>4. QED
    BY <2>2, <2>3 DEF BucketNames
<1> HIDE DEF counts
<1>4. /\ board' \in Boards /\ board'.at = "rows"
      /\ board'.key = board.key /\ board'.asked = board.asked /\ board'.commits = board.commits
      /\ board'.uptime = board.uptime /\ board'.failures = board.failures
      /\ board'.onTime = board.onTime /\ board'.available = board.available
      /\ board'.list = board.list /\ UNCHANGED <<clock, job, offFleet>>
      /\ board'.repairs = board.repairs /\ board'.buckets = counts
  BY <1>1, <1>2, <1>3 DEF Answer, Boards
<1>5. Starts' = Starts /\ UptimeNow' = UptimeNow /\ FailuresNow' = FailuresNow
        /\ Buckets(LocalDay(board.asked))' = counts
  BY <1>4, QueriesStay DEF counts
<1>6. BoardInv'
  BY <1>2, <1>3, <1>4, <1>5 DEF IndicatorsInv, BoardInv
<1>7. BoardAgrees'
  BY <1>2, <1>4, <1>5 DEF IndicatorsInv, BoardAgrees
<1>8. QED
  BY <1>6, <1>7

LEMMA AskRowsKeeps ==
  ASSUME IndicatorsInv, AskRows
  PROVE  BoardInv' /\ BoardAgrees'
<1> DEFINE today == LocalDay(board.asked)
           late == BacklogRows(today)
<1>1. PICK list \in Top(TopN, late, [r \in late |-> -r.due]) :
        Answer("rows", "cost", [board EXCEPT !.list = list])
  BY DEF AskRows
<1>2. board \in Boards /\ board.at = "rows" /\ today \in Int /\ JobsInv
  BY <1>1, PeriodOfBoard DEF Answer, IndicatorsInv, BoardInv
<1>3. /\ list \subseteq late
      /\ Cardinality(list) = (IF Cardinality(late) < TopN THEN Cardinality(late) ELSE TopN)
  BY DEF Top
<1> HIDE DEF today, late
<1>4. /\ IsFiniteSet(late)
      /\ \A row \in late : /\ row.job \in Overdue(today) /\ row.due \in Int
                           /\ row.bucket \in BucketNames
  BY <1>2, RowsAreOrders DEF late
<1>5. Cardinality(list) < TopN => list = late
  <2>1. Cardinality(late) \in Nat /\ TopN \in Nat
    BY <1>4, FS_CardinalityType, IndicatorsAssumption
  <2>2. Cardinality(list) = Cardinality(late) => list = late
    BY <1>3, <1>4, FS_Subset
  <2>3. QED
    BY <1>3, <2>1, <2>2
<1>6. Cardinality(list) < TopN =>
        \A b \in BucketNames :
          Buckets(today)[b] = Cardinality({row \in list : row.bucket = b})
  <2>1. \A b \in BucketNames :
          Buckets(today)[b] = Cardinality({row \in late : row.bucket = b})
    BY <1>2, BucketsCount, RowsAreOrders DEF late
  <2>2. QED
    BY <1>5, <2>1
<1>7. \A row \in list : row.job \notin board.onTime
  <2>1. \A row \in list : row.job \in Overdue(today)
    BY <1>3, <1>4
  <2>2. \A j \in Overdue(today) : job[j].status \in OpenStatuses
    BY <1>2, OverdueIsFinite
  <2>3. QED
    BY <2>1, <2>2 DEF IndicatorsInv, BoardInv
<1>8. list \subseteq [job : Jobs, due : Int, bucket : BucketNames]
  <2>1. Overdue(today) \subseteq Jobs
    BY <1>2, OverdueIsFinite
  <2>2. \A row \in late : row = [job |-> row.job, due |-> row.due, bucket |-> row.bucket]
    BY DEF late, BacklogRows
  <2>3. QED
    BY <1>3, <1>4, <2>1, <2>2
<1>9. /\ board' \in Boards /\ board'.at = "cost"
      /\ board'.key = board.key /\ board'.asked = board.asked /\ board'.commits = board.commits
      /\ board'.uptime = board.uptime /\ board'.failures = board.failures
      /\ board'.onTime = board.onTime /\ board'.available = board.available
      /\ board'.list = list /\ UNCHANGED <<clock, job, offFleet>>
      /\ board'.repairs = board.repairs /\ board'.buckets = board.buckets
  BY <1>1, <1>2, <1>8 DEF Answer, Boards
<1>10. Starts' = Starts /\ UptimeNow' = UptimeNow /\ FailuresNow' = FailuresNow
         /\ Buckets(LocalDay(board.asked))' = Buckets(LocalDay(board.asked))
  BY <1>9, QueriesStay
<1>11. BoardInv'
  BY <1>2, <1>7, <1>9, <1>10 DEF IndicatorsInv, BoardInv
<1>12. BoardAgrees'
  BY <1>2, <1>6, <1>9, <1>10 DEF IndicatorsInv, BoardAgrees, today
<1>13. QED
  BY <1>11, <1>12

LEMMA AskCostKeeps ==
  ASSUME IndicatorsInv, AskCost
  PROVE  BoardInv' /\ BoardAgrees'
<1> DEFINE all == CostRows(Starts, board.asked)
           total == TotalOf(all)
<1>1. PICK rows \in Top(TopN, all, [r \in all |-> r.total]) :
        Answer("cost", "page", [board EXCEPT !.costs = rows, !.total = total])
  BY DEF AskCost
<1>2. board \in Boards /\ board.at = "cost" /\ JobsInv
  BY <1>1 DEF Answer, IndicatorsInv, BoardInv
<1>3. rows \in SUBSET all
  BY DEF Top
<1>4. /\ IsFiniteSet(all)
      /\ \A r \in all : r.total \in Nat /\ r.machine \in Fleet /\ r.month \in Int
  BY <1>2, CostsAreCounted
<1>5. \A r \in all : r = [machine |-> r.machine, month |-> r.month, total |-> r.total]
  <2>1. ASSUME NEW r \in all
        PROVE  \E m, d, n : r = [machine |-> m, month |-> d, total |-> n]
    BY DEF CostRows
  <2>2. QED
    BY <2>1
<1> HIDE DEF all
<1>6. TotalOf(rows) <= total /\ total \in Nat
  BY <1>3, <1>4, PartOfTheCosts
<1> HIDE DEF total
<1>7. rows \subseteq [machine : Fleet, month : Int, total : Nat]
  BY <1>3, <1>4, <1>5
<1>8. /\ board' \in Boards /\ board'.at = "page"
      /\ board'.key = board.key /\ board'.asked = board.asked /\ board'.commits = board.commits
      /\ board'.uptime = board.uptime /\ board'.failures = board.failures
      /\ board'.onTime = board.onTime /\ board'.available = board.available
      /\ board'.list = board.list /\ UNCHANGED <<clock, job, offFleet>>
      /\ board'.repairs = board.repairs /\ board'.buckets = board.buckets
      /\ board'.costs = rows /\ board'.total = total
  BY <1>1, <1>2, <1>6, <1>7 DEF Answer, Boards
<1>9. Starts' = Starts /\ UptimeNow' = UptimeNow /\ FailuresNow' = FailuresNow
        /\ Buckets(LocalDay(board.asked))' = Buckets(LocalDay(board.asked))
        /\ TotalOf(board.costs)' = TotalOf(rows)
  <2>1. TotalOf(board.costs)' = TotalOf(rows)
    BY <1>8 DEF TotalOf
  <2>2. QED
    BY <1>8, <2>1, QueriesStay
<1>10. BoardInv'
  BY <1>2, <1>6, <1>8, <1>9 DEF IndicatorsInv, BoardInv
<1>11. BoardAgrees'
  BY <1>2, <1>8, <1>9 DEF IndicatorsInv, BoardAgrees
<1>12. QED
  BY <1>10, <1>11

LEMMA ShowPageKeeps ==
  ASSUME IndicatorsInv, ShowPage
  PROVE  BoardInv' /\ BoardAgrees'
<1>1. /\ board' \in Boards /\ board'.at = "idle"
      /\ board'.onTime = {} /\ board'.list = {} /\ DOMAIN board'.available = {}
  BY NoBoardFits DEF ShowPage, Answer, NoBoard, Boards
<1>2. QED
  BY <1>1 DEF BoardInv, BoardAgrees

LEMMA IndicatorsStepInv == IndicatorsInv /\ [IndicatorsNext]_indicatorsVars => IndicatorsInv'
<1> SUFFICES ASSUME IndicatorsInv, [IndicatorsNext]_indicatorsVars PROVE IndicatorsInv'
  OBVIOUS
<1>1. JobsInv
  BY DEF IndicatorsInv
<1>2. CASE Tick
  <2>1. board' = board /\ board.at = "idle" /\ job' = job
    BY <1>2 DEF Tick
  <2>2. BoardInv'
    BY <2>1 DEF IndicatorsInv, BoardInv, Starts
  <2>3. BoardAgrees'
    BY <2>1 DEF BoardAgrees
  <2>4. QED
    BY <1>1, <1>2, <2>2, <2>3, TickKeepsJobs DEF IndicatorsInv
<1>3. ASSUME NEW j \in Jobs,
             OpenJob(j) \/ StartJob(j) \/ FinishJob(j) \/ VerifyJob(j) \/ CancelJob(j)
      PROVE  IndicatorsInv'
  <2>1. JobStep
    BY <1>1, <1>3, JobActions
  <2>2. Commit
    BY <1>3 DEF OpenJob, StartJob, FinishJob, VerifyJob, CancelJob, Change
  <2>3. QED
    BY <1>1, <2>1, <2>2, StepKeepsJobs, CommitKeepsBoard DEF IndicatorsInv
<1>4. ASSUME NEW m \in Fleet, TakeOff(m) PROVE IndicatorsInv'
  <2>1. UNCHANGED <<clock, job>> /\ offFleet' \subseteq Fleet /\ Commit
    BY <1>1, <1>4 DEF TakeOff, JobsInv
  <2>2. JobStep
    BY <1>1, <2>1, StillIsAStep
  <2>3. QED
    BY <1>1, <2>1, <2>2, StepKeepsJobs, CommitKeepsBoard DEF IndicatorsInv
<1>5. ASSUME UNCHANGED <<clock, job, offFleet>>, BoardInv' /\ BoardAgrees' PROVE IndicatorsInv'
  <2>1. JobsInv'
    BY <1>1, <1>5 DEF JobsInv
  <2>2. QED
    BY <1>5, <2>1 DEF IndicatorsInv
<1>6. CASE AskPeriod
  BY <1>5, <1>6, AskPeriodKeeps DEF AskPeriod, Answer
<1>7. CASE AskMtbf
  BY <1>5, <1>7, AskMtbfKeeps DEF AskMtbf, Answer
<1>8. CASE AskMttr
  BY <1>5, <1>8, AskMttrKeeps DEF AskMttr, Answer
<1>9. CASE AskCompliance
  BY <1>5, <1>9, AskComplianceKeeps DEF AskCompliance, Answer
<1>10. CASE AskAvailability
  BY <1>5, <1>10, AskAvailabilityKeeps DEF AskAvailability, Answer
<1>11. CASE AskBuckets
  BY <1>5, <1>11, AskBucketsKeeps DEF AskBuckets, Answer
<1>12. CASE AskRows
  BY <1>5, <1>12, AskRowsKeeps DEF AskRows, Answer
<1>13. CASE AskCost
  BY <1>5, <1>13, AskCostKeeps DEF AskCost, Answer
<1>14. CASE ShowPage
  BY <1>5, <1>14, ShowPageKeeps DEF ShowPage, Answer
<1>15. CASE UNCHANGED indicatorsVars
  <2>1. UNCHANGED <<clock, job, offFleet>> /\ board' = board
    BY <1>15 DEF indicatorsVars
  <2>2. Starts' = Starts /\ UptimeNow' = UptimeNow /\ FailuresNow' = FailuresNow
          /\ Buckets(LocalDay(board.asked))' = Buckets(LocalDay(board.asked))
    BY <2>1, QueriesStay
  <2>3. TotalOf(board.costs)' = TotalOf(board.costs)
    BY <2>1 DEF TotalOf
  <2>4. BoardInv' /\ BoardAgrees'
    BY <2>1, <2>2, <2>3 DEF IndicatorsInv, BoardInv, BoardAgrees
  <2>5. QED
    BY <1>5, <2>1, <2>4
<1>16. QED
  BY <1>2, <1>3, <1>4, <1>6, <1>7, <1>8, <1>9, <1>10, <1>11, <1>12, <1>13, <1>14, <1>15
     DEF IndicatorsNext

LEMMA IndicatorsInvariant == IndicatorsSpec => []IndicatorsInv
<1>1. IndicatorsInit => IndicatorsInv
  BY IndicatorsInitInv
<1>2. IndicatorsInv /\ [IndicatorsNext]_indicatorsVars => IndicatorsInv'
  BY IndicatorsStepInv
<1>3. QED
  BY <1>1, <1>2, PTL DEF IndicatorsSpec

(* The columns hold what they may, for any orders, machines and lengths of the day. *)
THEOREM IndicatorsTypesHold == IndicatorsSpec => []IndicatorsTypeOK
<1>1. IndicatorsInv => IndicatorsTypeOK
  BY FitsTypes DEF IndicatorsInv
<1>2. QED
  BY <1>1, IndicatorsInvariant, PTL

LEMMA ComplianceMeets == JobsInv => ComplianceMeetsBacklog
<1> SUFFICES ASSUME JobsInv, NEW key \in Keys, NEW j \in Scheduled(StartsAt(key, clock), clock),
                    job[j].due < LocalDay(clock)
             PROVE  /\ j \in Overdue(LocalDay(clock)) <=> job[j].finished = None
                    /\ OnTime(j) <=> /\ job[j].finished # None
                                     /\ job[j].finished < (job[j].due + 1) * DayTicks
  BY DEF ComplianceMeetsBacklog, Keys
<1>1. j \in Jobs /\ job[j].status \notin {"none", "cancelada"} /\ job[j].due # None
  BY DEF Scheduled
<1>2. /\ job[j].due \in Int /\ job[j].finished \in Nat \cup {None} /\ job[j].status \in Statuses
      /\ Fits(job[j], clock)
  BY <1>1, JobTypes
<1>3. /\ job[j].status \in OpenStatuses \/ job[j].status \in DoneStatuses
      /\ job[j].status \in OpenStatuses => job[j].finished = None
      /\ job[j].status \in DoneStatuses => job[j].finished # None
      /\ OpenStatuses \cap DoneStatuses = {}
  BY <1>1, <1>2 DEF Statuses, OpenStatuses, DoneStatuses, Fits
<1>4. j \in Overdue(LocalDay(clock)) <=> job[j].finished = None
  BY <1>1, <1>3 DEF Overdue
<1>5. job[j].finished # None =>
        (LocalDay(job[j].finished) <= job[j].due
           <=> job[j].finished < (job[j].due + 1) * DayTicks)
  <2>1. DayTicks \in Nat \ {0}
    BY IndicatorsAssumption
  <2>2. ASSUME NEW t \in Int, NEW d \in Int
        PROVE  LocalDay(t) <= d <=> t < (d + 1) * DayTicks
    BY <2>1, DayEnds DEF LocalDay
  <2>3. job[j].finished # None => job[j].finished \in Int
    BY <1>2
  <2>4. QED
    BY <1>2, <2>2, <2>3
<1>6. OnTime(j) <=> job[j].finished # None /\ LocalDay(job[j].finished) <= job[j].due
  BY <1>3 DEF OnTime
<1>7. OnTime(j) <=> /\ job[j].finished # None
                    /\ job[j].finished < (job[j].due + 1) * DayTicks
  BY <1>5, <1>6
<1>8. QED
  BY <1>4, <1>7

(* A preventive order that was due in the period is on time, closed late or in the backlog *)
(* of the day, whatever the lengths of day and month (SQL_PM_COMPLIANCE,                   *)
(* SQL_BACKLOG_BUCKETS).                                                                   *)
THEOREM ComplianceHolds == IndicatorsSpec => []ComplianceMeetsBacklog
<1>1. IndicatorsInv => ComplianceMeetsBacklog
  BY ComplianceMeets DEF IndicatorsInv
<1>2. QED
  BY <1>1, IndicatorsInvariant, PTL

LEMMA PageIsCoherent == IndicatorsInv => BoardIsCoherent
BY DEF IndicatorsInv, BoardInv, BoardAgrees, BoardIsCoherent, BucketNames

(* The page agrees with itself, for any orders, machines and changes that are committed *)
(* between its queries (dashboard).                                                     *)
THEOREM BoardHolds == IndicatorsSpec => []BoardIsCoherent
BY IndicatorsInvariant, PageIsCoherent, PTL

(* The downtime and the costs of the orders js, by the rows of a state. *)
DowntimeAt(js, rows) == SumFunctionOnSet([j \in js |-> rows[j].downtime], js)

CostsAt(js, rows) ==
  LET costed == {j \in js : rows[j].cost # None}
      month(j) == LocalDay(rows[j].finished) \div MonthDays
      cost(ks) == SumFunctionOnSet([j \in ks |-> rows[j].cost], ks)
  IN {[machine |-> MachineOf[j], month |-> month(j),
       total |-> cost({k \in Of(MachineOf[j], costed) : month(k) = month(j)})] : j \in costed}

(* Rows that say the same of their work are counted and summed to the same. *)
LEMMA SameWorkSameNumbers ==
  ASSUME NEW js, NEW old, NEW new,
         \A j \in js : /\ new[j].finished = old[j].finished
                       /\ new[j].downtime = old[j].downtime /\ new[j].cost = old[j].cost
  PROVE  /\ \A ks \in SUBSET js : DowntimeAt(ks, new) = DowntimeAt(ks, old)
         /\ CostsAt(js, new) = CostsAt(js, old)
<1> DEFINE costed(rows) == {j \in js : rows[j].cost # None}
           month(rows, j) == LocalDay(rows[j].finished) \div MonthDays
           cost(rows, ks) == SumFunctionOnSet([j \in ks |-> rows[j].cost], ks)
           like(rows, j) == {k \in Of(MachineOf[j], costed(rows)) : month(rows, k) = month(rows, j)}
           row(rows, j) == [machine |-> MachineOf[j], month |-> month(rows, j),
                            total |-> cost(rows, like(rows, j))]
<1>1. ASSUME NEW ks \in SUBSET js PROVE DowntimeAt(ks, new) = DowntimeAt(ks, old)
  <2>1. [j \in ks |-> new[j].downtime] = [j \in ks |-> old[j].downtime]
    OBVIOUS
  <2>2. QED
    BY <2>1 DEF DowntimeAt
<1>2. ASSUME NEW ks \in SUBSET js PROVE cost(new, ks) = cost(old, ks)
  <2>1. [j \in ks |-> new[j].cost] = [j \in ks |-> old[j].cost]
    OBVIOUS
  <2>2. QED
    BY <2>1
<1>3. costed(new) = costed(old)
  OBVIOUS
<1>4. \A j \in js : month(new, j) = month(old, j)
  OBVIOUS
<1>5. \A rows : costed(rows) \subseteq js
  OBVIOUS
<1>6. CostsAt(js, new) = {row(new, j) : j \in costed(new)}
  BY DEF CostsAt
<1>7. CostsAt(js, old) = {row(old, j) : j \in costed(old)}
  BY DEF CostsAt
<1> HIDE DEF costed, month, cost
<1>8. ASSUME NEW j \in costed(old) PROVE row(new, j) = row(old, j)
  <2>1. j \in js /\ Of(MachineOf[j], costed(old)) \subseteq js
    BY <1>5 DEF Of
  <2>2. like(new, j) = like(old, j) /\ like(old, j) \in SUBSET js
    BY <1>3, <1>4, <2>1
  <2> HIDE DEF like
  <2>3. QED
    BY <1>2, <1>4, <2>1, <2>2
<1> HIDE DEF row
<1>9. CostsAt(js, new) = CostsAt(js, old)
  BY <1>3, <1>6, <1>7, <1>8
<1>10. QED
  BY <1>1, <1>9

(* What stays in a closed period. *)
Kept(a, b) == {j \in ClosedIn(a, b) : job'[j].status # "cancelada"}

(* One step of PastIsSettled. *)
PastStep ==
  \A a, b \in 0 .. LastTick :
    b < clock =>
      /\ ClosedIn(a, b)' = Kept(a, b)
      /\ Repairs(a, b)' = Repairs(a, b) \cap Kept(a, b)
      /\ Kept(a, b) = ClosedIn(a, b) => CostRows(a, b)' = CostRows(a, b)
      /\ \A m \in InService \cap InService' :
           Of(m, Kept(a, b)) = Of(m, ClosedIn(a, b)) =>
             /\ Uptime(m, a, b)' = Uptime(m, a, b)
             /\ Failures(m, a, b)' = Failures(m, a, b)

LEMMA JobStepKeepsPast ==
  ASSUME JobsInv, JobStep
  PROVE  PastStep
<1> SUFFICES ASSUME NEW a \in 0 .. LastTick, NEW b \in 0 .. LastTick, b < clock
             PROVE  /\ ClosedIn(a, b)' = Kept(a, b)
                    /\ Repairs(a, b)' = Repairs(a, b) \cap Kept(a, b)
                    /\ Kept(a, b) = ClosedIn(a, b) => CostRows(a, b)' = CostRows(a, b)
                    /\ \A m \in InService \cap InService' :
                         Of(m, Kept(a, b)) = Of(m, ClosedIn(a, b)) =>
                           /\ Uptime(m, a, b)' = Uptime(m, a, b)
                           /\ Failures(m, a, b)' = Failures(m, a, b)
  BY DEF PastStep
<1>1. clock \in Int /\ a \in Int /\ b \in Int
  BY IndicatorsAssumption DEF JobsInv
<1>2. ASSUME NEW j \in Jobs
      PROVE  j \in ClosedIn(a, b)' <=> j \in ClosedIn(a, b) /\ job'[j].status # "cancelada"
  <2>1. /\ Follows(job[j], job'[j])
        /\ job[j].finished \in Nat \cup {None} /\ job'[j].finished \in Nat \cup {None}
    BY JobTypes DEF JobStep, JobRows
  <2>2. job[j].finished = None => job'[j].finished = None \/ ~ (job'[j].finished < b)
    BY <1>1, <2>1 DEF Follows
  <2>3. QED
    BY <2>1, <2>2 DEF Follows, ClosedIn
<1>3. ClosedIn(a, b)' = Kept(a, b) /\ Kept(a, b) \subseteq ClosedIn(a, b)
  BY <1>2 DEF ClosedIn, Kept
<1>4. \A j \in ClosedIn(a, b) :
        /\ job'[j].finished = job[j].finished /\ job'[j].started = job[j].started
        /\ job'[j].downtime = job[j].downtime /\ job'[j].cost = job[j].cost
  BY DEF ClosedIn, JobStep, Follows
<1>5. Repairs(a, b)' = Repairs(a, b) \cap Kept(a, b)
  BY <1>3, <1>4 DEF Repairs
<1>6. /\ \A ks \in SUBSET ClosedIn(a, b) : DowntimeAt(ks, job') = DowntimeAt(ks, job)
      /\ CostsAt(ClosedIn(a, b), job') = CostsAt(ClosedIn(a, b), job)
  BY <1>4, SameWorkSameNumbers
<1>7. ASSUME Kept(a, b) = ClosedIn(a, b) PROVE CostRows(a, b)' = CostRows(a, b)
  <2>1. CostRows(a, b) = CostsAt(ClosedIn(a, b), job)
    BY DEF CostRows, CostsAt
  <2>2. CostRows(a, b)' = CostsAt(ClosedIn(a, b)', job')
    BY DEF CostRows, CostsAt
  <2>3. QED
    BY <1>3, <1>6, <1>7, <2>1, <2>2
<1>8. ASSUME NEW m \in InService \cap InService', Of(m, Kept(a, b)) = Of(m, ClosedIn(a, b))
      PROVE  Uptime(m, a, b)' = Uptime(m, a, b) /\ Failures(m, a, b)' = Failures(m, a, b)
  <2> DEFINE js == Of(m, ClosedIn(a, b))
  <2>1. Of(m, ClosedIn(a, b)') = js /\ js \in SUBSET ClosedIn(a, b)
    BY <1>3, <1>8 DEF Of
  <2>2. Uptime(m, a, b) = Floored(b - a - DowntimeAt(js, job))
    BY DEF Uptime, DowntimeOf, DowntimeAt
  <2>3. Uptime(m, a, b)' = Floored(b - a - DowntimeAt(Of(m, ClosedIn(a, b)'), job'))
    BY DEF Uptime, DowntimeOf, DowntimeAt
  <2>4. DowntimeAt(js, job') = DowntimeAt(js, job)
    BY <1>6, <2>1
  <2>5. Failures(m, a, b)' = {j \in Of(m, ClosedIn(a, b)') : TypeOf[j] = "correctivo"}
    BY DEF Failures
  <2>6. QED
    BY <2>1, <2>2, <2>3, <2>4, <2>5 DEF Failures
<1>9. QED
  BY <1>3, <1>5, <1>7, <1>8

LEMMA StepKeepsPast == IndicatorsInv /\ [IndicatorsNext]_indicatorsVars => [PastStep]_indicatorsVars
<1> SUFFICES ASSUME IndicatorsInv, IndicatorsNext PROVE PastStep
  BY DEF indicatorsVars
<1>1. JobsInv
  BY DEF IndicatorsInv
<1>2. ASSUME job' = job PROVE PastStep
  <2>1. ASSUME NEW a, NEW b
        PROVE  /\ ClosedIn(a, b)' = ClosedIn(a, b) /\ Kept(a, b) = ClosedIn(a, b)
               /\ Repairs(a, b)' = Repairs(a, b) /\ CostRows(a, b)' = CostRows(a, b)
    BY <1>2 DEF ClosedIn, Kept, Repairs, CostRows
  <2>2. ASSUME NEW a, NEW b, NEW m
        PROVE  Uptime(m, a, b)' = Uptime(m, a, b) /\ Failures(m, a, b)' = Failures(m, a, b)
    BY <1>2 DEF ClosedIn, Uptime, DowntimeOf, Failures
  <2>3. ASSUME NEW a, NEW b PROVE Repairs(a, b) \subseteq Kept(a, b)
    BY <2>1 DEF Repairs
  <2>4. QED
    BY <2>1, <2>2, <2>3 DEF PastStep
<1>3. ASSUME NEW j \in Jobs,
             OpenJob(j) \/ StartJob(j) \/ FinishJob(j) \/ VerifyJob(j) \/ CancelJob(j)
      PROVE  PastStep
  BY <1>1, <1>3, JobActions, JobStepKeepsPast
<1>4. CASE Tick \/ \E m \in Fleet : TakeOff(m)
  BY <1>2, <1>4 DEF Tick, TakeOff
<1>5. CASE \/ AskPeriod \/ AskMtbf \/ AskMttr \/ AskCompliance \/ AskAvailability
           \/ AskBuckets \/ AskRows \/ AskCost \/ ShowPage
  <2>1. job' = job
    BY <1>5 DEF AskPeriod, AskMtbf, AskMttr, AskCompliance, AskAvailability, AskBuckets,
                AskRows, AskCost, ShowPage, Answer
  <2>2. QED
    BY <1>2, <2>1
<1>6. QED
  BY <1>3, <1>4, <1>5 DEF IndicatorsNext

(* Of a closed period an order is counted as it was entered, and only a cancellation   *)
(* takes it out; so MTTR and cost change only by cancelled orders, and MTBF and        *)
(* availability of a machine that stays in service only by its own.  A retirement      *)
(* removes the machine from these two, and its work still counts in MTTR and cost      *)
(* (complete, SQL_MTBF, SQL_MTTR, SQL_AVAILABILITY, SQL_COST_BY_ASSET_MONTH).          *)
THEOREM PastHolds == IndicatorsSpec => PastIsSettled
<1>1. IndicatorsSpec => [][PastStep]_indicatorsVars
  BY IndicatorsInvariant, StepKeepsPast, PTL DEF IndicatorsSpec
<1>2. QED
  BY <1>1 DEF PastIsSettled, PastStep, Kept
=============================================================================

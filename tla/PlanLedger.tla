----------------------------- MODULE PlanLedger -----------------------------
(***************************************************************************)
(* What the daily job promises, with no concurrency in it: a book of plans *)
(* and of the dates that have their order.  The job of one day is carried  *)
(* out for some plans of a company in one step; it makes what is missing   *)
(* up to its horizon, and nothing else.  Scheduler, where runs overlap,     *)
(* work on rows they loaded, and are killed, implements this module as      *)
(* long as nobody edits a plan's fields.                                    *)
(***************************************************************************)
EXTENDS Naturals

CONSTANTS
  Companies,
  Plans,
  CompanyOf,    \* [Plans -> Companies]
  EveryDays,    \* [Plans -> Nat \ {0}]
  Horizon,
  MaxDay,       \* bound: the last day
  LastDate,     \* date.max
  None          \* SQL NULL

Days  == 0 .. MaxDay
Dates == 0 .. LastDate

VARIABLES
  today,
  kind,         \* [Plans -> {"none", "calendar", "meter", "gone"}]
  due,          \* [Plans -> Dates \cup {None}]: the next date of a calendar plan
  copies        \* [Plans -> [Dates -> Nat]]: the order of a date, by its checklist copies

vars == <<today, kind, due, copies>>

Init ==
  /\ today = 0
  /\ kind = [p \in Plans |-> "none"]
  /\ due = [p \in Plans |-> None]
  /\ copies = [p \in Plans |-> [d \in Dates |-> 0]]

Schedule(p) ==
  /\ kind[p] = "none"
  /\ \/ /\ kind' = [kind EXCEPT ![p] = "calendar"]
        /\ \E d \in Days : due' = [due EXCEPT ![p] = d]
     \/ kind' = [kind EXCEPT ![p] = "meter"] /\ due' = due
  /\ UNCHANGED <<today, copies>>

\* Only a plan without orders can go.
Drop(p) ==
  /\ kind[p] \in {"calendar", "meter"}
  /\ \A d \in Dates : copies[p][d] = 0
  /\ kind' = [kind EXCEPT ![p] = "gone"]
  /\ due' = [due EXCEPT ![p] = None]
  /\ UNCHANGED <<today, copies>>

\* From a to b in whole intervals of the plan.
Leads(p, a, b) == a <= b /\ (b - a) % EveryDays[p] = 0

\* The orders there are once the job of `day` has been done with the plan: of every
\* date from the due date to the horizon; of the day itself for a crossing.
Served(p, day) ==
  IF kind[p] = "calendar" THEN {d \in Dates : Leads(p, due[p], d) /\ d <= day + Horizon}
  ELSE {day}

\* d is the plan's first date after the horizon.  A late job of an earlier day can
\* come to a date before the due date, if all dates between have their orders.
Follows(p, day, d) ==
  /\ d > day + Horizon /\ d <= day + Horizon + EveryDays[p]
  /\ \/ Leads(p, due[p], d)
     \/ /\ Leads(p, d, due[p])
        /\ \A x \in Dates : Leads(p, d, x) /\ x < due[p] => copies[p][x] = 1

\* The job of a day that has come, for the plans of c that it works on.
Serve(c) ==
  \E day \in 0 .. today, works \in SUBSET {p \in Plans : CompanyOf[p] = c},
     next \in [Plans -> Dates] :
    /\ \A p \in works : kind[p] = "meter" \/ (kind[p] = "calendar" /\ Follows(p, day, next[p]))
    /\ due' = [p \in Plans |-> IF p \in works /\ kind[p] = "calendar" THEN next[p] ELSE due[p]]
    /\ copies' = [p \in Plans |-> [d \in Dates |->
                    IF p \in works /\ d \in Served(p, day) THEN 1 ELSE copies[p][d]]]
    /\ UNCHANGED <<today, kind>>

NextDay ==
  /\ today' = today + 1
  /\ UNCHANGED <<kind, due, copies>>

Next ==
  \/ \E p \in Plans : Schedule(p) \/ Drop(p)
  \/ \E c \in Companies : Serve(c)
  \/ NextDay

Spec == Init /\ [][Next]_vars
=============================================================================

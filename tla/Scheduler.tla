------------------------------ MODULE Scheduler ------------------------------
(***************************************************************************)
(* Maintenance plans and the daily job (apps/maintenance).  A runner is one *)
(* execution of the command generate_work_orders: it takes the companies   *)
(* one after the other, and each company's plans in one transaction.  It   *)
(* works on the plan objects it loaded at the beginning of that            *)
(* transaction; runs can overlap, be killed and be repeated.               *)
(*                                                                         *)
(* Editors are web workers that change or delete a plan: they load the     *)
(* row, and save it in a later statement.                                  *)
(*                                                                         *)
(* Of PostgreSQL the model takes: READ COMMITTED; an UPDATE holds its row  *)
(* to the end of the transaction and waits for one that does; an INSERT    *)
(* waits for an uncommitted row with the same unique key, and fails once   *)
(* that row is committed (get_or_create then returns it).                  *)
(***************************************************************************)
EXTENDS Naturals

CONSTANTS
  Companies,    \* primary keys of the active companies
  Plans,        \* primary keys of maintenance_maintenanceplan
  Assets,
  CompanyOf,    \* [Plans -> Companies]
  AssetOf,      \* [Plans -> Assets]
  EveryDays,    \* [Plans -> Nat \ {0}]: interval_days
  EveryHours,   \* [Plans -> Nat \ {0}]: meter_interval_hours
  Runners,      \* executions of the command that may overlap
  Editors,      \* web workers that edit plans
  MaxDay,       \* bound: the last day on which the command is run
  MaxHours,     \* bound: hour-meter readings are 0 .. MaxHours
  LastDate,     \* date.max, as a number of days
  Horizon,      \* --horizon
  CrashFree,    \* bound: from this day on no run is killed
  Operations,   \* which entry points the environment uses
  None          \* SQL NULL

Days  == 0 .. MaxDay
Dates == 0 .. LastDate
Hours == 0 .. MaxHours

AllOperations == {"create", "update", "toggle", "delete", "reading", "retire",
                  "midnight"}

ASSUME SchedulerAssumption ==
  /\ Companies \subseteq Nat /\ Plans \subseteq Nat
  /\ CompanyOf \in [Plans -> Companies]
  /\ AssetOf \in [Plans -> Assets]
  /\ EveryDays \in [Plans -> Nat \ {0}]
  /\ EveryHours \in [Plans -> Nat \ {0}]
  /\ MaxDay \in Nat /\ MaxHours \in Nat /\ LastDate \in Nat /\ Horizon \in Nat
  /\ CrashFree \in Nat
  /\ MaxDay + Horizon <= LastDate
  /\ Operations \subseteq AllOperations
  /\ None \notin Nat
  /\ None \notin Runners

VARIABLES
  today,
  plan,         \* [Plans -> PlanRows]: committed rows
  order,        \* [Plans -> [Dates -> OrderRows]]: committed orders by unique key
  hours,        \* [Assets -> Hours \cup {None}]: the highest reading
  retired,      \* assets «dado de baja»
  planLock,     \* [Plans -> Runners \cup {None}]: who updated the row, uncommitted
  at,           \* [Runners -> Points]
  run,          \* [Runners -> Runs]: what a run holds in memory
  edit          \* [Editors -> Edits]

env  == <<today, hours, retired>>
vars == <<today, plan, order, hours, retired, planLock, at, run, edit>>

PlanRows == [state : {"new", "live", "gone"}, calendar : BOOLEAN, active : BOOLEAN,
             due : Dates \cup {None}, base : Hours]

NoPlan == [state |-> "new", calendar |-> FALSE, active |-> FALSE, due |-> None, base |-> 0]

\* «copies»: how often a checklist was copied onto the order, 0 while there is no
\* order; «acted»: the meter reading it was created for.
OrderRows == [copies : Nat, acted : Hours \cup {None}]

NoOrder == [copies |-> 0, acted |-> None]

Points == {"idle", "company", "plan", "meter", "save"}

NewOrders == [plan : Plans, due : Dates, acted : Hours \cup {None}]

Runs == [day : Days, left : SUBSET Companies, todo : SUBSET Plans,
         seen : [Plans -> PlanRows], moved : BOOLEAN, new : SUBSET NewOrders]

NothingSeen == [p \in Plans |-> NoPlan]

NoRun == [day |-> 0, left |-> {}, todo |-> {}, seen |-> NothingSeen,
          moved |-> FALSE, new |-> {}]

Edits == [op : {"none", "update", "toggle", "delete"}, plan : Plans \cup {None},
          row : PlanRows]

NoEdit == [op |-> "none", plan |-> None, row |-> NoPlan]

Init ==
  /\ today = 0
  /\ plan = NothingSeen
  /\ order = [p \in Plans |-> [d \in Dates |-> NoOrder]]
  /\ hours = [a \in Assets |-> None]
  /\ retired = {}
  /\ planLock = [p \in Plans |-> None]
  /\ at = [r \in Runners |-> "idle"]
  /\ run = [r \in Runners |-> NoRun]
  /\ edit = [e \in Editors |-> NoEdit]

Live(p) == plan[p].state = "live"

HasOrder(p, d) == order[p][d].copies > 0

\* PROTECT on WorkOrder.plan.
Protected(p) == \E d \in Dates : HasOrder(p, d)

\* order_by("pk")
Least(S) == CHOOSE x \in S : \A y \in S : x <= y

\* Mutant: a machine without readings has no hours at all.
LatestOrNone(p) == hours[AssetOf[p]]

\* latest_reading_hours(asset) or 0
LatestOrZero(p) == IF hours[AssetOf[p]] = None THEN 0 ELSE hours[AssetOf[p]]

-----------------------------------------------------------------------------
(* The daily job. *)

\* generate_work_orders: the date is asked once, before the first company.
StartRun(r) ==
  /\ at[r] = "idle"
  /\ at' = [at EXCEPT ![r] = "company"]
  /\ run' = [run EXCEPT ![r] = [NoRun EXCEPT !.day = today, !.left = Companies]]
  /\ UNCHANGED <<env, plan, order, planLock, edit>>

\* An exception or a killed process: the company's transaction is rolled back and
\* the companies after it are not visited.
EndRun(r) ==
  /\ at' = [at EXCEPT ![r] = "idle"]
  /\ run' = [run EXCEPT ![r] = NoRun]
  /\ planLock' = [p \in Plans |-> IF planLock[p] = r THEN None ELSE planLock[p]]
  /\ UNCHANGED <<env, plan, order, edit>>

\* _schedulable_plans: active plans of machines in service.
Schedulable(c) ==
  {p \in Plans : /\ CompanyOf[p] = c
                 /\ Live(p)
                 /\ plan[p].active
                 /\ AssetOf[p] \notin retired}

\* generate_for_company opens the next company's transaction and loads its plans.
OpenCompany(r) ==
  /\ at[r] = "company"
  /\ run[r].left # {}
  /\ LET todo == Schedulable(Least(run[r].left)) IN
     run' = [run EXCEPT ![r].todo = todo,
                        ![r].seen = [p \in Plans |-> IF p \in todo THEN plan[p] ELSE NoPlan]]
  /\ at' = [at EXCEPT ![r] = "plan"]
  /\ UNCHANGED <<env, plan, order, planLock, edit>>

Current(r) == Least(run[r].todo)

\* The plan the loop stands at, as this run loaded (and advanced) it.
Row(r) == run[r].seen[Current(r)]

AtPlan(r) == at[r] = "plan" /\ run[r].todo # {}

\* Mutant: what is due today waits for tomorrow.
IsOverdue(r) == Row(r).calendar /\ Row(r).due < run[r].day + Horizon

\* The test of the loop in _generate_calendar.
IsDue(r) == Row(r).calendar /\ Row(r).due <= run[r].day + Horizon

\* The tests of _generate_meter.
Crossed(r) ==
  LET h == hours[AssetOf[Current(r)]] IN
  /\ ~Row(r).calendar
  /\ h # None
  /\ h >= Row(r).base + EveryHours[Current(r)]

\* Another run has inserted the same key and not committed: the INSERT waits.
Contended(r, p, d) ==
  \E o \in Runners \ {r} : \E n \in run[o].new : n.plan = p /\ n.due = d

\* Mutant: the checklist is copied without asking whether the row was created.
AlwaysCreated(r, p, d, h) == run[r].new \cup {[plan |-> p, due |-> d, acted |-> h]}

\* _create_work_order: get_or_create, and a checklist copy only for a new row.
GotOrCreated(r, p, d, h) ==
  IF HasOrder(p, d) THEN run[r].new
  ELSE run[r].new \cup {[plan |-> p, due |-> d, acted |-> h]}

\* add_months and timedelta leave the range of date.
Overflows(p, d) == d + EveryDays[p] > LastDate

\* Mutant: a late plan goes on from the day of the run.
Drifted(r, p) == run[r].day + EveryDays[p]

\* Mutant: an interval of zero.
NotAdvanced(r, p) == Row(r).due

\* advance_due_date, from the plan's own due date.
Advanced(r, p) == Row(r).due + EveryDays[p]

\* One round of _generate_calendar: the order of a due date, and the next one.
Occur(r) ==
  LET p == Current(r)
      d == Row(r).due IN
  /\ AtPlan(r)
  /\ IsDue(r)
  /\ ~Contended(r, p, d)
  /\ ~Overflows(p, d)
  /\ run' = [run EXCEPT ![r].new = GotOrCreated(r, p, d, None),
                        ![r].seen[p].due = Advanced(r, p),
                        ![r].moved = TRUE]
  /\ UNCHANGED <<env, plan, order, planLock, at, edit>>

\* OverflowError: nobody catches it.
OccurFails(r) ==
  /\ AtPlan(r)
  /\ IsDue(r)
  /\ ~Contended(r, Current(r), Row(r).due)
  /\ Overflows(Current(r), Row(r).due)
  /\ EndRun(r)

\* _generate_meter has read the highest reading and found a crossing.
Measure(r) ==
  /\ AtPlan(r)
  /\ Crossed(r)
  /\ run' = [run EXCEPT ![r].seen[Current(r)].base = hours[AssetOf[Current(r)]]]
  /\ at' = [at EXCEPT ![r] = "meter"]
  /\ UNCHANGED <<env, plan, order, planLock, edit>>

\* Its order is due on the day of the run.
MeterOrder(r) ==
  LET p == Current(r) IN
  /\ at[r] = "meter"
  /\ ~Contended(r, p, run[r].day)
  /\ run' = [run EXCEPT ![r].new = GotOrCreated(r, p, run[r].day, Row(r).base)]
  /\ at' = [at EXCEPT ![r] = "save"]
  /\ UNCHANGED <<env, plan, order, planLock, edit>>

\* Nothing to do for this plan.
SkipPlan(r) ==
  /\ AtPlan(r)
  /\ ~IsDue(r) /\ ~Crossed(r) /\ ~run[r].moved
  /\ run' = [run EXCEPT ![r].todo = @ \ {Current(r)}]
  /\ UNCHANGED <<env, plan, order, planLock, at, edit>>

\* plan.save(update_fields=...) is next, and gets the row.
Saves(r) ==
  /\ \/ at[r] = "save"
     \/ AtPlan(r) /\ ~IsDue(r) /\ run[r].moved
  /\ planLock[Current(r)] = None

SavePlan(r) ==
  LET p == Current(r) IN
  /\ Saves(r)
  /\ Live(p)
  /\ planLock' = [planLock EXCEPT ![p] = r]
  /\ run' = [run EXCEPT ![r].todo = @ \ {p}, ![r].moved = FALSE]
  /\ at' = [at EXCEPT ![r] = "plan"]
  /\ UNCHANGED <<env, plan, order, edit>>

\* The plan was deleted meanwhile: an UPDATE of no row raises DatabaseError.
SaveFails(r) ==
  /\ Saves(r)
  /\ ~Live(Current(r))
  /\ EndRun(r)

\* The one column the run saved: update_fields leaves the others as they are.
Saved(p, row) ==
  IF row.calendar THEN [plan[p] EXCEPT !.due = row.due]
                  ELSE [plan[p] EXCEPT !.base = row.base]

Inserted(p, d, new) ==
  LET rows == {n \in new : n.plan = p /\ n.due = d} IN
  IF rows = {} THEN order[p][d]
  ELSE [copies |-> order[p][d].copies + 1, acted |-> (CHOOSE n \in rows : TRUE).acted]

\* The company is done: orders, checklists and plans become visible at once.
CommitCompany(r) ==
  /\ at[r] = "plan"
  /\ run[r].todo = {}
  /\ plan' = [p \in Plans |-> IF planLock[p] = r THEN Saved(p, run[r].seen[p]) ELSE plan[p]]
  /\ order' = [p \in Plans |-> [d \in Dates |-> Inserted(p, d, run[r].new)]]
  /\ planLock' = [p \in Plans |-> IF planLock[p] = r THEN None ELSE planLock[p]]
  /\ run' = [run EXCEPT ![r] = [NoRun EXCEPT !.day = run[r].day,
                                             !.left = run[r].left \ {Least(run[r].left)}]]
  /\ at' = [at EXCEPT ![r] = "company"]
  /\ UNCHANGED <<env, edit>>

FinishRun(r) ==
  /\ at[r] = "company"
  /\ run[r].left = {}
  /\ EndRun(r)

Crash(r) ==
  /\ today < CrashFree
  /\ at[r] # "idle"
  /\ EndRun(r)

-----------------------------------------------------------------------------
(* The panel: plans, readings, machines. *)

\* plan_create: a meter plan starts from what the machine reads today.
CreatePlan(p) ==
  /\ "create" \in Operations
  /\ plan[p].state = "new"
  /\ \/ \E d \in Days : plan' = [plan EXCEPT ![p] =
          [state |-> "live", calendar |-> TRUE, active |-> TRUE, due |-> d, base |-> 0]]
     \/ plan' = [plan EXCEPT ![p] =
          [state |-> "live", calendar |-> FALSE, active |-> TRUE, due |-> None,
           base |-> LatestOrZero(p)]]
  /\ UNCHANGED <<env, order, planLock, at, run, edit>>

\* Editor e has loaded plan p, and will save `row` or delete it.
Loads(e, op, p, row) ==
  /\ edit[e] = NoEdit
  /\ Live(p)
  /\ edit' = [edit EXCEPT ![e] = [op |-> op, plan |-> p, row |-> row]]
  /\ UNCHANGED <<env, plan, order, planLock, at, run>>

\* plan_update: only a switch from calendar to hour meter starts the count anew.
Rebased(p, calendar) ==
  IF plan[p].calendar /\ ~calendar THEN LatestOrZero(p) ELSE plan[p].base

\* plan_update loads the row and puts the posted fields on it.
BeginUpdate(e) ==
  /\ "update" \in Operations
  /\ \E p \in Plans, calendar \in BOOLEAN, active \in BOOLEAN, d \in Days :
       Loads(e, "update", p,
             [state |-> "live", calendar |-> calendar, active |-> active,
              due |-> IF calendar THEN d ELSE None, base |-> Rebased(p, calendar)])

\* plan_toggle_active: the flag as it was loaded, turned around.
BeginToggle(e) ==
  /\ "toggle" \in Operations
  /\ \E p \in Plans : Loads(e, "toggle", p, [plan[p] EXCEPT !.active = ~@])

\* plan_delete: PROTECT has found no order.
BeginDelete(e) ==
  /\ "delete" \in Operations
  /\ \E p \in Plans : ~Protected(p) /\ Loads(e, "delete", p, NoPlan)

\* The statement of editor e, which waits for a run's UPDATE of the row.
Writes(e, op) ==
  /\ edit[e].op = op
  /\ planLock[edit[e].plan] = None
  /\ edit' = [edit EXCEPT ![e] = NoEdit]
  /\ UNCHANGED <<env, order, planLock, at, run>>

\* save() of all columns: an UPDATE, or an INSERT if the row has gone.
SaveUpdate(e) ==
  /\ Writes(e, "update")
  /\ plan' = [plan EXCEPT ![edit[e].plan] = edit[e].row]

\* save() of the flag: an UPDATE, or an error if the row has gone.
SaveToggle(e) ==
  /\ Writes(e, "toggle")
  /\ plan' = [plan EXCEPT ![edit[e].plan].active =
                IF Live(edit[e].plan) THEN edit[e].row.active ELSE @]

\* Mutant: nothing but the first look protects a plan with orders.
UnprotectedDelete(p) == [plan[p] EXCEPT !.state = "gone"]

\* DELETE, and the foreign key of the orders that exist by now.
Deleted(p) == IF Protected(p) THEN plan[p] ELSE [NoPlan EXCEPT !.state = "gone"]

FinishDelete(e) ==
  /\ Writes(e, "delete")
  /\ plan' = [plan EXCEPT ![edit[e].plan] = Deleted(edit[e].plan)]

\* record_reading accepts nothing below the highest reading.
Higher(a) == {h \in Hours : hours[a] = None \/ h > hours[a]}

Reading(a) ==
  /\ "reading" \in Operations
  /\ \E h \in Higher(a) : hours' = [hours EXCEPT ![a] = h]
  /\ UNCHANGED <<today, retired, plan, order, planLock, at, run, edit>>

\* asset_baja
Retire(a) ==
  /\ "retire" \in Operations
  /\ retired' = retired \cup {a}
  /\ UNCHANGED <<today, hours, plan, order, planLock, at, run, edit>>

\* A run takes seconds and starts at five in the morning: it sees midnight only
\* when "midnight" says so.
NextDay ==
  /\ today < MaxDay
  /\ "midnight" \in Operations \/ \A r \in Runners : at[r] = "idle"
  /\ today' = today + 1
  /\ UNCHANGED <<hours, retired, plan, order, planLock, at, run, edit>>

-----------------------------------------------------------------------------

\* The steps a run takes once it was started.
RunStep(r) ==
  \/ OpenCompany(r) \/ Occur(r) \/ OccurFails(r) \/ Measure(r) \/ MeterOrder(r)
  \/ SkipPlan(r) \/ SavePlan(r) \/ SaveFails(r) \/ CommitCompany(r) \/ FinishRun(r)

EditStep(e) ==
  \/ BeginUpdate(e) \/ BeginToggle(e) \/ BeginDelete(e)
  \/ SaveUpdate(e) \/ SaveToggle(e) \/ FinishDelete(e)

Next ==
  \/ \E r \in Runners : StartRun(r) \/ RunStep(r) \/ Crash(r)
  \/ \E e \in Editors : EditStep(e)
  \/ \E p \in Plans : CreatePlan(p)
  \/ \E a \in Assets : Reading(a) \/ Retire(a)
  \/ NextDay

Spec == Init /\ [][Next]_vars

\* Cron starts the command again and again, and a started command takes its steps
\* unless it is killed; a run that waits for a row or a key is served when it comes
\* free; days pass.
Fairness == /\ \A r \in Runners : WF_vars(StartRun(r)) /\ SF_vars(RunStep(r))
            /\ WF_vars(NextDay)

FairSpec == Spec /\ Fairness

-----------------------------------------------------------------------------
(* What the component keeps. *)

\* Values of the columns: a calendar plan has a due date (its CHECK constraint).
TypeOK ==
  /\ today \in Days
  /\ plan \in [Plans -> PlanRows]
  /\ \A p \in Plans : Live(p) /\ plan[p].calendar => plan[p].due # None
  /\ order \in [Plans -> [Dates -> OrderRows]]
  /\ hours \in [Assets -> Hours \cup {None}]
  /\ retired \subseteq Assets
  /\ planLock \in [Plans -> Runners \cup {None}]
  /\ at \in [Runners -> Points]
  /\ run \in [Runners -> Runs]
  /\ edit \in [Editors -> Edits]

\* Running the job twice, or two runs at once, or again after a crash, creates
\* nothing new: one order for a plan and a date, with one copy of the checklist
\* (_create_work_order).
CopiedOnce ==
  \A p \in Plans, d \in Dates : order[p][d].copies <= 1

\* An order keeps the plan that scheduled it, also when the plan is being deleted
\* while a run works on it (PROTECT on WorkOrder.plan, plan_delete).
EvidenceKeepsPlan ==
  \A p \in Plans : Protected(p) => Live(p)

\* One order per crossing: two orders made for meter readings are a whole interval
\* apart (_generate_meter).
MeterSpacing ==
  \A p \in Plans : \A d1, d2 \in Dates :
    d1 < d2 /\ order[p][d1].acted # None /\ order[p][d2].acted # None =>
      order[p][d2].acted >= order[p][d1].acted + EveryHours[p]

\* Whatever is due is served, in every company: a later run reaches the plan unless
\* somebody takes it out of service.
DueIsServed ==
  \A p \in Plans :
    Live(p) /\ plan[p].active /\ plan[p].calendar /\ plan[p].due <= today
        /\ AssetOf[p] \notin retired
      ~> \/ ~Live(p) \/ ~plan[p].active \/ ~plan[p].calendar \/ plan[p].due > today
         \/ AssetOf[p] \in retired

\* Every run ends: runs that wait for each other's rows and keys do so in the order
\* of the plans' keys.
EveryRunEnds ==
  \A r \in Runners : at[r] # "idle" ~> at[r] = "idle"

(* What PlanLedger shows of the rows. *)

Kind(p) == CASE plan[p].state = "new"  -> "none"
             [] plan[p].state = "gone" -> "gone"
             [] Live(p)                -> IF plan[p].calendar THEN "calendar" ELSE "meter"

Kinds  == [p \in Plans |-> Kind(p)]
Dues   == [p \in Plans |-> IF Kind(p) = "calendar" THEN plan[p].due ELSE None]
Copies == [p \in Plans |-> [d \in Dates |-> order[p][d].copies]]

Book == INSTANCE PlanLedger WITH kind <- Kinds, due <- Dues, copies <- Copies

\* The overlapping runs implement the book of plans and orders, as long as no plan is
\* edited: each commit makes exactly the orders missing up to its horizon, and leaves
\* the next date after it (generate_for_company, _generate_calendar, _generate_meter).
ImplementsBook == Book!Spec
=============================================================================

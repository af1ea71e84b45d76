--------------------------- MODULE SchedulerProofs ---------------------------
(***************************************************************************)
(* Proofs about Scheduler, for any plans, companies, intervals, runs and   *)
(* editors.                                                                *)
(***************************************************************************)
EXTENDS Scheduler, FiniteSetTheorems, TLAPS

(* A set of keys has a least one: the intervals 0 .. x are finite, and a    *)
(* minimal one among them ends in the least key.                            *)
LEMMA LeastInSet ==
  ASSUME NEW S, S \subseteq Nat, S # {}
  PROVE  Least(S) \in S /\ \A y \in S : Least(S) <= y
<1> DEFINE R == StrictSubsetOrdering(Nat)
           T == {0 .. x : x \in S}
<1>1. T \subseteq FiniteSubsetsOf(Nat) /\ T # {}
  <2>1. \A x \in S : 0 .. x \in SUBSET Nat /\ IsFiniteSet(0 .. x)
    BY FS_Interval
  <2>2. QED
    BY <2>1 DEF FiniteSubsetsOf
<1>2. PICK m \in T : \A t \in T : ~ (<<t, m>> \in R)
  <2>1. IsWellFoundedOn(R, FiniteSubsetsOf(Nat))
    BY FS_StrictSubsetOrderingWellFounded
  <2> HIDE DEF R, T
  <2>2. QED
    BY <1>1, <2>1, WFMin
<1>3. PICK x \in S : m = 0 .. x
  BY <1>2
<1>4. ASSUME NEW y \in S PROVE x <= y
  <2>1. ~ (<<0 .. y, 0 .. x>> \in R)
    BY <1>2, <1>3
  <2>2. 0 .. y \in SUBSET Nat /\ 0 .. x \in SUBSET Nat
    OBVIOUS
  <2>3. ~ (0 .. y \subseteq 0 .. x /\ 0 .. y # 0 .. x)
    BY <2>1, <2>2 DEF StrictSubsetOrdering
  <2>4. y < x => 0 .. y \subseteq 0 .. x /\ x \in 0 .. x /\ x \notin 0 .. y
    OBVIOUS
  <2>5. QED
    BY <2>3, <2>4
<1>5. QED
  BY <1>4 DEF Least

(***************************************************************************)
(* Type correctness.                                                       *)
(***************************************************************************)

(* A due date for every calendar plan also in memory, a plan under the loop *)
(* wherever the run stands at one, and what an editor carries.              *)
RunShape ==
  \A r \in Runners :
    /\ \A p \in Plans : run[r].seen[p].calendar => run[r].seen[p].due # None
    /\ at[r] \in {"meter", "save"} => run[r].todo # {}

EditShape ==
  \A e \in Editors :
    /\ edit[e].op # "none" => edit[e].plan \in Plans
    /\ edit[e].op = "update" =>
         edit[e].row.state = "live" /\ (edit[e].row.calendar => edit[e].row.due # None)

TypeInv == TypeOK /\ RunShape /\ EditShape

LEMMA NoPlanType == NoPlan \in PlanRows /\ ~NoPlan.calendar
BY SchedulerAssumption DEF NoPlan, PlanRows, Hours, Dates

LEMMA NoRunType ==
  /\ NoRun \in Runs
  /\ \A p \in Plans : NoRun.seen[p] = NoPlan
BY NoPlanType, SchedulerAssumption DEF NoRun, Runs, NothingSeen, Days

LEMMA CurrentInTodo ==
  ASSUME TypeInv, NEW r \in Runners, run[r].todo # {}
  PROVE  Current(r) \in run[r].todo /\ Current(r) \in Plans
<1>1. run[r].todo \subseteq Nat /\ run[r].todo \subseteq Plans
  BY SchedulerAssumption DEF TypeInv, TypeOK, Runs
<1>2. QED
  BY <1>1, LeastInSet DEF Current

LEMMA LatestType ==
  ASSUME TypeInv, NEW p \in Plans
  PROVE  LatestOrZero(p) \in Hours
BY SchedulerAssumption DEF TypeInv, TypeOK, LatestOrZero, Hours

LEMMA InitType == Init => TypeInv
<1> SUFFICES ASSUME Init PROVE TypeInv
  OBVIOUS
<1> USE DEF Init
<1>1. TypeOK
  <2>1. plan \in [Plans -> PlanRows] /\ \A p \in Plans : ~Live(p)
    BY NoPlanType DEF NothingSeen, Live, NoPlan
  <2>2. order \in [Plans -> [Dates -> OrderRows]]
    BY DEF NoOrder, OrderRows
  <2>3. edit \in [Editors -> Edits]
    BY NoPlanType DEF NoEdit, Edits
  <2>4. run \in [Runners -> Runs]
    BY NoRunType
  <2>5. QED
    BY <2>1, <2>2, <2>3, <2>4, SchedulerAssumption DEF TypeOK, Days, Points
<1>2. RunShape
  BY NoRunType, NoPlanType DEF RunShape
<1>3. EditShape
  BY DEF EditShape, NoEdit
<1>4. QED
  BY <1>1, <1>2, <1>3 DEF TypeInv

LEMMA EndType ==
  ASSUME TypeInv, NEW r \in Runners, EndRun(r)
  PROVE  TypeInv'
<1> USE DEF EndRun, TypeInv
<1>1. at' \in [Runners -> Points] /\ run' \in [Runners -> Runs]
  BY NoRunType DEF TypeOK, Points
<1>2. planLock' \in [Plans -> Runners \cup {None}]
  BY DEF TypeOK
<1>3. TypeOK'
  BY <1>1, <1>2 DEF TypeOK, env, Live
<1>4. RunShape'
  BY <1>1, NoRunType, NoPlanType DEF RunShape, TypeOK
<1>5. QED
  BY <1>3, <1>4 DEF EditShape

(* A step of run r that changes only where it stands and what it holds. *)
LEMMA MemoryType ==
  ASSUME TypeInv, NEW r \in Runners, NEW here \in Points, NEW held \in Runs,
         at' = [at EXCEPT ![r] = here], run' = [run EXCEPT ![r] = held],
         planLock' \in [Plans -> Runners \cup {None}],
         \A p \in Plans : held.seen[p].calendar => held.seen[p].due # None,
         here \in {"meter", "save"} => held.todo # {},
         UNCHANGED <<env, plan, order, edit>>
  PROVE  TypeInv'
<1> USE DEF TypeInv
<1>1. TypeOK'
  BY DEF TypeOK, env, Live
<1>2. RunShape'
  BY DEF TypeOK, RunShape
<1>3. QED
  BY <1>1, <1>2 DEF EditShape

LEMMA StartRunType ==
  ASSUME TypeInv, NEW r \in Runners, StartRun(r)
  PROVE  TypeInv'
<1> DEFINE held == [NoRun EXCEPT !.day = today, !.left = Companies]
<1>1. held \in Runs /\ held.seen = NoRun.seen
  BY NoRunType DEF Runs, TypeInv, TypeOK
<1>2. \A p \in Plans : held.seen[p].calendar => held.seen[p].due # None
  BY <1>1, NoRunType, NoPlanType
<1>3. /\ at' = [at EXCEPT ![r] = "company"] /\ run' = [run EXCEPT ![r] = held]
      /\ UNCHANGED <<env, plan, order, planLock, edit>>
  BY DEF StartRun
<1> HIDE DEF held
<1>4. planLock' \in [Plans -> Runners \cup {None}] /\ "company" \in Points
  BY <1>3 DEF Points, TypeInv, TypeOK
<1>5. QED
  BY <1>1, <1>2, <1>3, <1>4, MemoryType

LEMMA OpenCompanyType ==
  ASSUME TypeInv, NEW r \in Runners, OpenCompany(r)
  PROVE  TypeInv'
<1> DEFINE todo == Schedulable(Least(run[r].left))
           seen == [p \in Plans |-> IF p \in todo THEN plan[p] ELSE NoPlan]
           held == [run[r] EXCEPT !.todo = todo, !.seen = seen]
<1>1. todo \subseteq Plans /\ \A p \in todo : Live(p)
  BY DEF Schedulable
<1>2. seen \in [Plans -> PlanRows]
  BY NoPlanType DEF TypeInv, TypeOK
<1>3. \A p \in Plans : seen[p].calendar => seen[p].due # None
  BY <1>1, NoPlanType DEF TypeInv, TypeOK
<1> HIDE DEF todo, seen
<1>4. held \in Runs /\ held.seen = seen
  BY <1>1, <1>2 DEF Runs, TypeInv, TypeOK
<1>5. run' = [run EXCEPT ![r] = held]
  BY DEF OpenCompany, todo, seen, TypeInv, TypeOK, Runs
<1>6. /\ at' = [at EXCEPT ![r] = "plan"] /\ UNCHANGED <<env, plan, order, planLock, edit>>
  BY DEF OpenCompany
<1>7. \A p \in Plans : held.seen[p].calendar => held.seen[p].due # None
  BY <1>3, <1>4
<1> HIDE DEF held
<1>8. planLock' \in [Plans -> Runners \cup {None}] /\ "plan" \in Points
  BY <1>6 DEF Points, TypeInv, TypeOK
<1>9. QED
  BY <1>4, <1>5, <1>6, <1>7, <1>8, MemoryType

LEMMA GotOrCreatedType ==
  ASSUME TypeInv, NEW r \in Runners, NEW p \in Plans, NEW d \in Dates,
         NEW h \in Hours \cup {None}
  PROVE  GotOrCreated(r, p, d, h) \in SUBSET NewOrders
BY DEF GotOrCreated, NewOrders, TypeInv, TypeOK, Runs

LEMMA OccurType ==
  ASSUME TypeInv, NEW r \in Runners, Occur(r)
  PROVE  TypeInv'
<1> DEFINE p == Current(r)
           d == run[r].seen[p].due
           next == Advanced(r, p)
           got == GotOrCreated(r, p, d, None)
           seen == [run[r].seen EXCEPT ![p].due = next]
           held == [run[r] EXCEPT !.new = got, !.seen = seen, !.moved = TRUE]
<1>1. run[r] \in Runs /\ p \in Plans
  BY CurrentInTodo DEF Occur, AtPlan, TypeInv, TypeOK
<1>2. d \in Dates /\ d \in Nat
  BY <1>1, SchedulerAssumption DEF Occur, IsDue, Row, TypeInv, RunShape, Runs, PlanRows, Dates
<1>3. next \in Dates /\ next # None
  BY <1>1, <1>2, SchedulerAssumption DEF Occur, Overflows, Advanced, Row, Dates
<1>4. got \in SUBSET NewOrders
  BY <1>1, <1>2, GotOrCreatedType
<1>5. run' = [run EXCEPT ![r] = held] /\ at' = [at EXCEPT ![r] = "plan"]
  <2>1. run' = [run EXCEPT ![r].new = got, ![r].seen[p].due = next, ![r].moved = TRUE]
    BY DEF Occur, Row
  <2>2. at' = at /\ at[r] = "plan"
    BY DEF Occur, AtPlan
  <2> HIDE DEF got, next, p
  <2>3. run' = [run EXCEPT ![r] = held]
    BY <2>1, <1>1 DEF TypeInv, TypeOK, Runs
  <2>4. QED
    BY <2>2, <2>3 DEF TypeInv, TypeOK
<1> HIDE DEF p, d, next, got
<1>6. seen \in [Plans -> PlanRows]
  BY <1>1, <1>3 DEF Runs, PlanRows
<1>7. \A q \in Plans : seen[q].calendar => seen[q].due # None
  BY <1>1, <1>3 DEF TypeInv, RunShape, Runs, PlanRows
<1> HIDE DEF seen
<1>8. held \in Runs /\ held.seen = seen
  BY <1>1, <1>4, <1>6 DEF Runs
<1> HIDE DEF held
<1>9. /\ planLock' \in [Plans -> Runners \cup {None}] /\ "plan" \in Points
      /\ UNCHANGED <<env, plan, order, edit>>
  BY DEF Occur, Points, TypeInv, TypeOK
<1>10. QED
  BY <1>5, <1>7, <1>8, <1>9, MemoryType

LEMMA MeasureType ==
  ASSUME TypeInv, NEW r \in Runners, Measure(r)
  PROVE  TypeInv'
<1> DEFINE p == Current(r)
           h == hours[AssetOf[p]]
           seen == [run[r].seen EXCEPT ![p].base = h]
           held == [run[r] EXCEPT !.seen = seen]
<1>1. run[r] \in Runs /\ run[r].todo # {} /\ p \in Plans
  BY CurrentInTodo DEF Measure, AtPlan, TypeInv, TypeOK
<1>2. h \in Hours
  BY <1>1, SchedulerAssumption DEF Measure, Crossed, TypeInv, TypeOK
<1>3. run' = [run EXCEPT ![r] = held]
  <2>1. run' = [run EXCEPT ![r].seen[p].base = h]
    BY DEF Measure
  <2> HIDE DEF p, h
  <2>2. QED
    BY <2>1, <1>1 DEF TypeInv, TypeOK, Runs
<1> HIDE DEF p, h
<1>4. seen \in [Plans -> PlanRows]
  BY <1>1, <1>2 DEF Runs, PlanRows
<1>5. \A q \in Plans : seen[q].calendar => seen[q].due # None
  BY <1>1 DEF TypeInv, RunShape, Runs, PlanRows
<1> HIDE DEF seen
<1>6. held \in Runs /\ held.seen = seen /\ held.todo # {}
  BY <1>1, <1>4 DEF Runs
<1> HIDE DEF held
<1>7. /\ at' = [at EXCEPT ![r] = "meter"] /\ "meter" \in Points
      /\ planLock' \in [Plans -> Runners \cup {None}]
      /\ UNCHANGED <<env, plan, order, edit>>
  BY DEF Measure, Points, TypeInv, TypeOK
<1>8. QED
  BY <1>3, <1>5, <1>6, <1>7, MemoryType

LEMMA MeterOrderType ==
  ASSUME TypeInv, NEW r \in Runners, MeterOrder(r)
  PROVE  TypeInv'
<1> DEFINE p == Current(r)
           got == GotOrCreated(r, p, run[r].day, run[r].seen[p].base)
           held == [run[r] EXCEPT !.new = got]
<1>1. run[r] \in Runs /\ run[r].todo # {} /\ p \in Plans
  BY CurrentInTodo DEF MeterOrder, TypeInv, TypeOK, RunShape
<1>2. run[r].day \in Dates /\ run[r].seen[p].base \in Hours
  <2>1. run[r].day \in Days /\ run[r].seen[p] \in PlanRows
    BY <1>1 DEF Runs
  <2>2. Days \subseteq Dates
    BY SchedulerAssumption DEF Days, Dates
  <2>3. QED
    BY <2>1, <2>2 DEF PlanRows
<1>3. got \in SUBSET NewOrders
  BY <1>1, <1>2, GotOrCreatedType
<1>4. run' = [run EXCEPT ![r] = held]
  <2>1. run' = [run EXCEPT ![r].new = got]
    BY DEF MeterOrder, Row
  <2> HIDE DEF got
  <2>2. QED
    BY <2>1, <1>1 DEF TypeInv, TypeOK, Runs
<1> HIDE DEF p, got
<1>5. /\ held \in Runs /\ held.todo # {}
      /\ \A q \in Plans : held.seen[q].calendar => held.seen[q].due # None
  BY <1>1, <1>3 DEF Runs, TypeInv, RunShape
<1> HIDE DEF held
<1>6. /\ at' = [at EXCEPT ![r] = "save"] /\ "save" \in Points
      /\ planLock' \in [Plans -> Runners \cup {None}]
      /\ UNCHANGED <<env, plan, order, edit>>
  BY DEF MeterOrder, Points, TypeInv, TypeOK
<1>7. QED
  BY <1>4, <1>5, <1>6, MemoryType

LEMMA SkipPlanType ==
  ASSUME TypeInv, NEW r \in Runners, SkipPlan(r)
  PROVE  TypeInv'
<1> DEFINE held == [run[r] EXCEPT !.todo = @ \ {Current(r)}]
<1>1. /\ held \in Runs
      /\ \A q \in Plans : held.seen[q].calendar => held.seen[q].due # None
  BY DEF TypeInv, TypeOK, RunShape, Runs
<1>2. /\ run' = [run EXCEPT ![r] = held]
      /\ at' = [at EXCEPT ![r] = "plan"] /\ "plan" \in Points
      /\ planLock' \in [Plans -> Runners \cup {None}]
      /\ UNCHANGED <<env, plan, order, edit>>
  BY DEF SkipPlan, AtPlan, Points, TypeInv, TypeOK, Runs
<1> HIDE DEF held
<1>3. QED
  BY <1>1, <1>2, MemoryType

LEMMA SavePlanType ==
  ASSUME TypeInv, NEW r \in Runners, SavePlan(r)
  PROVE  TypeInv'
<1> DEFINE held == [run[r] EXCEPT !.todo = @ \ {Current(r)}, !.moved = FALSE]
<1>1. /\ held \in Runs
      /\ \A q \in Plans : held.seen[q].calendar => held.seen[q].due # None
  BY DEF TypeInv, TypeOK, RunShape, Runs
<1>2. run' = [run EXCEPT ![r] = held]
  BY DEF SavePlan, TypeInv, TypeOK, Runs
<1>3. /\ at' = [at EXCEPT ![r] = "plan"] /\ "plan" \in Points
      /\ planLock' \in [Plans -> Runners \cup {None}]
      /\ UNCHANGED <<env, plan, order, edit>>
  BY DEF SavePlan, Points, TypeInv, TypeOK
<1> HIDE DEF held
<1>4. QED
  BY <1>1, <1>2, <1>3, MemoryType

LEMMA SavedType ==
  ASSUME TypeInv, NEW r \in Runners, NEW p \in Plans
  PROVE  LET row == Saved(p, run[r].seen[p]) IN
         /\ row \in PlanRows
         /\ row.state = plan[p].state
         /\ row.state = "live" /\ row.calendar => row.due # None
<1>1. /\ plan[p] \in PlanRows /\ run[r].seen[p] \in PlanRows
      /\ run[r].seen[p].calendar => run[r].seen[p].due # None
      /\ plan[p].state = "live" /\ plan[p].calendar => plan[p].due # None
  BY DEF TypeInv, TypeOK, RunShape, Runs, Live
<1>2. CASE run[r].seen[p].calendar
  <2>1. Saved(p, run[r].seen[p]) = [plan[p] EXCEPT !.due = run[r].seen[p].due]
    BY <1>2 DEF Saved
  <2>2. QED
    BY <1>1, <1>2, <2>1 DEF PlanRows
<1>3. CASE ~run[r].seen[p].calendar
  <2>1. Saved(p, run[r].seen[p]) = [plan[p] EXCEPT !.base = run[r].seen[p].base]
    BY <1>3 DEF Saved
  <2>2. QED
    BY <1>1, <2>1 DEF PlanRows
<1>4. QED
  BY <1>2, <1>3

LEMMA InsertedType ==
  ASSUME TypeInv, NEW p \in Plans, NEW d \in Dates, NEW new \in SUBSET NewOrders
  PROVE  Inserted(p, d, new) \in OrderRows
<1> DEFINE rows == {n \in new : n.plan = p /\ n.due = d}
<1>1. order[p][d] \in OrderRows
  BY DEF TypeInv, TypeOK
<1>2. rows # {} => (CHOOSE n \in rows : TRUE).acted \in Hours \cup {None}
  BY DEF NewOrders
<1>3. QED
  BY <1>1, <1>2 DEF Inserted, OrderRows

LEMMA CommitCompanyType ==
  ASSUME TypeInv, NEW r \in Runners, CommitCompany(r)
  PROVE  TypeInv'
<1> DEFINE held == [NoRun EXCEPT !.day = run[r].day, !.left = run[r].left \ {Least(run[r].left)}]
<1>1. held \in Runs /\ held.seen = NoRun.seen
  BY NoRunType DEF Runs, TypeInv, TypeOK
<1>2. run' = [run EXCEPT ![r] = held] /\ at' = [at EXCEPT ![r] = "company"]
  BY DEF CommitCompany
<1> HIDE DEF held
<1>3. /\ plan' \in [Plans -> PlanRows]
      /\ \A p \in Plans : plan'[p].state = "live" /\ plan'[p].calendar => plan'[p].due # None
  BY SavedType DEF CommitCompany, TypeInv, TypeOK, Live
<1>4. order' \in [Plans -> [Dates -> OrderRows]]
  BY InsertedType DEF CommitCompany, TypeInv, TypeOK, Runs
<1>5. planLock' \in [Plans -> Runners \cup {None}]
  BY DEF CommitCompany, TypeInv, TypeOK
<1>6. UNCHANGED <<today, hours, retired, edit>>
  BY DEF CommitCompany, env
<1>7. TypeOK'
  BY <1>1, <1>2, <1>3, <1>4, <1>5, <1>6 DEF TypeInv, TypeOK, Points, Live
<1>8. RunShape'
  BY <1>1, <1>2, NoRunType, NoPlanType DEF TypeInv, TypeOK, RunShape
<1>9. QED
  BY <1>6, <1>7, <1>8 DEF TypeInv, EditShape

(* A step that leaves the runs and their locks alone. *)
LEMMA PanelType ==
  ASSUME TypeInv, UNCHANGED <<order, planLock, at, run>>,
         plan' \in [Plans -> PlanRows],
         \A p \in Plans : plan'[p].state = "live" /\ plan'[p].calendar => plan'[p].due # None,
         edit' \in [Editors -> Edits], EditShape',
         today' \in Days, hours' \in [Assets -> Hours \cup {None}], retired' \subseteq Assets
  PROVE  TypeInv'
<1>1. TypeOK'
  BY DEF TypeInv, TypeOK, Live
<1>2. RunShape'
  BY DEF TypeInv, RunShape
<1>3. QED
  BY <1>1, <1>2 DEF TypeInv

LEMMA CreatePlanType ==
  ASSUME TypeInv, NEW p \in Plans, CreatePlan(p)
  PROVE  TypeInv'
<1>1. PICK row \in PlanRows :
        /\ plan' = [plan EXCEPT ![p] = row]
        /\ row.calendar => row.due # None
  <2>1. Days \subseteq Dates /\ None \notin Days /\ 0 \in Hours
    BY SchedulerAssumption DEF Days, Dates, Hours
  <2>2. ASSUME NEW d \in Days
        PROVE  [state |-> "live", calendar |-> TRUE, active |-> TRUE, due |-> d, base |-> 0]
                 \in PlanRows
    BY <2>1 DEF PlanRows
  <2>3. [state |-> "live", calendar |-> FALSE, active |-> TRUE, due |-> None,
         base |-> LatestOrZero(p)] \in PlanRows
    BY LatestType DEF PlanRows
  <2>4. CASE \E d \in Days : plan' = [plan EXCEPT ![p] =
               [state |-> "live", calendar |-> TRUE, active |-> TRUE, due |-> d, base |-> 0]]
    BY <2>1, <2>2, <2>4
  <2>5. CASE plan' = [plan EXCEPT ![p] =
               [state |-> "live", calendar |-> FALSE, active |-> TRUE, due |-> None,
                base |-> LatestOrZero(p)]]
    BY <2>3, <2>5
  <2>6. QED
    BY <2>4, <2>5 DEF CreatePlan
<1>2. /\ UNCHANGED <<order, planLock, at, run>>
      /\ UNCHANGED <<today, hours, retired, edit>>
  BY DEF CreatePlan, env
<1>3. /\ plan' \in [Plans -> PlanRows]
      /\ \A q \in Plans : plan'[q].state = "live" /\ plan'[q].calendar => plan'[q].due # None
  BY <1>1 DEF TypeInv, TypeOK, Live
<1>4. EditShape' /\ edit' \in [Editors -> Edits]
  BY <1>2 DEF TypeInv, TypeOK, EditShape
<1>5. QED
  BY <1>2, <1>3, <1>4, PanelType DEF TypeInv, TypeOK

LEMMA LoadsType ==
  ASSUME TypeInv, NEW e \in Editors, NEW op \in {"update", "toggle", "delete"},
         NEW p \in Plans, NEW row \in PlanRows,
         op = "update" => row.state = "live" /\ (row.calendar => row.due # None),
         Loads(e, op, p, row)
  PROVE  TypeInv'
<1>1. /\ UNCHANGED <<order, planLock, at, run>>
      /\ UNCHANGED <<today, hours, retired, plan>>
      /\ edit' = [edit EXCEPT ![e] = [op |-> op, plan |-> p, row |-> row]]
  BY DEF Loads, env
<1>2. edit' \in [Editors -> Edits]
  BY <1>1 DEF TypeInv, TypeOK, Edits
<1>3. EditShape'
  BY <1>1 DEF TypeInv, TypeOK, EditShape
<1>4. QED
  BY <1>1, <1>2, <1>3, PanelType DEF TypeInv, TypeOK, Live

LEMMA BeginUpdateType ==
  ASSUME TypeInv, NEW e \in Editors, BeginUpdate(e)
  PROVE  TypeInv'
<1>1. PICK p \in Plans, calendar \in BOOLEAN, active \in BOOLEAN, d \in Days :
        Loads(e, "update", p,
              [state |-> "live", calendar |-> calendar, active |-> active,
               due |-> IF calendar THEN d ELSE None, base |-> Rebased(p, calendar)])
  BY DEF BeginUpdate
<1>2. Rebased(p, calendar) \in Hours
  BY LatestType DEF Rebased, TypeInv, TypeOK, PlanRows
<1>3. d \in Dates /\ d # None
  BY SchedulerAssumption DEF Days, Dates
<1>4. [state |-> "live", calendar |-> calendar, active |-> active,
       due |-> IF calendar THEN d ELSE None, base |-> Rebased(p, calendar)] \in PlanRows
  BY <1>2, <1>3 DEF PlanRows
<1>5. QED
  BY <1>1, <1>3, <1>4, LoadsType

LEMMA BeginToggleType ==
  ASSUME TypeInv, NEW e \in Editors, BeginToggle(e)
  PROVE  TypeInv'
<1>1. PICK p \in Plans : Loads(e, "toggle", p, [plan[p] EXCEPT !.active = ~@])
  BY DEF BeginToggle
<1>2. [plan[p] EXCEPT !.active = ~@] \in PlanRows
  BY DEF TypeInv, TypeOK, PlanRows
<1>3. QED
  BY <1>1, <1>2, LoadsType

LEMMA BeginDeleteType ==
  ASSUME TypeInv, NEW e \in Editors, BeginDelete(e)
  PROVE  TypeInv'
BY NoPlanType, LoadsType DEF BeginDelete

(* An editor's statement that leaves a well-typed row. *)
LEMMA WritesType ==
  ASSUME TypeInv, NEW e \in Editors, NEW op \in {"update", "toggle", "delete"},
         Writes(e, op), NEW row \in PlanRows,
         row.state = "live" /\ row.calendar => row.due # None,
         plan' = [plan EXCEPT ![edit[e].plan] = row]
  PROVE  TypeInv'
<1>1. /\ UNCHANGED <<order, planLock, at, run>>
      /\ UNCHANGED <<today, hours, retired>>
      /\ edit' = [edit EXCEPT ![e] = NoEdit]
  BY DEF Writes, env
<1>2. edit' \in [Editors -> Edits] /\ EditShape'
  BY <1>1, NoPlanType DEF TypeInv, TypeOK, EditShape, Edits, NoEdit
<1>3. /\ plan' \in [Plans -> PlanRows]
      /\ \A q \in Plans : plan'[q].state = "live" /\ plan'[q].calendar => plan'[q].due # None
  BY DEF TypeInv, TypeOK, Live
<1>4. QED
  BY <1>1, <1>2, <1>3, PanelType DEF TypeInv, TypeOK

LEMMA EditedPlan ==
  ASSUME TypeInv, NEW e \in Editors, NEW op \in {"update", "toggle", "delete"}, Writes(e, op)
  PROVE  /\ edit[e].plan \in Plans
         /\ plan[edit[e].plan] \in PlanRows
         /\ edit[e].row \in PlanRows
BY DEF Writes, TypeInv, TypeOK, EditShape, Edits

LEMMA SaveUpdateType ==
  ASSUME TypeInv, NEW e \in Editors, SaveUpdate(e)
  PROVE  TypeInv'
<1>1. Writes(e, "update") /\ edit[e].op = "update"
  BY DEF SaveUpdate, Writes
<1>2. edit[e].row.calendar => edit[e].row.due # None
  BY <1>1 DEF TypeInv, EditShape
<1>3. QED
  BY <1>1, <1>2, EditedPlan, WritesType DEF SaveUpdate

LEMMA SaveToggleType ==
  ASSUME TypeInv, NEW e \in Editors, SaveToggle(e)
  PROVE  TypeInv'
<1> DEFINE p == edit[e].plan
           row == [plan[p] EXCEPT !.active = IF Live(p) THEN edit[e].row.active ELSE @]
<1>1. Writes(e, "toggle")
  BY DEF SaveToggle
<1>2. p \in Plans /\ plan[p] \in PlanRows /\ edit[e].row \in PlanRows
  BY <1>1, EditedPlan
<1>3. plan[p].state = "live" /\ plan[p].calendar => plan[p].due # None
  BY <1>2 DEF TypeInv, TypeOK, Live
<1>4. row \in PlanRows /\ (row.state = "live" /\ row.calendar => row.due # None)
  BY <1>2, <1>3 DEF PlanRows
<1>5. plan' = [plan EXCEPT ![p] = row]
  BY <1>2 DEF SaveToggle, TypeInv, TypeOK, PlanRows
<1> HIDE DEF row
<1>6. QED
  BY <1>1, <1>4, <1>5, WritesType

LEMMA FinishDeleteType ==
  ASSUME TypeInv, NEW e \in Editors, FinishDelete(e)
  PROVE  TypeInv'
<1> DEFINE p == edit[e].plan
<1>1. Writes(e, "delete") /\ plan' = [plan EXCEPT ![p] = Deleted(p)]
  BY DEF FinishDelete
<1>2. p \in Plans /\ plan[p] \in PlanRows
  BY <1>1, EditedPlan
<1>3. plan[p].state = "live" /\ plan[p].calendar => plan[p].due # None
  BY <1>2 DEF TypeInv, TypeOK, Live
<1>4. [NoPlan EXCEPT !.state = "gone"] \in PlanRows /\ ~[NoPlan EXCEPT !.state = "gone"].calendar
  BY NoPlanType DEF PlanRows
<1>5. Deleted(p) \in PlanRows /\ (Deleted(p).state = "live" /\ Deleted(p).calendar => Deleted(p).due # None)
  BY <1>2, <1>3, <1>4 DEF Deleted
<1>6. QED
  BY <1>1, <1>5, WritesType

LEMMA EnvironmentType ==
  ASSUME TypeInv, NextDay \/ \E a \in Assets : Reading(a) \/ Retire(a)
  PROVE  TypeInv'
<1>1. UNCHANGED <<order, planLock, at, run>> /\ UNCHANGED <<plan, edit>>
  BY DEF NextDay, Reading, Retire
<1>2. today' \in Days
  BY SchedulerAssumption DEF NextDay, Reading, Retire, TypeInv, TypeOK, Days
<1>3. hours' \in [Assets -> Hours \cup {None}] /\ retired' \subseteq Assets
  BY DEF NextDay, Reading, Retire, Higher, TypeInv, TypeOK
<1>4. EditShape' /\ edit' \in [Editors -> Edits]
  BY <1>1 DEF TypeInv, TypeOK, EditShape
<1>5. QED
  BY <1>1, <1>2, <1>3, <1>4, PanelType DEF TypeInv, TypeOK, Live

LEMMA RunStepType ==
  ASSUME TypeInv, NEW r \in Runners, RunStep(r)
  PROVE  TypeInv'
BY OpenCompanyType, OccurType, MeasureType, MeterOrderType, SkipPlanType, SavePlanType,
   CommitCompanyType, EndType
   DEF RunStep, OccurFails, SaveFails, FinishRun

LEMMA StutterType ==
  ASSUME TypeInv, UNCHANGED vars
  PROVE  TypeInv'
BY DEF vars, env, TypeInv, TypeOK, RunShape, EditShape, Live

LEMMA NextType ==
  ASSUME TypeInv, [Next]_vars
  PROVE  TypeInv'
<1>1. CASE \E r \in Runners : StartRun(r) \/ RunStep(r) \/ Crash(r)
  BY <1>1, StartRunType, RunStepType, EndType DEF Crash
<1>2. CASE \E e \in Editors : EditStep(e)
  BY <1>2, BeginUpdateType, BeginToggleType, BeginDeleteType, SaveUpdateType,
     SaveToggleType, FinishDeleteType DEF EditStep
<1>3. CASE \E p \in Plans : CreatePlan(p)
  BY <1>3, CreatePlanType
<1>4. CASE NextDay \/ \E a \in Assets : Reading(a) \/ Retire(a)
  BY <1>4, EnvironmentType
<1>5. CASE UNCHANGED vars
  BY <1>5, StutterType
<1>6. QED
  BY <1>1, <1>2, <1>3, <1>4, <1>5 DEF Next

\* Every reachable state has the columns' types: a calendar plan always has a due
\* date, also when a run's save meets an edit of the same plan.
THEOREM TypesHold == Spec => []TypeOK
<1>1. Init => TypeInv
  BY InitType
<1>2. TypeInv /\ [Next]_vars => TypeInv'
  BY NextType
<1>3. TypeInv => TypeOK
  BY DEF TypeInv
<1>4. QED
  BY <1>1, <1>2, <1>3, PTL DEF Spec

(***************************************************************************)
(* One order per key, and no order without its plan.                       *)
(***************************************************************************)

(* What a run has inserted and not committed, nobody has committed, ...     *)
KeysFree ==
  \A r \in Runners : \A n \in run[r].new : order[n.plan][n.due].copies = 0

(* ... and no other run has inserted. *)
KeysOwned ==
  \A r, o \in Runners : \A n \in run[r].new, m \in run[o].new :
    n.plan = m.plan /\ n.due = m.due => r = o

(* A run cannot leave a plan it made an order for without saving it. *)
NewSaved ==
  \A r \in Runners : \A n \in run[r].new :
    \/ planLock[n.plan] = r
    \/ n.plan \in run[r].todo /\ n.plan = Current(r) /\ (run[r].moved \/ at[r] = "save")

(* A row a run has updated cannot be deleted before the run ends. *)
LockedLive == \A p \in Plans : planLock[p] # None => Live(p)

(* Nothing is inserted outside a company's transaction. *)
OnlyOpen == \A r \in Runners : at[r] \in {"idle", "company"} => run[r].new = {}

Inv ==
  /\ TypeInv /\ KeysFree /\ KeysOwned /\ NewSaved /\ LockedLive /\ OnlyOpen
  /\ CopiedOnce /\ EvidenceKeepsPlan

LEMMA InitInv == Init => Inv
<1> SUFFICES ASSUME Init PROVE Inv
  OBVIOUS
<1>1. \A r \in Runners : run[r].new = {}
  BY DEF Init, NoRun
<1>2. \A p \in Plans : planLock[p] = None
  BY DEF Init
<1>3. \A p \in Plans, d \in Dates : order[p][d].copies = 0
  BY DEF Init, NoOrder
<1>4. CopiedOnce /\ EvidenceKeepsPlan
  BY <1>3 DEF CopiedOnce, EvidenceKeepsPlan, Protected, HasOrder
<1>5. KeysFree /\ KeysOwned /\ NewSaved /\ LockedLive /\ OnlyOpen
  BY <1>1, <1>2 DEF KeysFree, KeysOwned, NewSaved, LockedLive, OnlyOpen
<1>6. QED
  BY <1>4, <1>5, InitType DEF Inv

(* The named parts after a step of run r that inserts nothing, keeps the     *)
(* committed tables, and takes at most the row of a live plan.               *)
LEMMA QuietStep ==
  ASSUME Inv, TypeInv', NEW r \in Runners,
         UNCHANGED <<plan, order>>,
         \A o \in Runners \ {r} : at'[o] = at[o] /\ run'[o] = run[o],
         run'[r].new \subseteq run[r].new,
         at'[r] \in {"idle", "company"} => run'[r].new = {},
         \A n \in run'[r].new :
           \/ planLock'[n.plan] = r
           \/ /\ n.plan \in run'[r].todo /\ n.plan = Current(r)'
              /\ (run'[r].moved \/ at'[r] = "save"),
         \A p \in Plans, o \in Runners \ {r} : planLock[p] = o => planLock'[p] = o,
         \A p \in Plans : planLock'[p] # None => Live(p)
  PROVE  Inv'
<1> USE DEF Inv
<1>1. KeysFree'
  BY DEF KeysFree
<1>2. KeysOwned'
  BY DEF KeysOwned
<1>3. NewSaved'
  <2> SUFFICES ASSUME NEW o \in Runners, NEW n \in run'[o].new
               PROVE  \/ planLock'[n.plan] = o
                      \/ /\ n.plan \in run'[o].todo /\ n.plan = Current(o)'
                         /\ (run'[o].moved \/ at'[o] = "save")
    BY DEF NewSaved
  <2>1. CASE o = r
    BY <2>1
  <2>2. CASE o # r
    <3>1. n \in run[o].new /\ n.plan \in Plans
      BY <2>2 DEF TypeInv, TypeOK, Runs, NewOrders
    <3>2. Current(o)' = Current(o)
      BY <2>2 DEF Current
    <3>3. QED
      BY <2>2, <3>1, <3>2 DEF NewSaved
  <2>3. QED
    BY <2>1, <2>2
<1>4. LockedLive'
  BY DEF LockedLive, Live
<1>5. OnlyOpen'
  BY DEF OnlyOpen
<1>6. CopiedOnce' /\ EvidenceKeepsPlan'
  BY DEF CopiedOnce, EvidenceKeepsPlan, Protected, HasOrder, Live
<1>7. QED
  BY <1>1, <1>2, <1>3, <1>4, <1>5, <1>6

LEMMA EndInv ==
  ASSUME Inv, NEW r \in Runners, EndRun(r)
  PROVE  Inv'
<1>1. TypeInv'
  BY EndType DEF Inv
<1>2. run'[r].new = {} /\ \A o \in Runners \ {r} : at'[o] = at[o] /\ run'[o] = run[o]
  BY DEF EndRun, NoRun, Inv, TypeInv, TypeOK
<1>3. \A p \in Plans : planLock'[p] = IF planLock[p] = r THEN None ELSE planLock[p]
  BY DEF EndRun
<1>4. \A p \in Plans : planLock'[p] # None => Live(p)
  BY <1>3 DEF Inv, LockedLive
<1>5. UNCHANGED <<plan, order>>
  BY DEF EndRun
<1>6. QED
  BY <1>1, <1>2, <1>3, <1>4, <1>5, QuietStep

LEMMA StartRunInv ==
  ASSUME Inv, NEW r \in Runners, StartRun(r)
  PROVE  Inv'
<1>1. TypeInv'
  BY StartRunType DEF Inv
<1>2. run'[r].new = {} /\ \A o \in Runners \ {r} : at'[o] = at[o] /\ run'[o] = run[o]
  BY DEF StartRun, NoRun, Inv, TypeInv, TypeOK
<1>3. UNCHANGED <<plan, order, planLock>>
  BY DEF StartRun
<1>4. QED
  BY <1>1, <1>2, <1>3, QuietStep DEF Inv, LockedLive

LEMMA OpenCompanyInv ==
  ASSUME Inv, NEW r \in Runners, OpenCompany(r)
  PROVE  Inv'
<1>1. TypeInv'
  BY OpenCompanyType DEF Inv
<1>2. run'[r].new = run[r].new /\ \A o \in Runners \ {r} : at'[o] = at[o] /\ run'[o] = run[o]
  BY DEF OpenCompany, Inv, TypeInv, TypeOK, Runs
<1>3. run[r].new = {}
  BY DEF OpenCompany, Inv, OnlyOpen
<1>4. UNCHANGED <<plan, order, planLock>>
  BY DEF OpenCompany
<1>5. QED
  BY <1>1, <1>2, <1>3, <1>4, QuietStep DEF Inv, LockedLive

LEMMA MeasureInv ==
  ASSUME Inv, NEW r \in Runners, Measure(r)
  PROVE  Inv'
<1>1. TypeInv'
  BY MeasureType DEF Inv
<1>2. /\ run'[r].new = run[r].new /\ run'[r].todo = run[r].todo /\ run'[r].moved = run[r].moved
      /\ \A o \in Runners \ {r} : at'[o] = at[o] /\ run'[o] = run[o]
  BY DEF Measure, Inv, TypeInv, TypeOK, Runs
<1>3. at[r] = "plan" /\ at'[r] = "meter" /\ UNCHANGED <<plan, order, planLock>>
  BY DEF Measure, AtPlan, Inv, TypeInv, TypeOK
<1>4. Current(r)' = Current(r)
  BY <1>2 DEF Current
<1>5. \A n \in run'[r].new :
        \/ planLock'[n.plan] = r
        \/ n.plan \in run'[r].todo /\ n.plan = Current(r)' /\ run'[r].moved
  BY <1>2, <1>3, <1>4 DEF Inv, NewSaved
<1>6. QED
  BY <1>1, <1>2, <1>3, <1>5, QuietStep DEF Inv, LockedLive

LEMMA SkipPlanInv ==
  ASSUME Inv, NEW r \in Runners, SkipPlan(r)
  PROVE  Inv'
<1>1. TypeInv'
  BY SkipPlanType DEF Inv
<1>2. /\ run'[r].new = run[r].new
      /\ \A o \in Runners \ {r} : at'[o] = at[o] /\ run'[o] = run[o]
  BY DEF SkipPlan, Inv, TypeInv, TypeOK, Runs
<1>3. at[r] = "plan" /\ at'[r] = "plan" /\ ~run[r].moved /\ UNCHANGED <<plan, order, planLock>>
  BY DEF SkipPlan, AtPlan, Inv, TypeInv, TypeOK
<1>4. \A n \in run'[r].new : planLock'[n.plan] = r
  BY <1>2, <1>3 DEF Inv, NewSaved
<1>5. QED
  BY <1>1, <1>2, <1>3, <1>4, QuietStep DEF Inv, LockedLive

LEMMA SavePlanInv ==
  ASSUME Inv, NEW r \in Runners, SavePlan(r)
  PROVE  Inv'
<1> DEFINE p == Current(r)
<1>1. TypeInv'
  BY SavePlanType DEF Inv
<1>2. /\ run'[r].new = run[r].new
      /\ \A o \in Runners \ {r} : at'[o] = at[o] /\ run'[o] = run[o]
  BY DEF SavePlan, Inv, TypeInv, TypeOK, Runs
<1>3. at'[r] = "plan" /\ UNCHANGED <<plan, order>>
  BY DEF SavePlan, Inv, TypeInv, TypeOK
<1>4. run[r].todo # {}
  BY DEF SavePlan, Saves, AtPlan, Inv, TypeInv, RunShape
<1>5. p \in Plans
  BY <1>4, CurrentInTodo DEF Inv
<1>6. planLock' = [planLock EXCEPT ![p] = r] /\ planLock[p] = None /\ Live(p)
  BY DEF SavePlan, Saves
<1>7. \A n \in run'[r].new : planLock'[n.plan] = r
  BY <1>2, <1>5, <1>6, SchedulerAssumption DEF Inv, NewSaved, TypeInv, TypeOK, Runs, NewOrders
<1>8. \A q \in Plans, o \in Runners \ {r} : planLock[q] = o => planLock'[q] = o
  BY <1>5, <1>6, SchedulerAssumption DEF Inv, TypeInv, TypeOK
<1>9. \A q \in Plans : planLock'[q] # None => Live(q)
  BY <1>5, <1>6 DEF Inv, LockedLive, TypeInv, TypeOK
<1>10. QED
  BY <1>1, <1>2, <1>3, <1>7, <1>8, <1>9, QuietStep

(* The named parts after run r has asked get_or_create for its current plan. *)
LEMMA InsertStep ==
  ASSUME Inv, TypeInv', NEW r \in Runners, NEW d \in Dates, NEW h \in Hours \cup {None},
         UNCHANGED <<plan, order, planLock>>,
         \A o \in Runners \ {r} : at'[o] = at[o] /\ run'[o] = run[o],
         run[r].todo # {}, run'[r].todo = run[r].todo,
         at[r] \in {"plan", "meter"}, at'[r] \in {"plan", "save"},
         run'[r].moved \/ at'[r] = "save",
         ~Contended(r, Current(r), d),
         run'[r].new = GotOrCreated(r, Current(r), d, h)
  PROVE  Inv'
<1> USE DEF Inv
<1> DEFINE p == Current(r)
           it == [plan |-> p, due |-> d, acted |-> h]
<1>1. p \in Plans /\ p \in run[r].todo
  BY CurrentInTodo
<1>2. Current(r)' = p /\ \A o \in Runners \ {r} : Current(o)' = Current(o)
  BY DEF Current
<1>3. \/ run'[r].new = run[r].new
      \/ run'[r].new = run[r].new \cup {it} /\ ~HasOrder(p, d)
  <2>1. run'[r].new = IF HasOrder(p, d) THEN run[r].new ELSE run[r].new \cup {it}
    BY DEF GotOrCreated
  <2> HIDE DEF it, p
  <2>2. QED
    BY <2>1
<1>4. ~HasOrder(p, d) => order[p][d].copies = 0
  BY <1>1 DEF HasOrder, TypeInv, TypeOK, OrderRows
<1>5. \A o \in Runners \ {r} : \A m \in run[o].new : ~(m.plan = p /\ m.due = d)
  BY DEF Contended
<1> HIDE DEF p
<1>6. \A n \in run'[r].new :
        \/ n \in run[r].new
        \/ n.plan = p /\ n.due = d /\ ~HasOrder(p, d)
  <2>1. it.plan = p /\ it.due = d
    OBVIOUS
  <2> HIDE DEF it
  <2>2. QED
    BY <1>3, <2>1
<1>7. KeysFree'
  <2> SUFFICES ASSUME NEW o \in Runners, NEW n \in run'[o].new
               PROVE  order[n.plan][n.due].copies = 0
    BY DEF KeysFree
  <2>1. CASE n \in run[o].new
    BY <2>1 DEF KeysFree
  <2>2. CASE n \notin run[o].new
    BY <1>4, <1>6, <2>2
  <2>3. QED
    BY <2>1, <2>2
<1>8. KeysOwned'
  <2> SUFFICES ASSUME NEW a \in Runners, NEW b \in Runners, NEW n \in run'[a].new,
                      NEW m \in run'[b].new, n.plan = m.plan, n.due = m.due
               PROVE  a = b
    BY DEF KeysOwned
  <2>1. CASE a # r /\ b # r
    BY <2>1 DEF KeysOwned
  <2>2. CASE a = r /\ b # r
    BY <2>2, <1>5, <1>6 DEF KeysOwned
  <2>3. CASE a # r /\ b = r
    BY <2>3, <1>5, <1>6 DEF KeysOwned
  <2>4. QED
    BY <2>1, <2>2, <2>3
<1>9. NewSaved'
  <2> SUFFICES ASSUME NEW o \in Runners, NEW n \in run'[o].new
               PROVE  \/ planLock[n.plan] = o
                      \/ /\ n.plan \in run'[o].todo /\ n.plan = Current(o)'
                         /\ (run'[o].moved \/ at'[o] = "save")
    BY DEF NewSaved
  <2>1. CASE o # r
    BY <2>1, <1>2 DEF NewSaved
  <2>2. CASE o = r
    BY <2>2, <1>1, <1>2, <1>6 DEF NewSaved, p
  <2>3. QED
    BY <2>1, <2>2
<1>10. LockedLive'
  BY DEF LockedLive, Live
<1>11. OnlyOpen'
  BY DEF OnlyOpen
<1>12. CopiedOnce' /\ EvidenceKeepsPlan'
  BY DEF CopiedOnce, EvidenceKeepsPlan, Protected, HasOrder, Live
<1>13. QED
  BY <1>7, <1>8, <1>9, <1>10, <1>11, <1>12

LEMMA OccurInv ==
  ASSUME Inv, NEW r \in Runners, Occur(r)
  PROVE  Inv'
<1> DEFINE p == Current(r)
           d == run[r].seen[p].due
           got == GotOrCreated(r, p, d, None)
           next == Advanced(r, p)
<1>1. TypeInv' /\ TypeInv
  BY OccurType DEF Inv
<1>2. run[r] \in Runs /\ p \in Plans /\ run[r].todo # {}
  BY <1>1, CurrentInTodo DEF Occur, AtPlan, TypeInv, TypeOK
<1>3. d \in Dates
  BY <1>1, <1>2 DEF Occur, IsDue, Row, TypeInv, RunShape, Runs, PlanRows
<1>4. /\ run'[r].new = got /\ run'[r].todo = run[r].todo /\ run'[r].moved
      /\ \A o \in Runners \ {r} : run'[o] = run[o]
  <2>1. run' = [run EXCEPT ![r].new = got, ![r].seen[p].due = next, ![r].moved = TRUE]
    BY DEF Occur, Row
  <2> HIDE DEF got, next, p
  <2>2. QED
    BY <2>1, <1>1, <1>2 DEF TypeInv, TypeOK, Runs
<1>5. at' = at /\ at[r] = "plan" /\ UNCHANGED <<plan, order, planLock>> /\ ~Contended(r, p, d)
  BY DEF Occur, AtPlan, Row
<1> HIDE DEF d
<1>6. QED
  BY <1>1, <1>2, <1>3, <1>4, <1>5, InsertStep

LEMMA MeterOrderInv ==
  ASSUME Inv, NEW r \in Runners, MeterOrder(r)
  PROVE  Inv'
<1> DEFINE p == Current(r)
           d == run[r].day
           h == run[r].seen[p].base
           got == GotOrCreated(r, p, d, h)
<1>1. TypeInv' /\ TypeInv
  BY MeterOrderType DEF Inv
<1>2. run[r] \in Runs /\ p \in Plans /\ run[r].todo # {}
  BY <1>1, CurrentInTodo DEF MeterOrder, TypeInv, TypeOK, RunShape
<1>3. d \in Dates /\ h \in Hours
  <2>1. d \in Days /\ run[r].seen[p] \in PlanRows
    BY <1>2 DEF Runs
  <2>2. Days \subseteq Dates
    BY SchedulerAssumption DEF Days, Dates
  <2>3. QED
    BY <2>1, <2>2 DEF PlanRows
<1>4. /\ run'[r].new = got /\ run'[r].todo = run[r].todo
      /\ \A o \in Runners \ {r} : run'[o] = run[o]
  <2>1. run' = [run EXCEPT ![r].new = got]
    BY DEF MeterOrder, Row
  <2> HIDE DEF got
  <2>2. QED
    BY <2>1, <1>1, <1>2 DEF TypeInv, TypeOK, Runs
<1>5. /\ at' = [at EXCEPT ![r] = "save"] /\ at[r] = "meter"
      /\ UNCHANGED <<plan, order, planLock>> /\ ~Contended(r, p, d)
  BY DEF MeterOrder
<1>6. at'[r] = "save" /\ \A o \in Runners \ {r} : at'[o] = at[o]
  BY <1>1, <1>5 DEF TypeInv, TypeOK
<1> HIDE DEF d, h
<1>7. QED
  BY <1>1, <1>2, <1>3, <1>4, <1>5, <1>6, InsertStep

(* A commit gives an order to exactly the keys the run has inserted. *)
LEMMA InsertedCopies ==
  ASSUME Inv, NEW r \in Runners, NEW p \in Plans, NEW d \in Dates
  PROVE  LET mine == \E n \in run[r].new : n.plan = p /\ n.due = d IN
         /\ mine => order[p][d].copies = 0 /\ Inserted(p, d, run[r].new).copies = 1
         /\ ~mine => Inserted(p, d, run[r].new) = order[p][d]
<1> DEFINE rows == {n \in run[r].new : n.plan = p /\ n.due = d}
<1>1. CASE rows = {}
  BY <1>1 DEF Inserted
<1>2. CASE rows # {}
  <2>1. order[p][d].copies = 0
    BY <1>2 DEF Inv, KeysFree
  <2>2. Inserted(p, d, run[r].new).copies = order[p][d].copies + 1
    BY <1>2 DEF Inserted
  <2>3. QED
    BY <1>2, <2>1, <2>2
<1>3. QED
  BY <1>1, <1>2

LEMMA CommitCompanyInv ==
  ASSUME Inv, NEW r \in Runners, CommitCompany(r)
  PROVE  Inv'
<1> USE DEF Inv
<1>1. TypeInv'
  BY CommitCompanyType
<1>2. /\ run'[r].new = {} /\ at'[r] = "company"
      /\ \A o \in Runners \ {r} : at'[o] = at[o] /\ run'[o] = run[o]
  BY DEF CommitCompany, NoRun, TypeInv, TypeOK
<1>3. \A o \in Runners \ {r} : Current(o)' = Current(o)
  BY <1>2 DEF Current
<1>4. \A p \in Plans, d \in Dates : order'[p][d] = Inserted(p, d, run[r].new)
  BY DEF CommitCompany
<1>5. \A p \in Plans : planLock'[p] = IF planLock[p] = r THEN None ELSE planLock[p]
  BY DEF CommitCompany
<1>6. \A p \in Plans : plan'[p].state = plan[p].state
  <2>1. \A p \in Plans : plan'[p] = IF planLock[p] = r THEN Saved(p, run[r].seen[p]) ELSE plan[p]
    BY DEF CommitCompany
  <2>2. QED
    BY <2>1, SavedType
<1>7. \A n \in run[r].new : n.plan \in Plans /\ planLock[n.plan] = r
  BY DEF CommitCompany, NewSaved, TypeInv, TypeOK, Runs, NewOrders
<1>8. KeysFree'
  <2> SUFFICES ASSUME NEW o \in Runners \ {r}, NEW m \in run[o].new
               PROVE  order'[m.plan][m.due].copies = 0
    BY <1>2 DEF KeysFree
  <2>1. m.plan \in Plans /\ m.due \in Dates
    BY DEF TypeInv, TypeOK, Runs, NewOrders
  <2>2. ~ \E n \in run[r].new : n.plan = m.plan /\ n.due = m.due
    BY DEF KeysOwned
  <2>3. QED
    BY <1>4, <2>1, <2>2, InsertedCopies DEF KeysFree
<1>9. KeysOwned'
  BY <1>2 DEF KeysOwned
<1>10. NewSaved'
  <2> SUFFICES ASSUME NEW o \in Runners \ {r}, NEW m \in run[o].new
               PROVE  \/ planLock'[m.plan] = o
                      \/ /\ m.plan \in run'[o].todo /\ m.plan = Current(o)'
                         /\ (run'[o].moved \/ at'[o] = "save")
    BY <1>2 DEF NewSaved
  <2>1. m.plan \in Plans
    BY DEF TypeInv, TypeOK, Runs, NewOrders
  <2>2. QED
    BY <1>2, <1>3, <1>5, <2>1 DEF NewSaved
<1>11. LockedLive'
  BY <1>5, <1>6 DEF LockedLive, Live
<1>12. OnlyOpen'
  BY <1>2 DEF OnlyOpen
<1>13. CopiedOnce'
  BY <1>4, InsertedCopies DEF CopiedOnce
<1>14. EvidenceKeepsPlan'
  <2> SUFFICES ASSUME NEW p \in Plans, NEW d \in Dates, order'[p][d].copies > 0
               PROVE  Live(p)
    BY <1>6 DEF EvidenceKeepsPlan, Protected, HasOrder, Live
  <2>1. CASE \E n \in run[r].new : n.plan = p /\ n.due = d
    BY <2>1, <1>7, SchedulerAssumption DEF LockedLive
  <2>2. CASE ~ \E n \in run[r].new : n.plan = p /\ n.due = d
    BY <2>2, <1>4, InsertedCopies DEF EvidenceKeepsPlan, Protected, HasOrder
  <2>3. QED
    BY <2>1, <2>2
<1>15. QED
  BY <1>1, <1>8, <1>9, <1>10, <1>11, <1>12, <1>13, <1>14

(* The named parts after a step of the panel: plans with orders, and plans   *)
(* some run has updated, stay.                                               *)
LEMMA PanelStep ==
  ASSUME Inv, TypeInv', UNCHANGED <<order, planLock, at, run>>,
         \A p \in Plans : Live(p) /\ (Protected(p) \/ planLock[p] # None) => plan'[p].state = "live"
  PROVE  Inv'
<1> USE DEF Inv
<1>1. KeysFree' /\ KeysOwned'
  BY DEF KeysFree, KeysOwned
<1>2. NewSaved'
  BY DEF NewSaved, Current
<1>3. LockedLive'
  BY DEF LockedLive, Live
<1>4. OnlyOpen'
  BY DEF OnlyOpen
<1>5. CopiedOnce' /\ EvidenceKeepsPlan'
  BY DEF CopiedOnce, EvidenceKeepsPlan, Protected, HasOrder, Live
<1>6. QED
  BY <1>1, <1>2, <1>3, <1>4, <1>5

LEMMA CreatePlanInv ==
  ASSUME Inv, NEW p \in Plans, CreatePlan(p)
  PROVE  Inv'
<1>1. TypeInv'
  BY CreatePlanType DEF Inv
<1>2. UNCHANGED <<order, planLock, at, run>>
  BY DEF CreatePlan
<1>3. ~Live(p) /\ \A q \in Plans \ {p} : plan'[q] = plan[q]
  BY DEF CreatePlan, Live, Inv, TypeInv, TypeOK
<1>4. QED
  BY <1>1, <1>2, <1>3, PanelStep DEF Live

LEMMA EditInv ==
  ASSUME Inv, NEW e \in Editors, EditStep(e)
  PROVE  Inv'
<1>1. TypeInv'
  BY BeginUpdateType, BeginToggleType, BeginDeleteType, SaveUpdateType,
     SaveToggleType, FinishDeleteType DEF EditStep, Inv
<1>2. CASE BeginUpdate(e) \/ BeginToggle(e) \/ BeginDelete(e)
  <2>1. UNCHANGED <<order, planLock, at, run>> /\ UNCHANGED plan
    BY <1>2 DEF BeginUpdate, BeginToggle, BeginDelete, Loads
  <2>2. QED
    BY <1>1, <2>1, PanelStep DEF Live
<1>3. CASE SaveUpdate(e)
  <2>1. Writes(e, "update") /\ edit[e].op = "update"
    BY <1>3 DEF SaveUpdate, Writes
  <2>2. edit[e].plan \in Plans /\ edit[e].row.state = "live"
    BY <2>1, EditedPlan DEF Inv, TypeInv, EditShape
  <2>3. \A p \in Plans : plan'[p].state = "live" \/ plan'[p] = plan[p]
    BY <1>3, <2>2 DEF SaveUpdate, Inv, TypeInv, TypeOK
  <2>4. QED
    BY <1>1, <2>1, <2>3, PanelStep DEF Live, Writes
<1>4. CASE SaveToggle(e)
  <2>1. Writes(e, "toggle")
    BY <1>4 DEF SaveToggle
  <2>2. \A p \in Plans : plan'[p].state = plan[p].state
    BY <1>4, <2>1, EditedPlan DEF SaveToggle, Inv, TypeInv, TypeOK, PlanRows
  <2>3. QED
    BY <1>1, <2>1, <2>2, PanelStep DEF Live, Writes
<1>5. CASE FinishDelete(e)
  <2>1. Writes(e, "delete") /\ planLock[edit[e].plan] = None
    BY <1>5 DEF FinishDelete, Writes
  <2>2. \A p \in Plans : p # edit[e].plan \/ Protected(p) => plan'[p] = plan[p]
    BY <1>5 DEF FinishDelete, Deleted, Inv, TypeInv, TypeOK
  <2>3. QED
    BY <1>1, <2>1, <2>2, PanelStep DEF Live, Writes
<1>6. QED
  BY <1>2, <1>3, <1>4, <1>5 DEF EditStep

LEMMA EnvironmentInv ==
  ASSUME Inv, NextDay \/ \E a \in Assets : Reading(a) \/ Retire(a)
  PROVE  Inv'
<1>1. TypeInv'
  BY EnvironmentType DEF Inv
<1>2. UNCHANGED <<order, planLock, at, run>> /\ UNCHANGED plan
  BY DEF NextDay, Reading, Retire
<1>3. QED
  BY <1>1, <1>2, PanelStep DEF Live

LEMMA RunStepInv ==
  ASSUME Inv, NEW r \in Runners, RunStep(r)
  PROVE  Inv'
BY OpenCompanyInv, OccurInv, MeasureInv, MeterOrderInv, SkipPlanInv, SavePlanInv,
   CommitCompanyInv, EndInv
   DEF RunStep, OccurFails, SaveFails, FinishRun

LEMMA NextInv ==
  ASSUME Inv, [Next]_vars
  PROVE  Inv'
<1>1. CASE \E r \in Runners : StartRun(r) \/ RunStep(r) \/ Crash(r)
  BY <1>1, StartRunInv, RunStepInv, EndInv DEF Crash
<1>2. CASE \E e \in Editors : EditStep(e)
  BY <1>2, EditInv
<1>3. CASE \E p \in Plans : CreatePlan(p)
  BY <1>3, CreatePlanInv
<1>4. CASE NextDay \/ \E a \in Assets : Reading(a) \/ Retire(a)
  BY <1>4, EnvironmentInv
<1>5. CASE UNCHANGED vars
  <2>1. TypeInv'
    BY <1>5, StutterType DEF Inv
  <2>2. UNCHANGED <<order, planLock, at, run>> /\ UNCHANGED plan
    BY <1>5 DEF vars
  <2>3. QED
    BY <2>1, <2>2, PanelStep DEF Live
<1>6. QED
  BY <1>1, <1>2, <1>3, <1>4, <1>5 DEF Next

LEMMA AlwaysInv == Spec => []Inv
<1>1. Init => Inv
  BY InitInv
<1>2. Inv /\ [Next]_vars => Inv'
  BY NextInv
<1>3. QED
  BY <1>1, <1>2, PTL DEF Spec

\* However often the daily job is repeated, overlaps or is killed, a plan has one
\* order for a date, with one copy of the checklist (_create_work_order).
THEOREM CopiedOnceHolds == Spec => []CopiedOnce
<1>1. Inv => CopiedOnce
  BY DEF Inv
<1>2. QED
  BY <1>1, AlwaysInv, PTL

\* No order loses its plan: not when plan_delete asked for orders before a run
\* committed the first one, and not when the run is the later of the two.
THEOREM EvidenceKeepsPlanHolds == Spec => []EvidenceKeepsPlan
<1>1. Inv => EvidenceKeepsPlan
  BY DEF Inv
<1>2. QED
  BY <1>1, AlwaysInv, PTL

(***************************************************************************)
(* No due date is passed over.  Every due date the plan's row has had, and   *)
(* every one a run computed from it, is a number of intervals after the date *)
(* the plan was created with, and all the dates on the way have an order: a  *)
(* committed one, or one the run itself has inserted.                        *)
(***************************************************************************)

(* Dates of plan p with a committed order, and with one run r has inserted. *)
Dated(p) == {d \in Dates : HasOrder(p, d)}

Pending(r, p) == {d \in Dates : \E n \in run[r].new : n.plan = p /\ n.due = d}

(* y is reached from s in whole intervals, and every date before it is served. *)
Reached(p, s, y, served) ==
  /\ y \in Nat /\ s <= y /\ (y - s) % EveryDays[p] = 0
  /\ \A d \in Dates : s <= d /\ d < y /\ (d - s) % EveryDays[p] = 0 => d \in served

NoUpdates == \A e \in Editors : edit[e].op # "update"

RowReached(p, s) ==
  plan[p].state = "live" /\ plan[p].calendar => Reached(p, s, plan[p].due, Dated(p))

SeenReached(r, p, s) ==
  run[r].seen[p].calendar =>
    /\ plan[p].state # "new"
    /\ Reached(p, s, run[r].seen[p].due, Dated(p) \cup Pending(r, p))
    /\ \A d \in Pending(r, p) : s <= d /\ (d - s) % EveryDays[p] = 0

StartedAt(p, s) == RowReached(p, s) /\ \A r \in Runners : SeenReached(r, p, s)

(* A run measures plans that it loaded as hour-meter plans. *)
MeterRows == \A r \in Runners : at[r] = "meter" => ~Row(r).calendar

DuesInv ==
  /\ Inv /\ NoUpdates /\ MeterRows
  /\ \A p \in Plans : \E s \in Dates : StartedAt(p, s)

LEMMA WholeMultiple ==
  ASSUME NEW n \in Nat \ {0}, NEW a \in Nat, a % n = 0
  PROVE  \E k \in Nat : a = n * k
<1>1. a \div n \in Nat /\ a = n * (a \div n) + (a % n)
  OBVIOUS
<1>2. a = n * (a \div n)
  BY <1>1
<1>3. QED
  BY <1>1, <1>2, Zenon

LEMMA MultiplesAdd ==
  ASSUME NEW n \in Nat \ {0}, NEW a \in Nat, NEW b \in Nat, a % n = 0, b % n = 0
  PROVE  (a + b) % n = 0
<1>1. PICK k \in Nat : a = n * k
  BY WholeMultiple
<1>2. PICK l \in Nat : b = n * l
  BY WholeMultiple
<1>3. a + b = n * (k + l)
  BY <1>1, <1>2
<1>4. \A m \in Nat : (n * m) % n = 0
  OBVIOUS
<1>5. QED
  BY <1>3, <1>4

(* Two multiples of n less than n apart are the same. *)
LEMMA MultiplesApart ==
  ASSUME NEW n \in Nat \ {0}, NEW a \in Nat, NEW b \in Nat, a % n = 0, b % n = 0,
         a <= b, b < a + n
  PROVE  a = b
<1>1. PICK k \in Nat : a = n * k
  BY WholeMultiple
<1>2. PICK l \in Nat : b = n * l
  BY WholeMultiple
<1>3. CASE l >= k + 1
  <2>1. PICK j \in Nat : l = k + 1 + j
    <3>1. l - k - 1 \in Nat /\ l = k + 1 + (l - k - 1)
      BY <1>3
    <3>2. QED
      BY <3>1
  <2>2. n * l = n * k + n + n * j /\ n * j >= 0
    BY <2>1
  <2>3. QED
    BY <1>1, <1>2, <2>2
<1>4. CASE l < k
  <2>1. PICK j \in Nat : k = l + 1 + j
    <3>1. k - l - 1 \in Nat /\ k = l + 1 + (k - l - 1)
      BY <1>4
    <3>2. QED
      BY <3>1
  <2>2. n * k = n * l + n + n * j /\ n * j >= 0
    BY <2>1
  <2>3. QED
    BY <1>1, <1>2, <2>2
<1>5. QED
  BY <1>1, <1>2, <1>3, <1>4

LEMMA NothingToServe ==
  ASSUME NEW p \in Plans, NEW s \in Dates, NEW served
  PROVE  Reached(p, s, s, served)
BY SchedulerAssumption DEF Reached, Dates

LEMMA ServedMore ==
  ASSUME NEW p \in Plans, NEW s \in Dates, NEW y, NEW served, NEW more,
         Reached(p, s, y, served), served \subseteq more
  PROVE  Reached(p, s, y, more)
BY DEF Reached

(* The due date after y is reached once y is served. *)
LEMMA ReachedNext ==
  ASSUME NEW p \in Plans, NEW s \in Dates, NEW y \in Dates, NEW served,
         Reached(p, s, y, served), y \in served
  PROVE  Reached(p, s, y + EveryDays[p], served)
<1> DEFINE n == EveryDays[p]
<1>1. n \in Nat \ {0} /\ s \in Nat /\ y \in Nat
  BY SchedulerAssumption DEF Dates
<1>2. s <= y /\ (y - s) % n = 0
  BY DEF Reached
<1>3. ((y + n) - s) % n = 0
  <2>1. n % n = 0 /\ y - s \in Nat
    BY <1>1, <1>2
  <2>2. ((y - s) + n) % n = 0
    BY <1>1, <1>2, <2>1, MultiplesAdd
  <2>3. (y + n) - s = (y - s) + n
    BY <1>1
  <2>4. QED
    BY <2>2, <2>3
<1>4. ASSUME NEW d \in Dates, s <= d, d < y + n, (d - s) % n = 0
      PROVE  d \in served
  <2>1. d \in Nat
    BY DEF Dates
  <2>2. CASE d < y
    BY <1>4, <2>2 DEF Reached
  <2>3. CASE y <= d
    <3>1. y - s \in Nat /\ d - s \in Nat /\ y - s <= d - s /\ d - s < (y - s) + n
      BY <1>1, <1>2, <1>4, <2>1, <2>3
    <3>2. y - s = d - s
      BY <1>1, <1>2, <1>4, <3>1, MultiplesApart
    <3>3. QED
      BY <1>1, <2>1, <3>2
  <2>4. QED
    BY <1>1, <2>1, <2>2, <2>3
<1>5. QED
  BY <1>1, <1>2, <1>3, <1>4 DEF Reached

(* From one reached date to a later one, all dates on the way are served. *)
LEMMA ServedBetween ==
  ASSUME NEW p \in Plans, NEW s \in Dates, NEW x, NEW y, NEW old, NEW served,
         Reached(p, s, x, old), Reached(p, s, y, served),
         NEW d \in Dates, x <= d, d < y, (d - x) % EveryDays[p] = 0
  PROVE  d \in served
<1> DEFINE n == EveryDays[p]
<1>1. n \in Nat \ {0} /\ s \in Nat /\ d \in Nat
  BY SchedulerAssumption DEF Dates
<1>2. x \in Nat /\ s <= x /\ (x - s) % n = 0 /\ y \in Nat
  BY DEF Reached
<1>3. x - s \in Nat /\ d - x \in Nat /\ d - s = (x - s) + (d - x)
  BY <1>1, <1>2
<1>4. (d - s) % n = 0
  BY <1>1, <1>2, <1>3, MultiplesAdd
<1>5. QED
  BY <1>1, <1>2, <1>4 DEF Reached

LEMMA NoUpdatesStay ==
  ASSUME "update" \notin Operations, Inv, NoUpdates, [Next]_vars
  PROVE  NoUpdates'
<1> USE DEF NoUpdates, Inv, TypeInv, TypeOK
<1>1. CASE \E r \in Runners : StartRun(r) \/ RunStep(r) \/ Crash(r)
  BY <1>1 DEF StartRun, Crash, EndRun, RunStep, OpenCompany, Occur, OccurFails, Measure,
              MeterOrder, SkipPlan, SavePlan, SaveFails, CommitCompany, FinishRun
<1>2. ASSUME NEW e \in Editors, EditStep(e) PROVE NoUpdates'
  <2>1. ~BeginUpdate(e)
    BY DEF BeginUpdate
  <2>2. \/ edit' = [edit EXCEPT ![e] = NoEdit]
        \/ /\ edit'[e].op \in {"toggle", "delete"}
           /\ \A o \in Editors \ {e} : edit'[o] = edit[o]
    BY <1>2, <2>1 DEF EditStep, BeginToggle, BeginDelete, Loads, SaveUpdate, SaveToggle,
                      FinishDelete, Writes
  <2>3. QED
    BY <2>2 DEF NoEdit
<1>3. CASE \E p \in Plans : CreatePlan(p)
  BY <1>3 DEF CreatePlan
<1>4. CASE NextDay \/ \E a \in Assets : Reading(a) \/ Retire(a)
  BY <1>4 DEF NextDay, Reading, Retire
<1>5. CASE UNCHANGED vars
  BY <1>5 DEF vars
<1>6. QED
  BY <1>1, <1>2, <1>3, <1>4, <1>5 DEF Next

(* A plan stays where it started when no order goes, its own date stays, and *)
(* what a run holds is what it held or what the row says.                    *)
LEMMA StartStays ==
  ASSUME NEW p \in Plans, NEW s \in Dates, StartedAt(p, s),
         Dated(p) \subseteq Dated(p)',
         plan'[p].state = "new" => plan[p].state = "new",
         plan'[p].state = "live" /\ plan'[p].calendar =>
           /\ plan[p].state = "live" /\ plan[p].calendar
           /\ plan'[p].due = plan[p].due,
         \A r \in Runners : run'[r].seen[p].calendar =>
           \/ /\ run[r].seen[p].calendar
              /\ run'[r].seen[p].due = run[r].seen[p].due
              /\ Pending(r, p)' = Pending(r, p)
           \/ /\ plan[p].state = "live" /\ plan[p].calendar
              /\ run'[r].seen[p].due = plan[p].due /\ Pending(r, p)' = {}
  PROVE  StartedAt(p, s)'
<1>1. RowReached(p, s)'
  BY ServedMore DEF StartedAt, RowReached
<1>2. ASSUME NEW r \in Runners, run'[r].seen[p].calendar
      PROVE  /\ plan'[p].state # "new"
             /\ Reached(p, s, run'[r].seen[p].due, Dated(p)' \cup Pending(r, p)')
             /\ \A d \in Pending(r, p)' : s <= d /\ (d - s) % EveryDays[p] = 0
  <2>1. CASE /\ run[r].seen[p].calendar
             /\ run'[r].seen[p].due = run[r].seen[p].due
             /\ Pending(r, p)' = Pending(r, p)
    <3>1. Dated(p) \cup Pending(r, p) \subseteq Dated(p)' \cup Pending(r, p)'
      BY <2>1
    <3>2. /\ plan[p].state # "new" /\ Reached(p, s, run[r].seen[p].due, Dated(p) \cup Pending(r, p))
          /\ \A d \in Pending(r, p) : s <= d /\ (d - s) % EveryDays[p] = 0
      BY <2>1 DEF StartedAt, SeenReached
    <3>3. QED
      BY <2>1, <3>1, <3>2, ServedMore
  <2>2. CASE /\ plan[p].state = "live" /\ plan[p].calendar
             /\ run'[r].seen[p].due = plan[p].due /\ Pending(r, p)' = {}
    <3>1. Dated(p) \subseteq Dated(p)' \cup Pending(r, p)'
      OBVIOUS
    <3>2. plan[p].state # "new" /\ Reached(p, s, plan[p].due, Dated(p))
      BY <2>2 DEF StartedAt, RowReached
    <3>3. QED
      BY <2>2, <3>1, <3>2, ServedMore
  <2>3. QED
    BY <1>2, <2>1, <2>2
<1>3. QED
  BY <1>1, <1>2 DEF StartedAt, SeenReached

(* An insertion adds to its plan only. *)
LEMMA PendingOthers ==
  ASSUME NEW r \in Runners, NEW c \in Plans, NEW y, NEW h,
         run'[r].new = GotOrCreated(r, c, y, h)
  PROVE  /\ \A p \in Plans \ {c} : Pending(r, p)' = Pending(r, p)
         /\ Pending(r, c) \subseteq Pending(r, c)' /\ Pending(r, c)' \subseteq Pending(r, c) \cup {y}
BY DEF GotOrCreated, Pending

(* The steps of a run that change no table. *)
LEMMA QuietDues ==
  ASSUME DuesInv, NEW r \in Runners, UNCHANGED <<plan, order>>,
         \A o \in Runners \ {r} : run'[o] = run[o],
         \A p \in Plans : run'[r].seen[p].calendar =>
           \/ /\ run[r].seen[p].calendar /\ run'[r].seen[p].due = run[r].seen[p].due
              /\ Pending(r, p)' = Pending(r, p)
           \/ /\ plan[p].state = "live" /\ plan[p].calendar
              /\ run'[r].seen[p].due = plan[p].due /\ Pending(r, p)' = {}
  PROVE  \A p \in Plans : \E s \in Dates : StartedAt(p, s)'
<1> SUFFICES ASSUME NEW p \in Plans PROVE \E s \in Dates : StartedAt(p, s)'
  OBVIOUS
<1>1. PICK s \in Dates : StartedAt(p, s)
  BY DEF DuesInv
<1>2. Dated(p)' = Dated(p)
  BY DEF Dated, HasOrder
<1>3. \A o \in Runners \ {r} : Pending(o, p)' = Pending(o, p)
  BY DEF Pending
<1>4. StartedAt(p, s)'
  BY <1>1, <1>2, <1>3, StartStays
<1>5. QED
  BY <1>4

LEMMA QuietRunDues ==
  ASSUME DuesInv, NEW r \in Runners,
         \/ StartRun(r) \/ EndRun(r) \/ OpenCompany(r) \/ Measure(r) \/ MeterOrder(r)
         \/ SkipPlan(r) \/ SavePlan(r)
  PROVE  \A p \in Plans : \E s \in Dates : StartedAt(p, s)'
<1> USE DEF DuesInv, Inv, TypeInv, TypeOK
<1>1. run[r] \in Runs
  OBVIOUS
<1>2. CASE StartRun(r) \/ EndRun(r)
  <2>1. run'[r].seen = NoRun.seen
    BY <1>2, NoRunType DEF StartRun, EndRun, Runs
  <2>2. UNCHANGED <<plan, order>> /\ \A o \in Runners \ {r} : run'[o] = run[o]
    BY <1>2 DEF StartRun, EndRun
  <2>3. QED
    BY <2>1, <2>2, NoRunType, NoPlanType, QuietDues
<1>3. CASE OpenCompany(r)
  <2>1. PICK todo \in SUBSET Plans :
          /\ \A p \in todo : plan[p].state = "live"
          /\ run'[r].seen = [p \in Plans |-> IF p \in todo THEN plan[p] ELSE NoPlan]
    <3>1. Schedulable(Least(run[r].left)) \in SUBSET Plans
      BY DEF Schedulable
    <3>2. \A p \in Schedulable(Least(run[r].left)) : plan[p].state = "live"
      BY DEF Schedulable, Live
    <3> HIDE DEF Schedulable, Least
    <3>3. QED
      BY <1>1, <1>3, <3>1, <3>2 DEF OpenCompany, Runs
  <2>2. UNCHANGED <<plan, order>> /\ \A o \in Runners \ {r} : run'[o] = run[o]
    BY <1>3 DEF OpenCompany
  <2>3. run'[r].new = {}
    BY <1>1, <1>3 DEF OpenCompany, OnlyOpen, Runs
  <2>4. \A p \in Plans : Pending(r, p)' = {}
    BY <2>3 DEF Pending
  <2>5. QED
    BY <2>1, <2>2, <2>4, NoPlanType, QuietDues
<1>4. CASE Measure(r)
  <2>1. /\ run'[r].new = run[r].new
        /\ \A p \in Plans : run'[r].seen[p].calendar = run[r].seen[p].calendar
                            /\ run'[r].seen[p].due = run[r].seen[p].due
    BY <1>1, <1>4 DEF Measure, Runs, PlanRows
  <2>2. UNCHANGED <<plan, order>> /\ \A o \in Runners \ {r} : run'[o] = run[o]
    BY <1>4 DEF Measure
  <2>3. \A p \in Plans : Pending(r, p)' = Pending(r, p)
    BY <2>1 DEF Pending
  <2>4. QED
    BY <2>1, <2>2, <2>3, QuietDues
<1>5. CASE MeterOrder(r)
  <2>1. PICK c \in Plans : c = Current(r)
    BY <1>5, CurrentInTodo DEF MeterOrder, RunShape
  <2>2. PICK h : h = Row(r).base
    OBVIOUS
  <2>3. run'[r].new = GotOrCreated(r, c, run[r].day, h) /\ run'[r].seen = run[r].seen
    BY <1>1, <1>5, <2>1, <2>2 DEF MeterOrder, Runs
  <2>4. UNCHANGED <<plan, order>> /\ \A o \in Runners \ {r} : run'[o] = run[o]
    BY <1>5 DEF MeterOrder
  <2>5. ~run[r].seen[c].calendar
    BY <1>5, <2>1 DEF MeterOrder, MeterRows, Row
  <2>6. \A p \in Plans \ {c} : Pending(r, p)' = Pending(r, p)
    BY <2>3, PendingOthers
  <2>7. QED
    BY <2>3, <2>4, <2>5, <2>6, QuietDues
<1>6. CASE SkipPlan(r) \/ SavePlan(r)
  <2>1. run'[r].new = run[r].new /\ run'[r].seen = run[r].seen
    BY <1>1, <1>6 DEF SkipPlan, SavePlan, Runs
  <2>2. UNCHANGED <<plan, order>> /\ \A o \in Runners \ {r} : run'[o] = run[o]
    BY <1>6 DEF SkipPlan, SavePlan
  <2>3. \A p \in Plans : Pending(r, p)' = Pending(r, p)
    BY <2>1 DEF Pending
  <2>4. QED
    BY <2>1, <2>2, <2>3, QuietDues
<1>7. QED
  BY <1>2, <1>3, <1>4, <1>5, <1>6

(* One round of the loop: the date it leaves has an order, here or committed. *)
LEMMA OccurDues ==
  ASSUME DuesInv, NEW r \in Runners, Occur(r)
  PROVE  \A p \in Plans : \E s \in Dates : StartedAt(p, s)'
<1>1. PICK c \in Plans : c = Current(r)
  BY CurrentInTodo DEF Occur, AtPlan, DuesInv, Inv
<1>2. TypeInv /\ run[r] \in Runs
  BY DEF DuesInv, Inv, TypeInv, TypeOK
<1>3. run[r].seen[c].calendar /\ run[r].seen[c].due \in Dates
  BY <1>2, <1>1 DEF Occur, IsDue, Row, TypeInv, RunShape, Runs, PlanRows
<1>4. PICK y \in Dates : y = run[r].seen[c].due
  BY <1>3
<1> DEFINE got == GotOrCreated(r, c, y, None)
           next == Advanced(r, c)
<1>5. next = y + EveryDays[c]
  BY <1>1, <1>4 DEF Row, Advanced
<1>6. UNCHANGED <<plan, order>> /\ \A o \in Runners \ {r} : run'[o] = run[o]
  <2>1. UNCHANGED <<plan, order>>
    BY DEF Occur
  <2>2. QED
    BY <1>2, <2>1 DEF Occur, TypeInv, TypeOK
<1>7. /\ run'[r].new = got
      /\ run'[r].seen[c].due = next
      /\ run'[r].seen[c].calendar = run[r].seen[c].calendar
      /\ \A p \in Plans \ {c} : run'[r].seen[p] = run[r].seen[p]
  <2>1. run' = [run EXCEPT ![r].new = got, ![r].seen[c].due = next, ![r].moved = TRUE]
    BY <1>1, <1>4 DEF Occur, Row
  <2> HIDE DEF got, next
  <2>2. QED
    BY <2>1, <1>2 DEF TypeInv, TypeOK, Runs, PlanRows
<1>8. run[r].new \subseteq run'[r].new
  BY <1>7 DEF GotOrCreated
<1>9. y \in Dated(c)' \cup Pending(r, c)'
  <2>1. CASE HasOrder(c, y)
    BY <1>6, <2>1 DEF Dated, HasOrder
  <2>2. CASE ~HasOrder(c, y)
    <3>1. [plan |-> c, due |-> y, acted |-> None] \in run'[r].new
      BY <1>7, <2>2 DEF GotOrCreated
    <3>2. \E n \in run'[r].new : n.plan = c /\ n.due = y
      BY <3>1
    <3>3. QED
      BY <3>2 DEF Pending
  <2>3. QED
    BY <2>1, <2>2
<1> HIDE DEF got, next
<1> SUFFICES ASSUME NEW p \in Plans PROVE \E s \in Dates : StartedAt(p, s)'
  OBVIOUS
<1>10. PICK s \in Dates : StartedAt(p, s)
  BY DEF DuesInv
<1>11. Dated(p)' = Dated(p)
  BY <1>6 DEF Dated, HasOrder
<1>12. \A o \in Runners \ {r} : Pending(o, p)' = Pending(o, p)
  BY <1>6 DEF Pending
<1>13. /\ p # c => Pending(r, p)' = Pending(r, p)
       /\ Pending(r, c) \subseteq Pending(r, c)' /\ Pending(r, c)' \subseteq Pending(r, c) \cup {y}
  BY <1>7, PendingOthers DEF got
<1>14. CASE p # c
  <2>1. StartedAt(p, s)'
    BY <1>6, <1>7, <1>10, <1>11, <1>12, <1>13, <1>14, StartStays
  <2>2. QED
    BY <2>1
<1>15. CASE p = c
  <2>1. RowReached(p, s)'
    BY <1>6, <1>10, <1>11 DEF StartedAt, RowReached
  <2>2. \A o \in Runners \ {r} : SeenReached(o, p, s)'
    BY <1>6, <1>10, <1>11, <1>12 DEF StartedAt, SeenReached
  <2>3. /\ plan[p].state # "new" /\ Reached(p, s, y, Dated(p) \cup Pending(r, p))
        /\ \A d \in Pending(r, p) : s <= d /\ (d - s) % EveryDays[p] = 0
    BY <1>3, <1>4, <1>10, <1>15 DEF StartedAt, SeenReached
  <2>4. Reached(p, s, y, Dated(p)' \cup Pending(r, p)')
    <3>1. Dated(p) \cup Pending(r, p) \subseteq Dated(p)' \cup Pending(r, p)'
      BY <1>11, <1>13, <1>15
    <3>2. QED
      BY <2>3, <3>1, ServedMore
  <2>5. Reached(p, s, y + EveryDays[p], Dated(p)' \cup Pending(r, p)')
    BY <1>9, <1>15, <2>4, ReachedNext
  <2>6. \A d \in Pending(r, p)' : s <= d /\ (d - s) % EveryDays[p] = 0
    BY <1>13, <1>15, <2>3 DEF Reached
  <2>7. SeenReached(r, p, s)'
    BY <1>5, <1>6, <1>7, <1>15, <2>3, <2>5, <2>6 DEF SeenReached
  <2>8. QED
    BY <2>1, <2>2, <2>7 DEF StartedAt
<1>16. QED
  BY <1>14, <1>15

(* The commit makes the run's orders everybody's. *)
LEMMA CommitDates ==
  ASSUME DuesInv, NEW r \in Runners, CommitCompany(r), NEW p \in Plans
  PROVE  Dated(p) \cup Pending(r, p) \subseteq Dated(p)'
<1> SUFFICES ASSUME NEW d \in Dated(p) \cup Pending(r, p) PROVE d \in Dated(p)'
  OBVIOUS
<1>1. d \in Dates /\ order'[p][d] = Inserted(p, d, run[r].new)
  BY DEF CommitCompany, Dated, Pending
<1>2. order'[p][d].copies > 0
  BY <1>1, InsertedCopies DEF DuesInv, Dated, Pending, HasOrder
<1>3. QED
  BY <1>1, <1>2 DEF Dated, HasOrder

(* What the commit writes to a row: the run's date, or the date it had. *)
LEMMA SavedDue ==
  ASSUME Inv, NEW r \in Runners, CommitCompany(r), NEW p \in Plans
  PROVE  /\ plan'[p].state = plan[p].state /\ plan'[p].calendar = plan[p].calendar
         /\ \/ plan'[p].due = plan[p].due
            \/ run[r].seen[p].calendar /\ plan'[p].due = run[r].seen[p].due
<1>1. plan[p] \in PlanRows
  BY DEF Inv, TypeInv, TypeOK
<1>2. plan'[p] = plan[p] \/ plan'[p] = Saved(p, run[r].seen[p])
  BY DEF CommitCompany
<1>3. CASE plan'[p] = plan[p]
  BY <1>3
<1>4. CASE plan'[p] = [plan[p] EXCEPT !.due = run[r].seen[p].due] /\ run[r].seen[p].calendar
  BY <1>1, <1>4 DEF PlanRows
<1>5. CASE plan'[p] = [plan[p] EXCEPT !.base = run[r].seen[p].base]
  BY <1>1, <1>5 DEF PlanRows
<1>6. QED
  BY <1>2, <1>3, <1>4, <1>5 DEF Saved

LEMMA CommitDues ==
  ASSUME DuesInv, NEW r \in Runners, CommitCompany(r)
  PROVE  \A p \in Plans : \E s \in Dates : StartedAt(p, s)'
<1> SUFFICES ASSUME NEW p \in Plans PROVE \E s \in Dates : StartedAt(p, s)'
  OBVIOUS
<1>1. PICK s \in Dates : StartedAt(p, s)
  BY DEF DuesInv
<1>2. \A o \in Runners \ {r} : run'[o] = run[o] /\ Pending(o, p)' = Pending(o, p)
  BY DEF CommitCompany, Pending
<1>3. ~run'[r].seen[p].calendar
  BY NoPlanType DEF CommitCompany, NoRun, NothingSeen, DuesInv, Inv, TypeInv, TypeOK
<1>4. Dated(p) \cup Pending(r, p) \subseteq Dated(p)'
  BY CommitDates
<1>5. /\ plan'[p].state = plan[p].state /\ plan'[p].calendar = plan[p].calendar
      /\ \/ plan'[p].due = plan[p].due
         \/ run[r].seen[p].calendar /\ plan'[p].due = run[r].seen[p].due
  BY SavedDue DEF DuesInv
<1>6. RowReached(p, s)'
  <2>1. CASE plan'[p].due = plan[p].due
    BY <1>1, <1>4, <1>5, <2>1, ServedMore DEF StartedAt, RowReached
  <2>2. CASE run[r].seen[p].calendar /\ plan'[p].due = run[r].seen[p].due
    <3>1. Reached(p, s, run[r].seen[p].due, Dated(p) \cup Pending(r, p))
      BY <1>1, <2>2 DEF StartedAt, SeenReached
    <3>2. Reached(p, s, run[r].seen[p].due, Dated(p)')
      BY <1>4, <3>1, ServedMore
    <3>3. QED
      BY <2>2, <3>2 DEF RowReached
  <2>3. QED
    BY <1>5, <2>1, <2>2
<1>7. \A o \in Runners \ {r} : SeenReached(o, p, s)'
  <2> SUFFICES ASSUME NEW o \in Runners \ {r}, run[o].seen[p].calendar
               PROVE  /\ plan'[p].state # "new"
                      /\ Reached(p, s, run[o].seen[p].due, Dated(p)' \cup Pending(o, p))
                      /\ \A d \in Pending(o, p) : s <= d /\ (d - s) % EveryDays[p] = 0
    BY <1>2 DEF SeenReached
  <2>1. /\ plan[p].state # "new" /\ Reached(p, s, run[o].seen[p].due, Dated(p) \cup Pending(o, p))
        /\ \A d \in Pending(o, p) : s <= d /\ (d - s) % EveryDays[p] = 0
    BY <1>1 DEF StartedAt, SeenReached
  <2>2. Dated(p) \cup Pending(o, p) \subseteq Dated(p)' \cup Pending(o, p)
    BY <1>4
  <2>3. QED
    BY <1>5, <2>1, <2>2, ServedMore
<1>8. SeenReached(r, p, s)'
  BY <1>3 DEF SeenReached
<1>9. QED
  BY <1>6, <1>7, <1>8 DEF StartedAt

(* The steps that leave the runs and the orders alone. *)
LEMMA PanelDues ==
  ASSUME DuesInv, UNCHANGED <<order, run>>,
         \A p \in Plans :
           /\ plan'[p].state = "new" => plan[p].state = "new"
           /\ plan'[p].state = "live" /\ plan'[p].calendar =>
                \/ plan[p].state = "new" /\ plan'[p].due \in Dates
                \/ /\ plan[p].state = "live" /\ plan[p].calendar
                   /\ plan'[p].due = plan[p].due
  PROVE  \A p \in Plans : \E s \in Dates : StartedAt(p, s)'
<1> SUFFICES ASSUME NEW p \in Plans PROVE \E s \in Dates : StartedAt(p, s)'
  OBVIOUS
<1>1. PICK s \in Dates : StartedAt(p, s)
  BY DEF DuesInv
<1>2. Dated(p)' = Dated(p) /\ \A r \in Runners : Pending(r, p)' = Pending(r, p)
  BY DEF Dated, HasOrder, Pending
<1>3. CASE plan[p].state = "new" /\ plan'[p].state = "live" /\ plan'[p].calendar
  <2>1. PICK t \in Dates : t = plan'[p].due
    BY <1>3
  <2>2. \A r \in Runners : ~run'[r].seen[p].calendar
    BY <1>1, <1>3 DEF StartedAt, SeenReached
  <2>3. StartedAt(p, t)'
    BY <2>1, <2>2, NothingToServe DEF StartedAt, RowReached, SeenReached
  <2>4. QED
    BY <2>3
<1>4. CASE ~(plan[p].state = "new" /\ plan'[p].state = "live" /\ plan'[p].calendar)
  <2>1. StartedAt(p, s)'
    BY <1>1, <1>2, <1>4, StartStays
  <2>2. QED
    BY <2>1
<1>5. QED
  BY <1>3, <1>4

(* Without edits of its fields a plan keeps its date and baseline until it goes. *)
LEMMA EditDues ==
  ASSUME Inv, NoUpdates, "update" \notin Operations, NEW e \in Editors, EditStep(e)
  PROVE  /\ UNCHANGED <<today, order, planLock, at, run>>
         /\ \A p \in Plans :
              \/ plan'[p].state = "gone"
              \/ /\ plan'[p].state = plan[p].state /\ plan'[p].calendar = plan[p].calendar
                 /\ plan'[p].due = plan[p].due /\ plan'[p].base = plan[p].base
<1> USE DEF Inv
<1>1. ~BeginUpdate(e) /\ ~SaveUpdate(e)
  BY DEF BeginUpdate, SaveUpdate, Writes, NoUpdates
<1>2. CASE BeginToggle(e) \/ BeginDelete(e)
  BY <1>2 DEF BeginToggle, BeginDelete, Loads, env
<1>3. CASE SaveToggle(e)
  <2>1. Writes(e, "toggle")
    BY <1>3 DEF SaveToggle
  <2>2. UNCHANGED <<today, order, planLock, at, run>>
    BY <2>1 DEF Writes, env
  <2>3. QED
    BY <1>3, <2>1, <2>2, EditedPlan DEF SaveToggle, TypeInv, TypeOK, PlanRows
<1>4. CASE FinishDelete(e)
  <2>1. Writes(e, "delete") /\ edit[e].plan \in Plans
    BY <1>4, EditedPlan DEF FinishDelete
  <2>2. UNCHANGED <<today, order, planLock, at, run>>
    BY <2>1 DEF Writes, env
  <2>3. plan' = [plan EXCEPT ![edit[e].plan] = Deleted(edit[e].plan)]
    BY <1>4 DEF FinishDelete
  <2>4. Deleted(edit[e].plan).state = "gone" \/ Deleted(edit[e].plan) = plan[edit[e].plan]
    BY NoPlanType DEF Deleted, PlanRows
  <2>5. QED
    BY <2>1, <2>2, <2>3, <2>4 DEF TypeInv, TypeOK
<1>5. QED
  BY <1>1, <1>2, <1>3, <1>4 DEF EditStep

LEMMA CreatePlanDues ==
  ASSUME DuesInv, NEW q \in Plans, CreatePlan(q)
  PROVE  /\ UNCHANGED <<order, run>> /\ plan[q].state = "new" /\ plan'[q].state = "live"
         /\ plan'[q].calendar => plan'[q].due \in Dates
         /\ \A p \in Plans \ {q} : plan'[p] = plan[p]
<1>1. Days \subseteq Dates
  BY SchedulerAssumption DEF Days, Dates
<1>2. QED
  BY <1>1 DEF CreatePlan, DuesInv, Inv, TypeInv, TypeOK

LEMMA MeterRowsStay ==
  ASSUME Inv, MeterRows, [Next]_vars
  PROVE  MeterRows'
<1> USE DEF Inv, TypeInv, TypeOK
<1>1. ASSUME NEW r \in Runners, StartRun(r) \/ RunStep(r) \/ Crash(r)
      PROVE  MeterRows'
  <2>1. \A o \in Runners \ {r} : at'[o] = at[o] /\ run'[o] = run[o]
    BY <1>1 DEF StartRun, Crash, EndRun, RunStep, OpenCompany, Occur, OccurFails, Measure,
                MeterOrder, SkipPlan, SavePlan, SaveFails, CommitCompany, FinishRun
  <2>2. CASE Measure(r)
    <3>1. PICK c \in Plans : c = Current(r)
      BY <2>2, CurrentInTodo DEF Measure, AtPlan
    <3>2. ~run[r].seen[c].calendar
      BY <2>2, <3>1 DEF Measure, Crossed, Row
    <3>3. PICK h : h = hours[AssetOf[c]]
      OBVIOUS
    <3>4. run' = [run EXCEPT ![r].seen[c].base = h]
      BY <2>2, <3>1, <3>3 DEF Measure
    <3>5. run'[r].todo = run[r].todo /\ ~run'[r].seen[c].calendar
      BY <3>2, <3>4 DEF Runs, PlanRows
    <3>6. ~Row(r)'.calendar
      BY <3>1, <3>5 DEF Row, Current
    <3>7. QED
      BY <2>1, <3>6 DEF MeterRows, Row, Current
  <2>3. CASE ~Measure(r)
    <3>1. at'[r] # "meter"
      BY <1>1, <2>3 DEF StartRun, Crash, EndRun, RunStep, OpenCompany, Occur, OccurFails,
                        MeterOrder, SkipPlan, SavePlan, SaveFails, CommitCompany, FinishRun, AtPlan
    <3>2. QED
      BY <2>1, <3>1 DEF MeterRows, Row, Current
  <2>4. QED
    BY <2>2, <2>3
<1>2. CASE UNCHANGED <<at, run>>
  BY <1>2 DEF MeterRows, Row, Current
<1>3. ASSUME NEW e \in Editors, EditStep(e) PROVE UNCHANGED <<at, run>>
  BY <1>3 DEF EditStep, BeginUpdate, BeginToggle, BeginDelete, Loads, SaveUpdate, SaveToggle,
              FinishDelete, Writes
<1>4. ASSUME NEW p \in Plans, CreatePlan(p) PROVE UNCHANGED <<at, run>>
  BY <1>4 DEF CreatePlan
<1>5. NextDay \/ UNCHANGED vars \/ (\E a \in Assets : Reading(a) \/ Retire(a)) => UNCHANGED <<at, run>>
  BY DEF NextDay, vars, Reading, Retire
<1>6. QED
  BY <1>1, <1>2, <1>3, <1>4, <1>5 DEF Next

LEMMA DuesNext ==
  ASSUME "update" \notin Operations, DuesInv, [Next]_vars
  PROVE  DuesInv'
<1>1. Inv' /\ NoUpdates'
  BY NextInv, NoUpdatesStay DEF DuesInv
<1>2. ASSUME NEW r \in Runners, StartRun(r) \/ RunStep(r) \/ Crash(r)
      PROVE  \A p \in Plans : \E s \in Dates : StartedAt(p, s)'
  <2>1. CASE CommitCompany(r)
    BY <2>1, CommitDues
  <2>2. CASE Occur(r)
    BY <2>2, OccurDues
  <2>3. CASE \/ StartRun(r) \/ EndRun(r) \/ OpenCompany(r) \/ Measure(r) \/ MeterOrder(r)
             \/ SkipPlan(r) \/ SavePlan(r)
    BY <2>3, QuietRunDues
  <2>4. QED
    BY <1>2, <2>1, <2>2, <2>3 DEF RunStep, OccurFails, SaveFails, FinishRun, Crash
<1>3. ASSUME NEW e \in Editors, EditStep(e)
      PROVE  \A p \in Plans : \E s \in Dates : StartedAt(p, s)'
  <2>1. UNCHANGED <<order, run>>
    BY <1>3, EditDues DEF DuesInv
  <2>2. \A p \in Plans :
          \/ plan'[p].state = "gone"
          \/ /\ plan'[p].state = plan[p].state /\ plan'[p].calendar = plan[p].calendar
             /\ plan'[p].due = plan[p].due
    BY <1>3, EditDues DEF DuesInv
  <2>3. QED
    BY <2>1, <2>2, PanelDues
<1>4. ASSUME NEW q \in Plans, CreatePlan(q)
      PROVE  \A p \in Plans : \E s \in Dates : StartedAt(p, s)'
  BY <1>4, CreatePlanDues, PanelDues
<1>5. ASSUME NextDay \/ UNCHANGED vars \/ \E a \in Assets : Reading(a) \/ Retire(a)
      PROVE  \A p \in Plans : \E s \in Dates : StartedAt(p, s)'
  <2>1. UNCHANGED <<order, run>> /\ UNCHANGED plan
    BY <1>5 DEF NextDay, vars, Reading, Retire
  <2>2. QED
    BY <2>1, PanelDues
<1>6. MeterRows'
  BY MeterRowsStay DEF DuesInv
<1>7. QED
  BY <1>1, <1>2, <1>3, <1>4, <1>5, <1>6 DEF Next, DuesInv

LEMMA DuesInit == Init => DuesInv
<1> SUFFICES ASSUME Init PROVE DuesInv
  OBVIOUS
<1>1. Inv /\ NoUpdates
  BY InitInv DEF Init, NoUpdates, NoEdit
<1>2. 0 \in Dates
  BY SchedulerAssumption DEF Dates
<1>3. \A p \in Plans : StartedAt(p, 0)
  BY NoPlanType DEF Init, StartedAt, RowReached, SeenReached, NoRun, NothingSeen
<1>4. MeterRows
  BY DEF Init, MeterRows
<1>5. QED
  BY <1>1, <1>2, <1>3, <1>4 DEF DuesInv

(* What one step may do to a due date. *)
DueStep ==
  \A p \in Plans :
    Live(p) /\ Live(p)' /\ plan[p].calendar /\ plan'[p].calendar =>
      \A d \in Dates :
        d >= plan[p].due /\ d < plan'[p].due /\ (d - plan[p].due) % EveryDays[p] = 0 =>
          order'[p][d].copies > 0

\* When a run moves a due date from d to d', every due date on the way has its
\* order: none is skipped by a crash, a rerun or another run (_generate_calendar).
NoDueSkipped == [][DueStep]_vars

(* The plan's dates before and after a step come from the same start. *)
LEMMA DueStepHolds ==
  ASSUME "update" \notin Operations, DuesInv, [Next]_vars
  PROVE  DueStep
<1>1. TypeInv /\ TypeInv'
  BY DuesNext DEF DuesInv, Inv
<1> SUFFICES ASSUME NEW p \in Plans,
                    Live(p), Live(p)', plan[p].calendar, plan'[p].calendar,
                    NEW d \in Dates, d >= plan[p].due, d < plan'[p].due,
                    (d - plan[p].due) % EveryDays[p] = 0
             PROVE  order'[p][d].copies > 0
  BY DEF DueStep
<1>2. plan[p].due \in Nat /\ plan'[p].due \in Nat /\ d \in Nat
  BY <1>1 DEF TypeInv, TypeOK, PlanRows, Dates
<1>3. plan'[p].due # plan[p].due
  BY <1>2
<1>4. PICK r \in Runners : CommitCompany(r)
  <2>1. ASSUME NEW r \in Runners, StartRun(r) \/ RunStep(r) \/ Crash(r)
        PROVE  CommitCompany(r) \/ UNCHANGED plan
    BY <2>1 DEF StartRun, Crash, EndRun, RunStep, OpenCompany, Occur, OccurFails, Measure,
                MeterOrder, SkipPlan, SavePlan, SaveFails, FinishRun
  <2>2. ~ \E e \in Editors : EditStep(e)
    BY <1>3, EditDues DEF DuesInv, Live
  <2>3. ~ \E q \in Plans : CreatePlan(q)
    BY <1>3, CreatePlanDues DEF Live
  <2>4. ~(NextDay \/ UNCHANGED vars \/ \E a \in Assets : Reading(a) \/ Retire(a))
    BY <1>3 DEF NextDay, vars, Reading, Retire
  <2>5. QED
    BY <1>3, <2>1, <2>2, <2>3, <2>4 DEF Next
<1>5. run[r].seen[p].calendar /\ plan'[p].due = run[r].seen[p].due
  BY <1>3, <1>4, SavedDue DEF DuesInv
<1>6. PICK s \in Dates : StartedAt(p, s)
  BY DEF DuesInv
<1>7. Reached(p, s, plan[p].due, Dated(p))
  BY <1>6 DEF StartedAt, RowReached, Live
<1>8. Reached(p, s, plan'[p].due, Dated(p) \cup Pending(r, p))
  BY <1>5, <1>6 DEF StartedAt, SeenReached
<1>9. d \in Dated(p) \cup Pending(r, p)
  BY <1>2, <1>7, <1>8, ServedBetween
<1>10. d \in Dated(p)'
  BY <1>4, <1>9, CommitDates
<1>11. QED
  BY <1>10 DEF Dated, HasOrder

\* As long as nobody edits a plan's schedule, a due date never moves over a date
\* that has no order, however the runs overlap, are killed or are repeated, and
\* also when the one that loaded the older date saves last (_generate_calendar).
THEOREM NoDueSkippedHolds ==
  ASSUME "update" \notin Operations
  PROVE  Spec => NoDueSkipped
<1>1. DuesInv /\ [Next]_vars => DuesInv'
  BY DuesNext
<1>2. DuesInv /\ [Next]_vars => [DueStep]_vars
  BY DueStepHolds
<1>3. QED
  BY <1>1, <1>2, DuesInit, PTL DEF Spec, NoDueSkipped

(***************************************************************************)
(* Waiting.  A run holds rows and keys of the plans it has passed, and keys  *)
(* of earlier dates of the plan it stands at, so whom it waits for has come  *)
(* further: to a later plan, to a later date, or to the save of this plan.   *)
(***************************************************************************)

(* Run r waits: for a key another run has inserted, or for the plan's row. *)
Saving(r) == at[r] = "save" \/ (AtPlan(r) /\ ~IsDue(r) /\ run[r].moved)

RunWaits(r) ==
  \/ AtPlan(r) /\ IsDue(r) /\ Contended(r, Current(r), Row(r).due)
  \/ at[r] = "meter" /\ Contended(r, Current(r), run[r].day)
  \/ Saving(r) /\ planLock[Current(r)] # None

\* Runs never wait for each other in a circle (generate_for_company takes the plans
\* by their keys, and _generate_calendar the dates one after the other).
SomeRunProceeds ==
  (\E r \in Runners : at[r] # "idle") => \E r \in Runners : at[r] # "idle" /\ ~RunWaits(r)

(* What run r has behind it: rows of earlier plans, earlier dates of this one. *)
RunTidy(r) ==
  /\ \A p \in Plans : planLock[p] = r =>
       at[r] \in {"plan", "meter", "save"} /\ \A q \in run[r].todo : p < q
  /\ \A n \in run[r].new : AtPlan(r) /\ n.plan = Current(r) =>
       Row(r).calendar /\ n.due < Row(r).due
  /\ at[r] = "meter" => \A n \in run[r].new : n.plan # Current(r)

(* There is a last plan, and runs and editors have only seen plans there are. *)
PlansBounded == \E m \in Nat : \A p \in Plans : plan[p].state # "new" => p <= m

SeenPlans ==
  /\ \A r \in Runners : \A p \in run[r].todo : plan[p].state # "new"
  /\ \A e \in Editors : edit[e].op # "none" => plan[edit[e].plan].state # "new"

WaitInv == Inv /\ (\A r \in Runners : RunTidy(r)) /\ PlansBounded /\ SeenPlans

LEMMA PlanKeys == Plans \subseteq Nat /\ None \notin Runners
BY SchedulerAssumption

LEMMA CurrentIsLeast ==
  ASSUME TypeInv, NEW r \in Runners, run[r].todo # {}
  PROVE  Current(r) \in run[r].todo /\ Current(r) \in Plans /\ \A q \in run[r].todo : Current(r) <= q
<1>1. run[r].todo \subseteq Nat /\ run[r].todo \subseteq Plans
  BY PlanKeys DEF TypeInv, TypeOK, Runs
<1>2. QED
  BY <1>1, LeastInSet DEF Current

(* Among natural numbers with a bound there is a greatest. *)
LEMMA GreatestInSet ==
  ASSUME NEW S, S \subseteq Nat, S # {}, NEW m \in Nat, \A x \in S : x <= m
  PROVE  \E x \in S : \A y \in S : y <= x
<1> DEFINE T == {m - x : x \in S}
<1>1. \A x \in S : x \in Nat /\ m - x \in Nat
  OBVIOUS
<1>2. T \subseteq Nat /\ T # {}
  BY <1>1
<1>3. PICK t \in T : \A u \in T : t <= u
  BY <1>2, LeastInSet
<1>4. PICK x \in S : t = m - x
  BY <1>3
<1>5. ASSUME NEW y \in S PROVE y <= x
  <2>1. m - x <= m - y
    BY <1>3, <1>4
  <2>2. QED
    BY <1>1, <2>1
<1>6. QED
  BY <1>5

(* A run that stands where it stood, with no more rows than it had. *)
LEMMA TidyStays ==
  ASSUME NEW o \in Runners, RunTidy(o), at'[o] = at[o], run'[o] = run[o],
         \A p \in Plans : planLock'[p] = o => planLock[p] = o
  PROVE  RunTidy(o)'
BY DEF RunTidy, AtPlan, Row, Current

(* Between two companies a run has nothing behind it. *)
LEMMA TidyBetween ==
  ASSUME NEW r \in Runners, at'[r] \in {"idle", "company"}, \A p \in Plans : planLock'[p] # r
  PROVE  RunTidy(r)'
BY DEF RunTidy, AtPlan

(* A run that comes to the next plan: what it inserted, it has saved. *)
LEMMA TidyNext ==
  ASSUME Inv', NEW r \in Runners, at'[r] = "plan", ~run'[r].moved,
         \A p \in Plans : planLock'[p] = r => \A q \in run'[r].todo : p < q
  PROVE  RunTidy(r)'
<1>1. ASSUME NEW n \in run'[r].new, run'[r].todo # {} PROVE n.plan # Least(run'[r].todo)
  <2>0. run'[r] \in Runs
    BY DEF Inv, TypeInv, TypeOK
  <2>1. run'[r].todo \subseteq Nat /\ n.plan \in Plans /\ n.plan \in Nat
    <3>1. run'[r].todo \subseteq Plans /\ n \in NewOrders
      BY <2>0 DEF Runs
    <3>2. QED
      BY <3>1, PlanKeys DEF NewOrders
  <2>2. Least(run'[r].todo) \in run'[r].todo
    BY <1>1, <2>1, LeastInSet
  <2>3. planLock'[n.plan] = r
    BY <1>1 DEF Inv, NewSaved
  <2>4. n.plan < Least(run'[r].todo)
    BY <2>1, <2>2, <2>3
  <2>5. QED
    BY <2>1, <2>4
<1>2. QED
  BY <1>1 DEF RunTidy, AtPlan, Current

LEMMA OpenCompanyTidy ==
  ASSUME WaitInv, NEW r \in Runners, OpenCompany(r)
  PROVE  RunTidy(r)'
<1>1. run[r].new = {} /\ run'[r].new = run[r].new
  BY DEF OpenCompany, WaitInv, Inv, OnlyOpen, TypeInv, TypeOK, Runs
<1>2. at'[r] = "plan" /\ \A p \in Plans : planLock'[p] # r
  BY DEF OpenCompany, WaitInv, RunTidy, Inv, TypeInv, TypeOK
<1>3. QED
  BY <1>1, <1>2 DEF RunTidy

LEMMA SkipPlanTidy ==
  ASSUME WaitInv, NEW r \in Runners, SkipPlan(r)
  PROVE  RunTidy(r)'
<1>1. Inv'
  BY NextInv DEF WaitInv, Next, RunStep
<1>2. /\ at'[r] = "plan" /\ ~run'[r].moved /\ planLock' = planLock
      /\ run'[r].todo \subseteq run[r].todo
  BY DEF SkipPlan, AtPlan, WaitInv, Inv, TypeInv, TypeOK, Runs
<1>3. QED
  BY <1>1, <1>2, TidyNext DEF WaitInv, RunTidy

LEMMA SavePlanTidy ==
  ASSUME WaitInv, NEW r \in Runners, SavePlan(r)
  PROVE  RunTidy(r)'
<1>1. Inv' /\ TypeInv
  BY NextInv DEF WaitInv, Inv, Next, RunStep
<1>2. run[r].todo # {}
  BY <1>1 DEF SavePlan, Saves, AtPlan, TypeInv, RunShape
<1>3. PICK c \in Plans : c = Current(r)
  BY <1>1, <1>2, CurrentIsLeast
<1>4. /\ at'[r] = "plan" /\ ~run'[r].moved /\ planLock' = [planLock EXCEPT ![c] = r]
      /\ run'[r].todo = run[r].todo \ {c}
  BY <1>1, <1>3 DEF SavePlan, TypeInv, TypeOK, Runs
<1>5. \A q \in run'[r].todo : c < q
  <2>1. \A q \in run[r].todo : c <= q /\ q \in Nat
    BY <1>1, <1>2, <1>3, CurrentIsLeast, PlanKeys DEF TypeInv, TypeOK, Runs
  <2>2. c \in Nat
    BY PlanKeys
  <2>3. QED
    BY <1>4, <2>1, <2>2
<1>6. ASSUME NEW p \in Plans, planLock'[p] = r, NEW q \in run'[r].todo PROVE p < q
  <2>1. p = c \/ planLock[p] = r
    BY <1>1, <1>4, <1>6 DEF TypeInv, TypeOK
  <2>2. q \in run[r].todo
    BY <1>4, <1>6
  <2>3. QED
    BY <1>5, <1>6, <2>1, <2>2 DEF WaitInv, RunTidy
<1>7. QED
  BY <1>1, <1>4, <1>6, TidyNext

LEMMA OccurTidy ==
  ASSUME WaitInv, NEW r \in Runners, Occur(r)
  PROVE  RunTidy(r)'
<1>1. PICK c \in Plans : c = Current(r)
  BY CurrentInTodo DEF Occur, AtPlan, WaitInv, Inv
<1>2. TypeInv /\ run[r] \in Runs /\ AtPlan(r)
  BY DEF Occur, WaitInv, Inv, TypeInv, TypeOK
<1>3. Row(r).calendar /\ Row(r).due \in Dates
  BY <1>1, <1>2 DEF Occur, IsDue, Row, TypeInv, RunShape, Runs, PlanRows
<1>4. PICK y \in Dates : y = Row(r).due
  BY <1>3
<1>5. PICK got : got = GotOrCreated(r, c, y, None)
  OBVIOUS
<1>6. PICK next : next = Advanced(r, c)
  OBVIOUS
<1>7. /\ run'[r].new = got /\ run'[r].todo = run[r].todo
      /\ run'[r].seen[c].due = next
      /\ run'[r].seen[c].calendar = run[r].seen[c].calendar
      /\ at' = at /\ planLock' = planLock
  <2>1. run' = [run EXCEPT ![r].new = got, ![r].seen[c].due = next, ![r].moved = TRUE]
    BY <1>1, <1>4, <1>5, <1>6 DEF Occur
  <2>2. at' = at /\ planLock' = planLock
    BY DEF Occur
  <2>3. QED
    BY <1>2, <2>1, <2>2 DEF TypeInv, TypeOK, Runs, PlanRows
<1>8. next = y + EveryDays[c] /\ y < next
  BY <1>4, <1>6, SchedulerAssumption DEF Advanced, Dates
<1>9. Current(r)' = c /\ AtPlan(r)'
  BY <1>1, <1>2, <1>7 DEF Current, AtPlan
<1>10. ASSUME NEW n \in run'[r].new, n.plan = c PROVE n.due < next
  <2>1. CASE n \in run[r].new
    <3>1. n.due < y /\ n.due \in Nat /\ y \in Nat /\ next \in Nat
      BY <1>1, <1>2, <1>4, <1>8, <1>10, <2>1, SchedulerAssumption
         DEF WaitInv, RunTidy, Runs, NewOrders, Dates
    <3>2. QED
      BY <1>8, <3>1
  <2>2. CASE n \notin run[r].new
    <3>1. got = run[r].new \/ got = run[r].new \cup {[plan |-> c, due |-> y, acted |-> None]}
      BY <1>5 DEF GotOrCreated
    <3>2. n = [plan |-> c, due |-> y, acted |-> None]
      BY <1>7, <2>2, <3>1
    <3>3. QED
      BY <1>8, <3>2
  <2>3. QED
    BY <2>1, <2>2
<1>11. \A p \in Plans : planLock[p] = r => \A q \in run[r].todo : p < q
  BY DEF WaitInv, RunTidy
<1>12. run[r].seen[c].calendar /\ at'[r] = "plan"
  BY <1>1, <1>2, <1>3, <1>7 DEF Row, AtPlan
<1>13. Row(r)'.calendar /\ Row(r)'.due = next
  BY <1>7, <1>9, <1>12 DEF Row
<1>14. QED
  BY <1>7, <1>9, <1>10, <1>11, <1>12, <1>13 DEF RunTidy

LEMMA MeasureTidy ==
  ASSUME WaitInv, NEW r \in Runners, Measure(r)
  PROVE  RunTidy(r)'
<1>1. /\ run'[r].new = run[r].new /\ run'[r].todo = run[r].todo
      /\ at'[r] = "meter" /\ planLock' = planLock /\ AtPlan(r)
  BY DEF Measure, WaitInv, Inv, TypeInv, TypeOK, Runs
<1>2. Current(r)' = Current(r) /\ ~Row(r).calendar
  BY <1>1 DEF Current, Measure, Crossed
<1>3. \A n \in run[r].new : n.plan # Current(r)
  BY <1>1, <1>2 DEF WaitInv, RunTidy
<1>4. \A p \in Plans : planLock[p] = r => \A q \in run[r].todo : p < q
  BY DEF WaitInv, RunTidy
<1>5. QED
  BY <1>1, <1>2, <1>3, <1>4 DEF RunTidy, AtPlan

LEMMA MeterOrderTidy ==
  ASSUME WaitInv, NEW r \in Runners, MeterOrder(r)
  PROVE  RunTidy(r)'
<1>1. run'[r].todo = run[r].todo /\ at'[r] = "save" /\ planLock' = planLock
  BY DEF MeterOrder, WaitInv, Inv, TypeInv, TypeOK, Runs
<1>2. \A p \in Plans : planLock[p] = r => \A q \in run[r].todo : p < q
  BY DEF WaitInv, RunTidy
<1>3. QED
  BY <1>1, <1>2 DEF RunTidy, AtPlan

(* Whatever run r does, it and the others keep behind them what they had. *)
LEMMA RunnersTidy ==
  ASSUME WaitInv, NEW r \in Runners, StartRun(r) \/ RunStep(r) \/ Crash(r)
  PROVE  \A o \in Runners : RunTidy(o)'
<1> USE DEF WaitInv, Inv, TypeInv, TypeOK
<1>1. ASSUME NEW o \in Runners \ {r} PROVE RunTidy(o)'
  <2>1. at'[o] = at[o] /\ run'[o] = run[o]
    BY DEF StartRun, Crash, EndRun, RunStep, OpenCompany, Occur, OccurFails, Measure,
           MeterOrder, SkipPlan, SavePlan, SaveFails, CommitCompany, FinishRun
  <2>2. \A p \in Plans : planLock'[p] = o => planLock[p] = o
    BY PlanKeys
       DEF StartRun, Crash, EndRun, RunStep, OpenCompany, Occur, OccurFails, Measure,
           MeterOrder, SkipPlan, SavePlan, SaveFails, CommitCompany, FinishRun
  <2>3. QED
    BY <2>1, <2>2, TidyStays
<1>2. RunTidy(r)'
  <2>1. CASE StartRun(r)
    <3>1. at'[r] = "company" /\ \A p \in Plans : planLock'[p] # r
      BY <2>1 DEF StartRun, RunTidy
    <3>2. QED
      BY <3>1, TidyBetween
  <2>2. CASE EndRun(r) \/ CommitCompany(r)
    <3>1. at'[r] \in {"idle", "company"} /\ \A p \in Plans : planLock'[p] # r
      BY <2>2, PlanKeys DEF EndRun, CommitCompany
    <3>2. QED
      BY <3>1, TidyBetween
  <2>3. QED
    BY <2>1, <2>2, OpenCompanyTidy, OccurTidy, MeasureTidy, MeterOrderTidy, SkipPlanTidy,
       SavePlanTidy DEF RunStep, OccurFails, SaveFails, FinishRun, Crash
<1>3. QED
  BY <1>1, <1>2

(* The plans a run or an editor knows are plans there are. *)
LEMMA RunnersSeen ==
  ASSUME WaitInv, NEW r \in Runners, StartRun(r) \/ RunStep(r) \/ Crash(r)
  PROVE  PlansBounded' /\ SeenPlans'
<1> USE DEF WaitInv, Inv, TypeInv, TypeOK
<1>1. \A p \in Plans : plan'[p].state = plan[p].state
  <2>1. CASE CommitCompany(r)
    BY <2>1, SavedDue
  <2>2. CASE ~CommitCompany(r)
    BY <2>2 DEF StartRun, Crash, EndRun, RunStep, OpenCompany, Occur, OccurFails, Measure,
                MeterOrder, SkipPlan, SavePlan, SaveFails, FinishRun
  <2>3. QED
    BY <2>1, <2>2
<1>2. edit' = edit /\ \A o \in Runners \ {r} : run'[o] = run[o]
  BY DEF StartRun, Crash, EndRun, RunStep, OpenCompany, Occur, OccurFails, Measure,
         MeterOrder, SkipPlan, SavePlan, SaveFails, CommitCompany, FinishRun
<1>3. \A p \in run'[r].todo : p \in Plans /\ plan[p].state # "new"
  <2>1. \A p \in run[r].todo : p \in Plans /\ plan[p].state # "new"
    BY DEF SeenPlans, Runs
  <2>2. CASE OpenCompany(r)
    <3>1. run'[r].todo = Schedulable(Least(run[r].left))
      BY <2>2 DEF OpenCompany, Runs
    <3>2. QED
      BY <3>1 DEF Schedulable, Live
  <2>5. CASE EndRun(r)
    <3>1. run'[r].todo = {}
      BY <2>5 DEF EndRun, NoRun
    <3>2. QED
      BY <3>1
  <2>3. CASE StartRun(r) \/ CommitCompany(r)
    <3>1. PICK day, left : run' = [run EXCEPT ![r] = [NoRun EXCEPT !.day = day, !.left = left]]
      BY <2>3 DEF StartRun, CommitCompany
    <3>2. run'[r].todo = {}
      BY <3>1 DEF NoRun
    <3>3. QED
      BY <3>2
  <2>4. CASE Occur(r) \/ Measure(r) \/ MeterOrder(r) \/ SkipPlan(r) \/ SavePlan(r)
    <3>1. run'[r].todo \subseteq run[r].todo
      BY <2>4 DEF Occur, Measure, MeterOrder, SkipPlan, SavePlan, Runs
    <3>2. QED
      BY <2>1, <3>1
  <2>6. QED
    BY <2>2, <2>3, <2>4, <2>5 DEF RunStep, OccurFails, SaveFails, FinishRun, Crash
<1>4. SeenPlans'
  <2>1. ASSUME NEW o \in Runners, NEW p \in run'[o].todo PROVE plan'[p].state # "new"
    <3>1. p \in Plans /\ plan[p].state # "new"
      BY <1>2, <1>3, <2>1 DEF SeenPlans, Runs
    <3>2. QED
      BY <1>1, <3>1
  <2>2. ASSUME NEW e \in Editors, edit'[e].op # "none" PROVE plan'[edit'[e].plan].state # "new"
    BY <1>1, <1>2, <2>2 DEF SeenPlans, EditShape
  <2>3. QED
    BY <2>1, <2>2 DEF SeenPlans
<1>5. QED
  BY <1>1, <1>4 DEF PlansBounded

(* A step of the panel moves no plan back to «new», and makes one at most. *)
LEMMA PanelSeen ==
  ASSUME WaitInv, UNCHANGED <<planLock, at, run>>, NEW q \in Plans,
         \A p \in Plans : plan[p].state # "new" => plan'[p].state # "new",
         \A p \in Plans : plan'[p].state # "new" => plan[p].state # "new" \/ p = q,
         \A e \in Editors : edit'[e].op # "none" =>
           edit'[e].plan \in Plans /\ plan[edit'[e].plan].state # "new"
  PROVE  PlansBounded' /\ SeenPlans' /\ \A o \in Runners : RunTidy(o)'
<1> USE DEF WaitInv
<1>1. \A o \in Runners : RunTidy(o)'
  BY TidyStays
<1>2. SeenPlans'
  <2>1. \A o \in Runners : \A p \in run'[o].todo : p \in Plans /\ plan[p].state # "new"
    BY DEF SeenPlans, Inv, TypeInv, TypeOK, Runs
  <2>2. QED
    BY <2>1 DEF SeenPlans
<1>3. PlansBounded'
  <2>1. PICK m \in Nat : \A p \in Plans : plan[p].state # "new" => p <= m
    BY DEF PlansBounded
  <2>2. \A p \in Plans : p \in Nat
    BY PlanKeys
  <2>3. m + q \in Nat /\ \A p \in Plans : plan'[p].state # "new" => p <= m + q
    BY <2>1, <2>2
  <2>4. QED
    BY <2>3 DEF PlansBounded
<1>4. QED
  BY <1>1, <1>2, <1>3

LEMMA EditSeen ==
  ASSUME WaitInv, NEW e \in Editors, EditStep(e)
  PROVE  PlansBounded' /\ SeenPlans' /\ \A o \in Runners : RunTidy(o)'
<1> USE DEF WaitInv, Inv, TypeInv, TypeOK
<1>1. CASE BeginUpdate(e) \/ BeginToggle(e) \/ BeginDelete(e)
  <2>1. PICK p \in Plans : \E op, row : Loads(e, op, p, row)
    <3>1. CASE BeginUpdate(e)
      BY <3>1 DEF BeginUpdate
    <3>2. CASE BeginToggle(e)
      BY <3>2 DEF BeginToggle
    <3>3. CASE BeginDelete(e)
      BY <3>3 DEF BeginDelete
    <3>4. QED
      BY <1>1, <3>1, <3>2, <3>3
  <2>2. UNCHANGED <<planLock, at, run>> /\ plan' = plan
    BY <2>1 DEF Loads
  <2>3. \A d \in Editors : edit'[d].op # "none" =>
          edit'[d].plan \in Plans /\ plan[edit'[d].plan].state # "new"
    BY <2>1 DEF Loads, Live, SeenPlans, EditShape
  <2>4. QED
    BY <2>1, <2>2, <2>3, PanelSeen
<1>2. ASSUME NEW op \in {"update", "toggle", "delete"}, Writes(e, op),
             NEW row, row.state # "new", plan' = [plan EXCEPT ![edit[e].plan] = row]
      PROVE  PlansBounded' /\ SeenPlans' /\ \A o \in Runners : RunTidy(o)'
  <2>1. edit[e].plan \in Plans /\ plan[edit[e].plan].state # "new"
    BY <1>2, EditedPlan DEF Writes, SeenPlans
  <2>2. UNCHANGED <<planLock, at, run>> /\ edit' = [edit EXCEPT ![e] = NoEdit]
    BY <1>2 DEF Writes
  <2>3. \A d \in Editors : edit'[d].op # "none" =>
          edit'[d].plan \in Plans /\ plan[edit'[d].plan].state # "new"
    BY <2>2 DEF NoEdit, SeenPlans, EditShape
  <2>4. \A p \in Plans : plan'[p].state # "new" <=> plan[p].state # "new"
    BY <1>2, <2>1
  <2>5. QED
    BY <2>1, <2>2, <2>3, <2>4, PanelSeen
<1>3. CASE SaveUpdate(e)
  <2>1. Writes(e, "update") /\ edit[e].row.state = "live"
    BY <1>3 DEF SaveUpdate, Writes, EditShape
  <2>2. QED
    BY <1>2, <1>3, <2>1 DEF SaveUpdate
<1>4. CASE SaveToggle(e)
  <2>1. Writes(e, "toggle")
    BY <1>4 DEF SaveToggle
  <2>2. PICK p \in Plans : p = edit[e].plan /\ plan[p].state # "new" /\ plan[p] \in PlanRows
    BY <2>1, EditedPlan DEF Writes, SeenPlans
  <2>3. PICK row : row = [plan[p] EXCEPT !.active = IF Live(p) THEN edit[e].row.active ELSE @]
    OBVIOUS
  <2>4. row.state = plan[p].state
    BY <2>2, <2>3 DEF PlanRows
  <2>5. plan' = [plan EXCEPT ![p] = row]
    BY <1>4, <2>2, <2>3 DEF SaveToggle
  <2>6. QED
    BY <1>2, <2>1, <2>2, <2>4, <2>5
<1>5. CASE FinishDelete(e)
  <2>1. Writes(e, "delete")
    BY <1>5 DEF FinishDelete
  <2>2. PICK p \in Plans : p = edit[e].plan /\ plan[p].state # "new"
    BY <2>1, EditedPlan DEF Writes, SeenPlans
  <2>3. Deleted(p).state # "new"
    BY <2>2, NoPlanType DEF Deleted, PlanRows
  <2>4. QED
    BY <1>2, <1>5, <2>1, <2>2, <2>3 DEF FinishDelete
<1>6. QED
  BY <1>1, <1>3, <1>4, <1>5 DEF EditStep

LEMMA WaitNext == WaitInv /\ [Next]_vars => WaitInv'
<1> SUFFICES ASSUME WaitInv, [Next]_vars PROVE WaitInv'
  OBVIOUS
<1>1. Inv'
  BY NextInv DEF WaitInv
<1>2. ASSUME NEW r \in Runners, StartRun(r) \/ RunStep(r) \/ Crash(r)
      PROVE  PlansBounded' /\ SeenPlans' /\ \A o \in Runners : RunTidy(o)'
  BY <1>2, RunnersTidy, RunnersSeen
<1>3. ASSUME NEW e \in Editors, EditStep(e)
      PROVE  PlansBounded' /\ SeenPlans' /\ \A o \in Runners : RunTidy(o)'
  BY <1>3, EditSeen
<1>4. ASSUME NEW q \in Plans, CreatePlan(q)
      PROVE  PlansBounded' /\ SeenPlans' /\ \A o \in Runners : RunTidy(o)'
  <2>1. UNCHANGED <<planLock, at, run>> /\ edit' = edit
    BY <1>4 DEF CreatePlan
  <2>2. plan[q].state = "new" /\ \A p \in Plans \ {q} : plan'[p] = plan[p]
    BY <1>4 DEF CreatePlan, WaitInv, Inv, TypeInv, TypeOK
  <2>3. \A e \in Editors : edit'[e].op # "none" =>
          edit'[e].plan \in Plans /\ plan[edit'[e].plan].state # "new"
    BY <2>1 DEF WaitInv, Inv, TypeInv, EditShape, SeenPlans
  <2>4. QED
    BY <2>1, <2>2, <2>3, PanelSeen
<1>5. ASSUME NextDay \/ UNCHANGED vars \/ \E a \in Assets : Reading(a) \/ Retire(a)
      PROVE  PlansBounded' /\ SeenPlans' /\ \A o \in Runners : RunTidy(o)'
  <2>1. UNCHANGED <<planLock, at, run>> /\ plan' = plan /\ edit' = edit
    BY <1>5 DEF NextDay, vars, Reading, Retire
  <2>2. QED
    BY <2>1, TidyStays DEF WaitInv, PlansBounded, SeenPlans
<1>6. QED
  BY <1>1, <1>2, <1>3, <1>4, <1>5 DEF Next, WaitInv

LEMMA WaitInit == Init => WaitInv
<1> SUFFICES ASSUME Init PROVE WaitInv
  OBVIOUS
<1>1. \A r \in Runners : RunTidy(r)
  BY PlanKeys DEF Init, RunTidy, AtPlan, NoRun
<1>2. PlansBounded
  <2>1. 0 \in Nat /\ \A p \in Plans : plan[p].state = "new"
    BY DEF Init, NothingSeen, NoPlan
  <2>2. QED
    BY <2>1 DEF PlansBounded
<1>3. SeenPlans
  BY DEF Init, NoRun, NoEdit, SeenPlans
<1>4. QED
  BY <1>1, <1>2, <1>3, InitInv DEF WaitInv

(* How far a run has come with the plan it stands at. *)
Stage(r) ==
  IF Saving(r) THEN LastDate + 1 ELSE IF at[r] = "meter" THEN 0 ELSE Row(r).due

(* Who waits for a run is behind it. *)
LEMMA WaitsForOneAhead ==
  ASSUME WaitInv, NEW r \in Runners, RunWaits(r),
         \A o \in Runners : at[o] # "idle" => RunWaits(o)
  PROVE  \E o \in Runners : /\ at[o] # "idle"
                            /\ \/ Current(r) < Current(o)
                               \/ Current(r) = Current(o) /\ Stage(r) < Stage(o)
<1> USE DEF WaitInv, Inv
<1>1. \A o \in Runners : RunWaits(o) =>
        /\ run[o].todo # {} /\ at[o] # "idle" /\ Current(o) \in Plans /\ Current(o) \in run[o].todo
  <2>1. ASSUME NEW o \in Runners, RunWaits(o) PROVE run[o].todo # {} /\ at[o] # "idle"
    BY <2>1 DEF RunWaits, Saving, AtPlan, TypeInv, RunShape
  <2>2. QED
    BY <2>1, CurrentIsLeast
<1>2. ASSUME NEW o \in Runners, planLock[Current(r)] = o
      PROVE  at[o] # "idle" /\ Current(r) < Current(o)
  <2>1. at[o] # "idle" /\ \A q \in run[o].todo : Current(r) < q
    BY <1>1, <1>2 DEF RunTidy
  <2>2. QED
    BY <1>1, <2>1
<1>3. CASE Saving(r) /\ planLock[Current(r)] # None
  <2>1. planLock[Current(r)] \in Runners
    BY <1>1, <1>3 DEF TypeInv, TypeOK
  <2>2. QED
    BY <1>2, <2>1
<1>4. ASSUME NEW d \in Dates, Contended(r, Current(r), d), Stage(r) = d \/ Stage(r) = 0
      PROVE  \E o \in Runners : /\ at[o] # "idle"
                                /\ \/ Current(r) < Current(o)
                                   \/ Current(r) = Current(o) /\ Stage(r) < Stage(o)
  <2>0. PICK o \in Runners \ {r} : \E n \in run[o].new : n.plan = Current(r) /\ n.due = d
    BY <1>4 DEF Contended
  <2>1. PICK n \in run[o].new : n.plan = Current(r) /\ n.due = d
    BY <2>0
  <2>2. CASE planLock[n.plan] = o
    BY <1>2, <2>1, <2>2
  <2>3. CASE n.plan = Current(o) /\ (run[o].moved \/ at[o] = "save")
    <3>1. at[o] # "idle" /\ RunWaits(o)
      BY <2>1, <2>3 DEF OnlyOpen
    <3>2. at[o] # "meter"
      BY <2>3 DEF RunTidy
    <3>3. d \in Nat /\ d <= LastDate /\ LastDate \in Nat
      BY SchedulerAssumption DEF Dates
    <3>4. CASE Saving(o)
      <4>1. Stage(o) = LastDate + 1
        BY <3>4 DEF Stage
      <4>2. Stage(r) < Stage(o)
        BY <1>4, <3>3, <4>1
      <4>3. QED
        BY <2>1, <2>3, <3>1, <4>2
    <3>5. CASE ~Saving(o)
      <4>1. AtPlan(o)
        BY <3>1, <3>2, <3>5 DEF RunWaits
      <4>2. Stage(o) = Row(o).due
        BY <3>2, <3>5 DEF Stage
      <4>3. Row(o).calendar /\ d < Row(o).due
        BY <2>1, <2>3, <4>1 DEF RunTidy
      <4>4. Row(o).due \in Nat
        <5>1. Current(o) \in Plans /\ run[o] \in Runs
          BY <1>1, <3>1 DEF TypeInv, TypeOK
        <5>2. Row(o) \in PlanRows /\ Row(o).due # None
          BY <4>3, <5>1 DEF Row, TypeInv, RunShape, Runs
        <5>3. QED
          BY <5>2, SchedulerAssumption DEF PlanRows, Dates
      <4>5. Stage(r) < Stage(o)
        BY <1>4, <3>3, <4>2, <4>3, <4>4
      <4>6. QED
        BY <2>1, <2>3, <3>1, <4>5
    <3>6. QED
      BY <3>4, <3>5
  <2>4. QED
    BY <2>2, <2>3 DEF NewSaved
<1>5. CASE AtPlan(r) /\ IsDue(r) /\ Contended(r, Current(r), Row(r).due)
  <2>1. Row(r).due \in Dates
    BY <1>1, <1>5 DEF IsDue, Row, TypeInv, TypeOK, RunShape, Runs, PlanRows
  <2>2. Stage(r) = Row(r).due
    BY <1>5 DEF Stage, Saving, AtPlan
  <2>3. QED
    BY <1>4, <1>5, <2>1, <2>2
<1>6. CASE at[r] = "meter" /\ Contended(r, Current(r), run[r].day)
  <2>1. run[r].day \in Dates
    BY SchedulerAssumption DEF TypeInv, TypeOK, Runs, Days, Dates
  <2>2. Stage(r) = 0
    BY <1>6 DEF Stage, Saving, AtPlan
  <2>3. QED
    BY <1>4, <1>6, <2>1, <2>2
<1>7. QED
  BY <1>3, <1>5, <1>6 DEF RunWaits

LEMMA WaitProceeds == WaitInv => SomeRunProceeds
<1> SUFFICES ASSUME WaitInv, NEW r0 \in Runners, at[r0] # "idle",
                    \A r \in Runners : at[r] # "idle" => RunWaits(r)
             PROVE  FALSE
  BY DEF SomeRunProceeds
<1> DEFINE Busy == {r \in Runners : at[r] # "idle"}
<1>1. \A r \in Busy : run[r].todo # {} /\ Current(r) \in Plans /\ plan[Current(r)].state # "new"
  <2>1. ASSUME NEW r \in Busy PROVE run[r].todo # {}
    BY DEF RunWaits, Saving, AtPlan, WaitInv, Inv, TypeInv, RunShape
  <2>2. QED
    BY <2>1, CurrentIsLeast DEF WaitInv, Inv, SeenPlans
<1>2. PICK p \in Nat : /\ \E r \in Busy : Current(r) = p
                       /\ \A r \in Busy : Current(r) \in Nat /\ Current(r) <= p
  <2> DEFINE S == {Current(r) : r \in Busy}
  <2>1. PICK m \in Nat : \A q \in Plans : plan[q].state # "new" => q <= m
    BY DEF WaitInv, PlansBounded
  <2>2. S \subseteq Nat /\ S # {} /\ \A x \in S : x <= m
    BY <1>1, <2>1, PlanKeys
  <2>3. PICK x \in S : \A y \in S : y <= x
    BY <2>2, GreatestInSet
  <2>4. x \in Nat /\ (\E r \in Busy : Current(r) = x)
    BY <2>2, <2>3
  <2>5. \A r \in Busy : Current(r) \in S
    OBVIOUS
  <2>6. QED
    BY <2>2, <2>3, <2>4, <2>5
<1>3. \A r \in Busy : Stage(r) \in Nat /\ Stage(r) <= LastDate + 1
  <2> SUFFICES ASSUME NEW r \in Busy PROVE Stage(r) \in Nat /\ Stage(r) <= LastDate + 1
    OBVIOUS
  <2>1. LastDate \in Nat
    BY SchedulerAssumption
  <2>2. CASE Saving(r) \/ at[r] = "meter"
    BY <2>1, <2>2 DEF Stage
  <2>3. CASE ~Saving(r) /\ at[r] # "meter"
    <3>1. IsDue(r)
      BY <2>3 DEF RunWaits
    <3>2. Row(r).due \in Dates
      BY <1>1, <3>1 DEF WaitInv, Inv, IsDue, Row, TypeInv, TypeOK, RunShape, Runs, PlanRows
    <3>3. Stage(r) = Row(r).due
      BY <2>3 DEF Stage
    <3>4. QED
      BY <2>1, <3>2, <3>3 DEF Dates
  <2>4. QED
    BY <2>2, <2>3
<1> DEFINE Last == {r \in Busy : Current(r) = p}
<1>4. PICK r \in Last : \A o \in Last : Stage(o) <= Stage(r)
  <2> DEFINE S == {Stage(r) : r \in Last}
  <2>1. S \subseteq Nat /\ S # {} /\ \A x \in S : x <= LastDate + 1
    BY <1>2, <1>3
  <2>2. LastDate + 1 \in Nat
    BY SchedulerAssumption
  <2> HIDE DEF Last
  <2>3. PICK x \in S : \A y \in S : y <= x
    BY <2>1, <2>2, GreatestInSet
  <2>4. QED
    BY <2>3
<1>5. PICK o \in Runners : /\ at[o] # "idle"
                           /\ \/ Current(r) < Current(o)
                              \/ Current(r) = Current(o) /\ Stage(r) < Stage(o)
  BY <1>4, WaitsForOneAhead
<1>6. QED
  BY <1>2, <1>3, <1>4, <1>5

\* Whenever runs are in progress one of them does not wait, for any number of runs and plans:
\* all take the plans by their keys and a plan's dates in order, so whoever is waited for
\* stands at a later plan or date, or saves (generate_for_company, _generate_calendar).
THEOREM RunsProceed == Spec => []SomeRunProceeds
BY WaitInit, WaitNext, WaitProceeds, PTL DEF Spec

(***************************************************************************)
(* Hour meters.  Where runs do not overlap and nobody edits a plan's fields, *)
(* a plan's baseline is the reading of its last order: the orders of its     *)
(* crossings are an interval apart.  Either of the two breaks it.            *)
(***************************************************************************)

OneRun == \A r, o \in Runners : r = o

(* Run r works on the crossing of plan p. *)
AtMeter(r, p) == at[r] \in {"meter", "save"} /\ p = Current(r)

(* Orders of crossings are not ahead of the day, nor of the plan's baseline. *)
CommittedMeter ==
  \A p \in Plans, d \in Dates : order[p][d].acted # None =>
    /\ HasOrder(p, d) /\ d <= today /\ order[p][d].acted <= plan[p].base
    /\ \A r \in Runners : at[r] # "idle" => d <= run[r].day

(* What run r has inserted for a crossing: today, and an interval after the baseline. *)
InsertedMeter(r) ==
  \A n \in run[r].new : n.acted # None =>
    /\ n.due = run[r].day
    /\ ~run[r].seen[n.plan].calendar /\ n.acted <= run[r].seen[n.plan].base
    /\ Live(n.plan) => n.acted >= plan[n.plan].base + EveryHours[n.plan]

(* The baselines run r has loaded are the rows', until it finds a crossing. *)
SeenMeter(r) ==
  /\ \A p \in run[r].todo : Live(p) /\ ~AtMeter(r, p) => run[r].seen[p].base = plan[p].base
  /\ \A p \in Plans : planLock[p] = r \/ (AtMeter(r, p) /\ Live(p)) =>
       run[r].seen[p].base >= plan[p].base
  /\ at[r] = "meter" =>
       /\ ~Row(r).calendar
       /\ Live(Current(r)) => Row(r).base >= plan[Current(r)].base + EveryHours[Current(r)]

RunMeter(r) == (at[r] # "idle" => run[r].day <= today) /\ InsertedMeter(r) /\ SeenMeter(r)

MeterInv ==
  /\ WaitInv /\ NoUpdates /\ MeterSpacing
  /\ CommittedMeter /\ \A r \in Runners : RunMeter(r)

LEMMA MeterTypes ==
  ASSUME TypeInv
  PROVE  /\ today \in Nat
         /\ \A p \in Plans : plan[p].base \in Nat /\ EveryHours[p] \in Nat \ {0}
         /\ \A p \in Plans, d \in Dates : d \in Nat /\ order[p][d].acted \in Nat \cup {None}
         /\ \A r \in Runners :
              /\ run[r].day \in Nat
              /\ \A p \in Plans : run[r].seen[p].base \in Nat
              /\ \A n \in run[r].new :
                   n.plan \in Plans /\ n.due \in Dates /\ n.acted \in Nat \cup {None}
<1>1. Hours \subseteq Nat /\ Days \subseteq Nat /\ Dates \subseteq Nat
  BY SchedulerAssumption DEF Hours, Days, Dates
<1>2. \A p \in Plans : plan[p].base \in Nat /\ EveryHours[p] \in Nat \ {0}
  BY <1>1, SchedulerAssumption DEF TypeInv, TypeOK, PlanRows
<1>3. \A p \in Plans, d \in Dates : order[p][d].acted \in Nat \cup {None}
  BY <1>1 DEF TypeInv, TypeOK, OrderRows
<1>4. \A r \in Runners : run[r] \in Runs
  BY DEF TypeInv, TypeOK
<1>5. \A r \in Runners : run[r].day \in Nat /\ \A p \in Plans : run[r].seen[p].base \in Nat
  BY <1>1, <1>4 DEF Runs, PlanRows
<1>6. \A r \in Runners : \A n \in run[r].new :
        n.plan \in Plans /\ n.due \in Dates /\ n.acted \in Nat \cup {None}
  BY <1>1, <1>4 DEF Runs, NewOrders
<1>7. QED
  BY <1>1, <1>2, <1>3, <1>5, <1>6 DEF TypeInv, TypeOK

(* The plans a run works on are there. *)
LEMMA PlansAtWork ==
  ASSUME WaitInv, NEW r \in Runners
  PROVE  /\ \A p \in run[r].todo : p \in Plans /\ plan[p].state # "new"
         /\ \A n \in run[r].new : n.plan \in Plans /\ plan[n.plan].state # "new"
         /\ \A p \in Plans : planLock[p] = r => Live(p)
         /\ at[r] \in {"meter", "save"} => Current(r) \in run[r].todo
<1>1. \A p \in run[r].todo : p \in Plans /\ plan[p].state # "new"
  BY DEF WaitInv, Inv, SeenPlans, TypeInv, TypeOK, Runs
<1>2. \A p \in Plans : planLock[p] = r => Live(p)
  BY PlanKeys DEF WaitInv, Inv, LockedLive
<1>3. \A n \in run[r].new : n.plan \in Plans
  BY MeterTypes DEF WaitInv, Inv
<1>4. \A n \in run[r].new : plan[n.plan].state # "new"
  BY <1>1, <1>2, <1>3 DEF WaitInv, Inv, NewSaved, Live
<1>5. at[r] \in {"meter", "save"} => Current(r) \in run[r].todo
  BY CurrentInTodo DEF WaitInv, Inv, TypeInv, RunShape
<1>6. QED
  BY <1>1, <1>2, <1>3, <1>4, <1>5

(* The panel, the machines and the calendar. *)
LEMMA PanelMeter ==
  ASSUME MeterInv, WaitInv', UNCHANGED <<planLock, at, run, order>>, today' \in {today, today + 1},
         \A p \in Plans :
           \/ plan'[p].state = plan[p].state /\ plan'[p].base = plan[p].base
           \/ plan'[p].state = "gone"
           \/ plan[p].state = "new"
  PROVE  MeterSpacing' /\ CommittedMeter' /\ \A r \in Runners : RunMeter(r)'
<1> USE DEF MeterInv
<1>1. TypeInv
  BY DEF WaitInv, Inv
<1>2. MeterSpacing'
  BY DEF MeterSpacing
<1>3. \A p \in Plans : Live(p)' => (Live(p) /\ plan'[p].base = plan[p].base) \/ plan[p].state = "new"
  BY DEF Live
<1>4. CommittedMeter'
  <2> SUFFICES ASSUME NEW p \in Plans, NEW d \in Dates, order[p][d].acted # None
               PROVE  /\ HasOrder(p, d)' /\ d <= today' /\ order[p][d].acted <= plan'[p].base
                      /\ \A r \in Runners : at'[r] # "idle" => d <= run'[r].day
    BY DEF CommittedMeter
  <2>1. /\ HasOrder(p, d) /\ d <= today /\ order[p][d].acted <= plan[p].base
        /\ \A r \in Runners : at[r] # "idle" => d <= run[r].day
    BY DEF CommittedMeter
  <2>2. Live(p) /\ Live(p)'
    BY <2>1 DEF WaitInv, Inv, EvidenceKeepsPlan, Protected, HasOrder
  <2>3. plan'[p].base = plan[p].base
    BY <1>3, <2>2 DEF Live
  <2>4. d <= today'
    BY <1>1, <2>1, MeterTypes
  <2>5. QED
    BY <2>1, <2>3, <2>4 DEF HasOrder
<1>5. ASSUME NEW r \in Runners PROVE RunMeter(r)'
  <2>1. at'[r] # "idle" => run'[r].day <= today'
    BY <1>1, MeterTypes DEF RunMeter
  <2>2. InsertedMeter(r)'
    <3> SUFFICES ASSUME NEW n \in run[r].new, n.acted # None
                 PROVE  /\ n.due = run[r].day
                        /\ ~run[r].seen[n.plan].calendar /\ n.acted <= run[r].seen[n.plan].base
                        /\ Live(n.plan)' => n.acted >= plan'[n.plan].base + EveryHours[n.plan]
      BY DEF InsertedMeter
    <3>1. n.plan \in Plans /\ plan[n.plan].state # "new"
      BY PlansAtWork
    <3>2. QED
      BY <1>3, <3>1 DEF RunMeter, InsertedMeter
  <2>3. SeenMeter(r)'
    <3>1. \A p \in run[r].todo : p \in Plans /\ plan[p].state # "new"
      BY PlansAtWork
    <3>2. \A p \in Plans : planLock[p] = r => Live(p) /\ Live(p)'
      BY PlanKeys, PlansAtWork DEF WaitInv, Inv, LockedLive
    <3>3. Current(r)' = Current(r) /\ Row(r)' = Row(r) /\ \A p \in Plans : AtMeter(r, p)' <=> AtMeter(r, p)
      BY DEF Current, Row, AtMeter
    <3>4. \A p \in run[r].todo : Live(p)' /\ ~AtMeter(r, p) => run[r].seen[p].base = plan'[p].base
      BY <1>3, <3>1 DEF RunMeter, SeenMeter
    <3>5. \A p \in Plans : planLock[p] = r \/ (AtMeter(r, p) /\ Live(p)') =>
            run[r].seen[p].base >= plan'[p].base
      <4> SUFFICES ASSUME NEW p \in Plans, planLock[p] = r \/ (AtMeter(r, p) /\ Live(p)')
                   PROVE  run[r].seen[p].base >= plan'[p].base
        OBVIOUS
      <4>1. plan[p].state # "new"
        BY <3>1, <3>2, PlansAtWork DEF AtMeter, Live
      <4>2. Live(p)'
        BY <3>2
      <4>3. Live(p) /\ plan'[p].base = plan[p].base
        BY <1>3, <4>1, <4>2
      <4>4. QED
        BY <4>3 DEF RunMeter, SeenMeter
    <3>6. at[r] = "meter" =>
            /\ ~Row(r).calendar
            /\ Live(Current(r))' => Row(r).base >= plan'[Current(r)].base + EveryHours[Current(r)]
      <4>1. at[r] = "meter" => Current(r) \in Plans /\ plan[Current(r)].state # "new"
        BY <3>1, PlansAtWork
      <4>2. PICK c : c = Current(r)
        OBVIOUS
      <4>3. Current(r)' = c
        BY <3>3, <4>2
      <4>4. at[r] = "meter" /\ Live(c)' => Live(c) /\ plan'[c].base = plan[c].base
        BY <1>3, <4>1, <4>2
      <4>5. QED
        BY <4>2, <4>3, <4>4 DEF RunMeter, SeenMeter, Live
    <3>7. QED
      BY <3>1, <3>3, <3>4, <3>5, <3>6 DEF SeenMeter, Live
  <2>4. QED
    BY <2>1, <2>2, <2>3 DEF RunMeter
<1>6. QED
  BY <1>2, <1>4, <1>5

(* A run's step that commits nothing: what there is to show of it is its memory. *)
LEMMA RunnerMeter ==
  ASSUME MeterInv, OneRun, NEW r \in Runners, UNCHANGED <<today, plan, order>>,
         \/ at'[r] = "idle"
         \/ at[r] # "idle" /\ run'[r].day = run[r].day
         \/ run'[r].day = today,
         InsertedMeter(r)', SeenMeter(r)'
  PROVE  MeterSpacing' /\ CommittedMeter' /\ \A o \in Runners : RunMeter(o)'
<1>1. \A o \in Runners : o = r
  BY DEF OneRun
<1>2. MeterSpacing'
  BY DEF MeterInv, MeterSpacing
<1>3. CommittedMeter'
  BY <1>1 DEF MeterInv, CommittedMeter, HasOrder
<1>4. at'[r] # "idle" => run'[r].day <= today'
  BY MeterTypes DEF MeterInv, WaitInv, Inv, RunMeter
<1>5. QED
  BY <1>1, <1>2, <1>3, <1>4 DEF RunMeter

(* A run that has nothing in hand. *)
LEMMA EmptyHanded ==
  ASSUME NEW r \in Runners, run'[r].new = {}, run'[r].todo = {}, at'[r] \in {"idle", "company"},
         \A p \in Plans : planLock'[p] # r
  PROVE  InsertedMeter(r)' /\ SeenMeter(r)'
BY DEF InsertedMeter, SeenMeter, AtMeter

(* The steps of a run by which it comes to a plan, or past it. *)
LEMMA LoopMeter ==
  ASSUME MeterInv, NEW r \in Runners, OpenCompany(r) \/ Occur(r) \/ SkipPlan(r) \/ SavePlan(r)
  PROVE  InsertedMeter(r)' /\ SeenMeter(r)'
<1> USE DEF MeterInv, RunMeter
<1>1. TypeInv /\ run[r] \in Runs
  BY DEF WaitInv, Inv, TypeInv, TypeOK
<1>2. plan' = plan /\ at'[r] = "plan"
  BY <1>1 DEF OpenCompany, Occur, SkipPlan, SavePlan, AtPlan, TypeInv, TypeOK
<1>3. CASE OpenCompany(r)
  <2>1. run[r].new = {} /\ run'[r].new = run[r].new
    BY <1>1, <1>3 DEF OpenCompany, WaitInv, Inv, OnlyOpen, TypeInv, TypeOK, Runs
  <2>2. \A p \in Plans : planLock'[p] # r
    BY <1>3 DEF OpenCompany, WaitInv, RunTidy
  <2>3. PICK todo : todo = Schedulable(Least(run[r].left))
    OBVIOUS
  <2>4. run'[r].todo = todo /\ run'[r].seen = [p \in Plans |-> IF p \in todo THEN plan[p] ELSE NoPlan]
    <3>1. run' = [run EXCEPT ![r].todo = todo,
                             ![r].seen = [p \in Plans |-> IF p \in todo THEN plan[p] ELSE NoPlan]]
      BY <1>3, <2>3 DEF OpenCompany
    <3>2. QED
      BY <1>1, <3>1 DEF TypeInv, TypeOK, Runs
  <2>5. todo \subseteq Plans
    BY <2>3 DEF Schedulable
  <2>6. \A p \in run'[r].todo : run'[r].seen[p].base = plan'[p].base
    BY <1>2, <2>4, <2>5
  <2>7. QED
    BY <1>2, <2>1, <2>2, <2>6 DEF InsertedMeter, SeenMeter, AtMeter
<1>4. CASE Occur(r)
  <2>1. PICK c \in Plans : c = Current(r)
    BY <1>1, <1>4, CurrentInTodo DEF Occur, AtPlan
  <2>2. PICK got : got = GotOrCreated(r, c, Row(r).due, None)
    OBVIOUS
  <2>3. PICK next : next = Advanced(r, c)
    OBVIOUS
  <2>4. run' = [run EXCEPT ![r].new = got, ![r].seen[c].due = next, ![r].moved = TRUE]
    BY <1>4, <2>1, <2>2, <2>3 DEF Occur
  <2>5. /\ run'[r].new = got /\ run'[r].todo = run[r].todo /\ run'[r].day = run[r].day
        /\ \A p \in Plans : run'[r].seen[p].base = run[r].seen[p].base
                            /\ run'[r].seen[p].calendar = run[r].seen[p].calendar
    BY <1>1, <2>4 DEF TypeInv, TypeOK, Runs, PlanRows
  <2>6. \A n \in got : n.acted # None => n \in run[r].new
    BY <2>2 DEF GotOrCreated
  <2>7. \A n \in run[r].new : n.plan \in Plans
    BY <1>1, MeterTypes
  <2>8. InsertedMeter(r)'
    BY <1>2, <2>5, <2>6, <2>7 DEF InsertedMeter, Live
  <2>9. at[r] = "plan" /\ planLock' = planLock
    BY <1>4 DEF Occur, AtPlan
  <2>10. \A p \in run[r].todo : p \in Plans
    BY <1>1 DEF Runs
  <2>11. SeenMeter(r)'
    BY <1>2, <2>5, <2>9, <2>10 DEF SeenMeter, AtMeter, Live
  <2>12. QED
    BY <2>8, <2>11
<1>5. CASE SkipPlan(r) \/ SavePlan(r)
  <2>1. run[r].todo # {}
    BY <1>1, <1>5 DEF SkipPlan, SavePlan, Saves, AtPlan, TypeInv, RunShape
  <2>2. PICK c \in Plans : c = Current(r) /\ c \in run[r].todo
    BY <1>1, <2>1, CurrentInTodo
  <2>3. /\ run'[r].todo = run[r].todo \ {c} /\ run'[r].day = run[r].day
        /\ run'[r].new = run[r].new /\ run'[r].seen = run[r].seen
    BY <1>1, <1>5, <2>2 DEF SkipPlan, SavePlan, TypeInv, TypeOK, Runs
  <2>4. InsertedMeter(r)'
    BY <1>2, <2>3 DEF InsertedMeter, Live
  <2>5. \A p \in Plans : planLock'[p] = r => planLock[p] = r \/ (p = c /\ Live(c) /\ SavePlan(r))
    BY <1>1, <1>5, <2>2 DEF SkipPlan, SavePlan, TypeInv, TypeOK
  <2>6. SavePlan(r) /\ Live(c) => run[r].seen[c].base >= plan[c].base
    <3> SUFFICES ASSUME SavePlan(r), Live(c) PROVE run[r].seen[c].base >= plan[c].base
      OBVIOUS
    <3>1. CASE at[r] = "save"
      BY <2>2, <3>1 DEF SeenMeter, AtMeter
    <3>2. CASE at[r] = "plan"
      <4>1. run[r].seen[c].base = plan[c].base
        BY <2>2, <3>2 DEF SeenMeter, AtMeter
      <4>2. QED
        BY <1>1, <4>1, MeterTypes
    <3>3. QED
      BY <3>1, <3>2 DEF SavePlan, Saves, AtPlan
  <2>7. \A p \in Plans : planLock'[p] = r => run'[r].seen[p].base >= plan'[p].base
    BY <1>2, <2>3, <2>5, <2>6 DEF SeenMeter
  <2>8. \A p \in run'[r].todo : Live(p)' => run'[r].seen[p].base = plan'[p].base
    BY <1>2, <2>2, <2>3 DEF SeenMeter, AtMeter, Live
  <2>9. SeenMeter(r)'
    BY <1>2, <2>7, <2>8 DEF SeenMeter, AtMeter
  <2>10. QED
    BY <2>4, <2>9
<1>6. QED
  BY <1>3, <1>4, <1>5

(* A run at a plan that is no calendar plan has inserted nothing for it. *)
LEMMA MeasureMeter ==
  ASSUME MeterInv, NEW r \in Runners, Measure(r)
  PROVE  InsertedMeter(r)' /\ SeenMeter(r)'
<1> USE DEF MeterInv, RunMeter
<1>1. TypeInv /\ run[r] \in Runs
  BY DEF WaitInv, Inv, TypeInv, TypeOK
<1>2. AtPlan(r) /\ ~Row(r).calendar /\ plan' = plan /\ at'[r] = "meter" /\ planLock' = planLock
  BY <1>1 DEF Measure, Crossed, TypeInv, TypeOK
<1>3. PICK c \in Plans : c = Current(r) /\ c \in run[r].todo
  BY <1>1, <1>2, CurrentInTodo DEF AtPlan
<1>4. PICK h : h = hours[AssetOf[c]] /\ h # None /\ h >= Row(r).base + EveryHours[c]
  BY <1>3 DEF Measure, Crossed
<1>5. h \in Nat
  BY <1>1, <1>3, <1>4, SchedulerAssumption DEF TypeInv, TypeOK, Hours
<1>6. /\ run'[r].new = run[r].new /\ run'[r].todo = run[r].todo /\ run'[r].day = run[r].day
      /\ run'[r].seen[c].base = h
      /\ \A p \in Plans : run'[r].seen[p].calendar = run[r].seen[p].calendar
      /\ \A p \in Plans \ {c} : run'[r].seen[p].base = run[r].seen[p].base
  <2>1. run' = [run EXCEPT ![r].seen[c].base = h]
    BY <1>3, <1>4 DEF Measure
  <2>2. QED
    BY <1>1, <2>1 DEF TypeInv, TypeOK, Runs, PlanRows
<1>7. Current(r)' = c
  BY <1>3, <1>6 DEF Current
<1>8. \A n \in run[r].new : n.plan # c /\ n.plan \in Plans
  BY <1>1, <1>2, <1>3, MeterTypes DEF WaitInv, RunTidy
<1>9. InsertedMeter(r)'
  BY <1>2, <1>6, <1>8 DEF InsertedMeter, Live
<1>10. Live(c) => h >= plan[c].base + EveryHours[c] /\ h >= plan[c].base
  <2> SUFFICES ASSUME Live(c) PROVE h >= plan[c].base + EveryHours[c] /\ h >= plan[c].base
    OBVIOUS
  <2>1. Row(r).base = plan[c].base
    BY <1>2, <1>3 DEF SeenMeter, AtMeter, AtPlan, Row
  <2>2. plan[c].base \in Nat /\ EveryHours[c] \in Nat
    BY <1>1, MeterTypes
  <2>3. QED
    BY <1>4, <1>5, <2>1, <2>2
<1>11. at[r] = "plan"
  BY <1>2 DEF AtPlan
<1>12. \A p \in run'[r].todo : Live(p)' /\ ~AtMeter(r, p)' => run'[r].seen[p].base = plan'[p].base
  <2>1. \A p \in run[r].todo : p \in Plans
    BY <1>1 DEF Runs
  <2>2. QED
    BY <1>2, <1>6, <1>7, <1>11, <2>1 DEF SeenMeter, AtMeter, Live
<1>13. \A p \in Plans : planLock[p] = r => Live(p)
  BY PlansAtWork
<1>14. \A p \in Plans : planLock'[p] = r \/ (AtMeter(r, p)' /\ Live(p)') =>
         run'[r].seen[p].base >= plan'[p].base
  BY <1>2, <1>6, <1>7, <1>10, <1>13 DEF SeenMeter, AtMeter, Live
<1>15. Row(r)'.base = h /\ ~Row(r)'.calendar
  BY <1>2, <1>3, <1>6, <1>7 DEF Row
<1>16. SeenMeter(r)'
  BY <1>2, <1>7, <1>10, <1>12, <1>14, <1>15 DEF SeenMeter, Live
<1>17. QED
  BY <1>9, <1>16

LEMMA MeterOrderMeter ==
  ASSUME MeterInv, NEW r \in Runners, MeterOrder(r)
  PROVE  InsertedMeter(r)' /\ SeenMeter(r)'
<1> USE DEF MeterInv, RunMeter
<1>1. TypeInv /\ run[r] \in Runs
  BY DEF WaitInv, Inv, TypeInv, TypeOK
<1>2. at[r] = "meter" /\ plan' = plan /\ at'[r] = "save" /\ planLock' = planLock
  BY <1>1 DEF MeterOrder, TypeInv, TypeOK
<1>3. PICK c \in Plans : c = Current(r) /\ c \in run[r].todo
  BY <1>1, <1>2, CurrentInTodo DEF TypeInv, RunShape
<1>4. PICK h \in Nat : h = Row(r).base
  BY <1>1, <1>3, MeterTypes DEF Row
<1>5. PICK got : got = GotOrCreated(r, c, run[r].day, h)
  OBVIOUS
<1>6. run'[r].new = got /\ run'[r].todo = run[r].todo /\ run'[r].day = run[r].day
      /\ run'[r].seen = run[r].seen
  <2>1. run' = [run EXCEPT ![r].new = got]
    BY <1>3, <1>4, <1>5 DEF MeterOrder
  <2>2. QED
    BY <1>1, <2>1 DEF TypeInv, TypeOK, Runs
<1>7. Current(r)' = c
  BY <1>3, <1>6 DEF Current
<1>8. ~run[r].seen[c].calendar /\ run[r].seen[c].base = h
      /\ (Live(c) => h >= plan[c].base + EveryHours[c])
  BY <1>2, <1>3, <1>4 DEF SeenMeter, Row
<1>9. \A n \in got : n \in run[r].new \/ n = [plan |-> c, due |-> run[r].day, acted |-> h]
  BY <1>5 DEF GotOrCreated
<1>10. InsertedMeter(r)'
  <2> SUFFICES ASSUME NEW n \in got, n.acted # None
               PROVE  /\ n.due = run[r].day
                      /\ ~run[r].seen[n.plan].calendar /\ n.acted <= run[r].seen[n.plan].base
                      /\ Live(n.plan) => n.acted >= plan[n.plan].base + EveryHours[n.plan]
    BY <1>2, <1>6 DEF InsertedMeter, Live
  <2>1. CASE n \in run[r].new
    BY <2>1 DEF InsertedMeter
  <2>2. CASE n = [plan |-> c, due |-> run[r].day, acted |-> h]
    BY <1>8, <2>2
  <2>3. QED
    BY <1>9, <2>1, <2>2
<1>11. SeenMeter(r)'
  BY <1>2, <1>3, <1>6, <1>7 DEF SeenMeter, AtMeter, Live
<1>12. QED
  BY <1>10, <1>11

(* What a commit makes of a plan's baseline and of an order. *)
LEMMA CommitRows ==
  ASSUME MeterInv, NEW r \in Runners, CommitCompany(r), NEW p \in Plans
  PROVE  /\ plan'[p].base >= plan[p].base
         /\ planLock[p] = r /\ ~run[r].seen[p].calendar => plan'[p].base = run[r].seen[p].base
         /\ \A d \in Dates :
              \/ order'[p][d] = order[p][d]
              \/ \E n \in run[r].new : /\ n.plan = p /\ n.due = d /\ planLock[p] = r
                                       /\ order'[p][d].acted = n.acted /\ HasOrder(p, d)'
<1> USE DEF MeterInv, WaitInv, Inv
<1>1. TypeInv /\ plan[p] \in PlanRows /\ plan[p].base \in Nat
  BY MeterTypes DEF TypeInv, TypeOK
<1>2. planLock[p] = r => run[r].seen[p].base >= plan[p].base
  BY DEF RunMeter, SeenMeter
<1>3. plan'[p] = IF planLock[p] = r THEN Saved(p, run[r].seen[p]) ELSE plan[p]
  BY DEF CommitCompany
<1>4. CASE planLock[p] # r
  <2>1. plan'[p].base = plan[p].base
    BY <1>3, <1>4
  <2>2. plan'[p].base >= plan[p].base
    BY <1>1, <2>1
  <2>3. \A d \in Dates : order'[p][d] = order[p][d]
    BY <1>4, InsertedCopies DEF CommitCompany, NewSaved
  <2>4. QED
    BY <1>4, <2>2, <2>3
<1>5. CASE planLock[p] = r
  <2>1. run[r].seen[p].calendar => plan'[p].base = plan[p].base
    BY <1>1, <1>3, <1>5 DEF Saved, PlanRows
  <2>2. ~run[r].seen[p].calendar => plan'[p].base = run[r].seen[p].base
    BY <1>1, <1>3, <1>5 DEF Saved, PlanRows
  <2>3. plan'[p].base >= plan[p].base
    BY <1>1, <1>2, <1>5, <2>1, <2>2
  <2>4. ASSUME NEW d \in Dates
        PROVE  \/ order'[p][d] = order[p][d]
               \/ \E n \in run[r].new : /\ n.plan = p /\ n.due = d /\ planLock[p] = r
                                        /\ order'[p][d].acted = n.acted /\ HasOrder(p, d)'
    <3> DEFINE rows == {n \in run[r].new : n.plan = p /\ n.due = d}
    <3>1. order'[p][d] = Inserted(p, d, run[r].new)
      BY DEF CommitCompany
    <3>2. CASE rows = {}
      BY <3>1, <3>2 DEF Inserted
    <3>3. CASE rows # {}
      <4>1. PICK n \in rows : n = CHOOSE m \in rows : TRUE
        BY <3>3
      <4>2. order'[p][d].acted = n.acted
        BY <3>1, <3>3, <4>1 DEF Inserted
      <4>3. order'[p][d].copies = 1
        BY <3>1, <3>3, InsertedCopies
      <4>4. n \in run[r].new /\ n.plan = p /\ n.due = d
        OBVIOUS
      <4>5. HasOrder(p, d)'
        BY <4>3 DEF HasOrder
      <4> HIDE DEF rows
      <4>6. QED
        BY <1>5, <4>2, <4>4, <4>5
    <3>4. QED
      BY <3>2, <3>3
  <2>5. QED
    BY <2>2, <2>3, <2>4
<1>6. QED
  BY <1>4, <1>5

LEMMA CommitMeter ==
  ASSUME MeterInv, OneRun, NEW r \in Runners, CommitCompany(r)
  PROVE  MeterSpacing' /\ CommittedMeter' /\ \A o \in Runners : RunMeter(o)'
<1> USE DEF MeterInv
<1>1. TypeInv
  BY DEF WaitInv, Inv
<1>2. /\ at[r] = "plan" /\ today' = today
      /\ run'[r].new = {} /\ run'[r].todo = {} /\ at'[r] = "company"
      /\ run'[r].day = run[r].day /\ \A p \in Plans : planLock'[p] # r
  BY <1>1, PlanKeys DEF CommitCompany, env, NoRun, TypeInv, TypeOK
<1>3. run[r].day \in Nat /\ run[r].day <= today
  BY <1>1, <1>2, MeterTypes DEF RunMeter
<1> DEFINE New(p, d) ==
             /\ d = run[r].day /\ HasOrder(p, d)'
             /\ order'[p][d].acted <= plan'[p].base
             /\ order'[p][d].acted >= plan[p].base + EveryHours[p]
<1>4. ASSUME NEW p \in Plans, NEW d \in Dates, order'[p][d].acted # None
      PROVE  order'[p][d] = order[p][d] \/ New(p, d)
  <2>1. CASE order'[p][d] = order[p][d]
    BY <2>1
  <2>2. CASE \E n \in run[r].new : /\ n.plan = p /\ n.due = d /\ planLock[p] = r
                                   /\ order'[p][d].acted = n.acted /\ HasOrder(p, d)'
    <3>1. PICK n \in run[r].new : /\ n.plan = p /\ n.due = d /\ planLock[p] = r
                                  /\ order'[p][d].acted = n.acted /\ HasOrder(p, d)'
      BY <2>2
    <3>2. /\ n.due = run[r].day
          /\ ~run[r].seen[p].calendar /\ n.acted <= run[r].seen[p].base
          /\ Live(p) => n.acted >= plan[p].base + EveryHours[p]
      BY <1>4, <3>1 DEF RunMeter, InsertedMeter
    <3>3. Live(p)
      BY <3>1, PlansAtWork
    <3>4. plan'[p].base = run[r].seen[p].base
      BY <3>1, <3>2, CommitRows
    <3>5. QED
      BY <3>1, <3>2, <3>3, <3>4
  <2>3. QED
    BY <2>1, <2>2, CommitRows
<1>5. ASSUME NEW p \in Plans, NEW d \in Dates, order[p][d].acted # None
      PROVE  /\ HasOrder(p, d) /\ d \in Nat /\ d <= today /\ d <= run[r].day
             /\ order[p][d].acted \in Nat /\ order[p][d].acted <= plan[p].base
             /\ order[p][d].acted <= plan'[p].base
  <2>1. /\ HasOrder(p, d) /\ d <= today /\ d <= run[r].day
        /\ order[p][d].acted <= plan[p].base
    BY <1>2, <1>5 DEF CommittedMeter
  <2>2. d \in Nat /\ order[p][d].acted \in Nat /\ plan[p].base \in Nat
    BY <1>1, <1>5, MeterTypes
  <2>3. plan'[p].base >= plan[p].base /\ plan'[p].base \in Nat
    BY CommitCompanyType, CommitRows, <1>1, SchedulerAssumption
    DEF TypeInv, TypeOK, PlanRows, Hours
  <2>4. QED
    BY <2>1, <2>2, <2>3
<1>6. CommittedMeter'
  <2> SUFFICES ASSUME NEW p \in Plans, NEW d \in Dates, order'[p][d].acted # None
               PROVE  /\ HasOrder(p, d)' /\ d <= today' /\ order'[p][d].acted <= plan'[p].base
                      /\ \A o \in Runners : at'[o] # "idle" => d <= run'[o].day
    BY DEF CommittedMeter
  <2>1. CASE order'[p][d] = order[p][d]
    <3>1. HasOrder(p, d)'
      BY <1>5, <2>1 DEF HasOrder
    <3>2. QED
      BY <1>2, <1>5, <2>1, <3>1 DEF OneRun
  <2>2. CASE New(p, d)
    <3>1. d <= run[r].day
      BY <1>3, <2>2
    <3>2. QED
      BY <1>2, <1>3, <2>2, <3>1 DEF OneRun
  <2>3. QED
    BY <1>4, <2>1, <2>2
<1>7. MeterSpacing'
  <2> SUFFICES ASSUME NEW p \in Plans, NEW d1 \in Dates, NEW d2 \in Dates, d1 < d2,
                      order'[p][d1].acted # None, order'[p][d2].acted # None
               PROVE  order'[p][d2].acted >= order'[p][d1].acted + EveryHours[p]
    BY DEF MeterSpacing
  <2>1. d1 \in Nat /\ d2 \in Nat /\ EveryHours[p] \in Nat /\ plan[p].base \in Nat
    BY <1>1, MeterTypes
  <2>2. order'[p][d2].acted \in Nat
    BY <1>1, CommitCompanyType, SchedulerAssumption
    DEF TypeInv, TypeOK, OrderRows, Hours
  <2>3. d2 <= run[r].day
    BY <1>3, <1>4, <1>5, <2>1
  <2>4. order'[p][d1] = order[p][d1]
    BY <1>3, <1>4, <2>1, <2>3
  <2>5. order[p][d1].acted \in Nat /\ order[p][d1].acted <= plan[p].base
    BY <1>5, <2>4
  <2>6. CASE order'[p][d2] = order[p][d2]
    BY <2>4, <2>6 DEF MeterSpacing
  <2>7. CASE order'[p][d2].acted >= plan[p].base + EveryHours[p]
    BY <2>1, <2>2, <2>4, <2>5, <2>7
  <2>8. QED
    BY <1>4, <2>6, <2>7
<1>8. RunMeter(r)'
  BY <1>2, <1>3, EmptyHanded DEF RunMeter
<1>9. QED
  BY <1>6, <1>7, <1>8 DEF OneRun

LEMMA RunnersMeter ==
  ASSUME MeterInv, OneRun, NEW r \in Runners, StartRun(r) \/ RunStep(r) \/ Crash(r)
  PROVE  MeterSpacing' /\ CommittedMeter' /\ \A o \in Runners : RunMeter(o)'
<1> USE DEF MeterInv, WaitInv, Inv, TypeInv, TypeOK
<1>1. CASE CommitCompany(r)
  BY <1>1, CommitMeter
<1>2. CASE OpenCompany(r) \/ Occur(r) \/ SkipPlan(r) \/ SavePlan(r)
  <2>1. InsertedMeter(r)' /\ SeenMeter(r)'
    BY <1>2, LoopMeter
  <2>2. UNCHANGED <<today, plan, order>> /\ at[r] # "idle"
    BY <1>2 DEF OpenCompany, Occur, SkipPlan, SavePlan, Saves, AtPlan, env
  <2>3. run'[r].day = run[r].day
    BY <1>2 DEF OpenCompany, Occur, SkipPlan, SavePlan, Runs
  <2>4. QED
    BY <2>1, <2>2, <2>3, RunnerMeter
<1>3. CASE Measure(r) \/ MeterOrder(r)
  <2>1. InsertedMeter(r)' /\ SeenMeter(r)'
    BY <1>3, MeasureMeter, MeterOrderMeter
  <2>2. UNCHANGED <<today, plan, order>> /\ at[r] # "idle"
    BY <1>3 DEF Measure, MeterOrder, AtPlan, env
  <2>3. run'[r].day = run[r].day
    BY <1>3 DEF Measure, MeterOrder, Runs
  <2>4. QED
    BY <2>1, <2>2, <2>3, RunnerMeter
<1>4. CASE StartRun(r)
  <2>1. run'[r].day = today /\ run'[r].new = {} /\ run'[r].todo = {} /\ at'[r] = "company"
    BY <1>4 DEF StartRun, NoRun
  <2>2. UNCHANGED <<today, plan, order>> /\ \A p \in Plans : planLock'[p] # r
    BY <1>4 DEF StartRun, env, RunTidy
  <2>3. QED
    BY <2>1, <2>2, EmptyHanded, RunnerMeter
<1>5. CASE EndRun(r)
  <2>1. run'[r].new = {} /\ run'[r].todo = {} /\ at'[r] = "idle"
    BY <1>5 DEF EndRun, NoRun
  <2>2. UNCHANGED <<today, plan, order>> /\ \A p \in Plans : planLock'[p] # r
    BY <1>5, PlanKeys DEF EndRun, env
  <2>3. QED
    BY <2>1, <2>2, EmptyHanded, RunnerMeter
<1>6. QED
  BY <1>1, <1>2, <1>3, <1>4, <1>5 DEF RunStep, OccurFails, SaveFails, FinishRun, Crash

LEMMA MeterNext ==
  ASSUME "update" \notin Operations, OneRun, MeterInv, [Next]_vars
  PROVE  MeterInv'
<1>1. WaitInv' /\ NoUpdates'
  BY WaitNext, NoUpdatesStay DEF MeterInv, WaitInv
<1>2. ASSUME NEW r \in Runners, StartRun(r) \/ RunStep(r) \/ Crash(r)
      PROVE  MeterSpacing' /\ CommittedMeter' /\ \A o \in Runners : RunMeter(o)'
  BY <1>2, RunnersMeter
<1>3. ASSUME NEW e \in Editors, EditStep(e)
      PROVE  MeterSpacing' /\ CommittedMeter' /\ \A o \in Runners : RunMeter(o)'
  <2>1. UNCHANGED <<planLock, at, run, order, today>>
    BY <1>3, EditDues DEF MeterInv, WaitInv
  <2>2. \A p \in Plans :
          \/ plan'[p].state = plan[p].state /\ plan'[p].base = plan[p].base
          \/ plan'[p].state = "gone"
    BY <1>3, EditDues DEF MeterInv, WaitInv
  <2>3. QED
    BY <1>1, <2>1, <2>2, PanelMeter
<1>4. ASSUME NEW q \in Plans, CreatePlan(q)
      PROVE  MeterSpacing' /\ CommittedMeter' /\ \A o \in Runners : RunMeter(o)'
  <2>1. UNCHANGED <<planLock, at, run, order, today>> /\ plan[q].state = "new"
    BY <1>4 DEF CreatePlan, env
  <2>2. \A p \in Plans \ {q} : plan'[p] = plan[p]
    BY <1>4 DEF CreatePlan, MeterInv, WaitInv, Inv, TypeInv, TypeOK
  <2>3. QED
    BY <1>1, <2>1, <2>2, PanelMeter
<1>5. ASSUME NextDay \/ UNCHANGED vars \/ \E a \in Assets : Reading(a) \/ Retire(a)
      PROVE  MeterSpacing' /\ CommittedMeter' /\ \A o \in Runners : RunMeter(o)'
  <2>1. UNCHANGED <<planLock, at, run, order>> /\ plan' = plan /\ today' \in {today, today + 1}
    BY <1>5 DEF NextDay, vars, Reading, Retire
  <2>2. QED
    BY <1>1, <2>1, PanelMeter
<1>6. MeterSpacing' /\ CommittedMeter' /\ \A o \in Runners : RunMeter(o)'
  BY <1>2, <1>3, <1>4, <1>5 DEF Next
<1>7. QED
  BY <1>1, <1>6 DEF MeterInv

LEMMA MeterInit == Init => MeterInv
<1> SUFFICES ASSUME Init PROVE MeterInv
  OBVIOUS
<1>1. WaitInv /\ NoUpdates
  BY WaitInit DEF Init, NoEdit, NoUpdates
<1>2. MeterSpacing /\ CommittedMeter
  BY DEF Init, NoOrder, MeterSpacing, CommittedMeter
<1>3. ASSUME NEW r \in Runners PROVE RunMeter(r)
  <2>1. /\ at[r] = "idle" /\ run[r].new = {} /\ run[r].todo = {}
        /\ \A p \in Plans : planLock[p] # r
    BY PlanKeys DEF Init, NoRun
  <2>2. QED
    BY <2>1 DEF RunMeter, InsertedMeter, SeenMeter, AtMeter
<1>4. QED
  BY <1>1, <1>2, <1>3 DEF MeterInv

\* Where runs do not overlap and nobody edits a plan's fields, two orders made for
\* crossings are a whole interval apart, over crashes, repeated runs and deletions:
\* the run in FindingBaseline needs one of the two (_generate_meter).
THEOREM MeterSpacingHolds ==
  ASSUME "update" \notin Operations, OneRun
  PROVE  Spec => []MeterSpacing
<1>1. MeterInv /\ [Next]_vars => MeterInv'
  BY MeterNext
<1>2. MeterInv => MeterSpacing
  BY DEF MeterInv
<1>3. QED
  BY <1>1, <1>2, MeterInit, PTL DEF Spec

(***************************************************************************)
(* The abstract book.  A run's transaction is one step of it: at the commit  *)
(* its memory shows what it was to do, for the plans of one company.         *)
(***************************************************************************)

(* Plan p is run r's business: still to do, or done and not committed. *)
AtWork(r, p) == p \in run[r].todo \/ planLock[p] = r

(* There is, or run r has inserted, an order of plan p for the day of the run. *)
Provided(r, p) == run[r].day \in Dated(p) \cup Pending(r, p)

(* The last date run r makes orders for. *)
LastOf(r) == run[r].day + Horizon

(* A run works on plans of the company it has opened, of the kind it loaded. *)
WorkOf(r) ==
  \A p \in Plans : AtWork(r, p) =>
    /\ run[r].left # {} /\ CompanyOf[p] = Least(run[r].left)
    /\ plan[p].state # "new"
    /\ Live(p) => run[r].seen[p].calendar = plan[p].calendar

(* What it has inserted: dates up to the horizon, and the day for a crossing. *)
MadeBy(r) ==
  \A n \in run[r].new :
    IF run[r].seen[n.plan].calendar THEN n.due <= LastOf(r) /\ n.due < run[r].seen[n.plan].due
    ELSE n.due = run[r].day

(* With the plans it has saved it is through. *)
DoneBy(r) ==
  \A p \in Plans : planLock[p] = r =>
    IF run[r].seen[p].calendar
    THEN LastOf(r) < run[r].seen[p].due /\ run[r].seen[p].due <= LastOf(r) + EveryDays[p]
    ELSE Provided(r, p)

StandsAt(r) ==
  /\ at[r] = "company" => run[r].todo = {} /\ ~run[r].moved
  /\ at[r] = "plan" => run[r].left # {}
  /\ run[r].moved => /\ run[r].todo # {} /\ Row(r).calendar
                     /\ Row(r).due <= LastOf(r) + EveryDays[Current(r)]
  /\ at[r] = "save" => ~Row(r).calendar /\ Provided(r, Current(r))

Job(r) ==
  /\ at[r] # "idle" => run[r].day <= today
  /\ WorkOf(r) /\ MadeBy(r) /\ DoneBy(r) /\ StandsAt(r)

BookInv == WaitInv /\ DuesInv /\ \A r \in Runners : Job(r)

(* Another's step: run r keeps what it holds, and no order goes. *)
LEMMA JobStays ==
  ASSUME NEW r \in Runners, TypeInv, Job(r), run'[r] = run[r], at'[r] = at[r],
         today' \in {today, today + 1},
         \A p \in Plans : planLock'[p] = r <=> planLock[p] = r,
         \A p \in Plans : Dated(p) \subseteq Dated(p)',
         \A p \in Plans : AtWork(r, p) /\ plan[p].state # "new" =>
           /\ plan'[p].state # "new"
           /\ Live(p)' => Live(p) /\ plan'[p].calendar = plan[p].calendar
  PROVE  Job(r)'
<1>1. Current(r)' = Current(r) /\ Row(r)' = Row(r) /\ LastOf(r)' = LastOf(r)
  BY DEF Current, Row, LastOf
<1>2. \A p \in Plans : /\ Pending(r, p)' = Pending(r, p)
                       /\ AtWork(r, p)' <=> AtWork(r, p)
                       /\ Provided(r, p) => Provided(r, p)'
  BY DEF Pending, AtWork, Provided
<1>3. at'[r] # "idle" => run'[r].day <= today'
  <2>1. run[r].day \in Nat /\ today \in Nat
    BY MeterTypes
  <2>2. QED
    BY <2>1 DEF Job
<1>4. WorkOf(r)'
  BY <1>2 DEF Job, WorkOf
<1>5. MadeBy(r)'
  BY <1>1 DEF Job, MadeBy
<1>6. DoneBy(r)'
  BY <1>1, <1>2 DEF Job, DoneBy
<1>7. StandsAt(r)'
  <2>1. at[r] = "save" => Current(r) \in Plans
    BY CurrentInTodo DEF TypeInv, RunShape
  <2>2. at[r] = "save" => Provided(r, Current(r))'
    BY <1>1, <1>2, <2>1 DEF Job, StandsAt
  <2>3. QED
    BY <1>1, <2>2 DEF Job, StandsAt
<1>8. QED
  BY <1>3, <1>4, <1>5, <1>6, <1>7 DEF Job

(* Between two companies a run has nothing in hand. *)
LEMMA JobBetween ==
  ASSUME NEW r \in Runners, run'[r].new = {}, run'[r].todo = {}, ~run'[r].moved,
         at'[r] \in {"idle", "company"}, at'[r] # "idle" => run'[r].day <= today',
         \A p \in Plans : planLock'[p] # r
  PROVE  Job(r)'
BY DEF Job, WorkOf, AtWork, MadeBy, DoneBy, StandsAt

LEMMA OpenCompanyJob ==
  ASSUME BookInv, NEW r \in Runners, OpenCompany(r)
  PROVE  Job(r)'
<1> USE DEF BookInv
<1>1. TypeInv /\ run[r] \in Runs /\ at[r] = "company" /\ run[r].new = {} /\ ~run[r].moved
  BY DEF OpenCompany, WaitInv, Inv, OnlyOpen, TypeInv, TypeOK, Job, StandsAt
<1>2. PICK c : c = Least(run[r].left)
  OBVIOUS
<1>3. PICK todo : todo = Schedulable(c)
  OBVIOUS
<1>4. /\ run'[r].todo = todo /\ run'[r].seen = [p \in Plans |-> IF p \in todo THEN plan[p] ELSE NoPlan]
      /\ run'[r].left = run[r].left /\ run'[r].new = {} /\ ~run'[r].moved
      /\ run'[r].day = run[r].day
  <2>1. run' = [run EXCEPT ![r].todo = todo,
                           ![r].seen = [p \in Plans |-> IF p \in todo THEN plan[p] ELSE NoPlan]]
    BY <1>2, <1>3 DEF OpenCompany
  <2>2. QED
    BY <1>1, <2>1 DEF TypeInv, TypeOK, Runs
<1>5. UNCHANGED <<today, plan, planLock>> /\ at'[r] = "plan" /\ run[r].left # {}
  BY <1>1 DEF OpenCompany, env, TypeInv, TypeOK
<1>6. \A p \in Plans : planLock'[p] # r
  BY <1>1, <1>5 DEF WaitInv, RunTidy
<1>7. \A p \in todo : p \in Plans /\ CompanyOf[p] = c /\ plan[p].state = "live"
  BY <1>3 DEF Schedulable, Live
<1>8. WorkOf(r)'
  BY <1>2, <1>4, <1>5, <1>6, <1>7 DEF WorkOf, AtWork
<1>9. run'[r].day <= today'
  BY <1>1, <1>4, <1>5 DEF Job
<1>10. QED
  BY <1>4, <1>5, <1>6, <1>8, <1>9 DEF Job, MadeBy, DoneBy, StandsAt

LEMMA OccurJob ==
  ASSUME BookInv, NEW r \in Runners, Occur(r)
  PROVE  Job(r)'
<1> USE DEF BookInv
<1>1. TypeInv /\ run[r] \in Runs /\ AtPlan(r)
  BY DEF Occur, WaitInv, Inv, TypeInv, TypeOK
<1>2. PICK c \in Plans : c = Current(r) /\ c \in run[r].todo
  BY <1>1, CurrentInTodo DEF AtPlan
<1>3. Row(r).calendar /\ Row(r).due \in Dates /\ Row(r).due <= LastOf(r)
  BY <1>1, <1>2 DEF Occur, IsDue, Row, LastOf, TypeInv, RunShape, Runs, PlanRows
<1>4. PICK y \in Dates : y = Row(r).due
  BY <1>3
<1>5. PICK got : got = GotOrCreated(r, c, y, None)
  OBVIOUS
<1>6. PICK next : next = Advanced(r, c)
  OBVIOUS
<1>7. /\ run'[r].new = got /\ run'[r].todo = run[r].todo /\ run'[r].day = run[r].day
      /\ run'[r].left = run[r].left /\ run'[r].seen[c].due = next
      /\ \A p \in Plans : run'[r].seen[p].calendar = run[r].seen[p].calendar
      /\ \A p \in Plans \ {c} : run'[r].seen[p] = run[r].seen[p]
  <2>1. run' = [run EXCEPT ![r].new = got, ![r].seen[c].due = next, ![r].moved = TRUE]
    BY <1>2, <1>4, <1>5, <1>6 DEF Occur
  <2>2. QED
    BY <1>1, <2>1 DEF TypeInv, TypeOK, Runs, PlanRows
<1>8. UNCHANGED <<today, plan, order, planLock, at>>
  BY DEF Occur, env
<1>9. /\ next = y + EveryDays[c] /\ y < next /\ next <= LastOf(r) + EveryDays[c]
      /\ y \in Nat /\ next \in Nat /\ LastOf(r)' = LastOf(r)
  <2>1. run[r].day \in Nat /\ Horizon \in Nat /\ EveryDays[c] \in Nat \ {0} /\ y \in Nat
    BY <1>1, MeterTypes, SchedulerAssumption DEF Dates
  <2>2. QED
    BY <1>3, <1>4, <1>6, <1>7, <2>1 DEF Advanced, LastOf
<1>10. Current(r)' = c
  BY <1>2, <1>7 DEF Current
<1>11. run[r].seen[c].calendar /\ run[r].seen[c].due = y
  BY <1>2, <1>3, <1>4 DEF Row
<1>12. \A p \in Plans : AtWork(r, p)' <=> AtWork(r, p)
  BY <1>7, <1>8 DEF AtWork
<1>13. WorkOf(r)'
  BY <1>7, <1>8, <1>12 DEF Job, WorkOf, Live
<1>14. MadeBy(r)'
  <2> SUFFICES ASSUME NEW n \in got
               PROVE  IF run[r].seen[n.plan].calendar
                      THEN n.due <= LastOf(r) /\ n.due < run'[r].seen[n.plan].due
                      ELSE n.due = run[r].day
    <3>1. \A n \in got : n.plan \in Plans
      BY <1>1, <1>5, MeterTypes DEF GotOrCreated
    <3>2. QED
      BY <1>7, <1>9, <3>1 DEF MadeBy
  <2>1. CASE n \in run[r].new
    <3>1. n.plan \in Plans /\ n.due \in Nat
      BY <1>1, <2>1, MeterTypes
    <3>2. IF run[r].seen[n.plan].calendar THEN n.due <= LastOf(r) /\ n.due < run[r].seen[n.plan].due
          ELSE n.due = run[r].day
      BY <2>1 DEF Job, MadeBy
    <3>3. CASE n.plan = c
      BY <1>7, <1>9, <1>11, <3>1, <3>2, <3>3
    <3>4. CASE n.plan # c
      BY <1>7, <3>1, <3>2, <3>4
    <3>5. QED
      BY <3>3, <3>4
  <2>2. CASE n = [plan |-> c, due |-> y, acted |-> None]
    BY <1>3, <1>4, <1>7, <1>9, <1>11, <2>2
  <2>3. QED
    BY <1>5, <2>1, <2>2 DEF GotOrCreated
<1>15. \A p \in Plans : planLock[p] = r => p # c /\ (Provided(r, p) => Provided(r, p)')
  <2>1. \A p \in Plans : planLock[p] = r => p < c
    BY <1>2 DEF WaitInv, RunTidy
  <2>2. \A p \in Plans : p \in Nat
    BY PlanKeys
  <2>3. \A p \in Plans : Provided(r, p) => Provided(r, p)'
    BY <1>5, <1>7, <1>8, PendingOthers DEF Provided, Dated, HasOrder
  <2>4. QED
    BY <2>1, <2>2, <2>3
<1>16. DoneBy(r)'
  BY <1>7, <1>8, <1>9, <1>15 DEF Job, DoneBy
<1>17. StandsAt(r)'
  <2>1. Row(r)'.calendar /\ Row(r)'.due = next
    BY <1>7, <1>10, <1>11 DEF Row
  <2>2. at[r] = "plan" /\ run[r].left # {}
    BY <1>1 DEF AtPlan, Job, StandsAt
  <2>3. QED
    BY <1>2, <1>7, <1>8, <1>9, <1>10, <2>1, <2>2 DEF StandsAt
<1>18. QED
  BY <1>7, <1>8, <1>13, <1>14, <1>16, <1>17 DEF Job

LEMMA MeasureJob ==
  ASSUME BookInv, NEW r \in Runners, Measure(r)
  PROVE  Job(r)'
<1> USE DEF BookInv
<1>1. TypeInv /\ run[r] \in Runs /\ AtPlan(r)
  BY DEF Measure, WaitInv, Inv, TypeInv, TypeOK
<1>2. PICK c \in Plans : c = Current(r) /\ c \in run[r].todo
  BY <1>1, CurrentInTodo DEF AtPlan
<1>3. PICK h : h = hours[AssetOf[c]]
  OBVIOUS
<1>4. /\ run'[r].new = run[r].new /\ run'[r].todo = run[r].todo /\ run'[r].day = run[r].day
      /\ run'[r].left = run[r].left /\ run'[r].moved = run[r].moved
      /\ \A p \in Plans : run'[r].seen[p].calendar = run[r].seen[p].calendar
                          /\ run'[r].seen[p].due = run[r].seen[p].due
  <2>1. run' = [run EXCEPT ![r].seen[c].base = h]
    BY <1>2, <1>3 DEF Measure
  <2>2. QED
    BY <1>1, <2>1 DEF TypeInv, TypeOK, Runs, PlanRows
<1>5. UNCHANGED <<today, plan, order, planLock>> /\ at'[r] = "meter"
  BY <1>1 DEF Measure, env, TypeInv, TypeOK
<1>6. ~run[r].moved
  BY DEF Job, StandsAt, Measure, Crossed
<1>7. \A p \in Plans : /\ AtWork(r, p)' <=> AtWork(r, p)
                       /\ Provided(r, p)' <=> Provided(r, p)
  BY <1>4, <1>5 DEF AtWork, Provided, Pending, Dated, HasOrder
<1>8. WorkOf(r)'
  BY <1>4, <1>5, <1>7 DEF Job, WorkOf, Live
<1>9. MadeBy(r)'
  <2>1. \A n \in run[r].new : n.plan \in Plans
    BY <1>1, MeterTypes
  <2>2. QED
    BY <1>4, <2>1 DEF Job, MadeBy, LastOf
<1>10. DoneBy(r)'
  BY <1>4, <1>5, <1>7 DEF Job, DoneBy, LastOf
<1>11. run'[r].day <= today'
  BY <1>1, <1>4, <1>5 DEF Job, AtPlan
<1>12. QED
  BY <1>4, <1>5, <1>6, <1>8, <1>9, <1>10, <1>11 DEF Job, StandsAt

LEMMA MeterOrderJob ==
  ASSUME BookInv, NEW r \in Runners, MeterOrder(r)
  PROVE  Job(r)'
<1> USE DEF BookInv
<1>1. TypeInv /\ run[r] \in Runs /\ at[r] = "meter"
  BY DEF MeterOrder, WaitInv, Inv, TypeInv, TypeOK
<1>2. PICK c \in Plans : c = Current(r) /\ c \in run[r].todo
  BY <1>1, CurrentInTodo DEF TypeInv, RunShape
<1>3. PICK day \in Dates : day = run[r].day
  BY <1>1, SchedulerAssumption DEF Runs, Days, Dates
<1>4. PICK h : h = Row(r).base
  OBVIOUS
<1>5. PICK got : got = GotOrCreated(r, c, day, h)
  OBVIOUS
<1>6. /\ run'[r].new = got /\ run'[r].todo = run[r].todo /\ run'[r].day = day
      /\ run'[r].left = run[r].left /\ run'[r].moved = run[r].moved
      /\ run'[r].seen = run[r].seen
  <2>1. run' = [run EXCEPT ![r].new = got]
    BY <1>2, <1>3, <1>4, <1>5 DEF MeterOrder
  <2>2. QED
    BY <1>1, <1>3, <2>1 DEF TypeInv, TypeOK, Runs
<1>7. UNCHANGED <<today, plan, order, planLock>> /\ at'[r] = "save"
  BY <1>1 DEF MeterOrder, env, TypeInv, TypeOK
<1>8. ~run[r].seen[c].calendar /\ ~run[r].moved
  BY <1>1, <1>2 DEF DuesInv, MeterRows, Row, Job, StandsAt
<1>9. Current(r)' = c /\ Row(r)' = run[r].seen[c]
  BY <1>2, <1>6 DEF Current, Row
<1>10. Provided(r, c)'
  <2>1. CASE HasOrder(c, day)
    BY <1>3, <1>6, <1>7, <2>1 DEF Provided, Dated, HasOrder
  <2>2. CASE ~HasOrder(c, day)
    <3>1. [plan |-> c, due |-> day, acted |-> h] \in run'[r].new
      BY <1>5, <1>6, <2>2 DEF GotOrCreated
    <3>2. \E n \in run'[r].new : n.plan = c /\ n.due = day
      BY <3>1
    <3>3. QED
      BY <1>3, <1>6, <3>2 DEF Provided, Pending
  <2>3. QED
    BY <2>1, <2>2
<1>11. \A p \in Plans : /\ AtWork(r, p)' <=> AtWork(r, p)
                        /\ Provided(r, p) => Provided(r, p)'
  BY <1>3, <1>5, <1>6, <1>7, PendingOthers DEF AtWork, Provided, Dated, HasOrder
<1>12. WorkOf(r)'
  BY <1>6, <1>7, <1>11 DEF Job, WorkOf, Live
<1>13. MadeBy(r)'
  <2> SUFFICES ASSUME NEW n \in got
               PROVE  IF run[r].seen[n.plan].calendar
                      THEN n.due <= LastOf(r) /\ n.due < run[r].seen[n.plan].due
                      ELSE n.due = run[r].day
    BY <1>3, <1>6 DEF MadeBy, LastOf
  <2>1. CASE n \in run[r].new
    BY <2>1 DEF Job, MadeBy
  <2>2. CASE n = [plan |-> c, due |-> day, acted |-> h]
    BY <1>3, <1>8, <2>2
  <2>3. QED
    BY <1>5, <2>1, <2>2 DEF GotOrCreated
<1>14. DoneBy(r)'
  BY <1>3, <1>6, <1>7, <1>11 DEF Job, DoneBy, LastOf
<1>15. run'[r].day <= today'
  BY <1>1, <1>3, <1>6, <1>7 DEF Job
<1>16. QED
  BY <1>6, <1>7, <1>8, <1>9, <1>10, <1>12, <1>13, <1>14, <1>15 DEF Job, StandsAt

LEMMA LeavePlanJob ==
  ASSUME BookInv, NEW r \in Runners, SkipPlan(r) \/ SavePlan(r)
  PROVE  Job(r)'
<1> USE DEF BookInv
<1>1. TypeInv /\ run[r] \in Runs
  BY DEF WaitInv, Inv, TypeInv, TypeOK
<1>2. run[r].todo # {} /\ at[r] \in {"plan", "save"}
  BY <1>1 DEF SkipPlan, SavePlan, Saves, AtPlan, TypeInv, RunShape
<1>3. PICK c \in Plans : c = Current(r) /\ c \in run[r].todo
  BY <1>1, <1>2, CurrentInTodo
<1>4. /\ run'[r].todo = run[r].todo \ {c} /\ run'[r].day = run[r].day
      /\ run'[r].new = run[r].new /\ run'[r].seen = run[r].seen
      /\ run'[r].left = run[r].left /\ ~run'[r].moved
  BY <1>1, <1>3 DEF SkipPlan, SavePlan, TypeInv, TypeOK, Runs
<1>5. UNCHANGED <<today, plan, order>> /\ at'[r] = "plan"
  BY <1>1 DEF SkipPlan, SavePlan, AtPlan, env, TypeInv, TypeOK
<1>6. \A p \in Plans : planLock'[p] = r => planLock[p] = r \/ (p = c /\ SavePlan(r))
  BY <1>1, <1>3 DEF SkipPlan, SavePlan, TypeInv, TypeOK
<1>7. \A p \in Plans : /\ AtWork(r, p)' => AtWork(r, p)
                       /\ Provided(r, p) => Provided(r, p)'
  BY <1>3, <1>4, <1>5, <1>6 DEF AtWork, Provided, Pending, Dated, HasOrder
<1>8. WorkOf(r)'
  BY <1>4, <1>5, <1>7 DEF Job, WorkOf, Live
<1>9. MadeBy(r)'
  BY <1>4 DEF Job, MadeBy, LastOf
<1>10. SavePlan(r) =>
         IF run[r].seen[c].calendar
         THEN LastOf(r) < run[r].seen[c].due /\ run[r].seen[c].due <= LastOf(r) + EveryDays[c]
         ELSE Provided(r, c)
  <2> SUFFICES ASSUME SavePlan(r)
               PROVE  IF run[r].seen[c].calendar
                      THEN /\ LastOf(r) < run[r].seen[c].due
                           /\ run[r].seen[c].due <= LastOf(r) + EveryDays[c]
                      ELSE Provided(r, c)
    OBVIOUS
  <2>1. CASE at[r] = "save"
    BY <1>3, <2>1 DEF Job, StandsAt, Row
  <2>2. CASE AtPlan(r) /\ ~IsDue(r) /\ run[r].moved
    <3>1. run[r].seen[c].calendar /\ run[r].seen[c].due <= LastOf(r) + EveryDays[c]
      BY <1>3, <2>2 DEF Job, StandsAt, Row
    <3>2. ~(run[r].seen[c].due <= LastOf(r))
      BY <1>3, <2>2, <3>1 DEF IsDue, Row, LastOf
    <3>3. run[r].seen[c].due \in Nat /\ LastOf(r) \in Nat
      <4>1. run[r].seen[c].due \in Dates
        BY <1>1, <3>1 DEF TypeInv, RunShape, Runs, PlanRows
      <4>2. QED
        BY <1>1, <4>1, MeterTypes, SchedulerAssumption DEF LastOf, Dates
    <3>4. QED
      BY <3>1, <3>2, <3>3
  <2>3. QED
    BY <2>1, <2>2 DEF SavePlan, Saves
<1>11. DoneBy(r)'
  BY <1>4, <1>6, <1>7, <1>10 DEF Job, DoneBy, LastOf
<1>12. run'[r].day <= today'
  BY <1>2, <1>4, <1>5 DEF Job
<1>13. run'[r].left # {}
  BY <1>3, <1>4 DEF Job, WorkOf, AtWork
<1>14. QED
  BY <1>4, <1>5, <1>8, <1>9, <1>11, <1>12, <1>13 DEF Job, StandsAt

LEMMA RunnersJob ==
  ASSUME BookInv, NEW r \in Runners, StartRun(r) \/ RunStep(r) \/ Crash(r)
  PROVE  \A o \in Runners : Job(o)'
<1> USE DEF BookInv
<1>1. TypeInv
  BY DEF WaitInv, Inv
<1>2. \A p \in Plans : Dated(p) \subseteq Dated(p)'
  <2>1. CASE CommitCompany(r)
    BY <2>1, CommitDates
  <2>2. CASE ~CommitCompany(r)
    <3>1. order' = order
      BY <2>2 DEF StartRun, Crash, EndRun, RunStep, OpenCompany, Occur, OccurFails, Measure,
                  MeterOrder, SkipPlan, SavePlan, SaveFails, FinishRun
    <3>2. QED
      BY <3>1 DEF Dated, HasOrder
  <2>3. QED
    BY <2>1, <2>2
<1>3. \A p \in Plans : plan'[p].state = plan[p].state /\ plan'[p].calendar = plan[p].calendar
  <2>1. CASE CommitCompany(r)
    BY <2>1, SavedDue DEF WaitInv
  <2>2. CASE ~CommitCompany(r)
    BY <2>2 DEF StartRun, Crash, EndRun, RunStep, OpenCompany, Occur, OccurFails, Measure,
                MeterOrder, SkipPlan, SavePlan, SaveFails, FinishRun
  <2>3. QED
    BY <2>1, <2>2
<1>4. ASSUME NEW o \in Runners \ {r} PROVE Job(o)'
  <2>1. at'[o] = at[o] /\ run'[o] = run[o] /\ today' = today
    BY <1>1 DEF StartRun, Crash, EndRun, RunStep, OpenCompany, Occur, OccurFails, Measure, env,
           MeterOrder, SkipPlan, SavePlan, SaveFails, CommitCompany, FinishRun, TypeInv, TypeOK
  <2>2. \A p \in Plans : planLock'[p] = o <=> planLock[p] = o
    BY <1>1, PlanKeys
       DEF StartRun, Crash, EndRun, RunStep, OpenCompany, Occur, OccurFails, Measure, Saves,
           MeterOrder, SkipPlan, SavePlan, SaveFails, CommitCompany, FinishRun, TypeInv, TypeOK
  <2>3. QED
    BY <1>1, <1>2, <1>3, <2>1, <2>2, JobStays DEF Live
<1>5. Job(r)'
  <2>1. CASE StartRun(r)
    <3>1. /\ run'[r].new = {} /\ run'[r].todo = {} /\ ~run'[r].moved /\ run'[r].day = today
          /\ at'[r] = "company" /\ today' = today /\ planLock' = planLock
      BY <1>1, <2>1 DEF StartRun, NoRun, env, TypeInv, TypeOK
    <3>2. \A p \in Plans : planLock[p] # r
      BY <2>1 DEF StartRun, WaitInv, RunTidy
    <3>3. run'[r].day <= today'
      BY <1>1, <3>1, MeterTypes
    <3>4. QED
      BY <3>1, <3>2, <3>3, JobBetween
  <2>2. CASE EndRun(r)
    <3>1. /\ run'[r].new = {} /\ run'[r].todo = {} /\ ~run'[r].moved /\ at'[r] = "idle"
      BY <1>1, <2>2 DEF EndRun, NoRun, TypeInv, TypeOK
    <3>2. \A p \in Plans : planLock'[p] # r
      BY <2>2, PlanKeys DEF EndRun
    <3>3. QED
      BY <3>1, <3>2, JobBetween
  <2>3. CASE CommitCompany(r)
    <3>1. /\ run'[r].new = {} /\ run'[r].todo = {} /\ ~run'[r].moved
          /\ run'[r].day = run[r].day /\ at'[r] = "company" /\ at[r] = "plan" /\ today' = today
      BY <1>1, <2>3 DEF CommitCompany, NoRun, env, TypeInv, TypeOK
    <3>2. \A p \in Plans : planLock'[p] # r
      BY <2>3, PlanKeys DEF CommitCompany
    <3>3. run'[r].day <= today'
      BY <3>1 DEF Job
    <3>4. QED
      BY <3>1, <3>2, <3>3, JobBetween
  <2>4. QED
    BY <2>1, <2>2, <2>3, OpenCompanyJob, OccurJob, MeasureJob, MeterOrderJob, LeavePlanJob
    DEF RunStep, OccurFails, SaveFails, FinishRun, Crash
<1>6. QED
  BY <1>4, <1>5

LEMMA BookNext ==
  ASSUME "update" \notin Operations, BookInv, [Next]_vars
  PROVE  BookInv'
<1> USE DEF BookInv
<1>1. WaitInv' /\ DuesInv' /\ TypeInv /\ today \in Nat
  BY WaitNext, DuesNext, MeterTypes DEF WaitInv, Inv
<1>2. ASSUME UNCHANGED <<order, planLock, at, run>>, today' \in {today, today + 1},
             \A p \in Plans : plan[p].state # "new" =>
               /\ plan'[p].state # "new"
               /\ Live(p)' => Live(p) /\ plan'[p].calendar = plan[p].calendar
      PROVE  \A r \in Runners : Job(r)'
  <2>1. \A p \in Plans : Dated(p)' = Dated(p)
    BY <1>2 DEF Dated, HasOrder
  <2>2. QED
    BY <1>1, <1>2, <2>1, JobStays
<1>3. ASSUME NEW e \in Editors, EditStep(e) PROVE \A r \in Runners : Job(r)'
  <2>1. /\ UNCHANGED <<today, order, planLock, at, run>>
        /\ \A p \in Plans :
             \/ plan'[p].state = "gone"
             \/ plan'[p].state = plan[p].state /\ plan'[p].calendar = plan[p].calendar
    BY <1>3, EditDues DEF DuesInv
  <2>2. QED
    BY <1>2, <2>1 DEF Live
<1>4. ASSUME NEW q \in Plans, CreatePlan(q) PROVE \A r \in Runners : Job(r)'
  <2>1. UNCHANGED <<today, order, planLock, at, run>>
    BY <1>4 DEF CreatePlan, env
  <2>2. plan[q].state = "new" /\ \A p \in Plans \ {q} : plan'[p] = plan[p]
    BY <1>4, CreatePlanDues
  <2>3. QED
    BY <1>2, <2>1, <2>2 DEF Live
<1>5. ASSUME NextDay \/ UNCHANGED vars \/ \E a \in Assets : Reading(a) \/ Retire(a)
      PROVE  \A r \in Runners : Job(r)'
  <2>1. UNCHANGED <<plan, planLock, at, run, order>> /\ today' \in {today, today + 1}
    BY <1>5 DEF NextDay, vars, env, Reading, Retire
  <2>2. QED
    BY <1>2, <2>1 DEF Live
<1>6. QED
  BY <1>1, <1>3, <1>4, <1>5, RunnersJob DEF Next

LEMMA BookInit == Init => BookInv
<1> SUFFICES ASSUME Init PROVE BookInv
  OBVIOUS
<1>1. ASSUME NEW r \in Runners PROVE Job(r)
  <2>1. /\ at[r] = "idle" /\ run[r].new = {} /\ run[r].todo = {} /\ ~run[r].moved
        /\ \A p \in Plans : planLock[p] # r
    BY PlanKeys DEF Init, NoRun
  <2>2. QED
    BY <2>1 DEF Job, WorkOf, AtWork, MadeBy, DoneBy, StandsAt
<1>2. QED
  BY <1>1, WaitInit, DuesInit DEF BookInv

(* What the book shows of a plan. *)
LEMMA BookRows ==
  ASSUME TypeInv
  PROVE  /\ \A p \in Plans : /\ Live(p) => Kinds[p] = IF plan[p].calendar THEN "calendar" ELSE "meter"
                             /\ plan[p].state = "new" => Kinds[p] = "none"
                             /\ plan[p].state = "gone" => Kinds[p] = "gone"
                             /\ Dues[p] = IF Live(p) /\ plan[p].calendar THEN plan[p].due ELSE None
         /\ \A p \in Plans, d \in Dates : Copies[p][d] = order[p][d].copies
<1>1. ASSUME NEW p \in Plans
      PROVE  /\ Live(p) => Kind(p) = IF plan[p].calendar THEN "calendar" ELSE "meter"
             /\ plan[p].state = "new" => Kind(p) = "none"
             /\ plan[p].state = "gone" => Kind(p) = "gone"
  BY DEF Kind, Live
<1>2. \A p \in Plans : plan[p].state \in {"new", "live", "gone"}
  BY DEF TypeInv, TypeOK, PlanRows
<1>3. \A p \in Plans : Kind(p) = "calendar" <=> Live(p) /\ plan[p].calendar
  BY <1>1, <1>2 DEF Live
<1>4. QED
  BY <1>1, <1>3 DEF Kinds, Dues, Copies

(* A step that the book does not show. *)
LEMMA BookStutter ==
  ASSUME TypeInv, UNCHANGED <<today, order>>,
         \A p \in Plans :
           /\ plan'[p].state = plan[p].state
           /\ Live(p) => /\ plan'[p].calendar = plan[p].calendar
                         /\ plan[p].calendar => plan'[p].due = plan[p].due
  PROVE  UNCHANGED Book!vars
<1>1. \A p \in Plans : plan[p].state \in {"new", "live", "gone"}
  BY DEF TypeInv, TypeOK, PlanRows
<1>2. ASSUME NEW p \in Plans PROVE Kind(p)' = Kind(p)
  <2>1. CASE Live(p)
    BY <2>1 DEF Kind, Live
  <2>2. CASE plan[p].state = "new" \/ plan[p].state = "gone"
    BY <2>2 DEF Kind, Live
  <2>3. QED
    BY <1>1, <2>1, <2>2 DEF Live
<1>3. Kinds' = Kinds
  BY <1>2 DEF Kinds
<1>4. ASSUME NEW p \in Plans PROVE Dues'[p] = Dues[p]
  <2>1. Kind(p) = "calendar" => plan'[p].due = plan[p].due
    BY <1>1 DEF Kind, Live
  <2>2. QED
    BY <1>2, <2>1 DEF Dues
<1>5. Dues' = Dues
  BY <1>4 DEF Dues
<1>6. Copies' = Copies
  BY DEF Copies
<1>7. QED
  BY <1>3, <1>5, <1>6 DEF Book!vars

LEMMA MultiplesSubtract ==
  ASSUME NEW n \in Nat \ {0}, NEW a \in Nat, NEW b \in Nat, b <= a, a % n = 0, b % n = 0
  PROVE  (a - b) % n = 0
<1>1. PICK k \in Nat : a = n * k
  BY WholeMultiple
<1>2. PICK l \in Nat : b = n * l
  BY WholeMultiple
<1>3. CASE l <= k
  <2>1. PICK j \in Nat : k = l + j
    <3>1. k - l \in Nat /\ k = l + (k - l)
      BY <1>3
    <3>2. QED
      BY <3>1
  <2>2. a - b = n * j
    BY <1>1, <1>2, <2>1
  <2>3. \A m \in Nat : (n * m) % n = 0
    OBVIOUS
  <2>4. QED
    BY <2>2, <2>3
<1>4. CASE k < l
  <2>1. PICK j \in Nat : l = k + 1 + j
    <3>1. l - k - 1 \in Nat /\ l = k + 1 + (l - k - 1)
      BY <1>4
    <3>2. QED
      BY <3>1
  <2>2. n * l = n * k + n + n * j /\ n * j >= 0
    BY <2>1
  <2>3. QED
    BY <1>1, <1>2, <2>2
<1>5. QED
  BY <1>3, <1>4

(* Two dates reached from the same start lead one to the other. *)
LEMMA ReachedLeads ==
  ASSUME NEW p \in Plans, NEW s \in Dates, NEW x \in Nat, NEW y \in Nat,
         s <= x, (x - s) % EveryDays[p] = 0, s <= y, (y - s) % EveryDays[p] = 0
  PROVE  x <= y => Book!Leads(p, x, y)
<1>1. s \in Nat /\ EveryDays[p] \in Nat \ {0}
  BY SchedulerAssumption DEF Dates
<1> SUFFICES ASSUME x <= y PROVE (y - x) % EveryDays[p] = 0
  BY DEF Book!Leads
<1>2. x - s \in Nat /\ y - s \in Nat /\ x - s <= y - s /\ y - x = (y - s) - (x - s)
  BY <1>1
<1>3. QED
  BY <1>1, <1>2, MultiplesSubtract

(* The date a run saves comes after the plan's, or a later run has been there. *)
LEMMA CommitFollows ==
  ASSUME BookInv, NEW r \in Runners, CommitCompany(r), NEW p \in Plans, planLock[p] = r,
         plan[p].calendar
  PROVE  /\ Kinds[p] = "calendar" /\ run[r].seen[p].due \in Dates
         /\ Book!Follows(p, run[r].day, run[r].seen[p].due)
<1> USE DEF BookInv
<1>1. TypeInv /\ run[r] \in Runs
  BY DEF WaitInv, Inv, TypeInv, TypeOK
<1>2. Live(p) /\ run[r].seen[p].calendar
  BY PlansAtWork DEF Job, WorkOf, AtWork
<1>3. Kinds[p] = "calendar" /\ Dues[p] = plan[p].due
  BY <1>1, <1>2, BookRows
<1>4. run[r].seen[p].due \in Dates /\ plan[p].due \in Dates
  BY <1>1, <1>2 DEF TypeInv, TypeOK, RunShape, Runs, PlanRows
<1>5. PICK y \in Dates : y = run[r].seen[p].due
  BY <1>4
<1>6. PICK x \in Dates : x = plan[p].due
  BY <1>4
<1>7. y > run[r].day + Horizon /\ y <= run[r].day + Horizon + EveryDays[p]
  <2>1. run[r].day \in Nat /\ Horizon \in Nat /\ y \in Nat
    BY <1>1, MeterTypes, SchedulerAssumption DEF Dates
  <2>2. QED
    BY <1>2, <1>5, <2>1 DEF Job, DoneBy, LastOf
<1>8. PICK s \in Dates : StartedAt(p, s)
  BY DEF DuesInv
<1>9. Reached(p, s, x, Dated(p)) /\ Reached(p, s, y, Dated(p) \cup Pending(r, p))
  BY <1>2, <1>5, <1>6, <1>8 DEF StartedAt, RowReached, SeenReached, Live
<1>10. x \in Nat /\ y \in Nat
  BY SchedulerAssumption DEF Dates
<1>11. /\ x <= y => Book!Leads(p, x, y)
       /\ y <= x => Book!Leads(p, y, x)
  BY <1>9, <1>10, ReachedLeads DEF Reached
<1>12. ASSUME NEW d \in Dates, Book!Leads(p, y, d), d < x PROVE Copies[p][d] = 1
  <2>1. d \in Dated(p)
    BY <1>9, <1>12, ServedBetween DEF Book!Leads
  <2>2. order[p][d].copies > 0 /\ order[p][d].copies <= 1 /\ order[p][d].copies \in Nat
    BY <1>1, <2>1 DEF Dated, HasOrder, WaitInv, Inv, CopiedOnce, TypeInv, TypeOK, OrderRows
  <2>3. QED
    BY <1>1, <2>2, BookRows
<1>13. Book!Leads(p, x, y) \/ Book!Leads(p, y, x)
  BY <1>10, <1>11
<1>14. QED
  BY <1>3, <1>5, <1>6, <1>7, <1>12, <1>13 DEF Book!Follows, Book!Dates, Dates

(* The orders there are after a commit: of each plan the run has saved, what the *)
(* job of its day makes, and no other.                                           *)
LEMMA CommitCopies ==
  ASSUME BookInv, NEW r \in Runners, CommitCompany(r), NEW p \in Plans, NEW d \in Dates
  PROVE  order'[p][d].copies = IF planLock[p] = r /\ d \in Book!Served(p, run[r].day) THEN 1
                               ELSE order[p][d].copies
<1> USE DEF BookInv
<1>1. TypeInv /\ run[r] \in Runs
  BY DEF WaitInv, Inv, TypeInv, TypeOK
<1>2. d \in Pending(r, p) => order[p][d].copies = 0 /\ planLock[p] = r
  BY InsertedCopies DEF WaitInv, Inv, Pending, CommitCompany, NewSaved
<1>3. d \in Dated(p) \cup Pending(r, p) => order'[p][d].copies = 1
  <2>1. CopiedOnce' /\ TypeInv'
    BY CommitCompanyInv DEF WaitInv, Inv
  <2>2. order'[p][d].copies \in Nat /\ order'[p][d].copies <= 1
    BY <2>1 DEF CopiedOnce, TypeInv, TypeOK, OrderRows
  <2>3. d \in Dated(p) \cup Pending(r, p) => order'[p][d].copies > 0
    BY CommitDates DEF Dated, HasOrder
  <2>4. QED
    BY <2>2, <2>3
<1>4. d \notin Pending(r, p) => order'[p][d].copies = order[p][d].copies
  BY InsertedCopies DEF WaitInv, CommitCompany, Pending
<1>5. CASE planLock[p] # r
  BY <1>2, <1>4, <1>5
<1>6. CASE planLock[p] = r /\ ~plan[p].calendar
  <2>1. Live(p) /\ ~run[r].seen[p].calendar
    BY <1>6, PlansAtWork DEF Job, WorkOf, AtWork
  <2>2. Kinds[p] = "meter"
    BY <1>1, <1>6, <2>1, BookRows
  <2>3. d \in Book!Served(p, run[r].day) <=> d = run[r].day
    BY <2>2 DEF Book!Served
  <2>4. CASE d = run[r].day
    <3>1. Provided(r, p)
      BY <1>6, <2>1 DEF Job, DoneBy
    <3>2. QED
      BY <1>3, <1>6, <2>3, <2>4, <3>1 DEF Provided
  <2>5. CASE d # run[r].day
    <3>1. d \notin Pending(r, p)
      BY <2>1, <2>5 DEF Pending, Job, MadeBy
    <3>2. QED
      BY <1>4, <2>3, <2>5, <3>1
  <2>6. QED
    BY <2>4, <2>5
<1>7. CASE planLock[p] = r /\ plan[p].calendar
  <2>1. Live(p) /\ run[r].seen[p].calendar
    BY <1>7, PlansAtWork DEF Job, WorkOf, AtWork
  <2>2. Kinds[p] = "calendar" /\ Dues[p] = plan[p].due
    BY <1>1, <1>7, <2>1, BookRows
  <2>3. plan[p].due \in Dates /\ run[r].seen[p].due \in Dates
    BY <1>7, CommitFollows, <1>1, <2>1 DEF TypeInv, TypeOK, PlanRows
  <2>4. PICK x \in Dates : x = plan[p].due
    BY <2>3
  <2>5. PICK y \in Dates : y = run[r].seen[p].due
    BY <2>3
  <2>6. PICK s \in Dates : StartedAt(p, s)
    BY DEF DuesInv
  <2>7. /\ Reached(p, s, x, Dated(p)) /\ Reached(p, s, y, Dated(p) \cup Pending(r, p))
        /\ \A e \in Pending(r, p) : s <= e /\ (e - s) % EveryDays[p] = 0
    BY <1>7, <2>1, <2>4, <2>5, <2>6 DEF StartedAt, RowReached, SeenReached, Live
  <2>8. x \in Nat /\ y \in Nat /\ d \in Nat /\ run[r].day \in Nat /\ Horizon \in Nat
    BY <1>1, MeterTypes, SchedulerAssumption DEF Dates
  <2>9. d \in Book!Served(p, run[r].day) <=> Book!Leads(p, x, d) /\ d <= run[r].day + Horizon
    BY <2>2, <2>4 DEF Book!Served, Book!Dates, Dates
  <2>10. CASE d \in Book!Served(p, run[r].day)
    <3>1. run[r].day + Horizon < y
      BY <1>7, <2>1, <2>5 DEF Job, DoneBy, LastOf
    <3>2. x <= d /\ d < y /\ (d - x) % EveryDays[p] = 0
      BY <2>8, <2>9, <2>10, <3>1 DEF Book!Leads
    <3>3. d \in Dated(p) \cup Pending(r, p)
      BY <2>7, <3>2, ServedBetween
    <3>4. QED
      BY <1>3, <1>7, <2>10, <3>3
  <2>11. CASE d \notin Book!Served(p, run[r].day)
    <3>1. ASSUME d \in Pending(r, p) PROVE FALSE
      <4>1. d <= run[r].day + Horizon
        BY <2>1, <3>1 DEF Pending, Job, MadeBy, LastOf
      <4>2. s <= d /\ (d - s) % EveryDays[p] = 0
        BY <2>7, <3>1
      <4>3. s <= x /\ (x - s) % EveryDays[p] = 0
        BY <2>7 DEF Reached
      <4>4. ~(x <= d)
        BY <2>8, <2>9, <2>11, <4>1, <4>2, <4>3, ReachedLeads
      <4>5. d \in Dated(p)
        BY <2>7, <2>8, <4>2, <4>4 DEF Reached
      <4>6. QED
        BY <1>2, <3>1, <4>5 DEF Dated, HasOrder
    <3>2. QED
      BY <1>4, <2>11, <3>1
  <2>12. QED
    BY <2>10, <2>11
<1>8. QED
  BY <1>5, <1>6, <1>7

(* A commit is the book's step for the company the run had opened. *)
LEMMA CommitServes ==
  ASSUME BookInv, NEW r \in Runners, CommitCompany(r)
  PROVE  \E c \in Companies : Book!Serve(c)
<1> USE DEF BookInv
<1>1. TypeInv /\ run[r] \in Runs /\ at[r] = "plan" /\ today' = today
  BY DEF WaitInv, Inv, TypeInv, TypeOK, CommitCompany, env
<1>2. PICK c \in Companies : c = Least(run[r].left)
  <2>1. run[r].left \subseteq Nat /\ run[r].left # {} /\ run[r].left \subseteq Companies
    BY <1>1, SchedulerAssumption DEF Runs, Job, StandsAt
  <2>2. QED
    BY <2>1, LeastInSet
<1>3. PICK day \in 0 .. today : day = run[r].day
  <2>1. run[r].day \in Nat /\ today \in Nat /\ run[r].day <= today
    BY <1>1, MeterTypes DEF Job
  <2>2. QED
    BY <2>1
<1> DEFINE works == {p \in Plans : planLock[p] = r}
           next == [p \in Plans |-> IF p \in works /\ plan[p].calendar THEN run[r].seen[p].due ELSE 0]
<1>4. works \in SUBSET {p \in Plans : CompanyOf[p] = c}
  BY <1>2 DEF Job, WorkOf, AtWork
<1>5. \A p \in works : Live(p)
  BY PlansAtWork
<1>6. next \in [Plans -> Dates]
  <2>1. 0 \in Dates
    BY SchedulerAssumption DEF Dates
  <2>2. QED
    BY <2>1, CommitFollows
<1>7. \A p \in works :
        Kinds[p] = "meter" \/ (Kinds[p] = "calendar" /\ Book!Follows(p, day, next[p]))
  <2> SUFFICES ASSUME NEW p \in works
               PROVE  Kinds[p] = "meter" \/ (Kinds[p] = "calendar" /\ Book!Follows(p, day, next[p]))
    OBVIOUS
  <2>1. CASE plan[p].calendar
    BY <1>3, <2>1, CommitFollows
  <2>2. CASE ~plan[p].calendar
    BY <1>1, <1>5, <2>2, BookRows
  <2>3. QED
    BY <2>1, <2>2
<1>8. \A p \in Plans :
        /\ plan'[p].state = plan[p].state /\ plan'[p].calendar = plan[p].calendar
        /\ plan[p].calendar => plan'[p].due = IF p \in works THEN next[p] ELSE plan[p].due
  <2> SUFFICES ASSUME NEW p \in Plans
               PROVE  /\ plan'[p].state = plan[p].state /\ plan'[p].calendar = plan[p].calendar
                      /\ plan[p].calendar => plan'[p].due = IF p \in works THEN next[p] ELSE plan[p].due
    OBVIOUS
  <2>1. plan'[p].state = plan[p].state /\ plan'[p].calendar = plan[p].calendar
    BY SavedDue DEF WaitInv
  <2>2. plan'[p] = IF planLock[p] = r THEN Saved(p, run[r].seen[p]) ELSE plan[p]
    BY DEF CommitCompany
  <2>3. p \in works /\ plan[p].calendar => run[r].seen[p].calendar
    BY <1>5 DEF Job, WorkOf, AtWork
  <2>4. plan[p] \in PlanRows
    BY <1>1 DEF TypeInv, TypeOK
  <2>5. p \in works /\ plan[p].calendar => plan'[p].due = run[r].seen[p].due
    BY <2>2, <2>3, <2>4 DEF Saved, PlanRows
  <2>6. QED
    BY <2>1, <2>2, <2>5
<1> HIDE DEF works, next
<1>9. \A p \in Plans : Kind(p)' = Kind(p)
  BY <1>8 DEF Kind, Live
<1>10. Kinds' = Kinds
  BY <1>9 DEF Kinds
<1>11. Dues' = [p \in Plans |-> IF p \in works /\ Kinds[p] = "calendar" THEN next[p] ELSE Dues[p]]
  <2>1. ASSUME NEW p \in Plans, Kind(p) = "calendar" PROVE plan[p].calendar
    <3>1. plan[p].state \in {"new", "live", "gone"}
      BY <1>1 DEF TypeInv, TypeOK, PlanRows
    <3>2. QED
      BY <2>1, <3>1 DEF Kind, Live
  <2>2. QED
    BY <1>8, <1>9, <2>1 DEF Dues, Kinds
<1>12. Copies' = [p \in Plans |-> [d \in Dates |->
                    IF p \in works /\ d \in Book!Served(p, day) THEN 1 ELSE Copies[p][d]]]
  BY <1>3, CommitCopies DEF Copies, works
<1>13. Book!Serve(c)
  BY <1>1, <1>3, <1>4, <1>6, <1>7, <1>10, <1>11, <1>12 DEF Book!Serve, Book!Dates, Dates
<1>14. QED
  BY <1>2, <1>13

LEMMA CreateSchedules ==
  ASSUME TypeInv, NEW p \in Plans, CreatePlan(p)
  PROVE  Book!Schedule(p)
<1>1. plan[p].state = "new" /\ UNCHANGED <<today, order>>
  BY DEF CreatePlan, env
<1>2. Kinds[p] = "none" /\ Dues[p] = None
  BY <1>1, BookRows DEF Live
<1>3. PICK row : row = plan'[p]
  OBVIOUS
<1>4. /\ row.state = "live" /\ row.calendar \in BOOLEAN /\ (row.calendar => row.due \in Days)
      /\ plan'[p] = row /\ \A q \in Plans \ {p} : plan'[q] = plan[q]
  <2>1. plan \in [Plans -> PlanRows]
    BY DEF TypeInv, TypeOK
  <2>2. CASE \E d \in Days : plan' = [plan EXCEPT ![p] =
               [state |-> "live", calendar |-> TRUE, active |-> TRUE, due |-> d, base |-> 0]]
    BY <1>3, <2>1, <2>2
  <2>3. CASE plan' = [plan EXCEPT ![p] =
               [state |-> "live", calendar |-> FALSE, active |-> TRUE, due |-> None,
                base |-> LatestOrZero(p)]]
    BY <1>3, <2>1, <2>3
  <2>4. QED
    BY <2>2, <2>3 DEF CreatePlan
<1>5. /\ \A q \in Plans \ {p} : Kind(q)' = Kind(q)
      /\ Kind(p)' = IF row.calendar THEN "calendar" ELSE "meter"
  BY <1>4 DEF Kind, Live
<1>6. Kinds' = [Kinds EXCEPT ![p] = IF row.calendar THEN "calendar" ELSE "meter"]
  BY <1>5 DEF Kinds
<1>7. Dues' = [Dues EXCEPT ![p] = IF row.calendar THEN row.due ELSE Dues[p]]
  BY <1>2, <1>4, <1>5 DEF Dues
<1>8. Copies' = Copies
  BY <1>1 DEF Copies
<1>9. CASE row.calendar
  <2>1. Kinds' = [Kinds EXCEPT ![p] = "calendar"] /\ Dues' = [Dues EXCEPT ![p] = row.due]
    BY <1>6, <1>7, <1>9
  <2>2. QED
    BY <1>1, <1>2, <1>4, <1>8, <1>9, <2>1 DEF Book!Schedule, Book!Days, Days
<1>10. CASE ~row.calendar
  <2>1. Kinds' = [Kinds EXCEPT ![p] = "meter"] /\ Dues' = Dues
    BY <1>6, <1>7, <1>10 DEF Dues
  <2>2. QED
    BY <1>1, <1>2, <1>8, <2>1 DEF Book!Schedule
<1>11. QED
  BY <1>9, <1>10

(* Deleting a plan that has no orders takes it from the book; PROTECT keeps the others. *)
LEMMA DeleteDrops ==
  ASSUME WaitInv, NEW e \in Editors, FinishDelete(e)
  PROVE  (\E p \in Plans : Book!Drop(p)) \/ UNCHANGED Book!vars
<1>1. TypeInv /\ Writes(e, "delete")
  BY DEF WaitInv, Inv, FinishDelete
<1>2. PICK p \in Plans : p = edit[e].plan /\ plan[p].state # "new"
  BY <1>1, EditedPlan DEF Writes, SeenPlans, WaitInv
<1>3. UNCHANGED <<today, order>> /\ plan' = [plan EXCEPT ![p] = Deleted(p)]
  BY <1>1, <1>2 DEF Writes, FinishDelete, env
<1>4. plan[p].state \in {"live", "gone"} /\ plan[p] \in PlanRows
  BY <1>1, <1>2 DEF TypeInv, TypeOK, PlanRows
<1>5. CASE Protected(p)
  <2>1. plan' = plan
    BY <1>1, <1>3, <1>5 DEF Deleted, TypeInv, TypeOK
  <2>2. QED
    BY <1>1, <1>3, <2>1, BookStutter
<1>6. CASE ~Protected(p) /\ ~Live(p)
  <2>1. plan'[p].state = "gone" /\ plan[p].state = "gone"
    BY <1>1, <1>3, <1>4, <1>6, NoPlanType DEF Deleted, Live, TypeInv, TypeOK, PlanRows
  <2>2. \A q \in Plans \ {p} : plan'[q] = plan[q]
    BY <1>1, <1>3 DEF TypeInv, TypeOK
  <2>3. QED
    BY <1>1, <1>3, <1>6, <2>1, <2>2, BookStutter
<1>7. CASE ~Protected(p) /\ Live(p)
  <2>1. plan'[p].state = "gone" /\ \A q \in Plans \ {p} : plan'[q] = plan[q]
    BY <1>1, <1>3, <1>7, NoPlanType DEF Deleted, TypeInv, TypeOK, PlanRows
  <2>2. Kind(p)' = "gone" /\ \A q \in Plans \ {p} : Kind(q)' = Kind(q)
    BY <2>1 DEF Kind, Live
  <2>3. Kinds' = [Kinds EXCEPT ![p] = "gone"]
    BY <2>2 DEF Kinds
  <2>4. Dues' = [Dues EXCEPT ![p] = None]
    BY <2>1, <2>2 DEF Dues
  <2>5. Copies' = Copies
    BY <1>3 DEF Copies
  <2>6. Kinds[p] \in {"calendar", "meter"}
    BY <1>1, <1>7, BookRows
  <2>7. \A d \in Dates : Copies[p][d] = 0
    <3>1. \A d \in Dates : order[p][d].copies \in Nat
      BY <1>1 DEF TypeInv, TypeOK, OrderRows
    <3>2. \A d \in Dates : ~(order[p][d].copies > 0)
      BY <1>7 DEF Protected, HasOrder
    <3>3. QED
      BY <3>1, <3>2 DEF Copies
  <2>8. Book!Drop(p)
    BY <1>3, <2>3, <2>4, <2>5, <2>6, <2>7 DEF Book!Drop, Book!Dates, Dates
  <2>9. QED
    BY <2>8
<1>8. QED
  BY <1>5, <1>6, <1>7

LEMMA EditShows ==
  ASSUME "update" \notin Operations, BookInv, NEW e \in Editors, EditStep(e)
  PROVE  (\E p \in Plans : Book!Drop(p)) \/ UNCHANGED Book!vars
<1> USE DEF BookInv
<1>1. TypeInv /\ \A p \in Plans : plan[p] \in PlanRows
  BY DEF WaitInv, Inv, TypeInv, TypeOK
<1>2. CASE FinishDelete(e)
  BY <1>2, DeleteDrops
<1>3. CASE ~FinishDelete(e)
  <2>1. ~BeginUpdate(e) /\ ~SaveUpdate(e)
    BY DEF BeginUpdate, SaveUpdate, Writes, DuesInv, NoUpdates
  <2>2. CASE BeginToggle(e) \/ BeginDelete(e)
    <3>1. UNCHANGED <<today, plan, order>>
      BY <2>2 DEF BeginToggle, BeginDelete, Loads, env
    <3>2. QED
      BY <1>1, <3>1, BookStutter
  <2>3. CASE SaveToggle(e)
    <3>1. Writes(e, "toggle")
      BY <2>3 DEF SaveToggle
    <3>2. UNCHANGED <<today, order>> /\ edit[e].plan \in Plans
      BY <1>1, <3>1, EditedPlan DEF Writes, env
    <3>3. \A p \in Plans : plan'[p].state = plan[p].state /\ plan'[p].calendar = plan[p].calendar
                           /\ plan'[p].due = plan[p].due
      BY <1>1, <2>3, <3>2 DEF SaveToggle, PlanRows
    <3>4. QED
      BY <1>1, <3>2, <3>3, BookStutter
  <2>4. QED
    BY <1>3, <2>1, <2>2, <2>3 DEF EditStep
<1>4. QED
  BY <1>2, <1>3

LEMMA StepShows ==
  ASSUME "update" \notin Operations, BookInv, [Next]_vars
  PROVE  [Book!Next]_(Book!vars)
<1>1. TypeInv
  BY DEF BookInv, WaitInv, Inv
<1>2. ASSUME NEW r \in Runners, StartRun(r) \/ RunStep(r) \/ Crash(r)
      PROVE  [Book!Next]_(Book!vars)
  <2>1. CASE CommitCompany(r)
    BY <2>1, CommitServes DEF Book!Next
  <2>2. CASE ~CommitCompany(r)
    <3>1. UNCHANGED <<today, plan, order>>
      BY <1>2, <2>2 DEF StartRun, Crash, EndRun, RunStep, OpenCompany, Occur, OccurFails, Measure,
                        MeterOrder, SkipPlan, SavePlan, SaveFails, FinishRun, env
    <3>2. QED
      BY <1>1, <3>1, BookStutter
  <2>3. QED
    BY <2>1, <2>2
<1>3. ASSUME NEW e \in Editors, EditStep(e) PROVE [Book!Next]_(Book!vars)
  BY <1>3, EditShows DEF Book!Next
<1>4. ASSUME NEW p \in Plans, CreatePlan(p) PROVE [Book!Next]_(Book!vars)
  BY <1>1, <1>4, CreateSchedules DEF Book!Next
<1>5. CASE NextDay
  <2>1. today' = today + 1 /\ UNCHANGED <<plan, order>>
    BY <1>5 DEF NextDay
  <2>2. Kinds' = Kinds /\ Dues' = Dues /\ Copies' = Copies
    BY <2>1 DEF Kinds, Kind, Dues, Copies, Live
  <2>3. QED
    BY <2>1, <2>2 DEF Book!Next, Book!NextDay
<1>6. CASE UNCHANGED vars \/ \E a \in Assets : Reading(a) \/ Retire(a)
  <2>1. UNCHANGED <<today, plan, order>>
    BY <1>6 DEF vars, env, Reading, Retire
  <2>2. QED
    BY <1>1, <2>1, BookStutter
<1>7. QED
  BY <1>2, <1>3, <1>4, <1>5, <1>6 DEF Next

LEMMA InitShows == Init => Book!Init
<1> SUFFICES ASSUME Init PROVE Book!Init
  OBVIOUS
<1>1. \A p \in Plans : Kind(p) = "none"
  BY DEF Init, NothingSeen, NoPlan, Kind, Live
<1>2. Kinds = [p \in Plans |-> "none"]
  BY <1>1 DEF Kinds
<1>3. Dues = [p \in Plans |-> None]
  BY <1>1 DEF Dues
<1>4. Copies = [p \in Plans |-> [d \in Dates |-> 0]]
  BY DEF Init, NoOrder, Copies
<1>5. today = 0
  BY DEF Init
<1>6. QED
  BY <1>2, <1>3, <1>4, <1>5 DEF Book!Init, Book!Dates, Dates

\* The daily job is the book's, as long as nobody edits a plan's fields: whatever runs
\* overlap, are killed or repeated, and whatever plans are deleted or paused meanwhile,
\* each commit makes the orders that are missing up to its horizon, once and no others,
\* and leaves the next date after it (generate_for_company, _generate_calendar, _generate_meter).
THEOREM BookRefinement ==
  ASSUME "update" \notin Operations
  PROVE  Spec => ImplementsBook
<1>1. BookInv /\ [Next]_vars => BookInv'
  BY BookNext
<1>2. BookInv /\ [Next]_vars => [Book!Next]_(Book!vars)
  BY StepShows
<1>3. QED
  BY <1>1, <1>2, BookInit, InitShows, PTL DEF Spec, ImplementsBook, Book!Spec
=============================================================================

----------------------------- MODULE Indicators -----------------------------
(***************************************************************************)
(* The dashboard (apps/kpis): work orders and machines change while the    *)
(* view asks PostgreSQL for one indicator after the other.  Each query is  *)
(* a statement of its own and sees what is committed when it starts; the   *)
(* period and the day are taken before the first.                          *)
(*                                                                         *)
(* A day has DayTicks ticks; its last one is an evening in Bogota that is  *)
(* already the next day in UTC.  Days, months, minutes and pesos are small *)
(* numbers; averages and percentages are left as their sums.  A site is a  *)
(* choice of Fleet.                                                        *)
(***************************************************************************)
EXTENDS Integers, FiniteSets, FiniteSetsExt, Sql

CONSTANTS
  Jobs,          \* work orders
  TypeOf,        \* [Jobs -> {"preventivo", "correctivo"}]
  Fleet,         \* machines
  MachineOf,     \* [Jobs -> Fleet]
  DayTicks,      \* ticks of a day
  MonthDays,     \* days of a month
  LastTick,      \* bound: the clock stops here
  DuesOf,        \* [Jobs -> sets of due dates]: by hand also none, by a plan also past ones
  Downtimes,     \* downtime_minutes, in ticks
  Costs,         \* labour and parts of an order
  AskFrom,       \* bound: no dashboard is asked for before this tick
  MaxCommits,    \* bound: changes that are committed while the view works
  Span,          \* length of the sliding period («30d»), in ticks
  Week, Thirty,  \* 7 and 30: the edges of the ageing buckets
  TopN           \* rows of a list

ASSUME IndicatorsAssumption ==
  /\ IsFiniteSet(Jobs)
  /\ TypeOf \in [Jobs -> {"preventivo", "correctivo"}]
  /\ MachineOf \in [Jobs -> Fleet]
  /\ DayTicks \in Nat \ {0} /\ MonthDays \in Nat \ {0} /\ LastTick \in Nat
  /\ AskFrom \in Nat /\ MaxCommits \in Nat
  /\ DuesOf \in [Jobs -> SUBSET (Int \cup {None})] /\ Downtimes \subseteq Nat
  /\ Costs \subseteq Nat \cup {None} /\ None \notin Nat
  /\ Span \in Nat /\ Week \in Nat /\ Thirty \in Nat /\ Week <= Thirty /\ TopN \in Nat

VARIABLES
  clock,         \* ticks
  job,           \* [Jobs -> rows of workorders_workorder]
  offFleet,      \* machines «dado de baja»
  board          \* the dashboard request

indicatorsVars == <<clock, job, offFleet, board>>

NoJob == [status |-> "none", due |-> None, started |-> None, finished |-> None,
          downtime |-> 0, cost |-> None]

\* One request at a time: the dashboard writes nothing.
NoBoard == [at |-> "idle", key |-> None, asked |-> 0, commits |-> 0,
            uptime |-> <<>>, failures |-> <<>>, repairs |-> {}, onTime |-> {},
            available |-> <<>>, buckets |-> <<>>, list |-> {}, costs |-> {}, total |-> 0]

IndicatorsInit ==
  /\ clock = 0
  /\ job = [j \in Jobs |-> NoJob]
  /\ offFleet = {}
  /\ board = NoBoard

OpenStatuses == {"abierta", "en_progreso"}
DoneStatuses == {"terminada", "verificada"}

\* Mutant: the database's day, not the plant's.
UtcDay(t) == (t + 1) \div DayTicks

\* AT TIME ZONE, timezone.localdate(): the day in Bogota.
LocalDay(t) == t \div DayTicks

(***************************************************************************)
(* periods.resolve, and the queries as sets of orders.                     *)
(***************************************************************************)
StartsAt(key, now) ==
  IF key = "mes" THEN (LocalDay(now) \div MonthDays) * MonthDays * DayTicks ELSE now - Span

\* finished_at >= starts_at AND finished_at < ends_at AND status <> 'cancelada'
ClosedIn(starts, ends) ==
  {j \in Jobs : /\ job[j].status # "cancelada" /\ job[j].finished # None
                /\ job[j].finished >= starts /\ job[j].finished < ends}

Of(m, js) == {j \in js : MachineOf[j] = m}

Failures(m, starts, ends) ==
  {j \in Of(m, ClosedIn(starts, ends)) : TypeOf[j] = "correctivo"}

DowntimeOf(js) == SumFunctionOnSet([j \in js |-> job[j].downtime], js)

\* Mutant: a mistyped downtime makes the operating time negative.
Unfloored(n) == n

\* GREATEST(.., 0)
Floored(n) == IF n > 0 THEN n ELSE 0

Uptime(m, starts, ends) == Floored(ends - starts - DowntimeOf(Of(m, ClosedIn(starts, ends))))

InService == Fleet \ offFleet

Repairs(starts, ends) ==
  {j \in ClosedIn(starts, ends) : TypeOf[j] = "correctivo" /\ job[j].started # None}

Scheduled(starts, ends) ==
  {j \in Jobs : /\ TypeOf[j] = "preventivo"
                /\ job[j].status \notin {"none", "cancelada"}
                /\ job[j].due # None
                /\ job[j].due >= LocalDay(starts) /\ job[j].due <= LocalDay(ends)}

OnTime(j) ==
  /\ job[j].status \in DoneStatuses
  /\ job[j].finished # None
  /\ LocalDay(job[j].finished) <= job[j].due

Overdue(today) ==
  {j \in Jobs : job[j].status \in OpenStatuses /\ job[j].due # None /\ job[j].due < today}

\* SQL_BACKLOG_BUCKETS
Buckets(today) ==
  LET late(j) == today - job[j].due
  IN [total     |-> Cardinality(Overdue(today)),
      menos_7   |-> Cardinality({j \in Overdue(today) : late(j) < Week}),
      de_7_a_30 |-> Cardinality({j \in Overdue(today) : late(j) \in Week .. Thirty}),
      mas_30    |-> Cardinality({j \in Overdue(today) : late(j) > Thirty})]

\* The CASE of SQL_BACKLOG_ROWS.
BucketOf(late) ==
  IF late < Week THEN "menos_7" ELSE IF late <= Thirty THEN "de_7_a_30" ELSE "mas_30"

\* ORDER BY rank DESC LIMIT n: which of several equal rows is cut is left open.
Top(n, rows, rank) ==
  {top \in SUBSET rows :
     /\ Cardinality(top) = (IF Cardinality(rows) < n THEN Cardinality(rows) ELSE n)
     /\ \A r \in top, s \in rows \ top : rank[r] >= rank[s]}

BacklogRows(today) ==
  {[job |-> j, due |-> job[j].due, bucket |-> BucketOf(today - job[j].due)] : j \in Overdue(today)}

\* The rows of SQL_COST_BY_ASSET_MONTH, before the LIMIT.
CostRows(starts, ends) ==
  LET costed == {j \in ClosedIn(starts, ends) : job[j].cost # None}
      month(j) == LocalDay(job[j].finished) \div MonthDays
      cost(js) == SumFunctionOnSet([j \in js |-> job[j].cost], js)
  IN {[machine |-> MachineOf[j], month |-> month(j),
       total |-> cost({k \in Of(MachineOf[j], costed) : month(k) = month(j)})] : j \in costed}

TotalOf(rows) == SumFunctionOnSet([r \in rows |-> r.total], rows)

(***************************************************************************)
(* What the other modules describe in detail: the life of an order, and    *)
(* the end of a machine's.                                                 *)
(***************************************************************************)
Commit ==
  \/ board.at = "idle" /\ UNCHANGED board
  \/ /\ board.at \notin {"idle", "page"} /\ board.commits < MaxCommits
     /\ board' = [board EXCEPT !.commits = @ + 1]

Change(j, row) ==
  /\ job' = [job EXCEPT ![j] = row]
  /\ Commit
  /\ UNCHANGED <<clock, offFleet>>

\* By hand without a date, or by a plan on any date, also one that is past.
OpenJob(j) ==
  /\ job[j].status = "none"
  /\ \E due \in DuesOf[j] :
       Change(j, [NoJob EXCEPT !.status = "abierta", !.due = due])

StartJob(j) ==
  /\ job[j].status = "abierta"
  /\ Change(j, [job[j] EXCEPT !.status = "en_progreso", !.started = clock])

\* Mutant: an order is finished as often as «terminar» is pressed.
WasStarted(j) == job[j].started # None /\ job[j].status # "cancelada"

MayFinish(j) == job[j].status = "en_progreso"

\* Mutant: the clock is read before the order is locked.
EarlyStamps(j) == {t \in {clock - 1, clock} : t >= 0}

\* finished_at is read from the clock under the lock, and committed some time later.
Stamps(j) == {t \in {clock - 1, clock} : t >= job[j].started}

FinishJob(j) ==
  /\ MayFinish(j)
  /\ \E t \in Stamps(j), d \in Downtimes, c \in Costs :
       Change(j, [job[j] EXCEPT !.status = "terminada", !.finished = t,
                                 !.downtime = d, !.cost = c])

VerifyJob(j) ==
  /\ job[j].status = "terminada"
  /\ Change(j, [job[j] EXCEPT !.status = "verificada"])

\* The timestamps of a finished order stay on its row.
CancelJob(j) ==
  /\ job[j].status \in {"abierta", "en_progreso", "terminada"}
  /\ Change(j, [job[j] EXCEPT !.status = "cancelada"])

TakeOff(m) ==
  /\ m \notin offFleet
  /\ offFleet' = offFleet \cup {m}
  /\ Commit
  /\ UNCHANGED <<clock, job>>

Tick ==
  /\ clock < LastTick
  /\ board.at = "idle"
  /\ clock' = clock + 1
  /\ UNCHANGED <<job, offFleet, board>>

(***************************************************************************)
(* dashboard: the queries in their order.                                  *)
(***************************************************************************)
Starts == StartsAt(board.key, board.asked)

Answer(at, next, answered) ==
  /\ board.at = at
  /\ board' = [answered EXCEPT !.at = next]
  /\ UNCHANGED <<clock, job, offFleet>>

AskPeriod ==
  /\ clock >= AskFrom
  /\ \E key \in {"mes", "30d"} :
       Answer("idle", "mtbf", [NoBoard EXCEPT !.key = key, !.asked = clock])

AskMtbf ==
  Answer("mtbf", "mttr",
         [board EXCEPT !.uptime = [m \in InService |-> Uptime(m, Starts, board.asked)],
                       !.failures = [m \in InService |-> Failures(m, Starts, board.asked)]])

AskMttr ==
  Answer("mttr", "compliance", [board EXCEPT !.repairs = Repairs(Starts, board.asked)])

AskCompliance ==
  Answer("compliance", "availability",
         [board EXCEPT !.onTime = {j \in Scheduled(Starts, board.asked) : OnTime(j)}])

AskAvailability ==
  Answer("availability", "buckets",
         [board EXCEPT !.available = [m \in InService |-> Uptime(m, Starts, board.asked)]])

AskBuckets ==
  Answer("buckets", "rows", [board EXCEPT !.buckets = Buckets(LocalDay(board.asked))])

AskRows ==
  LET late == BacklogRows(LocalDay(board.asked)) IN
  \E list \in Top(TopN, late, [r \in late |-> -r.due]) :
    Answer("rows", "cost", [board EXCEPT !.list = list])

AskCost ==
  LET all == CostRows(Starts, board.asked) IN
  \E rows \in Top(TopN, all, [r \in all |-> r.total]) :
    Answer("cost", "page", [board EXCEPT !.costs = rows, !.total = TotalOf(all)])

ShowPage == Answer("page", "idle", NoBoard)

IndicatorsNext ==
  \/ Tick
  \/ \E j \in Jobs : OpenJob(j) \/ StartJob(j) \/ FinishJob(j) \/ VerifyJob(j) \/ CancelJob(j)
  \/ \E m \in Fleet : TakeOff(m)
  \/ AskPeriod \/ AskMtbf \/ AskMttr \/ AskCompliance \/ AskAvailability
  \/ AskBuckets \/ AskRows \/ AskCost \/ ShowPage

IndicatorsSpec == IndicatorsInit /\ [][IndicatorsNext]_indicatorsVars

(***************************************************************************)
(* Properties.                                                             *)
(***************************************************************************)

\* Values of the columns: an order that was finished had been started.
IndicatorsTypeOK ==
  /\ clock \in 0 .. LastTick
  /\ offFleet \subseteq Fleet
  /\ \A j \in Jobs :
       /\ job[j].status \in OpenStatuses \cup DoneStatuses \cup {"none", "cancelada"}
       /\ job[j].due \in DuesOf[j] \cup {None}
       /\ job[j].finished # None => job[j].started \in 0 .. job[j].finished

\* What a closed period counts is history: but for the rows whose stamp is still on
\* its way, an order enters or leaves it only by being cancelled.  What MTTR and cost
\* said of it changes only so, and what MTBF and availability said of a machine only
\* by its own orders; a retirement takes the machine, with its whole past, out of
\* those two, and its work still counts in MTTR and cost (complete, SQL_MTBF,
\* SQL_MTTR, SQL_AVAILABILITY, SQL_COST_BY_ASSET_MONTH).
PastIsSettled ==
  [][\A a, b \in 0 .. LastTick :
       b < clock =>
         LET kept == {j \in ClosedIn(a, b) : job'[j].status # "cancelada"} IN
         /\ ClosedIn(a, b)' = kept
         /\ Repairs(a, b)' = Repairs(a, b) \cap kept
         /\ kept = ClosedIn(a, b) => CostRows(a, b)' = CostRows(a, b)
         /\ \A m \in InService \cap InService' :
              Of(m, kept) = Of(m, ClosedIn(a, b)) =>
                /\ Uptime(m, a, b)' = Uptime(m, a, b)
                /\ Failures(m, a, b)' = Failures(m, a, b)]_indicatorsVars

\* A preventive order that was due on an earlier day of the period is one of three: in
\* the plant's days on time, closed late, or in the backlog of that day; so what is not
\* in the backlog and not on time was closed late (SQL_PM_COMPLIANCE,
\* SQL_BACKLOG_BUCKETS).
ComplianceMeetsBacklog ==
  \A key \in {"mes", "30d"} :
    \A j \in Scheduled(StartsAt(key, clock), clock) :
      job[j].due < LocalDay(clock) =>
        /\ j \in Overdue(LocalDay(clock)) <=> job[j].finished = None
        /\ OnTime(j) <=> job[j].finished # None /\ job[j].finished < (job[j].due + 1) * DayTicks

\* One page, although its queries see different states: an order on time is not in its
\* backlog, and a machine is never up for less than nothing; if nothing was
\* committed meanwhile, MTBF and availability tell of the same uptime, every failure
\* is a repair, the list agrees with the counts, and the rows with the total
\* (dashboard).
BoardIsCoherent ==
  board.at = "page" =>
    /\ \A row \in board.list : row.job \notin board.onTime
    /\ \A m \in DOMAIN board.available : board.available[m] \in 0 .. board.asked - Starts
    /\ TotalOf(board.costs) <= board.total
    /\ board.buckets.total =
         board.buckets.menos_7 + board.buckets.de_7_a_30 + board.buckets.mas_30
    /\ board.commits = 0 =>
         /\ board.available = board.uptime
         /\ \A m \in DOMAIN board.failures : board.failures[m] \subseteq board.repairs
         /\ Cardinality(board.list) < TopN =>
              \A b \in {"menos_7", "de_7_a_30", "mas_30"} :
                board.buckets[b] = Cardinality({row \in board.list : row.bucket = b})
=============================================================================

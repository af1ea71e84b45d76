# Verification of the CMMS

TLA+ models of the maintenance-management system in `src/` (Django, PostgreSQL,
gunicorn, one web process per worker and no task queue), the TLC runs that check
them on small instances, and TLAPS proofs of what matters most. The code is the
reference: each definition that models code is tied to its lines in
`PROJECT.json` under `map`.

## 1. The system

| Component | State it keeps | Operations | What makes it correct |
|---|---|---|---|
| **Work orders** (`apps/workorders`) | order row (status, assignee, executor, verifier), frozen checklist items, photos | assign, start, complete, verify, cancel; answer an item; upload a photo; corrective order by hand | separation of duties; no order finished over unanswered required items; a verified order is frozen evidence; who executed is recorded and stays |
| **Hour-meter readings** (`apps/maintenance/models.py`) | one series of readings per asset | the quick-entry panel, «complete» with a reading, the Django admin | the series never runs backwards |
| **Plans and the scheduler** (`apps/maintenance`) | plan: next due date or meter baseline, default assignee, checklist template | nightly run, plan create / update / toggle / delete | one order per (plan, date), however often the run is repeated; no crossing lost; one company's failure does not stop the next |
| **Failure reports** (`apps/requests_`) | report: nueva, convertida, rechazada | create, convert, reject | one decision per report, at most one order |
| **Checklist templates** (`apps/checklists`) | lineages of versions, their items | edit (forks a used version), move, duplicate, deactivate; resolve the live version | a used version never changes; one live version per lineage; items at 1, 2, .. n |
| **Accounts** (`apps/accounts`) | users, roles, active flag, seats | invite, deactivate; delete in the Django admin | the seat limit; no account without a delivered invitation |
| **Audit trail** (`apps/audit`) | insert-only rows | `record`, in the caller's transaction where there is one | one row per consequential change, and none without it |
| **Webhooks** (`apps/core/webhooks.py`) | none | `emit` on commit, posted once from a daemon thread | never for a rolled back change |
| **Tenancy** (`apps/core`) | a context variable per thread | middleware, `role_required`, scoped manager, suspension, scan page | no row of another company |
| **Assets** (`apps/assets`) | machines, documents | create, edit, «dar de baja», delete, file a document | evidence keeps its machine; a retired machine has its reason and its audit row |
| **KPIs** (`apps/kpis`) | none: queries over orders and machines | the dashboard, seven statements | numbers of one page do not contradict each other; the past stays |
| **Reports and mail** (`apps/reports`) | log rows of messages | build a document, send it | a row per message; only the company's rows in a document |
| **Project shell** | settings, templates, seed data | none while it runs | (not modelled) |

How they interact. The scheduler, the conversion of a report and the corrective
form all create work orders and (all but the conversion) freeze a checklist
template onto them (`snapshot_checklist`). «Complete» writes a reading through
`maintenance.record_reading`, inside its own transaction. Transitions write
audit rows in their transaction and emit webhooks after it. Everything shares one
PostgreSQL database with `ATOMIC_REQUESTS` off (`config/settings.py:99`), so a view
is a sequence of autocommitted statements except where a service opens a
transaction. Two workers meet only in that database: in row locks
(`select_for_update` on the order, the asset, the report, the template, the
subscription), unique constraints, foreign keys, and in reads that another
worker's commit makes stale.

What is hard here: two requests on one order, in any interleaving of their
statements; decisions made before a lock and used after it; a view of two
transactions; PROTECT and SET_NULL deletes against transactions in progress; a
worker killed between two statements; waiting on two row locks; a version that is forked
while an order copies it; mail sent inside a transaction that rolls back; a page whose
numbers come from several statements. `PROJECT.json` lists every hazard at its line, with
the properties that watch it.

## 2. The modules

| Module | What it is |
|---|---|
| `WorkOrderRules` | The dictionaries and helpers of `workorders/services.py` as operators: roles, `TRANSITIONS`, `_may_verify`, `pending_required_items`, `_resolve_numeric`. |
| `WorkOrderLedger` | The abstract specification: a book in which every entry is one whole legal operation on one order. No workers, locks or crashes. |
| `WorkOrders` | The component as the web workers execute it: requests that overlap statement by statement, row locks, foreign keys, crashes, accounts. |
| `MCWorkOrders` | Instances for TLC. |
| `WorkOrdersProofs` | Type correctness, the inductive invariant, the safety and action properties, that requests never wait in a circle, and that `WorkOrders` implements `WorkOrderLedger`. |
| `PlanLedger` | The abstract specification of the daily job: a book of plans and of the dates that have their order; the job of a day is one step for some plans of a company. |
| `Scheduler` | Maintenance plans and the daily job: runs that overlap, are killed and are repeated, and web workers that edit plans under them. |
| `MCScheduler` | Its instances for TLC. |
| `SchedulerProofs` | Type correctness of `Scheduler`, its safety and action properties, that runs never wait in a circle, and that `Scheduler` implements `PlanLedger`. |
| `Sql` | The NULL of the columns, shared by the modules below. |
| `ChecklistTemplates` | Lineages of versions, the builder's requests under the row lock, the copies orders take, statement by statement. |
| `Requests` | Failure reports, the decision on them, their audit rows, and the events announced to n8n. |
| `Accounts` | Accounts, seats, invitations, deactivations, and every mail the panel sends. |
| `Assets` | Machines and documents: edit, retire and delete overlapping, with what is filed meanwhile. |
| `DueDates` | The calendar step from one due date to the next, and the state the plan list shows beside what the nightly run does. |
| `Indicators` | The dashboard's queries over orders and machines that change between them. |
| `Tenancy` | The current company of a thread over requests and nightly visits, and which rows each read shows. |
| `MCOffice` | The seven modules above on small instances, one scene each. |
| `TenancyProofs`, `AssetsProofs`, `RequestsProofs`, `AccountsProofs` | Type correctness of these four modules, and every safety property the runs check of them. |
| `ChecklistTemplatesProofs` | Type correctness of `ChecklistTemplates`, its safety properties, and that editors never wait in a circle. |
| `CalendarProofs` | Type correctness of `DueDates` and `Indicators`, and every property the runs check of them. |

`Scheduler` and `WorkOrders` meet in the birth of a scheduled order: what `CommitCompany`
makes visible in the first is `Schedule` in the second. They share no other state that either's
properties look at: the scheduler never reads an order's status.

The seven office modules share the database with the orders, but no table of the model: no
action of one reads or writes a variable of another and no property speaks of two. Where the
code of one calls another, each module has its side of the call as an action (`Convert` in
`WorkOrders` and `CommitDecision` in `Requests`; `CopyCommit` there and `CopyNamed` in
`ChecklistTemplates`; `Retire` in `Scheduler` and `SaveBaja` in `Assets`). Hence every
behaviour of the composition is, for each component, a behaviour of its own with stuttering,
and `MCOffice` runs them as scenes: the first state chooses a component, which moves while the
others stand still.

### How `WorkOrders` corresponds to the code

State. `wo`, `answer` and `photos` are the committed rows of the tables of
`workorders/models.py`; `meter` is what of an asset's readings the code looks at
(the highest, which `validate_monotonic_reading` asks, and the newest);
`account` the user rows; `cited` the users that PROTECTed audit, photo and reading
rows point at; `woLock` and `assetLock` the row locks PostgreSQL holds;
`pc` and `job` where each worker stands in its request and what the request carries.

| Code | Actions |
|---|---|
| the transition views and `services.transition` | `BeginTransition`; `Lock` or `Refuse` (the lock is granted and everything is decided on the re-read row); with a reading `LockAsset` or `RefuseReading`; `CommitTransition` or `Rollback` |
| `work_order_item_save`, `record_item_result` | `BeginAnswer`; `Lock` or `Refuse`; `CommitAnswer` |
| `work_order_photo_upload`, `WorkOrderPhoto.save` | `BeginPhoto` (unlocked check), `PhotoPassesSeal` or `PhotoRefusedBySeal`, `PhotoInsert` |
| `corrective_create`, `snapshot_checklist` | `CreateCorrective` (first commit), `CopyPassesSeal` or `CopyRefusedBySeal` (`WorkOrder.save` asks the seal), `CopyCommit` (the items, and the version they came from on the order's row) |
| `meter_reading_create`, `record_reading` | `BeginReading`, `LockAsset` or `RefuseReading`, `CommitReading` |
| Django admin, `MeterReading.save` | `AdminValidates`, `AdminInserts` |
| `_create_work_order` of the scheduler | `Schedule` |
| `requests_.services.convert` | `Convert` (the order it creates) |
| `user_deactivate`, deletion in the Django admin | `DeactivateUser`, `DeleteUser` |
| a killed gunicorn worker | `Crash` |

Everything inside one transaction that no other connection can observe or disturb
is one step; a step boundary stands wherever another commit can come between two
statements. A refused request ends in a step of its own, because it has waited
for the lock first. The scheduler's and the conversion's transactions create rows
nobody can see before the commit, so each is one step.

Assumed of PostgreSQL and Django (marked external in the map): READ COMMITTED,
row locks held to the end of the transaction, an UPDATE or a foreign-key check
that touches a locked row waits (the model lets even the KEY SHARE lock of a
foreign-key check wait for FOR UPDATE, as PostgreSQL does), foreign keys checked
at commit, rollback when the connection dies, a session only for active users
(asked once, when the request begins: a request under way outlives its
account's deactivation).

Left out, and why it does not matter to the properties: one company (company
comparisons hold; see tenancy below); priorities, texts, dates and costs; the
wording of the messages; webhooks (after the commit, they change nothing). A
measurement is only inside or outside its range, since the services tell nothing
else apart. Not modelled although it changes state: edits and deletes of readings in the Django
admin (orders are read-only there), and reactivating an account there.

### How `Scheduler` corresponds to the code

State. `plan` and `order` are the committed rows, orders by their unique key
(plan, due date), with the number of checklist copies frozen onto each and the meter
reading it was made for; `hours` the highest reading of a machine; `retired` the machines
«dado de baja»; `planLock` who has an uncommitted UPDATE of a plan's row; `at` and
`run` where each execution of the command stands and what it holds in memory (the plans as
loaded, the orders it has inserted and not committed); `edit` a web worker that has loaded
a plan and not yet saved it.

| Code | Actions |
|---|---|
| `generate_work_orders` | `StartRun` (the date is asked once), `FinishRun` |
| `_generate_scoped`, `_schedulable_plans` | `OpenCompany` (the transaction begins, the plans are loaded), `SkipPlan`, `CommitCompany` |
| `_generate_calendar`, `advance_due_date` | `Occur`, once per round of the loop; `OccurFails` when the next date leaves the range of `date` |
| `_generate_meter` | `Measure`, `MeterOrder` |
| `_create_work_order` | `GotOrCreated`, after waiting for another run's uncommitted key (`Contended`) |
| `plan.save(update_fields=...)` of a run | `SavePlan`; `SaveFails` when the plan has been deleted |
| `plan_create`, `plan_update`, `plan_toggle_active`, `plan_delete` | `CreatePlan`; `BeginUpdate`, `SaveUpdate`; `BeginToggle`, `SaveToggle`; `BeginDelete`, `FinishDelete` |
| `record_reading`, `asset_baja`, the calendar | `Reading`, `Retire`, `NextDay` |
| a killed command | `Crash` |

Left out: an interval is a number of days, so month lengths belong to `DueDates`;
which checklist version is copied; the digest of overdue orders and the
webhooks (after the commit). `plan_create` is one step: nobody sees the row
before, and a reading in between only makes its baseline a reading older.

`PlanLedger` knows of a plan only whether it is a calendar or an hour-meter plan (`kind`), its next date (`due`)
and the dates with an order (`copies`): `Schedule` is `plan_create`, `Drop` is `plan_delete`, and `Serve` is
`generate_for_company` for the plans it finds something to do for. `Scheduler` gives these as `Kinds`, `Dues` and
`Copies`, read from the committed rows alone.

### How the office modules correspond to the code

`ChecklistTemplates`: `template`, `item` and `snapshot` are the committed rows,
`templateLock` who holds a template FOR UPDATE, `edit` what a request of the builder holds.

| Code | Actions |
|---|---|
| the builder's views | `BeginEdit` (the page's template and item are loaded, without a lock) |
| `get_editable_version` | `LockTemplate`: the lock, `is_locked`, and the version to write |
| `add_item`, `update_item`, `move_item` | `CommitEdit`; UNIQUE(template, order) may undo it; `CrashEdit` |
| `create`, `duplicate_template`, `deactivate_template` | `CreateTemplate`, `DuplicateTemplate`, `DeactivateTemplate` |
| `corrective_create`, then `snapshot_checklist` | `NameTemplate`, `CopyNamed` |
| `resolve_checklist_template`, `snapshot_checklist` in the scheduler's transaction | `CopyResolved`, `CommitResolved`, `CrashResolved` |

`Requests`: `report`, `opened` (the unique `source_request` of orders), `trail` (audit rows),
`reportLock`, `desk` (a worker process), `event` (kept for the commit, queued, on a thread),
`heard` (what reached n8n).

| Code | Actions |
|---|---|
| `request_create` | `BeginReport`, `CommitReport` |
| `request_convert`, `request_reject` | `BeginDecision`; `AcceptDecision` or `DeclineDecision` on the locked row; `CommitDecision` (an IntegrityError rolls back) |
| `emit`, `_post` | on commit, `HandOff` to a thread, `PostArrives` or `PostFails`, one attempt |
| an error, a killed process | `Fail`; `CrashDesk`, with the threads it owns |

`Accounts`: `account`, `maxUsers`, `seatLock`, `call` (one POST), `smtp` (what the relay was
given), `notified` (NotificationLog), `accountAudit`.

| Code | Actions |
|---|---|
| `user_invite` | `BeginInvite`, `InsertAccount` (lock, count, insert), `MailInvitation`, `EndInvitation`, `LogInvitation` |
| `user_deactivate` | `BeginDeactivation`, `SaveInactive`, `RecordDeactivation` |
| `_handle_send`, `deliver`, `log` | `BeginSend`, `MailDocument`, `LogDocument`, `RecordSend` |
| Django admin | `AdminCreate`, `AdminLimit`, `AdminSuspend` |
| a killed worker | `CrashCall` |

`Assets`: `machine`, `document`, `cited` (machines that orders or reports refer to), `visit` (one
POST, with the row as loaded), `machineAudit`.

| Code | Actions |
|---|---|
| `asset_create`, `asset_update`, `asset_baja` | `CreateMachine`; `LoadMachine`, `SaveEdit` (all columns) or `SaveBaja` (two), `RecordVisit` |
| `asset_delete`, `Asset.delete` | `LoadMachine`, `AskDocuments`, `CollectRelated` (PROTECT), `WipeDocuments`, `CommitDelete` (foreign keys) |
| `asset_document_upload`; an order or a report | `SaveDocument`; `Cite` |

`DueDates`: one plan (`schedule`, `isActive`), whether its machine is `retired`, and the day.
`AdvanceDueDate` is `advance_due_date` with `add_months`; `Schedulable` is `_schedulable_plans`; `Serve` is one
round of `_generate_calendar` or `_generate_meter`; `DueState` is `annotate_due_state`, which does not ask
whether the machine is in service; `ToggleActive` is `plan_toggle_active`, `Retire` what `asset_baja` does
to the machine. The reference definition is by months and by ordinal days. Left out here: `plan_update`,
which gives a plan new dates (see `Scheduler`).

`Indicators`: `job` and `offFleet` are the columns the queries read, changed by the life of an order;
`board` is one dashboard request: `AskPeriod` takes the day and the period, then one action for each
statement (`AskMtbf` .. `AskCost`), each on what is committed by then. A tick of the clock is a part
of a day, the last of which is an evening in Bogotá that is the next day in UTC. A closing timestamp is read
from the clock under the row lock and committed up to a tick later. Averages and percentages are
kept as their sums.

`Tenancy`: `context` is the context variable of each thread, `thread` what the request has loaded and
put on its page, `told` what the digests named.

| Code | Actions |
|---|---|
| `CurrentCompanyMiddleware`, `role_required` | `BeginRequest`, `Admit`, `EndRequest` (reset in `finally`) |
| a read by the scoped manager; a document that follows foreign keys with `unscoped` | `ReadScoped`; `ReadRelated` |
| create a machine, an order, a report, a plan | `CreateEquipment`, `CreateTicket` |
| `asset_scan` | `Scan`: the plate for anybody, the rest for its audience |
| `generate_work_orders`, `generate_for_company`, the digest | `BeginNight`, `BeginCompany`, `EmitDigest`, `EndCompany`, `EndNight` |
| an account edited in the Django admin | `AdminEdits`, also while its request is served |

## 3. Properties

Each is stated beside its definition. Of `WorkOrders`:

- `TypeOK`: the columns' types; a measurement is stored as what its range decides.
- `SeparationOfDuties`: rule 3 of the product over the whole history.
- `ExecutionRecord`: from «iniciar» on, the order names a user that exists, who is also the
  one who completed it. It depends on the matrix, on SET_NULL, on the audit row's
  PROTECT and on the foreign-key check at commit together.
- `DoneMeansAnswered`: no order born with its checklist is finished over a required
  question without an answer, also not by an answer emptied meanwhile (a text item
  can be emptied).
- `DecisionsHold`: what was decided under the lock is still so at the commit, also
  after waiting for the asset's row.
- `PhotosByExecutor`: the unlocked check of the photo view is right about *whose*
  photo it is.
- `VerifiedIsFrozen` (action property): nothing changes the row or the answers of a verified order, with one
  exception, which is spelled out: `snapshot_checklist` asks the seal in a query of its own and then saves the
  order, so a corrective order that is verified in between gets its (blank) items and the note of their version
  afterwards, once. `models.py:6-7` promises it without the exception, see section 5.
- `AssigneeFrozen` (action property): nobody's work in progress changes hands.
- `MeterNeverBackwards` (action property): only an insert of the Django admin enters
  a reading below the highest one.
- `EveryRequestEnds` (liveness): no request waits for ever.
- `ImplementsLedger`: refinement of `WorkOrderLedger`.

Of `Scheduler`:

- `CopiedOnce`: rule 5 of the product, for repeated, overlapping and killed runs: one order
  per plan and date, with one copy of its checklist.
- `EvidenceKeepsPlan`: no order is left without its plan, although `plan_delete` looks for
  orders before a run has committed the first one.
- `ImplementsBook`: refinement of `PlanLedger`, whose only step that makes orders is `Serve`: the job of a
  day that has come, for some plans of one company, gives an order to every date from the plan's due date to
  the horizon (of an hour-meter plan: to the day), once and to no other, and the next date follows
  the horizon in whole intervals.
  One liberty is the code's: a run of an earlier day that commits late puts the due date back, over
  dates that all have their order (`Follows`). A due date is therefore never moved over a date without
  an order (`NoDueSkipped`, stated in `SchedulerProofs`). It does not survive `plan_update` during a
  run, and is checked without it: the run saves the due date it computed from the row it had loaded, and
  overwrites the one the user stored meanwhile. No document promises otherwise.
- `DueIsServed` (liveness): what is due gets its order and the plan moves on, in every
  company, although runs wait for each other and are killed on the first day.
- `EveryRunEnds` (liveness): the catch-up loop ends, and runs that wait for each other's rows
  and keys do so in one order of the plans.
- `MeterSpacing`: one order per crossing. Violated, see section 5.

Of the office modules (`OfficeTypeOK`: the columns' types of the scene's component):

- `OnlyNewestIsLive`: a version that has a successor stays retired, whoever forks, deactivates or
  resolves at once. `ForkMeetsNoFork`: UNIQUE(parent) is never needed.
- `PlacesAreDense`: a version's items stand at 1, 2, .. n, although moves write places that were read
  before the lock: an exchange that would leave a hole would also make two items share a place,
  and is rolled back.
- `CopyIsTheVersion`: a corrective order shows what its version says, for ever, if that is the first of
  its lineage. For a later version it does not hold (see `LockedNeverMutated`), and for a plan's
  order neither: it copies before its foreign key is visible, so an edit in place may come between.
- `LockedOnlyThroughParent` (action property): that is the only way a used version changes.
- `SomeEditorProceeds`: editors never wait in a circle: while some are at work, the next statement of one
  of them waits for no row (`Waits`: the lock on the page, or the foreign key of a new item).
- `DecisionAndOrder`: «convertida» exactly when the order exists, and no conversion runs into the unique
  key, whose handler could not run its query in a failed transaction.
- `TrailTellsTheReport`: the audit rows tell the report's filing and its one decision, by whom.
- `EventsTellTheTruth`: n8n is told only of what is committed, once at most.
- `SeatsHeld` (action property), `InvitationIsWhole`, `MailIsLogged`, `DeactivationIsAudited`: seats, mail
  and audit rows under concurrent calls and killed workers, each with exactly the exception the code has
  (accounts added by the Django admin; a worker killed between a message and its row).
- `EvidenceKeepsMachine`, `SeenDocumentsStay`, `BajaIsWhole`: what is filed keeps its machine in any race
  with a deletion; the audit row of a retired machine.
- `PeriodsAreKept`: no month is skipped or met twice by clamping.
- `DueStateAgrees`: of a machine in service the list calls «vencido» only what the nightly run would serve, and
  what the run would serve is never «al día» or «inactivo». A retired machine's plan is excluded by name: the list
  goes on calling it «vencido» and no run serves it.
- `ComplianceMeetsBacklog`: a preventive order is on time, late, or in the backlog, by the plant's days;
  `BoardIsCoherent`: what one page may rely on with commits between its statements, and without;
  `PastIsSettled` (action property): of a period that ended at least a tick ago no order is added, and only a
  cancellation takes one away; MTTR and cost change only so, MTBF and availability of a machine that stays in service
  only by its own cancelled orders. A retirement takes the machine, and all its past, out of MTBF and availability
  (their `scope` asks for the machines of today); its work still counts in MTTR and cost (`docs/kpis.md:23`).
- `TenantsApart`: a page shows only rows of its user's company beside scanned plates, a digest only its
  company's orders, no thread keeps a company, and no foreign key crosses companies.

## 4. The runs

| Run | Question | Instance and why it is enough |
|---|---|---|
| `MCWorkOrders` | Do the promises about execution, verification and answers survive overlapping requests, crashes and account changes? | One order (no property relates two), two workers (each lock has a holder and a waiter), technician, supervisor and administrator (executor, verifier, another manager; also a supervisor who executes), a required text item (the only kind that can be emptied), technician and supervisor removable. Workers are symmetric. |
| `MCLedger` | Do the overlapping requests implement whole operations? What changes a verified order? | Every birth of an order except the conversion, the late copy of a checklist included, a platform administrator without a manager role, a required measurement, a removable technician. |
| `MCProgress` | Can requests wait for each other, does a meter go back? | Two workers, one asset shared by panel, «complete» and Django admin, readings 0 and 1 (one below the highest is possible), photos and corrective orders for the foreign-key waits, crashes. No symmetry (liveness). |
| `MCScheduler` | Do one order per date, one checklist per order and the plan of an order survive overlapping runs, kills, midnight and an editor? | One plan (the properties relate no two), two runs (each row and key has a holder and a waiter), one editor, two days, readings 0 and 1 (one crossing), a calendar that ends on the last day so that the overflow happens. Runs are symmetric. |
| `MCNightly` | Do the runs make exactly what the book of plans asks for, is everything due served, does every run end? | Two plans of one company (runs can wait for each other in a cycle only with two), calendar or hour-meter, two runs, two days so that a plan can be late by one occurrence and due for another, readings 0 and 1 (one crossing), kills on the first day only. No symmetry (liveness). Deletions, toggles, retired machines and longer intervals under the refinement are in its proof. |
| `MCOffice` | What do the office components keep when their requests overlap, fail and are killed? | One scene for each of the seven modules; see below. |
| `FindingPhotoSealed`, `FindingLateChecklist`, `FindingBaseline`, `FindingOverflow`, `FindingForkedLocked`, `FindingBajaUndone` | see section 5 | the fewest operations that show it |

Bounds: the sets of users, orders, items and workers, `MaxHours`, `Removable` (who
may lose the account) and `Operations` (which entry points the environment uses in this
run). No counter of the code is cut by them: hours are a column, and an environment that
uses fewer entry points only removes behaviours, and the passing runs together use every one.
Deadlock is checked in every run but `MCOffice` and its two, `FindingForkedLocked` and `FindingBajaUndone`.

`MCOffice` by scene. Templates: two versions (a parent and its fork), a list of two items with room for a third,
two editors (holder and waiter), two orders (one by hand, one by the scheduler), starting from a fresh lineage
or one that was used and edited. Requests: one report (no property relates two), a filer and two reviewers, two
worker processes. Accounts: an administrator and two names, limits 1 and 2, two calls. Assets: one machine, two
documents (one before, one during a deletion), four visits (create, file, and two that race). Due dates: month
ends before a leap year and before a century, every preset and three plain intervals, a year of services, meter
intervals where 0.9 is a whole number and where it is not, a plan switched off and on, a machine retired at any time. Indicators: two orders on one machine, periods of
two days, buckets of two days, one commit between the statements. Tenancy: two companies, one account that
changes between them, one thread that serves requests and the nightly run, one machine, two rows that name it.
Calls, visits and editors are sent once, so their number (not the model's clock) bounds a scene:
the scene ends when all were sent, which is why this run does not check deadlock; that editors do not
block each other is `SomeEditorProceeds`.

In `Scheduler`, `MaxDay`, `MaxHours` and `LastDate` bound the calendar and the meter,
`CrashFree` is the first day on which no run is killed, and `Operations` is used as above.

Fairness of `WorkOrders` is stated for `EveryRequestEnds` alone: strong fairness of `Progress(r)`, the steps of
an accepted request. gunicorn runs an accepted request until it ends; where it waits
for a row lock, PostgreSQL queues the waiters, so a lock that comes free again and
again reaches each of them. Weak fairness would not say that: another worker may
take the lock between two moments at which it is free. Nothing obliges users to post,
administrators to act or workers to die.

Fairness of `Scheduler`: cron starts the command again and again (weak fairness of
`StartRun`), a started command takes its steps (strong fairness of `RunStep`: PostgreSQL queues
the runs that wait for a row or a key), and days pass. That kills stop some day is what
`CrashFree` says: a command that is killed every night serves nothing. Editors owe nothing.

## 5. Where the code departs from its documents

- **A photo can enter a verified order** (`SealCoversPhotos`). The check of the view, the
  seal query and the INSERT are separate statements; an order completed and
  verified in between keeps the photo. `models.py:6-7`: "Its own row, its checklist
  items and its photos reject every write and every delete once it is verified".
- **A corrective order can be finished before it has its checklist**
  (`AllDoneMeansAnswered`). The order is committed, already assigned, before the copy;
  `docs/briefs/05-work-orders.md:54`: "A WO cannot be completed while required items are
  unanswered (test)". `DoneMeansAnswered` shows that every other order keeps this.
- **One meter crossing can get two orders** (`MeterSpacing`). `plan_update` saves every column of a
  plan it loaded earlier (`maintenance/views.py:179`): a run that made the order of a crossing in
  between has its baseline put back. Two overlapping runs with a reading in between do the same.
  `docs/briefs/04-plans-and-scheduler.md:47-48`: "Meter plan: readings 95h→210h with interval 100h
  generates exactly one WO; next one only after another 100h."
- **One plan can stop the job for other companies** (`DueIsServed`). An interval of millions of days
  passes the form; the next due date leaves the range of `date`, the OverflowError ends the loop
  over companies, and every later company goes without orders on that and every other night.
  `maintenance/services.py:312`: "Run the scheduler for every active company, one tenant at a time."
- **A version that orders use can change** (`LockedNeverMutated`). `get_editable_version` asks `is_locked` of the
  page's template only; an editor on a retired version's page is led to its fork, which may be in
  use by then (`checklists/services.py:89-93`). `checklists/services.py:69-71`: "If `template` is locked (already
  used by a work order), its rows — and its items' rows — must never be mutated".
- **An edit can undo «dar de baja»** (`BajaStands`). `asset_update` saves every column of the machine it loaded
  (`assets/views.py:206`): a machine retired in between is in service again, and no audit row says so.
  `assets/forms.py:20-21`: status and reason "only change through the dedicated dar-de-baja action, never a
  plain edit".

Met while modelling, without a run of their own:

- A verified order's own row and checklist can be written, against the same sentence of `models.py:6-7` as in the first
  finding. `snapshot_checklist` ends with `work_order.save(update_fields=["checklist_template", "updated_at"])`
  (`workorders/services.py:279-280`); `WorkOrder.save` asks the seal in a separate query without a lock
  (`models.py:259-272`). A corrective order copies its checklist after its own commit, so it may be completed and verified
  between that query and the UPDATE. TLC finds the trace when the exception is taken out of `VerifiedIsFrozen`;
  the race is the one of the second finding, a few steps longer.
- The Django admin's form is a second way to write a reading, without the asset's lock
  (`maintenance/admin.py:19`); `maintenance/models.py:208` calls `record_reading` "The ONE way an hour-meter
  reading is written". `MeterNeverBackwards` is stated around it.
- `kpis/queries.py:399-400` says of the backlog list that it "can never disagree with the counts", and
  `docs/kpis.md` the same of MTBF and availability: they are separate statements, and an order that is
  finished in between makes them differ. `BoardIsCoherent` says what holds all the same.
- The comment at `maintenance/services.py:44-47` expects a monthly plan to stay at the end of the month; `add_months`
  moves the 31st to the 28th and stays there, as its own docstring says.
- The plan list (`maintenance/views.py:70-84`, `annotate_due_state`) does not ask whether a machine is in service, and
  `_schedulable_plans` does (`maintenance/services.py:233-239`): the plan of a retired machine is shown «vencido»
  and never served. No document promises otherwise; `DueStateAgrees` and `OverdueHolds` say what holds.
- MTBF and availability of a past period change when a machine is retired (`kpis/queries.py:93`, and the same in
  `SQL_AVAILABILITY`); MTTR and cost of the same period do not. `docs/kpis.md:23` says so, hence it is how it is
  meant; `PastIsSettled` says that much and no more.
- On a fork, an item is found by its place (`checklists/services.py:142`): after another editor's move that is
  another item.
- `Asset.delete` asks for documents before it deletes them with the machine: one filed in between is wiped
  (`assets/models.py:118`: "History is never wiped"). `SeenDocumentsStay` is about the others.
- A save of a machine that was deleted meanwhile inserts it again; deleting one writes no audit row.
- The seat limit is the one the middleware loaded (`accounts/views.py:97`), not the one under the lock.

## 6. What is proved

TLAPS checks the following for every value of the constants that the named assumptions allow. They
say that the constants have their types and that NULL is not one of their values; what they say beyond
that is given below. TLC evaluates each of them on every run.

`WorkOrdersProofs`, for every finite or infinite set of users, orders, assets, items and workers, every
assignment of roles and every choice of `Operations` and `Removable`, under `RulesAssumption` and
`OrdersAssumption`:
- `TypesHold`, from `TypeCorrect`: the type invariant is inductive by itself.
- `Safety`: the inductive invariant holds. The properties are not inductive: that a
  verified order has another executor than verifier needs the decision taken under
  the lock (`DecisionsHold`) at the moment of the commit; that this decision still holds
  needs that its request is the *only* holder of the row lock; that an assignee still
  exists needs that whoever completed «iniciar» is cited by the audit row, hence cannot
  be deleted; that the photo's author is the assignee needs that a photo request
  only exists for an order that had begun. The invariant is the conjunction of
  these named parts.
- `SeparationHolds`, `ExecutionRecordHolds`, `DoneMeansAnsweredHolds`, `DecisionsKept`,
  `PhotosHold`: each invariant follows from it.
- `VerifiedFrozen`, `AssigneeIsFrozen`, `MeterHolds`: the action properties. For the first the invariant supplies that
  a transition or an answer finds the order not verified when it commits, and that a copy that is under way belongs
  to an order made by hand without items or version; it is the one exception that the statement makes.
- `DecisionsKept` covers «complete» with a reading, which waits for the machine's row as well: TLC's
  `MCWorkOrders` has no readings, the theorem is about every choice of `Operations`.
- `RequestsProceed`: while requests are in progress, one of them waits for no row
  (`SomeRequestProceeds`, stated in this module). A row is held by a request that works on it, and a
  machine's row by one whose next statement is its commit (`HoldersAtWork`), so whoever waits, waits
  for a request that commits, or for one that waits for such a request. This is the safety half of
  `EveryRequestEnds`, which TLC checks with two workers.
- `Refinement`: `Spec => ImplementsLedger`. Commits map to `Move` and `Answer`, births to
  the `Create...` actions, `CopyCommit` to `Attach`, a deletion to `Forget`, everything else
  stutters. The invariant supplies what the abstract guards ask at the moment of the commit.

`SchedulerProofs`, for any plans, companies, intervals, horizon, runs and editors, under
`SchedulerAssumption` (types, and that the days the job is run on are dates):
- `TypesHold`. `TypeOK` is not inductive: that a calendar plan has a due date after a run's save
  needs that every calendar row in a run's memory, and every row an editor is about to save, has one.
  `LeastInSet` (a set of keys has a least one) stands on the finite-set theorems of the library.
- `CopiedOnceHolds`, `EvidenceKeepsPlanHolds`, from one invariant: what a run has inserted and not
  committed is a key nobody has committed (`KeysFree`) and no other run has inserted (`KeysOwned`); a
  run cannot leave a plan it made an order for without an UPDATE of the plan's row (`NewSaved`), and a
  row so held is live to the commit (`LockedLive`). Without `NewSaved` the order's plan could be
  deleted between its insertion and the commit.
- `NoDueSkippedHolds`, where nobody edits a plan's fields (`"update" \notin Operations`, as in the run that
  checks the refinement; with it the property is false, see section 3). A run that commits late moves the due date
  back, over dates that have their orders, so it is not enough to look at the present due date: every
  plan has a date it started from (`s` in `DuesInv`), all due dates ever held, in the row or in a run's memory, are
  a whole number of intervals after it, and every such date before one of them has its order, committed or,
  for the run's own copy, inserted by that run.
- `BookRefinement`: `Spec => ImplementsBook`, where nobody edits a plan's fields; runs that overlap, are killed
  and repeated, toggles, deletions, retired machines and readings are all included. A commit is `Serve` for the
  company the run had opened, with the day of the run, the plans whose rows it holds, and the dates in its memory;
  `CreatePlan` is `Schedule`, a deletion of a plan without orders `Drop`, everything else of a run or of the panel
  stutters. The invariant (`BookInv`) adds to the two of `NoDueSkippedHolds` and `RunsProceed` what a run has
  in hand (`Job`): plans of the company it opened, of the kind it loaded (`WorkOf`), orders up to its
  horizon (`MadeBy`), rows saved only when the loop was through (`DoneBy`). It also needs that a run's insertions lie on
  the grid of the plan's dates: an insertion before the row's due date would have its order already, committed by
  whoever moved the date, and the key would not be free (`CommitCopies`).
- `MeterSpacingHolds`, for runs that do not overlap (`OneRun`) and plans whose fields nobody edits: the requirement
  of the third finding of section 5, where it is kept; either of the two hypotheses is needed. Each order of a
  crossing was made for a reading not above the plan's baseline and for a day not after a started run's (`CommittedMeter`), what
  a run has inserted is an interval above the baseline of the row (`InsertedMeter`), and the row still has the baseline the run
  loaded until the run finds the crossing (`SeenMeter`), so that the commit moves it up to the order's reading and never down.
  It stands on `WaitInv`, the invariant of `RunsProceed`: what a run has inserted it has saved or stands at.
- `RunsProceed`: while runs are in progress, one of them waits for nobody (`SomeRunProceeds`, stated in this
  module). Runs take the plans by their keys and the dates of a plan in their order; hence a run holds rows and
  keys of plans it has passed, and of earlier dates of the plan it stands at (`RunTidy`), and whom it waits for
  is further: at a later plan, a later date, or the save. Of plans that were ever created there is a last
  (`PlansBounded`), of dates too, so the run that is furthest does not wait. This is the safety half of
  `EveryRunEnds`, for any number of runs and plans. (One run may have loaded a plan as an hour-meter plan and
  another as a calendar plan: the order of the crossing then comes before the dates.)

`TenancyProofs`, for any companies, accounts, threads and rows, under `TenancyAssumption` (NULL is none of
these, and no key is both a machine and a row about one):
- `TenantsApartHolds`. The property speaks of pages and contexts; what makes it inductive is that a thread
  between two requests has no company in its context and none in what it holds, that one that
  serves a request has the company of the account as it was loaded (the Django admin may change the
  account meanwhile), and that every row refers to rows of its own company, because the forms offer no
  others.

`AssetsProofs`, for any machines, documents, people and visits, under `AssetsAssumption`:
- `EvidenceHolds`, `SeenDocumentsHold`, `BajaHolds`. A visit keeps a row it loaded, so the invariant has
  to say of that copy what it says of the machine: an edit that saves a retired copy brings back a retired
  machine with its reason (`RowTidy`), whose audit row is witnessed by a visit
  (`Attested`) that has written it, has still to, or died before.

`RequestsProofs`, for any reports, people and worker processes, under `RequestsAssumption`:
- `DecisionHolds`, `TrailHolds`, `EventsHold`. A desk that has a report locked is the only one
  (`LocksTidy`) and the report is still to be decided (`DesksTidy`), so its order is not there; an event
  that waits for a commit belongs to the desk whose open transaction makes it true (`EventTidy`), so a commit
  makes true what it releases, and an event that was posted is over and told once.

`ChecklistTemplatesProofs`, for any versions, items, texts, orders and editors, under `TemplatesAssumption`
(versions are numbers, items are numbered from 1, there is at least one version and one text):
- `OnlyNewestHolds`, `ForksHold`, `CopiesHold`, `LockedHolds`, `PlacesHold`, `EditorsProceed`. `OnlyNewestIsLive` is nearly inductive;
  what it lacks is the editor's side (`EditTidy`): an editor that has locked its page works on the page,
  which nobody has used, on the page's only successor, or is about to make the successor, and the lock keeps
  any other editor of that page waiting. That a fork meets no fork follows. Parents (`LineageTidy`) and copied
  versions (`CopiesTidy`) are stored. An item loses no place when it is edited, so that a new item's
  place is in range needs the finiteness of the set of items. `PlacesHold` rests on that too: an exchange
  of two places keeps the set of places unless two items come to share one, which the unique key refuses, and the places
  1, 2, .. n are one more than the items before a new one, by the library's theorems on cardinality.
  `EditorsProceed` needs the two levels an editor may hold (a page, and the successor it waits for with a new
  item): the editor that holds the highest-numbered row waits for nobody.

`AccountsProofs`, for any names, administrators, limits and calls, under `AccountsAssumption`:
- `InvitationHolds`, `MailHolds`, `DeactivationHolds`, `SeatsHold`. What an invitation counted is true only
  until it commits because it holds the subscription's row (`SharedTidy`): no other invitation is between
  its count and its end, and the admin site adds to `adminMade`, which is taken off. An account that is
  inactive stays so, so a call that loaded it inactive has an earlier call for its witness.
  `InvitedAccount` counts the new seat with the library's theorems on cardinality.

`CalendarProofs`, for any first due dates, intervals, meter steps and bounds, under `DueDatesAssumption` and
`FirstDuesAssumption` (first due dates exist and there is one), and for any finite set of orders, any machines and any lengths of
day, week and month, under `IndicatorsAssumption` (types; a week is not longer than thirty days):
- `PeriodsHold`. That a date exists and is not more than clamped is inductive beside the month count; that an interval of
  days is exact needs that the ordinal of the day after is one more (`DayAfter`, through the lengths of months and leap
  years, for every date) and that n days after are n more. The latter is about a recursive function, and
  is proved from the least n for which it fails: sets of numbers have a least one by the library's theorem on
  well-founded orders (`LeastNumber`), which takes no operator. `DueStateHolds` compares the two sides,
  of a machine in service. `OverdueHolds` (of `OverdueUntilServed`, stated in this module): what is «vencido» does not cease
  to be so by days that pass or readings that come; only an order of the run, which moves the due date or the meter
  baseline, or switching the plan off ends it. Hence the overdue plan of a retired machine stays on the list
  until somebody switches it off or edits it.
- `ComplianceHolds`, `BoardHolds`, `PastHolds`. What a page has read is true of the orders as they were then
  (`BoardInv`); each later statement of the page keeps what the earlier ones found unless a commit came between. `PastHolds`: the
  rows of closed orders say the same of their work before and after a step (`Follows`), hence the sums over the same orders
  are the same functions summed (`SameWorkSameNumbers`). The sums
  of the cost statement are folds over finite sets of orders; that a part of a sum is not more than the
  whole goes by the smallest set for which it is not.
- `DueDatesTypesHold`, `IndicatorsTypesHold`: with the `TypesHold` of the five modules above these are the seven parts of
  `OfficeTypeOK`.

Only model-checked: liveness under fairness, which is outside what the prover does (`EveryRequestEnds`,
`DueIsServed`, `EveryRunEnds`; the safety halves of the first and the last, `SomeRequestProceeds` and
`SomeRunProceeds`, are proved); and `OfficeTypeOK`, the seven type invariants put together for the scenes of
`MCOffice`, each of which is proved of its own module.

What the proofs changed in the model: the assumption on `Indicators` says that a week is not longer than
thirty days (the buckets of the backlog would overlap) and that the orders are finite in number; `DueDates` asks of its first due dates that
they exist; its scene begins on the day so many ordinals before the first due date, instead of counting back
day by day; and `SomeEditorProceeds` says which rows a statement waits for, where it spoke of what is ENABLED.

## 7. Plan and what is not modelled

Modelled: the work orders and the scheduler (each with abstract specification and refinement), checklist templates,
reports with their events, accounts with mail and its log, machines and documents, due dates, the dashboard
and the tenancy of threads. Every invariant and action property of a passing run is stated by a theorem, but for
the liveness properties and `OfficeTypeOK`.

Not modelled:

- the Django admin beyond the fields named above (readings, accounts with their company, limits,
  suspension, deletion of users): it edits any
  column of any row without the panel's rules, an asset's company or a template's `is_active`
  included; a model of it would only say that no property holds there;
- file storage, PDF rendering and SMTP themselves: external, seen from the code that calls them;
- seed and demo data, settings, URLs, templates and static files, deployment scripts: data, configuration
  and presentation, with no state that steps change;
- catalogues (sites, machine categories): records without rules across steps.

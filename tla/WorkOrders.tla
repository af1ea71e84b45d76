----------------------------- MODULE WorkOrders -----------------------------
(***************************************************************************)
(* Work orders as the web workers execute them (apps/workorders).  Each    *)
(* worker runs one HTTP request at a time; a request is cut into the steps *)
(* at which another connection can come between two of its statements:     *)
(*                                                                         *)
(*   - `transition` and `record_item_result` are one transaction: they     *)
(*     wait for SELECT ... FOR UPDATE on the order, decide on the re-read  *)
(*     row, write, and commit;                                             *)
(*   - «complete» with an hour-meter value also locks the asset row;       *)
(*   - the photo upload decides on an unlocked read, asks the seal, then   *)
(*     inserts;                                                            *)
(*   - `corrective_create` commits the order first, and copies the         *)
(*     checklist onto it in a second transaction.                          *)
(*                                                                         *)
(* PostgreSQL is modelled by what the code relies on: READ COMMITTED, row  *)
(* locks held to the end of the transaction, foreign keys checked at       *)
(* commit, and a rollback of everything when a worker dies.                *)
(***************************************************************************)
EXTENDS WorkOrderRules

CONSTANTS
  Orders,      \* primary keys of workorders_workorder
  Assets,      \* primary keys of assets_asset
  AssetOf,     \* [Orders -> Assets]
  Workers,     \* web worker processes
  MaxHours,    \* bound: hour-meter readings are 0..MaxHours
  Removable,   \* bound: users an administrator may deactivate or delete
  Operations   \* which entry points the environment uses

AllOperations == Actions \cup
  {"item", "photo", "reading", "corrective", "schedule", "convert",
   "admin_reading", "deactivate", "delete_user", "crash"}

ASSUME OrdersAssumption ==
  /\ AssetOf \in [Orders -> Assets]
  /\ MaxHours \in Nat
  /\ Removable \subseteq Users
  /\ Operations \subseteq AllOperations
  /\ None \notin AllOperations
  /\ None \notin Posted
  /\ None \notin Orders \cup Assets \cup Workers \cup Slots \cup (0 .. MaxHours)

Hours == 0 .. MaxHours

VARIABLES
  wo,          \* [Orders -> Rows]: committed rows
  answer,      \* [Orders -> [Slots -> Answers]]: committed checklist items
  photos,      \* [Orders -> SUBSET PhotoRows]: committed photo rows
  meter,       \* [Assets -> [top, last]]: highest and newest reading
  account,     \* [Users -> AccountStates]
  cited,       \* users some PROTECTed row points at (audit, photo, reading)
  woLock,      \* [Orders -> Workers \cup {None}]: holder of the order's row lock
  assetLock,   \* [Assets -> Workers \cup {None}]: holder of the asset's row lock
  pc,          \* [Workers -> Points]: where each worker's request stands
  job          \* [Workers -> Jobs]: what the request carries

data  == <<wo, answer, photos, meter, account, cited>>
locks == <<woLock, assetLock>>
vars  == <<wo, answer, photos, meter, account, cited, woLock, assetLock, pc, job>>

AccountStates == {"active", "inactive", "deleted"}

\* A machine without readings counts as 0 h: the forms accept nothing below 0, so
\* both accept the same first reading.
MeterRows == [top : Hours, last : Hours]

\* A photo row keeps who took it; «at» is the order's status when it was stored.
PhotoRows == [by : Users, at : Statuses]

Points == {"idle", "lock", "asset", "commit", "photo_seal", "photo_insert",
           "copy_seal", "copy_write", "admin_insert"}

Jobs == [op : AllOperations \cup {None}, user : Users \cup {None},
         order : Orders \cup {None}, assignee : Users \cup {None},
         slot : Slots \cup {None}, posted : Posted \cup {None},
         asset : Assets \cup {None}, hours : Hours \cup {None}]

NoJob == [op |-> None, user |-> None, order |-> None, assignee |-> None,
          slot |-> None, posted |-> None, asset |-> None, hours |-> None]

Init ==
  /\ wo        = [w \in Orders |-> AbsentRow]
  /\ answer    = [w \in Orders |-> NoItems]
  /\ photos    = [w \in Orders |-> {}]
  /\ meter     = [a \in Assets |-> [top |-> 0, last |-> 0]]
  /\ account   = [u \in Users |-> "active"]
  /\ cited     = {}
  /\ woLock    = [w \in Orders |-> None]
  /\ assetLock = [a \in Assets |-> None]
  /\ pc        = [r \in Workers |-> "idle"]
  /\ job       = [r \in Workers |-> NoJob]

Exists(w) == wo[w].status # "absent"

\* A session opens only for an active account.
LoggedIn(u) == account[u] = "active"

-----------------------------------------------------------------------------
(* Locks and the end of a request. *)

\* Mutant: the row is read without select_for_update.
RowUnlocked(w) == TRUE

\* No transaction holds the order's row: SELECT ... FOR UPDATE returns, and so
\* does a commit whose foreign key points at the row.
RowFree(w) == woLock[w] = None

\* Mutant: record_reading does not lock the machine.
AssetUnlocked(a) == TRUE

AssetFree(a) == assetLock[a] = None

\* COMMIT, ROLLBACK or a dead connection: every lock of the worker is gone and
\* the worker is ready for another request.
End(r) ==
  /\ pc' = [pc EXCEPT ![r] = "idle"]
  /\ job' = [job EXCEPT ![r] = NoJob]
  /\ woLock' = [w \in Orders |-> IF woLock[w] = r THEN None ELSE woLock[w]]
  /\ assetLock' = [a \in Assets |-> IF assetLock[a] = r THEN None ELSE assetLock[a]]

\* The request goes on to point p, holding what it holds.
Proceed(r, p) ==
  /\ pc' = [pc EXCEPT ![r] = p]
  /\ UNCHANGED <<job, locks>>

\* An idle worker accepts request j, whose first step is point p.
Accept(r, j, p) ==
  /\ pc[r] = "idle"
  /\ pc' = [pc EXCEPT ![r] = p]
  /\ job' = [job EXCEPT ![r] = j]
  /\ UNCHANGED locks

\* Mutant: the rows that name a user do not protect the user's row.
CiteNobody(u) == cited

\* The users some row refers to with on_delete=PROTECT, u now among them.
Cite(u) == cited \cup {u}

-----------------------------------------------------------------------------
(* Transitions and checklist answers: lock, decide, write, commit. *)

\* The assignment form offers active users of the assignable roles; it is read
\* before the lock, and the service checks that copy again.
AssigneeChoices(action) ==
  IF action = "assign" THEN {a \in Users : LoggedIn(a) /\ Assignable(a)} ELSE {None}

\* Only «complete» carries an hour-meter value, and only when it was filled in.
HoursChoices(action) ==
  IF action = "complete" /\ "reading" \in Operations THEN Hours \cup {None} ELSE {None}

\* A POST to one of the five transition views reaches services.transition.
BeginTransition(r) ==
  /\ \E action \in Actions \cap Operations, u \in Users, w \in Orders :
       \E a \in AssigneeChoices(action), h \in HoursChoices(action) :
         /\ LoggedIn(u)
         /\ Exists(w)
         /\ action = "complete" => may_execute(wo[w], u)
         /\ Accept(r, [NoJob EXCEPT !.op = action, !.user = u, !.order = w,
                                    !.assignee = a, !.hours = h,
                                    !.asset = IF h = None THEN None ELSE AssetOf[w]],
                   "lock")
  /\ UNCHANGED data

\* A POST of one checklist answer reaches record_item_result.
BeginAnswer(r) ==
  /\ "item" \in Operations
  /\ \E u \in Users, w \in Orders, s \in Slots : \E p \in PostedFor(s) :
       /\ LoggedIn(u)
       /\ answer[w][s] # "absent"
       /\ may_execute(wo[w], u)
       /\ Accept(r, [NoJob EXCEPT !.op = "item", !.user = u, !.order = w,
                                  !.slot = s, !.posted = p], "lock")
  /\ UNCHANGED data

\* Mutant: the status of the re-read order is not asked.
MayAnswerAnytime(row, u) == row.assigned = u

MayAnswer(row, u) == row.status = "en_progreso" /\ row.assigned = u

\* What the service decides from the order and the items it reads under the lock.
Decides(j) ==
  IF j.op = "item"
  THEN MayAnswer(wo[j.order], j.user) /\ AcceptsPost(j.slot, j.posted)
  ELSE /\ MayTransition(j.op, wo[j.order], j.user)
       /\ j.op = "complete" => PendingRequired(answer[j.order]) = {}

\* select_for_update returns and nothing is refused: the lock is kept.
Lock(r) ==
  /\ pc[r] = "lock"
  /\ RowFree(job[r].order)
  /\ Decides(job[r])
  /\ woLock' = [woLock EXCEPT ![job[r].order] = r]
  /\ pc' = [pc EXCEPT ![r] = IF job[r].asset = None THEN "commit" ELSE "asset"]
  /\ UNCHANGED <<data, assetLock, job>>

\* A WorkOrderError: the transaction rolls back and the operator reads why.
Refuse(r) ==
  /\ pc[r] = "lock"
  /\ RowFree(job[r].order)
  /\ ~Decides(job[r])
  /\ End(r)
  /\ UNCHANGED data

\* The user rows this transaction's new foreign keys point at still exist;
\* PostgreSQL asks at commit.
ReferencesExist(j) ==
  \A u \in Users : j.op # "item" /\ u \in {j.user, j.assignee} => account[u] # "deleted"

\* A reading row enters the series of its machine.
Inserted(m, h) ==
  [top |-> IF h > m.top THEN h ELSE m.top, last |-> h]

\* The UPDATE of the changed columns, the reading when there is one, and the
\* audit row that names the actor, in one commit.
CommitTransition(r) ==
  LET j == job[r] IN
  /\ pc[r] = "commit"
  /\ j.op \in Actions
  /\ ReferencesExist(j)
  /\ wo' = [wo EXCEPT ![j.order] = Applied(j.op, @, j.user, j.assignee)]
  /\ meter' = IF j.asset = None THEN meter
              ELSE [meter EXCEPT ![j.asset] = Inserted(@, j.hours)]
  /\ cited' = Cite(j.user)
  /\ End(r)
  /\ UNCHANGED <<answer, photos, account>>

CommitAnswer(r) ==
  LET j == job[r] IN
  /\ pc[r] = "commit"
  /\ j.op = "item"
  /\ answer' = [answer EXCEPT ![j.order][j.slot] = Resolved(j.posted)]
  /\ End(r)
  /\ UNCHANGED <<wo, photos, meter, account, cited>>

\* A foreign key of the transaction has lost its row: IntegrityError.
Rollback(r) ==
  /\ pc[r] \in {"commit", "photo_insert"}
  /\ ~ReferencesExist(job[r])
  /\ End(r)
  /\ UNCHANGED data

-----------------------------------------------------------------------------
(* Hour-meter readings: the panel, «complete», and the Django admin. *)

\* The quick-entry panel of an asset reaches record_reading.
BeginReading(r) ==
  /\ "reading" \in Operations
  /\ \E u \in Users, a \in Assets, h \in Hours :
       /\ LoggedIn(u)
       /\ may_report_failure(u)
       /\ Accept(r, [NoJob EXCEPT !.op = "reading", !.user = u, !.asset = a, !.hours = h],
                 "asset")
  /\ UNCHANGED data

\* validate_monotonic_reading: not below the highest stored reading.
Monotonic(j) == j.hours >= meter[j.asset].top

\* record_reading has the machine's row and the value is accepted.
LockAsset(r) ==
  /\ pc[r] = "asset"
  /\ AssetFree(job[r].asset)
  /\ Monotonic(job[r])
  /\ assetLock' = [assetLock EXCEPT ![job[r].asset] = r]
  /\ pc' = [pc EXCEPT ![r] = "commit"]
  /\ UNCHANGED <<data, woLock, job>>

\* Mutant: the error is answered but the transaction stays open.
RefuseReadingHoldingLocks(r) ==
  /\ pc[r] = "asset"
  /\ AssetFree(job[r].asset)
  /\ ~Monotonic(job[r])
  /\ pc' = [pc EXCEPT ![r] = "idle"]
  /\ job' = [job EXCEPT ![r] = NoJob]
  /\ UNCHANGED <<data, locks>>

\* A reading below the highest one takes the whole transaction back, the
\* completion of the order included.
RefuseReading(r) ==
  /\ pc[r] = "asset"
  /\ AssetFree(job[r].asset)
  /\ ~Monotonic(job[r])
  /\ End(r)
  /\ UNCHANGED data

CommitReading(r) ==
  LET j == job[r] IN
  /\ pc[r] = "commit"
  /\ j.op = "reading"
  /\ ReferencesExist(j)
  /\ meter' = [meter EXCEPT ![j.asset] = Inserted(@, j.hours)]
  /\ cited' = Cite(j.user)
  /\ End(r)
  /\ UNCHANGED <<wo, answer, photos, account>>

\* The admin's «add reading»: MeterReading.save() validates with no lock ...
AdminValidates(r) ==
  /\ "admin_reading" \in Operations
  /\ \E a \in Assets, h \in Hours :
       LET j == [NoJob EXCEPT !.op = "admin_reading", !.asset = a, !.hours = h] IN
       Monotonic(j) /\ Accept(r, j, "admin_insert")
  /\ UNCHANGED data

\* ... and the INSERT follows; its foreign key waits for the asset row.
AdminInserts(r) ==
  LET j == job[r] IN
  /\ pc[r] = "admin_insert"
  /\ AssetFree(j.asset)
  /\ meter' = [meter EXCEPT ![j.asset] = Inserted(@, j.hours)]
  /\ End(r)
  /\ UNCHANGED <<wo, answer, photos, account, cited>>

-----------------------------------------------------------------------------
(* Photos: three statements, none of them under the order's lock. *)

\* Mutant: the view asks for the status alone.
AnyoneMayPhotograph(row, u) == row.status = "en_progreso"

MayPhotograph(row, u) == row.assigned = u /\ row.status = "en_progreso"

BeginPhoto(r) ==
  /\ "photo" \in Operations
  /\ \E u \in Users, w \in Orders :
       /\ LoggedIn(u)
       /\ MayPhotograph(wo[w], u)
       /\ Accept(r, [NoJob EXCEPT !.op = "photo", !.user = u, !.order = w], "photo_seal")
  /\ UNCHANGED data

\* WorkOrderPhoto.save() asks whether the stored order is verified.
PhotoPassesSeal(r) ==
  /\ pc[r] = "photo_seal"
  /\ wo[job[r].order].status # "verificada"
  /\ Proceed(r, "photo_insert")
  /\ UNCHANGED data

PhotoRefusedBySeal(r) ==
  /\ pc[r] = "photo_seal"
  /\ wo[job[r].order].status = "verificada"
  /\ End(r)
  /\ UNCHANGED data

\* The file is written, then the row; the foreign key waits for the order's row.
PhotoInsert(r) ==
  LET j == job[r] IN
  /\ pc[r] = "photo_insert"
  /\ RowFree(j.order)
  /\ ReferencesExist(j)
  /\ photos' = [photos EXCEPT ![j.order] = @ \cup {[by |-> j.user, at |-> wo[j.order].status]}]
  /\ cited' = Cite(j.user)
  /\ End(r)
  /\ UNCHANGED <<wo, answer, meter, account>>

-----------------------------------------------------------------------------
(* How an order is born. *)

Insertable(w) == ~Exists(w) /\ AssetFree(AssetOf[w])

\* «Reportar una falla»: the order is committed at once; the checklist, when one
\* was picked, is copied by a second transaction of the same request.
CreateCorrective(r) ==
  /\ "corrective" \in Operations
  /\ pc[r] = "idle"
  /\ \E u \in Users, w \in Orders, copies \in BOOLEAN :
     \E a \in IF is_manager(u) THEN AssigneeChoices("assign") \cup {None} ELSE {None} :
       /\ LoggedIn(u)
       /\ may_report_failure(u)
       /\ Insertable(w)
       /\ wo' = [wo EXCEPT ![w] =
                   NewRow(IF a = None THEN "abierta" ELSE "asignada", "manual", a)]
       /\ IF copies
          THEN Accept(r, [NoJob EXCEPT !.op = "corrective", !.user = u, !.order = w],
                      "copy_seal")
          ELSE UNCHANGED <<pc, job, locks>>
  /\ UNCHANGED <<answer, photos, meter, account, cited>>

\* snapshot_checklist has inserted the items, uncommitted; WorkOrder.save() asks
\* the seal of the stored row.
CopyPassesSeal(r) ==
  /\ pc[r] = "copy_seal"
  /\ wo[job[r].order].status # "verificada"
  /\ Proceed(r, "copy_write")
  /\ UNCHANGED data

CopyRefusedBySeal(r) ==
  /\ pc[r] = "copy_seal"
  /\ wo[job[r].order].status = "verificada"
  /\ End(r)
  /\ UNCHANGED data

\* Mutant: save() without update_fields puts every column back as it was when the
\* order was reported with its assignee.
CopyCommitSavingEveryColumn(r) ==
  /\ pc[r] = "copy_write"
  /\ RowFree(job[r].order)
  /\ wo' = [wo EXCEPT ![job[r].order] =
              [Noted(@) EXCEPT !.status = "asignada", !.completedBy = None, !.verifiedBy = None]]
  /\ answer' = [answer EXCEPT ![job[r].order] = BlankItems]
  /\ End(r)
  /\ UNCHANGED <<photos, meter, account, cited>>

\* Its UPDATE gets the order's row, whatever became of it since the seal was
\* asked: the version it notes and the items commit together.
CopyCommit(r) ==
  /\ pc[r] = "copy_write"
  /\ RowFree(job[r].order)
  /\ wo' = [wo EXCEPT ![job[r].order] = Noted(@)]
  /\ answer' = [answer EXCEPT ![job[r].order] = BlankItems]
  /\ End(r)
  /\ UNCHANGED <<photos, meter, account, cited>>

\* The scheduler: order and checklist in one transaction.  The plan's default
\* technician may have been deactivated since the plan was written.
Schedule(w) ==
  /\ "schedule" \in Operations
  /\ Insertable(w)
  /\ \E a \in {u \in Users : Role[u] = "technician" /\ account[u] # "deleted"} \cup {None} :
       LET born == NewRow("abierta", "plan", a) IN
       \/ wo' = [wo EXCEPT ![w] = born] /\ answer' = [answer EXCEPT ![w] = NoItems]
       \/ wo' = [wo EXCEPT ![w] = Noted(born)] /\ answer' = [answer EXCEPT ![w] = BlankItems]
  /\ UNCHANGED <<photos, meter, account, cited, locks, pc, job>>

\* A supervisor converts a failure report; the audit row names the reviewer.
Convert(w) ==
  /\ "convert" \in Operations
  /\ Insertable(w)
  /\ \E u \in Users :
       /\ LoggedIn(u)
       /\ is_manager(u)
       /\ cited' = Cite(u)
  /\ wo' = [wo EXCEPT ![w] = NewRow("abierta", "solicitud", None)]
  /\ UNCHANGED <<answer, photos, meter, account, locks, pc, job>>

-----------------------------------------------------------------------------
(* Accounts, and workers that die. *)

\* user_deactivate saves the flag and audits it afterwards, in a statement of
\* its own that may never run.
DeactivateUser(u) ==
  /\ "deactivate" \in Operations
  /\ u \in Removable
  /\ account[u] = "active"
  /\ account' = [account EXCEPT ![u] = "inactive"]
  /\ \E by \in Users :
       /\ LoggedIn(by)
       /\ by \in PlatformAdmins \/ Role[by] = "admin"
       /\ cited' \in {cited, Cite(by)}
  /\ UNCHANGED <<wo, answer, photos, meter, locks, pc, job>>

\* The Django admin deletes a user: PROTECT refuses if a row cites the user or an
\* order was completed by the user, SET_NULL clears the other two columns and
\* waits for the rows it must rewrite.
DeleteUser(u) ==
  /\ "delete_user" \in Operations
  /\ u \in Removable
  /\ account[u] # "deleted"
  /\ u \notin cited
  /\ \A w \in Orders :
       /\ wo[w].completedBy # u
       /\ u \in {wo[w].assigned, wo[w].verifiedBy} => RowFree(w)
  /\ account' = [account EXCEPT ![u] = "deleted"]
  /\ wo' = [w \in Orders |->
              [wo[w] EXCEPT !.assigned   = IF @ = u THEN None ELSE @,
                            !.verifiedBy = IF @ = u THEN None ELSE @]]
  /\ UNCHANGED <<answer, photos, meter, cited, locks, pc, job>>

\* A worker dies inside a request: what it had not committed never happened.
Crash(r) ==
  /\ "crash" \in Operations
  /\ pc[r] # "idle"
  /\ End(r)
  /\ UNCHANGED data

-----------------------------------------------------------------------------

\* The steps a request takes on its own once it was accepted.
Progress(r) ==
  \/ Lock(r)            \/ Refuse(r)
  \/ LockAsset(r)       \/ RefuseReading(r)
  \/ CommitTransition(r) \/ CommitAnswer(r) \/ CommitReading(r) \/ Rollback(r)
  \/ AdminInserts(r)
  \/ PhotoPassesSeal(r) \/ PhotoRefusedBySeal(r) \/ PhotoInsert(r)
  \/ CopyPassesSeal(r)  \/ CopyRefusedBySeal(r)  \/ CopyCommit(r)

Begin(r) ==
  \/ BeginTransition(r) \/ BeginAnswer(r) \/ BeginReading(r) \/ AdminValidates(r)
  \/ BeginPhoto(r)      \/ CreateCorrective(r)

Next ==
  \/ \E r \in Workers : Begin(r) \/ Progress(r) \/ Crash(r)
  \/ \E w \in Orders : Schedule(w) \/ Convert(w)
  \/ \E u \in Users : DeactivateUser(u) \/ DeleteUser(u)

Spec == Init /\ [][Next]_vars

\* PostgreSQL queues the waiters of a row lock, so a request whose lock becomes
\* free again and again is served; a request that need not wait is just run.
Fairness == \A r \in Workers : SF_vars(Progress(r))

FairSpec == Spec /\ Fairness

-----------------------------------------------------------------------------
(* What the component keeps. *)

\* Every variable holds values of its columns: in particular a measurement is
\* stored as the result its range decides, never as it was posted.
TypeOK ==
  /\ wo \in [Orders -> Rows]
  /\ answer \in [Orders -> [Slots -> Answers]]
  /\ photos \in [Orders -> SUBSET PhotoRows]
  /\ meter \in [Assets -> MeterRows]
  /\ account \in [Users -> AccountStates]
  /\ cited \subseteq Users
  /\ woLock \in [Orders -> Workers \cup {None}]
  /\ assetLock \in [Assets -> Workers \cup {None}]
  /\ pc \in [Workers -> Points]
  /\ job \in [Workers -> Jobs]

\* Rule 3: the person who verified an order is a manager and is not the person
\* who executed it, whatever reassignments, double taps and deleted accounts lie
\* between the two (transition, _may_verify).
SeparationOfDuties ==
  \A w \in Orders :
    wo[w].status = "verificada" =>
      /\ wo[w].verifiedBy \in Users
      /\ is_manager(wo[w].verifiedBy)
      /\ wo[w].completedBy \in Users
      /\ wo[w].verifiedBy # wo[w].completedBy

\* Who executed is recorded, not inferred: from «iniciar» on the order names a
\* user whose row still exists, and the one who completed it is that user.  It
\* takes the matrix (no reassignment), the audit row's PROTECT and the checks
\* at commit together.
ExecutionRecord ==
  \A w \in Orders :
    /\ wo[w].status \in StartedStatuses =>
         wo[w].assigned \in Users /\ account[wo[w].assigned] # "deleted"
    /\ wo[w].status \in DONE_STATUSES => wo[w].completedBy = wo[w].assigned

\* No order is reported finished over a required question nobody answered, also
\* not by an answer emptied while «terminar» was on its way.  Orders made by
\* hand get their checklist late and are the subject of AllDoneMeansAnswered.
DoneMeansAnswered ==
  \A w \in Orders :
    wo[w].status \in DONE_STATUSES /\ wo[w].origin # "manual" =>
      PendingRequired(answer[w]) = {}

\* The same of every order: what the acceptance criteria say, and what
\* corrective_create does not keep.
AllDoneMeansAnswered ==
  \A w \in Orders :
    wo[w].status \in DONE_STATUSES => PendingRequired(answer[w]) = {}

\* What a service decided under the lock is still so when it writes, also after
\* it waited for the machine's row: nothing that runs beside it changes the order
\* or its items in between.
DecisionsHold ==
  \A r \in Workers :
    pc[r] \in {"asset", "commit"} /\ job[r].order # None => Decides(job[r])

\* Every photo is the executor's: the view decides on an unlocked read, and is
\* right because an order that was once under way never changes hands.
PhotosByExecutor ==
  \A w \in Orders : \A p \in photos[w] : p.by = wo[w].assigned

\* No photo enters a verified order (the first invariant of models.py): not kept
\* by the code.
SealCoversPhotos ==
  \A w \in Orders : \A p \in photos[w] : p.at # "verificada"

\* The meter never runs backwards through the panel or through «terminar», however
\* their requests overlap with each other and with the Django admin's: only an
\* INSERT of the admin itself can enter a reading below the highest one.
MeterNeverBackwards ==
  [][\A a \in Assets :
       meter'[a] # meter[a] /\ meter'[a].last < meter[a].top =>
         \E r \in Workers : pc[r] = "admin_insert" /\ pc'[r] = "idle"]_vars

\* A verified order is evidence: no step changes its row or its answers but one.
\* The late copy of a corrective order's checklist asks the seal before it has the
\* row, and may land on an order verified in between; even then it only notes the
\* version, lays blank items where there were none, and does so once.
VerifiedIsFrozen ==
  [][\A w \in Orders :
       wo[w].status = "verificada" =>
         \/ wo'[w] = wo[w] /\ answer'[w] = answer[w]
         \/ /\ wo[w].origin = "manual"
            /\ wo[w].checklistTemplate = None
            /\ answer[w] = NoItems
            /\ wo'[w] = Noted(wo[w])
            /\ answer'[w] = BlankItems]_vars

\* Once work is under way the assignee is frozen, whoever reassigns or deletes
\* accounts meanwhile.
AssigneeFrozen ==
  [][\A w \in Orders :
       wo[w].status \in StartedStatuses => wo'[w].assigned = wo[w].assigned]_vars

\* Every accepted request ends, in a commit or a refusal: no two of them wait
\* for each other's rows, and none leaves a lock behind that starves the rest.
EveryRequestEnds ==
  \A r \in Workers : pc[r] # "idle" ~> pc[r] = "idle"

\* The overlapping requests implement the book of whole operations.
Ledger == INSTANCE WorkOrderLedger WITH wo <- wo, answer <- answer

ImplementsLedger == Ledger!Spec
=============================================================================

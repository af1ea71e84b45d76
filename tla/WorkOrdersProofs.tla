-------------------------- MODULE WorkOrdersProofs --------------------------
(***************************************************************************)
(* Proofs about WorkOrders, for any users, orders, machines, checklists    *)
(* and number of workers: its invariants, its action properties, and that   *)
(* it implements WorkOrderLedger.                                          *)
(***************************************************************************)
EXTENDS WorkOrders, TLAPS

(* What a request carries, by its kind. *)
WellFormed(j) ==
  /\ j.op \in Actions \cup {"item", "photo", "corrective"} <=> j.order # None
  /\ j.op \in Actions \cup {"item", "photo", "reading"} => j.user \in Users
  /\ j.op = "assign" => j.assignee \in Users /\ Assignable(j.assignee)
  /\ j.op = "item" => j.slot \in Slots /\ j.posted \in PostedFor(j.slot)
  /\ j.op \in {"reading", "admin_reading"} => j.asset # None
  /\ j.asset # None <=> j.hours # None

(* Which kinds of request stand at which point. *)
OpsAt(p) ==
  CASE p = "idle" -> {None}
    [] p = "lock" -> Actions \cup {"item"}
    [] p \in {"asset", "commit"} -> Actions \cup {"item", "reading"}
    [] p \in {"photo_seal", "photo_insert"} -> {"photo"}
    [] p \in {"copy_seal", "copy_write"} -> {"corrective"}
    [] p = "admin_insert" -> {"admin_reading"}

JobShape ==
  \A r \in Workers : WellFormed(job[r]) /\ job[r].op \in OpsAt(pc[r])

TypeInv == TypeOK /\ JobShape

LEMMA AppliedType ==
  ASSUME NEW action \in Actions, NEW row \in Rows, NEW u \in Users,
         NEW a \in Users \cup {None}
  PROVE  Applied(action, row, u, a) \in Rows
<1>1. TRANSITIONS[action].to \in Statuses
  BY DEF Actions, TRANSITIONS, Statuses
<1>2. QED
  BY <1>1 DEF Applied, Rows

LEMMA NewRowType ==
  ASSUME NEW s \in Statuses, NEW o \in Origins, NEW a \in Users \cup {None}
  PROVE  NewRow(s, o, a) \in Rows
BY DEF NewRow, AbsentRow, Rows, Statuses

(* Noting the version of a checklist leaves the rest of the row alone. *)
LEMMA NotedRow ==
  ASSUME NEW row \in Rows
  PROVE  /\ Noted(row) \in Rows
         /\ Noted(row).status      = row.status
         /\ Noted(row).origin      = row.origin
         /\ Noted(row).assigned    = row.assigned
         /\ Noted(row).completedBy = row.completedBy
         /\ Noted(row).verifiedBy  = row.verifiedBy
BY DEF Noted, Rows

LEMMA PostedForPosted ==
  ASSUME NEW s \in Slots
  PROVE  PostedFor(s) \subseteq Posted
BY RulesAssumption DEF PostedFor, Posted, Kinds

LEMMA ResolvedType ==
  ASSUME NEW p \in Posted
  PROVE  Resolved(p) \in Answers
BY DEF Resolved, Posted, Answers

LEMMA NoJobType == NoJob \in Jobs /\ WellFormed(NoJob) /\ NoJob.op = None
BY OrdersAssumption DEF NoJob, Jobs, WellFormed, Actions, AllOperations

LEMMA EndType ==
  ASSUME TypeInv, NEW r \in Workers, End(r)
  PROVE  /\ woLock' \in [Orders -> Workers \cup {None}]
         /\ assetLock' \in [Assets -> Workers \cup {None}]
         /\ pc' \in [Workers -> Points]
         /\ job' \in [Workers -> Jobs]
         /\ JobShape'
<1>1. pc' = [pc EXCEPT ![r] = "idle"] /\ job' = [job EXCEPT ![r] = NoJob]
  BY DEF End
<1>2. pc' \in [Workers -> Points] /\ job' \in [Workers -> Jobs]
  BY <1>1, NoJobType DEF TypeInv, TypeOK, Points
<1>3. JobShape'
  BY <1>1, <1>2, NoJobType DEF TypeInv, TypeOK, JobShape, OpsAt
<1>4. QED
  BY <1>2, <1>3 DEF End, TypeInv, TypeOK


(***************************************************************************)
(* Type correctness: one step per action.                                  *)
(***************************************************************************)

LEMMA DataUnchanged ==
  ASSUME TypeInv, UNCHANGED data
  PROVE  /\ wo' \in [Orders -> Rows]
         /\ answer' \in [Orders -> [Slots -> Answers]]
         /\ photos' \in [Orders -> SUBSET PhotoRows]
         /\ meter' \in [Assets -> MeterRows]
         /\ account' \in [Users -> AccountStates]
         /\ cited' \subseteq Users
BY DEF TypeInv, TypeOK, data

(* An idle worker that accepts a well-formed request of the right kind. *)
LEMMA AcceptType ==
  ASSUME TypeInv, NEW r \in Workers, NEW j \in Jobs, NEW p \in Points,
         WellFormed(j), j.op \in OpsAt(p), Accept(r, j, p)
  PROVE  /\ woLock' \in [Orders -> Workers \cup {None}]
         /\ assetLock' \in [Assets -> Workers \cup {None}]
         /\ pc' \in [Workers -> Points]
         /\ job' \in [Workers -> Jobs]
         /\ JobShape'
<1>1. pc' = [pc EXCEPT ![r] = p] /\ job' = [job EXCEPT ![r] = j]
  BY DEF Accept
<1>2. pc' \in [Workers -> Points] /\ job' \in [Workers -> Jobs]
  BY <1>1 DEF TypeInv, TypeOK
<1>3. JobShape'
  BY <1>1, <1>2 DEF TypeInv, TypeOK, JobShape
<1>4. QED
  BY <1>2, <1>3 DEF Accept, locks, TypeInv, TypeOK

(* A request that goes on to a point where its kind belongs. *)
LEMMA ProceedType ==
  ASSUME TypeInv, NEW r \in Workers, NEW p \in Points,
         pc' = [pc EXCEPT ![r] = p], UNCHANGED job,
         job[r].op \in OpsAt(p)
  PROVE  pc' \in [Workers -> Points] /\ job' \in [Workers -> Jobs] /\ JobShape'
<1>1. pc' \in [Workers -> Points] /\ job' \in [Workers -> Jobs]
  BY DEF TypeInv, TypeOK
<1>2. JobShape'
  BY <1>1 DEF TypeInv, TypeOK, JobShape
<1>3. QED
  BY <1>1, <1>2


(* The request of a worker at each point carries what the next step uses. *)
LEMMA JobAt ==
  ASSUME TypeInv, NEW r \in Workers
  PROVE  /\ job[r] \in Jobs
         /\ WellFormed(job[r])
         /\ job[r].op \in OpsAt(pc[r])
BY DEF TypeInv, TypeOK, JobShape

LEMMA BeginType ==
  ASSUME TypeInv, NEW r \in Workers, Begin(r)
  PROVE  TypeInv'
<1>1. CASE BeginTransition(r)
  <2>1. PICK action \in Actions \cap Operations, u \in Users, w \in Orders :
          \E a \in AssigneeChoices(action), h \in HoursChoices(action) :
            /\ LoggedIn(u)
            /\ Exists(w)
            /\ Accept(r, [NoJob EXCEPT !.op = action, !.user = u, !.order = w,
                                       !.assignee = a, !.hours = h,
                                       !.asset = IF h = None THEN None ELSE AssetOf[w]],
                      "lock")
    BY <1>1 DEF BeginTransition
  <2>2. PICK a \in AssigneeChoices(action), h \in HoursChoices(action) :
            Accept(r, [NoJob EXCEPT !.op = action, !.user = u, !.order = w,
                                       !.assignee = a, !.hours = h,
                                       !.asset = IF h = None THEN None ELSE AssetOf[w]],
                      "lock")
    BY <2>1
  <2> DEFINE j == [NoJob EXCEPT !.op = action, !.user = u, !.order = w,
                                !.assignee = a, !.hours = h,
                                !.asset = IF h = None THEN None ELSE AssetOf[w]]
  <2>3. a \in Users \cup {None} /\ h \in Hours \cup {None} /\ AssetOf[w] \in Assets
    BY OrdersAssumption DEF AssigneeChoices, HoursChoices
  <2>4. j \in Jobs
    BY <2>3 DEF NoJob, Jobs, AllOperations
  <2>5. action = "assign" => a \in Users /\ Assignable(a)
    BY DEF AssigneeChoices
  <2>6. WellFormed(j)
    BY <2>3, <2>5, OrdersAssumption DEF WellFormed, NoJob, Actions
  <2>7. j.op \in OpsAt("lock")
    BY DEF OpsAt, NoJob
  <2>8. Accept(r, j, "lock") /\ "lock" \in Points
    BY <2>2 DEF Points
  <2> HIDE DEF j
  <2>9. QED
    BY <1>1, <2>4, <2>6, <2>7, <2>8, AcceptType, DataUnchanged
       DEF BeginTransition, TypeInv, TypeOK
<1>2. CASE BeginAnswer(r)
  <2>1. PICK u \in Users, w \in Orders, s \in Slots : \E p \in PostedFor(s) :
          Accept(r, [NoJob EXCEPT !.op = "item", !.user = u, !.order = w,
                                  !.slot = s, !.posted = p], "lock")
    BY <1>2 DEF BeginAnswer
  <2>2. PICK p \in PostedFor(s) :
          Accept(r, [NoJob EXCEPT !.op = "item", !.user = u, !.order = w,
                                  !.slot = s, !.posted = p], "lock")
    BY <2>1
  <2> DEFINE j == [NoJob EXCEPT !.op = "item", !.user = u, !.order = w,
                                !.slot = s, !.posted = p]
  <2>3. j \in Jobs
    BY PostedForPosted DEF NoJob, Jobs, AllOperations
  <2>4. WellFormed(j)
    BY OrdersAssumption DEF WellFormed, NoJob, Actions
  <2>5. j.op \in OpsAt("lock") /\ "lock" \in Points
    BY DEF OpsAt, NoJob, Points
  <2>6. Accept(r, j, "lock")
    BY <2>2
  <2> HIDE DEF j
  <2>7. QED
    BY <1>2, <2>3, <2>4, <2>5, <2>6, AcceptType, DataUnchanged
       DEF BeginAnswer, TypeInv, TypeOK
<1>3. CASE BeginReading(r)
  <2>1. PICK u \in Users, a \in Assets, h \in Hours :
          Accept(r, [NoJob EXCEPT !.op = "reading", !.user = u, !.asset = a, !.hours = h],
                 "asset")
    BY <1>3 DEF BeginReading
  <2> DEFINE j == [NoJob EXCEPT !.op = "reading", !.user = u, !.asset = a, !.hours = h]
  <2>2. j \in Jobs
    BY DEF NoJob, Jobs, AllOperations
  <2>3. WellFormed(j)
    BY OrdersAssumption DEF WellFormed, NoJob, Actions, Hours
  <2>4. j.op \in OpsAt("asset") /\ "asset" \in Points
    BY DEF OpsAt, NoJob, Points
  <2>5. Accept(r, j, "asset")
    BY <2>1
  <2> HIDE DEF j
  <2>6. QED
    BY <1>3, <2>2, <2>3, <2>4, <2>5, AcceptType, DataUnchanged
       DEF BeginReading, TypeInv, TypeOK
<1>4. CASE AdminValidates(r)
  <2>1. PICK a \in Assets, h \in Hours :
          Accept(r, [NoJob EXCEPT !.op = "admin_reading", !.asset = a, !.hours = h],
                 "admin_insert")
    BY <1>4 DEF AdminValidates
  <2> DEFINE j == [NoJob EXCEPT !.op = "admin_reading", !.asset = a, !.hours = h]
  <2>2. j \in Jobs
    BY DEF NoJob, Jobs, AllOperations
  <2>3. WellFormed(j)
    BY OrdersAssumption DEF WellFormed, NoJob, Actions, Hours
  <2>4. j.op \in OpsAt("admin_insert") /\ "admin_insert" \in Points
    BY DEF OpsAt, NoJob, Points
  <2>5. Accept(r, j, "admin_insert")
    BY <2>1
  <2> HIDE DEF j
  <2>6. QED
    BY <1>4, <2>2, <2>3, <2>4, <2>5, AcceptType, DataUnchanged
       DEF AdminValidates, TypeInv, TypeOK
<1>5. CASE BeginPhoto(r)
  <2>1. PICK u \in Users, w \in Orders :
          Accept(r, [NoJob EXCEPT !.op = "photo", !.user = u, !.order = w], "photo_seal")
    BY <1>5 DEF BeginPhoto
  <2> DEFINE j == [NoJob EXCEPT !.op = "photo", !.user = u, !.order = w]
  <2>2. j \in Jobs
    BY DEF NoJob, Jobs, AllOperations
  <2>3. WellFormed(j)
    BY OrdersAssumption DEF WellFormed, NoJob, Actions
  <2>4. j.op \in OpsAt("photo_seal") /\ "photo_seal" \in Points
    BY DEF OpsAt, NoJob, Points
  <2>5. Accept(r, j, "photo_seal")
    BY <2>1
  <2> HIDE DEF j
  <2>6. QED
    BY <1>5, <2>2, <2>3, <2>4, <2>5, AcceptType, DataUnchanged
       DEF BeginPhoto, TypeInv, TypeOK
<1>6. CASE CreateCorrective(r)
  <2>1. PICK u \in Users, w \in Orders, copies \in BOOLEAN,
             a \in AssigneeChoices("assign") \cup {None} :
          /\ wo' = [wo EXCEPT ![w] =
                      NewRow(IF a = None THEN "abierta" ELSE "asignada", "manual", a)]
          /\ IF copies
             THEN Accept(r, [NoJob EXCEPT !.op = "corrective", !.user = u, !.order = w],
                         "copy_seal")
             ELSE UNCHANGED <<pc, job, locks>>
    BY <1>6 DEF CreateCorrective
  <2>2. wo' \in [Orders -> Rows]
    <3>1. NewRow(IF a = None THEN "abierta" ELSE "asignada", "manual", a) \in Rows
      BY NewRowType DEF AssigneeChoices, Statuses, Origins
    <3>2. QED
      BY <2>1, <3>1 DEF TypeInv, TypeOK
  <2>3. CASE copies
    <3> DEFINE j == [NoJob EXCEPT !.op = "corrective", !.user = u, !.order = w]
    <3>1. j \in Jobs
      BY DEF NoJob, Jobs, AllOperations
    <3>2. WellFormed(j)
      BY OrdersAssumption DEF WellFormed, NoJob, Actions
    <3>3. j.op \in OpsAt("copy_seal") /\ "copy_seal" \in Points
      BY DEF OpsAt, NoJob, Points
    <3>4. Accept(r, j, "copy_seal")
      BY <2>1, <2>3
    <3> HIDE DEF j
    <3>5. QED
      BY <1>6, <2>2, <3>1, <3>2, <3>3, <3>4, AcceptType
         DEF CreateCorrective, TypeInv, TypeOK
  <2>4. CASE ~copies
    BY <1>6, <2>1, <2>2, <2>4 DEF CreateCorrective, TypeInv, TypeOK, JobShape, locks
  <2>5. QED
    BY <2>3, <2>4
<1>7. QED
  BY <1>1, <1>2, <1>3, <1>4, <1>5, <1>6 DEF Begin


LEMMA ProgressType ==
  ASSUME TypeInv, NEW r \in Workers, Progress(r)
  PROVE  TypeInv'
<1>1. CASE Lock(r)
  <2>1. job[r].op \in Actions \cup {"item"}
    BY <1>1, JobAt DEF Lock, OpsAt
  <2>2. job[r].order \in Orders
    BY <2>1, JobAt DEF WellFormed, Jobs
  <2>3. woLock' \in [Orders -> Workers \cup {None}]
    BY <1>1, <2>2 DEF Lock, TypeInv, TypeOK
  <2> DEFINE p == IF job[r].asset = None THEN "commit" ELSE "asset"
  <2>4. p \in Points /\ job[r].op \in OpsAt(p)
    BY <2>1 DEF OpsAt, Points
  <2>5. pc' = [pc EXCEPT ![r] = p]
    BY <1>1 DEF Lock
  <2> HIDE DEF p
  <2>6. pc' \in [Workers -> Points] /\ job' \in [Workers -> Jobs] /\ JobShape'
    BY <1>1, <2>4, <2>5, ProceedType DEF Lock
  <2>7. QED
    BY <1>1, <2>3, <2>6, DataUnchanged DEF Lock, TypeInv, TypeOK
<1>2. CASE LockAsset(r)
  <2>1. job[r].op \in Actions \cup {"item", "reading"}
    BY <1>2, JobAt DEF LockAsset, OpsAt
  <2>2. "commit" \in Points /\ job[r].op \in OpsAt("commit")
    BY <2>1 DEF OpsAt, Points
  <2>3. pc' \in [Workers -> Points] /\ job' \in [Workers -> Jobs] /\ JobShape'
    BY <1>2, <2>2, ProceedType DEF LockAsset
  <2>4. assetLock' \in [Assets -> Workers \cup {None}]
    BY <1>2 DEF LockAsset, TypeInv, TypeOK
  <2>5. QED
    BY <1>2, <2>3, <2>4, DataUnchanged DEF LockAsset, TypeInv, TypeOK
<1>3. CASE Refuse(r) \/ RefuseReading(r) \/ Rollback(r) \/ PhotoRefusedBySeal(r)
           \/ CopyRefusedBySeal(r)
  <2>1. End(r) /\ UNCHANGED data
    BY <1>3 DEF Refuse, RefuseReading, Rollback, PhotoRefusedBySeal, CopyRefusedBySeal
  <2>2. QED
    BY <2>1, EndType, DataUnchanged DEF TypeInv, TypeOK
<1>4. CASE CommitTransition(r)
  <2> DEFINE j == job[r]
  <2>1. j.op \in Actions /\ j.user \in Users /\ j.order \in Orders
        /\ j.assignee \in Users \cup {None}
    BY <1>4, JobAt DEF CommitTransition, WellFormed, Jobs
  <2>2. wo' \in [Orders -> Rows]
    BY <1>4, <2>1, AppliedType DEF CommitTransition, TypeInv, TypeOK
  <2>3. meter' \in [Assets -> MeterRows]
    <3>1. CASE j.asset = None
      BY <1>4, <3>1 DEF CommitTransition, TypeInv, TypeOK
    <3>2. CASE j.asset # None
      <4>1. j.asset \in Assets /\ j.hours \in Hours
        BY <3>2, JobAt DEF WellFormed, Jobs
      <4>2. QED
        BY <1>4, <3>2, <4>1 DEF CommitTransition, TypeInv, TypeOK, MeterRows, Inserted
    <3>3. QED
      BY <3>1, <3>2
  <2>4. cited' \subseteq Users
    BY <1>4, <2>1 DEF CommitTransition, Cite, TypeInv, TypeOK
  <2>5. QED
    BY <1>4, <2>2, <2>3, <2>4, EndType DEF CommitTransition, TypeInv, TypeOK
<1>5. CASE CommitAnswer(r)
  <2>1. job[r].slot \in Slots /\ job[r].posted \in Posted
    BY <1>5, JobAt, PostedForPosted DEF CommitAnswer, WellFormed
  <2>2. answer' \in [Orders -> [Slots -> Answers]]
    BY <1>5, <2>1, ResolvedType DEF CommitAnswer, TypeInv, TypeOK
  <2>3. QED
    BY <1>5, <2>2, EndType DEF CommitAnswer, TypeInv, TypeOK
<1>6. CASE CommitReading(r)
  <2>1. job[r].asset \in Assets /\ job[r].hours \in Hours /\ job[r].user \in Users
    BY <1>6, JobAt DEF CommitReading, WellFormed, Jobs
  <2>2. meter' \in [Assets -> MeterRows] /\ cited' \subseteq Users
    BY <1>6, <2>1 DEF CommitReading, Inserted, MeterRows, Cite, TypeInv, TypeOK
  <2>3. QED
    BY <1>6, <2>2, EndType DEF CommitReading, TypeInv, TypeOK
<1>7. CASE AdminInserts(r)
  <2>1. job[r].op = "admin_reading"
    BY <1>7, JobAt DEF AdminInserts, OpsAt
  <2>2. job[r].asset \in Assets /\ job[r].hours \in Hours
    BY <2>1, JobAt DEF WellFormed, Jobs
  <2>3. meter' \in [Assets -> MeterRows]
    BY <1>7, <2>2 DEF AdminInserts, Inserted, MeterRows, TypeInv, TypeOK
  <2>4. QED
    BY <1>7, <2>3, EndType DEF AdminInserts, TypeInv, TypeOK
<1>8. CASE PhotoPassesSeal(r)
  <2>1. "photo_insert" \in Points /\ job[r].op \in OpsAt("photo_insert")
    BY <1>8, JobAt DEF PhotoPassesSeal, OpsAt, Points
  <2>2. QED
    BY <1>8, <2>1, ProceedType, DataUnchanged
       DEF PhotoPassesSeal, Proceed, locks, TypeInv, TypeOK
<1>9. CASE CopyPassesSeal(r)
  <2>1. "copy_write" \in Points /\ job[r].op \in OpsAt("copy_write")
    BY <1>9, JobAt DEF CopyPassesSeal, OpsAt, Points
  <2>2. QED
    BY <1>9, <2>1, ProceedType, DataUnchanged
       DEF CopyPassesSeal, Proceed, locks, TypeInv, TypeOK
<1>10. CASE PhotoInsert(r)
  <2>1. job[r].op = "photo"
    BY <1>10, JobAt DEF PhotoInsert, OpsAt
  <2>2. job[r].user \in Users /\ job[r].order \in Orders
    BY <2>1, JobAt DEF WellFormed, Jobs
  <2>3. [by |-> job[r].user, at |-> wo[job[r].order].status] \in PhotoRows
    BY <2>2 DEF PhotoRows, TypeInv, TypeOK, Rows
  <2>4. photos' \in [Orders -> SUBSET PhotoRows] /\ cited' \subseteq Users
    BY <1>10, <2>2, <2>3 DEF PhotoInsert, Cite, TypeInv, TypeOK
  <2>5. QED
    BY <1>10, <2>4, EndType DEF PhotoInsert, TypeInv, TypeOK
<1>11. CASE CopyCommit(r)
  <2>1. answer' \in [Orders -> [Slots -> Answers]]
    BY <1>11 DEF CopyCommit, BlankItems, Answers, TypeInv, TypeOK
  <2>2. wo' \in [Orders -> Rows]
    BY <1>11, NotedRow DEF CopyCommit, TypeInv, TypeOK
  <2>3. QED
    BY <1>11, <2>1, <2>2, EndType DEF CopyCommit, TypeInv, TypeOK
<1>12. QED
  BY <1>1, <1>2, <1>3, <1>4, <1>5, <1>6, <1>7, <1>8, <1>9, <1>10, <1>11 DEF Progress

LEMMA TypeStep == TypeInv /\ [Next]_vars => TypeInv'
<1> SUFFICES ASSUME TypeInv, [Next]_vars PROVE TypeInv'
  OBVIOUS
<1>1. ASSUME NEW r \in Workers, Begin(r) \/ Progress(r) PROVE TypeInv'
  BY <1>1, BeginType, ProgressType
<1>2. ASSUME NEW r \in Workers, Crash(r) PROVE TypeInv'
  BY <1>2, EndType, DataUnchanged DEF Crash, TypeInv, TypeOK
<1>3. ASSUME NEW w \in Orders, Schedule(w) PROVE TypeInv'
  <2>1. PICK a \in Users \cup {None} :
          \/ wo' = [wo EXCEPT ![w] = NewRow("abierta", "plan", a)]
          \/ wo' = [wo EXCEPT ![w] = Noted(NewRow("abierta", "plan", a))]
    BY <1>3 DEF Schedule
  <2>2. wo' \in [Orders -> Rows]
    BY <2>1, NewRowType, NotedRow DEF TypeInv, TypeOK, Statuses, Origins
  <2>3. answer' \in [Orders -> [Slots -> Answers]]
    BY <1>3 DEF Schedule, NoItems, BlankItems, Answers, TypeInv, TypeOK
  <2>4. QED
    BY <1>3, <2>2, <2>3 DEF Schedule, locks, TypeInv, TypeOK, JobShape
<1>4. ASSUME NEW w \in Orders, Convert(w) PROVE TypeInv'
  <2>1. wo' \in [Orders -> Rows]
    BY <1>4, NewRowType DEF Convert, TypeInv, TypeOK, Statuses, Origins
  <2>2. cited' \subseteq Users
    BY <1>4 DEF Convert, Cite, TypeInv, TypeOK
  <2>3. QED
    BY <1>4, <2>1, <2>2 DEF Convert, locks, TypeInv, TypeOK, JobShape
<1>5. ASSUME NEW u \in Users, DeactivateUser(u) PROVE TypeInv'
  BY <1>5 DEF DeactivateUser, Cite, locks, AccountStates, TypeInv, TypeOK, JobShape
<1>6. ASSUME NEW u \in Users, DeleteUser(u) PROVE TypeInv'
  <2>1. wo' \in [Orders -> Rows]
    BY <1>6 DEF DeleteUser, Rows, TypeInv, TypeOK
  <2>2. QED
    BY <1>6, <2>1 DEF DeleteUser, locks, AccountStates, TypeInv, TypeOK, JobShape
<1>7. CASE UNCHANGED vars
  BY <1>7 DEF vars, TypeInv, TypeOK, JobShape
<1>8. QED
  BY <1>1, <1>2, <1>3, <1>4, <1>5, <1>6, <1>7 DEF Next

LEMMA TypeInit == Init => TypeInv
<1> SUFFICES ASSUME Init PROVE TypeInv
  OBVIOUS
<1>1. AbsentRow \in Rows
  BY DEF AbsentRow, Rows, Statuses
<1>2. TypeOK
  BY <1>1, NoJobType, OrdersAssumption
     DEF Init, TypeOK, NoItems, Answers, MeterRows, Hours, AccountStates, Points
<1>3. JobShape
  BY NoJobType DEF Init, JobShape, OpsAt
<1>4. QED
  BY <1>2, <1>3 DEF TypeInv

THEOREM TypeCorrect == Spec => []TypeInv
BY TypeInit, TypeStep, PTL DEF Spec

THEOREM TypesHold == Spec => []TypeOK
<1>1. TypeInv => TypeOK
  BY DEF TypeInv
<1>2. QED
  BY <1>1, TypeCorrect, PTL


(***************************************************************************)
(* What one step can do to a worker, a row, a checklist, a series.         *)
(***************************************************************************)

(* q stands where it stood, with its request and its locks. *)
Undisturbed(q) ==
  /\ pc'[q] = pc[q]
  /\ job'[q] = job[q]
  /\ \A w \in Orders : woLock[w] = q => woLock'[w] = q
  /\ \A a \in Assets : assetLock[a] = q => assetLock'[a] = q

LEMMA EndDisturbsNobodyElse ==
  ASSUME TypeInv, NEW r \in Workers, NEW q \in Workers, q # r, End(r)
  PROVE  Undisturbed(q)
BY DEF End, Undisturbed, TypeInv, TypeOK

LEMMA AcceptDisturbsNobodyElse ==
  ASSUME TypeInv, NEW r \in Workers, NEW q \in Workers, q # r, NEW j, NEW p, Accept(r, j, p)
  PROVE  Undisturbed(q)
BY DEF Accept, locks, Undisturbed, TypeInv, TypeOK

LEMMA OtherWorker ==
  ASSUME TypeInv, NEW r \in Workers, NEW q \in Workers, q # r,
         Begin(r) \/ Progress(r) \/ Crash(r)
  PROVE  Undisturbed(q)
<1>1. None \notin Workers
  BY OrdersAssumption
<1>2. CASE Begin(r)
  <2>1. CASE UNCHANGED <<pc, job, locks>>
    BY <2>1 DEF locks, Undisturbed
  <2>2. CASE \E j, p : Accept(r, j, p)
    BY <2>2, AcceptDisturbsNobodyElse
  <2>3. QED
    BY <1>2, <2>1, <2>2 DEF Begin, BeginTransition, BeginAnswer, BeginReading,
       AdminValidates, BeginPhoto, CreateCorrective
<1>3. CASE Lock(r)
  BY <1>1, <1>3 DEF Lock, RowFree, Undisturbed, TypeInv, TypeOK
<1>4. CASE LockAsset(r)
  BY <1>1, <1>4 DEF LockAsset, AssetFree, Undisturbed, TypeInv, TypeOK
<1>5. CASE PhotoPassesSeal(r) \/ CopyPassesSeal(r)
  BY <1>5 DEF PhotoPassesSeal, CopyPassesSeal, Proceed, locks, Undisturbed, TypeInv, TypeOK
<1>6. CASE End(r)
  BY <1>6, EndDisturbsNobodyElse
<1>7. QED
  BY <1>2, <1>3, <1>4, <1>5, <1>6 DEF Progress, Crash, Refuse, RefuseReading,
     CommitTransition, CommitAnswer, CommitReading, Rollback, AdminInserts,
     PhotoRefusedBySeal, PhotoInsert, CopyRefusedBySeal, CopyCommit

(* A worker is left alone, becomes idle, or takes a step that keeps it busy. *)
LEMMA WorkerStep ==
  ASSUME TypeInv, Next, NEW q \in Workers
  PROVE  \/ Undisturbed(q)
         \/ pc'[q] = "idle"
         \/ Begin(q) \/ Lock(q) \/ LockAsset(q) \/ PhotoPassesSeal(q) \/ CopyPassesSeal(q)
<1>1. ASSUME NEW r \in Workers, Begin(r) \/ Progress(r) \/ Crash(r), q # r
      PROVE  Undisturbed(q)
  BY <1>1, OtherWorker
<1>2. End(q) => pc'[q] = "idle"
  BY DEF End, TypeInv, TypeOK
<1>3. Progress(q) \/ Crash(q) => \/ Lock(q) \/ LockAsset(q) \/ PhotoPassesSeal(q)
                                 \/ CopyPassesSeal(q) \/ End(q)
  BY DEF Progress, Crash, Refuse, RefuseReading,
     CommitTransition, CommitAnswer, CommitReading, Rollback, AdminInserts,
     PhotoRefusedBySeal, PhotoInsert, CopyRefusedBySeal, CopyCommit
<1>4. ASSUME NEW w \in Orders, Schedule(w) \/ Convert(w) PROVE Undisturbed(q)
  BY <1>4 DEF Schedule, Convert, locks, Undisturbed
<1>5. ASSUME NEW u \in Users, DeactivateUser(u) \/ DeleteUser(u) PROVE Undisturbed(q)
  BY <1>5 DEF DeactivateUser, DeleteUser, locks, Undisturbed
<1>6. QED
  BY <1>1, <1>2, <1>3, <1>4, <1>5 DEF Next

(* A row as a creation leaves it. *)
Born(row) ==
  /\ row.status \in {"abierta", "asignada"}
  /\ row.completedBy = None
  /\ row.verifiedBy = None

(* A row changes by its creation, by a committed transition, by the late copy of
   its checklist, or by the deletion of a user it names, while nobody holds it. *)
LEMMA RowStep ==
  ASSUME TypeInv, Next, NEW w \in Orders
  PROVE  \/ wo'[w] = wo[w]
         \/ wo[w].status = "absent" /\ Born(wo'[w])
         \/ \E r \in Workers : CommitTransition(r) /\ job[r].order = w
         \/ /\ wo'[w] = Noted(wo[w])
            /\ \E r \in Workers : CopyCommit(r) /\ job[r].order = w
         \/ \E u \in Users : /\ DeleteUser(u)
                             /\ u \in {wo[w].assigned, wo[w].verifiedBy}
<1>1. ASSUME NEW r \in Workers, CreateCorrective(r)
      PROVE  wo'[w] = wo[w] \/ (wo[w].status = "absent" /\ Born(wo'[w]))
  BY <1>1 DEF CreateCorrective, Insertable, Exists, Born, NewRow, AbsentRow, TypeInv, TypeOK
<1>2. ASSUME NEW v \in Orders, Schedule(v) \/ Convert(v)
      PROVE  wo'[w] = wo[w] \/ (wo[w].status = "absent" /\ Born(wo'[w]))
  <2>1. PICK o \in Origins, a \in Users \cup {None} :
          \/ wo' = [wo EXCEPT ![v] = NewRow("abierta", o, a)]
          \/ wo' = [wo EXCEPT ![v] = Noted(NewRow("abierta", o, a))]
    BY <1>2 DEF Schedule, Convert, Origins
  <2>2. wo[v].status = "absent"
    BY <1>2 DEF Schedule, Convert, Insertable, Exists
  <2>3. NewRow("abierta", o, a) \in Rows /\ Born(NewRow("abierta", o, a))
    BY NewRowType DEF Born, NewRow, AbsentRow, Statuses
  <2>4. Born(Noted(NewRow("abierta", o, a)))
    BY <2>3, NotedRow DEF Born
  <2>5. QED
    BY <2>1, <2>2, <2>3, <2>4 DEF TypeInv, TypeOK
<1>3. ASSUME NEW r \in Workers, CommitTransition(r), job[r].order # w
      PROVE  wo'[w] = wo[w]
  BY <1>3 DEF CommitTransition, TypeInv, TypeOK
<1>4. ASSUME NEW u \in Users, DeleteUser(u), u \notin {wo[w].assigned, wo[w].verifiedBy}
      PROVE  wo'[w] = wo[w]
  BY <1>4 DEF DeleteUser, TypeInv, TypeOK, Rows
<1>5. ASSUME NEW r \in Workers, Begin(r) \/ Progress(r) \/ Crash(r),
             ~CreateCorrective(r), ~CommitTransition(r), ~CopyCommit(r)
      PROVE  wo' = wo
  BY <1>5 DEF Begin, BeginTransition, BeginAnswer, BeginReading, AdminValidates, BeginPhoto,
     Progress, Crash, Lock, LockAsset, Refuse, RefuseReading, CommitAnswer, CommitReading,
     Rollback, AdminInserts, PhotoPassesSeal, PhotoRefusedBySeal, PhotoInsert,
     CopyPassesSeal, CopyRefusedBySeal, data
<1>6. ASSUME NEW u \in Users, DeactivateUser(u) PROVE wo' = wo
  BY <1>6 DEF DeactivateUser
<1>7. ASSUME NEW r \in Workers, CopyCommit(r)
      PROVE  wo'[w] = wo[w] \/ (job[r].order = w /\ wo'[w] = Noted(wo[w]))
  BY <1>7 DEF CopyCommit, TypeInv, TypeOK
<1>8. QED
  BY <1>1, <1>2, <1>3, <1>4, <1>5, <1>6, <1>7 DEF Next

(* A checklist changes by an answer, by the late copy, or with its order's birth. *)
LEMMA AnswerStep ==
  ASSUME TypeInv, Next, NEW w \in Orders
  PROVE  \/ answer'[w] = answer[w]
         \/ \E r \in Workers : CommitAnswer(r) /\ job[r].order = w
         \/ \E r \in Workers : CopyCommit(r) /\ job[r].order = w
         \/ Schedule(w)
<1>1. ASSUME NEW r \in Workers, CommitAnswer(r) \/ CopyCommit(r), job[r].order # w
      PROVE  answer'[w] = answer[w]
  BY <1>1 DEF CommitAnswer, CopyCommit, TypeInv, TypeOK
<1>2. ASSUME NEW v \in Orders, Schedule(v), v # w
      PROVE  answer'[w] = answer[w]
  BY <1>2 DEF Schedule, TypeInv, TypeOK
<1>3. ASSUME NEW r \in Workers, Begin(r) \/ Progress(r) \/ Crash(r),
             ~CommitAnswer(r), ~CopyCommit(r)
      PROVE  answer' = answer
  BY <1>3 DEF Begin, BeginTransition, BeginAnswer, BeginReading, AdminValidates, BeginPhoto,
     CreateCorrective, Progress, Crash, Lock, LockAsset, Refuse, RefuseReading,
     CommitTransition, CommitReading, Rollback, AdminInserts, PhotoPassesSeal,
     PhotoRefusedBySeal, PhotoInsert, CopyPassesSeal, CopyRefusedBySeal, data
<1>4. ASSUME NEW v \in Orders, Convert(v) PROVE answer' = answer
  BY <1>4 DEF Convert
<1>5. ASSUME NEW u \in Users, DeactivateUser(u) \/ DeleteUser(u) PROVE answer' = answer
  BY <1>5 DEF DeactivateUser, DeleteUser
<1>6. QED
  BY <1>1, <1>2, <1>3, <1>4, <1>5 DEF Next

(* A series grows by a reading that holds the machine's row, or by the admin's. *)
LEMMA MeterStep ==
  ASSUME TypeInv, Next, NEW a \in Assets
  PROVE  \/ meter'[a] = meter[a]
         \/ \E r \in Workers : /\ CommitTransition(r) \/ CommitReading(r)
                               /\ job[r].asset = a
                               /\ meter'[a] = Inserted(meter[a], job[r].hours)
         \/ \E r \in Workers : AdminInserts(r) /\ job[r].asset = a
<1>1. ASSUME NEW r \in Workers, CommitTransition(r) \/ CommitReading(r)
      PROVE  \/ meter'[a] = meter[a]
             \/ job[r].asset = a /\ meter'[a] = Inserted(meter[a], job[r].hours)
  BY <1>1 DEF CommitTransition, CommitReading, TypeInv, TypeOK
<1>2. ASSUME NEW r \in Workers, AdminInserts(r), job[r].asset # a
      PROVE  meter'[a] = meter[a]
  BY <1>2 DEF AdminInserts, TypeInv, TypeOK
<1>3. ASSUME NEW r \in Workers, Begin(r) \/ Progress(r) \/ Crash(r),
             ~CommitTransition(r), ~CommitReading(r), ~AdminInserts(r)
      PROVE  meter' = meter
  BY <1>3 DEF Begin, BeginTransition, BeginAnswer, BeginReading, AdminValidates, BeginPhoto,
     CreateCorrective, Progress, Crash, Lock, LockAsset, Refuse, RefuseReading,
     CommitAnswer, Rollback, PhotoPassesSeal, PhotoRefusedBySeal, PhotoInsert,
     CopyPassesSeal, CopyRefusedBySeal, CopyCommit, data
<1>4. ASSUME NEW v \in Orders, Schedule(v) \/ Convert(v) PROVE meter' = meter
  BY <1>4 DEF Schedule, Convert
<1>5. ASSUME NEW u \in Users, DeactivateUser(u) \/ DeleteUser(u) PROVE meter' = meter
  BY <1>5 DEF DeactivateUser, DeleteUser
<1>6. QED
  BY <1>1, <1>2, <1>3, <1>4, <1>5 DEF Next

(* A citation is for ever. *)
LEMMA CitedGrows ==
  ASSUME Next
  PROVE  cited \subseteq cited'
BY DEF Next, Begin, BeginTransition, BeginAnswer, BeginReading, AdminValidates, BeginPhoto,
   CreateCorrective, Progress, Crash, Lock, LockAsset, Refuse, RefuseReading,
   CommitTransition, CommitAnswer, CommitReading, Rollback, AdminInserts, PhotoPassesSeal,
   PhotoRefusedBySeal, PhotoInsert, CopyPassesSeal, CopyRefusedBySeal, CopyCommit, data,
   Schedule, Convert, DeactivateUser, DeleteUser, Cite


(***************************************************************************)
(* The inductive invariant.  The properties speak of committed rows; they  *)
(* hold because a request that is about to write still holds the locks     *)
(* under which it decided, because what it decided cannot change under     *)
(* them, and because whoever acted on an order is cited and so can not be  *)
(* deleted.                                                                *)
(***************************************************************************)

LockDiscipline ==
  \A r \in Workers :
    /\ pc[r] \in {"asset", "commit"} /\ job[r].order # None => woLock[job[r].order] = r
    /\ pc[r] = "commit" /\ job[r].asset # None => assetLock[job[r].asset] = r

ReadingsHold ==
  \A r \in Workers : pc[r] = "commit" /\ job[r].asset # None => Monotonic(job[r])

CitedLive == \A u \in cited : account[u] # "deleted"

RowFacts ==
  \A w \in Orders :
    /\ wo[w].status \in StartedStatuses => wo[w].assigned \in cited
    /\ wo[w].status \in DONE_STATUSES => wo[w].completedBy = wo[w].assigned
    /\ wo[w].status = "verificada" =>
         /\ wo[w].verifiedBy \in cited
         /\ is_manager(wo[w].verifiedBy)
         /\ wo[w].verifiedBy # wo[w].completedBy

(* w is, or was until it was cancelled, in the hands of u. *)
InHandsOf(w, u) ==
  /\ wo[w].status \in StartedStatuses \cup {"cancelada"}
  /\ wo[w].assigned = u
  /\ u \in cited

PhotoFacts ==
  /\ \A w \in Orders : \A p \in photos[w] : InHandsOf(w, p.by)
  /\ \A r \in Workers :
       pc[r] \in {"photo_seal", "photo_insert"} => InHandsOf(job[r].order, job[r].user)

LateCopies ==
  \A r \in Workers :
    pc[r] \in {"copy_seal", "copy_write"} =>
      wo[job[r].order].status # "absent" /\ wo[job[r].order].origin = "manual"

LockInv == TypeInv /\ LockDiscipline /\ DecisionsHold /\ ReadingsHold

IInv == LockInv /\ CitedLive /\ RowFacts /\ PhotoFacts /\ LateCopies /\ DoneMeansAnswered

(* The row of an order somebody holds, and its answers, are the holder's. *)
LEMMA HeldOrderStable ==
  ASSUME LockInv, Next, NEW q \in Workers, NEW w \in Orders,
         pc[q] \in {"asset", "commit"}, job[q].order = w, pc'[q] # "idle"
  PROVE  wo'[w] = wo[w] /\ answer'[w] = answer[w]
<1>1. woLock[w] = q /\ None # q /\ None # w
  BY OrdersAssumption DEF LockInv, LockDiscipline
<1>2. Decides(job[q])
  BY <1>1 DEF LockInv, DecisionsHold
<1>3. wo[w].status # "absent"
  <2>1. job[q].op \in Actions \cup {"item"}
    BY <1>1, JobAt DEF LockInv, WellFormed, OpsAt
  <2>2. QED
    BY <1>2, <2>1 DEF Decides, MayAnswer, MayTransition, Actions, TRANSITIONS
<1>4. ASSUME NEW r \in Workers, CommitTransition(r) \/ CommitAnswer(r)
      PROVE  job[r].order # w
  <2>1. SUFFICES ASSUME job[r].order = w PROVE FALSE
    OBVIOUS
  <2>2. woLock[w] = r
    BY <1>1, <1>4, <2>1 DEF CommitTransition, CommitAnswer, LockInv, LockDiscipline
  <2>3. r = q
    BY <1>1, <2>2
  <2>4. pc'[q] = "idle"
    BY <1>4, <2>3 DEF CommitTransition, CommitAnswer, End, LockInv, TypeInv, TypeOK
  <2>5. QED
    BY <2>4
<1>5. ASSUME NEW r \in Workers, CopyCommit(r) PROVE job[r].order # w
  BY <1>1, <1>5 DEF CopyCommit, RowFree
<1>6. ~Schedule(w)
  BY <1>3 DEF Schedule, Insertable, Exists
<1>7. ASSUME NEW u \in Users, DeleteUser(u) PROVE u \notin {wo[w].assigned, wo[w].verifiedBy}
  BY <1>1, <1>7 DEF DeleteUser, RowFree
<1>8. wo'[w] = wo[w]
  BY <1>3, <1>4, <1>5, <1>7, RowStep DEF LockInv
<1>9. answer'[w] = answer[w]
  BY <1>4, <1>5, <1>6, AnswerStep DEF LockInv
<1>10. QED
  BY <1>8, <1>9

(* The series of a machine somebody holds is the holder's. *)
LEMMA HeldMachineStable ==
  ASSUME LockInv, Next, NEW q \in Workers, NEW a \in Assets,
         pc[q] = "commit", job[q].asset = a, pc'[q] # "idle"
  PROVE  meter'[a] = meter[a]
<1>1. assetLock[a] = q /\ None # q /\ None # a
  BY OrdersAssumption DEF LockInv, LockDiscipline
<1>2. ASSUME NEW r \in Workers, AdminInserts(r) PROVE job[r].asset # a
  BY <1>1, <1>2 DEF AdminInserts, AssetFree
<1>3. ASSUME NEW r \in Workers, pc[r] = "commit", job[r].asset = a PROVE r = q
  BY <1>1, <1>3 DEF LockInv, LockDiscipline
<1>4. CASE CommitTransition(q) \/ CommitReading(q)
  BY <1>4 DEF CommitTransition, CommitReading, End, LockInv, TypeInv, TypeOK
<1>5. CASE ~CommitTransition(q) /\ ~CommitReading(q)
  <2>1. ASSUME NEW r \in Workers, CommitTransition(r) \/ CommitReading(r)
        PROVE  job[r].asset # a
    BY <1>3, <1>5, <2>1 DEF CommitTransition, CommitReading
  <2>2. ASSUME NEW r \in Workers, CommitTransition(r) \/ CommitReading(r)
        PROVE  meter'[a] = meter[a]
    BY <2>1, <2>2 DEF CommitTransition, CommitReading, LockInv, TypeInv, TypeOK
  <2>3. QED
    BY <1>2, <2>2, MeterStep DEF LockInv
<1>6. QED
  BY <1>4, <1>5


(* Of the requests a worker accepts, only the reading panel's begins at a lock
   on the machine, and it carries no order. *)
LEMMA BeginPoints ==
  ASSUME TypeInv, NEW q \in Workers, Begin(q)
  PROVE  /\ pc'[q] # "commit"
         /\ pc'[q] = "asset" => job'[q].order = None
         /\ pc'[q] \in {"photo_seal", "photo_insert"} => BeginPhoto(q)
         /\ pc'[q] \in {"copy_seal", "copy_write"} => CreateCorrective(q)
<1>1. pc[q] = "idle" /\ pc \in [Workers -> Points] /\ job \in [Workers -> Jobs]
  BY DEF Begin, BeginTransition, BeginAnswer, BeginReading, AdminValidates, BeginPhoto,
     CreateCorrective, Accept, TypeInv, TypeOK
<1>2. CASE BeginTransition(q) \/ BeginAnswer(q)
  BY <1>1, <1>2 DEF BeginTransition, BeginAnswer, Accept
<1>3. CASE BeginReading(q)
  BY <1>1, <1>3 DEF BeginReading, Accept, NoJob
<1>4. CASE AdminValidates(q)
  BY <1>1, <1>4 DEF AdminValidates, Accept
<1>5. CASE BeginPhoto(q)
  BY <1>1, <1>5 DEF BeginPhoto, Accept
<1>6. CASE CreateCorrective(q)
  BY <1>1, <1>6 DEF CreateCorrective, Accept
<1>7. QED
  BY <1>2, <1>3, <1>4, <1>5, <1>6 DEF Begin

LEMMA LockInvStep ==
  ASSUME LockInv, Next
  PROVE  LockInv'
<1>1. TypeInv'
  BY TypeStep DEF LockInv
<1> SUFFICES ASSUME NEW q \in Workers, pc'[q] \in {"asset", "commit"}
             PROVE  /\ job'[q].order # None => woLock'[job'[q].order] = q /\ Decides(job[q])'
                    /\ pc'[q] = "commit" /\ job'[q].asset # None =>
                         assetLock'[job'[q].asset] = q /\ Monotonic(job[q])'
  BY <1>1 DEF LockInv, LockDiscipline, DecisionsHold, ReadingsHold
<1>2. pc[q] \in Points /\ job[q] \in Jobs /\ q # None
  BY OrdersAssumption DEF LockInv, TypeInv, TypeOK
<1>3. CASE Undisturbed(q)
  <2>1. pc[q] \in {"asset", "commit"} /\ job'[q] = job[q] /\ pc'[q] = pc[q]
    BY <1>3 DEF Undisturbed
  <2>2. ASSUME job[q].order # None
        PROVE  woLock'[job'[q].order] = q /\ Decides(job[q])'
    <3>1. job[q].order \in Orders /\ woLock[job[q].order] = q /\ Decides(job[q])
      BY <1>2, <2>1, <2>2 DEF LockInv, LockDiscipline, DecisionsHold, Jobs
    <3>2. wo'[job[q].order] = wo[job[q].order] /\ answer'[job[q].order] = answer[job[q].order]
      BY <2>1, <3>1, HeldOrderStable
    <3>3. Decides(job[q])'
      BY <2>1, <3>1, <3>2 DEF Decides
    <3>4. QED
      BY <1>3, <2>1, <3>1, <3>3 DEF Undisturbed
  <2>3. ASSUME pc[q] = "commit", job[q].asset # None
        PROVE  assetLock'[job'[q].asset] = q /\ Monotonic(job[q])'
    <3>1. job[q].asset \in Assets /\ assetLock[job[q].asset] = q /\ Monotonic(job[q])
      BY <1>2, <2>3 DEF LockInv, LockDiscipline, ReadingsHold, Jobs
    <3>2. meter'[job[q].asset] = meter[job[q].asset]
      BY <2>1, <2>3, <3>1, HeldMachineStable
    <3>3. QED
      BY <1>3, <2>1, <3>1, <3>2 DEF Undisturbed, Monotonic
  <2>4. QED
    BY <2>1, <2>2, <2>3
<1>4. CASE Begin(q)
  BY <1>4, BeginPoints DEF LockInv
<1>5. CASE Lock(q)
  <2>1. job[q].order \in Orders
    BY <1>5, JobAt DEF Lock, LockInv, WellFormed, OpsAt, Jobs
  <2>2. woLock'[job[q].order] = q /\ job'[q] = job[q]
    BY <1>5, <2>1 DEF Lock, LockInv, TypeInv, TypeOK
  <2>3. Decides(job[q])'
    BY <1>5, <2>2 DEF Lock, Decides, data
  <2>4. pc'[q] = "commit" => job'[q].asset = None
    BY <1>5, <2>2 DEF Lock, LockInv, TypeInv, TypeOK
  <2>5. QED
    BY <2>2, <2>3, <2>4
<1>6. CASE LockAsset(q)
  <2>1. pc[q] = "asset" /\ job'[q] = job[q] /\ woLock' = woLock /\ UNCHANGED data
    BY <1>6 DEF LockAsset
  <2>2. job[q].order # None => woLock[job[q].order] = q /\ Decides(job[q])
    BY <2>1 DEF LockInv, LockDiscipline, DecisionsHold
  <2>3. job[q].order # None => Decides(job[q])'
    BY <2>1, <2>2 DEF Decides, data
  <2>4. job[q].asset # None => assetLock'[job[q].asset] = q /\ Monotonic(job[q])'
    BY <1>2, <1>6, <2>1 DEF LockAsset, Monotonic, data, Jobs, LockInv, TypeInv, TypeOK
  <2>5. QED
    BY <2>1, <2>2, <2>3, <2>4
<1>7. CASE PhotoPassesSeal(q) \/ CopyPassesSeal(q)
  BY <1>7 DEF PhotoPassesSeal, CopyPassesSeal, Proceed, LockInv, TypeInv, TypeOK
<1>8. QED
  BY <1>3, <1>4, <1>5, <1>6, <1>7, WorkerStep DEF LockInv


(* The other conjuncts of the invariant. *)

LEMMA IInvInit == Init => IInv
<1> SUFFICES ASSUME Init PROVE IInv
  OBVIOUS
<1>1. TypeInv
  BY TypeInit
<1>2. LockDiscipline /\ DecisionsHold /\ ReadingsHold /\ LateCopies /\ PhotoFacts
  BY DEF Init, LockDiscipline, DecisionsHold, ReadingsHold, LateCopies, PhotoFacts
<1>3. CitedLive /\ RowFacts /\ DoneMeansAnswered
  BY DEF Init, CitedLive, RowFacts, DoneMeansAnswered, AbsentRow, StartedStatuses, DONE_STATUSES
<1>4. QED
  BY <1>1, <1>2, <1>3 DEF IInv, LockInv

(* A transition that commits on w was decided on the row it rewrites. *)
LEMMA CommittedOn ==
  ASSUME LockInv, NEW r \in Workers, NEW w \in Orders,
         CommitTransition(r), job[r].order = w
  PROVE  /\ job[r].op \in Actions
         /\ job[r].user \in Users
         /\ MayTransition(job[r].op, wo[w], job[r].user)
         /\ job[r].op = "complete" => PendingRequired(answer[w]) = {}
         /\ wo'[w] = Applied(job[r].op, wo[w], job[r].user, job[r].assignee)
         /\ answer' = answer
         /\ job[r].user \in cited'
<1>1. job[r].op \in Actions /\ pc[r] = "commit" /\ w # None
  BY OrdersAssumption DEF CommitTransition
<1>2. job[r].user \in Users
  BY <1>1, JobAt DEF LockInv, WellFormed
<1>3. Decides(job[r])
  BY <1>1 DEF LockInv, DecisionsHold
<1>4. MayTransition(job[r].op, wo[w], job[r].user)
      /\ (job[r].op = "complete" => PendingRequired(answer[w]) = {})
  BY <1>1, <1>3 DEF Decides, Actions
<1>5. QED
  BY <1>1, <1>2, <1>4 DEF CommitTransition, Cite, LockInv, TypeInv, TypeOK

LEMMA CitedLiveStep ==
  ASSUME IInv, Next
  PROVE  CitedLive'
<1>1. TypeInv /\ CitedLive
  BY DEF IInv, LockInv
<1>2. ASSUME NEW r \in Workers, CommitTransition(r) \/ CommitReading(r) \/ PhotoInsert(r)
      PROVE  CitedLive'
  <2>1. job[r].user \in Users /\ job[r].op # "item"
    BY <1>1, <1>2, JobAt DEF CommitTransition, CommitReading, PhotoInsert, WellFormed, OpsAt, Actions
  <2>2. account[job[r].user] # "deleted"
    BY <1>2, <2>1 DEF CommitTransition, CommitReading, PhotoInsert, ReferencesExist
  <2>3. account' = account /\ cited' = cited \cup {job[r].user}
    BY <1>2 DEF CommitTransition, CommitReading, PhotoInsert, Cite
  <2>4. QED
    BY <1>1, <2>2, <2>3 DEF CitedLive
<1>3. ASSUME NEW r \in Workers, Begin(r) \/ Progress(r) \/ Crash(r),
             ~CommitTransition(r), ~CommitReading(r), ~PhotoInsert(r)
      PROVE  CitedLive'
  <2>1. account' = account /\ cited' = cited
    BY <1>3 DEF Begin, BeginTransition, BeginAnswer, BeginReading, AdminValidates, BeginPhoto,
       CreateCorrective, Progress, Crash, Lock, LockAsset, Refuse, RefuseReading,
       CommitAnswer, Rollback, AdminInserts, PhotoPassesSeal, PhotoRefusedBySeal,
       CopyPassesSeal, CopyRefusedBySeal, CopyCommit, data
  <2>2. QED
    BY <1>1, <2>1 DEF CitedLive
<1>4. ASSUME NEW v \in Orders, Schedule(v) PROVE CitedLive'
  BY <1>1, <1>4 DEF Schedule, CitedLive
<1>5. ASSUME NEW v \in Orders, Convert(v) PROVE CitedLive'
  BY <1>1, <1>5 DEF Convert, Cite, LoggedIn, CitedLive
<1>6. ASSUME NEW u \in Users, DeactivateUser(u) PROVE CitedLive'
  BY <1>1, <1>6 DEF DeactivateUser, Cite, LoggedIn, CitedLive, TypeInv, TypeOK
<1>7. ASSUME NEW u \in Users, DeleteUser(u) PROVE CitedLive'
  BY <1>1, <1>7 DEF DeleteUser, CitedLive, TypeInv, TypeOK
<1>8. QED
  BY <1>2, <1>3, <1>4, <1>5, <1>6, <1>7 DEF Next

LEMMA RowFactsStep ==
  ASSUME IInv, Next
  PROVE  RowFacts'
<1> SUFFICES ASSUME NEW w \in Orders
             PROVE  /\ wo'[w].status \in StartedStatuses => wo'[w].assigned \in cited'
                    /\ wo'[w].status \in DONE_STATUSES => wo'[w].completedBy = wo'[w].assigned
                    /\ wo'[w].status = "verificada" =>
                         /\ wo'[w].verifiedBy \in cited'
                         /\ is_manager(wo'[w].verifiedBy)
                         /\ wo'[w].verifiedBy # wo'[w].completedBy
  BY DEF RowFacts
<1>1. LockInv /\ TypeInv /\ RowFacts
  BY DEF IInv, LockInv
<1>2. wo[w] \in Rows /\ cited \subseteq cited'
  BY <1>1, CitedGrows DEF TypeInv, TypeOK
<1>3. CASE wo'[w] = wo[w]
  BY <1>1, <1>2, <1>3 DEF RowFacts
<1>4. CASE Born(wo'[w])
  BY <1>4 DEF Born, StartedStatuses, DONE_STATUSES
<1>5. ASSUME NEW r \in Workers, CommitTransition(r), job[r].order = w
      PROVE  /\ wo'[w].status \in StartedStatuses => wo'[w].assigned \in cited'
             /\ wo'[w].status \in DONE_STATUSES => wo'[w].completedBy = wo'[w].assigned
             /\ wo'[w].status = "verificada" =>
                  /\ wo'[w].verifiedBy \in cited'
                  /\ is_manager(wo'[w].verifiedBy)
                  /\ wo'[w].verifiedBy # wo'[w].completedBy
  <2> DEFINE op == job[r].op  u == job[r].user
  <2>1. /\ op \in Actions /\ u \in cited'
        /\ MayTransition(op, wo[w], u)
        /\ wo'[w] = Applied(op, wo[w], u, job[r].assignee)
    BY <1>1, <1>5, CommittedOn
  <2> HIDE DEF op, u
  <2>2. CASE op \in {"assign", "cancel"}
    BY <1>2, <2>1, <2>2
       DEF Applied, TRANSITIONS, Rows, StartedStatuses, DONE_STATUSES
  <2>3. CASE op = "start"
    BY <1>2, <2>1, <2>3
       DEF Applied, TRANSITIONS, MayTransition, Allowed, IsAssignee, Rows, DONE_STATUSES
  <2>4. CASE op = "complete"
    BY <1>2, <2>1, <2>4 DEF Applied, TRANSITIONS, MayTransition, Allowed, IsAssignee, Rows
  <2>5. CASE op = "verify"
    <3>1. wo[w].status = "terminada" /\ is_manager(u) /\ wo[w].completedBy # u
      BY <2>1, <2>5 DEF MayTransition, Allowed, MayVerify, TRANSITIONS
    <3>2. wo[w].assigned \in cited /\ wo[w].completedBy = wo[w].assigned
      BY <1>1, <3>1 DEF RowFacts, StartedStatuses, DONE_STATUSES
    <3>3. /\ wo'[w].assigned = wo[w].assigned
          /\ wo'[w].completedBy = wo[w].completedBy
          /\ wo'[w].verifiedBy = u
      BY <1>2, <2>1, <2>5 DEF Applied, Rows
    <3>4. QED
      BY <1>2, <2>1, <3>1, <3>2, <3>3
  <2>6. QED
    BY <2>1, <2>2, <2>3, <2>4, <2>5 DEF Actions
<1>6. ASSUME NEW u \in Users, DeleteUser(u)
      PROVE  /\ wo'[w].status \in StartedStatuses => wo'[w].assigned \in cited'
             /\ wo'[w].status \in DONE_STATUSES => wo'[w].completedBy = wo'[w].assigned
             /\ wo'[w].status = "verificada" =>
                  /\ wo'[w].verifiedBy \in cited'
                  /\ is_manager(wo'[w].verifiedBy)
                  /\ wo'[w].verifiedBy # wo'[w].completedBy
  <2>1. u \notin cited
    BY <1>6 DEF DeleteUser
  <2>2. /\ wo'[w].status = wo[w].status
        /\ wo'[w].completedBy = wo[w].completedBy
        /\ wo[w].assigned # u => wo'[w].assigned = wo[w].assigned
        /\ wo[w].verifiedBy # u => wo'[w].verifiedBy = wo[w].verifiedBy
    BY <1>2, <1>6 DEF DeleteUser, Rows
  <2>3. QED
    BY <1>1, <1>2, <2>1, <2>2 DEF RowFacts, StartedStatuses, DONE_STATUSES
<1>7. CASE wo'[w] = Noted(wo[w])
  BY <1>1, <1>2, <1>7, NotedRow DEF RowFacts
<1>8. QED
  BY <1>1, <1>3, <1>4, <1>5, <1>6, <1>7, RowStep

(* The executor of an order under way, or cancelled, stays its executor. *)
LEMMA InHandsStable ==
  ASSUME IInv, Next, NEW w \in Orders, NEW u \in Users, InHandsOf(w, u)
  PROVE  InHandsOf(w, u)'
<1>1. LockInv /\ TypeInv /\ wo[w] \in Rows /\ u \in cited'
  BY CitedGrows DEF IInv, LockInv, TypeInv, TypeOK, InHandsOf
<1>2. CASE wo'[w] = wo[w]
  BY <1>1, <1>2 DEF InHandsOf
<1>3. wo[w].status # "absent"
  BY DEF InHandsOf, StartedStatuses
<1>4. ASSUME NEW r \in Workers, CommitTransition(r), job[r].order = w
      PROVE  InHandsOf(w, u)'
  <2>1. job[r].op \in Actions /\ MayTransition(job[r].op, wo[w], job[r].user)
        /\ wo'[w] = Applied(job[r].op, wo[w], job[r].user, job[r].assignee)
    BY <1>1, <1>4, CommittedOn
  <2>2. job[r].op \in {"complete", "verify", "cancel"}
    BY <2>1 DEF InHandsOf, StartedStatuses, MayTransition, TRANSITIONS, Actions
  <2>3. wo'[w].status \in StartedStatuses \cup {"cancelada"} /\ wo'[w].assigned = wo[w].assigned
    BY <1>1, <2>1, <2>2 DEF Applied, TRANSITIONS, StartedStatuses, Rows
  <2>4. QED
    BY <1>1, <2>3 DEF InHandsOf
<1>5. ASSUME NEW v \in Users, DeleteUser(v) PROVE InHandsOf(w, u)'
  <2>1. v # u
    BY <1>5 DEF DeleteUser, InHandsOf
  <2>2. wo'[w].status = wo[w].status /\ wo'[w].assigned = wo[w].assigned
    BY <1>1, <1>5, <2>1 DEF DeleteUser, InHandsOf, Rows
  <2>3. QED
    BY <1>1, <2>2 DEF InHandsOf
<1>6. CASE wo'[w] = Noted(wo[w])
  BY <1>1, <1>6, NotedRow DEF InHandsOf
<1>7. QED
  BY <1>1, <1>2, <1>3, <1>4, <1>5, <1>6, RowStep

LEMMA PhotoFactsStep ==
  ASSUME IInv, Next
  PROVE  PhotoFacts'
<1>1. LockInv /\ TypeInv /\ PhotoFacts /\ RowFacts
  BY DEF IInv, LockInv
<1>2. ASSUME NEW w \in Orders, NEW p \in photos'[w] PROVE InHandsOf(w, p.by)'
  <2>1. ASSUME p \in photos[w] PROVE InHandsOf(w, p.by)'
    <3>1. InHandsOf(w, p.by) /\ p.by \in Users
      BY <1>1, <2>1 DEF PhotoFacts, TypeInv, TypeOK, PhotoRows
    <3>2. QED
      BY <3>1, InHandsStable
  <2>2. ASSUME NEW r \in Workers, PhotoInsert(r), p \notin photos[w]
        PROVE  InHandsOf(w, p.by)'
    <3>1. job[r].op = "photo" /\ pc[r] = "photo_insert"
      BY <1>1, <2>2, JobAt DEF PhotoInsert, OpsAt
    <3>2. job[r].user \in Users
      BY <1>1, <3>1, JobAt DEF WellFormed
    <3>3. job[r].order = w /\ p.by = job[r].user
      BY <1>1, <2>2 DEF PhotoInsert, TypeInv, TypeOK
    <3>4. InHandsOf(w, p.by) /\ p.by \in Users
      BY <1>1, <3>1, <3>2, <3>3 DEF PhotoFacts
    <3>5. QED
      BY <3>4, InHandsStable
  <2>3. ASSUME NEW r \in Workers, Begin(r) \/ Progress(r) \/ Crash(r), ~PhotoInsert(r)
        PROVE  photos' = photos
    BY <2>3 DEF Begin, BeginTransition, BeginAnswer, BeginReading, AdminValidates, BeginPhoto,
       CreateCorrective, Progress, Crash, Lock, LockAsset, Refuse, RefuseReading,
       CommitTransition, CommitAnswer, CommitReading, Rollback, AdminInserts,
       PhotoPassesSeal, PhotoRefusedBySeal, CopyPassesSeal, CopyRefusedBySeal, CopyCommit, data
  <2>4. (\E v \in Orders : Schedule(v) \/ Convert(v))
        \/ (\E u \in Users : DeactivateUser(u) \/ DeleteUser(u)) => photos' = photos
    BY DEF Schedule, Convert, DeactivateUser, DeleteUser
  <2>5. QED
    BY <2>1, <2>2, <2>3, <2>4 DEF Next
<1>3. ASSUME NEW q \in Workers, pc'[q] \in {"photo_seal", "photo_insert"}
      PROVE  InHandsOf(job[q].order, job[q].user)'
  <2>1. ASSUME job'[q] = job[q], pc[q] \in {"photo_seal", "photo_insert"}
        PROVE  InHandsOf(job[q].order, job[q].user)'
    <3>1. job[q].op = "photo"
      BY <1>1, <2>1, JobAt DEF OpsAt
    <3>2. PICK w \in Orders, u \in Users : job[q].order = w /\ job[q].user = u
      BY <1>1, <3>1, JobAt DEF WellFormed, Jobs
    <3>3. InHandsOf(w, u)
      BY <1>1, <2>1, <3>2 DEF PhotoFacts
    <3>4. InHandsOf(w, u)'
      BY <3>3, InHandsStable
    <3>5. QED
      BY <2>1, <3>2, <3>4 DEF InHandsOf
  <2>2. CASE Begin(q)
    <3>1. BeginPhoto(q)
      BY <1>1, <1>3, <2>2, BeginPoints
    <3>2. PICK u \in Users, w \in Orders :
            /\ MayPhotograph(wo[w], u)
            /\ job'[q].order = w
            /\ job'[q].user = u
      BY <1>1, <3>1 DEF BeginPhoto, Accept, NoJob, TypeInv, TypeOK
    <3>3. InHandsOf(w, u)
      BY <1>1, <3>2 DEF MayPhotograph, InHandsOf, RowFacts, StartedStatuses
    <3>4. InHandsOf(w, u)'
      BY <3>3, InHandsStable
    <3>5. QED
      BY <3>2, <3>4 DEF InHandsOf
  <2>3. CASE Lock(q) \/ LockAsset(q)
    BY <1>1, <1>3, <2>3 DEF Lock, LockAsset, TypeInv, TypeOK
  <2>4. CASE PhotoPassesSeal(q)
    BY <2>1, <2>4 DEF PhotoPassesSeal, Proceed
  <2>5. CASE CopyPassesSeal(q)
    BY <1>1, <1>3, <2>5 DEF CopyPassesSeal, Proceed, TypeInv, TypeOK
  <2>6. QED
    BY <1>1, <1>3, <2>1, <2>2, <2>3, <2>4, <2>5, WorkerStep DEF Undisturbed
<1>4. QED
  BY <1>2, <1>3 DEF PhotoFacts, InHandsOf

LEMMA LateCopiesStep ==
  ASSUME IInv, Next
  PROVE  LateCopies'
<1>1. LockInv /\ TypeInv /\ LateCopies
  BY DEF IInv, LockInv
<1>2. ASSUME NEW w \in Orders, wo[w].status # "absent", wo[w].origin = "manual"
      PROVE  wo'[w].status # "absent" /\ wo'[w].origin = "manual"
  <2>1. wo[w] \in Rows
    BY <1>1 DEF TypeInv, TypeOK
  <2>2. ASSUME NEW r \in Workers, CommitTransition(r), job[r].order = w
        PROVE  wo'[w].status # "absent" /\ wo'[w].origin = "manual"
    <3>1. job[r].op \in Actions
          /\ wo'[w] = Applied(job[r].op, wo[w], job[r].user, job[r].assignee)
      BY <1>1, <2>2, CommittedOn
    <3>2. QED
      BY <1>2, <2>1, <3>1 DEF Applied, TRANSITIONS, Actions, Rows
  <2>3. ASSUME NEW u \in Users, DeleteUser(u)
        PROVE  wo'[w].status # "absent" /\ wo'[w].origin = "manual"
    BY <1>2, <2>1, <2>3 DEF DeleteUser, Rows
  <2>4. QED
    BY <1>1, <1>2, <2>1, <2>2, <2>3, NotedRow, RowStep
<1>3. ASSUME NEW q \in Workers, pc'[q] \in {"copy_seal", "copy_write"}
      PROVE  wo'[job'[q].order].status # "absent" /\ wo'[job'[q].order].origin = "manual"
  <2>1. ASSUME job'[q] = job[q], pc[q] \in {"copy_seal", "copy_write"}
        PROVE  wo'[job'[q].order].status # "absent" /\ wo'[job'[q].order].origin = "manual"
    <3>1. job[q].op = "corrective"
      BY <1>1, <2>1, JobAt DEF OpsAt
    <3>2. job[q].order \in Orders
      BY <1>1, <3>1, JobAt DEF WellFormed, Jobs
    <3>3. QED
      BY <1>1, <1>2, <2>1, <3>2 DEF LateCopies
  <2>2. CASE Begin(q)
    <3>1. CreateCorrective(q)
      BY <1>1, <1>3, <2>2, BeginPoints
    <3>2. pc[q] = "idle"
      BY <3>1 DEF CreateCorrective
    <3>3. PICK u \in Users, w \in Orders, copies \in BOOLEAN, a \in Users \cup {None} :
            /\ wo' = [wo EXCEPT ![w] =
                        NewRow(IF a = None THEN "abierta" ELSE "asignada", "manual", a)]
            /\ IF copies
               THEN Accept(q, [NoJob EXCEPT !.op = "corrective", !.user = u, !.order = w],
                           "copy_seal")
               ELSE UNCHANGED <<pc, job, locks>>
      BY <3>1 DEF CreateCorrective, AssigneeChoices
    <3>4. copies /\ job'[q].order = w
      BY <1>1, <1>3, <3>2, <3>3 DEF Accept, NoJob, TypeInv, TypeOK
    <3>5. QED
      BY <1>1, <3>3, <3>4 DEF NewRow, AbsentRow, TypeInv, TypeOK
  <2>3. CASE Lock(q) \/ LockAsset(q)
    BY <1>1, <1>3, <2>3 DEF Lock, LockAsset, TypeInv, TypeOK
  <2>4. CASE CopyPassesSeal(q)
    BY <2>1, <2>4 DEF CopyPassesSeal, Proceed
  <2>5. CASE PhotoPassesSeal(q)
    BY <1>1, <1>3, <2>5 DEF PhotoPassesSeal, Proceed, TypeInv, TypeOK
  <2>6. QED
    BY <1>1, <1>3, <2>1, <2>2, <2>3, <2>4, <2>5, WorkerStep DEF Undisturbed
<1>4. QED
  BY <1>3 DEF LateCopies

(* A finished order keeps its answers, but for the late copy of one made by hand. *)
LEMMA DoneAnswersStable ==
  ASSUME IInv, Next, NEW w \in Orders, wo[w].status \in DONE_STATUSES
  PROVE  \/ answer'[w] = answer[w]
         \/ /\ wo[w].origin = "manual"
            /\ \E r \in Workers : CopyCommit(r) /\ job[r].order = w
<1>1. LockInv /\ TypeInv /\ LateCopies
  BY DEF IInv, LockInv
<1>2. ASSUME NEW r \in Workers, CommitAnswer(r) PROVE job[r].order # w
  <2>1. SUFFICES ASSUME job[r].order = w PROVE FALSE
    OBVIOUS
  <2>2. w # None /\ pc[r] = "commit" /\ job[r].op = "item"
    BY <1>2, OrdersAssumption DEF CommitAnswer
  <2>3. Decides(job[r])
    BY <1>1, <2>1, <2>2 DEF LockInv, DecisionsHold
  <2>4. wo[w].status = "en_progreso"
    BY <2>1, <2>2, <2>3 DEF Decides, MayAnswer
  <2>5. QED
    BY <2>4 DEF DONE_STATUSES
<1>3. ASSUME NEW r \in Workers, CopyCommit(r), job[r].order = w PROVE wo[w].origin = "manual"
  BY <1>1, <1>3 DEF CopyCommit, LateCopies
<1>4. ~Schedule(w)
  BY DEF Schedule, Insertable, Exists, DONE_STATUSES
<1>5. QED
  BY <1>1, <1>2, <1>3, <1>4, AnswerStep

LEMMA DoneMeansAnsweredStep ==
  ASSUME IInv, Next
  PROVE  DoneMeansAnswered'
<1> SUFFICES ASSUME NEW w \in Orders, wo'[w].status \in DONE_STATUSES, wo'[w].origin # "manual"
             PROVE  PendingRequired(answer'[w]) = {}
  BY DEF DoneMeansAnswered, PendingRequired
<1>1. LockInv /\ TypeInv /\ DoneMeansAnswered /\ wo[w] \in Rows
  BY DEF IInv, LockInv, TypeInv, TypeOK
<1>2. CASE wo[w].status \in DONE_STATUSES /\ wo[w].origin # "manual"
  BY <1>1, <1>2, DoneAnswersStable DEF DoneMeansAnswered
<1>3. ASSUME NEW r \in Workers, CommitTransition(r), job[r].order = w
      PROVE  PendingRequired(answer'[w]) = {}
  <2>1. /\ job[r].op \in Actions
        /\ MayTransition(job[r].op, wo[w], job[r].user)
        /\ job[r].op = "complete" => PendingRequired(answer[w]) = {}
        /\ wo'[w] = Applied(job[r].op, wo[w], job[r].user, job[r].assignee)
        /\ answer' = answer
    BY <1>1, <1>3, CommittedOn
  <2>2. wo'[w].origin = wo[w].origin /\ wo'[w].status = TRANSITIONS[job[r].op].to
    BY <1>1, <2>1 DEF Applied, Rows
  <2>3. CASE job[r].op = "complete"
    BY <2>1, <2>3
  <2>4. CASE job[r].op = "verify"
    BY <1>2, <2>1, <2>2, <2>4 DEF MayTransition, TRANSITIONS, DONE_STATUSES
  <2>5. QED
    BY <2>1, <2>2, <2>3, <2>4 DEF TRANSITIONS, Actions, DONE_STATUSES
<1>4. CASE Born(wo'[w])
  BY <1>4 DEF Born, DONE_STATUSES
<1>5. ASSUME NEW u \in Users, DeleteUser(u)
      PROVE  PendingRequired(answer'[w]) = {}
  <2>1. wo'[w].status = wo[w].status /\ wo'[w].origin = wo[w].origin
    BY <1>1, <1>5 DEF DeleteUser, Rows
  <2>2. QED
    BY <1>2, <2>1
<1>6. CASE wo'[w] = Noted(wo[w])
  BY <1>1, <1>2, <1>6, NotedRow
<1>7. QED
  BY <1>1, <1>2, <1>3, <1>4, <1>5, <1>6, RowStep

LEMMA IInvStep == IInv /\ [Next]_vars => IInv'
<1>1. ASSUME IInv, Next PROVE IInv'
  BY <1>1, LockInvStep, CitedLiveStep, RowFactsStep, PhotoFactsStep, LateCopiesStep,
     DoneMeansAnsweredStep DEF IInv
<1>2. ASSUME IInv, UNCHANGED vars PROVE IInv'
  <2>1. UNCHANGED <<wo, answer, photos, meter, account, cited, woLock, assetLock, pc, job>>
    BY <1>2 DEF vars
  <2>2. TypeInv'
    BY <1>2, TypeStep DEF IInv, LockInv
  <2>3. LockDiscipline' /\ DecisionsHold' /\ ReadingsHold'
    BY <1>2, <2>1 DEF IInv, LockInv, LockDiscipline, DecisionsHold, ReadingsHold,
       Decides, Monotonic
  <2>4. CitedLive' /\ RowFacts' /\ PhotoFacts' /\ LateCopies' /\ DoneMeansAnswered'
    BY <1>2, <2>1 DEF IInv, CitedLive, RowFacts, PhotoFacts, InHandsOf, LateCopies,
       DoneMeansAnswered
  <2>5. QED
    BY <2>2, <2>3, <2>4 DEF IInv, LockInv
<1>3. QED
  BY <1>1, <1>2


(***************************************************************************)
(* The theorems.                                                           *)
(***************************************************************************)

(* The inductive invariant holds in every state the requests can reach. *)
THEOREM Safety == Spec => []IInv
BY IInvInit, IInvStep, PTL DEF Spec

(* Rule 3: whoever verified an order is a manager and did not execute it. *)
THEOREM SeparationHolds == Spec => []SeparationOfDuties
<1>1. IInv => SeparationOfDuties
  <2>1. SUFFICES ASSUME IInv, NEW w \in Orders, wo[w].status = "verificada"
                 PROVE  /\ wo[w].verifiedBy \in Users
                        /\ is_manager(wo[w].verifiedBy)
                        /\ wo[w].completedBy \in Users
                        /\ wo[w].verifiedBy # wo[w].completedBy
    BY DEF SeparationOfDuties
  <2>2. cited \subseteq Users /\ RowFacts
    BY <2>1 DEF IInv, LockInv, TypeInv, TypeOK
  <2>3. QED
    BY <2>1, <2>2 DEF RowFacts, StartedStatuses, DONE_STATUSES
<1>2. QED
  BY <1>1, Safety, PTL

(* From «iniciar» on, the executor on record exists and is who completed. *)
THEOREM ExecutionRecordHolds == Spec => []ExecutionRecord
<1>1. IInv => ExecutionRecord
  <2>1. SUFFICES ASSUME IInv PROVE ExecutionRecord
    OBVIOUS
  <2>2. cited \subseteq Users /\ CitedLive /\ RowFacts
    BY <2>1 DEF IInv, LockInv, TypeInv, TypeOK
  <2>3. QED
    BY <2>2 DEF ExecutionRecord, RowFacts, CitedLive
<1>2. QED
  BY <1>1, Safety, PTL

(* No finished order, unless made by hand, has a required question open. *)
THEOREM DoneMeansAnsweredHolds == Spec => []DoneMeansAnswered
<1>1. IInv => DoneMeansAnswered
  BY DEF IInv
<1>2. QED
  BY <1>1, Safety, PTL

(* What was decided under the lock is still so at the commit. *)
THEOREM DecisionsKept == Spec => []DecisionsHold
<1>1. IInv => DecisionsHold
  BY DEF IInv, LockInv
<1>2. QED
  BY <1>1, Safety, PTL

(* Every photo was taken by the executor, though its check is not locked. *)
THEOREM PhotosHold == Spec => []PhotosByExecutor
<1>1. IInv => PhotosByExecutor
  BY DEF IInv, PhotoFacts, InHandsOf, PhotosByExecutor
<1>2. QED
  BY <1>1, Safety, PTL

(* No step takes an order under way from the user who carries it out. *)
THEOREM AssigneeIsFrozen == Spec => AssigneeFrozen
<1> DEFINE Kept == \A w \in Orders :
                     wo[w].status \in StartedStatuses => wo'[w].assigned = wo[w].assigned
<1>1. ASSUME IInv, Next PROVE Kept
  <2>1. SUFFICES ASSUME NEW w \in Orders, wo[w].status \in StartedStatuses
                 PROVE  wo'[w].assigned = wo[w].assigned
    OBVIOUS
  <2>2. wo[w].assigned \in Users /\ InHandsOf(w, wo[w].assigned)
    BY <1>1, <2>1 DEF IInv, LockInv, TypeInv, TypeOK, RowFacts, InHandsOf
  <2>3. PICK u \in Users : u = wo[w].assigned /\ InHandsOf(w, u)
    BY <2>2
  <2>4. InHandsOf(w, u)'
    BY <1>1, <2>3, InHandsStable
  <2>5. QED
    BY <2>3, <2>4 DEF InHandsOf
<1>2. UNCHANGED vars => Kept
  BY DEF vars
<1>3. IInv /\ [Next]_vars => [Kept]_vars
  BY <1>1, <1>2
<1>4. QED
  BY <1>3, Safety, PTL DEF Spec, AssigneeFrozen

(* Only an INSERT of the Django admin can enter a reading below the highest. *)
THEOREM MeterHolds == Spec => MeterNeverBackwards
<1> DEFINE Forward == \A a \in Assets :
                        meter'[a] # meter[a] /\ meter'[a].last < meter[a].top =>
                          \E r \in Workers : pc[r] = "admin_insert" /\ pc'[r] = "idle"
<1>1. ASSUME IInv, Next PROVE Forward
  <2>1. SUFFICES ASSUME NEW a \in Assets, meter'[a] # meter[a], meter'[a].last < meter[a].top
                 PROVE  \E r \in Workers : pc[r] = "admin_insert" /\ pc'[r] = "idle"
    OBVIOUS
  <2>2. LockInv /\ TypeInv
    BY <1>1 DEF IInv, LockInv
  <2>3. ASSUME NEW r \in Workers, CommitTransition(r) \/ CommitReading(r), job[r].asset = a,
               meter'[a] = Inserted(meter[a], job[r].hours)
        PROVE  FALSE
    <3>1. pc[r] = "commit" /\ a # None
      BY <2>3, OrdersAssumption DEF CommitTransition, CommitReading
    <3>2. job[r].hours >= meter[a].top
      BY <2>2, <2>3, <3>1 DEF LockInv, ReadingsHold, Monotonic
    <3>3. job[r].hours \in Nat /\ meter[a].top \in Nat
      BY <2>2, <2>3, <3>1, JobAt, OrdersAssumption
         DEF WellFormed, Jobs, Hours, TypeInv, TypeOK, MeterRows
    <3>4. QED
      BY <2>1, <2>3, <3>2, <3>3 DEF Inserted
  <2>4. ASSUME NEW r \in Workers, AdminInserts(r)
        PROVE  pc[r] = "admin_insert" /\ pc'[r] = "idle"
    BY <2>2, <2>4 DEF AdminInserts, End, TypeInv, TypeOK
  <2>5. QED
    BY <1>1, <2>1, <2>2, <2>3, <2>4, MeterStep
<1>2. UNCHANGED vars => Forward
  BY DEF vars
<1>3. IInv /\ [Next]_vars => [Forward]_vars
  BY <1>1, <1>2
<1>4. QED
  BY <1>3, Safety, PTL DEF Spec, MeterNeverBackwards

(***************************************************************************)
(* Waiting.  A request takes the order's row before the machine's, and      *)
(* commits when it has what it needs; the others hold nothing while they   *)
(* wait.                                                                    *)
(***************************************************************************)

(* The next statement of request r needs a row that a transaction holds. *)
RequestWaits(r) ==
  \/ pc[r] \in {"lock", "photo_insert", "copy_write"} /\ ~RowFree(job[r].order)
  \/ pc[r] \in {"asset", "admin_insert"} /\ ~AssetFree(job[r].asset)

\* Requests never wait for each other in a circle, whichever rows they meet at
\* (transition, record_item_result, record_reading, snapshot_checklist).
SomeRequestProceeds ==
  (\E r \in Workers : pc[r] # "idle") => \E r \in Workers : pc[r] # "idle" /\ ~RequestWaits(r)

(* A row is held by a request at work on it, and a machine's row by one about to commit. *)
HoldersAtWork ==
  /\ \A w \in Orders : woLock[w] # None =>
       pc[woLock[w]] \in {"asset", "commit"} /\ job[woLock[w]].order = w
  /\ \A a \in Assets : assetLock[a] # None =>
       pc[assetLock[a]] = "commit" /\ job[assetLock[a]].asset = a
  /\ \A r \in Workers : pc[r] = "asset" => job[r].asset # None

WaitInv == TypeInv /\ HoldersAtWork

LEMMA EndHolders ==
  ASSUME WaitInv, NEW r \in Workers, End(r)
  PROVE  HoldersAtWork'
<1>1. \A w \in Orders : woLock'[w] # None => woLock'[w] = woLock[w] /\ woLock[w] \in Workers \ {r}
  BY DEF End, WaitInv, TypeInv, TypeOK
<1>2. \A a \in Assets : assetLock'[a] # None => assetLock'[a] = assetLock[a] /\ assetLock[a] \in Workers \ {r}
  BY DEF End, WaitInv, TypeInv, TypeOK
<1>3. \A q \in Workers \ {r} : pc'[q] = pc[q] /\ job'[q] = job[q]
  BY DEF End, WaitInv, TypeInv, TypeOK
<1>4. pc'[r] = "idle"
  BY DEF End, WaitInv, TypeInv, TypeOK
<1>5. QED
  BY <1>1, <1>2, <1>3, <1>4 DEF WaitInv, HoldersAtWork

(* A worker that holds no row may take up a request, or go on with one. *)
LEMMA FreeHolders ==
  ASSUME WaitInv, NEW r \in Workers, UNCHANGED locks, pc[r] \notin {"asset", "commit"},
         pc'[r] = "asset" => job'[r].asset # None,
         \A q \in Workers \ {r} : pc'[q] = pc[q] /\ job'[q] = job[q]
  PROVE  HoldersAtWork'
<1>1. woLock' = woLock /\ assetLock' = assetLock
  BY DEF locks
<1>2. \A w \in Orders : woLock[w] # None => woLock[w] \in Workers \ {r}
  BY DEF WaitInv, HoldersAtWork, TypeInv, TypeOK
<1>3. \A a \in Assets : assetLock[a] # None => assetLock[a] \in Workers \ {r}
  BY DEF WaitInv, HoldersAtWork, TypeInv, TypeOK
<1>4. QED
  BY <1>1, <1>2, <1>3 DEF WaitInv, HoldersAtWork

LEMMA LockHolders ==
  ASSUME WaitInv, NEW r \in Workers, Lock(r)
  PROVE  HoldersAtWork'
<1>1. /\ pc[r] = "lock" /\ job' = job /\ assetLock' = assetLock
      /\ pc'[r] \in {"asset", "commit"} /\ (pc'[r] = "asset" => job[r].asset # None)
      /\ \A q \in Workers \ {r} : pc'[q] = pc[q]
      /\ woLock' = [woLock EXCEPT ![job[r].order] = r]
  BY DEF Lock, WaitInv, TypeInv, TypeOK
<1>2. \A w \in Orders : woLock'[w] = IF w = job[r].order THEN r ELSE woLock[w]
  BY <1>1 DEF WaitInv, TypeInv, TypeOK
<1>3. \A w \in Orders : woLock[w] # None => woLock[w] \in Workers \ {r}
  BY <1>1 DEF WaitInv, HoldersAtWork, TypeInv, TypeOK
<1>4. \A a \in Assets : assetLock[a] # None => assetLock[a] \in Workers \ {r}
  BY <1>1 DEF WaitInv, HoldersAtWork, TypeInv, TypeOK
<1>5. QED
  BY <1>1, <1>2, <1>3, <1>4 DEF WaitInv, HoldersAtWork

LEMMA LockAssetHolders ==
  ASSUME WaitInv, NEW r \in Workers, LockAsset(r)
  PROVE  HoldersAtWork'
<1>1. /\ pc[r] = "asset" /\ job' = job /\ woLock' = woLock
      /\ pc'[r] = "commit" /\ \A q \in Workers \ {r} : pc'[q] = pc[q]
      /\ assetLock' = [assetLock EXCEPT ![job[r].asset] = r]
  BY DEF LockAsset, WaitInv, TypeInv, TypeOK
<1>2. \A a \in Assets : assetLock'[a] = IF a = job[r].asset THEN r ELSE assetLock[a]
  BY <1>1 DEF WaitInv, TypeInv, TypeOK
<1>3. \A a \in Assets : assetLock[a] # None => assetLock[a] \in Workers \ {r}
  BY <1>1 DEF WaitInv, HoldersAtWork, TypeInv, TypeOK
<1>4. \A w \in Orders : woLock[w] # None => woLock[w] \in Workers
  BY DEF WaitInv, TypeInv, TypeOK
<1>5. \A w \in Orders : woLock[w] # None =>
        pc'[woLock[w]] \in {"asset", "commit"} /\ job'[woLock[w]].order = w
  BY <1>1, <1>4 DEF WaitInv, HoldersAtWork
<1>6. \A a \in Assets : assetLock'[a] # None =>
        pc'[assetLock'[a]] = "commit" /\ job'[assetLock'[a]].asset = a
  BY <1>1, <1>2, <1>3 DEF WaitInv, HoldersAtWork
<1>7. \A q \in Workers : pc'[q] = "asset" => job'[q].asset # None
  BY <1>1 DEF WaitInv, HoldersAtWork
<1>8. QED
  BY <1>1, <1>5, <1>6, <1>7 DEF HoldersAtWork

LEMMA WaitStep == WaitInv /\ [Next]_vars => WaitInv'
<1> SUFFICES ASSUME WaitInv, [Next]_vars PROVE HoldersAtWork'
  BY TypeStep DEF WaitInv
<1>1. ASSUME NEW r \in Workers, Begin(r) PROVE HoldersAtWork'
  <2>1. UNCHANGED <<pc, job, locks>> \/ \E j, p : Accept(r, j, p) /\ (p = "asset" => j.asset # None)
    <3>1. CASE BeginReading(r)
      <4>1. PICK u \in Users, a \in Assets, h \in Hours :
              Accept(r, [NoJob EXCEPT !.op = "reading", !.user = u, !.asset = a, !.hours = h], "asset")
        BY <3>1 DEF BeginReading
      <4>2. PICK j : j = [NoJob EXCEPT !.op = "reading", !.user = u, !.asset = a, !.hours = h]
        OBVIOUS
      <4>3. j.asset = a /\ a # None
        BY <4>2, OrdersAssumption DEF NoJob
      <4>4. QED
        BY <4>1, <4>2, <4>3
    <3>2. CASE BeginTransition(r)
      <4>1. \E j : Accept(r, j, "lock")
        BY <3>2 DEF BeginTransition
      <4>2. QED
        BY <4>1
    <3>3. CASE BeginAnswer(r)
      <4>1. \E j : Accept(r, j, "lock")
        BY <3>3 DEF BeginAnswer
      <4>2. QED
        BY <4>1
    <3>4. CASE AdminValidates(r)
      <4>1. \E j : Accept(r, j, "admin_insert")
        BY <3>4 DEF AdminValidates
      <4>2. QED
        BY <4>1
    <3>5. CASE BeginPhoto(r)
      <4>1. \E j : Accept(r, j, "photo_seal")
        BY <3>5 DEF BeginPhoto
      <4>2. QED
        BY <4>1
    <3>6. CASE CreateCorrective(r)
      <4>1. UNCHANGED <<pc, job, locks>> \/ \E j : Accept(r, j, "copy_seal")
        BY <3>6 DEF CreateCorrective
      <4>2. QED
        BY <4>1
    <3>7. QED
      BY <1>1, <3>1, <3>2, <3>3, <3>4, <3>5, <3>6 DEF Begin
  <2>2. CASE UNCHANGED <<pc, job, locks>>
    BY <2>2 DEF locks, WaitInv, HoldersAtWork
  <2>3. CASE \E j, p : Accept(r, j, p) /\ (p = "asset" => j.asset # None)
    BY <2>3, FreeHolders DEF Accept, WaitInv, TypeInv, TypeOK
  <2>4. QED
    BY <2>1, <2>2, <2>3
<1>2. ASSUME NEW r \in Workers, Progress(r) \/ Crash(r) PROVE HoldersAtWork'
  <2>1. CASE Lock(r)
    BY <2>1, LockHolders
  <2>2. CASE LockAsset(r)
    BY <2>2, LockAssetHolders
  <2>3. CASE PhotoPassesSeal(r) \/ CopyPassesSeal(r)
    BY <2>3, FreeHolders DEF PhotoPassesSeal, CopyPassesSeal, Proceed, WaitInv, TypeInv, TypeOK
  <2>4. CASE End(r)
    BY <2>4, EndHolders
  <2>5. QED
    BY <1>2, <2>1, <2>2, <2>3, <2>4
       DEF Progress, Crash, Refuse, RefuseReading, CommitTransition, CommitAnswer, CommitReading,
           Rollback, AdminInserts, PhotoRefusedBySeal, PhotoInsert, CopyRefusedBySeal, CopyCommit
<1>3. ASSUME UNCHANGED <<pc, job, locks>> PROVE HoldersAtWork'
  BY <1>3 DEF locks, WaitInv, HoldersAtWork
<1>4. CASE \E r \in Workers : Begin(r) \/ Progress(r) \/ Crash(r)
  BY <1>1, <1>2, <1>4
<1>5. CASE \E w \in Orders : Schedule(w) \/ Convert(w)
  BY <1>3, <1>5 DEF Schedule, Convert
<1>6. CASE \E u \in Users : DeactivateUser(u) \/ DeleteUser(u)
  BY <1>3, <1>6 DEF DeactivateUser, DeleteUser
<1>7. CASE UNCHANGED vars
  BY <1>3, <1>7 DEF vars, locks
<1>8. QED
  BY <1>4, <1>5, <1>6, <1>7 DEF Next

LEMMA WaitInit == Init => WaitInv
BY TypeInit DEF Init, WaitInv, HoldersAtWork

(* Who waits, waits for a request that commits next, or for one that waits for such a request. *)
LEMMA WaitProceeds == WaitInv => SomeRequestProceeds
<1> SUFFICES ASSUME WaitInv, NEW r0 \in Workers, pc[r0] # "idle",
                    \A r \in Workers : pc[r] # "idle" => RequestWaits(r)
             PROVE  FALSE
  BY DEF SomeRequestProceeds
<1>1. \A r \in Workers : pc[r] # "commit"
  BY DEF RequestWaits
<1>2. \A r \in Workers : job[r].asset \in Assets \cup {None} /\ job[r].order \in Orders \cup {None}
  BY DEF WaitInv, TypeInv, TypeOK, Jobs
<1>3. \A a \in Assets : assetLock[a] = None
  BY <1>1 DEF WaitInv, HoldersAtWork, TypeInv, TypeOK
<1>4. \A r \in Workers : pc[r] \notin {"asset", "admin_insert"}
  <2>1. ASSUME NEW r \in Workers, pc[r] \in {"asset", "admin_insert"} PROVE FALSE
    <3>1. pc[r] = "admin_insert" => job[r].op = "admin_reading"
      BY JobAt DEF WaitInv, OpsAt
    <3>2. job[r].asset \in Assets
      BY <1>2, <2>1, <3>1, JobAt DEF WaitInv, HoldersAtWork, WellFormed
    <3>3. ~AssetFree(job[r].asset)
      BY <2>1 DEF RequestWaits
    <3>4. QED
      BY <1>3, <3>2, <3>3 DEF AssetFree
  <2>2. QED
    BY <2>1
<1>5. \A w \in Orders : woLock[w] = None
  BY <1>1, <1>4 DEF WaitInv, HoldersAtWork, TypeInv, TypeOK
<1>6. pc[r0] \in {"lock", "photo_insert", "copy_write"} /\ ~RowFree(job[r0].order)
  BY <1>4 DEF RequestWaits
<1>7. job[r0].op \in Actions \cup {"item", "photo", "corrective"}
  BY <1>6, JobAt DEF WaitInv, OpsAt
<1>8. job[r0].order \in Orders
  BY <1>2, <1>7, JobAt DEF WaitInv, WellFormed
<1>9. QED
  BY <1>5, <1>6, <1>8 DEF RowFree

\* Whenever requests are in progress one of them waits for no row, for any number of
\* workers: the order's row is taken before the machine's, and nothing after the
\* machine's (transition, record_reading).
THEOREM RequestsProceed == Spec => []SomeRequestProceeds
BY WaitInit, WaitStep, WaitProceeds, PTL DEF Spec

(***************************************************************************)
(* WorkOrders implements WorkOrderLedger: whatever requests overlap, wait, *)
(* fail or die, the committed orders and answers change only by whole      *)
(* legal operations, each decided on the order as it stands.               *)
(***************************************************************************)

CopyPoints == {"copy_seal", "copy_write"}

(* An answer on its way is for an item that exists. *)
AnswersHaveItems ==
  \A r \in Workers :
    job[r].op = "item" => answer[job[r].order][job[r].slot] # "absent"

(* The order has no items and names no version. *)
WithoutChecklist(w) == answer[w] = NoItems /\ wo[w].checklistTemplate = None

(* A checklist on its way is for an order without one, and nobody else's. *)
CopiesAreFirst ==
  /\ \A w \in Orders : wo[w].status = "absent" => answer[w] = NoItems
  /\ \A r \in Workers : pc[r] \in CopyPoints => WithoutChecklist(job[r].order)
  /\ \A r, q \in Workers :
       pc[r] \in CopyPoints /\ pc[q] \in CopyPoints /\ job[r].order = job[q].order => r = q

(* A user an order names as its verifier is cited. *)
VerifiersCited == \A w \in Orders : wo[w].verifiedBy \in cited \cup {None}

RInv == IInv /\ AnswersHaveItems /\ CopiesAreFirst /\ VerifiersCited

LEMMA RInvInit == Init => RInv
<1> SUFFICES ASSUME Init PROVE RInv
  OBVIOUS
<1>1. IInv
  BY IInvInit
<1>2. AnswersHaveItems
  BY OrdersAssumption DEF Init, AnswersHaveItems, NoJob, AllOperations
<1>3. CopiesAreFirst
  BY DEF Init, CopiesAreFirst, CopyPoints
<1>4. VerifiersCited
  BY DEF Init, VerifiersCited, AbsentRow
<1>5. QED
  BY <1>1, <1>2, <1>3, <1>4 DEF RInv

LEMMA VerifiersCitedStep ==
  ASSUME RInv, Next
  PROVE  VerifiersCited'
<1> SUFFICES ASSUME NEW w \in Orders PROVE wo'[w].verifiedBy \in cited' \cup {None}
  BY DEF VerifiersCited
<1>1. LockInv /\ TypeInv /\ wo[w] \in Rows /\ cited \subseteq cited'
  BY CitedGrows DEF RInv, IInv, LockInv, TypeInv, TypeOK
<1>2. wo[w].verifiedBy \in cited \cup {None}
  BY DEF RInv, VerifiersCited
<1>3. ASSUME NEW r \in Workers, CommitTransition(r), job[r].order = w
      PROVE  wo'[w].verifiedBy \in cited' \cup {None}
  <2>1. wo'[w] = Applied(job[r].op, wo[w], job[r].user, job[r].assignee)
        /\ job[r].user \in cited'
    BY <1>1, <1>3, CommittedOn
  <2>2. QED
    BY <1>1, <1>2, <2>1 DEF Applied, Rows
<1>4. ASSUME NEW u \in Users, DeleteUser(u)
      PROVE  wo'[w].verifiedBy \in cited' \cup {None}
  BY <1>1, <1>2, <1>4 DEF DeleteUser, Rows
<1>5. CASE wo'[w] = Noted(wo[w])
  BY <1>1, <1>2, <1>5, NotedRow
<1>6. QED
  BY <1>1, <1>2, <1>3, <1>4, <1>5, RowStep DEF Born

(* An item row never disappears. *)
LEMMA ItemsStay ==
  ASSUME RInv, Next, NEW w \in Orders, NEW s \in Slots, answer[w][s] # "absent"
  PROVE  answer'[w][s] # "absent"
<1>1. TypeInv
  BY DEF RInv, IInv, LockInv
<1>2. ASSUME NEW r \in Workers, CommitAnswer(r), job[r].order = w
      PROVE  answer'[w][s] # "absent"
  <2>1. job[r].posted \in PostedFor(job[r].slot) /\ job[r].slot \in Slots
    BY <1>1, <1>2, JobAt DEF CommitAnswer, WellFormed
  <2>2. job[r].posted \in Posted
    BY <2>1, PostedForPosted
  <2>3. Resolved(job[r].posted) # "absent"
    BY <2>2 DEF Resolved, Posted
  <2>4. answer'[w] = [answer[w] EXCEPT ![job[r].slot] = Resolved(job[r].posted)]
    BY <1>1, <1>2 DEF CommitAnswer, TypeInv, TypeOK
  <2>5. answer[w] \in [Slots -> Answers]
    BY <1>1 DEF TypeInv, TypeOK
  <2>6. QED
    BY <2>1, <2>3, <2>4, <2>5
<1>3. ASSUME NEW r \in Workers, CopyCommit(r), job[r].order = w
      PROVE  answer'[w][s] # "absent"
  BY <1>1, <1>3 DEF CopyCommit, BlankItems, TypeInv, TypeOK
<1>4. ~Schedule(w)
  BY DEF Schedule, Insertable, Exists, RInv, CopiesAreFirst, NoItems
<1>5. QED
  BY <1>1, <1>2, <1>3, <1>4, AnswerStep

(* Of the requests a worker accepts, an answer begins at an existing item. *)
LEMMA BeginItem ==
  ASSUME TypeInv, NEW q \in Workers, Begin(q), job'[q].op = "item", job'[q] # job[q]
  PROVE  \E w \in Orders, s \in Slots :
           job'[q].order = w /\ job'[q].slot = s /\ answer[w][s] # "absent"
<1>1. job \in [Workers -> Jobs]
  BY DEF TypeInv, TypeOK
<1>2. CASE BeginAnswer(q)
  BY <1>1, <1>2 DEF BeginAnswer, Accept, NoJob
<1>3. CASE BeginTransition(q)
  BY <1>1, <1>3 DEF BeginTransition, Accept, NoJob, Actions
<1>4. CASE BeginReading(q) \/ AdminValidates(q) \/ BeginPhoto(q) \/ CreateCorrective(q)
  BY <1>1, <1>4 DEF BeginReading, AdminValidates, BeginPhoto, CreateCorrective, Accept, NoJob
<1>5. QED
  BY <1>2, <1>3, <1>4 DEF Begin

LEMMA IdleAfter ==
  ASSUME TypeInv, Next, NEW q \in Workers, pc'[q] = "idle"
  PROVE  job'[q].op = None
BY TypeStep, NoJobType DEF TypeInv, TypeOK, JobShape, OpsAt

LEMMA AnswersHaveItemsStep ==
  ASSUME RInv, Next
  PROVE  AnswersHaveItems'
<1> SUFFICES ASSUME NEW q \in Workers, job'[q].op = "item"
             PROVE  answer'[job'[q].order][job'[q].slot] # "absent"
  BY DEF AnswersHaveItems
<1>1. TypeInv /\ AnswersHaveItems
  BY DEF RInv, IInv, LockInv
<1>2. CASE job'[q] = job[q]
  <2>1. job[q].order \in Orders /\ job[q].slot \in Slots
    BY <1>1, <1>2, JobAt DEF WellFormed, Jobs
  <2>2. answer[job[q].order][job[q].slot] # "absent"
    BY <1>1, <1>2 DEF AnswersHaveItems
  <2>3. QED
    BY <1>2, <2>1, <2>2, ItemsStay
<1>3. CASE Begin(q) /\ job'[q] # job[q]
  BY <1>1, <1>3, BeginItem, ItemsStay
<1>4. CASE pc'[q] = "idle"
  BY <1>1, <1>4, IdleAfter, OrdersAssumption DEF AllOperations
<1>5. CASE Lock(q) \/ LockAsset(q) \/ PhotoPassesSeal(q) \/ CopyPassesSeal(q)
  BY <1>2, <1>5 DEF Lock, LockAsset, PhotoPassesSeal, CopyPassesSeal, Proceed
<1>6. QED
  BY <1>1, <1>2, <1>3, <1>4, <1>5, WorkerStep DEF Undisturbed

(* A worker that copies a checklist was copying it already, or has just
   committed the order, which did not exist. *)
LEMMA CopyWorker ==
  ASSUME TypeInv, Next, NEW q \in Workers, pc'[q] \in CopyPoints
  PROVE  \/ pc[q] \in CopyPoints /\ job'[q] = job[q]
         \/ CreateCorrective(q) /\ job'[q].order \in Orders
            /\ wo[job'[q].order].status = "absent"
<1>1. pc \in [Workers -> Points] /\ job \in [Workers -> Jobs]
  BY DEF TypeInv, TypeOK
<1>2. CASE Begin(q)
  <2>1. CreateCorrective(q)
    BY <1>2, BeginPoints DEF CopyPoints
  <2>2. PICK u \in Users, w \in Orders, copies \in BOOLEAN :
          /\ Insertable(w)
          /\ IF copies
             THEN Accept(q, [NoJob EXCEPT !.op = "corrective", !.user = u, !.order = w],
                         "copy_seal")
             ELSE UNCHANGED <<pc, job, locks>>
    BY <2>1 DEF CreateCorrective
  <2>3. pc[q] = "idle"
    BY <2>1 DEF CreateCorrective
  <2>4. job'[q].order = w
    BY <1>1, <2>2, <2>3 DEF Accept, NoJob, CopyPoints
  <2>5. QED
    BY <2>1, <2>2, <2>4 DEF Insertable, Exists
<1>3. CASE Lock(q) \/ LockAsset(q) \/ PhotoPassesSeal(q) \/ CopyPassesSeal(q)
  BY <1>1, <1>3 DEF Lock, LockAsset, PhotoPassesSeal, CopyPassesSeal, Proceed, CopyPoints
<1>4. QED
  BY <1>2, <1>3, WorkerStep DEF Undisturbed, CopyPoints

(* An existing order comes to name a version only by the late copy. *)
LEMMA TemplateStep ==
  ASSUME LockInv, Next, NEW w \in Orders, wo[w].status # "absent",
         ~ \E r \in Workers : CopyCommit(r) /\ job[r].order = w
  PROVE  wo'[w].checklistTemplate = wo[w].checklistTemplate
<1>1. TypeInv /\ wo[w] \in Rows
  BY DEF LockInv, TypeInv, TypeOK
<1>2. ASSUME NEW r \in Workers, CommitTransition(r), job[r].order = w
      PROVE  wo'[w].checklistTemplate = wo[w].checklistTemplate
  <2>1. wo'[w] = Applied(job[r].op, wo[w], job[r].user, job[r].assignee)
    BY <1>2, CommittedOn
  <2>2. QED
    BY <1>1, <2>1 DEF Applied, Rows
<1>3. ASSUME NEW u \in Users, DeleteUser(u)
      PROVE  wo'[w].checklistTemplate = wo[w].checklistTemplate
  BY <1>1, <1>3 DEF DeleteUser, Rows
<1>4. QED
  BY <1>1, <1>2, <1>3, RowStep

(* A corrective order is committed without naming a version. *)
LEMMA CorrectiveRow ==
  ASSUME TypeInv, NEW q \in Workers, CreateCorrective(q), pc'[q] \in CopyPoints
  PROVE  wo'[job'[q].order].checklistTemplate = None
<1>1. PICK u \in Users, w \in Orders, copies \in BOOLEAN, a \in Users \cup {None} :
        /\ wo' = [wo EXCEPT ![w] =
                    NewRow(IF a = None THEN "abierta" ELSE "asignada", "manual", a)]
        /\ IF copies
           THEN Accept(q, [NoJob EXCEPT !.op = "corrective", !.user = u, !.order = w],
                       "copy_seal")
           ELSE UNCHANGED <<pc, job, locks>>
  BY DEF CreateCorrective, AssigneeChoices
<1>2. pc[q] = "idle"
  BY DEF CreateCorrective
<1>3. copies /\ job'[q].order = w
  BY <1>1, <1>2 DEF Accept, NoJob, CopyPoints, TypeInv, TypeOK
<1>4. QED
  BY <1>1, <1>3 DEF NewRow, AbsentRow, TypeInv, TypeOK

LEMMA CopiesAreFirstStep ==
  ASSUME RInv, Next
  PROVE  CopiesAreFirst'
<1>1. LockInv /\ TypeInv /\ LateCopies /\ CopiesAreFirst /\ AnswersHaveItems
  BY DEF RInv, IInv, LockInv
<1>2. ASSUME NEW w \in Orders, wo'[w].status = "absent" PROVE answer'[w] = NoItems
  <2>1. wo[w] \in Rows
    BY <1>1 DEF TypeInv, TypeOK
  <2>2. ASSUME NEW r \in Workers, CommitTransition(r), job[r].order = w PROVE FALSE
    <3>1. job[r].op \in Actions
          /\ wo'[w] = Applied(job[r].op, wo[w], job[r].user, job[r].assignee)
      BY <1>1, <2>2, CommittedOn
    <3>2. QED
      BY <1>2, <2>1, <3>1 DEF Applied, TRANSITIONS, Actions, Rows
  <2>3. ASSUME NEW u \in Users, DeleteUser(u) PROVE wo[w].status = "absent"
    BY <1>2, <2>1, <2>3 DEF DeleteUser, Rows
  <2>4. wo[w].status = "absent"
    BY <1>1, <1>2, <2>1, <2>2, <2>3, NotedRow, RowStep DEF Born
  <2>5. ~Schedule(w)
    BY <1>1, <1>2 DEF Schedule, NewRow, AbsentRow, Noted, TypeInv, TypeOK
  <2>6. ASSUME NEW r \in Workers, CommitAnswer(r) PROVE job[r].order # w
    <3>1. SUFFICES ASSUME job[r].order = w PROVE FALSE
      OBVIOUS
    <3>2. w # None /\ pc[r] = "commit" /\ job[r].op = "item"
      BY <2>6, OrdersAssumption DEF CommitAnswer
    <3>3. Decides(job[r])
      BY <1>1, <3>1, <3>2 DEF LockInv, DecisionsHold
    <3>4. QED
      BY <2>4, <3>1, <3>2, <3>3 DEF Decides, MayAnswer
  <2>7. ASSUME NEW r \in Workers, CopyCommit(r) PROVE job[r].order # w
    BY <1>1, <2>4, <2>7 DEF CopyCommit, LateCopies
  <2>8. answer[w] = NoItems
    BY <1>1, <2>4 DEF CopiesAreFirst
  <2>9. QED
    BY <1>1, <2>5, <2>6, <2>7, <2>8, AnswerStep
<1>3. ASSUME NEW q \in Workers, pc'[q] \in CopyPoints PROVE WithoutChecklist(job[q].order)'
  <2>1. CASE pc[q] \in CopyPoints /\ job'[q] = job[q]
    <3>1. job[q].op = "corrective"
      BY <1>1, <2>1, JobAt DEF OpsAt, CopyPoints
    <3>2. PICK w \in Orders : w = job[q].order
      BY <1>1, <3>1, JobAt DEF WellFormed, Jobs
    <3>3. WithoutChecklist(w) /\ wo[w].status # "absent"
      BY <1>1, <2>1, <3>2 DEF CopiesAreFirst, LateCopies, CopyPoints
    <3>4. ASSUME NEW r \in Workers, CommitAnswer(r) PROVE job[r].order # w
      <4>1. job[r].op = "item" /\ job[r].slot \in Slots
        BY <1>1, <3>4, JobAt DEF CommitAnswer, WellFormed
      <4>2. QED
        BY <1>1, <3>3, <4>1 DEF AnswersHaveItems, WithoutChecklist, NoItems
    <3>5. ASSUME NEW r \in Workers, CopyCommit(r) PROVE job[r].order # w
      <4>1. pc[r] \in CopyPoints /\ (r = q => pc'[q] = "idle")
        BY <1>1, <3>5 DEF CopyCommit, CopyPoints, End, TypeInv, TypeOK
      <4>2. r # q
        BY <1>3, <4>1 DEF CopyPoints
      <4>3. QED
        BY <1>1, <2>1, <3>2, <4>1, <4>2 DEF CopiesAreFirst
    <3>6. ~Schedule(w)
      BY <3>3 DEF Schedule, Insertable, Exists
    <3>7. answer'[w] = NoItems
      BY <1>1, <3>3, <3>4, <3>5, <3>6, AnswerStep DEF WithoutChecklist
    <3>8. wo'[w].checklistTemplate = wo[w].checklistTemplate
      BY <1>1, <3>3, <3>5, TemplateStep
    <3>9. QED
      BY <2>1, <3>2, <3>3, <3>7, <3>8 DEF WithoutChecklist
  <2>2. CASE CreateCorrective(q) /\ job'[q].order \in Orders
             /\ wo[job'[q].order].status = "absent"
    <3>1. answer'[job'[q].order] = NoItems
      BY <1>1, <2>2 DEF CreateCorrective, CopiesAreFirst
    <3>2. wo'[job'[q].order].checklistTemplate = None
      BY <1>1, <1>3, <2>2, CorrectiveRow
    <3>3. QED
      BY <3>1, <3>2 DEF WithoutChecklist
  <2>3. QED
    BY <1>1, <1>3, <2>1, <2>2, CopyWorker
<1>4. ASSUME NEW r \in Workers, NEW q \in Workers, pc'[r] \in CopyPoints, pc'[q] \in CopyPoints,
             job'[r].order = job'[q].order, CreateCorrective(q), r # q,
             wo[job'[q].order].status = "absent"
      PROVE  FALSE
  <2>1. Undisturbed(r)
    BY <1>1, <1>4, OtherWorker DEF Begin
  <2>2. pc[r] \in CopyPoints /\ job'[r] = job[r]
    BY <1>4, <2>1 DEF Undisturbed
  <2>3. wo[job[r].order].status # "absent"
    BY <1>1, <2>2 DEF LateCopies, CopyPoints
  <2>4. QED
    BY <1>4, <2>2, <2>3
<1>5. ASSUME NEW r \in Workers, NEW q \in Workers, pc'[r] \in CopyPoints, pc'[q] \in CopyPoints,
             job'[r].order = job'[q].order
      PROVE  r = q
  BY <1>1, <1>4, <1>5, CopyWorker DEF CopiesAreFirst
<1>6. QED
  BY <1>2, <1>3, <1>5 DEF CopiesAreFirst

LEMMA RInvStep == RInv /\ [Next]_vars => RInv'
<1>1. ASSUME RInv, Next PROVE RInv'
  BY <1>1, IInvStep, AnswersHaveItemsStep, CopiesAreFirstStep, VerifiersCitedStep DEF RInv
<1>2. ASSUME RInv, UNCHANGED vars PROVE RInv'
  <2>1. IInv'
    BY <1>2, IInvStep DEF RInv
  <2>2. UNCHANGED <<wo, answer, cited, pc, job>>
    BY <1>2 DEF vars
  <2>3. AnswersHaveItems' /\ CopiesAreFirst' /\ VerifiersCited'
    BY <1>2, <2>2 DEF RInv, AnswersHaveItems, CopiesAreFirst, WithoutChecklist, VerifiersCited
  <2>4. QED
    BY <2>1, <2>3 DEF RInv
<1>3. QED
  BY <1>1, <1>2

(* A verified order's row and answers are changed by no step but one: the late
   copy of a corrective order's checklist, which notes a version where there was
   none and lays blank items where there were none. *)
THEOREM VerifiedFrozen == Spec => VerifiedIsFrozen
<1> DEFINE Frozen(w) ==
      wo[w].status = "verificada" =>
        \/ wo'[w] = wo[w] /\ answer'[w] = answer[w]
        \/ /\ wo[w].origin = "manual"
           /\ wo[w].checklistTemplate = None
           /\ answer[w] = NoItems
           /\ wo'[w] = Noted(wo[w])
           /\ answer'[w] = BlankItems
<1>1. ASSUME RInv, Next, NEW w \in Orders PROVE Frozen(w)
  <2>1. SUFFICES ASSUME wo[w].status = "verificada"
                 PROVE  \/ wo'[w] = wo[w] /\ answer'[w] = answer[w]
                        \/ /\ wo[w].origin = "manual"
                           /\ WithoutChecklist(w)
                           /\ wo'[w] = Noted(wo[w])
                           /\ answer'[w] = BlankItems
    BY DEF WithoutChecklist
  <2>2. IInv /\ LockInv /\ TypeInv /\ RowFacts /\ LateCopies /\ CopiesAreFirst
    BY <1>1 DEF RInv, IInv, LockInv
  <2>3. ASSUME NEW r \in Workers, CommitTransition(r) PROVE job[r].order # w
    <3>1. SUFFICES ASSUME job[r].order = w PROVE FALSE
      OBVIOUS
    <3>2. job[r].op \in Actions /\ MayTransition(job[r].op, wo[w], job[r].user)
      BY <2>2, <2>3, <3>1, CommittedOn
    <3>3. QED
      BY <2>1, <3>2 DEF MayTransition, TRANSITIONS, Actions
  <2>4. ASSUME NEW u \in Users, DeleteUser(u) PROVE u \notin {wo[w].assigned, wo[w].verifiedBy}
    BY <2>1, <2>2, <2>4 DEF DeleteUser, RowFacts, StartedStatuses
  <2>5. CASE \E r \in Workers : CopyCommit(r) /\ job[r].order = w
    <3>1. PICK r \in Workers : CopyCommit(r) /\ job[r].order = w
      BY <2>5
    <3>2. wo[w].origin = "manual" /\ WithoutChecklist(w)
      BY <2>2, <3>1 DEF CopyCommit, CopyPoints, LateCopies, CopiesAreFirst
    <3>3. wo'[w] = Noted(wo[w]) /\ answer'[w] = BlankItems
      BY <2>2, <3>1 DEF CopyCommit, TypeInv, TypeOK
    <3>4. QED
      BY <3>2, <3>3
  <2>6. CASE ~ \E r \in Workers : CopyCommit(r) /\ job[r].order = w
    <3>1. wo'[w] = wo[w]
      BY <1>1, <2>1, <2>2, <2>3, <2>4, <2>6, RowStep
    <3>2. answer'[w] = answer[w]
      BY <1>1, <2>1, <2>2, <2>6, DoneAnswersStable DEF DONE_STATUSES
    <3>3. QED
      BY <3>1, <3>2
  <2>7. QED
    BY <2>5, <2>6
<1>2. UNCHANGED vars => \A w \in Orders : Frozen(w)
  BY DEF vars
<1>3. RInv /\ [Next]_vars => [\A w \in Orders : Frozen(w)]_vars
  BY <1>1, <1>2
<1>4. QED
  BY <1>3, RInvInit, RInvStep, PTL DEF Spec, VerifiedIsFrozen


(***************************************************************************)
(* The simulation: each action is an operation of the book or a stutter.   *)
(***************************************************************************)

(* The book applies the same rules: Ledger!Op is Op for each operator of
   WorkOrderRules that its actions use. *)
LEMMA SameRules ==
  /\ Ledger!Actions = Actions
  /\ \A u : Ledger!Assignable(u) <=> Assignable(u)
  /\ \A op, row, u : Ledger!MayTransition(op, row, u) <=> MayTransition(op, row, u)
  /\ \A op, row, u, a : Ledger!Applied(op, row, u, a) = Applied(op, row, u, a)
  /\ \A ans : Ledger!PendingRequired(ans) = PendingRequired(ans)
  /\ \A s : Ledger!PostedFor(s) = PostedFor(s)
  /\ \A s, p : Ledger!AcceptsPost(s, p) <=> AcceptsPost(s, p)
  /\ \A p : Ledger!Resolved(p) = Resolved(p)
  /\ \A st, o, a : Ledger!NewRow(st, o, a) = NewRow(st, o, a)
  /\ \A row : Ledger!Noted(row) = Noted(row)
  /\ Ledger!NoItems = NoItems
  /\ Ledger!BlankItems = BlankItems
  /\ Ledger!StartedStatuses = StartedStatuses
  /\ Ledger!AbsentRow = AbsentRow
<1>1. Ledger!TRANSITIONS = TRANSITIONS
  BY DEF Ledger!TRANSITIONS, TRANSITIONS
<1>2. \A op, row, u : Ledger!Allowed(op, row, u) <=> Allowed(op, row, u)
  BY DEF Ledger!Allowed, Allowed, Ledger!is_manager, is_manager, Ledger!MANAGER_ROLES,
     MANAGER_ROLES, Ledger!IsAssignee, IsAssignee, Ledger!MayVerify, MayVerify
<1>3. \A op, row, u : Ledger!MayTransition(op, row, u) <=> MayTransition(op, row, u)
  BY <1>1, <1>2 DEF Ledger!MayTransition, MayTransition
<1>4. \A op, row, u, a : Ledger!Applied(op, row, u, a) = Applied(op, row, u, a)
  BY <1>1 DEF Ledger!Applied, Applied
<1>5. \A ans : Ledger!PendingRequired(ans) = PendingRequired(ans)
  BY DEF Ledger!PendingRequired, PendingRequired, Ledger!is_answered, is_answered
<1>6. Ledger!AbsentRow = AbsentRow
  BY DEF Ledger!AbsentRow, AbsentRow
<1>7. \A st, o, a : Ledger!NewRow(st, o, a) = NewRow(st, o, a)
  BY <1>6 DEF Ledger!NewRow, NewRow
<1>8. /\ Ledger!Actions = Actions
      /\ \A u : Ledger!Assignable(u) <=> Assignable(u)
      /\ Ledger!NoItems = NoItems
      /\ Ledger!BlankItems = BlankItems
      /\ Ledger!StartedStatuses = StartedStatuses
  BY DEF Ledger!Actions, Actions, Ledger!Assignable, Assignable, Ledger!ASSIGNABLE_ROLES,
     ASSIGNABLE_ROLES, Ledger!NoItems, NoItems, Ledger!BlankItems, BlankItems,
     Ledger!StartedStatuses, StartedStatuses
<1>9. /\ \A s : Ledger!PostedFor(s) = PostedFor(s)
      /\ \A s, p : Ledger!AcceptsPost(s, p) <=> AcceptsPost(s, p)
      /\ \A p : Ledger!Resolved(p) = Resolved(p)
      /\ \A row : Ledger!Noted(row) = Noted(row)
  BY DEF Ledger!PostedFor, PostedFor, Ledger!AcceptsPost, AcceptsPost, Ledger!Resolved, Resolved,
     Ledger!Noted, Noted
<1>10. QED
  BY <1>3, <1>4, <1>5, <1>6, <1>7, <1>8, <1>9

LEMMA CommitSimulates ==
  ASSUME RInv, Next, NEW r \in Workers,
         CommitTransition(r) \/ CommitAnswer(r) \/ CopyCommit(r)
  PROVE  Ledger!Next
<1>1. LockInv /\ TypeInv /\ LateCopies /\ CopiesAreFirst /\ AnswersHaveItems
  BY DEF RInv, IInv, LockInv
<1>2. CASE CommitTransition(r)
  <2>1. job[r].op \in Actions
    BY <1>2 DEF CommitTransition
  <2>2. PICK w \in Orders : w = job[r].order
    BY <1>1, <2>1, JobAt DEF WellFormed, Jobs
  <2>3. /\ job[r].user \in Users
        /\ MayTransition(job[r].op, wo[w], job[r].user)
        /\ job[r].op = "complete" => PendingRequired(answer[w]) = {}
    BY <1>1, <1>2, <2>2, CommittedOn
  <2>4. /\ job[r].assignee \in Users \cup {None}
        /\ job[r].op = "assign" => job[r].assignee \in Users /\ Assignable(job[r].assignee)
    BY <1>1, JobAt DEF WellFormed, Jobs
  <2>5. wo' = [wo EXCEPT ![w] = Applied(job[r].op, @, job[r].user, job[r].assignee)]
        /\ answer' = answer
    BY <1>2, <2>2 DEF CommitTransition
  <2>6. Ledger!Move(w)
    BY <2>1, <2>3, <2>4, <2>5, SameRules DEF Ledger!Move
  <2>7. QED
    BY <2>6 DEF Ledger!Next
<1>3. CASE CommitAnswer(r)
  <2>1. job[r].op = "item" /\ pc[r] = "commit"
    BY <1>3 DEF CommitAnswer
  <2>2. PICK w \in Orders, s \in Slots : w = job[r].order /\ s = job[r].slot
    BY <1>1, <2>1, JobAt DEF WellFormed, Jobs
  <2>3. job[r].posted \in PostedFor(s)
    BY <1>1, <2>1, <2>2, JobAt DEF WellFormed
  <2>4. Decides(job[r]) /\ answer[w][s] # "absent"
    BY <1>1, <2>1, <2>2, OrdersAssumption DEF LockInv, DecisionsHold, AnswersHaveItems
  <2>5. wo[w].status = "en_progreso" /\ AcceptsPost(s, job[r].posted)
    BY <2>1, <2>2, <2>4 DEF Decides, MayAnswer
  <2>6. answer' = [answer EXCEPT ![w][s] = Resolved(job[r].posted)] /\ wo' = wo
    BY <1>3, <2>2 DEF CommitAnswer
  <2>7. Ledger!Answer(w)
    BY <2>3, <2>4, <2>5, <2>6, SameRules DEF Ledger!Answer
  <2>8. QED
    BY <2>7 DEF Ledger!Next
<1>4. CASE CopyCommit(r)
  <2>1. pc[r] = "copy_write"
    BY <1>4 DEF CopyCommit
  <2>2. job[r].op = "corrective"
    BY <1>1, <2>1, JobAt DEF OpsAt
  <2>3. PICK w \in Orders : w = job[r].order
    BY <1>1, <2>2, JobAt DEF WellFormed, Jobs
  <2>4. wo[w].origin = "manual" /\ answer[w] = NoItems /\ wo[w].checklistTemplate = None
    BY <1>1, <2>1, <2>3 DEF LateCopies, CopiesAreFirst, WithoutChecklist, CopyPoints
  <2>5. Ledger!Attach(w)
    BY <1>4, <2>3, <2>4, SameRules DEF CopyCommit, Ledger!Attach
  <2>6. QED
    BY <2>5 DEF Ledger!Next
<1>5. QED
  BY <1>2, <1>3, <1>4

LEMMA BirthSimulates ==
  ASSUME RInv, Next
  PROVE  /\ \A r \in Workers : CreateCorrective(r) => Ledger!Next
         /\ \A w \in Orders : Schedule(w) \/ Convert(w) => Ledger!Next
<1>1. ASSUME NEW r \in Workers, CreateCorrective(r) PROVE Ledger!Next
  <2>1. PICK u \in Users, w \in Orders, a \in AssigneeChoices("assign") \cup {None} :
          /\ Insertable(w)
          /\ wo' = [wo EXCEPT ![w] =
                      NewRow(IF a = None THEN "abierta" ELSE "asignada", "manual", a)]
    BY <1>1 DEF CreateCorrective
  <2>2. answer' = answer /\ wo[w].status = "absent"
    BY <1>1, <2>1 DEF CreateCorrective, Insertable, Exists
  <2>3. a # None => a \in Users /\ Assignable(a)
    BY DEF AssigneeChoices
  <2>4. Ledger!CreateByHand(w)
    BY <2>1, <2>2, <2>3, SameRules DEF Ledger!CreateByHand
  <2>5. QED
    BY <2>4 DEF Ledger!Next
<1>2. ASSUME NEW w \in Orders, Schedule(w) PROVE Ledger!Next
  <2>1. Ledger!CreateFromPlan(w)
    BY <1>2, SameRules DEF Schedule, Insertable, Exists, Ledger!CreateFromPlan
  <2>2. QED
    BY <2>1 DEF Ledger!Next
<1>3. ASSUME NEW w \in Orders, Convert(w) PROVE Ledger!Next
  <2>1. Ledger!CreateFromRequest(w)
    BY <1>3, SameRules DEF Convert, Insertable, Exists, Ledger!CreateFromRequest
  <2>2. QED
    BY <2>1 DEF Ledger!Next
<1>4. QED
  BY <1>1, <1>2, <1>3

LEMMA DeleteSimulates ==
  ASSUME RInv, NEW u \in Users, DeleteUser(u)
  PROVE  Ledger!Next
<1>1. TypeInv /\ RowFacts /\ VerifiersCited
  BY DEF RInv, IInv, LockInv
<1>2. u \notin cited /\ u # None /\ answer' = answer
  BY RulesAssumption DEF DeleteUser
<1>3. ASSUME NEW w \in Orders
      PROVE  /\ wo[w].assigned = u => wo[w].status \notin StartedStatuses
             /\ u \notin {wo[w].completedBy, wo[w].verifiedBy}
  BY <1>1, <1>2 DEF DeleteUser, RowFacts, VerifiersCited
<1>4. wo' = [w \in Orders |-> IF wo[w].assigned = u
                              THEN [wo[w] EXCEPT !.assigned = None] ELSE wo[w]]
  <2>1. ASSUME NEW w \in Orders
        PROVE  [wo[w] EXCEPT !.assigned   = IF @ = u THEN None ELSE @,
                             !.verifiedBy = IF @ = u THEN None ELSE @]
               = IF wo[w].assigned = u THEN [wo[w] EXCEPT !.assigned = None] ELSE wo[w]
    <3>1. wo[w] \in Rows /\ wo[w].verifiedBy # u
      BY <1>1, <1>3 DEF TypeInv, TypeOK
    <3>2. QED
      BY <3>1 DEF Rows
  <2>2. QED
    BY <2>1 DEF DeleteUser
<1>5. Ledger!Forget(u)
  BY <1>2, <1>3, <1>4, SameRules DEF Ledger!Forget
<1>6. QED
  BY <1>5 DEF Ledger!Next

LEMMA StepSimulates ==
  ASSUME RInv, [Next]_vars
  PROVE  [Ledger!Next]_(Ledger!vars)
<1>1. ASSUME NEW r \in Workers, Begin(r) \/ Progress(r) \/ Crash(r),
             ~CreateCorrective(r), ~CommitTransition(r), ~CommitAnswer(r), ~CopyCommit(r)
      PROVE  wo' = wo /\ answer' = answer
  BY <1>1 DEF Begin, BeginTransition, BeginAnswer, BeginReading, AdminValidates, BeginPhoto,
     Progress, Crash, Lock, LockAsset, Refuse, RefuseReading, CommitReading, Rollback,
     AdminInserts, PhotoPassesSeal, PhotoRefusedBySeal, PhotoInsert, CopyPassesSeal,
     CopyRefusedBySeal, data
<1>2. ASSUME NEW u \in Users, DeactivateUser(u) PROVE wo' = wo /\ answer' = answer
  BY <1>2 DEF DeactivateUser
<1>3. UNCHANGED vars => wo' = wo /\ answer' = answer
  BY DEF vars
<1>4. Next => Ledger!Next \/ (wo' = wo /\ answer' = answer)
  BY <1>1, <1>2, CommitSimulates, BirthSimulates, DeleteSimulates DEF Next
<1>5. QED
  BY <1>3, <1>4 DEF Ledger!vars

(* The committed orders and answers behave as a book of whole operations. *)
THEOREM Refinement == Spec => ImplementsLedger
<1>1. Init => Ledger!Init
  BY SameRules DEF Init, Ledger!Init
<1>2. Init => RInv
  BY RInvInit
<1>3. RInv /\ [Next]_vars => RInv' /\ [Ledger!Next]_(Ledger!vars)
  BY RInvStep, StepSimulates
<1>4. QED
  BY <1>1, <1>2, <1>3, PTL DEF Spec, ImplementsLedger, Ledger!Spec
=============================================================================

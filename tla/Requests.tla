------------------------------ MODULE Requests ------------------------------
(***************************************************************************)
(* Failure reports, the decision on them and the events they announce      *)
(* (apps/requests_, apps/core/webhooks.py, apps/workorders/signals.py).    *)
(*                                                                         *)
(* A desk is a web worker process: it serves one request at a time, in a   *)
(* transaction, and owns the daemon threads that post its events to n8n.   *)
(* The deployment has a webhook address; without one emit does nothing.    *)
(***************************************************************************)
EXTENDS Naturals, Sequences, Sql

CONSTANTS
  Reports,      \* primary keys of requests__maintenancerequest
  People,       \* accounts of the company
  Reviewers,    \* its administrators and supervisors
  Desks         \* web worker processes

ASSUME RequestsAssumption ==
  /\ Reviewers \subseteq People
  /\ None \notin People /\ None \notin Desks /\ None \notin Reports

VARIABLES
  report,       \* [Reports -> ReportRows]
  opened,       \* reports with a corrective order: rows by UNIQUE(source_request)
  trail,        \* [Reports -> Seq(TrailRows)]: the audit rows of a report
  reportLock,   \* [Reports -> Desks \cup {None}]: who holds FOR UPDATE
  desk,         \* [Desks -> DeskStates]
  event,        \* [Kinds -> [Reports -> Events]]
  heard         \* [Kinds -> [Reports -> Nat]]: how often n8n was told

requestsVars == <<report, opened, trail, reportLock, desk, event, heard>>

ReportStatuses == {"none", "nueva", "convertida", "rechazada"}

ReportRows == [status : ReportStatuses, by : People \cup {None}, reviewer : People \cup {None}]

NoReport == [status |-> "none", by |-> None, reviewer |-> None]

TrailRows == [action : {"create", "convert", "reject"}, by : People]

Kinds == {"solicitud_creada", "ot_creada"}

\* «held»: until the transaction commits; «queued»: for on_commit; «posting»: on a
\* thread; «over»: answered, refused or lost.
Events == [at : {"none", "held", "queued", "posting", "over"}, from : Desks \cup {None}]

NoEvent == [at |-> "none", from |-> None]

DeskStates == [at : {"idle", "file", "asked", "locked", "committed"},
               op : {"none", "file", "convert", "reject"},
               report : Reports \cup {None}, by : People \cup {None}]

IdleDesk == [at |-> "idle", op |-> "none", report |-> None, by |-> None]

RequestsInit ==
  /\ report = [r \in Reports |-> NoReport]
  /\ opened = {}
  /\ trail = [r \in Reports |-> <<>>]
  /\ reportLock = [r \in Reports |-> None]
  /\ desk = [d \in Desks |-> IdleDesk]
  /\ event = [k \in Kinds |-> [r \in Reports |-> NoEvent]]
  /\ heard = [k \in Kinds |-> [r \in Reports |-> 0]]

-----------------------------------------------------------------------------
(* Events. *)

\* Mutant: the event does not wait for the commit.
EmitAtOnce(k, r, d) == [event EXCEPT ![k][r] = [at |-> "queued", from |-> d]]

\* emit: on_commit keeps the event until the transaction commits.
Emit(k, r, d) == [event EXCEPT ![k][r] = [at |-> "held", from |-> d]]

\* The commit of desk d releases what its transaction emitted.
OnCommit(d) ==
  [k \in Kinds |-> [r \in Reports |->
     IF event[k][r] = [at |-> "held", from |-> d] THEN [at |-> "queued", from |-> d]
                                                  ELSE event[k][r]]]

\* A rollback forgets it.
OnRollback(d) ==
  [k \in Kinds |-> [r \in Reports |->
     IF event[k][r] = [at |-> "held", from |-> d] THEN NoEvent ELSE event[k][r]]]

\* send: one daemon thread for each event; then the request is answered.
HandOff(d) ==
  /\ desk[d].at = "committed"
  /\ event' = [k \in Kinds |-> [r \in Reports |->
                 IF event[k][r] = [at |-> "queued", from |-> d]
                 THEN [at |-> "posting", from |-> d] ELSE event[k][r]]]
  /\ desk' = [desk EXCEPT ![d] = IdleDesk]
  /\ UNCHANGED <<report, opened, trail, reportLock, heard>>

\* _post tries once, whatever comes of it.
Posted(k, r) == [event EXCEPT ![k][r] = [at |-> "over", from |-> None]]

PostArrives(k, r) ==
  /\ event[k][r].at = "posting"
  /\ heard' = [heard EXCEPT ![k][r] = @ + 1]
  /\ event' = Posted(k, r)
  /\ UNCHANGED <<report, opened, trail, reportLock, desk>>

PostFails(k, r) ==
  /\ event[k][r].at = "posting"
  /\ event' = Posted(k, r)
  /\ UNCHANGED <<report, opened, trail, reportLock, desk, heard>>

-----------------------------------------------------------------------------
(* Reports. *)

\* request_create: the transaction of create_request is open.
BeginReport(d, r, p) ==
  /\ desk[d] = IdleDesk
  /\ report[r] = NoReport
  /\ \A o \in Desks : desk[o].report # r
  /\ desk' = [desk EXCEPT ![d] = [at |-> "file", op |-> "file", report |-> r, by |-> p]]
  /\ event' = Emit("solicitud_creada", r, d)
  /\ UNCHANGED <<report, opened, trail, reportLock, heard>>

\* The row, its audit row and its event, in one commit.
CommitReport(d) ==
  LET r == desk[d].report IN
  /\ desk[d].at = "file"
  /\ report' = [report EXCEPT ![r] = [status |-> "nueva", by |-> desk[d].by, reviewer |-> None]]
  /\ trail' = [trail EXCEPT ![r] = Append(@, [action |-> "create", by |-> desk[d].by])]
  /\ event' = OnCommit(d)
  /\ desk' = [desk EXCEPT ![d].at = "committed"]
  /\ UNCHANGED <<opened, reportLock, heard>>

\* request_convert and request_reject find the row.
BeginDecision(d, r, p, op) ==
  /\ desk[d] = IdleDesk
  /\ report[r] # NoReport
  /\ p \in Reviewers
  /\ desk' = [desk EXCEPT ![d] = [at |-> "asked", op |-> op, report |-> r, by |-> p]]
  /\ UNCHANGED <<report, opened, trail, reportLock, event, heard>>

\* Mutant: a lock is not waited for.
RowIsOpen(d) == TRUE

\* _locked waits for the other decision.
RowIsFree(d) == reportLock[desk[d].report] = None

\* Mutant: the status is not looked at again.
NotYetOpened(d) == desk[d].report \notin opened

\* The tests of convert and reject on the row as it is under the lock.
MayDecide(d) ==
  /\ report[desk[d].report].status = "nueva"
  /\ desk[d].op = "convert" => desk[d].report \notin opened

\* A report that was decided meanwhile: the second tap gets the order that exists, or
\* a refusal, and nothing is written.
DeclineDecision(d) ==
  /\ desk[d].at = "asked"
  /\ RowIsFree(d)
  /\ ~MayDecide(d)
  /\ desk' = [desk EXCEPT ![d] = IdleDesk]
  /\ UNCHANGED <<report, opened, trail, reportLock, event, heard>>

\* A report to be decided: convert inserts the order, whose receiver emits.
AcceptDecision(d) ==
  LET r == desk[d].report IN
  /\ desk[d].at = "asked"
  /\ RowIsFree(d)
  /\ MayDecide(d)
  /\ reportLock' = [reportLock EXCEPT ![r] = d]
  /\ desk' = [desk EXCEPT ![d].at = "locked"]
  /\ event' = IF desk[d].op = "convert" THEN Emit("ot_creada", r, d) ELSE event
  /\ UNCHANGED <<report, opened, trail, heard>>

\* The decision, its audit row and its event; an order that is already there makes
\* the INSERT fail, and with it the transaction.
CommitDecision(d) ==
  LET r == desk[d].report
      p == desk[d].by
      convert == desk[d].op = "convert" IN
  /\ desk[d].at = "locked"
  /\ IF convert /\ r \in opened
     THEN /\ event' = OnRollback(d)
          /\ UNCHANGED <<report, opened, trail>>
     ELSE /\ report' = [report EXCEPT
               ![r].status = IF convert THEN "convertida" ELSE "rechazada",
               ![r].reviewer = p]
          /\ opened' = IF convert THEN opened \cup {r} ELSE opened
          /\ trail' = [trail EXCEPT ![r] = Append(@, [action |-> desk[d].op, by |-> p])]
          /\ event' = OnCommit(d)
  /\ reportLock' = [reportLock EXCEPT ![r] = None]
  /\ desk' = [desk EXCEPT ![d].at = "committed"]
  /\ UNCHANGED heard

\* An error before the commit: the transaction is rolled back, the worker goes on.
Fail(d) ==
  /\ desk[d].at \in {"file", "locked"}
  /\ desk' = [desk EXCEPT ![d] = IdleDesk]
  /\ reportLock' = [r \in Reports |-> IF reportLock[r] = d THEN None ELSE reportLock[r]]
  /\ event' = OnRollback(d)
  /\ UNCHANGED <<report, opened, trail, heard>>

\* The process dies, and its daemon threads with it.
CrashDesk(d) ==
  /\ desk' = [desk EXCEPT ![d] = IdleDesk]
  /\ reportLock' = [r \in Reports |-> IF reportLock[r] = d THEN None ELSE reportLock[r]]
  /\ event' = [k \in Kinds |-> [r \in Reports |->
                 IF event[k][r].from # d THEN event[k][r]
                 ELSE IF event[k][r].at = "held" THEN NoEvent
                 ELSE [at |-> "over", from |-> None]]]
  /\ UNCHANGED <<report, opened, trail, heard>>

-----------------------------------------------------------------------------

RequestsNext ==
  \/ \E d \in Desks : \/ CommitReport(d) \/ DeclineDecision(d) \/ AcceptDecision(d)
                      \/ CommitDecision(d) \/ HandOff(d) \/ Fail(d) \/ CrashDesk(d)
  \/ \E d \in Desks, r \in Reports, p \in People :
       \/ BeginReport(d, r, p)
       \/ \E op \in {"convert", "reject"} : BeginDecision(d, r, p, op)
  \/ \E k \in Kinds, r \in Reports : PostArrives(k, r) \/ PostFails(k, r)

RequestsSpec == RequestsInit /\ [][RequestsNext]_requestsVars

-----------------------------------------------------------------------------
(* What the component keeps. *)

\* Values of the columns and of the workers' memory.
RequestsTypeOK ==
  /\ report \in [Reports -> ReportRows]
  /\ opened \subseteq Reports
  /\ trail \in [Reports -> Seq(TrailRows)]
  /\ reportLock \in [Reports -> Desks \cup {None}]
  /\ desk \in [Desks -> DeskStates]
  /\ event \in [Kinds -> [Reports -> Events]]
  /\ heard \in [Kinds -> [Reports -> Nat]]

\* A report is «convertida» exactly when its order exists, whoever converts, rejects
\* or taps twice at the same time, and a conversion never meets an order that is
\* already there: the handler of the IntegrityError, whose query PostgreSQL would
\* refuse, is not reached (convert, reject).
DecisionAndOrder ==
  /\ \A r \in Reports : report[r].status = "convertida" <=> r \in opened
  /\ \A d \in Desks :
       desk[d].at = "locked" /\ desk[d].op = "convert" => desk[d].report \notin opened

\* The audit rows of a report are its filing and its one decision, by the people the
\* row names (create_request, convert, reject).
TrailTellsTheReport ==
  \A r \in Reports :
    trail[r] = CASE report[r].status = "none"  -> <<>>
                 [] report[r].status = "nueva" -> <<[action |-> "create", by |-> report[r].by]>>
                 [] OTHER ->
                      <<[action |-> "create", by |-> report[r].by],
                        [action |-> IF report[r].status = "convertida" THEN "convert" ELSE "reject",
                         by |-> report[r].reviewer]>>

\* n8n is told of what is committed, and of that at most once: an event about a row
\* that a rollback erased is never sent, and neither is one sent twice (emit, _post).
EventsTellTheTruth ==
  \A r \in Reports :
    /\ heard["solicitud_creada"][r] <= IF report[r] = NoReport THEN 0 ELSE 1
    /\ heard["ot_creada"][r] <= IF r \in opened THEN 1 ELSE 0
=============================================================================

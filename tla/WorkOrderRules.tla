--------------------------- MODULE WorkOrderRules ---------------------------
(***************************************************************************)
(* The rules of a work order (OT) as pure operators: who may do what, the  *)
(* transition matrix, what each transition writes, and what counts as an   *)
(* answered checklist item.  They are the dictionaries and helpers of      *)
(* apps/workorders/services.py and models.py; the concurrent machine       *)
(* (WorkOrders) and the abstract one (WorkOrderLedger) both apply them.    *)
(*                                                                         *)
(* One company is modelled, and every user belongs to it, a platform       *)
(* administrator too (without a company none of the views finds an order): *)
(* the company comparisons of the services hold for all users and orders.  *)
(***************************************************************************)
EXTENDS Naturals

CONSTANTS
  Users,           \* rows of accounts_user
  Role,            \* [Users -> roles]: User.role
  PlatformAdmins,  \* users with is_platform_admin
  Slots,           \* the item positions of the checklist template
  Kind,            \* [Slots -> item types]: item_type of each item
  Required,        \* [Slots -> BOOLEAN]
  None             \* SQL NULL

\* "" is the column's default: no role at all.
Roles == {"admin", "supervisor", "technician", "staff", ""}
Kinds == {"check", "numeric", "text"}

ASSUME RulesAssumption ==
  /\ Role \in [Users -> Roles]
  /\ PlatformAdmins \subseteq Users
  /\ Kind \in [Slots -> Kinds]
  /\ Required \in [Slots -> BOOLEAN]
  /\ None \notin Users

-----------------------------------------------------------------------------
(* Permissions. *)

MANAGER_ROLES    == {"admin", "supervisor"}
ASSIGNABLE_ROLES == {"technician", "supervisor", "admin"}
REPORTER_ROLES   == {"admin", "supervisor", "technician"}

is_manager(u) == u \in PlatformAdmins \/ Role[u] \in MANAGER_ROLES

may_report_failure(u) == u \in PlatformAdmins \/ Role[u] \in REPORTER_ROLES

Assignable(u) == Role[u] \in ASSIGNABLE_ROLES

-----------------------------------------------------------------------------
(* The work order row and the matrix. *)

\* "absent" is an id the table does not hold yet.
Statuses == {"absent", "abierta", "asignada", "en_progreso",
             "terminada", "verificada", "cancelada"}

\* Work has begun: who executes is on record from here on.
StartedStatuses == {"en_progreso", "terminada", "verificada"}
DONE_STATUSES   == {"terminada", "verificada"}

Origins == {"plan", "manual", "solicitud"}

Rows == [status      : Statuses,
         origin      : Origins \cup {None},
         assigned    : Users \cup {None},
         completedBy : Users \cup {None},
         verifiedBy  : Users \cup {None},
         checklistTemplate : {"version", None}]

AbsentRow == [status |-> "absent", origin |-> None, assigned |-> None,
              completedBy |-> None, verifiedBy |-> None, checklistTemplate |-> None]

\* A row as INSERTed: only the status, origin and assignee are not defaults.
NewRow(status, origin, assignee) ==
  [AbsentRow EXCEPT !.status = status, !.origin = origin, !.assigned = assignee]

Actions == {"assign", "start", "complete", "verify", "cancel"}

TRANSITIONS ==
  [assign   |-> [from |-> {"abierta", "asignada"}, to |-> "asignada"],
   start    |-> [from |-> {"asignada"},            to |-> "en_progreso"],
   complete |-> [from |-> {"en_progreso"},         to |-> "terminada"],
   verify   |-> [from |-> {"terminada"},           to |-> "verificada"],
   cancel   |-> [from |-> {"abierta", "asignada", "en_progreso", "terminada"},
                 to   |-> "cancelada"]]

\* _requires_assignee: deliberately no exception for a supervisor.
IsAssignee(row, u) == row.assigned # None /\ row.assigned = u

\* _may_execute: who may open the execution screen and post from it.
may_execute(row, u) == is_manager(u) \/ IsAssignee(row, u)

\* Mutant of _may_verify: any manager verifies, the executor included.
MayVerifyOwnWork(row, u) == is_manager(u) /\ row.completedBy # None

\* _may_verify: a manager, and never the person recorded as the executor.
MayVerify(row, u) ==
  /\ is_manager(u)
  /\ row.completedBy # None
  /\ row.completedBy # u

\* What TRANSITIONS[action].check answers, on the row given to it.
Allowed(action, row, u) ==
  /\ action \in {"assign", "cancel"}  => is_manager(u)
  /\ action \in {"start", "complete"} => IsAssignee(row, u)
  /\ action = "verify"                => MayVerify(row, u)

\* Mutant: «assign» also accepts an order whose work is under way.
MayTransitionReassign(action, row, u) ==
  /\ \/ row.status \in TRANSITIONS[action].from
     \/ action = "assign" /\ row.status = "en_progreso"
  /\ Allowed(action, row, u)

\* The two questions `transition` asks of the row: status, then permission.
MayTransition(action, row, u) ==
  /\ row.status \in TRANSITIONS[action].from
  /\ Allowed(action, row, u)

\* The columns _apply_assign .. _apply_cancel write, and the new status.
Applied(action, row, u, assignee) ==
  [row EXCEPT !.status      = TRANSITIONS[action].to,
              !.assigned    = IF action = "assign"   THEN assignee ELSE @,
              !.completedBy = IF action = "complete" THEN u ELSE @,
              !.verifiedBy  = IF action = "verify"   THEN u ELSE @]

\* The row names the version its checklist was copied from.
Noted(row) == [row EXCEPT !.checklistTemplate = "version"]

-----------------------------------------------------------------------------
(* Checklist items.  A stored answer is "absent" while the item row does   *)
(* not exist and "blank" while nothing answers it.                         *)

Answers == {"absent", "blank", "ok", "falla", "na", "note"}

\* What a form can post for an item: «in» and «out» are measurements inside
\* and outside the item's range, "blank" an empty field.
Posted == {"blank", "ok", "falla", "na", "note", "in", "out"}

PostedFor(s) ==
  CASE Kind[s] = "check"   -> {"blank", "ok", "falla", "na"}
    [] Kind[s] = "numeric" -> {"blank", "in", "out", "na"}
    [] Kind[s] = "text"    -> {"blank", "note"}

\* An empty OK/Falla/N-A or an empty measurement is refused; an empty note is
\* not: a text item can be emptied again.
AcceptsPost(s, p) == p = "blank" => Kind[s] = "text"

\* Mutant of _resolve_numeric: the measurement is stored as it was posted.
ResolvedAsPosted(p) == p

\* What is stored: a measurement is never taken at its word, the range decides.
Resolved(p) ==
  CASE p = "in"  -> "ok"
    [] p = "out" -> "falla"
    [] OTHER     -> p

is_answered(a) == a \notin {"absent", "blank"}

\* Mutant of pending_required_items: «required» is forgotten for text items.
PendingButText(ans) ==
  {s \in Slots : ans[s] # "absent" /\ Required[s] /\ Kind[s] # "text" /\ ~is_answered(ans[s])}

\* pending_required_items: what blocks «complete».
PendingRequired(ans) ==
  {s \in Slots : ans[s] # "absent" /\ Required[s] /\ ~is_answered(ans[s])}

NoItems    == [s \in Slots |-> "absent"]
BlankItems == [s \in Slots |-> "blank"]
=============================================================================

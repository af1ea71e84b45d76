-------------------------- MODULE WorkOrderLedger --------------------------
(***************************************************************************)
(* What the work-order component promises, with no concurrency in it: a    *)
(* book of orders in which every entry is one whole legal operation,       *)
(* decided on the order as it stands.  WorkOrders, where requests overlap, *)
(* wait for row locks and die half-way, implements this module.            *)
(***************************************************************************)
EXTENDS WorkOrderRules

CONSTANT Orders    \* primary keys of workorders_workorder

VARIABLES
  wo,              \* [Orders -> Rows]
  answer           \* [Orders -> [Slots -> Answers]]: the frozen checklist

vars == <<wo, answer>>

Init ==
  /\ wo = [w \in Orders |-> AbsentRow]
  /\ answer = [w \in Orders |-> NoItems]

\* The scheduler: the order is born open, with its checklist if it has one.
CreateFromPlan(w) ==
  /\ wo[w].status = "absent"
  /\ \E a \in Users \cup {None} :
       LET born == NewRow("abierta", "plan", a) IN
       \/ wo' = [wo EXCEPT ![w] = born] /\ answer' = [answer EXCEPT ![w] = NoItems]
       \/ wo' = [wo EXCEPT ![w] = Noted(born)] /\ answer' = [answer EXCEPT ![w] = BlankItems]

\* A converted failure report: open, nobody's, no checklist.
CreateFromRequest(w) ==
  /\ wo[w].status = "absent"
  /\ wo' = [wo EXCEPT ![w] = NewRow("abierta", "solicitud", None)]
  /\ UNCHANGED answer

\* A corrective order: open, or already somebody's.
CreateByHand(w) ==
  /\ wo[w].status = "absent"
  /\ \/ wo' = [wo EXCEPT ![w] = NewRow("abierta", "manual", None)]
     \/ \E a \in Users :
          /\ Assignable(a)
          /\ wo' = [wo EXCEPT ![w] = NewRow("asignada", "manual", a)]
  /\ UNCHANGED answer

\* The checklist of a corrective order is copied after the order exists, in any
\* status, but once.
Attach(w) ==
  /\ wo[w].origin = "manual"
  /\ wo[w].checklistTemplate = None
  /\ answer[w] = NoItems
  /\ wo' = [wo EXCEPT ![w] = Noted(@)]
  /\ answer' = [answer EXCEPT ![w] = BlankItems]

\* One transition of the matrix, legal for this user on this row.
Move(w) ==
  /\ \E action \in Actions, u \in Users, a \in Users \cup {None} :
       /\ MayTransition(action, wo[w], u)
       /\ action = "assign" => a \in Users /\ Assignable(a)
       /\ action = "complete" => PendingRequired(answer[w]) = {}
       /\ wo' = [wo EXCEPT ![w] = Applied(action, @, u, a)]
  /\ UNCHANGED answer

\* One answer, given while the work is under way.
Answer(w) ==
  /\ wo[w].status = "en_progreso"
  /\ \E s \in Slots : \E p \in PostedFor(s) :
       /\ answer[w][s] # "absent"
       /\ AcceptsPost(s, p)
       /\ answer' = [answer EXCEPT ![w][s] = Resolved(p)]
  /\ UNCHANGED wo

\* A user row disappears from the orders it was merely assigned to; it may not
\* be one that carried out work on any of them.
Forget(u) ==
  /\ \A w \in Orders :
       /\ wo[w].assigned = u => wo[w].status \notin StartedStatuses
       /\ u \notin {wo[w].completedBy, wo[w].verifiedBy}
  /\ wo' = [w \in Orders |-> IF wo[w].assigned = u
                             THEN [wo[w] EXCEPT !.assigned = None] ELSE wo[w]]
  /\ UNCHANGED answer

Next ==
  \/ \E w \in Orders : \/ CreateFromPlan(w) \/ CreateFromRequest(w) \/ CreateByHand(w)
                       \/ Attach(w) \/ Move(w) \/ Answer(w)
  \/ \E u \in Users : Forget(u)

Spec == Init /\ [][Next]_vars
=============================================================================

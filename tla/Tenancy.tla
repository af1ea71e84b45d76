------------------------------- MODULE Tenancy -------------------------------
(***************************************************************************)
(* Whose rows a request sees (apps/core: tenancy.py, middleware.py,        *)
(* rbac.py; the QR scan of apps/assets; the documents of apps/reports; the *)
(* overdue digest of the nightly run).                                     *)
(*                                                                         *)
(* A thread serves requests, or the nightly run, one after the other, and  *)
(* keeps the context variable current_company_id between them.  Tickets    *)
(* stand for every table that refers to a machine: orders, reports, plans. *)
(***************************************************************************)
EXTENDS Sql

CONSTANTS
  Companies,    \* tenants
  Members,      \* accounts
  Threads,      \* worker threads, and the process of the nightly run
  Equipment,    \* primary keys of assets_asset
  Tickets       \* primary keys of the tables that refer to it

ASSUME TenancyAssumption ==
  /\ None \notin Companies /\ None \notin Members /\ None \notin Equipment
  /\ None \notin Tickets /\ Equipment \cap Tickets = {}

VARIABLES
  member,       \* [Members -> Profiles]
  equipment,    \* [Equipment -> Companies \cup {None}]: its company; None, no row
  ticket,       \* [Tickets -> TicketRows]
  context,      \* [Threads -> Companies \cup {None}]: current_company_id
  thread,       \* [Threads -> ThreadStates]
  told          \* [Companies -> SUBSET Tickets]: what the digests named

tenancyVars == <<member, equipment, ticket, context, thread, told>>

\* An account may have no role yet; «platform» is is_platform_admin.
Profiles == [company : Companies \cup {None},
             role : {"manager", "technician", "staff", "none"}, platform : BOOLEAN]

Stranger == [company |-> None, role |-> "none", platform |-> FALSE]

TicketRows == [company : Companies \cup {None}, about : Equipment \cup {None},
               assignee : Members \cup {None}]

NoTicket == [company |-> None, about |-> None, assignee |-> None]

\* «user» and «profile»: the account as the request loaded it; «token»: what reset
\* puts back; «rows» and «plates»: what was put on the page; «ahead»: the companies
\* the nightly run has not visited.
ThreadStates == [at : {"idle", "begun", "inside", "run", "visit"}, user : Members \cup {None},
                 profile : Profiles, token : Companies \cup {None},
                 rows : SUBSET (Equipment \cup Tickets), plates : SUBSET Equipment,
                 ahead : SUBSET Companies]

IdleThread == [at |-> "idle", user |-> None, profile |-> Stranger, token |-> None,
               rows |-> {}, plates |-> {}, ahead |-> {}]

TenancyInit ==
  /\ member \in [Members -> Profiles]
  /\ equipment = [e \in Equipment |-> None]
  /\ ticket = [k \in Tickets |-> NoTicket]
  /\ context = [t \in Threads |-> None]
  /\ thread = [t \in Threads |-> IdleThread]
  /\ told = [c \in Companies |-> {}]

OwnerOf(x) == IF x \in Equipment THEN equipment[x] ELSE ticket[x].company

\* CompanyScopedManager: the rows of the current company; none without one.
Scoped(t) == {x \in Equipment \cup Tickets : context[t] # None /\ OwnerOf(x) = context[t]}

\* The rows that name a machine, by .unscoped().filter(asset_id=..), and the machines
\* that rows name, by foreign keys.
Related(xs) == {k \in Tickets : ticket[k].about \in xs}
                 \cup {e \in Equipment : \E k \in xs \cap Tickets : ticket[k].about = e}

Shows(t, xs) ==
  /\ thread' = [thread EXCEPT ![t].rows = @ \cup xs]
  /\ UNCHANGED <<member, equipment, ticket, context, told>>

-----------------------------------------------------------------------------
(* Requests. *)

\* CurrentCompanyMiddleware: the user of the session, or nobody.
BeginRequest(t, u) ==
  LET profile == IF u = None THEN Stranger ELSE member[u] IN
  /\ thread[t].at = "idle"
  /\ thread' = [thread EXCEPT ![t] = [IdleThread EXCEPT !.at = "begun", !.user = u,
                                        !.profile = profile, !.token = context[t]]]
  /\ context' = [context EXCEPT ![t] = profile.company]
  /\ UNCHANGED <<member, equipment, ticket, told>>

\* role_required
Admit(t, roles) ==
  /\ thread[t].at = "begun"
  /\ thread[t].user # None
  /\ thread[t].profile.platform \/ thread[t].profile.role \in roles
  /\ thread' = [thread EXCEPT ![t].at = "inside"]
  /\ UNCHANGED <<member, equipment, ticket, context, told>>

\* A list or a record of the company.
ReadScoped(t) == thread[t].at = "inside" /\ Shows(t, Scoped(t))

\* build_asset_record, build_work_order_report: what hangs together with a row that
\* the scoped manager found.
ReadRelated(t, x) ==
  /\ thread[t].at = "inside"
  /\ x \in Scoped(t)
  /\ Shows(t, {x} \cup Related({x}))

\* asset_create, for the company of the user.
CreateEquipment(t, e) ==
  /\ thread[t].at = "inside"
  /\ thread[t].profile.company # None
  /\ equipment[e] = None
  /\ equipment' = [equipment EXCEPT ![e] = thread[t].profile.company]
  /\ UNCHANGED <<member, ticket, context, thread, told>>

\* Mutant: the machine of the page is looked up without a company.
AnyEquipment(t) == {e \in Equipment : equipment[e] # None}

\* The machines that get_object_or_404 finds for a page.
OwnEquipment(t) == Scoped(t) \cap Equipment

\* corrective_create, plan_create, request_create; the assignee is a colleague.
CreateTicket(t, k, e, a) ==
  /\ thread[t].at = "inside"
  /\ thread[t].profile.company # None
  /\ ticket[k] = NoTicket
  /\ e \in OwnEquipment(t)
  /\ a # None => member[a].company = thread[t].profile.company
  /\ ticket' = [ticket EXCEPT ![k] =
                  [company |-> thread[t].profile.company, about |-> e, assignee |-> a]]
  /\ UNCHANGED <<member, equipment, context, thread, told>>

\* scan_audience: what a scan may show beside the plate.
Audience(t, e) ==
  IF thread[t].profile.company # None /\ thread[t].profile.company = equipment[e]
  THEN thread[t].profile.role ELSE "none"

\* technician_context, manager_context, staff_context
Audible(t, e) ==
  LET about == {k \in Tickets : ticket[k].about = e} \cap Scoped(t) IN
  CASE Audience(t, e) = "technician" -> {e} \cup {k \in about : ticket[k].assignee = thread[t].user}
    [] Audience(t, e) = "none"       -> {}
    [] OTHER                         -> {e} \cup about

\* asset_scan: the machine is looked up without a company, for anybody.
Scan(t, e) ==
  /\ thread[t].at = "begun"
  /\ equipment[e] # None
  /\ thread' = [thread EXCEPT ![t].plates = @ \cup {e}, ![t].rows = @ \cup Audible(t, e)]
  /\ UNCHANGED <<member, equipment, ticket, context, told>>

\* reset(token), in the finally of the middleware and of generate_for_company.
ResetContext(t) == thread[t].token

\* Answered, denied or raised.
EndRequest(t) ==
  /\ thread[t].at \in {"begun", "inside"}
  /\ context' = [context EXCEPT ![t] = ResetContext(t)]
  /\ thread' = [thread EXCEPT ![t] = IdleThread]
  /\ UNCHANGED <<member, equipment, ticket, told>>

-----------------------------------------------------------------------------
(* The nightly run. *)

\* generate_work_orders: the active companies.
BeginNight(t, active) ==
  /\ thread[t].at = "idle"
  /\ thread' = [thread EXCEPT ![t] = [IdleThread EXCEPT !.at = "run", !.ahead = active]]
  /\ UNCHANGED <<member, equipment, ticket, context, told>>

\* generate_for_company
BeginCompany(t, c) ==
  /\ thread[t].at = "run"
  /\ c \in thread[t].ahead
  /\ thread' = [thread EXCEPT ![t].at = "visit", ![t].ahead = @ \ {c}, ![t].token = context[t],
                              ![t].profile = [Stranger EXCEPT !.company = c]]
  /\ context' = [context EXCEPT ![t] = c]
  /\ UNCHANGED <<member, equipment, ticket, told>>

\* _overdue_work_order_ids, _emit_overdue_digest: some of the orders are late.
EmitDigest(t, late) ==
  /\ thread[t].at = "visit"
  /\ late \subseteq Scoped(t) \cap Tickets
  /\ told' = [told EXCEPT ![thread[t].profile.company] = @ \cup late]
  /\ UNCHANGED <<member, equipment, ticket, context, thread>>

EndCompany(t) ==
  /\ thread[t].at = "visit"
  /\ context' = [context EXCEPT ![t] = ResetContext(t)]
  /\ thread' = [thread EXCEPT ![t].at = "run", ![t].profile = Stranger, ![t].token = None]
  /\ UNCHANGED <<member, equipment, ticket, told>>

\* The run is over, or an exception ended it after the reset.
EndNight(t) ==
  /\ thread[t].at = "run"
  /\ thread' = [thread EXCEPT ![t] = IdleThread]
  /\ UNCHANGED <<member, equipment, ticket, context, told>>

\* CompanyUserAdmin: an account changes its company, its role or its elevation while
\* its requests are served.
AdminEdits(u, profile) ==
  /\ member' = [member EXCEPT ![u] = profile]
  /\ UNCHANGED <<equipment, ticket, context, thread, told>>

-----------------------------------------------------------------------------

TenancyNext ==
  \/ \E t \in Threads :
       \/ ReadScoped(t) \/ EndRequest(t) \/ EndCompany(t) \/ EndNight(t)
       \/ \E u \in Members \cup {None} : BeginRequest(t, u)
       \/ \E roles \in {{"manager"}, {"manager", "technician", "staff"}} : Admit(t, roles)
       \/ \E x \in Equipment \cup Tickets : ReadRelated(t, x)
       \/ \E e \in Equipment : CreateEquipment(t, e) \/ Scan(t, e)
       \/ \E k \in Tickets, e \in Equipment, a \in Members \cup {None} : CreateTicket(t, k, e, a)
       \/ \E active \in SUBSET Companies : BeginNight(t, active)
       \/ \E c \in Companies : BeginCompany(t, c)
       \/ \E late \in SUBSET Tickets : EmitDigest(t, late)
  \/ \E u \in Members, profile \in Profiles : AdminEdits(u, profile)

TenancySpec == TenancyInit /\ [][TenancyNext]_tenancyVars

-----------------------------------------------------------------------------
(* What the component keeps. *)

\* Values of the columns and of the threads' memory.
TenancyTypeOK ==
  /\ member \in [Members -> Profiles]
  /\ equipment \in [Equipment -> Companies \cup {None}]
  /\ ticket \in [Tickets -> TicketRows]
  /\ context \in [Threads -> Companies \cup {None}]
  /\ thread \in [Threads -> ThreadStates]
  /\ told \in [Companies -> SUBSET Tickets]

\* A page shows, beside the plates of scanned machines, only rows of the company its
\* user had when the request began, a digest only orders of its company, and no
\* company is left behind in the thread; reads that bypass the scoped manager follow
\* foreign keys, and none of them crosses a company (CompanyScopedManager,
\* CurrentCompanyMiddleware, asset_scan, build_asset_record, generate_for_company).
TenantsApart ==
  /\ \A t \in Threads :
       /\ thread[t].at = "idle" => context[t] = None
       /\ \A x \in thread[t].rows : OwnerOf(x) # None /\ OwnerOf(x) = thread[t].profile.company
  /\ \A c \in Companies : \A k \in told[c] : ticket[k].company = c
  /\ \A k \in Tickets : ticket[k] # NoTicket => equipment[ticket[k].about] = ticket[k].company
=============================================================================

---------------------------- MODULE TenancyProofs ----------------------------
(***************************************************************************)
(* Proofs about Tenancy, for any companies, accounts, threads and rows.    *)
(***************************************************************************)
EXTENDS Tenancy, TLAPS

(* What a thread may hold where it stands, with c the current company: no  *)
(* company and nothing on a page between two requests, and inside one the  *)
(* company its user had when it began, with the reset to none.             *)
Tidy(row, c) ==
  /\ row.at \in {"idle", "run"} => c = None
  /\ row.at \in {"begun", "inside", "visit"} => c = row.profile.company /\ row.token = None
  /\ row.at \in {"idle", "run", "visit"} => row.rows = {}
  /\ row.at = "visit" => row.profile.company # None

(* Rows that are there and belong to c. *)
OfCompany(xs, c) == \A x \in xs : OwnerOf(x) # None /\ OwnerOf(x) = c

ThreadsTidy ==
  \A t \in Threads :
    /\ Tidy(thread[t], context[t])
    /\ OfCompany(thread[t].rows, thread[t].profile.company)

ToldTidy == \A c \in Companies : OfCompany(told[c], c)

(* No foreign key crosses a company. *)
References ==
  \A k \in Tickets : ticket[k] # NoTicket =>
    /\ ticket[k].about # None /\ ticket[k].company # None
    /\ equipment[ticket[k].about] = ticket[k].company

TenancyInv == TenancyTypeOK /\ ThreadsTidy /\ ToldTidy /\ References

LEMMA IdleType == IdleThread \in ThreadStates /\ Stranger \in Profiles /\ NoTicket \in TicketRows
BY DEF IdleThread, ThreadStates, Stranger, Profiles, NoTicket, TicketRows

LEMMA InitTenancy == TenancyInit => TenancyInv
<1> SUFFICES ASSUME TenancyInit PROVE TenancyInv
  OBVIOUS
<1>1. TenancyTypeOK
  BY IdleType DEF TenancyInit, TenancyTypeOK
<1>2. ThreadsTidy
  BY DEF TenancyInit, ThreadsTidy, Tidy, OfCompany, IdleThread
<1>3. ToldTidy /\ References
  BY DEF TenancyInit, ToldTidy, OfCompany, References
<1>4. QED
  BY <1>1, <1>2, <1>3 DEF TenancyInv

(* A step of one thread that writes no row. *)
LEMMA ThreadStep ==
  ASSUME TenancyInv, NEW t \in Threads,
         NEW row \in ThreadStates, NEW c \in Companies \cup {None},
         thread' = [thread EXCEPT ![t] = row], context' = [context EXCEPT ![t] = c],
         Tidy(row, c), OfCompany(row.rows, row.profile.company),
         UNCHANGED <<member, equipment, ticket, told>>
  PROVE  TenancyInv'
<1> USE DEF TenancyInv
<1>1. TenancyTypeOK'
  BY DEF TenancyTypeOK
<1>2. ThreadsTidy'
  <2>1. ASSUME NEW u \in Threads
        PROVE  Tidy(thread'[u], context'[u])
                 /\ OfCompany(thread'[u].rows, thread'[u].profile.company)
    BY DEF TenancyTypeOK, ThreadsTidy
  <2>2. QED
    BY <2>1 DEF ThreadsTidy, OfCompany, OwnerOf
<1>3. ToldTidy' /\ References'
  BY DEF ToldTidy, References, OfCompany, OwnerOf
<1>4. QED
  BY <1>1, <1>2, <1>3

(* A step that writes rows: those that were there keep their company. *)
LEMMA RowStep ==
  ASSUME TenancyInv,
         member' \in [Members -> Profiles],
         equipment' \in [Equipment -> Companies \cup {None}],
         ticket' \in [Tickets -> TicketRows],
         \A x \in Equipment \cup Tickets : OwnerOf(x) # None => OwnerOf(x)' = OwnerOf(x),
         References',
         UNCHANGED <<context, thread, told>>
  PROVE  TenancyInv'
<1> USE DEF TenancyInv
<1>1. TenancyTypeOK'
  BY DEF TenancyTypeOK
<1>2. ASSUME NEW xs, NEW c, xs \subseteq Equipment \cup Tickets, OfCompany(xs, c)
      PROVE  OfCompany(xs, c)'
  BY <1>2 DEF OfCompany
<1>3. ThreadsTidy'
  <2>1. ASSUME NEW t \in Threads
        PROVE  OfCompany(thread[t].rows, thread[t].profile.company)'
    BY <1>2 DEF TenancyTypeOK, ThreadsTidy, ThreadStates, OfCompany
  <2>2. QED
    BY <2>1 DEF ThreadsTidy
<1>4. ToldTidy'
  BY <1>2 DEF TenancyTypeOK, ToldTidy, OfCompany
<1>5. QED
  BY <1>1, <1>3, <1>4

LEMMA BeginRequestTenancy ==
  ASSUME TenancyInv, NEW t \in Threads, NEW u \in Members \cup {None}, BeginRequest(t, u)
  PROVE  TenancyInv'
<1> DEFINE profile == IF u = None THEN Stranger ELSE member[u]
           row == [IdleThread EXCEPT !.at = "begun", !.user = u, !.profile = profile,
                                     !.token = context[t]]
<1>1. profile \in Profiles
  BY IdleType DEF TenancyInv, TenancyTypeOK
<1>2. profile.company \in Companies \cup {None}
  BY <1>1 DEF Profiles
<1>3. context[t] = None
  BY DEF TenancyInv, ThreadsTidy, Tidy, BeginRequest
<1>4. row \in ThreadStates /\ Tidy(row, profile.company) /\ OfCompany(row.rows, row.profile.company)
  <2> HIDE DEF profile
  <2>1. QED
    BY <1>1, <1>2, <1>3 DEF IdleThread, ThreadStates, Tidy, OfCompany
<1>5. thread' = [thread EXCEPT ![t] = row] /\ context' = [context EXCEPT ![t] = profile.company]
        /\ UNCHANGED <<member, equipment, ticket, told>>
  BY DEF BeginRequest
<1> HIDE DEF row, profile
<1>6. QED
  BY <1>2, <1>4, <1>5, ThreadStep

LEMMA AdmitTenancy ==
  ASSUME TenancyInv, NEW t \in Threads, NEW roles, Admit(t, roles)
  PROVE  TenancyInv'
<1> DEFINE row == [thread[t] EXCEPT !.at = "inside"]
<1>1. thread[t] \in ThreadStates /\ Tidy(thread[t], context[t]) /\ context[t] \in Companies \cup {None}
        /\ OfCompany(thread[t].rows, thread[t].profile.company) /\ thread[t].at = "begun"
  BY DEF TenancyInv, TenancyTypeOK, ThreadsTidy, Admit
<1>2. row \in ThreadStates /\ Tidy(row, context[t]) /\ OfCompany(row.rows, row.profile.company)
  BY <1>1 DEF ThreadStates, Tidy
<1>3. thread' = [thread EXCEPT ![t] = row] /\ context' = [context EXCEPT ![t] = context[t]]
        /\ UNCHANGED <<member, equipment, ticket, told>>
  BY DEF Admit, TenancyInv, TenancyTypeOK
<1> HIDE DEF row
<1>4. QED
  BY <1>1, <1>2, <1>3, ThreadStep

(* What a read inside a request, or a scan before it, adds to the page. *)
LEMMA PageStep ==
  ASSUME TenancyInv, NEW t \in Threads, thread[t].at \in {"begun", "inside"},
         NEW xs, xs \subseteq Equipment \cup Tickets,
         OfCompany(xs, thread[t].profile.company),
         NEW plates \in SUBSET Equipment,
         thread' = [thread EXCEPT ![t] =
                     [thread[t] EXCEPT !.rows = thread[t].rows \cup xs, !.plates = plates]],
         UNCHANGED <<member, equipment, ticket, context, told>>
  PROVE  TenancyInv'
<1> DEFINE row == [thread[t] EXCEPT !.rows = thread[t].rows \cup xs, !.plates = plates]
<1>1. thread[t] \in ThreadStates /\ Tidy(thread[t], context[t]) /\ context[t] \in Companies \cup {None}
        /\ OfCompany(thread[t].rows, thread[t].profile.company)
  BY DEF TenancyInv, TenancyTypeOK, ThreadsTidy
<1>2. row \in ThreadStates /\ row.at = thread[t].at /\ row.profile = thread[t].profile
        /\ row.token = thread[t].token /\ row.rows = thread[t].rows \cup xs
  BY <1>1 DEF ThreadStates
<1>3. thread' = [thread EXCEPT ![t] = row] /\ context' = [context EXCEPT ![t] = context[t]]
  BY DEF TenancyInv, TenancyTypeOK
<1> HIDE DEF row
<1>4. Tidy(row, context[t]) /\ OfCompany(row.rows, row.profile.company)
  BY <1>1, <1>2 DEF Tidy, OfCompany
<1>5. QED
  BY <1>1, <1>2, <1>3, <1>4, ThreadStep

(* Inside a request the scoped rows are the user's company's, and so is what hangs *)
(* together with one of them. *)
LEMMA ScopedRows ==
  ASSUME TenancyInv, NEW t \in Threads, thread[t].at \in {"begun", "inside", "visit"}
  PROVE  OfCompany(Scoped(t), thread[t].profile.company)
BY DEF TenancyInv, ThreadsTidy, Tidy, Scoped, OfCompany

LEMMA RelatedRows ==
  ASSUME TenancyInv, NEW x \in Equipment \cup Tickets, NEW c, OfCompany({x}, c)
  PROVE  OfCompany(Related({x}), c)
<1> USE TenancyAssumption DEF TenancyInv, References
<1>1. ASSUME NEW k \in Tickets, ticket[k].about = x
      PROVE  OwnerOf(k) # None /\ OwnerOf(k) = c
  <2>1. x # None /\ k \notin Equipment
    OBVIOUS
  <2>2. ticket[k] # NoTicket /\ x \in Equipment
    <3>1. ticket[k].about \in Equipment \cup {None}
      BY DEF TenancyTypeOK, TicketRows
    <3>2. QED
      BY <1>1, <2>1, <3>1 DEF NoTicket
  <2>3. QED
    BY <1>1, <2>1, <2>2 DEF OfCompany, OwnerOf
<1>2. ASSUME NEW e \in Equipment, x \in Tickets, ticket[x].about = e
      PROVE  OwnerOf(e) # None /\ OwnerOf(e) = c
  <2>1. ticket[x].company = c /\ c # None
    BY <1>2 DEF OfCompany, OwnerOf
  <2>2. ticket[x] # NoTicket
    BY <2>1 DEF NoTicket
  <2>3. QED
    BY <1>2, <2>1, <2>2 DEF OwnerOf
<1>3. QED
  BY <1>1, <1>2 DEF Related, OfCompany

LEMMA ReadTenancy ==
  ASSUME TenancyInv, NEW t \in Threads, NEW xs, xs \subseteq Equipment \cup Tickets,
         thread[t].at = "inside", OfCompany(xs, thread[t].profile.company), Shows(t, xs)
  PROVE  TenancyInv'
<1>1. thread[t] \in ThreadStates /\ thread[t].plates \in SUBSET Equipment
  BY DEF TenancyInv, TenancyTypeOK, ThreadStates
<1>2. [thread[t] EXCEPT !.rows = thread[t].rows \cup xs]
        = [thread[t] EXCEPT !.rows = thread[t].rows \cup xs, !.plates = thread[t].plates]
  BY <1>1 DEF ThreadStates
<1>3. thread' = [thread EXCEPT ![t] =
             [thread[t] EXCEPT !.rows = thread[t].rows \cup xs, !.plates = thread[t].plates]]
        /\ UNCHANGED <<member, equipment, ticket, context, told>>
  BY <1>2 DEF Shows
<1>4. QED
  BY <1>1, <1>3, PageStep

LEMMA ReadScopedTenancy ==
  ASSUME TenancyInv, NEW t \in Threads, ReadScoped(t)
  PROVE  TenancyInv'
<1>1. Scoped(t) \subseteq Equipment \cup Tickets /\ thread[t].at = "inside"
  BY DEF Scoped, ReadScoped
<1>2. OfCompany(Scoped(t), thread[t].profile.company)
  BY <1>1, ScopedRows
<1>3. QED
  BY <1>1, <1>2, ReadTenancy DEF ReadScoped

LEMMA ReadRelatedTenancy ==
  ASSUME TenancyInv, NEW t \in Threads, NEW x \in Equipment \cup Tickets, ReadRelated(t, x)
  PROVE  TenancyInv'
<1> DEFINE c == thread[t].profile.company
<1>1. thread[t].at = "inside" /\ OfCompany({x}, c)
  BY ScopedRows DEF ReadRelated, OfCompany
<1>2. OfCompany({x} \cup Related({x}), c)
  BY <1>1, RelatedRows DEF OfCompany
<1>3. {x} \cup Related({x}) \subseteq Equipment \cup Tickets
  BY DEF Related
<1>4. QED
  BY <1>1, <1>2, <1>3, ReadTenancy DEF ReadRelated

LEMMA ScanTenancy ==
  ASSUME TenancyInv, NEW t \in Threads, NEW e \in Equipment, Scan(t, e)
  PROVE  TenancyInv'
<1> DEFINE about == {k \in Tickets : ticket[k].about = e} \cap Scoped(t)
           c == thread[t].profile.company
           plates == thread[t].plates \cup {e}
<1>1. thread[t] \in ThreadStates /\ thread[t].at = "begun" /\ equipment[e] # None
  BY DEF TenancyInv, TenancyTypeOK, Scan
<1>2. OfCompany(about, c)
  BY <1>1, ScopedRows DEF OfCompany
<1>3. Audience(t, e) # "none" => OfCompany({e}, c)
  BY <1>1 DEF Audience, OfCompany, OwnerOf
<1>4. /\ Audible(t, e) \subseteq about \cup {e}
      /\ Audience(t, e) = "none" => Audible(t, e) = {}
  BY DEF Audible
<1>5. Audible(t, e) \subseteq Equipment \cup Tickets /\ OfCompany(Audible(t, e), c)
  <2> HIDE DEF c
  <2>1. QED
    BY <1>2, <1>3, <1>4 DEF OfCompany
<1>6. plates \in SUBSET Equipment
  BY <1>1 DEF ThreadStates
<1>7. thread' = [thread EXCEPT ![t] =
        [thread[t] EXCEPT !.rows = thread[t].rows \cup Audible(t, e), !.plates = plates]]
  <2> HIDE DEF plates
  <2>1. [thread[t] EXCEPT !.plates = plates, !.rows = thread[t].rows \cup Audible(t, e)]
         = [thread[t] EXCEPT !.rows = thread[t].rows \cup Audible(t, e), !.plates = plates]
    BY <1>1 DEF ThreadStates
  <2>2. thread' = [thread EXCEPT ![t] =
          [thread[t] EXCEPT !.plates = plates, !.rows = thread[t].rows \cup Audible(t, e)]]
    BY <1>1 DEF Scan, plates, TenancyInv, TenancyTypeOK, ThreadStates
  <2>3. QED
    BY <2>1, <2>2
<1>8. UNCHANGED <<member, equipment, ticket, context, told>>
  BY DEF Scan
<1> HIDE DEF plates, c
<1>9. OfCompany(Audible(t, e), thread[t].profile.company)
  BY <1>5 DEF c
<1>10. QED
  BY <1>1, <1>5, <1>6, <1>7, <1>8, <1>9, PageStep

LEMMA CreateEquipmentTenancy ==
  ASSUME TenancyInv, NEW t \in Threads, NEW e \in Equipment, CreateEquipment(t, e)
  PROVE  TenancyInv'
<1> USE DEF TenancyInv, CreateEquipment
<1>1. thread[t].profile.company \in Companies \cup {None}
  BY DEF TenancyTypeOK, ThreadStates, Profiles
<1>2. member' \in [Members -> Profiles] /\ ticket' \in [Tickets -> TicketRows]
        /\ equipment' \in [Equipment -> Companies \cup {None}]
  BY <1>1 DEF TenancyTypeOK
<1>3. \A x \in Equipment \cup Tickets : OwnerOf(x) # None => OwnerOf(x)' = OwnerOf(x)
  BY DEF OwnerOf, TenancyTypeOK
<1>4. References'
  BY DEF References, TenancyTypeOK
<1>5. UNCHANGED <<context, thread, told>>
  OBVIOUS
<1>6. QED
  BY <1>2, <1>3, <1>4, <1>5, RowStep

LEMMA CreateTicketTenancy ==
  ASSUME TenancyInv, NEW t \in Threads, NEW k \in Tickets, NEW e \in Equipment,
         NEW a \in Members \cup {None}, CreateTicket(t, k, e, a)
  PROVE  TenancyInv'
<1> DEFINE c == thread[t].profile.company
           row == [company |-> c, about |-> e, assignee |-> a]
<1>1. c \in Companies \cup {None} /\ c # None /\ thread[t].at = "inside" /\ ticket[k] = NoTicket
  BY DEF TenancyInv, TenancyTypeOK, ThreadStates, Profiles, CreateTicket
<1>2. ticket' = [ticket EXCEPT ![k] = row] /\ UNCHANGED <<member, equipment, context, thread, told>>
  BY DEF CreateTicket
<1>3. equipment[e] = c
  BY <1>1, ScopedRows DEF CreateTicket, OwnEquipment, OfCompany, OwnerOf
<1> HIDE DEF c
<1>4. member' \in [Members -> Profiles] /\ equipment' \in [Equipment -> Companies \cup {None}]
        /\ ticket' \in [Tickets -> TicketRows]
  BY <1>1, <1>2 DEF TenancyInv, TenancyTypeOK, TicketRows
<1>5. \A x \in Equipment \cup Tickets : OwnerOf(x) # None => OwnerOf(x)' = OwnerOf(x)
  BY <1>1, <1>2 DEF OwnerOf, TenancyInv, TenancyTypeOK, NoTicket
<1>6. References'
  BY <1>1, <1>2, <1>3, TenancyAssumption DEF References, TenancyInv, TenancyTypeOK
<1>7. QED
  BY <1>2, <1>4, <1>5, <1>6, RowStep

LEMMA AdminEditsTenancy ==
  ASSUME TenancyInv, NEW u \in Members, NEW profile \in Profiles, AdminEdits(u, profile)
  PROVE  TenancyInv'
<1> USE DEF AdminEdits
<1>1. member' \in [Members -> Profiles] /\ equipment' \in [Equipment -> Companies \cup {None}]
        /\ ticket' \in [Tickets -> TicketRows]
  BY DEF TenancyInv, TenancyTypeOK
<1>2. \A x \in Equipment \cup Tickets : OwnerOf(x) # None => OwnerOf(x)' = OwnerOf(x)
  BY DEF OwnerOf
<1>3. References'
  BY DEF References, TenancyInv
<1>4. QED
  BY <1>1, <1>2, <1>3, RowStep

(* The thread goes idle, with the company it had before the request. *)
LEMMA EndRequestTenancy ==
  ASSUME TenancyInv, NEW t \in Threads, EndRequest(t)
  PROVE  TenancyInv'
<1>1. thread[t].token = None
  BY DEF TenancyInv, ThreadsTidy, Tidy, EndRequest
<1>2. Tidy(IdleThread, None) /\ OfCompany(IdleThread.rows, IdleThread.profile.company)
  BY DEF Tidy, OfCompany, IdleThread
<1>3. thread' = [thread EXCEPT ![t] = IdleThread] /\ context' = [context EXCEPT ![t] = None]
        /\ UNCHANGED <<member, equipment, ticket, told>>
  BY <1>1 DEF EndRequest, ResetContext
<1>4. QED
  BY <1>2, <1>3, IdleType, ThreadStep

LEMMA BeginNightTenancy ==
  ASSUME TenancyInv, NEW t \in Threads, NEW active \in SUBSET Companies, BeginNight(t, active)
  PROVE  TenancyInv'
<1> DEFINE row == [IdleThread EXCEPT !.at = "run", !.ahead = active]
<1>1. row \in ThreadStates /\ Tidy(row, None) /\ OfCompany(row.rows, row.profile.company)
  BY IdleType DEF IdleThread, ThreadStates, Tidy, OfCompany
<1>2. context[t] = None
  BY DEF TenancyInv, ThreadsTidy, Tidy, BeginNight
<1>3. thread' = [thread EXCEPT ![t] = row] /\ context' = [context EXCEPT ![t] = None]
        /\ UNCHANGED <<member, equipment, ticket, told>>
  BY <1>2 DEF BeginNight, TenancyInv, TenancyTypeOK
<1> HIDE DEF row
<1>4. QED
  BY <1>1, <1>3, ThreadStep

LEMMA BeginCompanyTenancy ==
  ASSUME TenancyInv, NEW t \in Threads, NEW c \in Companies, BeginCompany(t, c)
  PROVE  TenancyInv'
<1> DEFINE profile == [Stranger EXCEPT !.company = c]
           row == [thread[t] EXCEPT !.at = "visit", !.ahead = thread[t].ahead \ {c},
                                    !.token = context[t], !.profile = profile]
<1>1. thread[t] \in ThreadStates /\ thread[t].at = "run" /\ Tidy(thread[t], context[t])
  BY DEF TenancyInv, TenancyTypeOK, ThreadsTidy, BeginCompany
<1>2. context[t] = None /\ thread[t].rows = {}
  BY <1>1 DEF Tidy
<1>3. profile \in Profiles /\ profile.company = c /\ c # None
  BY TenancyAssumption DEF Stranger, Profiles
<1>4. thread' = [thread EXCEPT ![t] = row] /\ context' = [context EXCEPT ![t] = c]
        /\ UNCHANGED <<member, equipment, ticket, told>>
  <2> HIDE DEF profile
  <2>1. thread' = [thread EXCEPT ![t].at = "visit", ![t].ahead = @ \ {c},
                                 ![t].token = context[t], ![t].profile = profile]
    BY DEF BeginCompany, profile
  <2>2. QED
    BY <2>1 DEF BeginCompany, TenancyInv, TenancyTypeOK
<1> HIDE DEF profile
<1>5. row \in ThreadStates
  BY <1>1, <1>2, <1>3 DEF ThreadStates
<1>6. Tidy(row, c) /\ OfCompany(row.rows, row.profile.company)
  BY <1>1, <1>2, <1>3 DEF ThreadStates, Tidy, OfCompany
<1> HIDE DEF row
<1>7. QED
  BY <1>4, <1>5, <1>6, ThreadStep

LEMMA EmitDigestTenancy ==
  ASSUME TenancyInv, NEW t \in Threads, NEW late \in SUBSET Tickets, EmitDigest(t, late)
  PROVE  TenancyInv'
<1> DEFINE c == thread[t].profile.company
<1>1. c \in Companies /\ thread[t].at = "visit"
  BY DEF TenancyInv, TenancyTypeOK, ThreadsTidy, Tidy, ThreadStates, Profiles, EmitDigest
<1>2. OfCompany(late, c)
  BY <1>1, ScopedRows DEF EmitDigest, OfCompany
<1> HIDE DEF c
<1>3. told' = [told EXCEPT ![c] = @ \cup late]
        /\ UNCHANGED <<member, equipment, ticket, context, thread>>
  BY DEF EmitDigest, c
<1>4. TenancyTypeOK'
  BY <1>1, <1>3 DEF TenancyInv, TenancyTypeOK
<1>5. ToldTidy'
  BY <1>1, <1>2, <1>3 DEF TenancyInv, TenancyTypeOK, ToldTidy, OfCompany, OwnerOf
<1>6. ThreadsTidy' /\ References'
  BY <1>3 DEF TenancyInv, ThreadsTidy, References, OfCompany, OwnerOf
<1>7. QED
  BY <1>4, <1>5, <1>6 DEF TenancyInv

LEMMA EndCompanyTenancy ==
  ASSUME TenancyInv, NEW t \in Threads, EndCompany(t)
  PROVE  TenancyInv'
<1> DEFINE row == [thread[t] EXCEPT !.at = "run", !.profile = Stranger, !.token = None]
<1>1. thread[t] \in ThreadStates /\ thread[t].token = None /\ thread[t].rows = {}
  BY DEF TenancyInv, TenancyTypeOK, ThreadsTidy, Tidy, EndCompany
<1>2. row \in ThreadStates /\ Tidy(row, None) /\ OfCompany(row.rows, row.profile.company)
  BY <1>1, IdleType DEF ThreadStates, Tidy, OfCompany
<1>3. thread' = [thread EXCEPT ![t] = row] /\ context' = [context EXCEPT ![t] = None]
        /\ UNCHANGED <<member, equipment, ticket, told>>
  BY <1>1 DEF EndCompany, ResetContext, TenancyInv, TenancyTypeOK
<1> HIDE DEF row
<1>4. QED
  BY <1>2, <1>3, ThreadStep

LEMMA EndNightTenancy ==
  ASSUME TenancyInv, NEW t \in Threads, EndNight(t)
  PROVE  TenancyInv'
<1>1. context[t] = None
  BY DEF TenancyInv, ThreadsTidy, Tidy, EndNight
<1>2. Tidy(IdleThread, None) /\ OfCompany(IdleThread.rows, IdleThread.profile.company)
  BY DEF Tidy, OfCompany, IdleThread
<1>3. thread' = [thread EXCEPT ![t] = IdleThread] /\ context' = [context EXCEPT ![t] = None]
        /\ UNCHANGED <<member, equipment, ticket, told>>
  BY <1>1 DEF EndNight, TenancyInv, TenancyTypeOK
<1>4. QED
  BY <1>2, <1>3, IdleType, ThreadStep

LEMMA StepTenancy == TenancyInv /\ [TenancyNext]_tenancyVars => TenancyInv'
<1> SUFFICES ASSUME TenancyInv, [TenancyNext]_tenancyVars PROVE TenancyInv'
  OBVIOUS
<1>1. CASE UNCHANGED tenancyVars
  BY <1>1 DEF tenancyVars, TenancyInv, TenancyTypeOK, ThreadsTidy, ToldTidy, References,
              OfCompany, OwnerOf
<1>2. ASSUME NEW t \in Threads, ReadScoped(t) \/ EndRequest(t) \/ EndCompany(t) \/ EndNight(t)
      PROVE  TenancyInv'
  BY <1>2, ReadScopedTenancy, EndRequestTenancy, EndCompanyTenancy, EndNightTenancy
<1>3. ASSUME NEW t \in Threads, NEW u \in Members \cup {None}, BeginRequest(t, u)
      PROVE  TenancyInv'
  BY <1>3, BeginRequestTenancy
<1>4. ASSUME NEW t \in Threads, NEW roles, Admit(t, roles) PROVE TenancyInv'
  BY <1>4, AdmitTenancy
<1>5. ASSUME NEW t \in Threads, NEW x \in Equipment \cup Tickets, ReadRelated(t, x)
      PROVE  TenancyInv'
  BY <1>5, ReadRelatedTenancy
<1>6. ASSUME NEW t \in Threads, NEW e \in Equipment, CreateEquipment(t, e) \/ Scan(t, e)
      PROVE  TenancyInv'
  BY <1>6, CreateEquipmentTenancy, ScanTenancy
<1>7. ASSUME NEW t \in Threads, NEW k \in Tickets, NEW e \in Equipment,
             NEW a \in Members \cup {None}, CreateTicket(t, k, e, a)
      PROVE  TenancyInv'
  BY <1>7, CreateTicketTenancy
<1>8. ASSUME NEW t \in Threads, NEW active \in SUBSET Companies, BeginNight(t, active)
      PROVE  TenancyInv'
  BY <1>8, BeginNightTenancy
<1>9. ASSUME NEW t \in Threads, NEW c \in Companies, BeginCompany(t, c) PROVE TenancyInv'
  BY <1>9, BeginCompanyTenancy
<1>10. ASSUME NEW t \in Threads, NEW late \in SUBSET Tickets, EmitDigest(t, late)
       PROVE  TenancyInv'
  BY <1>10, EmitDigestTenancy
<1>11. ASSUME NEW u \in Members, NEW profile \in Profiles, AdminEdits(u, profile)
       PROVE  TenancyInv'
  BY <1>11, AdminEditsTenancy
<1>12. QED
  BY <1>1, <1>2, <1>3, <1>4, <1>5, <1>6, <1>7, <1>8, <1>9, <1>10, <1>11 DEF TenancyNext

LEMMA TenancyImplied == TenancyInv => TenantsApart
<1> SUFFICES ASSUME TenancyInv PROVE TenantsApart
  OBVIOUS
<1>1. ASSUME NEW c \in Companies, NEW k \in told[c] PROVE ticket[k].company = c
  <2>1. k \in Tickets /\ OwnerOf(k) = c
    BY DEF TenancyInv, TenancyTypeOK, ToldTidy, OfCompany
  <2>2. QED
    BY <2>1, TenancyAssumption DEF OwnerOf
<1>2. QED
  BY <1>1 DEF TenancyInv, ThreadsTidy, Tidy, OfCompany, References, TenantsApart

(***************************************************************************)
(* Results.                                                                *)
(***************************************************************************)

(* Whatever requests, scans and nightly visits a thread serves one after   *)
(* the other, and however accounts change their company meanwhile, the     *)
(* columns and the context variable keep their types.                      *)
THEOREM TypesHold == TenancySpec => []TenancyTypeOK
<1>1. TenancyInv => TenancyTypeOK
  BY DEF TenancyInv
<1>2. QED
  BY <1>1, InitTenancy, StepTenancy, PTL DEF TenancySpec

(* No page and no digest shows a row of another company, no thread keeps a *)
(* company between two requests, and no foreign key crosses companies      *)
(* (CompanyScopedManager, CurrentCompanyMiddleware, asset_scan,            *)
(* build_asset_record, generate_for_company).                              *)
THEOREM TenantsApartHolds == TenancySpec => []TenantsApart
BY InitTenancy, StepTenancy, TenancyImplied, PTL DEF TenancySpec
=============================================================================

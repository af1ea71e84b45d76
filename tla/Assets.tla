------------------------------- MODULE Assets -------------------------------
(***************************************************************************)
(* Machines and their documents (apps/assets).  A visit is one POST of the *)
(* panel, sent once: the view loads the machine, writes it in a later      *)
(* statement, and writes the audit row in a third, all in autocommit.      *)
(*                                                                         *)
(* Of PostgreSQL: a deferred foreign key is checked at commit, against     *)
(* what is committed by then.                                              *)
(***************************************************************************)
EXTENDS Sql

CONSTANTS
  Machines,     \* primary keys of assets_asset
  Documents,    \* primary keys of assets_assetdocument
  Visits        \* POSTs of the panel, each sent once; bound

ASSUME AssetsAssumption ==
  None \notin Machines /\ None \notin Documents /\ None \notin Visits

VARIABLES
  machine,      \* [Machines -> MachineRows]
  document,     \* [Documents -> DocumentRows]
  cited,        \* machines that an order or a report refers to (PROTECT)
  visit,        \* [Visits -> VisitStates]
  machineAudit  \* [Visits -> MachineAuditRows]: the audit row of a visit

assetsVars == <<machine, document, cited, visit, machineAudit>>

MachineStatuses == {"operativo", "dado_de_baja"}

MachineRows == [state : {"new", "live", "gone"}, status : MachineStatuses, reason : BOOLEAN]

NoMachine == [state |-> "new", status |-> "operativo", reason |-> FALSE]

Bought == [state |-> "live", status |-> "operativo", reason |-> FALSE]

DocumentRows == [state : {"new", "live", "wiped"}, machine : Machines \cup {None}]

NoDocument == [state |-> "new", machine |-> None]

\* An audit row, with the status it says the machine had and has.
MachineAuditRows == [action : {"none", "create", "update", "baja"},
                     was : MachineStatuses, now : MachineStatuses]

NotAudited == [action |-> "none", was |-> "operativo", now |-> "operativo"]

\* «row» is the machine as it was loaded; «seen» its documents at that time; «wiped»
\* what the deletion's transaction has deleted so far.
VisitStates == [at : {"new", "loaded", "asked", "collected", "wiping", "saved", "over"},
                op : {"none", "create", "update", "baja", "delete", "upload"},
                machine : Machines \cup {None}, document : Documents \cup {None},
                row : MachineRows, seen : SUBSET Documents, wiped : SUBSET Documents,
                killed : BOOLEAN]

NewVisit == [at |-> "new", op |-> "none", machine |-> None, document |-> None,
             row |-> NoMachine, seen |-> {}, wiped |-> {}, killed |-> FALSE]

AssetsInit ==
  /\ machine = [m \in Machines |-> NoMachine]
  /\ document = [d \in Documents |-> NoDocument]
  /\ cited = {}
  /\ visit = [v \in Visits |-> NewVisit]
  /\ machineAudit = [v \in Visits |-> NotAudited]

OnFile(m) == machine[m].state = "live"

DocumentsOf(m) == {d \in Documents : document[d].state = "live" /\ document[d].machine = m}

Mine(v) == visit[v].machine

Ends(v) == visit' = [visit EXCEPT ![v].at = "over"]

-----------------------------------------------------------------------------

\* asset_create: one INSERT.
CreateMachine(v, m) ==
  /\ visit[v].at = "new"
  /\ machine[m] = NoMachine
  /\ machine' = [machine EXCEPT ![m] = Bought]
  /\ visit' = [visit EXCEPT ![v] = [NewVisit EXCEPT !.at = "saved", !.op = "create",
                                                    !.machine = m, !.row = Bought]]
  /\ UNCHANGED <<document, cited, machineAudit>>

\* get_object_or_404 of asset_update, asset_baja, asset_delete, asset_document_upload
LoadMachine(v, op, m) ==
  /\ visit[v].at = "new"
  /\ OnFile(m)
  /\ visit' = [visit EXCEPT ![v] = [NewVisit EXCEPT !.at = "loaded", !.op = op, !.machine = m,
                                      !.row = machine[m], !.seen = DocumentsOf(m)]]
  /\ UNCHANGED <<machine, document, cited, machineAudit>>

Stands(v, op, at) == visit[v].op = op /\ visit[v].at = at

\* asset_update saves all columns as it loaded them, but for the posted ones: an
\* UPDATE, or an INSERT if the row has gone.
SaveEdit(v) ==
  /\ Stands(v, "update", "loaded")
  /\ machine' = [machine EXCEPT ![Mine(v)] = visit[v].row]
  /\ visit' = [visit EXCEPT ![v].at = "saved"]
  /\ UNCHANGED <<document, cited, machineAudit>>

\* status and baja_reason, which the form requires
Retired(row) == [row EXCEPT !.status = "dado_de_baja", !.reason = TRUE]

\* asset_baja saves two columns; an UPDATE of no row is an error.
SaveBaja(v) ==
  LET m == Mine(v) IN
  /\ Stands(v, "baja", "loaded")
  /\ IF OnFile(m)
     THEN /\ machine' = [machine EXCEPT ![m] = Retired(machine[m])]
          /\ visit' = [visit EXCEPT ![v].at = "saved"]
     ELSE Ends(v) /\ UNCHANGED machine
  /\ UNCHANGED <<document, cited, machineAudit>>

\* Mutant: before is taken when the row is saved already.
BeforeIsNow(v) == machine[Mine(v)].status

\* audit.snapshot before the form is applied
Before(v) == visit[v].row.status

\* The audit row: its diff is between the row as loaded and as saved.
RecordVisit(v) ==
  /\ visit[v].at = "saved"
  /\ machineAudit' = [machineAudit EXCEPT ![v] =
       [action |-> visit[v].op, was |-> Before(v),
        now |-> IF visit[v].op = "baja" THEN "dado_de_baja" ELSE visit[v].row.status]]
  /\ Ends(v)
  /\ UNCHANGED <<machine, document, cited>>

\* Mutant: nobody asks for documents.
NeverAsked(m) == FALSE

\* Asset.has_documents
HasDocuments(m) == DocumentsOf(m) # {}

\* Asset.delete: AssetHasDocumentsError
AskDocuments(v) ==
  /\ Stands(v, "delete", "loaded")
  /\ visit' = [visit EXCEPT ![v].at = IF HasDocuments(Mine(v)) THEN "over" ELSE "asked"]
  /\ UNCHANGED <<machine, document, cited, machineAudit>>

\* The collector meets an order or a report: ProtectedError.
CollectRelated(v) ==
  /\ Stands(v, "delete", "asked")
  /\ visit' = [visit EXCEPT ![v].at = IF Mine(v) \in cited THEN "over" ELSE "collected"]
  /\ UNCHANGED <<machine, document, cited, machineAudit>>

\* The transaction of the deletion starts with DELETE ... WHERE asset_id, uncommitted.
WipeDocuments(v) ==
  /\ Stands(v, "delete", "collected")
  /\ visit' = [visit EXCEPT ![v].at = "wiping", ![v].wiped = DocumentsOf(Mine(v))]
  /\ UNCHANGED <<machine, document, cited, machineAudit>>

\* Mutant: the database does not look who refers to the row.
NothingRefers(v) == TRUE

\* The foreign keys of documents, orders and reports, at commit.
NothingElseRefers(v) == DocumentsOf(Mine(v)) \subseteq visit[v].wiped /\ Mine(v) \notin cited

CommitDelete(v) ==
  LET m == Mine(v) IN
  /\ Stands(v, "delete", "wiping")
  /\ IF NothingElseRefers(v)
     THEN /\ machine' = [machine EXCEPT ![m] = [NoMachine EXCEPT !.state = "gone"]]
          /\ document' = [d \in Documents |->
               IF d \in visit[v].wiped THEN [document[d] EXCEPT !.state = "wiped"]
                                       ELSE document[d]]
     ELSE UNCHANGED <<machine, document>>
  /\ Ends(v)
  /\ UNCHANGED <<cited, machineAudit>>

\* asset_document_upload inserts; its foreign key needs the machine.
SaveDocument(v, d) ==
  /\ Stands(v, "upload", "loaded")
  /\ document[d] = NoDocument
  /\ document' = IF OnFile(Mine(v))
                 THEN [document EXCEPT ![d] = [state |-> "live", machine |-> Mine(v)]]
                 ELSE document
  /\ Ends(v)
  /\ UNCHANGED <<machine, cited, machineAudit>>

\* An order or a report for the machine (corrective_create, create_request).
Cite(m) ==
  /\ OnFile(m)
  /\ cited' = cited \cup {m}
  /\ UNCHANGED <<machine, document, visit, machineAudit>>

\* The worker dies; an open transaction is rolled back.
CrashVisit(v) ==
  /\ visit[v].at \notin {"new", "over"}
  /\ visit' = [visit EXCEPT ![v].at = "over", ![v].killed = TRUE]
  /\ UNCHANGED <<machine, document, cited, machineAudit>>

-----------------------------------------------------------------------------

AssetsNext ==
  \/ \E v \in Visits :
       \/ SaveEdit(v) \/ SaveBaja(v) \/ RecordVisit(v) \/ AskDocuments(v)
       \/ CollectRelated(v) \/ WipeDocuments(v) \/ CommitDelete(v) \/ CrashVisit(v)
       \/ \E m \in Machines :
            \/ CreateMachine(v, m)
            \/ \E op \in {"update", "baja", "delete", "upload"} : LoadMachine(v, op, m)
       \/ \E d \in Documents : SaveDocument(v, d)
  \/ \E m \in Machines : Cite(m)

AssetsSpec == AssetsInit /\ [][AssetsNext]_assetsVars

-----------------------------------------------------------------------------
(* What the component keeps. *)

\* Values of the columns and of the visits' memory.
AssetsTypeOK ==
  /\ machine \in [Machines -> MachineRows]
  /\ document \in [Documents -> DocumentRows]
  /\ cited \subseteq Machines
  /\ visit \in [Visits -> VisitStates]
  /\ machineAudit \in [Visits -> MachineAuditRows]

\* Documents, orders and reports keep their machine, also those that are filed while
\* it is being deleted (Asset.delete, PROTECT, the foreign keys).
EvidenceKeepsMachine ==
  /\ \A m \in cited : OnFile(m)
  /\ \A d \in Documents : document[d].state = "live" => OnFile(document[d].machine)

\* A document that was there when somebody asked for the deletion is not wiped by it
\* (Asset.has_documents).
SeenDocumentsStay ==
  \A v \in Visits, d \in Documents :
    d \in visit[v].seen /\ visit[v].op = "delete" => d \notin visit[v].wiped

\* A machine that is «dado de baja» has its reason, and a visit whose audit row says so
\* unless the worker stands or died between the two statements; and no other machine has
\* a reason: edits that loaded the row before save all its columns (asset_baja,
\* asset_update).
BajaIsWhole ==
  \A m \in Machines :
    /\ machine[m].status = "dado_de_baja" <=> machine[m].reason
    /\ machine[m].status = "dado_de_baja" =>
         \E v \in Visits :
           /\ visit[v].op = "baja" /\ visit[v].machine = m
           /\ visit[v].row.status = "operativo"
           /\ \/ machineAudit[v].was = "operativo" /\ machineAudit[v].now = "dado_de_baja"
              \/ visit[v].at = "saved"
              \/ visit[v].killed

\* «they only change through the dedicated dar-de-baja action, never a plain edit»
\* (AssetForm): no edit takes a machine's status back.
BajaStands ==
  [][\A m \in Machines :
       machine[m].status = "dado_de_baja" => machine'[m].status = "dado_de_baja"]_assetsVars
=============================================================================

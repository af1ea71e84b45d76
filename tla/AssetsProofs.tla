----------------------------- MODULE AssetsProofs -----------------------------
(***************************************************************************)
(* Proofs about Assets, for any machines, documents and visits.            *)
(***************************************************************************)
EXTENDS Assets, TLAPS

(* Visit v retired m, and says so or is still about to. *)
Attests(v, m) ==
  /\ visit[v].op = "baja" /\ visit[v].machine = m
  /\ visit[v].row.status = "operativo"
  /\ \/ machineAudit[v].was = "operativo" /\ machineAudit[v].now = "dado_de_baja"
     \/ visit[v].at = "saved"
     \/ visit[v].killed

Attested(m) == \E v \in Visits : Attests(v, m)

(* The row a visit loaded was on file, whole, and retired by somebody if it *)
(* was retired. *)
RowTidy(v) ==
  visit[v].at # "new" =>
    /\ visit[v].machine \in Machines
    /\ visit[v].row.state = "live"
    /\ visit[v].row.status = "dado_de_baja" <=> visit[v].row.reason
    /\ visit[v].row.status = "dado_de_baja" => Attested(visit[v].machine)

(* A visit that was killed, or has its audit row, is over; one that is to   *)
(* write the audit row has written a machine. *)
EndTidy(v) ==
  /\ visit[v].killed \/ machineAudit[v].now = "dado_de_baja" => visit[v].at = "over"
  /\ visit[v].at = "saved" => visit[v].op \in {"create", "update", "baja"}

(* The documents that were there when a deletion began are gone before it   *)
(* passes the question for them, and not by its own hand. *)
SeenTidy(v) ==
  /\ \A d \in visit[v].seen :
       document[d].state # "new" /\ document[d].machine = visit[v].machine
  /\ visit[v].at \in {"asked", "collected"} => \A d \in visit[v].seen : document[d].state = "wiped"
  /\ visit[v].at \in {"new", "loaded", "asked", "collected"} => visit[v].wiped = {}
  /\ visit[v].op = "delete" => visit[v].seen \cap visit[v].wiped = {}

VisitTidy(v) == RowTidy(v) /\ EndTidy(v) /\ SeenTidy(v)

VisitsTidy == \A v \in Visits : VisitTidy(v)

AssetsInv == AssetsTypeOK /\ VisitsTidy /\ EvidenceKeepsMachine /\ BajaIsWhole

(* A document keeps its machine, and a wiped one never comes back. *)
DocumentsLast ==
  \A d \in Documents : document[d].state # "new" =>
    /\ document'[d].state # "new" /\ document'[d].machine = document[d].machine
    /\ document[d].state = "wiped" => document'[d].state = "wiped"

LEMMA RowTypes ==
  /\ NoMachine \in MachineRows /\ Bought \in MachineRows
  /\ NoDocument \in DocumentRows /\ NotAudited \in MachineAuditRows
  /\ NewVisit \in VisitStates
BY DEF NoMachine, Bought, MachineRows, MachineStatuses, NoDocument, DocumentRows, NotAudited,
       MachineAuditRows, NewVisit, VisitStates

LEMMA InitAssets == AssetsInit => AssetsInv
<1> SUFFICES ASSUME AssetsInit PROVE AssetsInv
  OBVIOUS
<1> USE DEF AssetsInit
<1>1. AssetsTypeOK
  BY RowTypes DEF AssetsTypeOK
<1>2. VisitsTidy
  BY DEF VisitsTidy, VisitTidy, RowTidy, EndTidy, SeenTidy, NewVisit, NotAudited
<1>3. EvidenceKeepsMachine
  BY DEF EvidenceKeepsMachine, NoDocument
<1>4. BajaIsWhole
  BY DEF BajaIsWhole, NoMachine
<1>5. QED
  BY <1>1, <1>2, <1>3, <1>4 DEF AssetsInv

(* A step of visit v leaves the others as they are, with what they attest. *)
LEMMA AttestedStays ==
  ASSUME NEW v \in Visits,
         \A u \in Visits \ {v} : visit'[u] = visit[u] /\ machineAudit'[u] = machineAudit[u],
         \A m \in Machines : Attests(v, m) => Attests(v, m)',
         NEW m \in Machines, Attested(m)
  PROVE  Attested(m)'
<1>1. PICK u \in Visits : Attests(u, m)
  BY DEF Attested
<1>2. Attests(u, m)'
  <2>1. CASE u = v
    BY <1>1, <2>1
  <2>2. CASE u # v
    BY <1>1, <2>2 DEF Attests
  <2>3. QED
    BY <2>1, <2>2
<1>3. QED
  BY <1>2 DEF Attested

LEMMA VisitStep ==
  ASSUME AssetsInv, NEW v \in Visits, NEW row \in VisitStates, NEW audit \in MachineAuditRows,
         visit' = [visit EXCEPT ![v] = row],
         machineAudit' = [machineAudit EXCEPT ![v] = audit],
         \A m \in Machines : Attests(v, m) => Attests(v, m)',
         machine' \in [Machines -> MachineRows], document' \in [Documents -> DocumentRows],
         cited' \subseteq Machines,
         DocumentsLast, VisitTidy(v)', EvidenceKeepsMachine', BajaIsWhole'
  PROVE  AssetsInv'
<1>1. AssetsTypeOK'
  BY DEF AssetsInv, AssetsTypeOK
<1>2. \A u \in Visits \ {v} : visit'[u] = visit[u] /\ machineAudit'[u] = machineAudit[u]
  BY DEF AssetsInv, AssetsTypeOK
<1>3. ASSUME NEW m \in Machines, Attested(m) PROVE Attested(m)'
  BY <1>2, <1>3, AttestedStays
<1>4. ASSUME NEW u \in Visits \ {v} PROVE VisitTidy(u)'
  <2>1. VisitTidy(u) /\ visit'[u] = visit[u] /\ machineAudit'[u] = machineAudit[u]
    BY <1>2 DEF AssetsInv, VisitsTidy
  <2>2. RowTidy(u)'
    BY <1>3, <2>1 DEF VisitTidy, RowTidy
  <2>3. EndTidy(u)'
    BY <2>1 DEF VisitTidy, EndTidy
  <2>4. SeenTidy(u)'
    <3>1. visit[u].seen \subseteq Documents
      BY DEF AssetsInv, AssetsTypeOK, VisitStates
    <3>2. QED
      BY <2>1, <3>1 DEF VisitTidy, SeenTidy, DocumentsLast
  <2>5. QED
    BY <2>2, <2>3, <2>4 DEF VisitTidy
<1>5. VisitsTidy'
  BY <1>4 DEF VisitsTidy
<1>6. QED
  BY <1>1, <1>5 DEF AssetsInv

LEMMA BajaAttested ==
  BajaIsWhole <=>
    \A m \in Machines : /\ machine[m].status = "dado_de_baja" <=> machine[m].reason
                        /\ machine[m].status = "dado_de_baja" => Attested(m)
BY DEF BajaIsWhole, Attested, Attests

LEMMA BajaAttestedNext ==
  BajaIsWhole' <=>
    \A m \in Machines : /\ machine'[m].status = "dado_de_baja" <=> machine'[m].reason
                        /\ machine'[m].status = "dado_de_baja" => Attested(m)'
BY DEF BajaIsWhole, Attested, Attests

(* A visit moves on, and writes nothing but its own memory and audit row. *)
LEMMA MoveStep ==
  ASSUME AssetsInv, NEW v \in Visits, NEW row \in VisitStates, NEW audit \in MachineAuditRows,
         visit' = [visit EXCEPT ![v] = row],
         machineAudit' = [machineAudit EXCEPT ![v] = audit],
         \A m \in Machines : Attests(v, m) => Attests(v, m)',
         UNCHANGED <<machine, document, cited>>,
         VisitTidy(v)'
  PROVE  AssetsInv'
<1>1. \A u \in Visits \ {v} : visit'[u] = visit[u] /\ machineAudit'[u] = machineAudit[u]
  BY DEF AssetsInv, AssetsTypeOK
<1>2. BajaIsWhole'
  <2>1. ASSUME NEW m \in Machines, machine'[m].status = "dado_de_baja"
        PROVE  Attested(m)'
    BY <1>1, <2>1, AttestedStays, BajaAttested DEF AssetsInv
  <2>2. QED
    BY <2>1, BajaAttested, BajaAttestedNext DEF AssetsInv
<1>3. EvidenceKeepsMachine'
  BY DEF AssetsInv, EvidenceKeepsMachine, OnFile
<1>4. DocumentsLast /\ machine' \in [Machines -> MachineRows] /\ cited' \subseteq Machines
        /\ document' \in [Documents -> DocumentRows]
  BY DEF DocumentsLast, AssetsInv, AssetsTypeOK
<1>5. QED
  BY <1>2, <1>3, <1>4, VisitStep

LEMMA LoadMachineAssets ==
  ASSUME AssetsInv, NEW v \in Visits, NEW op \in {"update", "baja", "delete", "upload"},
         NEW m \in Machines, LoadMachine(v, op, m)
  PROVE  AssetsInv'
<1> DEFINE row == [NewVisit EXCEPT !.at = "loaded", !.op = op, !.machine = m,
                                   !.row = machine[m], !.seen = DocumentsOf(m)]
<1>1. /\ visit[v].at = "new" /\ OnFile(m) /\ visit' = [visit EXCEPT ![v] = row]
      /\ UNCHANGED <<machine, document, cited, machineAudit>>
  BY DEF LoadMachine
<1>2. machine[m] \in MachineRows /\ DocumentsOf(m) \subseteq Documents
  BY DEF AssetsInv, AssetsTypeOK, DocumentsOf
<1>3. /\ row \in VisitStates /\ row.at = "loaded" /\ row.op = op /\ row.machine = m
      /\ row.row = machine[m] /\ row.seen = DocumentsOf(m) /\ row.wiped = {} /\ ~row.killed
  BY <1>2 DEF NewVisit, VisitStates
<1> HIDE DEF row
<1>4. visit'[v] = row /\ machineAudit[v] \in MachineAuditRows
        /\ machineAudit' = [machineAudit EXCEPT ![v] = machineAudit[v]]
  BY <1>1 DEF AssetsInv, AssetsTypeOK
<1>5. machineAudit[v].now # "dado_de_baja" /\ ~visit[v].killed
  BY <1>1 DEF AssetsInv, VisitsTidy, VisitTidy, EndTidy
<1>6. \A n \in Machines : ~Attests(v, n)
  BY <1>1, <1>5 DEF Attests
<1>7. VisitTidy(v)'
  <2>1. machine[m].status = "dado_de_baja" <=> machine[m].reason
    BY BajaAttested DEF AssetsInv
  <2>2. machine[m].status = "dado_de_baja" => Attested(m)'
    <3>1. \A u \in Visits \ {v} : visit'[u] = visit[u] /\ machineAudit'[u] = machineAudit[u]
      BY <1>1 DEF AssetsInv, AssetsTypeOK
    <3>2. QED
      BY <1>6, <3>1, AttestedStays, BajaAttested DEF AssetsInv
  <2>3. RowTidy(v)'
    BY <1>1, <1>3, <1>4, <2>1, <2>2 DEF RowTidy, OnFile
  <2>4. EndTidy(v)'
    BY <1>1, <1>3, <1>4, <1>5 DEF EndTidy
  <2>5. SeenTidy(v)'
    BY <1>1, <1>3, <1>4 DEF SeenTidy, DocumentsOf
  <2>6. QED
    BY <2>3, <2>4, <2>5 DEF VisitTidy
<1>8. QED
  BY <1>1, <1>3, <1>4, <1>6, <1>7, MoveStep

(* A visit stands somewhere else, and all it remembers stays. *)
LEMMA PlaceStep ==
  ASSUME AssetsInv, NEW v \in Visits, visit[v].at \notin {"new", "over"},
         NEW at \in {"asked", "collected", "over"},
         NEW killed \in BOOLEAN,
         visit' = [visit EXCEPT ![v] = [visit[v] EXCEPT !.at = at, !.killed = killed]],
         killed => at = "over",
         \A m \in Machines : Attests(v, m) => killed,
         at \in {"asked", "collected"} =>
           visit[v].wiped = {} /\ \A d \in visit[v].seen : document[d].state = "wiped",
         UNCHANGED <<machine, document, cited, machineAudit>>
  PROVE  AssetsInv'
<1> DEFINE row == [visit[v] EXCEPT !.at = at, !.killed = killed]
<1>1. visit[v] \in VisitStates /\ machineAudit[v] \in MachineAuditRows /\ VisitTidy(v)
  BY DEF AssetsInv, AssetsTypeOK, VisitsTidy
<1>2. /\ row \in VisitStates /\ row.at = at /\ row.killed = killed /\ row.op = visit[v].op
      /\ row.machine = visit[v].machine /\ row.row = visit[v].row /\ row.seen = visit[v].seen
      /\ row.wiped = visit[v].wiped
  BY <1>1 DEF VisitStates
<1>3. visit' = [visit EXCEPT ![v] = row]
        /\ machineAudit' = [machineAudit EXCEPT ![v] = machineAudit[v]]
  BY DEF AssetsInv, AssetsTypeOK
<1> HIDE DEF row
<1>4. visit'[v] = row /\ machineAudit'[v] = machineAudit[v]
  BY <1>3 DEF AssetsInv, AssetsTypeOK
<1>5. \A m \in Machines : Attests(v, m) => Attests(v, m)'
  BY <1>2, <1>4 DEF Attests
<1>6. \A u \in Visits \ {v} : visit'[u] = visit[u] /\ machineAudit'[u] = machineAudit[u]
  BY <1>3 DEF AssetsInv, AssetsTypeOK
<1>7. RowTidy(v)'
  <2>1. visit[v].row.status = "dado_de_baja" => Attested(visit[v].machine)'
    BY <1>1, <1>5, <1>6, AttestedStays DEF VisitTidy, RowTidy
  <2>2. QED
    BY <1>1, <1>2, <1>4, <2>1 DEF VisitTidy, RowTidy
<1>8. EndTidy(v)'
  BY <1>1, <1>2, <1>4 DEF VisitTidy, EndTidy
<1>9. SeenTidy(v)'
  BY <1>1, <1>2, <1>4 DEF VisitTidy, SeenTidy
<1>10. QED
  BY <1>1, <1>2, <1>3, <1>5, <1>7, <1>8, <1>9, MoveStep DEF VisitTidy

LEMMA NotKilled ==
  ASSUME AssetsInv, NEW v \in Visits, visit[v].at # "over"
  PROVE  ~visit[v].killed /\ machineAudit[v].now # "dado_de_baja"
BY DEF AssetsInv, VisitsTidy, VisitTidy, EndTidy

LEMMA AskDocumentsAssets ==
  ASSUME AssetsInv, NEW v \in Visits, AskDocuments(v)
  PROVE  AssetsInv'
<1> DEFINE at == IF HasDocuments(Mine(v)) THEN "over" ELSE "asked"
<1>1. visit[v] \in VisitStates /\ visit[v].op = "delete" /\ visit[v].at = "loaded"
        /\ ~visit[v].killed /\ VisitTidy(v)
  BY NotKilled DEF AskDocuments, Stands, AssetsInv, AssetsTypeOK, VisitsTidy
<1>2. visit' = [visit EXCEPT ![v] = [visit[v] EXCEPT !.at = at, !.killed = visit[v].killed]]
        /\ UNCHANGED <<machine, document, cited, machineAudit>>
  BY <1>1 DEF AskDocuments, AssetsInv, AssetsTypeOK, VisitStates
<1>3. at = "asked" => visit[v].wiped = {} /\ \A d \in visit[v].seen : document[d].state = "wiped"
  <2> SUFFICES ASSUME at = "asked", NEW d \in visit[v].seen PROVE document[d].state = "wiped"
    BY <1>1 DEF VisitTidy, SeenTidy
  <2>1. d \in Documents /\ document[d] \in DocumentRows
    BY <1>1 DEF VisitStates, AssetsInv, AssetsTypeOK
  <2>2. document[d].state # "live"
    BY <1>1, <2>1 DEF HasDocuments, DocumentsOf, Mine, VisitTidy, SeenTidy
  <2>3. QED
    BY <1>1, <2>1, <2>2 DEF DocumentRows, VisitTidy, SeenTidy
<1>4. \A m \in Machines : ~Attests(v, m)
  BY <1>1 DEF Attests
<1>5. visit[v].killed \in BOOLEAN /\ at \in {"asked", "over"}
  BY <1>1 DEF VisitStates
<1> HIDE DEF at
<1>6. QED
  BY <1>1, <1>2, <1>3, <1>4, <1>5, PlaceStep

LEMMA CollectRelatedAssets ==
  ASSUME AssetsInv, NEW v \in Visits, CollectRelated(v)
  PROVE  AssetsInv'
<1> DEFINE at == IF Mine(v) \in cited THEN "over" ELSE "collected"
<1>1. visit[v] \in VisitStates /\ visit[v].op = "delete" /\ visit[v].at = "asked"
        /\ ~visit[v].killed /\ VisitTidy(v)
  BY NotKilled DEF CollectRelated, Stands, AssetsInv, AssetsTypeOK, VisitsTidy
<1>2. visit' = [visit EXCEPT ![v] = [visit[v] EXCEPT !.at = at, !.killed = visit[v].killed]]
        /\ UNCHANGED <<machine, document, cited, machineAudit>>
  BY <1>1 DEF CollectRelated, AssetsInv, AssetsTypeOK, VisitStates
<1>3. visit[v].wiped = {} /\ \A d \in visit[v].seen : document[d].state = "wiped"
  BY <1>1 DEF VisitTidy, SeenTidy
<1>4. \A m \in Machines : ~Attests(v, m)
  BY <1>1 DEF Attests
<1>5. visit[v].killed \in BOOLEAN /\ at \in {"collected", "over"}
  BY <1>1 DEF VisitStates
<1> HIDE DEF at
<1>6. QED
  BY <1>1, <1>2, <1>3, <1>4, <1>5, PlaceStep

LEMMA CrashVisitAssets ==
  ASSUME AssetsInv, NEW v \in Visits, CrashVisit(v)
  PROVE  AssetsInv'
<1>1. visit[v] \in VisitStates /\ visit[v].at \notin {"new", "over"}
  BY DEF CrashVisit, AssetsInv, AssetsTypeOK
<1>2. visit' = [visit EXCEPT ![v] = [visit[v] EXCEPT !.at = "over", !.killed = TRUE]]
        /\ UNCHANGED <<machine, document, cited, machineAudit>>
  BY <1>1 DEF CrashVisit, AssetsInv, AssetsTypeOK, VisitStates
<1>3. QED
  BY <1>1, <1>2, PlaceStep

(* The transaction of a deletion begins: the documents that are there now are *)
(* others than those that were there when it was asked for.                   *)
LEMMA WipeDocumentsAssets ==
  ASSUME AssetsInv, NEW v \in Visits, WipeDocuments(v)
  PROVE  AssetsInv'
<1> DEFINE gone == DocumentsOf(Mine(v))
           row == [visit[v] EXCEPT !.at = "wiping", !.wiped = gone]
<1>1. /\ visit[v] \in VisitStates /\ machineAudit[v] \in MachineAuditRows
      /\ visit[v].op = "delete" /\ visit[v].at = "collected" /\ VisitTidy(v)
      /\ ~visit[v].killed /\ machineAudit[v].now # "dado_de_baja"
  BY NotKilled DEF WipeDocuments, Stands, AssetsInv, AssetsTypeOK, VisitsTidy
<1>2. gone \subseteq Documents /\ gone \cap visit[v].seen = {}
  BY <1>1 DEF DocumentsOf, VisitTidy, SeenTidy
<1>3. visit' = [visit EXCEPT ![v] = row] /\ UNCHANGED <<machine, document, cited, machineAudit>>
        /\ machineAudit' = [machineAudit EXCEPT ![v] = machineAudit[v]]
  BY DEF WipeDocuments, AssetsInv, AssetsTypeOK
<1> HIDE DEF gone
<1>4. /\ row \in VisitStates /\ row.at = "wiping" /\ row.op = "delete" /\ ~row.killed
      /\ row.machine = visit[v].machine /\ row.row = visit[v].row /\ row.seen = visit[v].seen
      /\ row.wiped = gone
  BY <1>1, <1>2 DEF VisitStates
<1> HIDE DEF row
<1>5. visit'[v] = row /\ machineAudit'[v] = machineAudit[v]
        /\ \A u \in Visits \ {v} : visit'[u] = visit[u] /\ machineAudit'[u] = machineAudit[u]
  BY <1>3 DEF AssetsInv, AssetsTypeOK
<1>6. \A m \in Machines : ~Attests(v, m)
  BY <1>1 DEF Attests
<1>7. RowTidy(v)'
  <2>1. visit[v].row.status = "dado_de_baja" => Attested(visit[v].machine)'
    BY <1>1, <1>4, <1>5, <1>6, AttestedStays DEF VisitTidy, RowTidy
  <2>2. QED
    BY <1>1, <1>4, <1>5, <2>1 DEF VisitTidy, RowTidy
<1>8. EndTidy(v)' /\ SeenTidy(v)'
  BY <1>1, <1>2, <1>3, <1>4, <1>5 DEF VisitTidy, EndTidy, SeenTidy
<1>9. QED
  BY <1>1, <1>3, <1>4, <1>6, <1>7, <1>8, MoveStep DEF VisitTidy

(***************************************************************************)
(* Steps that write a machine, a document or an audit row.                 *)
(***************************************************************************)

(* What a visit that keeps its machine, its row and what it attests leaves  *)
(* behind. *)
LEMMA RowStays ==
  ASSUME AssetsInv, NEW v \in Visits, visit[v].at # "new",
         visit'[v].machine = visit[v].machine, visit'[v].row = visit[v].row,
         \A u \in Visits \ {v} : visit'[u] = visit[u] /\ machineAudit'[u] = machineAudit[u],
         \A m \in Machines : Attests(v, m) => Attests(v, m)'
  PROVE  RowTidy(v)'
<1>1. RowTidy(v)
  BY DEF AssetsInv, VisitsTidy, VisitTidy
<1>2. visit[v].row.status = "dado_de_baja" => Attested(visit[v].machine)'
  BY <1>1, AttestedStays DEF RowTidy
<1>3. QED
  BY <1>1, <1>2 DEF RowTidy

LEMMA CreateMachineAssets ==
  ASSUME AssetsInv, NEW v \in Visits, NEW m \in Machines, CreateMachine(v, m)
  PROVE  AssetsInv'
<1> DEFINE row == [NewVisit EXCEPT !.at = "saved", !.op = "create", !.machine = m, !.row = Bought]
<1>1. /\ visit[v].at = "new" /\ machine[m] = NoMachine /\ visit' = [visit EXCEPT ![v] = row]
      /\ machine' = [machine EXCEPT ![m] = Bought] /\ UNCHANGED <<document, cited, machineAudit>>
  BY DEF CreateMachine
<1>2. /\ row \in VisitStates /\ row.at = "saved" /\ row.op = "create" /\ row.machine = m
      /\ row.row = Bought /\ row.seen = {} /\ row.wiped = {} /\ ~row.killed
  BY RowTypes DEF NewVisit, VisitStates
<1> HIDE DEF row
<1>3. machineAudit[v] \in MachineAuditRows
        /\ machineAudit' = [machineAudit EXCEPT ![v] = machineAudit[v]]
        /\ visit'[v] = row /\ machineAudit[v].now # "dado_de_baja"
        /\ machine'[m] = Bought /\ \A n \in Machines \ {m} : machine'[n] = machine[n]
  BY <1>1, NotKilled DEF AssetsInv, AssetsTypeOK
<1>4. \A u \in Visits \ {v} : visit'[u] = visit[u] /\ machineAudit'[u] = machineAudit[u]
  BY <1>1 DEF AssetsInv, AssetsTypeOK
<1>5. \A n \in Machines : Attests(v, n) => Attests(v, n)'
  BY <1>1, <1>3, NotKilled DEF Attests
<1>6. VisitTidy(v)'
  BY <1>1, <1>2, <1>3 DEF VisitTidy, RowTidy, EndTidy, SeenTidy, Bought
<1>7. BajaIsWhole'
  <2>1. ASSUME NEW n \in Machines, machine'[n].status = "dado_de_baja" PROVE Attested(n)'
    <3>1. n # m /\ Attested(n)
      BY <1>3, <2>1, BajaAttested DEF AssetsInv, Bought
    <3>2. QED
      BY <1>4, <1>5, <3>1, AttestedStays
  <2>2. \A n \in Machines : machine'[n].status = "dado_de_baja" <=> machine'[n].reason
    BY <1>3, BajaAttested DEF AssetsInv, Bought
  <2>3. QED
    BY <2>1, <2>2, BajaAttestedNext
<1>8. EvidenceKeepsMachine'
  BY <1>1, <1>3 DEF AssetsInv, AssetsTypeOK, EvidenceKeepsMachine, OnFile, NoMachine, Bought,
                    DocumentRows
<1>9. DocumentsLast /\ machine' \in [Machines -> MachineRows] /\ cited' \subseteq Machines
        /\ document' \in [Documents -> DocumentRows]
  BY <1>1, RowTypes DEF DocumentsLast, AssetsInv, AssetsTypeOK
<1>10. QED
  BY <1>1, <1>2, <1>3, <1>5, <1>6, <1>7, <1>8, <1>9, VisitStep

(* A visit that has written its machine, and stands before its audit row. *)
LEMMA SavedStep ==
  ASSUME AssetsInv, NEW v \in Visits, visit[v].at = "loaded", visit[v].op \in {"update", "baja"},
         NEW written \in MachineRows,
         visit' = [visit EXCEPT ![v].at = "saved"],
         machine' = [machine EXCEPT ![visit[v].machine] = written],
         UNCHANGED <<document, cited, machineAudit>>,
         written.state = "live", written.status = "dado_de_baja" <=> written.reason,
         written.status = "dado_de_baja" =>
           Attested(visit[v].machine) \/ Attests(v, visit[v].machine)'
  PROVE  AssetsInv'
<1> DEFINE m == visit[v].machine
           row == [visit[v] EXCEPT !.at = "saved"]
<1>1. visit[v] \in VisitStates /\ machineAudit[v] \in MachineAuditRows /\ VisitTidy(v)
        /\ ~visit[v].killed /\ machineAudit[v].now # "dado_de_baja"
  BY NotKilled DEF AssetsInv, AssetsTypeOK, VisitsTidy
<1>2. m \in Machines
  BY <1>1 DEF VisitTidy, RowTidy
<1>3. visit' = [visit EXCEPT ![v] = row]
        /\ machineAudit' = [machineAudit EXCEPT ![v] = machineAudit[v]]
  BY DEF AssetsInv, AssetsTypeOK
<1>4. /\ row \in VisitStates /\ row.at = "saved" /\ row.op = visit[v].op /\ ~row.killed
      /\ row.machine = m /\ row.row = visit[v].row /\ row.seen = visit[v].seen
      /\ row.wiped = visit[v].wiped
  BY <1>1 DEF VisitStates
<1> HIDE DEF row
<1>5. visit'[v] = row /\ machineAudit'[v] = machineAudit[v]
        /\ \A u \in Visits \ {v} : visit'[u] = visit[u] /\ machineAudit'[u] = machineAudit[u]
  BY <1>3 DEF AssetsInv, AssetsTypeOK
<1>6. \A n \in Machines : Attests(v, n) => Attests(v, n)'
  BY <1>1 DEF Attests
<1>7. VisitTidy(v)'
  <2>1. RowTidy(v)'
    BY <1>4, <1>5, <1>6, RowStays
  <2>2. EndTidy(v)' /\ SeenTidy(v)'
    BY <1>1, <1>4, <1>5 DEF VisitTidy, EndTidy, SeenTidy
  <2>3. QED
    BY <2>1, <2>2 DEF VisitTidy
<1>8. machine'[m] = written /\ \A n \in Machines \ {m} : machine'[n] = machine[n]
  BY <1>2 DEF AssetsInv, AssetsTypeOK
<1>9. BajaIsWhole'
  <2>1. ASSUME NEW n \in Machines, machine'[n].status = "dado_de_baja" PROVE Attested(n)'
    <3>1. CASE Attested(n)
      BY <1>5, <1>6, <3>1, AttestedStays
    <3>2. CASE ~Attested(n)
      <4>1. n = m /\ Attests(v, n)'
        BY <1>4, <1>5, <1>8, <2>1, <3>2, BajaAttested DEF AssetsInv, Attests
      <4>2. QED
        BY <4>1 DEF Attested
    <3>3. QED
      BY <3>1, <3>2
  <2>2. \A n \in Machines : machine'[n].status = "dado_de_baja" <=> machine'[n].reason
    BY <1>8, BajaAttested DEF AssetsInv
  <2>3. QED
    BY <2>1, <2>2, BajaAttestedNext
<1>10. EvidenceKeepsMachine'
  <2>1. \A n \in Machines : OnFile(n) => OnFile(n)'
    BY <1>8 DEF OnFile
  <2>2. \A d \in Documents : document[d].state = "live" /\ document[d].machine # None
                              => document[d].machine \in Machines
    BY DEF AssetsInv, AssetsTypeOK, DocumentRows
  <2>3. QED
    BY <1>8, <2>1, <2>2 DEF AssetsInv, AssetsTypeOK, EvidenceKeepsMachine, OnFile
<1>11. DocumentsLast /\ machine' \in [Machines -> MachineRows] /\ cited' \subseteq Machines
        /\ document' \in [Documents -> DocumentRows]
  BY <1>2 DEF DocumentsLast, AssetsInv, AssetsTypeOK
<1>12. QED
  BY <1>1, <1>3, <1>4, <1>6, <1>7, <1>9, <1>10, <1>11, VisitStep

LEMMA SaveEditAssets ==
  ASSUME AssetsInv, NEW v \in Visits, SaveEdit(v)
  PROVE  AssetsInv'
<1>1. visit[v] \in VisitStates /\ visit[v].at = "loaded" /\ RowTidy(v) /\ visit[v].op = "update"
  BY DEF SaveEdit, Stands, AssetsInv, AssetsTypeOK, VisitsTidy, VisitTidy
<1>2. visit[v].row \in MachineRows
  BY <1>1 DEF VisitStates
<1>3. /\ visit' = [visit EXCEPT ![v].at = "saved"]
      /\ machine' = [machine EXCEPT ![visit[v].machine] = visit[v].row]
      /\ UNCHANGED <<document, cited, machineAudit>>
  BY DEF SaveEdit, Mine
<1>4. QED
  BY <1>1, <1>2, <1>3, SavedStep DEF RowTidy

LEMMA SaveBajaAssets ==
  ASSUME AssetsInv, NEW v \in Visits, SaveBaja(v)
  PROVE  AssetsInv'
<1> DEFINE m == visit[v].machine
           written == Retired(machine[m])
<1>1. /\ visit[v] \in VisitStates /\ visit[v].op = "baja" /\ visit[v].at = "loaded" /\ RowTidy(v)
      /\ ~visit[v].killed /\ machineAudit[v].now # "dado_de_baja"
  BY NotKilled DEF SaveBaja, Stands, AssetsInv, AssetsTypeOK, VisitsTidy, VisitTidy
<1>2. m \in Machines /\ machine[m] \in MachineRows
  BY <1>1 DEF RowTidy, AssetsInv, AssetsTypeOK
<1>3. CASE OnFile(m)
  <2>1. /\ visit' = [visit EXCEPT ![v].at = "saved"]
        /\ machine' = [machine EXCEPT ![m] = written]
        /\ UNCHANGED <<document, cited, machineAudit>>
    BY <1>3 DEF SaveBaja, Mine
  <2>2. /\ written \in MachineRows /\ written.state = "live"
        /\ written.status = "dado_de_baja" /\ written.reason
    BY <1>2, <1>3 DEF Retired, MachineRows, MachineStatuses, OnFile
  <2> HIDE DEF written
  <2>3. Attested(m) \/ Attests(v, m)'
    <3>1. visit[v].row.status \in {"operativo", "dado_de_baja"}
      BY <1>1 DEF VisitStates, MachineRows, MachineStatuses
    <3>2. CASE visit[v].row.status = "dado_de_baja"
      BY <1>1, <3>2 DEF RowTidy
    <3>3. CASE visit[v].row.status = "operativo"
      <4>1. visit'[v].at = "saved" /\ visit'[v].op = "baja" /\ visit'[v].machine = m
              /\ visit'[v].row = visit[v].row
        BY <1>1, <2>1 DEF AssetsInv, AssetsTypeOK, VisitStates
      <4>2. QED
        BY <3>3, <4>1 DEF Attests
    <3>4. QED
      BY <3>1, <3>2, <3>3
  <2>4. QED
    BY <1>1, <2>1, <2>2, <2>3, SavedStep
<1>4. CASE ~OnFile(m)
  <2>1. visit' = [visit EXCEPT ![v] = [visit[v] EXCEPT !.at = "over", !.killed = visit[v].killed]]
          /\ UNCHANGED <<machine, document, cited, machineAudit>>
    BY <1>1, <1>4 DEF SaveBaja, Mine, Ends, AssetsInv, AssetsTypeOK, VisitStates
  <2>2. visit[v].killed \in BOOLEAN /\ \A n \in Machines : ~Attests(v, n)
    BY <1>1 DEF VisitStates, Attests
  <2>3. QED
    BY <1>1, <2>1, <2>2, PlaceStep
<1>5. QED
  BY <1>3, <1>4

(* The audit row of a visit says what the visit did: one that retired a machine *)
(* attests it from here by its row. *)
LEMMA RecordVisitAssets ==
  ASSUME AssetsInv, NEW v \in Visits, RecordVisit(v)
  PROVE  AssetsInv'
<1> DEFINE now == IF visit[v].op = "baja" THEN "dado_de_baja" ELSE visit[v].row.status
           audit == [action |-> visit[v].op, was |-> Before(v), now |-> now]
           row == [visit[v] EXCEPT !.at = "over"]
<1>1. /\ visit[v] \in VisitStates /\ visit[v].at = "saved" /\ VisitTidy(v)
      /\ visit[v].op \in {"create", "update", "baja"}
      /\ ~visit[v].killed /\ machineAudit[v].now # "dado_de_baja"
  BY NotKilled DEF RecordVisit, AssetsInv, AssetsTypeOK, VisitsTidy, VisitTidy, EndTidy
<1>2. visit' = [visit EXCEPT ![v] = row] /\ machineAudit' = [machineAudit EXCEPT ![v] = audit]
        /\ UNCHANGED <<machine, document, cited>>
  BY DEF RecordVisit, Ends
<1>3. /\ audit \in MachineAuditRows /\ audit.was = visit[v].row.status
      /\ visit[v].op = "baja" => audit.now = "dado_de_baja"
  <2>1. visit[v].row.status \in MachineStatuses
    BY <1>1 DEF VisitStates, MachineRows
  <2>2. QED
    BY <1>1, <2>1 DEF Before, MachineAuditRows, MachineStatuses
<1>4. /\ row \in VisitStates /\ row.at = "over" /\ row.op = visit[v].op
      /\ row.machine = visit[v].machine /\ row.row = visit[v].row /\ row.seen = visit[v].seen
      /\ row.wiped = visit[v].wiped
  BY <1>1 DEF VisitStates
<1> HIDE DEF row, audit
<1>5. visit'[v] = row /\ machineAudit'[v] = audit
  BY <1>2 DEF AssetsInv, AssetsTypeOK
<1>6. \A u \in Visits \ {v} : visit'[u] = visit[u] /\ machineAudit'[u] = machineAudit[u]
  BY <1>2 DEF AssetsInv, AssetsTypeOK
<1>7. \A m \in Machines : Attests(v, m) => Attests(v, m)'
  BY <1>3, <1>4, <1>5 DEF Attests
<1>8. RowTidy(v)'
  BY <1>1, <1>4, <1>5, <1>6, <1>7, RowStays
<1>9. EndTidy(v)' /\ SeenTidy(v)'
  BY <1>1, <1>2, <1>4, <1>5 DEF VisitTidy, EndTidy, SeenTidy
<1>10. QED
  BY <1>2, <1>3, <1>4, <1>7, <1>8, <1>9, MoveStep DEF VisitTidy

(* A visit ends, and its transaction has written documents or deleted its machine. *)
LEMMA EndingStep ==
  ASSUME AssetsInv, NEW v \in Visits, visit[v].at \notin {"new", "over"},
         visit[v].op \in {"upload", "delete"},
         visit' = [visit EXCEPT ![v].at = "over"],
         machine' \in [Machines -> MachineRows], document' \in [Documents -> DocumentRows],
         UNCHANGED <<cited, machineAudit>>,
         \A m \in Machines : \/ machine'[m] = machine[m]
                             \/ machine'[m].status = "operativo" /\ ~machine'[m].reason,
         DocumentsLast, EvidenceKeepsMachine'
  PROVE  AssetsInv'
<1> DEFINE row == [visit[v] EXCEPT !.at = "over"]
<1>1. visit[v] \in VisitStates /\ machineAudit[v] \in MachineAuditRows /\ VisitTidy(v)
  BY DEF AssetsInv, AssetsTypeOK, VisitsTidy
<1>2. visit' = [visit EXCEPT ![v] = row]
        /\ machineAudit' = [machineAudit EXCEPT ![v] = machineAudit[v]]
  BY DEF AssetsInv, AssetsTypeOK
<1>3. /\ row \in VisitStates /\ row.at = "over" /\ row.op = visit[v].op
      /\ row.machine = visit[v].machine /\ row.row = visit[v].row /\ row.seen = visit[v].seen
      /\ row.wiped = visit[v].wiped
  BY <1>1 DEF VisitStates
<1> HIDE DEF row
<1>4. visit'[v] = row /\ machineAudit'[v] = machineAudit[v]
  BY <1>2 DEF AssetsInv, AssetsTypeOK
<1>5. \A u \in Visits \ {v} : visit'[u] = visit[u] /\ machineAudit'[u] = machineAudit[u]
  BY <1>2 DEF AssetsInv, AssetsTypeOK
<1>6. \A m \in Machines : Attests(v, m) => Attests(v, m)'
  BY DEF Attests
<1>7. RowTidy(v)'
  BY <1>3, <1>4, <1>5, <1>6, RowStays
<1>8. SeenTidy(v)'
  <2>1. visit[v].seen \subseteq Documents
    BY <1>1 DEF VisitStates
  <2>2. QED
    BY <1>1, <1>3, <1>4, <2>1 DEF VisitTidy, SeenTidy, DocumentsLast
<1>9. EndTidy(v)'
  BY <1>3, <1>4 DEF EndTidy
<1>10. BajaIsWhole'
  <2>1. ASSUME NEW m \in Machines, machine'[m].status = "dado_de_baja" PROVE Attested(m)'
    <3>1. machine'[m] = machine[m] /\ Attested(m)
      BY <2>1, BajaAttested DEF AssetsInv
    <3>2. QED
      BY <1>5, <1>6, <3>1, AttestedStays
  <2>2. \A m \in Machines : machine'[m].status = "dado_de_baja" <=> machine'[m].reason
    BY BajaAttested DEF AssetsInv
  <2>3. QED
    BY <2>1, <2>2, BajaAttestedNext
<1>11. cited' \subseteq Machines
  BY DEF AssetsInv, AssetsTypeOK
<1>12. QED
  BY <1>1, <1>2, <1>3, <1>6, <1>7, <1>8, <1>9, <1>10, <1>11, VisitStep DEF VisitTidy

LEMMA SaveDocumentAssets ==
  ASSUME AssetsInv, NEW v \in Visits, NEW d \in Documents, SaveDocument(v, d)
  PROVE  AssetsInv'
<1>1. /\ visit[v].at = "loaded" /\ visit[v].op = "upload" /\ visit[v].machine \in Machines
      /\ document[d].state = "new"
  BY DEF SaveDocument, Stands, NoDocument, AssetsInv, VisitsTidy, VisitTidy, RowTidy
<1>2. /\ visit' = [visit EXCEPT ![v].at = "over"] /\ UNCHANGED <<machine, cited, machineAudit>>
      /\ \/ UNCHANGED document
         \/ /\ OnFile(visit[v].machine)
            /\ document' = [document EXCEPT ![d] = [state |-> "live", machine |-> visit[v].machine]]
  BY DEF SaveDocument, Ends, Mine
<1>3. /\ machine' \in [Machines -> MachineRows] /\ document' \in [Documents -> DocumentRows]
      /\ DocumentsLast
  BY <1>1, <1>2 DEF AssetsInv, AssetsTypeOK, DocumentRows, DocumentsLast
<1>4. EvidenceKeepsMachine'
  BY <1>1, <1>2 DEF AssetsInv, AssetsTypeOK, EvidenceKeepsMachine, OnFile
<1>5. QED
  BY <1>1, <1>2, <1>3, <1>4, EndingStep

LEMMA CommitDeleteAssets ==
  ASSUME AssetsInv, NEW v \in Visits, CommitDelete(v)
  PROVE  AssetsInv'
<1> DEFINE m == visit[v].machine
           gone == [NoMachine EXCEPT !.state = "gone"]
<1>1. /\ visit[v].at = "wiping" /\ visit[v].op = "delete" /\ m \in Machines
      /\ visit' = [visit EXCEPT ![v].at = "over"] /\ UNCHANGED <<cited, machineAudit>>
  BY DEF CommitDelete, Stands, Ends, AssetsInv, VisitsTidy, VisitTidy, RowTidy
<1>2. CASE NothingElseRefers(v)
  <2>1. /\ machine' = [machine EXCEPT ![m] = gone]
        /\ document' = [d \in Documents |->
             IF d \in visit[v].wiped THEN [document[d] EXCEPT !.state = "wiped"] ELSE document[d]]
        /\ DocumentsOf(m) \subseteq visit[v].wiped /\ m \notin cited
    BY <1>2 DEF CommitDelete, NothingElseRefers, Mine
  <2>2. gone \in MachineRows /\ gone.status = "operativo" /\ ~gone.reason
    BY DEF NoMachine, MachineRows, MachineStatuses
  <2> HIDE DEF gone
  <2>3. \A d \in Documents : document[d] \in DocumentRows
    BY DEF AssetsInv, AssetsTypeOK
  <2>4. \A d \in Documents :
          /\ document'[d].machine = document[d].machine
          /\ document'[d].state = IF d \in visit[v].wiped THEN "wiped" ELSE document[d].state
          /\ document'[d] \in DocumentRows
    BY <2>1, <2>3 DEF DocumentRows
  <2>5. /\ machine' \in [Machines -> MachineRows] /\ document' \in [Documents -> DocumentRows]
        /\ DocumentsLast
        /\ machine'[m] = gone /\ \A n \in Machines \ {m} : machine'[n] = machine[n]
    BY <1>1, <2>1, <2>2, <2>4 DEF AssetsInv, AssetsTypeOK, DocumentsLast
  <2>6. EvidenceKeepsMachine'
    <3>1. ASSUME NEW n \in cited PROVE OnFile(n)'
      BY <1>1, <2>1, <2>5, <3>1 DEF AssetsInv, AssetsTypeOK, EvidenceKeepsMachine, OnFile
    <3>2. ASSUME NEW d \in Documents, document'[d].state = "live"
          PROVE  machine'[document'[d].machine].state = "live"
      <4>1. document[d].state = "live" /\ d \notin visit[v].wiped
              /\ document'[d].machine = document[d].machine
        BY <2>4, <3>2
      <4>2. document[d].machine # m
        BY <2>1, <4>1 DEF DocumentsOf
      <4>3. machine[document[d].machine].state = "live"
        BY <4>1 DEF AssetsInv, EvidenceKeepsMachine, OnFile
      <4>4. QED
        BY <2>1, <4>1, <4>2, <4>3 DEF AssetsInv, AssetsTypeOK
    <3>3. QED
      BY <1>1, <3>1, <3>2 DEF EvidenceKeepsMachine, OnFile
  <2>7. QED
    BY <1>1, <2>2, <2>5, <2>6, EndingStep
<1>3. CASE ~NothingElseRefers(v)
  <2>1. UNCHANGED <<machine, document>>
    BY <1>3 DEF CommitDelete
  <2>2. /\ machine' \in [Machines -> MachineRows] /\ document' \in [Documents -> DocumentRows]
        /\ DocumentsLast /\ EvidenceKeepsMachine'
    BY <1>1, <2>1 DEF AssetsInv, AssetsTypeOK, DocumentsLast, EvidenceKeepsMachine, OnFile
  <2>3. QED
    BY <1>1, <2>1, <2>2, EndingStep
<1>4. QED
  BY <1>2, <1>3

LEMMA CiteAssets ==
  ASSUME AssetsInv, NEW m \in Machines, Cite(m)
  PROVE  AssetsInv'
<1>1. OnFile(m) /\ cited' = cited \cup {m} /\ UNCHANGED <<machine, document, visit, machineAudit>>
  BY DEF Cite
<1>2. AssetsTypeOK'
  BY <1>1 DEF AssetsInv, AssetsTypeOK
<1>3. VisitsTidy'
  BY <1>1 DEF AssetsInv, VisitsTidy, VisitTidy, RowTidy, EndTidy, SeenTidy, Attested, Attests
<1>4. EvidenceKeepsMachine' /\ BajaIsWhole'
  BY <1>1 DEF AssetsInv, EvidenceKeepsMachine, OnFile, BajaIsWhole
<1>5. QED
  BY <1>2, <1>3, <1>4 DEF AssetsInv

LEMMA StepAssets == AssetsInv /\ [AssetsNext]_assetsVars => AssetsInv'
<1> SUFFICES ASSUME AssetsInv, [AssetsNext]_assetsVars PROVE AssetsInv'
  OBVIOUS
<1>1. CASE UNCHANGED assetsVars
  BY <1>1 DEF assetsVars, AssetsInv, AssetsTypeOK, VisitsTidy, VisitTidy, RowTidy, EndTidy, SeenTidy,
              Attested, Attests, EvidenceKeepsMachine, OnFile, BajaIsWhole
<1>2. ASSUME NEW v \in Visits,
             \/ SaveEdit(v) \/ SaveBaja(v) \/ RecordVisit(v) \/ AskDocuments(v)
             \/ CollectRelated(v) \/ WipeDocuments(v) \/ CommitDelete(v) \/ CrashVisit(v)
      PROVE  AssetsInv'
  BY <1>2, SaveEditAssets, SaveBajaAssets, RecordVisitAssets, AskDocumentsAssets,
     CollectRelatedAssets, WipeDocumentsAssets, CommitDeleteAssets, CrashVisitAssets
<1>3. ASSUME NEW v \in Visits, NEW m \in Machines, CreateMachine(v, m) PROVE AssetsInv'
  BY <1>3, CreateMachineAssets
<1>4. ASSUME NEW v \in Visits, NEW m \in Machines,
             NEW op \in {"update", "baja", "delete", "upload"}, LoadMachine(v, op, m)
      PROVE  AssetsInv'
  BY <1>4, LoadMachineAssets
<1>5. ASSUME NEW v \in Visits, NEW d \in Documents, SaveDocument(v, d) PROVE AssetsInv'
  BY <1>5, SaveDocumentAssets
<1>6. ASSUME NEW m \in Machines, Cite(m) PROVE AssetsInv'
  BY <1>6, CiteAssets
<1>7. QED
  BY <1>1, <1>2, <1>3, <1>4, <1>5, <1>6 DEF AssetsNext

(***************************************************************************)
(* Results.                                                                *)
(***************************************************************************)

(* The columns, and what a visit remembers, keep their types.              *)
THEOREM TypesHold == AssetsSpec => []AssetsTypeOK
<1>1. AssetsInv => AssetsTypeOK
  BY DEF AssetsInv
<1>2. QED
  BY <1>1, InitAssets, StepAssets, PTL DEF AssetsSpec

(* Documents, orders and reports keep their machine in every race with its *)
(* deletion: what was not there when it looked for them is found by the    *)
(* foreign keys (Asset.delete, PROTECT).                                   *)
THEOREM EvidenceHolds == AssetsSpec => []EvidenceKeepsMachine
<1>1. AssetsInv => EvidenceKeepsMachine
  BY DEF AssetsInv
<1>2. QED
  BY <1>1, InitAssets, StepAssets, PTL DEF AssetsSpec

(* No deletion wipes a document that was there when it was asked for       *)
(* (Asset.has_documents).                                                  *)
THEOREM SeenDocumentsHold == AssetsSpec => []SeenDocumentsStay
<1>1. AssetsInv => SeenDocumentsStay
  BY DEF AssetsInv, VisitsTidy, VisitTidy, SeenTidy, SeenDocumentsStay
<1>2. QED
  BY <1>1, InitAssets, StepAssets, PTL DEF AssetsSpec

(* A machine that is «dado de baja» has its reason and somebody whose      *)
(* audit row says so, or a worker that stands or died before that row      *)
(* (asset_baja, asset_update).                                             *)
THEOREM BajaHolds == AssetsSpec => []BajaIsWhole
<1>1. AssetsInv => BajaIsWhole
  BY DEF AssetsInv
<1>2. QED
  BY <1>1, InitAssets, StepAssets, PTL DEF AssetsSpec
=============================================================================

---------------------------- MODULE RequestsProofs ----------------------------
(***************************************************************************)
(* Proofs about Requests, for any reports, people and worker processes.    *)
(***************************************************************************)
EXTENDS Requests, SequenceTheorems, TLAPS

(* What a desk knows: a report it files is nobody else's, one it decides is *)
(* there, and one it has locked is still to be decided. *)
DeskTidy(d) ==
  LET r == desk[d].report IN
  /\ desk[d].at # "idle" => r \in Reports /\ desk[d].by \in People
  /\ desk[d].at = "file" =>
       report[r] = NoReport /\ \A e \in Desks \ {d} : desk[e].report # r
  /\ desk[d].at \in {"asked", "locked"} =>
       desk[d].op \in {"convert", "reject"} /\ report[r] # NoReport
  /\ desk[d].at = "locked" => reportLock[r] = d /\ report[r].status = "nueva"

DesksTidy == \A d \in Desks : DeskTidy(d)

LocksTidy ==
  \A r \in Reports : reportLock[r] # None =>
    desk[reportLock[r]].at = "locked" /\ desk[reportLock[r]].report = r

RowsTidy ==
  \A r \in Reports :
    /\ report[r].status = "none" => report[r] = NoReport
    /\ report[r].status = "convertida" <=> r \in opened

(* The desk whose open transaction an event is kept for. *)
Emitter(k, r, d) ==
  /\ desk[d].report = r
  /\ desk[d].at = (IF k = "solicitud_creada" THEN "file" ELSE "locked")
  /\ k = "ot_creada" => desk[d].op = "convert"

(* What an event tells of is committed. *)
Told(k, r) == IF k = "solicitud_creada" THEN report[r] # NoReport ELSE r \in opened

(* An event is kept for its transaction, and then for one attempt. *)
EventTidy(k, r) ==
  LET e == event[k][r] IN
  /\ e.at \in {"none", "over"} => e.from = None
  /\ e.at = "held" => e.from \in Desks /\ Emitter(k, r, e.from)
  /\ e.at \in {"queued", "posting", "over"} => Told(k, r)
  /\ heard[k][r] = 0 \/ (heard[k][r] = 1 /\ e.at = "over")

EventsTidy == \A k \in Kinds, r \in Reports : EventTidy(k, r)

RequestsInv ==
  /\ RequestsTypeOK /\ DesksTidy /\ LocksTidy /\ RowsTidy /\ TrailTellsTheReport /\ EventsTidy

LEMMA RowTypes ==
  /\ NoReport \in ReportRows /\ IdleDesk \in DeskStates /\ NoEvent \in Events
  /\ NoReport.status = "none" /\ IdleDesk.at = "idle" /\ IdleDesk.report = None
BY DEF NoReport, ReportRows, ReportStatuses, IdleDesk, DeskStates, NoEvent, Events

LEMMA AppendToOne ==
  ASSUME NEW S, NEW a \in S, NEW b \in S PROVE Append(<<a>>, b) = <<a, b>>
<1>1. <<a>> \in Seq(S) /\ <<a, b>> \in Seq(S)
  OBVIOUS
<1> DEFINE t == Append(<<a>>, b)
<1>2. t \in Seq(S) /\ Len(t) = 2 /\ t[1] = a /\ t[2] = b
  BY <1>1, AppendProperties
<1> HIDE DEF t
<1>3. \A i \in 1 .. Len(t) : t[i] = <<a, b>>[i]
  BY <1>2
<1>4. Len(t) = Len(<<a, b>>)
  BY <1>2
<1>5. t = <<a, b>>
  BY <1>1, <1>2, <1>3, <1>4, SeqEqual
<1>6. QED
  BY <1>5 DEF t

LEMMA InitRequests == RequestsInit => RequestsInv
<1> SUFFICES ASSUME RequestsInit PROVE RequestsInv
  OBVIOUS
<1> USE RowTypes DEF RequestsInit
<1>1. RequestsTypeOK
  BY DEF RequestsTypeOK
<1>2. DesksTidy /\ LocksTidy /\ RowsTidy
  BY DEF DesksTidy, DeskTidy, LocksTidy, RowsTidy
<1>3. TrailTellsTheReport
  BY DEF TrailTellsTheReport
<1>4. EventsTidy
  BY DEF EventsTidy, EventTidy, NoEvent
<1>5. QED
  BY <1>1, <1>2, <1>3, <1>4 DEF RequestsInv

(* A desk moves on while its report and its lock stay as they are. *)
LEMMA DeskStep ==
  ASSUME RequestsInv, NEW d \in Desks, NEW state \in DeskStates,
         desk' = [desk EXCEPT ![d] = state],
         \A e \in Desks \ {d} : desk[e].at = "file" => state.report # desk[e].report,
         desk[d].at # "locked", state.at \in {"idle", "asked", "file"},
         DeskTidy(d)',
         UNCHANGED <<report, reportLock>>
  PROVE  DesksTidy' /\ LocksTidy'
<1>1. desk'[d] = state /\ \A e \in Desks \ {d} : desk'[e] = desk[e]
  BY DEF RequestsInv, RequestsTypeOK
<1>2. ASSUME NEW e \in Desks \ {d} PROVE DeskTidy(e)'
  BY <1>1 DEF RequestsInv, DesksTidy, DeskTidy
<1>3. LocksTidy'
  <2>1. \A r \in Reports : reportLock[r] # None => reportLock[r] \in Desks
    BY DEF RequestsInv, RequestsTypeOK
  <2>2. QED
    BY <1>1, <2>1 DEF RequestsInv, LocksTidy
<1>4. QED
  BY <1>2, <1>3 DEF DesksTidy

LEMMA BeginReportRequests ==
  ASSUME RequestsInv, NEW d \in Desks, NEW r \in Reports, NEW p \in People, BeginReport(d, r, p)
  PROVE  RequestsInv'
<1> DEFINE state == [at |-> "file", op |-> "file", report |-> r, by |-> p]
<1>1. /\ desk[d] = IdleDesk /\ report[r] = NoReport /\ \A e \in Desks : desk[e].report # r
      /\ desk' = [desk EXCEPT ![d] = state]
      /\ event' = [event EXCEPT !["solicitud_creada"][r] = [at |-> "held", from |-> d]]
      /\ UNCHANGED <<report, opened, trail, reportLock, heard>>
  BY DEF BeginReport, Emit
<1>2. state \in DeskStates /\ state.at = "file" /\ state.report = r /\ state.by = p
  BY DEF DeskStates
<1> HIDE DEF state
<1>3. desk'[d] = state /\ \A e \in Desks \ {d} : desk'[e] = desk[e]
  BY <1>1 DEF RequestsInv, RequestsTypeOK
<1>4. DesksTidy' /\ LocksTidy'
  <2>1. DeskTidy(d)'
    BY <1>1, <1>2, <1>3 DEF DeskTidy
  <2>2. QED
    BY <1>1, <1>2, <2>1, RowTypes, DeskStep
<1>5. RequestsTypeOK'
  <2>1. [at |-> "held", from |-> d] \in Events
    BY DEF Events
  <2>2. event' \in [Kinds -> [Reports -> Events]]
    BY <1>1, <2>1 DEF RequestsInv, RequestsTypeOK
  <2>3. QED
    BY <1>1, <1>2, <2>2 DEF RequestsInv, RequestsTypeOK
<1>6. RowsTidy' /\ TrailTellsTheReport'
  BY <1>1 DEF RequestsInv, RowsTidy, TrailTellsTheReport
<1>7. EventsTidy'
  <2>1. ASSUME NEW k \in Kinds, NEW s \in Reports PROVE EventTidy(k, s)'
    <3>1. EventTidy(k, s) /\ Told(k, s)' = Told(k, s)
      BY <1>1 DEF RequestsInv, EventsTidy, Told
    <3>2. CASE k = "solicitud_creada" /\ s = r
      <4>1. event[k][s].at = "none"
        BY <1>1, <3>1, <3>2 DEF EventTidy, Told, Emitter, RequestsInv, RequestsTypeOK, Events
      <4>2. event'[k][s] = [at |-> "held", from |-> d]
        BY <1>1, <3>2 DEF RequestsInv, RequestsTypeOK
      <4>3. QED
        BY <1>1, <1>2, <1>3, <3>1, <3>2, <4>1, <4>2 DEF EventTidy, Emitter
    <3>3. CASE ~(k = "solicitud_creada" /\ s = r)
      <4>1. event'[k][s] = event[k][s]
        BY <1>1, <3>3 DEF RequestsInv, RequestsTypeOK
      <4>2. event[k][s].at = "held" => event[k][s].from # d
        BY <1>1, <3>1, RowTypes DEF EventTidy, Emitter
      <4>3. QED
        BY <1>1, <1>3, <3>1, <4>1, <4>2 DEF EventTidy, Emitter
    <3>4. QED
      BY <3>2, <3>3
  <2>2. QED
    BY <2>1 DEF EventsTidy
<1>8. QED
  BY <1>4, <1>5, <1>6, <1>7 DEF RequestsInv

(* A desk without an open transaction moves on, and nothing is written. *)
LEMMA QuietStep ==
  ASSUME RequestsInv, NEW d \in Desks, NEW state \in DeskStates,
         desk' = [desk EXCEPT ![d] = state],
         desk[d].at \notin {"file", "locked"}, state.at \in {"idle", "asked"},
         \A e \in Desks \ {d} : desk[e].at = "file" => state.report # desk[e].report,
         DeskTidy(d)',
         UNCHANGED <<report, opened, trail, reportLock, event, heard>>
  PROVE  RequestsInv'
<1>1. desk'[d] = state /\ \A e \in Desks \ {d} : desk'[e] = desk[e]
  BY DEF RequestsInv, RequestsTypeOK
<1>2. RequestsTypeOK'
  BY DEF RequestsInv, RequestsTypeOK
<1>3. DesksTidy' /\ LocksTidy'
  BY DeskStep
<1>4. RowsTidy' /\ TrailTellsTheReport'
  BY DEF RequestsInv, RowsTidy, TrailTellsTheReport
<1>5. ASSUME NEW k \in Kinds, NEW r \in Reports PROVE EventTidy(k, r)'
  <2>1. EventTidy(k, r)
    BY DEF RequestsInv, EventsTidy
  <2>2. event[k][r].at = "held" => event[k][r].from # d
    BY <2>1 DEF EventTidy, Emitter
  <2>3. QED
    BY <1>1, <2>1, <2>2 DEF EventTidy, Emitter, Told
<1>6. QED
  BY <1>2, <1>3, <1>4, <1>5 DEF RequestsInv, EventsTidy

LEMMA BeginDecisionRequests ==
  ASSUME RequestsInv, NEW d \in Desks, NEW r \in Reports, NEW p \in People,
         NEW op \in {"convert", "reject"}, BeginDecision(d, r, p, op)
  PROVE  RequestsInv'
<1> DEFINE state == [at |-> "asked", op |-> op, report |-> r, by |-> p]
<1>1. /\ desk[d] = IdleDesk /\ report[r] # NoReport /\ desk' = [desk EXCEPT ![d] = state]
      /\ UNCHANGED <<report, opened, trail, reportLock, event, heard>>
  BY DEF BeginDecision
<1>2. /\ state \in DeskStates /\ state.at = "asked" /\ state.report = r /\ state.by = p
      /\ state.op = op
  BY DEF DeskStates
<1> HIDE DEF state
<1>3. desk'[d] = state
  BY <1>1 DEF RequestsInv, RequestsTypeOK
<1>4. DeskTidy(d)'
  BY <1>1, <1>2, <1>3 DEF DeskTidy
<1>5. \A e \in Desks \ {d} : desk[e].at = "file" => state.report # desk[e].report
  BY <1>1, <1>2 DEF RequestsInv, DesksTidy, DeskTidy
<1>6. QED
  BY <1>1, <1>2, <1>4, <1>5, RowTypes, QuietStep

LEMMA DeclineDecisionRequests ==
  ASSUME RequestsInv, NEW d \in Desks, DeclineDecision(d)
  PROVE  RequestsInv'
<1>1. /\ desk[d].at = "asked" /\ desk' = [desk EXCEPT ![d] = IdleDesk]
      /\ UNCHANGED <<report, opened, trail, reportLock, event, heard>>
  BY DEF DeclineDecision
<1>2. desk'[d] = IdleDesk
  BY <1>1 DEF RequestsInv, RequestsTypeOK
<1>3. DeskTidy(d)'
  BY <1>2, RowTypes DEF DeskTidy
<1>4. \A e \in Desks \ {d} : desk[e].at = "file" => IdleDesk.report # desk[e].report
  BY RowTypes, RequestsAssumption DEF RequestsInv, DesksTidy, DeskTidy
<1>5. QED
  BY <1>1, <1>3, <1>4, RowTypes, QuietStep

(* The order of a report that is still to be decided is not there: its row is *)
(* locked, and the event of its conversion waits with it. *)
LEMMA AcceptDecisionRequests ==
  ASSUME RequestsInv, NEW d \in Desks, AcceptDecision(d)
  PROVE  RequestsInv'
<1> DEFINE r == desk[d].report
           state == [desk[d] EXCEPT !.at = "locked"]
<1>1. /\ desk[d] \in DeskStates /\ desk[d].at = "asked" /\ DeskTidy(d) /\ r \in Reports
      /\ desk' = [desk EXCEPT ![d] = state] /\ reportLock' = [reportLock EXCEPT ![r] = d]
      /\ reportLock[r] = None /\ report[r].status = "nueva"
      /\ desk[d].op = "convert" => r \notin opened
      /\ UNCHANGED <<report, opened, trail, heard>>
  BY DEF AcceptDecision, RowIsFree, MayDecide, RequestsInv, RequestsTypeOK, DesksTidy, DeskTidy
<1>2. event' = IF desk[d].op = "convert"
               THEN [event EXCEPT !["ot_creada"][r] = [at |-> "held", from |-> d]] ELSE event
  BY DEF AcceptDecision, Emit
<1> HIDE DEF r
<1>3. /\ state \in DeskStates /\ state.at = "locked" /\ state.report = r /\ state.op = desk[d].op
      /\ state.by = desk[d].by
  BY <1>1 DEF DeskStates, r
<1> HIDE DEF state
<1>4. /\ desk'[d] = state /\ \A e \in Desks \ {d} : desk'[e] = desk[e]
      /\ reportLock'[r] = d /\ \A s \in Reports \ {r} : reportLock'[s] = reportLock[s]
  BY <1>1 DEF RequestsInv, RequestsTypeOK
<1>5. RequestsTypeOK'
  <2>1. [at |-> "held", from |-> d] \in Events
    BY DEF Events
  <2>2. event' \in [Kinds -> [Reports -> Events]]
    BY <1>1, <1>2, <2>1 DEF RequestsInv, RequestsTypeOK
  <2>3. QED
    BY <1>1, <1>3, <2>2 DEF RequestsInv, RequestsTypeOK
<1>6. DesksTidy'
  <2>1. ASSUME NEW e \in Desks \ {d} PROVE DeskTidy(e)'
    <3>1. DeskTidy(e) /\ desk'[e] = desk[e]
      BY <1>4 DEF RequestsInv, DesksTidy
    <3>2. desk[e].at = "locked" => desk[e].report # r
      BY <1>1, <3>1, RequestsAssumption DEF DeskTidy
    <3>3. \A f \in Desks : desk'[f].report = desk[f].report
      BY <1>3, <1>4 DEF r
    <3>4. QED
      BY <1>1, <1>4, <3>1, <3>2, <3>3 DEF DeskTidy
  <2>2. DeskTidy(d)'
    BY <1>1, <1>3, <1>4 DEF DeskTidy, r
  <2>3. QED
    BY <2>1, <2>2 DEF DesksTidy
<1>7. LocksTidy'
  <2>1. \A s \in Reports \ {r} : reportLock[s] # None => reportLock[s] \in Desks \ {d}
    BY <1>1 DEF RequestsInv, RequestsTypeOK, LocksTidy
  <2>2. QED
    BY <1>1, <1>3, <1>4, <2>1 DEF RequestsInv, LocksTidy
<1>8. RowsTidy' /\ TrailTellsTheReport'
  BY <1>1 DEF RequestsInv, RowsTidy, TrailTellsTheReport
<1>9. EventsTidy'
  <2>1. ASSUME NEW k \in Kinds, NEW s \in Reports PROVE EventTidy(k, s)'
    <3>1. EventTidy(k, s) /\ Told(k, s)' = Told(k, s)
      BY <1>1 DEF RequestsInv, EventsTidy, Told
    <3>2. CASE k = "ot_creada" /\ s = r /\ desk[d].op = "convert"
      <4>1. event'[k][s] = [at |-> "held", from |-> d]
        BY <1>1, <1>2, <3>2 DEF RequestsInv, RequestsTypeOK
      <4>2. event[k][s].at # "over"
        BY <1>1, <3>1, <3>2 DEF EventTidy, Told
      <4>3. QED
        BY <1>1, <1>3, <1>4, <3>1, <3>2, <4>1, <4>2 DEF EventTidy, Emitter
    <3>3. CASE ~(k = "ot_creada" /\ s = r /\ desk[d].op = "convert")
      <4>1. event'[k][s] = event[k][s]
        BY <1>1, <1>2, <3>3 DEF RequestsInv, RequestsTypeOK
      <4>2. event[k][s].at = "held" => event[k][s].from # d
        BY <1>1, <3>1 DEF EventTidy, Emitter
      <4>3. QED
        BY <1>1, <1>4, <3>1, <4>1, <4>2 DEF EventTidy, Emitter
    <3>4. QED
      BY <3>2, <3>3
  <2>2. QED
    BY <2>1 DEF EventsTidy
<1>10. QED
  BY <1>5, <1>6, <1>7, <1>8, <1>9 DEF RequestsInv

(* A desk closes its transaction, with or without a decision on its report. *)
LEMMA LeaveDesk ==
  ASSUME RequestsInv, NEW d \in Desks, NEW state \in DeskStates,
         desk' = [desk EXCEPT ![d] = state], state.at \in {"idle", "committed"},
         state.at = "idle" => state.report = None,
         state.at = "committed" =>
           state.report = desk[d].report /\ state.by = desk[d].by /\ desk[d].at # "idle",
         \A s \in Reports : reportLock'[s] = IF reportLock[s] = d THEN None ELSE reportLock[s],
         \A s \in Reports :
           \/ report'[s] = report[s]
           \/ s = desk[d].report /\ desk[d].at \in {"file", "locked"} /\ report'[s] # NoReport
  PROVE  DesksTidy' /\ LocksTidy'
<1>1. desk'[d] = state /\ \A e \in Desks \ {d} : desk'[e] = desk[e]
  BY DEF RequestsInv, RequestsTypeOK
<1>2. DeskTidy(d)
  BY DEF RequestsInv, DesksTidy
<1>3. DeskTidy(d)'
  BY <1>1, <1>2 DEF DeskTidy
<1>4. ASSUME NEW e \in Desks \ {d} PROVE DeskTidy(e)'
  <2>1. DeskTidy(e) /\ desk'[e] = desk[e]
    BY <1>1 DEF RequestsInv, DesksTidy
  <2>2. CASE desk[e].at = "file"
    <3>1. desk[e].report \in Reports /\ desk[d].report # desk[e].report
      BY <2>1, <2>2 DEF DeskTidy
    <3>2. report'[desk[e].report] = NoReport
      BY <2>1, <2>2, <3>1 DEF DeskTidy
    <3>3. state.report # desk[e].report
      BY <3>1, RequestsAssumption
    <3>4. \A f \in Desks \ {e} : desk'[f].report # desk[e].report
      BY <1>1, <2>1, <2>2, <3>3 DEF DeskTidy
    <3>5. QED
      BY <2>1, <2>2, <3>2, <3>4 DEF DeskTidy
  <2>3. CASE desk[e].at \in {"asked", "locked"}
    <3>1. desk[e].report \in Reports /\ report'[desk[e].report] # NoReport
      BY <2>1, <2>3 DEF DeskTidy
    <3>2. ASSUME desk[e].at = "locked"
          PROVE  /\ reportLock'[desk[e].report] = e
                 /\ report'[desk[e].report] = report[desk[e].report]
      BY <1>2, <2>1, <3>1, <3>2 DEF DeskTidy
    <3>3. QED
      BY <2>1, <2>3, <3>1, <3>2 DEF DeskTidy
  <2>4. QED
    BY <2>1, <2>2, <2>3 DEF DeskTidy
<1>5. LocksTidy'
  <2>1. \A s \in Reports : reportLock[s] \in Desks \cup {None}
    BY DEF RequestsInv, RequestsTypeOK
  <2>2. QED
    BY <1>1, <2>1 DEF RequestsInv, LocksTidy
<1>6. QED
  BY <1>3, <1>4, <1>5 DEF DesksTidy

(* What may become of the events of one desk. *)
LEMMA EventsMove ==
  ASSUME RequestsInv, NEW d \in Desks, \A e \in Desks \ {d} : desk'[e] = desk[e],
         \A k \in Kinds, s \in Reports : Told(k, s) => Told(k, s)',
         heard' = heard,
         \A k \in Kinds, s \in Reports :
           \/ /\ event'[k][s] = event[k][s]
              /\ event[k][s].at = "held" => event[k][s].from # d
           \/ event'[k][s] = NoEvent /\ event[k][s].at = "held"
           \/ /\ event'[k][s].at \in {"queued", "posting"} /\ event[k][s].at \in {"held", "queued"}
              /\ Told(k, s)'
           \/ /\ event'[k][s] = [at |-> "over", from |-> None]
              /\ event[k][s].at \in {"queued", "posting", "over"}
  PROVE  EventsTidy'
<1>1. ASSUME NEW k \in Kinds, NEW s \in Reports PROVE EventTidy(k, s)'
  <2>1. EventTidy(k, s)
    BY DEF RequestsInv, EventsTidy
  <2>2. CASE /\ event'[k][s] = event[k][s]
             /\ event[k][s].at = "held" => event[k][s].from # d
    BY <2>1, <2>2 DEF EventTidy, Emitter
  <2>3. CASE event'[k][s] = NoEvent /\ event[k][s].at = "held"
    BY <2>1, <2>3 DEF EventTidy, NoEvent
  <2>4. CASE /\ event'[k][s].at \in {"queued", "posting"} /\ event[k][s].at \in {"held", "queued"}
             /\ Told(k, s)'
    BY <2>1, <2>4 DEF EventTidy
  <2>5. CASE /\ event'[k][s] = [at |-> "over", from |-> None]
             /\ event[k][s].at \in {"queued", "posting", "over"}
    BY <2>1, <2>5 DEF EventTidy
  <2>6. QED
    BY <2>2, <2>3, <2>4, <2>5
<1>2. QED
  BY <1>1 DEF EventsTidy

(* The commit of a transaction makes what its desk emitted true. *)
LEMMA CommitEvents ==
  ASSUME RequestsInv, NEW d \in Desks, \A e \in Desks \ {d} : desk'[e] = desk[e],
         \A k \in Kinds, s \in Reports : Told(k, s) => Told(k, s)',
         \A k \in Kinds, s \in Reports : Emitter(k, s, d) => Told(k, s)',
         event' = OnCommit(d), heard' = heard
  PROVE  event' \in [Kinds -> [Reports -> Events]] /\ EventsTidy'
<1>1. \A k \in Kinds, s \in Reports :
        /\ event[k][s] \in Events
        /\ event'[k][s] = IF event[k][s] = [at |-> "held", from |-> d]
                          THEN [at |-> "queued", from |-> d] ELSE event[k][s]
  BY DEF OnCommit, RequestsInv, RequestsTypeOK
<1>2. event' \in [Kinds -> [Reports -> Events]]
  <2>1. [at |-> "queued", from |-> d] \in Events
    BY DEF Events
  <2>2. QED
    BY <2>1 DEF OnCommit, RequestsInv, RequestsTypeOK
<1>3. ASSUME NEW k \in Kinds, NEW s \in Reports
      PROVE  \/ /\ event'[k][s] = event[k][s]
                /\ event[k][s].at = "held" => event[k][s].from # d
             \/ /\ event'[k][s].at \in {"queued", "posting"} /\ event[k][s].at \in {"held", "queued"}
                /\ Told(k, s)'
  <2>1. EventTidy(k, s)
    BY DEF RequestsInv, EventsTidy
  <2>2. CASE event[k][s] = [at |-> "held", from |-> d]
    BY <1>1, <2>1, <2>2 DEF EventTidy
  <2>3. CASE event[k][s] # [at |-> "held", from |-> d]
    BY <1>1, <2>3 DEF Events
  <2>4. QED
    BY <2>2, <2>3
<1>4. QED
  BY <1>2, <1>3, EventsMove

LEMMA CommitReportRequests ==
  ASSUME RequestsInv, NEW d \in Desks, CommitReport(d)
  PROVE  RequestsInv'
<1> DEFINE r == desk[d].report
           p == desk[d].by
           state == [desk[d] EXCEPT !.at = "committed"]
           row == [status |-> "nueva", by |-> p, reviewer |-> None]
<1>1. /\ desk[d] \in DeskStates /\ desk[d].at = "file" /\ DeskTidy(d) /\ r \in Reports /\ p \in People
      /\ desk' = [desk EXCEPT ![d] = state] /\ report' = [report EXCEPT ![r] = row]
      /\ trail' = [trail EXCEPT ![r] = Append(trail[r], [action |-> "create", by |-> p])]
      /\ report[r] = NoReport /\ event' = OnCommit(d)
      /\ UNCHANGED <<opened, reportLock, heard>>
  BY DEF CommitReport, RequestsInv, RequestsTypeOK, DesksTidy, DeskTidy
<1>2. /\ state \in DeskStates /\ state.at = "committed"
      /\ state.report = desk[d].report /\ state.by = desk[d].by
  BY <1>1 DEF DeskStates
<1>3. /\ row \in ReportRows /\ row.status = "nueva" /\ row.by = p /\ row # NoReport
      /\ [action |-> "create", by |-> p] \in TrailRows
  BY <1>1 DEF ReportRows, ReportStatuses, NoReport, TrailRows
<1> HIDE DEF state, row, r, p
<1>4. /\ report'[r] = row /\ \A s \in Reports \ {r} : report'[s] = report[s]
      /\ \A e \in Desks \ {d} : desk'[e] = desk[e]
  BY <1>1 DEF RequestsInv, RequestsTypeOK
<1>5. DesksTidy' /\ LocksTidy'
  <2>1. \A s \in Reports : reportLock'[s] = IF reportLock[s] = d THEN None ELSE reportLock[s]
    BY <1>1, RequestsAssumption DEF RequestsInv, LocksTidy
  <2>2. \A s \in Reports :
           \/ report'[s] = report[s]
           \/ s = desk[d].report /\ desk[d].at \in {"file", "locked"} /\ report'[s] # NoReport
    BY <1>1, <1>3, <1>4 DEF r
  <2>3. QED
    BY <1>1, <1>2, <2>1, <2>2, LeaveDesk
<1>6. event' \in [Kinds -> [Reports -> Events]] /\ EventsTidy'
  <2>1. \A k \in Kinds, s \in Reports : Told(k, s) => Told(k, s)'
    BY <1>1, <1>3, <1>4 DEF Told
  <2>2. \A k \in Kinds, s \in Reports : Emitter(k, s, d) => Told(k, s)'
    BY <1>1, <1>3, <1>4 DEF Told, Emitter, r
  <2>3. QED
    BY <1>1, <1>4, <2>1, <2>2, CommitEvents
<1>7. RequestsTypeOK'
  BY <1>1, <1>2, <1>3, <1>6 DEF RequestsInv, RequestsTypeOK
<1>8. RowsTidy'
  BY <1>1, <1>3, <1>4, RowTypes DEF RequestsInv, RowsTidy
<1>9. TrailTellsTheReport'
  <2>1. trail[r] = <<>>
    BY <1>1, RowTypes DEF RequestsInv, TrailTellsTheReport
  <2>2. trail'[r] = <<[action |-> "create", by |-> row.by]>>
    BY <1>1, <1>3, <2>1 DEF RequestsInv, RequestsTypeOK
  <2>3. \A s \in Reports \ {r} : trail'[s] = trail[s]
    BY <1>1 DEF RequestsInv, RequestsTypeOK
  <2>4. QED
    BY <1>3, <1>4, <2>2, <2>3 DEF RequestsInv, TrailTellsTheReport
<1>10. QED
  BY <1>5, <1>6, <1>7, <1>8, <1>9 DEF RequestsInv

(* The order is not there, so the decision goes through; the lock goes with it. *)
LEMMA CommitDecisionRequests ==
  ASSUME RequestsInv, NEW d \in Desks, CommitDecision(d)
  PROVE  RequestsInv'
<1> DEFINE r == desk[d].report
           p == desk[d].by
           op == desk[d].op
           state == [desk[d] EXCEPT !.at = "committed"]
           row == [report[r] EXCEPT !.status = IF op = "convert" THEN "convertida" ELSE "rechazada",
                                    !.reviewer = p]
<1>1. /\ desk[d] \in DeskStates /\ desk[d].at = "locked" /\ DeskTidy(d) /\ r \in Reports /\ p \in People
      /\ op \in {"convert", "reject"} /\ report[r] \in ReportRows /\ report[r].status = "nueva"
      /\ r \notin opened /\ reportLock[r] = d
      /\ desk' = [desk EXCEPT ![d] = state] /\ reportLock' = [reportLock EXCEPT ![r] = None]
      /\ UNCHANGED heard
  BY DEF CommitDecision, RequestsInv, RequestsTypeOK, DesksTidy, DeskTidy, RowsTidy
<1>2. /\ report' = [report EXCEPT ![r].status = IF op = "convert" THEN "convertida" ELSE "rechazada",
                                  ![r].reviewer = p]
      /\ opened' = IF op = "convert" THEN opened \cup {r} ELSE opened
      /\ trail' = [trail EXCEPT ![r] = Append(trail[r], [action |-> op, by |-> p])]
      /\ event' = OnCommit(d)
  BY <1>1 DEF CommitDecision
<1>3. /\ state \in DeskStates /\ state.at = "committed"
      /\ state.report = desk[d].report /\ state.by = desk[d].by
  BY <1>1 DEF DeskStates
<1>4. /\ row \in ReportRows /\ row.by = report[r].by /\ row.reviewer = p
      /\ row.status = IF op = "convert" THEN "convertida" ELSE "rechazada"
      /\ [action |-> op, by |-> p] \in TrailRows
  BY <1>1 DEF ReportRows, ReportStatuses, TrailRows
<1>5. report'[r] = row /\ \A s \in Reports \ {r} : report'[s] = report[s]
  BY <1>1, <1>2 DEF RequestsInv, RequestsTypeOK, ReportRows
<1>6. report' \in [Reports -> ReportRows]
  BY <1>1, <1>2, <1>4, <1>5 DEF RequestsInv, RequestsTypeOK
<1> HIDE DEF state, row, r, p, op
<1>7. row # NoReport
  BY <1>4, RowTypes
<1>8. \A e \in Desks \ {d} : desk'[e] = desk[e]
  BY <1>1 DEF RequestsInv, RequestsTypeOK
<1>9. DesksTidy' /\ LocksTidy'
  <2>1. \A s \in Reports : reportLock'[s] = IF reportLock[s] = d THEN None ELSE reportLock[s]
    BY <1>1, RequestsAssumption DEF RequestsInv, RequestsTypeOK, LocksTidy, r
  <2>2. \A s \in Reports :
           \/ report'[s] = report[s]
           \/ s = desk[d].report /\ desk[d].at \in {"file", "locked"} /\ report'[s] # NoReport
    BY <1>1, <1>5, <1>7 DEF r
  <2>3. QED
    BY <1>1, <1>3, <2>1, <2>2, LeaveDesk
<1>10. event' \in [Kinds -> [Reports -> Events]] /\ EventsTidy'
  <2>1. \A k \in Kinds, s \in Reports : Told(k, s) => Told(k, s)'
    BY <1>2, <1>5, <1>7 DEF Told
  <2>2. \A k \in Kinds, s \in Reports : Emitter(k, s, d) => Told(k, s)'
    BY <1>1, <1>2 DEF Told, Emitter, Kinds, r, op
  <2>3. QED
    BY <1>1, <1>2, <1>8, <2>1, <2>2, CommitEvents
<1>11. RequestsTypeOK'
  <2>1. trail' \in [Reports -> Seq(TrailRows)] /\ opened' \subseteq Reports
    BY <1>1, <1>2, <1>4 DEF RequestsInv, RequestsTypeOK
  <2>2. QED
    BY <1>1, <1>3, <1>6, <1>10, <2>1 DEF RequestsInv, RequestsTypeOK
<1>12. RowsTidy'
  BY <1>1, <1>2, <1>4, <1>5 DEF RequestsInv, RowsTidy
<1>13. TrailTellsTheReport'
  <2>1. trail[r] = <<[action |-> "create", by |-> row.by]>>
    BY <1>1, <1>4 DEF RequestsInv, TrailTellsTheReport
  <2>2. trail'[r] = <<[action |-> "create", by |-> row.by], [action |-> op, by |-> row.reviewer]>>
    <3>1. trail'[r] = Append(trail[r], [action |-> op, by |-> p])
      BY <1>1, <1>2 DEF RequestsInv, RequestsTypeOK
    <3>2. [action |-> "create", by |-> row.by] \in TrailRows
      <4>1. trail[r] \in Seq(TrailRows)
        BY <1>1 DEF RequestsInv, RequestsTypeOK
      <4>2. Len(trail[r]) = 1 /\ trail[r][1] = [action |-> "create", by |-> row.by]
        BY <2>1
      <4>3. QED
        BY <4>1, <4>2, ElementOfSeq
    <3>3. QED
      BY <1>4, <2>1, <3>1, <3>2, AppendToOne
  <2>3. \A s \in Reports \ {r} : trail'[s] = trail[s]
    BY <1>1, <1>2 DEF RequestsInv, RequestsTypeOK
  <2>4. op = IF row.status = "convertida" THEN "convert" ELSE "reject"
    BY <1>1, <1>4
  <2>5. ASSUME NEW s \in Reports
        PROVE  trail'[s] = CASE report'[s].status = "none"  -> <<>>
                 [] report'[s].status = "nueva" -> <<[action |-> "create", by |-> report'[s].by]>>
                 [] OTHER ->
                      <<[action |-> "create", by |-> report'[s].by],
                        [action |-> IF report'[s].status = "convertida" THEN "convert" ELSE "reject",
                         by |-> report'[s].reviewer]>>
    <3>1. CASE s = r
      <4>1. report'[s] = row /\ row.status \notin {"none", "nueva"}
        BY <1>4, <1>5, <3>1
      <4>2. QED
        BY <2>2, <2>4, <3>1, <4>1
    <3>2. CASE s # r
      BY <1>5, <2>3, <3>2 DEF RequestsInv, TrailTellsTheReport
    <3>3. QED
      BY <3>1, <3>2
  <2>6. QED
    BY <2>5 DEF TrailTellsTheReport
<1>14. QED
  BY <1>9, <1>10, <1>11, <1>12, <1>13 DEF RequestsInv

(* What becomes of an event when desk d writes no more. *)
EventLeaves(d, k, s) ==
  \/ /\ event'[k][s] = event[k][s]
     /\ event[k][s].at = "held" => event[k][s].from # d
  \/ event'[k][s] = NoEvent /\ event[k][s].at = "held"
  \/ event'[k][s].at = "posting" /\ event[k][s].at = "queued"
  \/ /\ event'[k][s] = [at |-> "over", from |-> None]
     /\ event[k][s].at \in {"queued", "posting", "over"}

(* A desk leaves, and writes nothing: its locks go, and its events as EventsMove says. *)
LEMMA LeaveWithNothing ==
  ASSUME RequestsInv, NEW d \in Desks, desk' = [desk EXCEPT ![d] = IdleDesk],
         reportLock' \in [Reports -> Desks \cup {None}],
         \A s \in Reports : reportLock'[s] = IF reportLock[s] = d THEN None ELSE reportLock[s],
         event' \in [Kinds -> [Reports -> Events]],
         \A k \in Kinds, s \in Reports : EventLeaves(d, k, s),
         UNCHANGED <<report, opened, trail, heard>>
  PROVE  RequestsInv'
<1>1. \A e \in Desks \ {d} : desk'[e] = desk[e]
  BY DEF RequestsInv, RequestsTypeOK
<1>2. RequestsTypeOK'
  BY RowTypes DEF RequestsInv, RequestsTypeOK
<1>3. DesksTidy' /\ LocksTidy'
  BY RowTypes, LeaveDesk
<1>4. RowsTidy' /\ TrailTellsTheReport'
  BY DEF RequestsInv, RowsTidy, TrailTellsTheReport
<1>5. \A k \in Kinds, s \in Reports : Told(k, s)' = Told(k, s)
  BY DEF Told
<1>6. \A k \in Kinds, s \in Reports : event[k][s].at = "queued" => Told(k, s)
  BY DEF RequestsInv, EventsTidy, EventTidy
<1>7. EventsTidy'
  BY <1>1, <1>5, <1>6, EventsMove DEF EventLeaves
<1>8. QED
  BY <1>2, <1>3, <1>4, <1>7 DEF RequestsInv

LEMMA HandOffRequests ==
  ASSUME RequestsInv, NEW d \in Desks, HandOff(d)
  PROVE  RequestsInv'
<1>1. /\ desk[d].at = "committed" /\ desk' = [desk EXCEPT ![d] = IdleDesk]
      /\ event' = [k \in Kinds |-> [r \in Reports |->
                     IF event[k][r] = [at |-> "queued", from |-> d]
                     THEN [at |-> "posting", from |-> d] ELSE event[k][r]]]
      /\ UNCHANGED <<report, opened, trail, reportLock, heard>>
  BY DEF HandOff
<1>2. \A s \in Reports : reportLock'[s] = IF reportLock[s] = d THEN None ELSE reportLock[s]
  BY <1>1, RequestsAssumption DEF RequestsInv, LocksTidy
<1>3. event' \in [Kinds -> [Reports -> Events]]
  <2>1. [at |-> "posting", from |-> d] \in Events
    BY DEF Events
  <2>2. QED
    BY <1>1, <2>1 DEF RequestsInv, RequestsTypeOK
<1>4. ASSUME NEW k \in Kinds, NEW s \in Reports
      PROVE  EventLeaves(d, k, s)
  <2>1. event'[k][s] = IF event[k][s] = [at |-> "queued", from |-> d]
                      THEN [at |-> "posting", from |-> d] ELSE event[k][s]
    BY <1>1
  <2>2. event[k][s].at = "held" => event[k][s].from # d
    BY <1>1 DEF RequestsInv, EventsTidy, EventTidy, Emitter
  <2>3. QED
    BY <2>1, <2>2 DEF EventLeaves
<1>5. reportLock' \in [Reports -> Desks \cup {None}]
  BY <1>1 DEF RequestsInv, RequestsTypeOK
<1>6. QED
  BY <1>1, <1>2, <1>3, <1>4, <1>5, LeaveWithNothing

LEMMA FailRequests ==
  ASSUME RequestsInv, NEW d \in Desks, Fail(d)
  PROVE  RequestsInv'
<1>1. /\ desk' = [desk EXCEPT ![d] = IdleDesk]
      /\ reportLock' = [r \in Reports |-> IF reportLock[r] = d THEN None ELSE reportLock[r]]
      /\ event' = [k \in Kinds |-> [r \in Reports |->
                     IF event[k][r] = [at |-> "held", from |-> d] THEN NoEvent ELSE event[k][r]]]
      /\ UNCHANGED <<report, opened, trail, heard>>
  BY DEF Fail, OnRollback
<1>2. reportLock' \in [Reports -> Desks \cup {None}]
  BY <1>1 DEF RequestsInv, RequestsTypeOK
<1>3. event' \in [Kinds -> [Reports -> Events]]
  BY <1>1, RowTypes DEF RequestsInv, RequestsTypeOK
<1>4. ASSUME NEW k \in Kinds, NEW s \in Reports
      PROVE  EventLeaves(d, k, s)
  <2>1. event[k][s] \in Events
    BY DEF RequestsInv, RequestsTypeOK
  <2>2. event'[k][s] = IF event[k][s] = [at |-> "held", from |-> d] THEN NoEvent ELSE event[k][s]
    BY <1>1
  <2>3. QED
    BY <2>1, <2>2 DEF Events, EventLeaves
<1>5. QED
  BY <1>1, <1>2, <1>3, <1>4, LeaveWithNothing

LEMMA CrashDeskRequests ==
  ASSUME RequestsInv, NEW d \in Desks, CrashDesk(d)
  PROVE  RequestsInv'
<1>1. /\ desk' = [desk EXCEPT ![d] = IdleDesk]
      /\ reportLock' = [r \in Reports |-> IF reportLock[r] = d THEN None ELSE reportLock[r]]
      /\ event' = [k \in Kinds |-> [r \in Reports |->
                     IF event[k][r].from # d THEN event[k][r]
                     ELSE IF event[k][r].at = "held" THEN NoEvent
                     ELSE [at |-> "over", from |-> None]]]
      /\ UNCHANGED <<report, opened, trail, heard>>
  BY DEF CrashDesk
<1>2. reportLock' \in [Reports -> Desks \cup {None}]
  BY <1>1 DEF RequestsInv, RequestsTypeOK
<1>3. event' \in [Kinds -> [Reports -> Events]]
  <2>1. [at |-> "over", from |-> None] \in Events
    BY DEF Events
  <2>2. QED
    BY <1>1, <2>1, RowTypes DEF RequestsInv, RequestsTypeOK
<1>4. ASSUME NEW k \in Kinds, NEW s \in Reports
      PROVE  EventLeaves(d, k, s)
  <2>1. event[k][s] \in Events /\ EventTidy(k, s)
    BY DEF RequestsInv, RequestsTypeOK, EventsTidy
  <2>2. event'[k][s] = IF event[k][s].from # d THEN event[k][s]
                      ELSE IF event[k][s].at = "held" THEN NoEvent
                      ELSE [at |-> "over", from |-> None]
    BY <1>1
  <2>3. event[k][s].from = d => event[k][s].at \notin {"none", "over"}
    BY <2>1, RequestsAssumption DEF EventTidy
  <2>4. QED
    BY <2>1, <2>2, <2>3 DEF Events, EventLeaves
<1>5. QED
  BY <1>1, <1>2, <1>3, <1>4, LeaveWithNothing

(* A post is tried once. *)
LEMMA PostRequests ==
  ASSUME RequestsInv, NEW k \in Kinds, NEW r \in Reports, PostArrives(k, r) \/ PostFails(k, r)
  PROVE  RequestsInv'
<1>1. /\ event[k][r].at = "posting"
      /\ event' = [event EXCEPT ![k][r] = [at |-> "over", from |-> None]]
      /\ heard' = [heard EXCEPT ![k][r] = heard[k][r] + 1] \/ heard' = heard
      /\ UNCHANGED <<report, opened, trail, reportLock, desk>>
  BY DEF PostArrives, PostFails, Posted
<1>2. RequestsTypeOK'
  <2>1. [at |-> "over", from |-> None] \in Events
    BY DEF Events
  <2>2. event' \in [Kinds -> [Reports -> Events]]
    BY <1>1, <2>1 DEF RequestsInv, RequestsTypeOK
  <2>3. heard' \in [Kinds -> [Reports -> Nat]]
    <3>1. heard[k][r] + 1 \in Nat
      BY DEF RequestsInv, RequestsTypeOK
    <3>2. \A n \in Nat : [heard EXCEPT ![k][r] = n] \in [Kinds -> [Reports -> Nat]]
      BY DEF RequestsInv, RequestsTypeOK
    <3>3. QED
      BY <1>1, <3>1, <3>2 DEF RequestsInv, RequestsTypeOK
  <2>4. QED
    BY <1>1, <2>2, <2>3 DEF RequestsInv, RequestsTypeOK
<1>3. DesksTidy' /\ LocksTidy' /\ RowsTidy' /\ TrailTellsTheReport'
  BY <1>1 DEF RequestsInv, DesksTidy, DeskTidy, LocksTidy, RowsTidy, TrailTellsTheReport
<1>4. ASSUME NEW j \in Kinds, NEW s \in Reports PROVE EventTidy(j, s)'
  <2>1. EventTidy(j, s)
    BY DEF RequestsInv, EventsTidy
  <2>2. CASE j = k /\ s = r
    <3>1. event'[j][s] = [at |-> "over", from |-> None]
      BY <1>1, <2>2 DEF RequestsInv, RequestsTypeOK
    <3>2. heard[j][s] = 0
      BY <1>1, <2>1, <2>2 DEF EventTidy
    <3>3. heard'[j][s] \in {0, 1}
      BY <1>1, <2>2, <3>2 DEF RequestsInv, RequestsTypeOK
    <3>4. Told(j, s)'
      BY <1>1, <2>1, <2>2 DEF EventTidy, Told
    <3>5. QED
      BY <3>1, <3>3, <3>4 DEF EventTidy
  <2>3. CASE ~(j = k /\ s = r)
    <3>1. event'[j][s] = event[j][s] /\ heard'[j][s] = heard[j][s]
      BY <1>1, <2>3 DEF RequestsInv, RequestsTypeOK
    <3>2. QED
      BY <1>1, <2>1, <3>1 DEF EventTidy, Emitter, Told
  <2>4. QED
    BY <2>2, <2>3
<1>5. QED
  BY <1>2, <1>3, <1>4 DEF RequestsInv, EventsTidy

LEMMA StepRequests == RequestsInv /\ [RequestsNext]_requestsVars => RequestsInv'
<1> SUFFICES ASSUME RequestsInv, [RequestsNext]_requestsVars PROVE RequestsInv'
  OBVIOUS
<1>1. ASSUME NEW d \in Desks,
             CommitReport(d) \/ DeclineDecision(d) \/ AcceptDecision(d) \/ CommitDecision(d)
      PROVE  RequestsInv'
  BY <1>1, CommitReportRequests, DeclineDecisionRequests, AcceptDecisionRequests,
     CommitDecisionRequests
<1>2. ASSUME NEW d \in Desks, HandOff(d) \/ Fail(d) \/ CrashDesk(d)
      PROVE  RequestsInv'
  BY <1>2, HandOffRequests, FailRequests, CrashDeskRequests
<1>3. ASSUME NEW d \in Desks, NEW r \in Reports, NEW p \in People, BeginReport(d, r, p)
      PROVE  RequestsInv'
  BY <1>3, BeginReportRequests
<1>4. ASSUME NEW d \in Desks, NEW r \in Reports, NEW p \in People,
             NEW op \in {"convert", "reject"}, BeginDecision(d, r, p, op)
      PROVE  RequestsInv'
  BY <1>4, BeginDecisionRequests
<1>5. ASSUME NEW k \in Kinds, NEW r \in Reports, PostArrives(k, r) \/ PostFails(k, r)
      PROVE  RequestsInv'
  BY <1>5, PostRequests
<1>6. CASE UNCHANGED requestsVars
  BY <1>6 DEF requestsVars, RequestsInv, RequestsTypeOK, DesksTidy, DeskTidy, LocksTidy, RowsTidy,
              TrailTellsTheReport, EventsTidy, EventTidy, Emitter, Told
<1>7. QED
  BY <1>1, <1>2, <1>3, <1>4, <1>5, <1>6 DEF RequestsNext

LEMMA RequestsInvHolds == RequestsSpec => []RequestsInv
BY InitRequests, StepRequests, PTL DEF RequestsSpec

(* The columns and the workers' memory keep their values, whatever the requests_ *)
(* views do. *)
THEOREM TypesHold == RequestsSpec => []RequestsTypeOK
<1>1. RequestsInv => RequestsTypeOK
  BY DEF RequestsInv
<1>2. QED
  BY <1>1, RequestsInvHolds, PTL

(* Converted exactly when the order is there, and no conversion meets an order: the *)
(* lock that _locked takes is enough, for any number of workers. *)
THEOREM DecisionHolds == RequestsSpec => []DecisionAndOrder
<1>1. RequestsInv => DecisionAndOrder
  BY DEF RequestsInv, RowsTidy, DesksTidy, DeskTidy, DecisionAndOrder
<1>2. QED
  BY <1>1, RequestsInvHolds, PTL

(* The audit rows of create_request, convert and reject tell the report. *)
THEOREM TrailHolds == RequestsSpec => []TrailTellsTheReport
<1>1. RequestsInv => TrailTellsTheReport
  BY DEF RequestsInv
<1>2. QED
  BY <1>1, RequestsInvHolds, PTL

(* What n8n hears is committed, and it hears it once (emit, _post). *)
THEOREM EventsHold == RequestsSpec => []EventsTellTheTruth
<1>1. RequestsInv => EventsTellTheTruth
  <2> SUFFICES ASSUME RequestsInv, NEW r \in Reports
               PROVE  /\ heard["solicitud_creada"][r] <= IF report[r] = NoReport THEN 0 ELSE 1
                      /\ heard["ot_creada"][r] <= IF r \in opened THEN 1 ELSE 0
    BY DEF EventsTellTheTruth
  <2>1. \A k \in Kinds : heard[k][r] = 0 \/ (heard[k][r] = 1 /\ Told(k, r))
    BY DEF RequestsInv, EventsTidy, EventTidy
  <2>2. QED
    BY <2>1 DEF Kinds, Told
<1>2. QED
  BY <1>1, RequestsInvHolds, PTL
=============================================================================

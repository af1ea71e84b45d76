---------------------------- MODULE AccountsProofs ----------------------------
(***************************************************************************)
(* Proofs about Accounts, for any names, administrators, limits and calls. *)
(***************************************************************************)
EXTENDS Accounts, FiniteSetTheorems, TLAPS

(* Call c created account u, or deactivated it, and did or will say so. *)
InvitedBy(c, u) ==
  call[c].op = "invite" /\ call[c].target = u /\ smtp[c].sent = 1
    /\ accountAudit[c].action = "create"

DeactivatedBy(c, u) ==
  /\ call[c].op = "deactivate" /\ call[c].target = u /\ call[c].was = "active"
  /\ \/ accountAudit[c].was = "active"
     \/ call[c].at = "saved"
     \/ call[c].killed

(* Where a call may stand, and what it has sent and logged by then. *)
OwnTidy(c) ==
  LET at == call[c].at
      op == call[c].op IN
  /\ at = "new" => smtp[c] = Nothing /\ notified[c] = Nothing
  /\ at = "loaded" => op \in {"invite", "deactivate"}
  /\ at \in {"inserted", "settled"} => op = "invite"
  /\ at = "mailed" => op \in {"invite", "send"}
  /\ at = "mailing" => op = "send"
  /\ at = "saved" => op = "deactivate"
  /\ op \in {"invite", "deactivate"} => call[c].target \in Users
  /\ op = "invite" => call[c].limit \in Limits
  /\ call[c].killed => at = "over"
  /\ at \notin {"settled", "over"} => accountAudit[c] = NoAudit
  /\ accountAudit[c].action = "send" => at = "over" /\ accountAudit[c].totals = notified[c]
  /\ IF at \in {"mailed", "settled"} THEN smtp[c] = Counted(notified[c], call[c].ok)
     ELSE \/ smtp[c] = notified[c]
          \/ call[c].killed /\ (\E ok \in BOOLEAN : smtp[c] = Counted(notified[c], ok))
  /\ op = "invite" /\ at \in {"loaded", "inserted", "mailed"} => notified[c] = Nothing
  /\ op = "send" /\ at \in {"mailing", "mailed"} => call[c].totals = notified[c]

(* What the accounts owe to a call: its seat while it has the lock, and its row. *)
SharedTidy(c) ==
  /\ call[c].op = "invite" /\ call[c].at \in {"inserted", "mailed"} =>
       /\ seatLock = c /\ account[call[c].target] = "none"
       /\ Cardinality(Seated \ adminMade) < call[c].limit
  /\ call[c].op = "deactivate" =>
       /\ account[call[c].target] # "none" /\ call[c].was # "none"
       /\ call[c].was = "inactive" => account[call[c].target] = "inactive"

RowsTidy ==
  /\ Admins \subseteq Seated /\ adminMade \subseteq Seated
  /\ \A u \in Invited : \E c \in Calls : InvitedBy(c, u)
  /\ \A c \in Calls : accountAudit[c].action = "create" => accountAudit[c].about \in Invited
  /\ \A u \in Users : account[u] = "inactive" => \E c \in Calls : DeactivatedBy(c, u)

AccountsInv ==
  /\ AccountsTypeOK /\ RowsTidy
  /\ \A c \in Calls : OwnTidy(c) /\ SharedTidy(c)

LEMMA RowTypes ==
  /\ Nothing \in Tallies /\ NoAudit \in AuditRows /\ NewCall \in CallStates
  /\ NoAudit.action = "none" /\ NoAudit.was = "none"
  /\ NewCall.at = "new" /\ NewCall.op = "none" /\ ~NewCall.killed
BY DEF Nothing, Tallies, NoAudit, AuditRows, NewCall, CallStates, CallPoints

LEMMA TallyTypes ==
  ASSUME NEW tally \in Tallies, NEW ok \in BOOLEAN
  PROVE  Counted(tally, ok) \in Tallies
BY DEF Tallies, Counted

LEMMA InitAccounts == AccountsInit => AccountsInv
<1> SUFFICES ASSUME AccountsInit PROVE AccountsInv
  OBVIOUS
<1>1. AccountsTypeOK
  BY RowTypes, AccountsAssumption DEF AccountsInit, AccountsTypeOK
<1>2. Seated = Admins /\ adminMade = {} /\ Invited = {}
  BY AccountsAssumption DEF AccountsInit, Seated, Invited
<1>3. RowsTidy
  <2>1. \A u \in Users : account[u] # "inactive"
    BY DEF AccountsInit
  <2>2. \A c \in Calls : accountAudit[c].action # "create"
    BY RowTypes DEF AccountsInit
  <2>3. QED
    BY <1>2, <2>1, <2>2 DEF RowsTidy
<1>4. ASSUME NEW c \in Calls PROVE OwnTidy(c) /\ SharedTidy(c)
  <2>1. /\ call[c] = NewCall /\ smtp[c] = Nothing /\ notified[c] = Nothing
        /\ accountAudit[c] = NoAudit
    BY DEF AccountsInit
  <2>2. QED
    BY <2>1, RowTypes DEF OwnTidy, SharedTidy
<1>5. QED
  BY <1>1, <1>3, <1>4 DEF AccountsInv

(* What a step of call c leaves as it is. *)
OnlyCall(c) ==
  /\ call' \in [Calls -> CallStates] /\ smtp' \in [Calls -> Tallies]
  /\ notified' \in [Calls -> Tallies] /\ accountAudit' \in [Calls -> AuditRows]
  /\ seatLock' \in Calls \cup {None}
  /\ \A d \in Calls \ {c} :
       /\ call'[d] = call[d] /\ smtp'[d] = smtp[d] /\ notified'[d] = notified[d]
       /\ accountAudit'[d] = accountAudit[d]
       /\ seatLock = d => seatLock' = d

(* A step of one call that leaves the accounts as they are. *)
LEMMA CallStep ==
  ASSUME AccountsInv, NEW c \in Calls, OnlyCall(c), OwnTidy(c)', SharedTidy(c)',
         accountAudit'[c].action = "create" => accountAudit'[c] = accountAudit[c],
         \A u \in Users : InvitedBy(c, u) => InvitedBy(c, u)',
         \A u \in Users : DeactivatedBy(c, u) => DeactivatedBy(c, u)',
         UNCHANGED <<account, adminMade, maxUsers, suspended>>
  PROVE  AccountsInv'
<1>1. \A d \in Calls \ {c} :
           /\ call'[d] = call[d] /\ smtp'[d] = smtp[d] /\ notified'[d] = notified[d]
           /\ accountAudit'[d] = accountAudit[d]
           /\ seatLock = d => seatLock' = d
  BY DEF OnlyCall
<1>2. AccountsTypeOK'
  BY DEF AccountsInv, AccountsTypeOK, OnlyCall
<1>3. Seated' = Seated /\ Invited' = Invited
  BY DEF Seated, Invited
<1>4. RowsTidy'
  <2>1. ASSUME NEW d \in Calls, NEW u \in Users PROVE InvitedBy(d, u) => InvitedBy(d, u)'
    <3>1. CASE d = c
      BY <3>1
    <3>2. CASE d # c
      BY <1>1, <3>2 DEF InvitedBy
    <3>3. QED
      BY <3>1, <3>2
  <2>2. ASSUME NEW d \in Calls, NEW u \in Users PROVE DeactivatedBy(d, u) => DeactivatedBy(d, u)'
    <3>1. CASE d = c
      BY <3>1
    <3>2. CASE d # c
      BY <1>1, <3>2 DEF DeactivatedBy
    <3>3. QED
      BY <3>1, <3>2
  <2>3. \A d \in Calls : accountAudit'[d].action = "create" => accountAudit[d] = accountAudit'[d]
    BY <1>1
  <2>4. Invited \subseteq Users
    BY DEF Invited, Seated
  <2>5. QED
    BY <1>3, <2>1, <2>2, <2>3, <2>4 DEF AccountsInv, RowsTidy
<1>5. ASSUME NEW d \in Calls \ {c} PROVE OwnTidy(d)' /\ SharedTidy(d)'
  <2>1. OwnTidy(d) /\ SharedTidy(d)
    BY DEF AccountsInv
  <2>2. OwnTidy(d)'
    BY <1>1, <2>1 DEF OwnTidy
  <2>3. SharedTidy(d)'
    BY <1>1, <1>3, <2>1 DEF SharedTidy
  <2>4. QED
    BY <2>2, <2>3
<1>6. QED
  BY <1>2, <1>4, <1>5 DEF AccountsInv

(* A call begins: it has sent and logged nothing. *)
LEMMA OpensAccounts ==
  ASSUME AccountsInv, NEW c \in Calls, NEW state \in CallStates, Opens(c, state),
         state.at \in {"loaded", "mailing"}, ~state.killed,
         state.at = "loaded" => state.op \in {"invite", "deactivate"} /\ state.target \in Users,
         state.at = "mailing" => state.op = "send" /\ state.totals = Nothing,
         state.op = "invite" => state.limit \in Limits,
         state.op = "deactivate" => account[state.target] # "none" /\ state.was = account[state.target]
  PROVE  AccountsInv'
<1>1. /\ call[c].at = "new" /\ call' = [call EXCEPT ![c] = state]
      /\ UNCHANGED <<account, adminMade, maxUsers, suspended, seatLock, smtp, notified, accountAudit>>
  BY DEF Opens
<1>2. /\ OwnTidy(c) /\ accountAudit[c] = NoAudit /\ smtp[c] = Nothing /\ notified[c] = Nothing
      /\ ~call[c].killed
  BY <1>1, RowTypes DEF AccountsInv, OwnTidy
<1>3. call'[c] = state
  BY <1>1 DEF AccountsInv, AccountsTypeOK
<1>4. OwnTidy(c)'
  BY <1>1, <1>2, <1>3, RowTypes DEF OwnTidy
<1>5. SharedTidy(c)'
  BY <1>1, <1>3 DEF SharedTidy
<1>6. OnlyCall(c)
  BY <1>1 DEF AccountsInv, AccountsTypeOK, OnlyCall
<1>7. \A u \in Users : ~InvitedBy(c, u) /\ ~DeactivatedBy(c, u)
  BY <1>1, <1>2, RowTypes DEF InvitedBy, DeactivatedBy
<1>8. QED
  BY <1>1, <1>4, <1>5, <1>6, <1>7, CallStep

LEMMA BeginAccounts ==
  ASSUME AccountsInv, NEW c \in Calls,
         \/ \E u \in Users : BeginInvite(c, u) \/ BeginDeactivation(c, u)
         \/ \E to \in SUBSET Users : BeginSend(c, to)
  PROVE  AccountsInv'
<1>1. ASSUME NEW u \in Users, BeginInvite(c, u) PROVE AccountsInv'
  <2> DEFINE state == [NewCall EXCEPT !.at = "loaded", !.op = "invite", !.target = u,
                                      !.limit = maxUsers]
  <2>1. Opens(c, state)
    BY <1>1 DEF BeginInvite
  <2>2. /\ state \in CallStates /\ state.at = "loaded" /\ state.op = "invite" /\ state.target = u
        /\ state.limit \in Limits /\ ~state.killed
    BY DEF NewCall, CallStates, CallPoints, Tallies, Nothing, AccountsInv, AccountsTypeOK
  <2> HIDE DEF state
  <2>3. QED
    BY <2>1, <2>2, OpensAccounts
<1>2. ASSUME NEW u \in Users, BeginDeactivation(c, u) PROVE AccountsInv'
  <2> DEFINE state == [NewCall EXCEPT !.at = "loaded", !.op = "deactivate", !.target = u,
                                      !.was = account[u]]
  <2>1. Opens(c, state) /\ account[u] # "none"
    BY <1>2 DEF BeginDeactivation
  <2>2. /\ state \in CallStates /\ state.at = "loaded" /\ state.op = "deactivate"
        /\ state.target = u /\ state.was = account[u] /\ ~state.killed
    BY DEF NewCall, CallStates, CallPoints, Tallies, Nothing, AccountsInv, AccountsTypeOK
  <2> HIDE DEF state
  <2>3. QED
    BY <2>1, <2>2, OpensAccounts
<1>3. ASSUME NEW to \in SUBSET Users, BeginSend(c, to) PROVE AccountsInv'
  <2> DEFINE state == [NewCall EXCEPT !.at = "mailing", !.op = "send", !.left = to]
  <2>1. Opens(c, state)
    BY <1>3 DEF BeginSend
  <2>2. /\ state \in CallStates /\ state.at = "mailing" /\ state.op = "send"
        /\ state.totals = Nothing /\ ~state.killed
    BY DEF NewCall, CallStates, CallPoints, Tallies, Nothing
  <2> HIDE DEF state
  <2>3. QED
    BY <2>1, <2>2, OpensAccounts
<1>4. QED
  BY <1>1, <1>2, <1>3

LEMMA InsertAccountKeeps ==
  ASSUME AccountsInv, NEW c \in Calls, InsertAccount(c)
  PROVE  AccountsInv'
<1>1. /\ call[c].at = "loaded" /\ call[c].op = "invite" /\ seatLock = None
      /\ UNCHANGED <<account, adminMade, maxUsers, suspended, smtp, notified, accountAudit>>
  BY DEF InsertAccount, SubscriptionIsFree
<1>2. PICK at \in {"inserted", "over"} :
        /\ call' = [call EXCEPT ![c].at = at]
        /\ at = "over" => seatLock' = seatLock
        /\ at = "inserted" => seatLock' = c /\ ~SeatsFull(c) /\ account[call[c].target] = "none"
  BY DEF InsertAccount
<1>3. PICK state \in CallStates :
        /\ call' = [call EXCEPT ![c] = state] /\ call'[c] = state
        /\ state.at = at /\ state.op = "invite" /\ state.target = call[c].target
        /\ state.limit = call[c].limit /\ state.was = call[c].was /\ state.killed = call[c].killed
  <2> DEFINE next == [call[c] EXCEPT !.at = at]
  <2>1. /\ next \in CallStates
        /\ call' = [call EXCEPT ![c] = next] /\ call'[c] = next
    <3>1. call[c] \in CallStates /\ at \in CallPoints
      BY DEF AccountsInv, AccountsTypeOK, CallPoints
    <3>2. next \in CallStates
      BY <3>1 DEF CallStates
    <3>3. call' = [call EXCEPT ![c] = next] /\ call'[c] = next
      BY <1>2 DEF AccountsInv, AccountsTypeOK
    <3>4. QED
      BY <3>2, <3>3
  <2>2. /\ next.at = at /\ next.op = "invite" /\ next.target = call[c].target
        /\ next.limit = call[c].limit /\ next.was = call[c].was /\ next.killed = call[c].killed
    BY <1>1 DEF AccountsInv, AccountsTypeOK, CallStates
  <2> HIDE DEF next
  <2>3. QED
    BY <2>1, <2>2
<1>4. OwnTidy(c) /\ accountAudit[c] = NoAudit /\ smtp[c] = notified[c] /\ ~call[c].killed
  BY <1>1 DEF AccountsInv, OwnTidy
<1>5. OwnTidy(c)'
  BY <1>1, <1>3, <1>4, RowTypes DEF OwnTidy
<1>6. at = "inserted" => Cardinality(Seated \ adminMade) < call[c].limit
  <2> SUFFICES ASSUME at = "inserted" PROVE Cardinality(Seated \ adminMade) < call[c].limit
    OBVIOUS
  <2>1. IsFiniteSet(Seated)
    BY AccountsAssumption, FS_Subset DEF Seated
  <2>2. /\ Cardinality(Seated \ adminMade) <= Cardinality(Seated) /\ Cardinality(Seated) \in Nat
        /\ Cardinality(Seated \ adminMade) \in Nat
    BY <2>1, FS_Subset, FS_CardinalityType
  <2>3. call[c].limit \in Nat
    BY <1>1, <1>4, AccountsAssumption DEF OwnTidy
  <2>4. ~(Cardinality(Seated) >= call[c].limit)
    BY <1>2 DEF SeatsFull
  <2>5. QED
    BY <2>2, <2>3, <2>4
<1>7. Seated' = Seated
  BY <1>1 DEF Seated
<1>8. SharedTidy(c)'
  BY <1>1, <1>2, <1>3, <1>6, <1>7 DEF SharedTidy
<1>9. \A d \in Calls \ {c} : seatLock # d
  BY <1>1, AccountsAssumption
<1>10. OnlyCall(c)
  BY <1>1, <1>2, <1>3, <1>9 DEF AccountsInv, AccountsTypeOK, OnlyCall
<1>11. \A u \in Users : (InvitedBy(c, u) => InvitedBy(c, u)') /\ ~DeactivatedBy(c, u)
  BY <1>1, <1>3 DEF InvitedBy, DeactivatedBy
<1>12. QED
  BY <1>1, <1>5, <1>8, <1>10, <1>11, CallStep

(* A message goes out, or is refused. *)
LEMMA MailKeeps ==
  ASSUME AccountsInv, NEW c \in Calls, NEW ok \in BOOLEAN,
         MailInvitation(c, ok) \/ \E u \in Users : MailDocument(c, u, ok)
  PROVE  AccountsInv'
<1>1. /\ call[c].at \in {"inserted", "mailing"}
      /\ smtp' = [smtp EXCEPT ![c] = Counted(smtp[c], ok)]
      /\ UNCHANGED <<account, adminMade, maxUsers, suspended, seatLock, notified, accountAudit>>
  BY DEF MailInvitation, MailDocument
<1>2. PICK left \in SUBSET Users :
        call' = [call EXCEPT ![c] = [@ EXCEPT !.at = "mailed", !.ok = ok, !.left = left]]
  <2>1. CASE MailInvitation(c, ok)
    <3>1. call[c].left \in SUBSET Users
      BY DEF AccountsInv, AccountsTypeOK, CallStates
    <3>2. call' = [call EXCEPT ![c] = [call[c] EXCEPT !.at = "mailed", !.ok = ok,
                                                      !.left = call[c].left]]
      BY <2>1 DEF MailInvitation, AccountsInv, AccountsTypeOK, CallStates
    <3>3. QED
      BY <3>1, <3>2
  <2>2. ASSUME NEW u \in Users, MailDocument(c, u, ok)
        PROVE  \E left \in SUBSET Users :
                 call' = [call EXCEPT ![c] = [@ EXCEPT !.at = "mailed", !.ok = ok, !.left = left]]
    <3>1. call[c].left \ {u} \in SUBSET Users
      BY DEF AccountsInv, AccountsTypeOK, CallStates
    <3>2. call' = [call EXCEPT ![c] = [call[c] EXCEPT !.at = "mailed", !.ok = ok,
                                                      !.left = call[c].left \ {u}]]
      BY <2>2 DEF MailDocument, AccountsInv, AccountsTypeOK, CallStates
    <3>3. QED
      BY <3>1, <3>2
  <2>3. QED
    BY <2>1, <2>2
<1>3. PICK state \in CallStates :
        /\ call' = [call EXCEPT ![c] = state] /\ call'[c] = state
        /\ state.at = "mailed" /\ state.ok = ok /\ state.op = call[c].op
        /\ state.target = call[c].target /\ state.limit = call[c].limit /\ state.was = call[c].was
        /\ state.totals = call[c].totals /\ state.killed = call[c].killed
  <2> DEFINE next == [call[c] EXCEPT !.at = "mailed", !.ok = ok, !.left = left]
  <2>1. next \in CallStates /\ call' = [call EXCEPT ![c] = next] /\ call'[c] = next
    BY <1>2 DEF AccountsInv, AccountsTypeOK, CallStates, CallPoints
  <2>2. /\ next.at = "mailed" /\ next.ok = ok /\ next.op = call[c].op
        /\ next.target = call[c].target /\ next.limit = call[c].limit /\ next.was = call[c].was
        /\ next.totals = call[c].totals /\ next.killed = call[c].killed
    BY DEF AccountsInv, AccountsTypeOK, CallStates
  <2> HIDE DEF next
  <2>3. QED
    BY <2>1, <2>2
<1>4. /\ OwnTidy(c) /\ accountAudit[c] = NoAudit /\ smtp[c] = notified[c] /\ ~call[c].killed
      /\ call[c].op \in {"invite", "send"}
  BY <1>1 DEF AccountsInv, OwnTidy
<1>5. Counted(smtp[c], ok) \in Tallies /\ smtp'[c] = Counted(smtp[c], ok)
  BY <1>1, TallyTypes DEF AccountsInv, AccountsTypeOK
<1>6. OwnTidy(c)'
  BY <1>1, <1>3, <1>4, <1>5, RowTypes DEF OwnTidy
<1>7. Seated' = Seated
  BY <1>1 DEF Seated
<1>8. SharedTidy(c)'
  <2>1. SharedTidy(c)
    BY DEF AccountsInv
  <2>2. call[c].op = "invite" => call[c].at = "inserted"
    BY <1>1, <1>4 DEF OwnTidy
  <2>3. QED
    BY <1>1, <1>3, <1>4, <1>7, <2>1, <2>2 DEF SharedTidy
<1>9. OnlyCall(c)
  BY <1>1, <1>3, <1>5 DEF AccountsInv, AccountsTypeOK, OnlyCall
<1>10. \A u \in Users : ~InvitedBy(c, u) /\ ~DeactivatedBy(c, u)
  BY <1>4, RowTypes DEF InvitedBy, DeactivatedBy
<1>11. QED
  BY <1>1, <1>6, <1>8, <1>9, <1>10, CallStep

(* A call moves on and keeps what it knows. *)
LEMMA CallMoves ==
  ASSUME AccountsInv, NEW c \in Calls, NEW at \in CallPoints,
         call' = [call EXCEPT ![c].at = at]
  PROVE  /\ call' \in [Calls -> CallStates]
         /\ \A d \in Calls \ {c} : call'[d] = call[d]
         /\ call'[c].at = at /\ call'[c].op = call[c].op /\ call'[c].target = call[c].target
         /\ call'[c].limit = call[c].limit /\ call'[c].was = call[c].was
         /\ call'[c].ok = call[c].ok /\ call'[c].totals = call[c].totals
         /\ call'[c].killed = call[c].killed
<1>1. call \in [Calls -> CallStates] /\ call[c] \in CallStates
  BY DEF AccountsInv, AccountsTypeOK
<1>2. [call[c] EXCEPT !.at = at] \in CallStates
  BY <1>1 DEF CallStates
<1>3. call'[c] = [call[c] EXCEPT !.at = at] /\ \A d \in Calls \ {c} : call'[d] = call[d]
  BY <1>1
<1>4. call' \in [Calls -> CallStates]
  BY <1>1, <1>2
<1>5. QED
  BY <1>1, <1>3, <1>4 DEF CallStates

LEMMA LogInvitationKeeps ==
  ASSUME AccountsInv, NEW c \in Calls, LogInvitation(c)
  PROVE  AccountsInv'
<1>1. /\ call[c].at = "settled" /\ call' = [call EXCEPT ![c].at = "over"]
      /\ notified' = [notified EXCEPT ![c] = Logged(c)]
      /\ UNCHANGED <<account, adminMade, maxUsers, suspended, seatLock, smtp, accountAudit>>
  BY DEF LogInvitation
<1>2. /\ OwnTidy(c) /\ call[c].op = "invite" /\ ~call[c].killed
      /\ smtp[c] = Counted(notified[c], call[c].ok) /\ accountAudit[c].action # "send"
  BY <1>1 DEF AccountsInv, OwnTidy
<1>3. /\ call' \in [Calls -> CallStates] /\ \A d \in Calls \ {c} : call'[d] = call[d]
      /\ call'[c].at = "over" /\ call'[c].op = "invite" /\ call'[c].target = call[c].target
      /\ call'[c].limit = call[c].limit /\ ~call'[c].killed
  BY <1>1, <1>2, CallMoves DEF CallPoints
<1>4. /\ notified'[c] = smtp[c] /\ notified' \in [Calls -> Tallies]
      /\ \A d \in Calls \ {c} : notified'[d] = notified[d]
  BY <1>1, <1>2 DEF Logged, AccountsInv, AccountsTypeOK
<1>5. OwnTidy(c)' /\ SharedTidy(c)'
  BY <1>1, <1>2, <1>3, <1>4 DEF OwnTidy, SharedTidy
<1>6. OnlyCall(c)
  BY <1>1, <1>3, <1>4 DEF OnlyCall, AccountsInv, AccountsTypeOK
<1>7. \A u \in Users : (InvitedBy(c, u) => InvitedBy(c, u)') /\ ~DeactivatedBy(c, u)
  BY <1>1, <1>2, <1>3 DEF InvitedBy, DeactivatedBy
<1>8. QED
  BY <1>1, <1>5, <1>6, <1>7, CallStep

LEMMA RecordDeactivationKeeps ==
  ASSUME AccountsInv, NEW c \in Calls, RecordDeactivation(c)
  PROVE  AccountsInv'
<1> DEFINE row == [NoAudit EXCEPT !.action = "update", !.about = call[c].target,
                                  !.was = DiffOfLoaded(c)]
<1>1. /\ call[c].at = "saved" /\ call' = [call EXCEPT ![c].at = "over"]
      /\ accountAudit' = [accountAudit EXCEPT ![c] = row]
      /\ UNCHANGED <<account, adminMade, maxUsers, suspended, seatLock, smtp, notified>>
  BY DEF RecordDeactivation
<1>2. /\ OwnTidy(c) /\ SharedTidy(c) /\ call[c].op = "deactivate" /\ ~call[c].killed
      /\ call[c].target \in Users
  BY <1>1 DEF AccountsInv, OwnTidy
<1>3. /\ call' \in [Calls -> CallStates] /\ \A d \in Calls \ {c} : call'[d] = call[d]
      /\ call'[c].at = "over" /\ call'[c].op = "deactivate" /\ call'[c].target = call[c].target
      /\ call'[c].was = call[c].was /\ ~call'[c].killed
  BY <1>1, <1>2, CallMoves DEF CallPoints
<1>4. row \in AuditRows /\ row.action = "update" /\ row.was = call[c].was
  BY <1>2 DEF NoAudit, AuditRows, Nothing, Tallies, DiffOfLoaded, AccountsInv, AccountsTypeOK,
              CallStates
<1> HIDE DEF row
<1>5. /\ accountAudit'[c] = row /\ accountAudit' \in [Calls -> AuditRows]
      /\ \A d \in Calls \ {c} : accountAudit'[d] = accountAudit[d]
  BY <1>1, <1>4 DEF AccountsInv, AccountsTypeOK
<1>6. OwnTidy(c)'
  BY <1>1, <1>2, <1>3, <1>4, <1>5 DEF OwnTidy
<1>7. SharedTidy(c)'
  BY <1>1, <1>2, <1>3 DEF SharedTidy
<1>8. OnlyCall(c)
  BY <1>1, <1>3, <1>5 DEF OnlyCall, AccountsInv, AccountsTypeOK
<1>9. \A u \in Users : ~InvitedBy(c, u) /\ (DeactivatedBy(c, u) => DeactivatedBy(c, u)')
  BY <1>2, <1>3, <1>4, <1>5 DEF InvitedBy, DeactivatedBy
<1>10. QED
  BY <1>1, <1>4, <1>5, <1>6, <1>7, <1>8, <1>9, CallStep

LEMMA LogDocumentKeeps ==
  ASSUME AccountsInv, NEW c \in Calls, LogDocument(c)
  PROVE  AccountsInv'
<1>1. /\ call[c].at = "mailed" /\ call[c].op = "send"
      /\ notified' = [notified EXCEPT ![c] = Logged(c)]
      /\ UNCHANGED <<account, adminMade, maxUsers, suspended, seatLock, smtp, accountAudit>>
  BY DEF LogDocument
<1>2. /\ OwnTidy(c) /\ ~call[c].killed /\ accountAudit[c] = NoAudit
      /\ smtp[c] = Counted(notified[c], call[c].ok) /\ call[c].totals = notified[c]
  BY <1>1 DEF AccountsInv, OwnTidy
<1>3. /\ smtp[c] \in Tallies /\ call[c] \in CallStates /\ call \in [Calls -> CallStates]
  BY DEF AccountsInv, AccountsTypeOK
<1>4. /\ notified'[c] = smtp[c] /\ notified' \in [Calls -> Tallies]
      /\ \A d \in Calls \ {c} : notified'[d] = notified[d]
  BY <1>1, <1>2 DEF Logged, AccountsInv, AccountsTypeOK
<1> DEFINE next == [call[c] EXCEPT !.at = "mailing", !.totals = smtp[c]]
<1>5. call' = [call EXCEPT ![c] = next]
  <2>1. smtp[c] = Counted(call[c].totals, call[c].ok)
    BY <1>2
  <2>2. call' = [call EXCEPT ![c].at = "mailing",
                             ![c].totals = Counted(call[c].totals, call[c].ok)]
    BY <1>3 DEF LogDocument, CallStates
  <2>3. QED
    BY <1>3, <2>1, <2>2 DEF CallStates
<1>6. /\ next \in CallStates /\ next.at = "mailing" /\ next.op = "send"
      /\ next.totals = smtp[c] /\ ~next.killed
  BY <1>1, <1>2, <1>3 DEF CallStates, CallPoints
<1> HIDE DEF next
<1>7. /\ call'[c] = next /\ call' \in [Calls -> CallStates]
      /\ \A d \in Calls \ {c} : call'[d] = call[d]
  BY <1>3, <1>5, <1>6
<1>8. OwnTidy(c)' /\ SharedTidy(c)'
  BY <1>1, <1>2, <1>4, <1>6, <1>7, RowTypes DEF OwnTidy, SharedTidy
<1>9. OnlyCall(c)
  BY <1>1, <1>4, <1>7 DEF OnlyCall, AccountsInv, AccountsTypeOK
<1>10. \A u \in Users : ~InvitedBy(c, u) /\ ~DeactivatedBy(c, u)
  BY <1>1 DEF InvitedBy, DeactivatedBy
<1>11. QED
  BY <1>1, <1>8, <1>9, <1>10, CallStep

LEMMA RecordSendKeeps ==
  ASSUME AccountsInv, NEW c \in Calls, RecordSend(c)
  PROVE  AccountsInv'
<1> DEFINE row == [NoAudit EXCEPT !.action = "send", !.totals = SendTotals(c)]
<1>1. /\ call[c].at = "mailing" /\ call' = [call EXCEPT ![c].at = "over"]
      /\ accountAudit' = [accountAudit EXCEPT ![c] = row]
      /\ UNCHANGED <<account, adminMade, maxUsers, suspended, seatLock, smtp, notified>>
  BY DEF RecordSend
<1>2. /\ OwnTidy(c) /\ call[c].op = "send" /\ ~call[c].killed /\ smtp[c] = notified[c]
      /\ call[c].totals = notified[c]
  BY <1>1 DEF AccountsInv, OwnTidy
<1>3. /\ call' \in [Calls -> CallStates] /\ \A d \in Calls \ {c} : call'[d] = call[d]
      /\ call'[c].at = "over" /\ call'[c].op = "send" /\ ~call'[c].killed
  BY <1>1, <1>2, CallMoves DEF CallPoints
<1>4. row \in AuditRows /\ row.action = "send" /\ row.totals = notified[c]
  BY <1>2 DEF NoAudit, AuditRows, Nothing, Tallies, SendTotals, AccountsInv, AccountsTypeOK,
              CallStates
<1> HIDE DEF row
<1>5. /\ accountAudit'[c] = row /\ accountAudit' \in [Calls -> AuditRows]
      /\ \A d \in Calls \ {c} : accountAudit'[d] = accountAudit[d]
  BY <1>1, <1>4 DEF AccountsInv, AccountsTypeOK
<1>6. OwnTidy(c)' /\ SharedTidy(c)'
  BY <1>1, <1>2, <1>3, <1>4, <1>5 DEF OwnTidy, SharedTidy
<1>7. OnlyCall(c)
  BY <1>1, <1>3, <1>5 DEF OnlyCall, AccountsInv, AccountsTypeOK
<1>8. \A u \in Users : ~InvitedBy(c, u) /\ ~DeactivatedBy(c, u)
  BY <1>2 DEF InvitedBy, DeactivatedBy
<1>9. QED
  BY <1>1, <1>4, <1>5, <1>6, <1>7, <1>8, CallStep

LEMMA CrashCallKeeps ==
  ASSUME AccountsInv, NEW c \in Calls, CrashCall(c)
  PROVE  AccountsInv'
<1>1. /\ call[c].at # "new" /\ call' = [call EXCEPT ![c].at = "over", ![c].killed = TRUE]
      /\ seatLock' = IF seatLock = c THEN None ELSE seatLock
      /\ UNCHANGED <<account, adminMade, maxUsers, suspended, smtp, notified, accountAudit>>
  BY DEF CrashCall
<1>2. /\ OwnTidy(c) /\ SharedTidy(c) /\ call[c] \in CallStates /\ call \in [Calls -> CallStates]
      /\ ~call[c].killed /\ call[c].at # "over"
  BY DEF AccountsInv, AccountsTypeOK, CrashCall
<1>3. \/ smtp[c] = notified[c]
      \/ \E ok \in BOOLEAN : smtp[c] = Counted(notified[c], ok)
  BY <1>2 DEF OwnTidy, CallStates
<1> DEFINE next == [call[c] EXCEPT !.at = "over", !.killed = TRUE]
<1>4. /\ next \in CallStates /\ next.at = "over" /\ next.killed /\ next.op = call[c].op
      /\ next.target = call[c].target /\ next.limit = call[c].limit /\ next.was = call[c].was
  BY <1>2 DEF CallStates, CallPoints
<1>5. call' = [call EXCEPT ![c] = next]
  BY <1>1, <1>2 DEF CallStates
<1> HIDE DEF next
<1>6. /\ call'[c] = next /\ call' \in [Calls -> CallStates]
      /\ \A d \in Calls \ {c} : call'[d] = call[d]
  BY <1>2, <1>4, <1>5
<1>7. OwnTidy(c)'
  BY <1>1, <1>2, <1>3, <1>4, <1>6 DEF OwnTidy
<1>8. SharedTidy(c)'
  BY <1>1, <1>2, <1>4, <1>6 DEF SharedTidy
<1>9. OnlyCall(c)
  BY <1>1, <1>6 DEF OnlyCall, AccountsInv, AccountsTypeOK
<1>10. \A u \in Users : /\ InvitedBy(c, u) => InvitedBy(c, u)'
                        /\ DeactivatedBy(c, u) => DeactivatedBy(c, u)'
  BY <1>1, <1>4, <1>6 DEF InvitedBy, DeactivatedBy
<1>11. QED
  BY <1>1, <1>7, <1>8, <1>9, <1>10, CallStep

(* The account of an invitation becomes visible: a name that nobody had. *)
LEMMA InvitedAccount ==
  ASSUME AccountsInv, NEW c \in Calls, EndInvitation(c), Keeps(c)
  PROVE  /\ call[c].target \in Users /\ account[call[c].target] = "none"
         /\ seatLock = c /\ call[c].limit \in Nat
         /\ account' = [account EXCEPT ![call[c].target] = "active"]
         /\ Seated' = Seated \cup {call[c].target}
         /\ Seated' \ adminMade' = (Seated \ adminMade) \cup {call[c].target}
         /\ Invited' = Invited \cup {call[c].target}
         /\ Cardinality(Seated' \ adminMade') <= call[c].limit
<1> DEFINE t == call[c].target
<1>1. call[c].at = "mailed" /\ call[c].op = "invite" /\ OwnTidy(c) /\ SharedTidy(c)
  BY DEF EndInvitation, AccountsInv
<1>2. /\ t \in Users /\ account[t] = "none" /\ seatLock = c /\ call[c].limit \in Limits
      /\ Cardinality(Seated \ adminMade) < call[c].limit
  BY <1>1 DEF OwnTidy, SharedTidy
<1>3. account' = [account EXCEPT ![t] = "active"] /\ adminMade' = adminMade
  BY DEF EndInvitation
<1> HIDE DEF t
<1>4. Seated' = Seated \cup {t}
  BY <1>2, <1>3 DEF Seated, AccountsInv, AccountsTypeOK
<1>5. t \notin Seated /\ t \notin adminMade /\ t \notin Admins
  BY <1>2 DEF Seated, AccountsInv, RowsTidy
<1>6. /\ Seated' \ adminMade' = (Seated \ adminMade) \cup {t}
      /\ Invited' = Invited \cup {t}
  BY <1>3, <1>4, <1>5 DEF Invited
<1>7. IsFiniteSet(Seated \ adminMade)
  BY AccountsAssumption, FS_Subset DEF Seated
<1>8. Cardinality((Seated \ adminMade) \cup {t}) = Cardinality(Seated \ adminMade) + 1
  BY <1>5, <1>7, FS_AddElement
<1>9. Cardinality(Seated \ adminMade) \in Nat /\ call[c].limit \in Nat
  BY <1>2, <1>7, FS_CardinalityType, AccountsAssumption
<1>10. Cardinality(Seated' \ adminMade') <= call[c].limit
  BY <1>2, <1>6, <1>8, <1>9
<1>11. QED
  BY <1>2, <1>3, <1>4, <1>6, <1>9, <1>10 DEF t

LEMMA EndInvitationKeeps ==
  ASSUME AccountsInv, NEW c \in Calls, EndInvitation(c)
  PROVE  AccountsInv'
<1>1. /\ call[c].at = "mailed" /\ call[c].op = "invite" /\ seatLock' = None
      /\ call' = [call EXCEPT ![c].at = "settled"]
      /\ UNCHANGED <<adminMade, maxUsers, suspended, smtp, notified>>
  BY DEF EndInvitation
<1>2. /\ OwnTidy(c) /\ SharedTidy(c) /\ ~call[c].killed /\ accountAudit[c] = NoAudit
      /\ smtp[c] = Counted(Nothing, call[c].ok) /\ notified[c] = Nothing
      /\ call[c].target \in Users /\ seatLock = c
  BY <1>1 DEF AccountsInv, OwnTidy, SharedTidy
<1>3. /\ call' \in [Calls -> CallStates] /\ \A d \in Calls \ {c} : call'[d] = call[d]
      /\ call'[c].at = "settled" /\ call'[c].op = "invite" /\ call'[c].target = call[c].target
      /\ call'[c].limit = call[c].limit /\ call'[c].ok = call[c].ok /\ ~call'[c].killed
  BY <1>1, <1>2, CallMoves DEF CallPoints
<1>4. CASE ~Keeps(c)
  <2>1. UNCHANGED <<account, accountAudit>>
    BY <1>4 DEF EndInvitation
  <2>2. OwnTidy(c)' /\ SharedTidy(c)'
    BY <1>1, <1>2, <1>3, <2>1, RowTypes DEF OwnTidy, SharedTidy
  <2>3. OnlyCall(c)
    BY <1>1, <1>2, <1>3, <2>1 DEF OnlyCall, AccountsInv, AccountsTypeOK
  <2>4. \A u \in Users : ~InvitedBy(c, u) /\ ~DeactivatedBy(c, u)
    BY <1>1, <1>2, RowTypes DEF InvitedBy, DeactivatedBy
  <2>5. QED
    BY <1>1, <2>1, <2>2, <2>3, <2>4, CallStep
<1>5. CASE Keeps(c)
  <2> DEFINE row == [NoAudit EXCEPT !.action = "create", !.about = call[c].target]
  <2>1. /\ row \in AuditRows /\ row.action = "create" /\ row.about = call[c].target
        /\ accountAudit' = [accountAudit EXCEPT ![c] = row]
    BY <1>2, <1>5 DEF NoAudit, AuditRows, Nothing, Tallies, EndInvitation
  <2> HIDE DEF row
  <2>2. /\ accountAudit'[c] = row /\ accountAudit' \in [Calls -> AuditRows]
        /\ \A d \in Calls \ {c} : accountAudit'[d] = accountAudit[d]
    BY <2>1 DEF AccountsInv, AccountsTypeOK
  <2>3. PICK t \in Users :
          /\ t = call[c].target /\ account[t] = "none"
          /\ account' = [account EXCEPT ![t] = "active"]
          /\ Seated' = Seated \cup {t} /\ Invited' = Invited \cup {t}
    BY <1>5, InvitedAccount
  <2>4. AccountsTypeOK'
    BY <1>1, <1>3, <2>2, <2>3 DEF AccountsInv, AccountsTypeOK
  <2>5. \A u \in Users \ {t} : account'[u] = account[u]
    BY <2>3 DEF AccountsInv, AccountsTypeOK
  <2>6. account'[t] = "active"
    BY <2>3 DEF AccountsInv, AccountsTypeOK
  <2>7. smtp[c].sent = 1
    BY <1>2, <1>5 DEF Keeps, Counted, Nothing
  <2>8. RowsTidy'
    <3>1. Admins \subseteq Seated' /\ adminMade' \subseteq Seated'
      BY <1>1, <2>3 DEF AccountsInv, RowsTidy
    <3>2. InvitedBy(c, t)'
      BY <1>1, <1>3, <2>1, <2>2, <2>3, <2>7 DEF InvitedBy
    <3>3. ASSUME NEW d \in Calls, NEW u \in Users PROVE InvitedBy(d, u) => InvitedBy(d, u)'
      <4>1. CASE d = c
        BY <1>2, <4>1, RowTypes DEF InvitedBy
      <4>2. CASE d # c
        BY <1>1, <1>3, <2>2, <4>2 DEF InvitedBy
      <4>3. QED
        BY <4>1, <4>2
    <3>4. ASSUME NEW d \in Calls, NEW u \in Users PROVE DeactivatedBy(d, u) => DeactivatedBy(d, u)'
      <4>1. CASE d = c
        BY <1>1, <4>1 DEF DeactivatedBy
      <4>2. CASE d # c
        BY <1>3, <2>2, <4>2 DEF DeactivatedBy
      <4>3. QED
        BY <4>1, <4>2
    <3>5. Invited \subseteq Users
      BY DEF Invited, Seated
    <3>6. \A u \in Invited' : \E d \in Calls : InvitedBy(d, u)'
      BY <2>3, <3>2, <3>3, <3>5 DEF AccountsInv, RowsTidy
    <3>7. \A d \in Calls : accountAudit'[d].action = "create" => accountAudit'[d].about \in Invited'
      BY <2>1, <2>2, <2>3 DEF AccountsInv, RowsTidy
    <3>8. \A u \in Users : account'[u] = "inactive" => \E d \in Calls : DeactivatedBy(d, u)'
      BY <2>5, <2>6, <3>4 DEF AccountsInv, RowsTidy
    <3>9. QED
      BY <3>1, <3>6, <3>7, <3>8 DEF RowsTidy
  <2>9. OwnTidy(c)'
    BY <1>1, <1>2, <1>3, <2>1, <2>2 DEF OwnTidy
  <2>10. SharedTidy(c)'
    BY <1>1, <1>3 DEF SharedTidy
  <2>11. ASSUME NEW d \in Calls \ {c} PROVE OwnTidy(d)' /\ SharedTidy(d)'
    <3>1. OwnTidy(d) /\ SharedTidy(d) /\ call'[d] = call[d]
      BY <1>3 DEF AccountsInv
    <3>2. OwnTidy(d)'
      BY <1>1, <2>2, <3>1 DEF OwnTidy
    <3>3. ~(call[d].op = "invite" /\ call[d].at \in {"inserted", "mailed"})
      BY <1>2, <3>1 DEF SharedTidy
    <3>4. call[d].op = "deactivate" => call[d].target \in Users \ {t}
      BY <2>3, <3>1 DEF OwnTidy, SharedTidy
    <3>5. SharedTidy(d)'
      BY <2>5, <3>1, <3>3, <3>4 DEF SharedTidy
    <3>6. QED
      BY <3>2, <3>5
  <2>12. QED
    BY <2>4, <2>8, <2>9, <2>10, <2>11 DEF AccountsInv
<1>6. QED
  BY <1>4, <1>5

LEMMA SaveInactiveKeeps ==
  ASSUME AccountsInv, NEW c \in Calls, SaveInactive(c)
  PROVE  AccountsInv'
<1>1. /\ call[c].at = "loaded" /\ call[c].op = "deactivate"
      /\ account' = [account EXCEPT ![call[c].target] = "inactive"]
      /\ call' = [call EXCEPT ![c].at = "saved"]
      /\ UNCHANGED <<adminMade, maxUsers, suspended, seatLock, smtp, notified, accountAudit>>
  BY DEF SaveInactive
<1>2. /\ OwnTidy(c) /\ SharedTidy(c) /\ ~call[c].killed /\ accountAudit[c] = NoAudit
      /\ smtp[c] = notified[c]
  BY <1>1 DEF AccountsInv, OwnTidy
<1>3. PICK t \in Users : t = call[c].target
  BY <1>1, <1>2 DEF OwnTidy
<1>4. account[t] # "none" /\ call[c].was # "none" /\ (call[c].was = "inactive" => account[t] = "inactive")
  BY <1>1, <1>2, <1>3 DEF SharedTidy
<1>5. /\ call' \in [Calls -> CallStates] /\ \A d \in Calls \ {c} : call'[d] = call[d]
      /\ call'[c].at = "saved" /\ call'[c].op = "deactivate" /\ call'[c].target = t
      /\ call'[c].was = call[c].was /\ ~call'[c].killed
  BY <1>1, <1>2, <1>3, CallMoves DEF CallPoints
<1>6. /\ account' \in [Users -> {"none", "active", "inactive"}] /\ account'[t] = "inactive"
      /\ \A u \in Users \ {t} : account'[u] = account[u]
  BY <1>1, <1>3 DEF AccountsInv, AccountsTypeOK
<1>7. AccountsTypeOK'
  BY <1>1, <1>5, <1>6 DEF AccountsInv, AccountsTypeOK
<1>8. Seated' = Seated /\ Invited' = Invited
  BY <1>1, <1>4, <1>6 DEF Seated, Invited
<1>9. RowsTidy'
  <2>1. ASSUME NEW d \in Calls, NEW u \in Users PROVE InvitedBy(d, u) => InvitedBy(d, u)'
    BY <1>1, <1>5 DEF InvitedBy
  <2>2. ASSUME NEW d \in Calls, NEW u \in Users, DeactivatedBy(d, u) PROVE DeactivatedBy(d, u)'
    <3>1. CASE d = c
      BY <1>1, <1>3, <1>5, <2>2, <3>1 DEF DeactivatedBy
    <3>2. CASE d # c
      BY <1>1, <1>5, <2>2, <3>2 DEF DeactivatedBy
    <3>3. QED
      BY <3>1, <3>2
  <2>3. ASSUME NEW u \in Users, account'[u] = "inactive" PROVE \E d \in Calls : DeactivatedBy(d, u)'
    <3>1. CASE account[u] = "inactive"
      BY <2>2, <3>1 DEF AccountsInv, RowsTidy
    <3>2. CASE account[u] # "inactive"
      <4>1. u = t /\ call[c].was = "active"
        BY <1>4, <1>6, <2>3, <3>2 DEF AccountsInv, AccountsTypeOK, CallStates
      <4>2. DeactivatedBy(c, u)'
        BY <1>5, <4>1 DEF DeactivatedBy
      <4>3. QED
        BY <4>2
    <3>3. QED
      BY <3>1, <3>2
  <2>4. Invited \subseteq Users
    BY DEF Invited, Seated
  <2>5. QED
    BY <1>1, <1>8, <2>1, <2>3, <2>4 DEF AccountsInv, RowsTidy
<1>10. OwnTidy(c)'
  BY <1>1, <1>2, <1>3, <1>5, RowTypes DEF OwnTidy
<1>11. SharedTidy(c)'
  BY <1>1, <1>4, <1>5, <1>6 DEF SharedTidy
<1>12. ASSUME NEW d \in Calls \ {c} PROVE OwnTidy(d)' /\ SharedTidy(d)'
  <2>1. OwnTidy(d) /\ SharedTidy(d) /\ call'[d] = call[d]
    BY <1>5 DEF AccountsInv
  <2>2. OwnTidy(d)'
    BY <1>1, <2>1 DEF OwnTidy
  <2>3. call[d].op \in {"invite", "deactivate"} => call[d].target \in Users
    BY <2>1 DEF OwnTidy
  <2>4. SharedTidy(d)'
    BY <1>1, <1>4, <1>6, <1>8, <2>1, <2>3 DEF SharedTidy
  <2>5. QED
    BY <2>2, <2>4
<1>13. QED
  BY <1>7, <1>9, <1>10, <1>11, <1>12 DEF AccountsInv

(* The admin site adds an account that no invitation is about to create. *)
LEMMA AdminCreateKeeps ==
  ASSUME AccountsInv, NEW u \in Users, AdminCreate(u)
  PROVE  AccountsInv'
<1>1. /\ account[u] = "none" /\ account' = [account EXCEPT ![u] = "active"]
      /\ adminMade' = adminMade \cup {u}
      /\ \A c \in Calls : call[c].at \in {"inserted", "mailed"} => call[c].target # u
      /\ UNCHANGED <<maxUsers, suspended, seatLock, call, smtp, notified, accountAudit>>
  BY DEF AdminCreate
<1>2. account'[u] = "active" /\ \A v \in Users \ {u} : account'[v] = account[v]
  BY <1>1 DEF AccountsInv, AccountsTypeOK
<1>3. AccountsTypeOK'
  BY <1>1 DEF AccountsInv, AccountsTypeOK
<1>4. Seated' = Seated \cup {u} /\ u \notin Seated
  BY <1>1, <1>2 DEF Seated
<1>5. Seated' \ adminMade' = Seated \ adminMade /\ Invited' = Invited
  <2>1. u \notin adminMade
    BY <1>4 DEF AccountsInv, RowsTidy
  <2>2. QED
    BY <1>1, <1>4, <2>1 DEF Invited
<1>6. RowsTidy'
  <2>1. Admins \subseteq Seated' /\ adminMade' \subseteq Seated'
    BY <1>1, <1>4 DEF AccountsInv, RowsTidy
  <2>2. \A c \in Calls, v \in Users : /\ InvitedBy(c, v)' <=> InvitedBy(c, v)
                                      /\ DeactivatedBy(c, v)' <=> DeactivatedBy(c, v)
    BY <1>1 DEF InvitedBy, DeactivatedBy
  <2>3. \A v \in Users : account'[v] = "inactive" => account[v] = "inactive"
    BY <1>2
  <2>4. Invited \subseteq Users
    BY DEF Invited, Seated
  <2>5. QED
    BY <1>1, <1>5, <2>1, <2>2, <2>3, <2>4 DEF AccountsInv, RowsTidy
<1>7. ASSUME NEW c \in Calls PROVE OwnTidy(c)' /\ SharedTidy(c)'
  <2>1. OwnTidy(c) /\ SharedTidy(c)
    BY DEF AccountsInv
  <2>2. OwnTidy(c)'
    BY <1>1, <2>1 DEF OwnTidy
  <2>3. call[c].op \in {"invite", "deactivate"} => call[c].target \in Users
    BY <2>1 DEF OwnTidy
  <2>4. SharedTidy(c)'
    BY <1>1, <1>2, <1>5, <2>1, <2>3 DEF SharedTidy
  <2>5. QED
    BY <2>2, <2>4
<1>8. QED
  BY <1>3, <1>6, <1>7 DEF AccountsInv

(* No account and no call changes. *)
LEMMA AccountsStand ==
  ASSUME AccountsInv, maxUsers' \in Limits, suspended' \in BOOLEAN,
         UNCHANGED <<account, adminMade, seatLock, call, smtp, notified, accountAudit>>
  PROVE  AccountsInv'
<1>1. AccountsTypeOK'
  BY DEF AccountsInv, AccountsTypeOK
<1>2. Seated' = Seated /\ Invited' = Invited
  BY DEF Seated, Invited
<1>3. \A c \in Calls, u \in Users : /\ InvitedBy(c, u)' <=> InvitedBy(c, u)
                                    /\ DeactivatedBy(c, u)' <=> DeactivatedBy(c, u)
  BY DEF InvitedBy, DeactivatedBy
<1>4. Invited \subseteq Users
  BY DEF Invited, Seated
<1>5. RowsTidy'
  BY <1>2, <1>3, <1>4 DEF AccountsInv, RowsTidy
<1>6. ASSUME NEW c \in Calls PROVE OwnTidy(c)' /\ SharedTidy(c)'
  <2>1. OwnTidy(c) /\ SharedTidy(c)
    BY DEF AccountsInv
  <2>2. OwnTidy(c)'
    BY <2>1 DEF OwnTidy
  <2>3. SharedTidy(c)'
    BY <1>2, <2>1 DEF SharedTidy
  <2>4. QED
    BY <2>2, <2>3
<1>7. QED
  BY <1>1, <1>5, <1>6 DEF AccountsInv

LEMMA StepAccounts == AccountsInv /\ [AccountsNext]_accountsVars => AccountsInv'
<1> SUFFICES ASSUME AccountsInv, [AccountsNext]_accountsVars PROVE AccountsInv'
  OBVIOUS
<1>1. ASSUME NEW c \in Calls, InsertAccount(c) PROVE AccountsInv'
  BY <1>1, InsertAccountKeeps
<1>2. ASSUME NEW c \in Calls, EndInvitation(c) PROVE AccountsInv'
  BY <1>2, EndInvitationKeeps
<1>3. ASSUME NEW c \in Calls, LogInvitation(c) PROVE AccountsInv'
  BY <1>3, LogInvitationKeeps
<1>4. ASSUME NEW c \in Calls, SaveInactive(c) PROVE AccountsInv'
  BY <1>4, SaveInactiveKeeps
<1>5. ASSUME NEW c \in Calls, RecordDeactivation(c) PROVE AccountsInv'
  BY <1>5, RecordDeactivationKeeps
<1>6. ASSUME NEW c \in Calls, LogDocument(c) PROVE AccountsInv'
  BY <1>6, LogDocumentKeeps
<1>7. ASSUME NEW c \in Calls, RecordSend(c) PROVE AccountsInv'
  BY <1>7, RecordSendKeeps
<1>8. ASSUME NEW c \in Calls, CrashCall(c) PROVE AccountsInv'
  BY <1>8, CrashCallKeeps
<1>9. ASSUME NEW c \in Calls, NEW ok \in BOOLEAN,
             MailInvitation(c, ok) \/ \E u \in Users : MailDocument(c, u, ok)
      PROVE  AccountsInv'
  BY <1>9, MailKeeps
<1>10. ASSUME NEW c \in Calls,
              \/ \E u \in Users : BeginInvite(c, u) \/ BeginDeactivation(c, u)
              \/ \E to \in SUBSET Users : BeginSend(c, to)
       PROVE  AccountsInv'
  BY <1>10, BeginAccounts
<1>11. ASSUME NEW u \in Users, AdminCreate(u) PROVE AccountsInv'
  BY <1>11, AdminCreateKeeps
<1>12. ASSUME (\E n \in Limits : AdminLimit(n)) \/ AdminSuspend \/ UNCHANGED accountsVars
       PROVE  AccountsInv'
  <2>1. /\ maxUsers' \in Limits /\ suspended' \in BOOLEAN
        /\ UNCHANGED <<account, adminMade, seatLock, call, smtp, notified, accountAudit>>
    BY <1>12 DEF AdminLimit, AdminSuspend, accountsVars, AccountsInv, AccountsTypeOK
  <2>2. QED
    BY <2>1, AccountsStand
<1>13. QED
  BY <1>1, <1>2, <1>3, <1>4, <1>5, <1>6, <1>7, <1>8, <1>9, <1>10, <1>11, <1>12 DEF AccountsNext

LEMMA AccountsInvHolds == AccountsSpec => []AccountsInv
BY InitAccounts, StepAccounts, PTL DEF AccountsSpec

(* Accounts, calls and tallies keep their types. *)
THEOREM TypesHold == AccountsSpec => []AccountsTypeOK
<1>1. AccountsInv => AccountsTypeOK
  BY DEF AccountsInv
<1>2. QED
  BY <1>1, AccountsInvHolds, PTL

(* An account that was invited has its mail and its row, and a row its account. *)
THEOREM InvitationHolds == AccountsSpec => []InvitationIsWhole
<1>1. AccountsInv => InvitationIsWhole
  <2> SUFFICES ASSUME AccountsInv PROVE InvitationIsWhole
    OBVIOUS
  <2>1. RowsTidy
    BY DEF AccountsInv
  <2>2. QED
    BY <2>1 DEF RowsTidy, InvitedBy, InvitationIsWhole
<1>2. QED
  BY <1>1, AccountsInvHolds, PTL

(* Only a worker that dies loses the row of a message. *)
THEOREM MailHolds == AccountsSpec => []MailIsLogged
<1>1. AccountsInv => MailIsLogged
  <2> SUFFICES ASSUME AccountsInv, NEW c \in Calls
               PROVE  /\ \/ smtp[c] = notified[c]
                         \/ /\ \E ok \in BOOLEAN : smtp[c] = Counted(notified[c], ok)
                            /\ call[c].at \in {"mailed", "settled"} \/ call[c].killed
                      /\ accountAudit[c].action = "send" =>
                           accountAudit[c].totals = notified[c]
    BY DEF MailIsLogged
  <2>1. OwnTidy(c) /\ call[c].ok \in BOOLEAN
    BY DEF AccountsInv, AccountsTypeOK, CallStates
  <2>2. QED
    BY <2>1 DEF OwnTidy
<1>2. QED
  BY <1>1, AccountsInvHolds, PTL

(* Only a worker that dies loses the row of a deactivation. *)
THEOREM DeactivationHolds == AccountsSpec => []DeactivationIsAudited
<1>1. AccountsInv => DeactivationIsAudited
  <2> SUFFICES ASSUME AccountsInv PROVE DeactivationIsAudited
    OBVIOUS
  <2>1. RowsTidy
    BY DEF AccountsInv
  <2>2. QED
    BY <2>1 DEF RowsTidy, DeactivatedBy, DeactivationIsAudited
<1>2. QED
  BY <1>1, AccountsInvHolds, PTL

(* Only its own end settles an invitation. *)
LEMMA OnlyItsEnd ==
  ASSUME AccountsInv, [AccountsNext]_accountsVars, NEW c \in Calls,
         call[c].op = "invite", call[c].at = "mailed", call'[c].at = "settled"
  PROVE  EndInvitation(c)
<1>1. call \in [Calls -> CallStates] /\ call[c] \in CallStates
  BY DEF AccountsInv, AccountsTypeOK
<1>2. ~UNCHANGED call
  OBVIOUS
<1>3. ASSUME NEW d \in Calls,
             \/ InsertAccount(d) \/ LogInvitation(d) \/ SaveInactive(d) \/ RecordDeactivation(d)
             \/ RecordSend(d)
      PROVE  FALSE
  <2>1. PICK at \in {"over", "inserted", "saved"} : call' = [call EXCEPT ![d].at = at]
    BY <1>3 DEF InsertAccount, LogInvitation, SaveInactive, RecordDeactivation, RecordSend
  <2>2. CASE d = c
    <3>1. call'[c].at = at
      BY <1>1, <2>1, <2>2 DEF CallStates
    <3>2. QED
      BY <3>1
  <2>3. CASE d # c
    BY <1>1, <2>1, <2>3
  <2>4. QED
    BY <2>2, <2>3
<1>4. ASSUME NEW d \in Calls, NEW ok \in BOOLEAN,
             MailInvitation(d, ok) \/ \E u \in Users : MailDocument(d, u, ok)
      PROVE  FALSE
  <2>1. call[d].at # "mailed"
    BY <1>4 DEF MailInvitation, MailDocument
  <2>2. d # c
    BY <2>1
  <2>3. call'[c] = call[c]
    BY <1>1, <1>4, <2>2 DEF MailInvitation, MailDocument
  <2>4. QED
    BY <2>3
<1>5. ASSUME NEW d \in Calls, LogDocument(d) PROVE FALSE
  <2>1. d # c
    BY <1>5 DEF LogDocument
  <2>2. call'[c] = call[c]
    BY <1>1, <1>5, <2>1 DEF LogDocument
  <2>3. QED
    BY <2>2
<1>6. ASSUME NEW d \in Calls, CrashCall(d) PROVE FALSE
  <2>1. CASE d # c
    BY <1>1, <1>6, <2>1 DEF CrashCall
  <2>2. CASE d = c
    BY <1>1, <1>6, <2>2 DEF CrashCall, CallStates
  <2>3. QED
    BY <2>1, <2>2
<1>7. ASSUME NEW d \in Calls, NEW state, Opens(d, state) PROVE FALSE
  <2>1. d # c
    BY <1>7 DEF Opens
  <2>2. call'[c] = call[c]
    BY <1>1, <1>7, <2>1 DEF Opens
  <2>3. QED
    BY <2>2
<1>8. ASSUME NEW d \in Calls,
             \/ \E u \in Users : BeginInvite(d, u) \/ BeginDeactivation(d, u)
             \/ \E to \in SUBSET Users : BeginSend(d, to)
      PROVE  FALSE
  BY <1>7, <1>8 DEF BeginInvite, BeginDeactivation, BeginSend
<1>9. ASSUME NEW d \in Calls, EndInvitation(d) PROVE d = c
  BY <1>1, <1>9 DEF EndInvitation
<1>10. UNCHANGED call \/ \E d \in Calls :
         \/ InsertAccount(d) \/ EndInvitation(d) \/ LogInvitation(d)
         \/ SaveInactive(d) \/ RecordDeactivation(d)
         \/ LogDocument(d) \/ RecordSend(d) \/ CrashCall(d)
         \/ \E ok \in BOOLEAN : MailInvitation(d, ok) \/ \E u \in Users : MailDocument(d, u, ok)
         \/ \E u \in Users : BeginInvite(d, u) \/ BeginDeactivation(d, u)
         \/ \E to \in SUBSET Users : BeginSend(d, to)
  BY DEF AccountsNext, accountsVars, AdminCreate, AdminLimit, AdminSuspend
<1>11. QED
  BY <1>2, <1>3, <1>4, <1>5, <1>6, <1>8, <1>9, <1>10

(* What SeatsHeld says of one step. *)
SeatsStep ==
  \A c \in Calls :
    call[c].op = "invite" /\ account'[call[c].target] = "active"
        /\ call'[c].at = "settled" /\ call[c].at = "mailed" =>
      Cardinality(Seated' \ adminMade') <= call[c].limit

(* Invitations at once do not share the last seat, for any number of them and any limit. *)
THEOREM SeatsHold == AccountsSpec => SeatsHeld
<1>1. ASSUME AccountsInv, [AccountsNext]_accountsVars, NEW c \in Calls,
             call[c].op = "invite" /\ account'[call[c].target] = "active"
               /\ call'[c].at = "settled" /\ call[c].at = "mailed"
      PROVE  Cardinality(Seated' \ adminMade') <= call[c].limit
  <2>1. EndInvitation(c)
    BY <1>1, OnlyItsEnd
  <2>2. SharedTidy(c)
    BY <1>1 DEF AccountsInv
  <2>3. account[call[c].target] = "none"
    BY <1>1, <2>2 DEF SharedTidy
  <2>4. Keeps(c)
    BY <1>1, <2>1, <2>3 DEF EndInvitation
  <2>5. QED
    BY <1>1, <2>1, <2>4, InvitedAccount
<1>2. AccountsInv /\ [AccountsNext]_accountsVars => [SeatsStep]_accountsVars
  BY <1>1 DEF SeatsStep
<1>3. AccountsSpec => [][SeatsStep]_accountsVars
  BY <1>2, AccountsInvHolds, PTL DEF AccountsSpec
<1>4. QED
  BY <1>3 DEF SeatsHeld, SeatsStep
=============================================================================

------------------------------ MODULE Accounts ------------------------------
(***************************************************************************)
(* The accounts of one company, its seats, and the mail the panel sends    *)
(* (apps/accounts, apps/reports: mailer.py, _handle_send).                 *)
(*                                                                         *)
(* A call is one POST of the panel, sent once.  Views run in autocommit:   *)
(* each statement is its own transaction, except for the block of          *)
(* user_invite, which sends its mail before it commits.                    *)
(***************************************************************************)
EXTENDS Naturals, FiniteSets, Sql

CONSTANTS
  Users,        \* names an account may have
  Admins,       \* the administrators, who have an account from the start
  Limits,       \* values of max_users; bound
  Calls         \* POSTs of the panel, each sent once; bound

ASSUME AccountsAssumption ==
  /\ Admins \subseteq Users
  /\ Limits \subseteq Nat
  /\ IsFiniteSet(Users)
  /\ None \notin Users /\ None \notin Calls /\ None \notin Limits

VARIABLES
  account,      \* [Users -> {"none", "active", "inactive"}]
  adminMade,    \* accounts that Django's admin site has added since
  maxUsers,     \* the limit of the subscription
  suspended,    \* the company is suspended or deactivated
  seatLock,     \* the call that holds the subscription's row
  call,         \* [Calls -> CallStates]
  smtp,         \* [Calls -> Tallies]: what the relay was given, and what it refused
  notified,     \* [Calls -> Tallies]: rows of NotificationLog
  accountAudit  \* [Calls -> AuditRows]: the audit row of a call

accountsVars == <<account, adminMade, maxUsers, suspended, seatLock, call, smtp, notified,
                  accountAudit>>

Tallies == [sent : Nat, failed : Nat]

Nothing == [sent |-> 0, failed |-> 0]

\* «create» and «update» rows name an account, «send» rows count deliveries.
AuditRows == [action : {"none", "create", "update", "send"}, about : Users \cup {None},
              was : {"none", "active", "inactive"}, totals : Tallies]

NoAudit == [action |-> "none", about |-> None, was |-> "none", totals |-> Nothing]

\* «at» is where a call stands; «killed» where its worker died.
CallPoints == {"new", "loaded", "inserted", "mailing", "mailed", "settled", "saved", "over"}

CallStates == [at : CallPoints, op : {"none", "invite", "deactivate", "send"},
               target : Users \cup {None}, limit : Limits \cup {None},
               was : {"none", "active", "inactive"}, left : SUBSET Users,
               ok : BOOLEAN, totals : Tallies, killed : BOOLEAN]

NewCall == [at |-> "new", op |-> "none", target |-> None, limit |-> None, was |-> "none",
            left |-> {}, ok |-> FALSE, totals |-> Nothing, killed |-> FALSE]

AccountsInit ==
  /\ account = [u \in Users |-> IF u \in Admins THEN "active" ELSE "none"]
  /\ adminMade = {}
  /\ maxUsers \in Limits
  /\ suspended = FALSE
  /\ seatLock = None
  /\ call = [c \in Calls |-> NewCall]
  /\ smtp = [c \in Calls |-> Nothing]
  /\ notified = [c \in Calls |-> Nothing]
  /\ accountAudit = [c \in Calls |-> NoAudit]

Seated == {u \in Users : account[u] # "none"}

Invited == Seated \ (adminMade \cup Admins)

\* SuspensionMiddleware, and a session of an active administrator.
PanelIsOpen == ~suspended /\ \E u \in Admins : account[u] = "active"

\* One message more, with its outcome.
Counted(tally, ok) ==
  IF ok THEN [tally EXCEPT !.sent = @ + 1] ELSE [tally EXCEPT !.failed = @ + 1]

Total(tally) == tally.sent + tally.failed

-----------------------------------------------------------------------------
(* Invitations. *)

Opens(c, state) ==
  /\ call[c].at = "new"
  /\ PanelIsOpen
  /\ call' = [call EXCEPT ![c] = state]
  /\ UNCHANGED <<account, adminMade, maxUsers, suspended, seatLock, smtp, notified, accountAudit>>

\* user_invite: the form finds the name free; the limit is the one the middleware
\* loaded with the company.
BeginInvite(c, u) ==
  /\ account[u] = "none"
  /\ Opens(c, [NewCall EXCEPT !.at = "loaded", !.op = "invite", !.target = u,
                              !.limit = maxUsers])

\* Mutant: the count does not wait for the other invitation.
SeatsAreFree == TRUE

\* select_for_update on the subscription
SubscriptionIsFree == seatLock = None

\* _seats_full counts all accounts of the company, against the limit loaded before.
SeatsFull(c) == Cardinality(Seated) >= call[c].limit

\* The account and its audit row, uncommitted; no seat, or a name taken meanwhile,
\* ends the request.
InsertAccount(c) ==
  /\ call[c].at = "loaded" /\ call[c].op = "invite"
  /\ SubscriptionIsFree
  /\ IF SeatsFull(c) \/ account[call[c].target] # "none"
     THEN /\ call' = [call EXCEPT ![c].at = "over"]
          /\ UNCHANGED seatLock
     ELSE /\ call' = [call EXCEPT ![c].at = "inserted"]
          /\ seatLock' = c
  /\ UNCHANGED <<account, adminMade, maxUsers, suspended, smtp, notified, accountAudit>>

\* deliver: the relay takes the message or not; nothing is raised.
MailInvitation(c, ok) ==
  /\ call[c].at = "inserted"
  /\ smtp' = [smtp EXCEPT ![c] = Counted(@, ok)]
  /\ call' = [call EXCEPT ![c].at = "mailed", ![c].ok = ok]
  /\ UNCHANGED <<account, adminMade, maxUsers, suspended, seatLock, notified, accountAudit>>

\* Mutant: a mail that failed does not undo the account.
AlwaysKeeps(c) == TRUE

\* set_rollback when the delivery failed.
Keeps(c) == call[c].ok

\* The block ends: account and audit row become visible together, or neither does.
EndInvitation(c) ==
  /\ call[c].at = "mailed" /\ call[c].op = "invite"
  /\ IF Keeps(c)
     THEN /\ account' = [account EXCEPT ![call[c].target] = "active"]
          /\ accountAudit' = [accountAudit EXCEPT ![c] =
               [NoAudit EXCEPT !.action = "create", !.about = call[c].target]]
     ELSE UNCHANGED <<account, accountAudit>>
  /\ seatLock' = None
  /\ call' = [call EXCEPT ![c].at = "settled"]
  /\ UNCHANGED <<adminMade, maxUsers, suspended, smtp, notified>>

\* Mutant: only messages that went out leave a row.
LoggedIfSent(c) == IF call[c].ok THEN Counted(notified[c], TRUE) ELSE notified[c]

\* mailer.log: the row of the last message, sent or not.
Logged(c) == Counted(notified[c], call[c].ok)

LogInvitation(c) ==
  /\ call[c].at = "settled"
  /\ notified' = [notified EXCEPT ![c] = Logged(c)]
  /\ call' = [call EXCEPT ![c].at = "over"]
  /\ UNCHANGED <<account, adminMade, maxUsers, suspended, seatLock, smtp, accountAudit>>

-----------------------------------------------------------------------------
(* Deactivations. *)

\* user_deactivate loads the account.
BeginDeactivation(c, u) ==
  /\ account[u] # "none"
  /\ Opens(c, [NewCall EXCEPT !.at = "loaded", !.op = "deactivate", !.target = u,
                              !.was = account[u]])

SaveInactive(c) ==
  /\ call[c].at = "loaded" /\ call[c].op = "deactivate"
  /\ account' = [account EXCEPT ![call[c].target] = "inactive"]
  /\ call' = [call EXCEPT ![c].at = "saved"]
  /\ UNCHANGED <<adminMade, maxUsers, suspended, seatLock, smtp, notified, accountAudit>>

\* Mutant: the row compares the account with itself.
DiffOfNow(c) == account[call[c].target]

\* audit.diff against the account as it was loaded.
DiffOfLoaded(c) == call[c].was

RecordDeactivation(c) ==
  /\ call[c].at = "saved"
  /\ accountAudit' = [accountAudit EXCEPT ![c] =
       [NoAudit EXCEPT !.action = "update", !.about = call[c].target, !.was = DiffOfLoaded(c)]]
  /\ call' = [call EXCEPT ![c].at = "over"]
  /\ UNCHANGED <<account, adminMade, maxUsers, suspended, seatLock, smtp, notified>>

-----------------------------------------------------------------------------
(* Documents sent by mail. *)

\* asset_record_send, work_order_report_send: to active accounts, one message each.
BeginSend(c, to) ==
  /\ to # {}
  /\ \A u \in to : account[u] = "active"
  /\ Opens(c, [NewCall EXCEPT !.at = "mailing", !.op = "send", !.left = to])

MailDocument(c, u, ok) ==
  /\ call[c].at = "mailing"
  /\ u \in call[c].left
  /\ smtp' = [smtp EXCEPT ![c] = Counted(@, ok)]
  /\ call' = [call EXCEPT ![c].at = "mailed", ![c].ok = ok, ![c].left = @ \ {u}]
  /\ UNCHANGED <<account, adminMade, maxUsers, suspended, seatLock, notified, accountAudit>>

LogDocument(c) ==
  /\ call[c].at = "mailed" /\ call[c].op = "send"
  /\ notified' = [notified EXCEPT ![c] = Logged(c)]
  /\ call' = [call EXCEPT ![c].at = "mailing", ![c].totals = Counted(@, call[c].ok)]
  /\ UNCHANGED <<account, adminMade, maxUsers, suspended, seatLock, smtp, accountAudit>>

\* «enviados» and «fallidos» of the SEND row
SendTotals(c) == call[c].totals

\* The audit row of the document, when every address was tried.
RecordSend(c) ==
  /\ call[c].at = "mailing"
  /\ call[c].left = {}
  /\ accountAudit' = [accountAudit EXCEPT ![c] =
       [NoAudit EXCEPT !.action = "send", !.totals = SendTotals(c)]]
  /\ call' = [call EXCEPT ![c].at = "over"]
  /\ UNCHANGED <<account, adminMade, maxUsers, suspended, seatLock, smtp, notified>>

-----------------------------------------------------------------------------
(* The worker dies; the platform's staff work on the admin site. *)

CrashCall(c) ==
  /\ call[c].at \notin {"new", "over"}
  /\ ~call[c].killed
  /\ call' = [call EXCEPT ![c].at = "over", ![c].killed = TRUE]
  /\ seatLock' = IF seatLock = c THEN None ELSE seatLock
  /\ UNCHANGED <<account, adminMade, maxUsers, suspended, smtp, notified, accountAudit>>

\* UserAdmin asks for no seat and takes no lock.
AdminCreate(u) ==
  /\ account[u] = "none"
  /\ \A c \in Calls : call[c].at \in {"inserted", "mailed"} => call[c].target # u
  /\ account' = [account EXCEPT ![u] = "active"]
  /\ adminMade' = adminMade \cup {u}
  /\ UNCHANGED <<maxUsers, suspended, seatLock, call, smtp, notified, accountAudit>>

\* SubscriptionInline: the UPDATE waits for an invitation.
AdminLimit(n) ==
  /\ SubscriptionIsFree
  /\ maxUsers' = n
  /\ UNCHANGED <<account, adminMade, suspended, seatLock, call, smtp, notified, accountAudit>>

AdminSuspend ==
  /\ suspended' = ~suspended
  /\ UNCHANGED <<account, adminMade, maxUsers, seatLock, call, smtp, notified, accountAudit>>

-----------------------------------------------------------------------------

AccountsNext ==
  \/ \E c \in Calls :
       \/ InsertAccount(c) \/ EndInvitation(c) \/ LogInvitation(c)
       \/ SaveInactive(c) \/ RecordDeactivation(c)
       \/ LogDocument(c) \/ RecordSend(c) \/ CrashCall(c)
       \/ \E ok \in BOOLEAN : MailInvitation(c, ok) \/ \E u \in Users : MailDocument(c, u, ok)
       \/ \E u \in Users : BeginInvite(c, u) \/ BeginDeactivation(c, u)
       \/ \E to \in SUBSET Users : BeginSend(c, to)
  \/ \E u \in Users : AdminCreate(u)
  \/ \E n \in Limits : AdminLimit(n)
  \/ AdminSuspend

AccountsSpec == AccountsInit /\ [][AccountsNext]_accountsVars

-----------------------------------------------------------------------------
(* What the component keeps. *)

\* Values of the columns and of the calls' memory.
AccountsTypeOK ==
  /\ account \in [Users -> {"none", "active", "inactive"}]
  /\ adminMade \subseteq Users
  /\ maxUsers \in Limits
  /\ suspended \in BOOLEAN
  /\ seatLock \in Calls \cup {None}
  /\ call \in [Calls -> CallStates]
  /\ smtp \in [Calls -> Tallies]
  /\ notified \in [Calls -> Tallies]
  /\ accountAudit \in [Calls -> AuditRows]

\* Two invitations at once do not share the last seat: but for the accounts that the
\* admin site adds meanwhile, the company fits into the limit the call was allowed by
\* (user_invite, _seats_full).
SeatsHeld ==
  [][\A c \in Calls :
       call[c].op = "invite" /\ account'[call[c].target] = "active"
           /\ call'[c].at = "settled" /\ call[c].at = "mailed" =>
         Cardinality(Seated' \ adminMade') <= call[c].limit]_accountsVars

\* Who was invited has been sent the password, and the audit log says who was created:
\* a mail that failed leaves neither account nor row (user_invite).
InvitationIsWhole ==
  /\ \A u \in Invited : \E c \in Calls :
       call[c].op = "invite" /\ call[c].target = u /\ smtp[c].sent = 1
         /\ accountAudit[c].action = "create"
  /\ \A c \in Calls : accountAudit[c].action = "create" => accountAudit[c].about \in Invited

\* Every message leaves a row that says whether it went out: only a worker that dies
\* between the two loses the row of the message in hand, and the rollback of an
\* invitation loses none; the audit row of a document agrees with those rows (deliver,
\* log, user_invite, _handle_send).
MailIsLogged ==
  \A c \in Calls :
    /\ \/ smtp[c] = notified[c]
       \/ /\ \E ok \in BOOLEAN : smtp[c] = Counted(notified[c], ok)
          /\ call[c].at \in {"mailed", "settled"} \/ call[c].killed
    /\ accountAudit[c].action = "send" => accountAudit[c].totals = notified[c]

\* An account that is inactive was deactivated by a call whose audit row shows the
\* change, unless a worker stands or died between the two statements (user_deactivate).
DeactivationIsAudited ==
  \A u \in Users : account[u] = "inactive" =>
    \E c \in Calls :
      /\ call[c].op = "deactivate" /\ call[c].target = u /\ call[c].was = "active"
      /\ \/ accountAudit[c].was = "active"
         \/ call[c].at = "saved"
         \/ call[c].killed
=============================================================================

--------------------------- MODULE BookingPayment ---------------------------
(***************************************************************************)
(* One booking from request to its end, with its payment and its refunds.  *)
(*                                                                         *)
(* Workers are the requests, webhook runs and cron runs that serve it at   *)
(* the same time.  PostgreSQL runs their transactions at READ COMMITTED    *)
(* and transitionBookingStatus reads the status, checks it against the     *)
(* table and writes the new one without a condition, so a transaction is   *)
(* three steps here:                                                       *)
(*     Begin   the handler reads the rows and decides to go on;            *)
(*     Check   transitionBookingStatus reads the status again: an invalid  *)
(*             move rolls everything back;                                 *)
(*     Commit  all the writes of the transaction become visible.           *)
(* A handler that writes the booking directly has no Check.  A worker that *)
(* is not between two steps holds NoTask.  Accepting and recording a       *)
(* payment write the payment and schedule rows before they Check, so they  *)
(* hold the locks of these rows until they Commit or Abandon (PostgreSQL   *)
(* breaks a deadlock by making one of the transactions fail: Abandon).     *)
(***************************************************************************)
EXTENDS BookingStatus, PaymentSchedule, RefundPolicy

CONSTANTS
  Workers,         \* requests and jobs that may run at the same time
  Operations,      \* the handlers that run in this instance, of AllOperations
  Deposit,         \* down payment, in cents
  Balance,         \* final payment, in cents
  PartialRefund,   \* the operator's election: [elected, percent, eligible]
  NeedsLicence,    \* whether the booking is a car rental
  MaxSessions,     \* bound on the checkout sessions of one booking
  MaxDocuments     \* bound on the licence documents of its customer

AllOperations ==
  { "accept", "reject", "autoReject", "suggest", "offerCar", "bulkSuggest",
    "declineAlternative", "checkout", "applyPaid", "chargeRefunded",
    "cancelCustomer", "cancelOperator", "cancelAdmin", "sweep",
    "reviewLicence", "handover", "return", "confirm", "complete", "noShow",
    "override", "uploadReceipt", "approveReceipt", "rejectReceipt",
    "requestPayment" }

\* The handlers of a rental that is paid by card and never renegotiated.
CardOperations ==
  { "accept", "reject", "checkout", "applyPaid", "cancelCustomer",
    "cancelOperator", "cancelAdmin", "sweep", "reviewLicence", "handover",
    "return", "confirm", "complete", "noShow" }

ASSUME AmountsAssumption ==
  /\ Deposit \in Nat /\ Balance \in Nat
  /\ PartialRefund \in [ elected : BOOLEAN, percent : Nat, eligible : BOOLEAN ]
ASSUME BoundsAssumption ==
  /\ Operations \subseteq AllOperations
  /\ NeedsLicence \in BOOLEAN
  /\ MaxSessions \in Nat /\ MaxDocuments \in Nat

Sessions  == 1..MaxSessions
Documents == 1..MaxDocuments
Price(type) == PriceOf(type, Deposit, Balance)

VARIABLES
  booking,      \* status of the booking
  alternative,  \* whether an alternative was suggested before
  payment,      \* the Payment row
  schedule,     \* state of the three PaymentScheduleEntry rows
  documents,    \* the customer's licence documents, oldest first
  clock,        \* which of the booking's instants have passed
  sessions,     \* checkout sessions, as Stripe keeps them
  inbox,        \* payment events of a session not yet processed
  ledger,       \* sessions with a CommissionLedgerEntry
  refunds,      \* active refunds per part, in cents
  task          \* what each worker is in the middle of

rows == << booking, alternative, payment, schedule, documents, ledger, refunds >>
stripe == << sessions, inbox >>
vars == << rows, clock, stripe, task >>

(***************************************************************************)
(* Data                                                                    *)
(***************************************************************************)
Parts == { "down", "final" }
Entries == { "down", "final", "licence" }
EntryStates == { "none", "DUE", "PAID", "VOID" }
\* REUPLOAD_LATE is a REUPLOAD_REQUIRED that leaves no time to upload again
\* before pickup.
DocumentStates ==
  { "none", "UNDER_REVIEW", "APPROVED", "REUPLOAD_REQUIRED", "REUPLOAD_LATE" }

\* The instants that matter: 1 the deposit deadline, 2 the balance and licence
\* deadline, 3 pickup, 4 the end of the service.
DepositDue == 1
BalanceDue == 2
Pickup     == 3
ServiceEnd == 4
DueAt == [ down |-> DepositDue, final |-> BalanceDue, licence |-> BalanceDue ]

\* Money captured for a closed booking is "returned", or "reported" to the
\* platform's staff when Stripe does not return it.  A charge that the staff
\* returns in Stripe's dashboard is "takenBack" while its charge.refunded event
\* waits, and "undone" when that is processed.
Untaken == { "none", "open" }
SessionStates == Untaken \cup { "captured", "returned", "reported", "takenBack", "undone" }
NoSession == [ type |-> "FULL_PAYMENT", state |-> "none" ]

Tasks ==
  [ op : Operations \cup { "idle" }, checked : BOOLEAN,
    to : Statuses \cup { "none" }, seen : Payments, active : Nat,
    cause : RefundCauses, type : PaymentTypes, session : Sessions \cup { 0 },
    fromInbox : BOOLEAN, document : Documents \cup { 0 }, licensed : BOOLEAN ]

NoTask ==
  [ op |-> "idle", checked |-> FALSE, to |-> "none", seen |-> NoPayment,
    active |-> 0, cause |-> "CUSTOMER", type |-> "FULL_PAYMENT",
    session |-> 0, fromInbox |-> FALSE, document |-> 0, licensed |-> FALSE ]

TotalRefunds == refunds.down + refunds.final

Licensed == \E d \in Documents : documents[d] = "APPROVED"
LicenceRejectedLate == \E d \in Documents : documents[d] = "REUPLOAD_LATE"

\* The state of the customer's latest document.
LatestDocument ==
  LET used == { d \in Documents : documents[d] # "none" }
  IN  IF used = {} THEN "none"
      ELSE documents[CHOOSE d \in used : \A e \in used : e <= d]

TypeOK ==
  /\ booking \in Statuses
  /\ alternative \in BOOLEAN
  /\ payment \in Payments
  /\ schedule \in [ Entries -> EntryStates ]
  /\ documents \in [ Documents -> DocumentStates ]
  /\ clock \in 0..ServiceEnd
  /\ sessions \in [ Sessions -> [ type : PaymentTypes, state : SessionStates ] ]
  /\ inbox \in [ Sessions -> 0..2 ]
  /\ ledger \subseteq Sessions
  /\ refunds \in [ Parts -> Nat ]
  /\ task \in [ Workers -> Tasks ]

Init ==
  /\ booking = "PENDING"
  /\ alternative = FALSE
  /\ payment = NoPayment
  /\ schedule = [ e \in Entries |-> "none" ]
  \* the customer may have a licence from an earlier booking
  /\ \E earlier \in { "none", "APPROVED" } :
       documents = [ d \in Documents |-> IF d = 1 THEN earlier ELSE "none" ]
  /\ clock = 0
  /\ sessions = [ s \in Sessions |-> NoSession ]
  /\ inbox = [ s \in Sessions |-> 0 ]
  /\ ledger = {}
  /\ refunds = [ p \in Parts |-> 0 ]
  /\ task = [ w \in Workers |-> NoTask ]

(***************************************************************************)
(* The steps handlers are made of                                          *)
(***************************************************************************)
Free(w, op) == op \in Operations /\ task[w] = NoTask

\* The handler has read the rows: it keeps the payment and the refunds it saw,
\* and the status `to` it is going to write.
Loaded(op, to) ==
  [ NoTask EXCEPT !.op = op, !.to = to, !.seen = payment,
                  !.active = TotalRefunds ]

\* A handler that only moves the booking keeps nothing of what it read.
Moving(op, to) == [ NoTask EXCEPT !.op = op, !.to = to ]

Begin(w, t) == task' = [ task EXCEPT ![w] = t ] /\ UNCHANGED << rows, clock, stripe >>
Finish(w)   == task' = [ task EXCEPT ![w] = NoTask ]

\* Handlers that move the booking with transitionBookingStatus.
Transactional ==
  { "accept", "reject", "offerCar", "bulkSuggest", "applyPaid", "chargeRefunded",
    "cancelCustomer", "cancelOperator", "cancelAdmin", "sweep",
    "reviewLicence", "handover", "return", "confirm", "noShow", "override" }

\* The schedule entries a payment of this type settles.
Settled(type) == IF type = "DOWN_PAYMENT" THEN { "down" } ELSE { "down", "final" }

\* Another transaction holds the lock of the payment row, or of a schedule row
\* that is still due.
NothingLocked(w) == FALSE   \* a slip: the rows are written after the Check
PaymentLocked(w) ==
  \E v \in Workers \ { w } :
    task[v].checked /\ task[v].op \in { "accept", "applyPaid" }
ScheduleLocked(w) ==
  \E v \in Workers \ { w } :
    /\ task[v].checked /\ task[v].op \in { "accept", "applyPaid" }
    /\ \E e \in Settled(task[v].type) : schedule[e] = "DUE"

\* transitionBookingStatus inside the transaction: the status is read again,
\* and so is the licence by the payment handler.  The licence review, once the
\* decision is saved, looks for a booking whose payment is complete.
Check(w) ==
  /\ task[w].op \in Transactional
  /\ ~task[w].checked
  /\ task[w].op \in { "accept", "applyPaid" } => ~PaymentLocked(w)
  /\ task[w].op = "reviewLicence" => task[w].document = 0 /\ payment.status = "PAID"
  /\ ValidTransition(booking, task[w].to)
  /\ task' = [ task EXCEPT ![w].checked = TRUE,
                           ![w].licensed = Licensed ]
  /\ UNCHANGED << rows, clock, stripe >>

\* The move is not in the table (409), or the process dies: the transaction
\* rolls back and nothing of it stays.
Abandon(w) ==
  /\ task[w] # NoTask
  /\ Finish(w)
  /\ UNCHANGED << rows, clock, stripe >>

Committing(w, op) == task[w].op = op /\ task[w].checked

\* voidOutstandingScheduleEntries
Voided == [ e \in Entries |-> IF schedule[e] = "DUE" THEN "VOID" ELSE schedule[e] ]

\* createRefundRecords: one pending refund per part the quote returns.
WithRefunds(t) ==
  LET quote == RefundQuote(PaidDeposit(t.seen, Deposit),
                           PaidBalance(t.seen, Balance),
                           t.active, t.cause, PartialRefund)
  IN  [ refunds EXCEPT !.down = @ + quote.deposit, !.final = @ + quote.balance ]

(***************************************************************************)
(* Before payment: the operator answers the request                        *)
(***************************************************************************)
BeginAccept(w) ==
  /\ Free(w, "accept")
  /\ booking \in { "PENDING", "ALTERNATIVE_SUGGESTED" }
  /\ clock < Pickup
  /\ Begin(w, Loaded("accept", "PENDING_PAYMENT"))

\* acceptBookingAndRequestPayment: the payment row starts again, a part with
\* nothing to pay is settled at once, and the schedule is rebuilt with
\* deadlines that lie ahead.
CommitAccept(w) ==
  LET down  == IF Deposit = 0 THEN "PAID" ELSE "UNPAID"
      final == IF Balance = 0 THEN "PAID" ELSE "UNPAID"
      due(amount) == IF amount > 0 THEN "DUE" ELSE "none"
  IN
  /\ Committing(w, "accept")
  /\ payment' = [ status   |-> IF Deposit + Balance = 0 THEN "PAID" ELSE "UNPAID",
                  method   |-> task[w].seen.method,
                  down     |-> down,   final    |-> final,
                  downRef  |-> "none", finalRef |-> "none" ]
  /\ schedule' = [ down    |-> due(Deposit), final |-> due(Balance),
                   licence |-> IF NeedsLicence THEN "DUE" ELSE "none" ]
  /\ booking' = "PENDING_PAYMENT"
  /\ clock' = IF clock < Pickup THEN 0 ELSE clock
  /\ Finish(w)
  /\ UNCHANGED << alternative, documents, stripe, ledger, refunds >>

\* rejectBooking answers a request that is PENDING.  The bulk action does not ask,
\* it rejects whatever the table lets it, up to a booking that waits for its
\* payment; neither voids the schedule or creates refunds.  (The bulk action
\* accepts as acceptBooking does.)
BeginReject(w) ==
  /\ Free(w, "reject")
  /\ Begin(w, Moving("reject", "REJECTED"))

\* The response deadline passed: the cron job lists the requests first and
\* writes each of them later.
BeginAutoReject(w) ==
  /\ Free(w, "autoReject")
  /\ booking = "PENDING"
  /\ Begin(w, Moving("autoReject", "REJECTED"))

\* An alternative is offered once.  For a booking of a partner site the status is
\* written directly; another car of the catalogue is offered in a transaction.
\* The bulk action neither asks whether one was offered before nor notes it.
BeginSuggest(w) ==
  \/ /\ Free(w, "suggest") /\ ~alternative
     /\ booking \in { "PENDING", "ACCEPTED", "PENDING_PAYMENT" }
     /\ payment.status # "PAID"
     /\ Begin(w, Moving("suggest", "ALTERNATIVE_SUGGESTED"))
  \/ /\ Free(w, "offerCar") /\ ~alternative
     /\ booking = "PENDING"
     /\ Begin(w, Moving("offerCar", "ALTERNATIVE_SUGGESTED"))
  \/ /\ Free(w, "bulkSuggest")
     /\ Begin(w, Moving("bulkSuggest", "ALTERNATIVE_SUGGESTED"))

CommitSuggest(w) ==
  /\ task[w].op = "suggest" \/ Committing(w, "offerCar")
  /\ booking' = "ALTERNATIVE_SUGGESTED"
  /\ alternative' = TRUE
  /\ Finish(w)
  /\ UNCHANGED << payment, schedule, documents, clock, stripe,
                  ledger, refunds >>

BeginDecline(w) ==
  /\ Free(w, "declineAlternative")
  /\ booking = "ALTERNATIVE_SUGGESTED"
  /\ Begin(w, Moving("declineAlternative", "REJECTED"))

(***************************************************************************)
(* Card payment                                                            *)
(***************************************************************************)
\* POST /stripe/checkout: the price comes from the rows as they were read.
BeginCheckout(w) ==
  /\ Free(w, "checkout")
  /\ booking \in { "ACCEPTED", "PENDING_PAYMENT", "CONFIRMED" }
  /\ payment.status # "PAID"
  /\ clock < BalanceDue
  /\ \E type \in PaymentTypes :
       /\ SpecExists(payment, type, Deposit, Balance)
       /\ Begin(w, [ Loaded("checkout", "none") EXCEPT !.type = type ])

\* Stripe opens the session; its id is kept on the parts it pays for, unless
\* the part (or the whole payment) is paid by then.
CommitCheckout(w) ==
  LET type == task[w].type
      open == CASE type = "DOWN_PAYMENT"  -> payment.down # "PAID"
                [] type = "FINAL_PAYMENT" -> payment.final # "PAID"
                [] type = "FULL_PAYMENT"  -> payment.status # "PAID"
  IN
  /\ task[w].op = "checkout"
  /\ ~PaymentLocked(w)
  /\ \E s \in Sessions :
       /\ sessions[s].state = "none"
       /\ \A r \in Sessions : r < s => sessions[r].state # "none"
       /\ sessions' = [ sessions EXCEPT ![s] = [ type |-> type, state |-> "open" ] ]
  /\ payment' =
       IF open
         THEN [ payment EXCEPT
                  !.method   = "STRIPE",
                  !.downRef  = IF CoversDown(type)  THEN "session" ELSE @,
                  !.finalRef = IF CoversFinal(type) THEN "session" ELSE @ ]
         ELSE payment
  /\ Finish(w)
  /\ UNCHANGED << booking, alternative, schedule, documents, clock,
                  inbox, ledger, refunds >>

\* Stripe captures the money of an open session, whatever became of the
\* booking, and queues checkout.session.completed and payment_intent.succeeded.
Capture(s) ==
  /\ sessions[s].state = "open"
  /\ sessions' = [ sessions EXCEPT ![s].state = "captured" ]
  /\ inbox' = [ inbox EXCEPT ![s] = 2 ]
  /\ UNCHANGED << rows, clock, task >>

\* The statuses applyPaidState takes for closed; without CANCELLED in a slip.
OpenAfterCancellation == { "REJECTED", "COMPLETED", "NO_SHOW", "OVERDUE" }
ClosedForPayment == { "CANCELLED", "REJECTED", "COMPLETED", "NO_SHOW", "OVERDUE" }

\* Who calls applyPaidState: the webhook worker, one event at a time under its
\* advisory lock, or the customer's success page and the reconciliation job,
\* which ask Stripe about a session at any time.
MayApply(w, s, fromInbox) ==
  /\ Free(w, "applyPaid")
  /\ sessions[s].state \notin Untaken
  /\ fromInbox => /\ inbox[s] > 0
                  /\ \A v \in Workers : ~task[v].fromInbox

\* A slip: the success page removes the event too.
ProcessedByAnyone(s, fromInbox) == inbox' = [ inbox EXCEPT ![s] = @ - 1 ]

Processed(s, fromInbox) ==
  inbox' = IF fromInbox THEN [ inbox EXCEPT ![s] = @ - 1 ] ELSE inbox

\* A slip: a deposit is taken for the whole payment.
SkipPartlyPaid(w, s, fromInbox) ==
  /\ MayApply(w, s, fromInbox)
  /\ payment.status \in { "PAID", "PARTIALLY_PAID" }
  /\ Processed(s, fromInbox)
  /\ UNCHANGED << rows, clock, sessions, task >>

\* applyPaidState on a payment that is paid in full: skipped.
SkipPaid(w, s, fromInbox) ==
  /\ MayApply(w, s, fromInbox)
  /\ payment.status = "PAID"
  /\ Processed(s, fromInbox)
  /\ UNCHANGED << rows, clock, sessions, task >>

\* A slip: the event of a closed booking is answered and nothing else happens.
ForgetCharge(w, s, fromInbox) ==
  /\ MayApply(w, s, fromInbox)
  /\ payment.status # "PAID"
  /\ booking \in ClosedForPayment
  /\ Processed(s, fromInbox)
  /\ UNCHANGED << rows, clock, sessions, task >>

\* applyPaidState on a closed booking: the staff is told and Stripe is asked to
\* return the charge, which it may refuse, and does when it has returned it.
ReturnCharge(w, s, fromInbox) ==
  /\ MayApply(w, s, fromInbox)
  /\ payment.status # "PAID"
  /\ booking \in ClosedForPayment
  /\ \E outcome \in { "returned", "reported" } :
       sessions' = [ sessions EXCEPT ![s].state =
                       IF @ \in { "captured", "reported" } THEN outcome ELSE @ ]
  /\ Processed(s, fromInbox)
  /\ UNCHANGED << rows, clock, task >>

\* Otherwise the paid state is computed from the rows that were read.  The
\* booking moves to PAID, or to CONFIRMED when only the deposit is paid.
BeginApply(w, s, fromInbox) ==
  LET type == sessions[s].type
      to   == IF StatusAfter(payment, type, "PAID") = "PAID" THEN "PAID"
              ELSE IF type = "DOWN_PAYMENT" THEN "CONFIRMED" ELSE "PENDING_PAYMENT"
  IN
  /\ MayApply(w, s, fromInbox)
  /\ payment.status # "PAID"
  /\ booking \notin ClosedForPayment
  /\ SpecExists(payment, type, Deposit, Balance)
  /\ Begin(w, [ Loaded("applyPaid", to) EXCEPT
                  !.type = type, !.session = s, !.fromInbox = fromInbox ])

\* The transaction of applyPaidState; with an approved licence the booking
\* goes straight on to READY_FOR_PICKUP.
CommitApply(w) ==
  LET t == task[w] IN
  /\ Committing(w, "applyPaid")
  /\ payment' = Confirmed(payment, t.seen, t.type, "intent")
  /\ schedule' = [ e \in Entries |->
                     IF e \in Settled(t.type) /\ schedule[e] = "DUE"
                       THEN "PAID" ELSE schedule[e] ]
  /\ ledger' = ledger \cup { t.session }
  /\ booking' = IF t.to = "PAID" /\ t.licensed THEN "READY_FOR_PICKUP" ELSE t.to
  /\ Processed(t.session, t.fromInbox)
  /\ Finish(w)
  /\ UNCHANGED << alternative, documents, clock, sessions, refunds >>

(***************************************************************************)
(* A charge returned by hand                                               *)
(***************************************************************************)
\* The platform's staff returns the whole charge in Stripe's dashboard, whatever
\* the booking is by then; Stripe queues charge.refunded.
TakeBack(s) ==
  /\ "chargeRefunded" \in Operations
  /\ sessions[s].state = "captured"
  /\ sessions' = [ sessions EXCEPT ![s].state = "takenBack" ]
  /\ UNCHANGED << rows, clock, inbox, task >>

\* The payment is found by the intent kept on the part it paid for; a full payment
\* that follows a deposit takes the deposit's place.
OnRow(s) ==
  LET type == sessions[s].type IN
  /\ s \in ledger
  /\ \/ CoversDown(type) /\ payment.downRef = "intent"
     \/ CoversFinal(type) /\ payment.finalRef = "intent"
  /\ type = "DOWN_PAYMENT" => \A r \in ledger : sessions[r].type # "FULL_PAYMENT"

\* unrecordedStripeRefundCents, when `sent` cents of the platform's own refunds
\* have gone out.
Unrecorded(s, sent) ==
  LET price == Price(sessions[s].type) IN IF price > sent THEN price - sent ELSE 0

\* The webhook worker processes one event at a time.
MayUndo(w, s) ==
  /\ Free(w, "chargeRefunded")
  /\ sessions[s].state = "takenBack"
  /\ \A v \in Workers : ~task[v].fromInbox

\* The event concerns no payment on record, or nothing new: it is processed.
SkipRefunded(w, s) ==
  /\ MayUndo(w, s)
  /\ OnRow(s) => Unrecorded(s, TotalRefunds) = 0
  /\ sessions' = [ sessions EXCEPT ![s].state = "undone" ]
  /\ UNCHANGED << rows, clock, inbox, task >>

\* A slip: a payment that counts as FAILED is taken for one dealt with.
BeginRefundedOnce(w, s) ==
  /\ MayUndo(w, s) /\ OnRow(s)
  /\ ~PaymentLocked(w) /\ payment.status # "FAILED"
  /\ Unrecorded(s, 0) > 0
  /\ payment' = [ payment EXCEPT !.status = "FAILED" ]
  /\ task' = [ task EXCEPT ![w] =
                 [ Moving("chargeRefunded",
                          IF ValidTransition(booking, "CANCELLED") THEN "CANCELLED" ELSE "none")
                   EXCEPT !.session = s, !.fromInbox = TRUE ] ]
  /\ UNCHANGED << booking, alternative, schedule, documents, ledger, refunds, clock, stripe >>

\* Otherwise the payment, the refunds sent so far and the booking's status are
\* read, and the payment counts as FAILED from now on...
BeginRefunded(w, s) ==
  /\ MayUndo(w, s) /\ OnRow(s)
  /\ ~PaymentLocked(w)
  /\ payment' = [ payment EXCEPT !.status = "FAILED" ]
  /\ \E sent \in { 0, TotalRefunds } :
       /\ Unrecorded(s, sent) > 0
       /\ task' = [ task EXCEPT ![w] =
                      [ Moving("chargeRefunded",
                               IF ValidTransition(booking, "CANCELLED") THEN "CANCELLED" ELSE "none")
                        EXCEPT !.active = sent, !.session = s, !.fromInbox = TRUE ] ]
  /\ UNCHANGED << booking, alternative, schedule, documents, ledger, refunds, clock, stripe >>

\* ... then the booking is cancelled if it could be, without refunding the rest...
CancelRefunded(w) ==
  /\ Committing(w, "chargeRefunded")
  /\ booking' = task[w].to
  /\ task' = [ task EXCEPT ![w].to = "none", ![w].checked = FALSE ]
  /\ UNCHANGED << alternative, payment, schedule, documents, ledger, refunds, clock, stripe >>

\* ... and completeProviderRefund marks a refund that waits to be sent, or records
\* a new one (counted to the deposit here).
RecordRefunded(w) ==
  LET t == task[w] IN
  /\ t.op = "chargeRefunded" /\ t.to = "none"
  /\ refunds' = IF TotalRefunds > t.active THEN refunds
                ELSE [ refunds EXCEPT !.down = @ + Unrecorded(t.session, t.active) ]
  /\ sessions' = [ sessions EXCEPT ![t.session].state = "undone" ]
  /\ Finish(w)
  /\ UNCHANGED << booking, alternative, payment, schedule, documents, ledger, inbox, clock >>

(***************************************************************************)
(* Cancellation and expiry                                                 *)
(***************************************************************************)
CustomerStatuses ==
  { "PENDING", "ALTERNATIVE_SUGGESTED", "ACCEPTED", "PENDING_PAYMENT",
    "CONFIRMED", "PAID", "READY_FOR_PICKUP" }
OperatorStatuses ==
  { "ACCEPTED", "PENDING_PAYMENT", "CONFIRMED", "PAID", "READY_FOR_PICKUP",
    "OVERDUE" }
AdminStatuses == CustomerStatuses \cup { "OVERDUE" }
AdminCauses ==
  { "ADMIN_CUSTOMER_FAULT", "ADMIN_OPERATOR_FAULT", "ADMIN_PLATFORM_FAULT" }

\* cancelBooking, up to its transition: who may cancel, when, and the cause.
BeginCancel(w) ==
  \/ /\ Free(w, "cancelCustomer")
     /\ booking \in CustomerStatuses /\ clock < Pickup
     /\ Begin(w, [ Loaded("cancelCustomer", "CANCELLED") EXCEPT
                     !.cause = IF LicenceRejectedLate THEN "PLATFORM_FAULT" ELSE "CUSTOMER" ])
  \/ /\ Free(w, "cancelOperator")
     /\ booking \in OperatorStatuses /\ clock < Pickup
     /\ Begin(w, [ Loaded("cancelOperator", "CANCELLED") EXCEPT
                     !.cause = IF booking = "OVERDUE" THEN "OPERATOR_OVERDUE"
                               ELSE "OPERATOR" ])
  \/ /\ Free(w, "cancelAdmin")
     /\ booking \in AdminStatuses
     /\ \E cause \in AdminCauses :
          Begin(w, [ Loaded("cancelAdmin", "CANCELLED") EXCEPT !.cause = cause ])

CommitCancel(w) ==
  /\ task[w].op \in { "cancelCustomer", "cancelOperator", "cancelAdmin" }
  /\ task[w].checked /\ ~ScheduleLocked(w)
  /\ booking' = "CANCELLED"
  /\ schedule' = Voided
  /\ refunds' = WithRefunds(task[w])
  /\ Finish(w)
  /\ UNCHANGED << alternative, payment, documents, clock, stripe,
                  ledger >>

SweptStatuses == { "PENDING", "ACCEPTED", "PENDING_PAYMENT", "CONFIRMED", "PAID" }

PartStatus(e) == IF e = "down" THEN payment.down ELSE payment.final

\* isScheduleEntryOwed, for an entry that is due and past its date.
Owed(e) ==
  /\ schedule[e] = "DUE" /\ clock >= DueAt[e]
  /\ IF e = "licence" THEN LatestDocument \notin { "APPROVED", "UNDER_REVIEW" }
     ELSE PartStatus(e) \notin { "PAID", "PENDING_VERIFICATION" }

\* The hourly sweep reads the overdue bookings with their payments.  Entries of
\* parts paid meanwhile are caught up; what is still owed ends the booking.
BeginSweep(w) ==
  /\ Free(w, "sweep")
  /\ booking \in SweptStatuses
  /\ ~ScheduleLocked(w)
  /\ \E e \in Entries : schedule[e] = "DUE" /\ clock >= DueAt[e]
  /\ schedule' = [ e \in Entries |->
                     IF /\ e # "licence"
                        /\ schedule[e] = "DUE" /\ clock >= DueAt[e]
                        /\ PartStatus(e) = "PAID"
                       THEN "PAID" ELSE schedule[e] ]
  /\ task' = IF \E e \in Entries : Owed(e)
               THEN [ task EXCEPT ![w] =
                        [ Loaded("sweep", "EXPIRED") EXCEPT
                            !.cause = IF payment.status = "PAID"
                                        THEN "MISSED_LICENCE" ELSE "MISSED_BALANCE" ] ]
               ELSE task
  /\ UNCHANGED << booking, alternative, payment, documents, clock,
                  stripe, ledger, refunds >>

\* The refund is computed from the payment the sweep read, and from the refunds
\* that exist by now.
CommitSweep(w) ==
  /\ Committing(w, "sweep") /\ ~ScheduleLocked(w)
  /\ booking' = "EXPIRED"
  /\ schedule' = Voided
  /\ refunds' = WithRefunds([ task[w] EXCEPT !.active = TotalRefunds ])
  /\ Finish(w)
  /\ UNCHANGED << alternative, payment, documents, clock, stripe,
                  ledger >>

(***************************************************************************)
(* Licence, hand-over and the end of the service                           *)
(***************************************************************************)
UploadLicence ==
  /\ LatestDocument # "UNDER_REVIEW"
  /\ \E d \in Documents :
       /\ documents[d] = "none" /\ \A e \in Documents : e < d => documents[e] # "none"
       /\ documents' = [ documents EXCEPT ![d] = "UNDER_REVIEW" ]
  /\ UNCHANGED << booking, alternative, payment, schedule, clock, stripe, ledger,
                  refunds, task >>

\* A reviewer opens a document of the queue and decides...
BeginReview(w) ==
  /\ Free(w, "reviewLicence")
  /\ booking \notin TerminalStatuses
  /\ \E d \in Documents, approved \in BOOLEAN :
       /\ documents[d] = "UNDER_REVIEW"
       /\ Begin(w, [ Moving("reviewLicence", "READY_FOR_PICKUP") EXCEPT
                       !.document = d, !.licensed = approved ])

\* A slip: a rejection goes on to promote the booking as well.
SaveAnyReview(w) ==
  LET t == task[w] IN
  /\ t.op = "reviewLicence" /\ t.document # 0
  /\ documents' = [ documents EXCEPT ![t.document] =
                      IF t.licensed THEN "APPROVED" ELSE "REUPLOAD_REQUIRED" ]
  /\ task' = [ task EXCEPT ![w].document = 0 ]
  /\ UNCHANGED << booking, alternative, payment, schedule, clock, stripe, ledger,
                  refunds >>

\* ... and the decision is saved, whatever the document has become; an approval
\* goes on to promote the booking.
SaveReview(w) ==
  LET t == task[w] IN
  /\ t.op = "reviewLicence" /\ t.document # 0
  /\ documents' = [ documents EXCEPT ![t.document] =
                      IF t.licensed THEN "APPROVED"
                      ELSE IF clock >= BalanceDue THEN "REUPLOAD_LATE"
                      ELSE "REUPLOAD_REQUIRED" ]
  /\ task' = [ task EXCEPT ![w] =
                 IF t.licensed THEN [ t EXCEPT !.document = 0 ] ELSE NoTask ]
  /\ UNCHANGED << booking, alternative, payment, schedule, clock, stripe, ledger,
                  refunds >>

BeginHandover(w) ==
  /\ Free(w, "handover")
  /\ booking = "READY_FOR_PICKUP" /\ payment.status = "PAID"
  /\ Begin(w, Moving("handover", "IN_PROGRESS"))

BeginReturn(w) ==
  /\ Free(w, "return")
  /\ booking = "IN_PROGRESS"
  /\ Begin(w, Moving("return", "COMPLETED"))

BeginConfirm(w) ==
  /\ Free(w, "confirm")
  /\ booking = "PAID" \/ payment.status = "PAID"
  /\ booking \notin { "COMPLETED", "NO_SHOW" }
  /\ Begin(w, Moving("confirm", "COMPLETED"))

\* The completion job lists bookings whose service has ended and writes them
\* one after the other.
BeginComplete(w) ==
  /\ Free(w, "complete")
  /\ booking = "PAID" /\ payment.status = "PAID" /\ clock >= ServiceEnd
  /\ Begin(w, Moving("complete", "COMPLETED"))

\* A slip: a deposit is enough for a paid no-show.
BeginAnyNoShow(w) ==
  /\ Free(w, "noShow")
  /\ clock = Pickup
  /\ payment.status = "PAID" \/ payment.down = "PAID"
  /\ Begin(w, Moving("noShow", "NO_SHOW"))

BeginNoShow(w) ==
  /\ Free(w, "noShow")
  /\ clock = Pickup
  /\ payment.status = "PAID" \/ payment.down = "PAID"
  /\ Begin(w, Moving("noShow", IF payment.status = "PAID" THEN "NO_SHOW"
                               ELSE "NO_SHOW_UNPAID"))

CommitNoShow(w) ==
  /\ Committing(w, "noShow")
  /\ task[w].to = "NO_SHOW_UNPAID" => ~ScheduleLocked(w)
  /\ booking' = task[w].to
  /\ schedule' = IF task[w].to = "NO_SHOW_UNPAID" THEN Voided ELSE schedule
  /\ Finish(w)
  /\ UNCHANGED << alternative, payment, documents, clock, stripe,
                  ledger, refunds >>

\* The administrator's override takes any move of the table, except to a
\* status its screen does not offer.
OverrideStatuses ==
  { "PENDING", "ACCEPTED", "REJECTED", "ALTERNATIVE_SUGGESTED",
    "PENDING_PAYMENT", "PAID", "IN_PROGRESS", "OVERDUE", "COMPLETED",
    "NO_SHOW" }

BeginOverride(w) ==
  /\ Free(w, "override")
  /\ \E to \in OverrideStatuses :
       ValidTransition(booking, to) /\ Begin(w, Moving("override", to))

\* The commit of the transactions that only move the booking.
CommitMove(w) ==
  /\ task[w].op \in { "reject", "bulkSuggest", "reviewLicence", "handover", "return",
                     "confirm", "override" }
  /\ task[w].checked
  /\ booking' = task[w].to
  /\ Finish(w)
  /\ UNCHANGED << alternative, payment, schedule, documents, clock,
                  stripe, ledger, refunds >>

\* The writes that do not look at the status again.
Overwrite(w) ==
  /\ task[w].op \in { "autoReject", "declineAlternative", "complete" }
  /\ booking' = task[w].to
  /\ Finish(w)
  /\ UNCHANGED << alternative, payment, schedule, documents, clock,
                  stripe, ledger, refunds >>

(***************************************************************************)
(* Manual payment: a DuitNow receipt, checked by the operator              *)
(***************************************************************************)
ReceiptOperations ==
  { "uploadReceipt", "approveReceipt", "rejectReceipt", "requestPayment" }

\* approvePayment takes the parts that wait for verification, the balance when
\* none does.
ApprovedType(p) ==
  CASE p.down = "PENDING_VERIFICATION" /\ p.final = "PENDING_VERIFICATION"
         -> "FULL_PAYMENT"
    [] p.down = "PENDING_VERIFICATION" /\ p.final # "PENDING_VERIFICATION"
         -> "DOWN_PAYMENT"
    [] OTHER -> "FINAL_PAYMENT"

\* What the approved receipt makes of the booking: paid only when nothing is owed.
ApprovedBooking(p, type) ==
  IF StatusAfter(p, type, "PAID") = "PAID" THEN "PAID" ELSE "PENDING_PAYMENT"

BeginUpload(w) ==
  /\ Free(w, "uploadReceipt")
  /\ booking \in { "ACCEPTED", "PENDING_PAYMENT" }
  /\ payment.status # "NONE"
  /\ \E type \in PaymentTypes :
       /\ ManualOption(payment, type, Deposit, Balance)
       /\ Begin(w, [ Loaded("uploadReceipt", "PENDING_PAYMENT") EXCEPT !.type = type ])

BeginApprove(w) ==
  LET type == ApprovedType(payment)
      to   == ApprovedBooking(payment, type)
  IN  /\ Free(w, "approveReceipt")
      /\ payment.status \notin { "NONE", "PAID" }
      /\ SpecExists(payment, type, Deposit, Balance)
      /\ Begin(w, [ Loaded("approveReceipt", to) EXCEPT !.type = type ])

BeginDisapprove(w) ==
  /\ Free(w, "rejectReceipt")
  /\ payment.status \in { "UNPAID", "DOWN_PAYMENT_PENDING_VERIFICATION",
                          "FINAL_PAYMENT_PENDING_VERIFICATION" }
  /\ Begin(w, Loaded("rejectReceipt", "PENDING_PAYMENT"))

BeginRequest(w) ==
  /\ Free(w, "requestPayment")
  /\ booking \in { "ACCEPTED", "PENDING_PAYMENT" } /\ payment.status # "PAID"
  /\ Begin(w, Loaded("requestPayment", "PENDING_PAYMENT"))

Rejected(row, seen) ==
  [ row EXCEPT
      !.status = "FAILED",
      !.down   = IF seen.down  = "PENDING_VERIFICATION" THEN "FAILED" ELSE @,
      !.final  = IF seen.final = "PENDING_VERIFICATION" THEN "FAILED" ELSE @ ]

\* The payment is saved first...
SaveReceipt(w) ==
  LET t == task[w] IN
  /\ t.op \in ReceiptOperations /\ ~t.checked /\ ~PaymentLocked(w)
  /\ payment' =
       CASE t.op = "uploadReceipt"  -> AwaitingVerification(payment, t.seen, t.type)
         [] t.op = "approveReceipt" -> Confirmed(payment, t.seen, t.type, "manual")
         [] t.op = "rejectReceipt"  -> Rejected(payment, t.seen)
         [] t.op = "requestPayment" -> [ payment EXCEPT !.status = "UNPAID" ]
  /\ task' = [ task EXCEPT ![w].checked = TRUE ]
  /\ UNCHANGED << booking, alternative, schedule, documents, clock,
                  stripe, ledger, refunds >>

\* ... and the booking after it, without looking at its status.
SaveBooking(w) ==
  /\ task[w].op \in ReceiptOperations /\ task[w].checked
  /\ booking' = task[w].to
  /\ Finish(w)
  /\ UNCHANGED << alternative, payment, schedule, documents, clock,
                  stripe, ledger, refunds >>

Tick ==
  /\ clock < ServiceEnd
  /\ clock' = clock + 1
  /\ UNCHANGED << rows, stripe, task >>

(***************************************************************************)
(* The whole system                                                        *)
(***************************************************************************)
Answer(w) ==
  \/ BeginAccept(w) \/ CommitAccept(w) \/ BeginReject(w) \/ BeginAutoReject(w)
  \/ BeginSuggest(w) \/ CommitSuggest(w) \/ BeginDecline(w)

CardPayment(w) ==
  \/ BeginCheckout(w) \/ CommitCheckout(w) \/ CommitApply(w)
  \/ \E s \in Sessions, fromInbox \in BOOLEAN :
       \/ SkipPaid(w, s, fromInbox)
       \/ ReturnCharge(w, s, fromInbox)
       \/ BeginApply(w, s, fromInbox)

ReturnByHand(w) ==
  \/ \E s \in Sessions : SkipRefunded(w, s) \/ BeginRefunded(w, s)
  \/ CancelRefunded(w) \/ RecordRefunded(w)

Closure(w) ==
  BeginCancel(w) \/ CommitCancel(w) \/ BeginSweep(w) \/ CommitSweep(w)

Rental(w) ==
  \/ BeginReview(w) \/ SaveReview(w)
  \/ BeginHandover(w) \/ BeginReturn(w) \/ BeginConfirm(w) \/ BeginComplete(w)
  \/ BeginNoShow(w) \/ CommitNoShow(w)
  \/ BeginOverride(w)

ManualPayment(w) ==
  \/ BeginUpload(w) \/ BeginApprove(w) \/ BeginDisapprove(w) \/ BeginRequest(w)
  \/ SaveReceipt(w) \/ SaveBooking(w)

Work(w) ==
  \/ Answer(w) \/ CardPayment(w) \/ ReturnByHand(w)
  \/ Closure(w) \/ Rental(w) \/ ManualPayment(w)
  \/ Check(w) \/ CommitMove(w) \/ Overwrite(w) \/ Abandon(w)

Next ==
  \/ \E w \in Workers : Work(w)
  \/ \E s \in Sessions : Capture(s) \/ TakeBack(s)
  \/ UploadLicence
  \/ Tick

Spec == Init /\ [][Next]_vars

(***************************************************************************)
(* Fairness.  A handler does not hang: its transaction commits or times    *)
(* out.  The hourly sweep and the webhook queue, which retries an event    *)
(* until it succeeds, get their turn again and again, and of their         *)
(* attempts together not each one fails at the same point.                 *)
(***************************************************************************)
EventTaken(w, s) == BeginApply(w, s, TRUE) \/ ReturnCharge(w, s, TRUE) \/ SkipPaid(w, s, TRUE)
ReturnTaken(w, s) == BeginRefunded(w, s) \/ SkipRefunded(w, s)

AttemptsSucceed(w) ==
  /\ SF_vars(task[w].op \in { "sweep", "applyPaid", "chargeRefunded" } /\ Check(w))
  /\ SF_vars(CommitSweep(w) \/ CommitApply(w) \/ CancelRefunded(w))

FairSpec ==
  /\ Spec
  /\ \A w \in Workers :
       /\ WF_vars(Abandon(w)) /\ SF_vars(BeginSweep(w)) /\ AttemptsSucceed(w)
       /\ \A s \in Sessions : SF_vars(EventTaken(w, s)) /\ SF_vars(ReturnTaken(w, s))

(***************************************************************************)
(* Properties that hold whatever handlers overlap                          *)
(***************************************************************************)
\* The overall status of a payment and the statuses of its parts tell the same
\* story: it is PAID exactly when both parts are.  A payment handler computes
\* the overall status from a row it read earlier, so an overlapping payment
\* could be written over; the row lock and the table of moves prevent it.
PartsAddUp ==
  payment.status = "PAID" <=> payment.down = "PAID" /\ payment.final = "PAID"

\* With the handlers of a card payment, a booking is taken for paid, handed over or
\* completed only with a payment that is paid in full.  (A charge that is returned
\* by hand makes the payment fail first and cancels the booking after it, if it can.)
PaidBookingsArePaid ==
  booking \in { "PAID", "READY_FOR_PICKUP", "IN_PROGRESS", "COMPLETED", "NO_SHOW" }
    => payment.status = "PAID"

\* A complete payment stays so under the handlers of a card payment: none of them,
\* however old the row it read, takes it back.  (A receipt that is rejected and a
\* charge that is returned by hand do.)
PaidStays == payment.status = "PAID" => payment'.status = "PAID"
PaidIsFinal == [][PaidStays]_vars

\* Whatever cancellations, sweeps and payments overlap, and however old the rows
\* the quote was made from, a part is refunded only if it is paid.
RefundsArePaidFor ==
  /\ refunds.down > 0 => payment.down = "PAID"
  /\ refunds.final > 0 => payment.final = "PAID"

\* A part that has an amount is recorded as paid exactly when the commission
\* ledger has an entry for a session that paid for it: the two writes of
\* applyPaidState never come apart, whoever runs it and however often.
LedgerMatchesPayment ==
  /\ Deposit > 0 =>
       (payment.down = "PAID" <=> \E s \in ledger : CoversDown(sessions[s].type))
  /\ Balance > 0 =>
       (payment.final = "PAID" <=> \E s \in ledger : CoversFinal(sessions[s].type))

\* Money Stripe captured for a booking with one checkout session is recorded,
\* given back or reported, or still waits as an event that will be processed again.
CapturedMoneyIsKept ==
  \A s \in Sessions :
    sessions[s].state = "captured" => s \in ledger \/ inbox[s] > 0

\* With several sessions, an event is dropped only when the payment is complete
\* without it.
OnlySurplusIsDropped ==
  \A s \in Sessions :
    sessions[s].state = "captured"
      => s \in ledger \/ inbox[s] > 0 \/ payment.status = "PAID"

(***************************************************************************)
(* Properties of handlers that run one after the other                     *)
(***************************************************************************)
\* A terminal status is final.  It is not when a receipt is decided late, or when
\* a write of one handler goes over the cancellation of another: see the known
\* limits of README.md.
TerminalStays == booking \in TerminalStatuses => booking' = booking
TerminalIsFinal == [][TerminalStays]_vars

\* Only a rental whose customer has an approved licence is ready for pickup, be it
\* the payment handler or the licence review that says so.
ReadyHasLicence == booking = "READY_FOR_PICKUP" => Licensed

\* Who answers for the closure that w commits, from who closes and the state of
\* the booking; an administrator names it.
EverythingIsOwed(w) ==
  \/ task[w].op = "cancelOperator" /\ booking # "OVERDUE"
  \/ task[w].op = "cancelCustomer" /\ LicenceRejectedLate
  \/ task[w].op = "cancelAdmin" /\ task[w].cause # "ADMIN_CUSTOMER_FAULT"

\* The refund policy for the closure that w commits: of what the customer paid and
\* was not refunded, the balance goes back first and in full, then the deposit, all
\* of it when the operator or the platform answers for the closure and else the
\* percentage the operator elected.  What goes back is never more than is left.
RefundedByPolicy(w) ==
  LET deposit == IF payment.down = "PAID" THEN Deposit ELSE 0
      balance == IF payment.final = "PAID" THEN Balance ELSE 0
      rest    == deposit + balance - TotalRefunds
      left    == IF rest > 0 THEN rest ELSE 0
      share   == IF EverythingIsOwed(w) THEN deposit
                 ELSE PercentOf(deposit, DepositRefundPercent(PartialRefund))
  IN  /\ refunds'.final - refunds.final = Lesser(balance, left)
      /\ refunds'.down - refunds.down = Lesser(share, left - Lesser(balance, left))

\* Rule 3 of the refund policy: when handlers run one after the other, every
\* cancellation and every expiry of the sweep refunds what the policy says of the
\* booking as it is then, whatever was paid by card or by receipt, refunded and
\* reopened before.
ClosureRefunds ==
  \A w \in Workers :
    task[w].op \in { "cancelCustomer", "cancelOperator", "cancelAdmin", "sweep" }
      /\ booking' # booking => RefundedByPolicy(w)
ClosingReturnsTheBalance == [][ClosureRefunds]_vars

\* A booking expires only while a part of it is owed: a part paid, a receipt
\* to verify or a licence to review is not the customer's default.
ExpiryIsDeserved == booking # "EXPIRED" /\ booking' = "EXPIRED" => \E e \in Entries : Owed(e)
OnlyDefaultersExpire == [][ExpiryIsDeserved]_vars

\* A charge that is recorded as the booking's payment is refunded by the refund
\* policy only, never returned as money that came too late.
RecordedChargesStay == \A s \in ledger : sessions[s].state # "returned"

(***************************************************************************)
(* Liveness                                                                *)
(***************************************************************************)
\* A booking with an owed entry past its date does not stay open with it: the
\* entry is paid or waits for verification or review, or the booking leaves the
\* statuses the sweep looks at.
OverdueEnds ==
  \A e \in Entries :
    (booking \in SweptStatuses /\ Owed(e)) ~> ~(booking \in SweptStatuses /\ Owed(e))

SessionSettled(s) ==
  s \in ledger \/ sessions[s].state \in { "returned", "reported", "takenBack", "undone" }

\* Captured money is recorded, given back or reported.
CapturedMoneySettles ==
  \A s \in Sessions : (sessions[s].state = "captured") ~> SessionSettled(s)

\* The same, for a booking that does not end as expired or unpaid no-show.
CapturedMoneySettlesOrEnds ==
  \A s \in Sessions :
    (sessions[s].state = "captured")
      ~> (SessionSettled(s) \/ booking \in { "EXPIRED", "NO_SHOW_UNPAID" })

\* A charge that was recorded and is returned by hand ends its booking, although
\* the handler may die after each of its writes: the payment no longer counts,
\* unless the platform refunded the booking itself, and a booking that can be
\* cancelled does not stay open.
ReturnedChargeEnds ==
  \A s \in Sessions :
    (sessions[s].state = "takenBack" /\ OnRow(s))
      ~> /\ payment.status = "FAILED" \/ TotalRefunds > 0
         /\ ~ValidTransition(booking, "CANCELLED")
=============================================================================

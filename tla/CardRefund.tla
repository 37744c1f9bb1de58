------------------------------ MODULE CardRefund ------------------------------
(***************************************************************************)
(* The card refunds of one closed booking on their way through Stripe: the *)
(* request that closed the booking sends them, a clerk (the operator or an *)
(* administrator) presses "Retry Card Refund", a daily job checks those    *)
(* that wait, and the webhook worker applies what Stripe reports.          *)
(*                                                                         *)
(* Source: services/stripe_refund_service.js, services/refund_service.js,  *)
(* sendCardRefunds of services/booking_cancellation_service.js and the     *)
(* refund events of routes/stripe_routes.js.                               *)
(***************************************************************************)
EXTENDS Integers, Sequences, FiniteSets, FiniteSetsExt

CONSTANTS
  Refunds,      \* ids of the refund records, older ones first
  Part,         \* the part of the payment each gives back
  Amount,       \* its amount in cents
  PaidWith,     \* the payment intent that paid each part
  Captured,     \* cents captured by each payment intent
  Clerks,       \* people who may press the button at the same time
  Faults,       \* what may go wrong besides refusals and crashes
  MaxStripe     \* bound: refunds made at Stripe

Parts == { "DOWN_PAYMENT", "FINAL_PAYMENT" }
Intents == { PaidWith[p] : p \in Parts }

ASSUME RefundsAssumption ==
  /\ Refunds \subseteq Nat \ { 0 }
  /\ IsFiniteSet(Refunds)
  /\ Part \in [ Refunds -> Parts ]
  /\ Amount \in [ Refunds -> Nat \ { 0 } ]
  /\ Captured \in [ Intents -> Nat ]
  /\ MaxStripe \in Nat
  /\ Clerks \cap { "closing", "job" } = {}
  \* slow: a sender may take more than five minutes; lost: the answer to a
  \* refund that Stripe made may get lost; dies: a refund that Stripe accepted
  \* may fail later; dashboard: refunds are also made by hand at Stripe;
  \* payout: the operator's payout may be transferred.
  /\ Faults \subseteq { "slow", "lost", "dies", "dashboard", "payout" }

VARIABLES
  row,       \* the Refund rows
  stripe,    \* the refunds made at Stripe
  reversed,  \* refunds with a reversal in the commission ledger
  extra,     \* refunds recorded because Stripe reported them
  payment,   \* Payment.status: PAID, or FAILED once a charge is refunded in full
  paidOut,   \* is the operator's payout TRANSFERRED?
  queue,     \* what the closing request and the job have yet to send
  task,      \* what each sender is doing
  event      \* what the webhook worker is doing

vars == << row, stripe, reversed, extra, payment, paidOut, queue, task, event >>

Loops == { "closing", "job" }
Senders == Loops \cup Clerks
Statuses == { "PENDING", "PROCESSING", "REFUNDED", "FAILED" }
Ages == { "fresh", "minutes", "hour" }    \* since updatedAt: < 5 min, < 1 h, more

-----------------------------------------------------------------------------
(* Money at Stripe                                                         *)

Cents(xs) == MapThenSumSet(LAMBDA x : x.cents, xs)
On(intent) == { x \in stripe : x.intent = intent /\ x.status # "dead" }
For(r) == { x \in stripe : x.refund = r /\ x.status # "dead" }

\* A slip: a refund the bank has not paid yet is not found again.
PaidFor(r, intent) == { x \in For(r) \cap On(intent) : x.status = "succeeded" }
MadeFor(r, intent) == For(r) \cap On(intent)
Refundable(intent) == Captured[intent] - Cents(On(intent))

\* A new refund; Stripe's event tells the charge's amount_refunded after it.
Made(intent, r, cents, status) ==
  [ id |-> Cardinality(stripe) + 1, intent |-> intent, refund |-> r,
    cents |-> cents, status |-> status, total |-> Cents(On(intent)) + cents ]

Newest(xs) == CHOOSE x \in xs : \A y \in xs : y.id <= x.id

\* The intents a refund can be paid back from, newest charge first.
IntentsOf(r) ==
  IF Part[r] = "DOWN_PAYMENT" \/ PaidWith["FINAL_PAYMENT"] = PaidWith["DOWN_PAYMENT"]
  THEN << PaidWith["DOWN_PAYMENT"] >>
  ELSE << PaidWith["FINAL_PAYMENT"], PaidWith["DOWN_PAYMENT"] >>
Last(r) == Len(IntentsOf(r))

\* allocateRefund takes from each intent what it can give, until the refund is
\* covered.
Available(found, is) == MapThenSumSet(LAMBDA i : found[i].cents, is)
AllThereIs(r, found, i) == found[i].cents    \* a slip: whatever is still needed
Share(r, found, i) ==
  LET left == Amount[r] - Available(found, 1 .. i - 1)
  IN  Max({ 0, Min({ found[i].cents, left }) })
Covers(r, found) == Amount[r] <= Available(found, 1 .. Last(r))

-----------------------------------------------------------------------------
(* The rows                                                                *)

\* Every write moves updatedAt, so that nobody's copy of the row is current.
Written(status, ids, charge) ==
  [ status |-> status, ids |-> ids, charge |-> charge, age |-> "fresh", readers |-> {} ]

\* The status alone is written; the provider's refund ids stay.
Marked(r, status) == Written(status, row[r].ids, row[r].charge)

Unnumbered(r) == row[r].ids = {} /\ row[r].charge = {}
Waiting == { r \in Refunds : row[r].status \in { "PENDING", "PROCESSING" } }

\* What the platform counts as recorded when Stripe reports a refunded charge.
Recorded ==
  MapThenSumSet(LAMBDA r : Amount[r],
                { r \in Refunds : row[r].status \in { "REFUNDED", "PROCESSING" } })
  + Cents(extra)

-----------------------------------------------------------------------------
(* What the senders and the worker are doing                               *)

NoTask == [ stage |-> "idle" ]
NoEvent == [ kind |-> "none" ]

\* At place `at` of the intents, having found and sent this.
Doing(stage, r, at, found, sent) ==
  [ stage |-> stage, refund |-> r, at |-> at, found |-> found, sent |-> sent ]
Busy(s, r) == task[s].stage # "idle" /\ task[s].refund = r

Init ==
  /\ row = [ r \in Refunds |->
       [ status |-> "PENDING", ids |-> {}, charge |-> {}, age |-> "fresh", readers |-> {} ] ]
  /\ stripe = {}
  /\ reversed = {}
  /\ extra = {}
  /\ payment = "PAID"
  /\ paidOut = FALSE
  /\ queue = [ s \in Loops |-> IF s = "closing" THEN Refunds ELSE {} ]
  /\ task = [ s \in Senders |-> NoTask ]
  /\ event = NoEvent

-----------------------------------------------------------------------------
(* processStripeRefund                                                     *)

\* Two slips: a row being sent may be taken at once, or never.
SendableAgain(r) == row[r].status # "REFUNDED" /\ ~paidOut
NeverTakenOver(r) == row[r].status \in { "PENDING", "FAILED" } /\ ~paidOut

\* May this row be sent?  Neither one that is done, nor one being sent.
Sendable(r) ==
  /\ row[r].status # "REFUNDED"
  /\ row[r].status = "PROCESSING" => row[r].age # "fresh"
  /\ ~paidOut

\* The closing request and the job go through their lists, oldest first.
Asked(s, r) == s \in Loops => queue[s] # {} /\ r = Min(queue[s])
Rest(s, r) == [ l \in Loops |-> IF l = s THEN queue[l] \ { r } ELSE queue[l] ]

\* The checks; the sender now has a copy of the row.
Pick(s, r) ==
  /\ task[s].stage = "idle"
  /\ Asked(s, r)
  /\ Sendable(r)
  /\ task' = [ task EXCEPT ![s] = Doing("claim", r, 0, << >>, {}) ]
  /\ row' = [ row EXCEPT ![r].readers = @ \cup { s } ]
  /\ queue' = Rest(s, r)
  /\ UNCHANGED << stripe, reversed, extra, payment, paidOut, event >>

\* A refund in a list that may not be sent is passed over.
PassOver(s) ==
  /\ s \in Loops
  /\ task[s].stage = "idle"
  /\ queue[s] # {}
  /\ ~Sendable(Min(queue[s]))
  /\ queue' = Rest(s, Min(queue[s]))
  /\ UNCHANGED << row, stripe, reversed, extra, payment, paidOut, task, event >>

\* Compare-and-swap on status and updatedAt.
Claim(s) ==
  LET r == task[s].refund
  IN  /\ task[s].stage = "claim"
      /\ IF s \in row[r].readers
         THEN /\ row' = [ row EXCEPT ![r] = Marked(r, "PROCESSING") ]
              /\ task' = [ task EXCEPT ![s] = Doing("look", r, 0, << >>, {}) ]
         ELSE /\ task' = [ task EXCEPT ![s] = NoTask ]
              /\ UNCHANGED row
      /\ UNCHANGED << stripe, reversed, extra, payment, paidOut, queue, event >>

\* One intent is looked up: what it can still give back, or what it has given
\* for this record before.  After the last one it is clear if that is enough.
Look(s) ==
  LET r      == task[s].refund
      at     == task[s].at + 1
      intent == IntentsOf(r)[at]
      made   == MadeFor(r, intent)
      entry  == [ intent |-> intent, made |-> made,
                  cents |-> IF made = {} THEN Refundable(intent) ELSE Newest(made).cents ]
      found  == [ i \in 1 .. at |-> IF i < at THEN task[s].found[i] ELSE entry ]
  IN  /\ task[s].stage = "look"
      /\ task' = [ task EXCEPT ![s] =
           IF at < Last(r) THEN Doing("look", r, at, found, {})
           ELSE Doing(IF Covers(r, found) THEN "send" ELSE "fail", r, 1, found, {}) ]
      /\ UNCHANGED << row, stripe, reversed, extra, payment, paidOut, queue, event >>

\* The next step of the plan: an intent that gives nothing is left out, a
\* refund that was found is used again.
Adopt(s) ==
  LET t == task[s]
      step == t.found[t.at]
      share == Share(t.refund, t.found, t.at)
  IN  /\ t.stage = "send"
      /\ t.at <= Last(t.refund)
      /\ share = 0 \/ step.made # {}
      /\ task' = [ task EXCEPT ![s] =
           Doing("send", t.refund, t.at + 1, t.found,
                 t.sent \cup (IF share = 0 THEN {} ELSE { Newest(step.made) })) ]
      /\ UNCHANGED << row, stripe, reversed, extra, payment, paidOut, queue, event >>

\* Stripe makes the refund.  Its answer may get lost, which is an error.
Create(s) ==
  LET t == task[s]
      step == t.found[t.at]
      share == Share(t.refund, t.found, t.at)
  IN  /\ t.stage = "send"
      /\ t.at <= Last(t.refund)
      /\ share > 0 /\ step.made = {}
      /\ share <= Refundable(step.intent)
      /\ Cardinality(stripe) < MaxStripe
      /\ \E status \in { "succeeded", "pending" } :
           LET new == Made(step.intent, t.refund, share, status)
           IN  /\ stripe' = stripe \cup { new }
               /\ \/ task' = [ task EXCEPT ![s] =
                       Doing("send", t.refund, t.at + 1, t.found, t.sent \cup { new }) ]
                  \/ /\ "lost" \in Faults
                     /\ task' = [ task EXCEPT ![s] = Doing("fail", t.refund, 0, << >>, {}) ]
      /\ UNCHANGED << row, reversed, extra, payment, paidOut, queue, event >>

\* Stripe refuses, or cannot be reached.
Refuse(s) ==
  LET t == task[s]
  IN  /\ \/ t.stage = "look"
         \/ t.stage = "send" /\ t.at <= Last(t.refund) /\ t.found[t.at].made = {}
      /\ task' = [ task EXCEPT ![s] = Doing("fail", t.refund, 0, << >>, {}) ]
      /\ UNCHANGED << row, stripe, reversed, extra, payment, paidOut, queue, event >>

\* The catch block.  The row is written whatever has become of it.
SaveFailure(s) ==
  LET r == task[s].refund
  IN  /\ task[s].stage = "fail"
      /\ row' = [ row EXCEPT ![r] = Marked(r, "FAILED") ]
      /\ task' = [ task EXCEPT ![s] = NoTask ]
      /\ UNCHANGED << stripe, reversed, extra, payment, paidOut, queue, event >>

\* All parts are sent: done with the ledger reversed, or waiting for Stripe.
Finish(s) ==
  LET r    == task[s].refund
      sent == task[s].sent
      ids  == { x.id : x \in sent }
  IN  /\ task[s].stage = "send"
      /\ task[s].at > Last(r)
      /\ IF \A x \in sent : x.status = "succeeded"
         THEN /\ row' = [ row EXCEPT ![r] = Written("REFUNDED", ids, {}) ]
              /\ reversed' = reversed \cup { r }
         ELSE /\ row' = [ row EXCEPT ![r] = Written("PROCESSING", ids, {}) ]
              /\ UNCHANGED reversed
      /\ task' = [ task EXCEPT ![s] = NoTask ]
      /\ UNCHANGED << stripe, extra, payment, paidOut, queue, event >>

\* The process dies, and with it the list it was working on.
Crash(s) ==
  /\ task[s].stage # "idle" \/ (s \in Loops /\ queue[s] # {})
  /\ task' = [ task EXCEPT ![s] = NoTask ]
  /\ row' = [ r \in Refunds |-> [ row[r] EXCEPT !.readers = @ \ { s } ] ]
  /\ queue' = [ l \in Loops |-> IF l = s THEN {} ELSE queue[l] ]
  /\ UNCHANGED << stripe, reversed, extra, payment, paidOut, event >>

-----------------------------------------------------------------------------
(* reconcileProcessingCardRefunds: what has waited for an hour             *)

List ==
  LET old == { r \in Refunds : row[r].status = "PROCESSING" /\ row[r].age = "hour" }
  IN  /\ task["job"].stage = "idle"
      /\ queue["job"] = {}
      /\ old # {}
      /\ queue' = [ queue EXCEPT !["job"] = old ]
      /\ UNCHANGED << row, stripe, reversed, extra, payment, paidOut, task, event >>

-----------------------------------------------------------------------------
(* Webhooks.  An event may come late and more than once; the worker handles*)
(* one at a time, and what it read may have changed when it writes.        *)

\* refund.updated, refund.failed, charge.refund.updated of a refund of ours.
ReadUpdate(x) ==
  LET r == x.refund
  IN  /\ event = NoEvent
      /\ r \in Refunds
      /\ row[r].status # "REFUNDED"
      /\ Unnumbered(r) \/ x.id \in row[r].ids
      /\ x.status = "dead" \/ (x.status = "succeeded" /\ Cardinality(row[r].ids) <= 1)
      /\ event' = [ kind |-> "update", about |-> x, cents |-> 0 ]
      /\ UNCHANGED << row, stripe, reversed, extra, payment, paidOut, queue, task >>

WriteUpdate ==
  LET x == event.about
      r == x.refund
  IN  /\ event.kind = "update"
      /\ IF x.status = "dead"
         THEN /\ row' = [ row EXCEPT ![r] = Marked(r, "FAILED") ]
              /\ UNCHANGED reversed
         ELSE /\ row' = [ row EXCEPT ![r] = Written("REFUNDED", { x.id }, {}) ]
              /\ reversed' = reversed \cup { r }
      /\ event' = NoEvent
      /\ UNCHANGED << stripe, extra, payment, paidOut, queue, task >>

\* A slip: a charge is taken as refunded again when all of it is recorded.
ReadEveryCharge(x) ==
  /\ event = NoEvent
  /\ event' = [ kind |-> "charge", about |-> x, cents |-> x.total - Recorded ]
  /\ UNCHANGED << row, stripe, reversed, extra, payment, paidOut, queue, task >>

\* charge.refunded: cents that no record accounts for.
ReadCharge(x) ==
  /\ event = NoEvent
  /\ x.total > Recorded
  /\ event' = [ kind |-> "charge", about |-> x, cents |-> x.total - Recorded ]
  /\ UNCHANGED << row, stripe, reversed, extra, payment, paidOut, queue, task >>

\* completeProviderRefund: the oldest open refund is taken to be the one that
\* was made; without one, a refund is recorded.
WriteCharge ==
  LET x      == event.about
      charge == << x.intent, x.total >>
      known  == \/ \E r \in Refunds : charge \in row[r].charge
                \/ \E y \in extra : y.charge = charge
      oldest == Min(Waiting)
  IN  /\ event.kind = "charge"
      /\ payment' = IF x.total = Captured[x.intent] THEN "FAILED" ELSE payment
      /\ \/ known /\ UNCHANGED << row, reversed, extra >>
         \/ /\ ~known /\ Waiting # {}
            /\ row' = [ row EXCEPT ![oldest] = Written("REFUNDED", {}, { charge }) ]
            /\ reversed' = reversed \cup { oldest }
            /\ UNCHANGED extra
         \/ /\ ~known /\ Waiting = {}
            /\ extra' = extra \cup { [ charge |-> charge, cents |-> event.cents ] }
            /\ UNCHANGED << row, reversed >>
      /\ event' = NoEvent
      /\ UNCHANGED << stripe, paidOut, queue, task >>

\* The worker dies; the event is tried again.
DropEvent ==
  /\ event # NoEvent
  /\ event' = NoEvent
  /\ UNCHANGED << row, stripe, reversed, extra, payment, paidOut, queue, task >>

-----------------------------------------------------------------------------
(* Surroundings                                                            *)

\* The bank pays, or sends the money back.
Settle(x) ==
  /\ x.status = "pending"
  /\ \E status \in { "succeeded", "dead" } :
       /\ status = "dead" => "dies" \in Faults
       /\ stripe' = (stripe \ { x }) \cup { [ x EXCEPT !.status = status ] }
  /\ UNCHANGED << row, reversed, extra, payment, paidOut, queue, task, event >>

\* Somebody refunds in the Stripe dashboard.
Dashboard(intent) ==
  /\ "dashboard" \in Faults
  /\ Cardinality(stripe) < MaxStripe
  /\ \E cents \in 1 .. Refundable(intent) :
       stripe' = stripe \cup { Made(intent, 0, cents, "succeeded") }
  /\ UNCHANGED << row, reversed, extra, payment, paidOut, queue, task, event >>

PayOut ==
  /\ "payout" \in Faults
  /\ paidOut' = TRUE
  /\ UNCHANGED << row, stripe, reversed, extra, payment, queue, task, event >>

\* Time passes.  Unless senders may be slow, none is still at work after five
\* minutes.  Only the age of a row that is being processed is ever looked at.
Age(r) ==
  /\ row[r].status = "PROCESSING"
  /\ row[r].age # "hour"
  /\ "slow" \in Faults \/ \A s \in Senders : ~Busy(s, r)
  /\ row' = [ row EXCEPT ![r].age = IF @ = "fresh" THEN "minutes" ELSE "hour" ]
  /\ UNCHANGED << stripe, reversed, extra, payment, paidOut, queue, task, event >>

Next ==
  \/ \E s \in Senders :
       \/ \E r \in Refunds : Pick(s, r)
       \/ PassOver(s) \/ Claim(s) \/ Look(s) \/ Adopt(s) \/ Create(s)
       \/ Refuse(s) \/ SaveFailure(s) \/ Finish(s) \/ Crash(s)
  \/ List
  \/ \E x \in stripe : ReadUpdate(x) \/ ReadCharge(x) \/ Settle(x)
  \/ WriteUpdate \/ WriteCharge \/ DropEvent
  \/ \E intent \in Intents : Dashboard(intent)
  \/ PayOut
  \/ \E r \in Refunds : Age(r)

Spec == Init /\ [][Next]_vars

\* A sender that has begun goes on, and of attempts without end some run to
\* their end; the job runs every day; Stripe decides; time passes.  Nothing
\* is assumed of clerks or of the delivery of events.
Fairness ==
  /\ \A s \in Senders :
       /\ SF_vars(Claim(s))
       /\ SF_vars(Look(s))
       /\ SF_vars(Adopt(s) \/ Create(s) \/ Refuse(s))
       /\ SF_vars(Finish(s) \/ SaveFailure(s))
  /\ \A s \in Loops : SF_vars(PassOver(s) \/ \E r \in Refunds : Pick(s, r))
  /\ SF_vars(List)
  /\ WF_vars(\E x \in stripe : Settle(x))
  /\ \A r \in Refunds : WF_vars(Age(r))

FairSpec == Spec /\ Fairness

-----------------------------------------------------------------------------
(* Properties                                                              *)

Contents ==
  [ status : Statuses, ids : SUBSET (1 .. MaxStripe),
    charge : SUBSET (Intents \X Nat), age : Ages, readers : SUBSET Senders ]
Calls ==
  [ id : 1 .. MaxStripe, intent : Intents, refund : Refunds \cup { 0 },
    cents : Nat \ { 0 }, status : { "pending", "succeeded", "dead" }, total : Nat ]

\* Types; in particular Stripe is never asked for nothing.
TypeOK ==
  /\ row \in [ Refunds -> Contents ]
  /\ stripe \subseteq Calls
  /\ reversed \subseteq Refunds
  /\ \A x \in extra : x.charge \in Intents \X Nat /\ x.cents \in Nat \ { 0 }
  /\ payment \in { "PAID", "FAILED" } /\ paidOut \in BOOLEAN
  /\ queue \in [ Loops -> SUBSET Refunds ]
  /\ DOMAIN task = Senders
  /\ \A s \in Senders : task[s] # NoTask => task[s].refund \in Refunds
  /\ event # NoEvent => event.about.id \in { x.id : x \in stripe }

\* No refund is sent twice from one charge, whoever presses the button and
\* whatever crashes or gets lost: a retry finds what was sent before.
OneRefundPerCharge ==
  \A x, y \in stripe :
    /\ x.refund = y.refund /\ x.refund # 0 /\ x.intent = y.intent
    /\ x.status # "dead" /\ y.status # "dead"
    => x = y

\* What Stripe has returned for a record, or is returning, never exceeds the
\* record's amount, from one charge or from two.
NeverMoreThanOwed == \A r \in Refunds : Cents(For(r)) <= Amount[r]

Arrived(r) == Cents({ x \in For(r) : x.status = "succeeded" })
OnTheWay(r) == Cents({ x \in For(r) : x.status = "pending" })
Bounced(r) == Cents({ x \in stripe : x.refund = r /\ x.status = "dead" })

\* A refund shown as sent has arrived in full.
RefundedHasArrived ==
  \A r \in Refunds : row[r].status = "REFUNDED" => Arrived(r) = Amount[r]

\* A refund that was being sent when its sender died, or that the bank takes
\* days to pay, is done or failed in the end: nobody has to press a button.
StuckRefundsEnd ==
  \A r \in Refunds :
    row[r].status = "PROCESSING" ~> row[r].status \in { "REFUNDED", "FAILED" }

\* A refund of a closed booking goes out without an operator.
PendingRefundsGoOut ==
  \A r \in Refunds : row[r].status = "PENDING" ~> row[r].status # "PENDING"

\* All of it, as the abstract specification states it: nothing is sent twice,
\* and the ledger is reversed only for money the bank has accepted.
Promise == INSTANCE RefundPromise WITH
  onTheWay <- [ r \in Refunds |-> OnTheWay(r) ],
  arrived <- [ r \in Refunds |-> Arrived(r) ],
  bounced <- [ r \in Refunds |-> Bounced(r) ]
KeepsPromise == Promise!Spec
=============================================================================

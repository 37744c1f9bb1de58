# Verification of the Book Now, Pay Later platform

This directory holds a TLA+ model of the platform's server (`src/backend`): what a booking, its
payment and its refunds go through while customers, operators, administrators, Stripe's webhooks
and the scheduled jobs all work on them, and the machinery under it: the inbox of webhook events,
the job queue, idempotency keys, the count of cars that are left, and the payouts to operators.
TLC checks the model on small instances; TLAPS proves every safety property of the passing runs,
under the hypotheses given below, for every value of the constants.

## The system

A customer asks for a booking of a car or a service. The operator answers it (accepts, rejects,
or suggests an alternative). Acceptance creates one `Payment` row, split into a deposit and a
balance, and the `PaymentScheduleEntry` rows that say when each is due and, for a car rental,
when the driving licence is due. The customer pays by card through Stripe Checkout or uploads a
DuitNow receipt that the operator checks. A rental needs the licence approved before it is ready
for pickup. The booking ends completed, as a no-show, cancelled, expired or rejected. A closure
before pickup refunds what the refund policy says.

All state is in PostgreSQL. There are no in-memory caches of bookings and no locks beyond those
of the transactions, which run at READ COMMITTED.

| Component | State | Operations | Talks to |
| --- | --- | --- | --- |
| Booking lifecycle (`services/booking_status_service.js`, handlers in `controllers/`) | `Booking.status`, history | accept, reject, auto-reject, suggest, decline, override, and `transitionBookingStatus`, which every move should go through | payment schedule, refunds, notifications |
| Payment schedule (`services/payment_schedule*.js`) | `Payment`, `PaymentScheduleEntry` | build, confirm, pend, void, "is it owed" | card and manual payment, sweep |
| Card payment (`routes/stripe_routes.js`) | checkout sessions at Stripe, references in `Payment`, `CommissionLedgerEntry` | checkout, `applyPaidState` from the webhook, the success page and the reconciliation job | Stripe, webhook inbox |
| Manual payment (`controllers/customer_controller.js`, `operator_controller.js`) | `Payment`, `Receipt` | upload, approve, reject, ask for payment | booking |
| Cancellation and expiry (`services/booking_cancellation_service.js`, `jobs/paymentExpiry_job.js`) | `Booking.status`, `Refund` | cancel as customer, operator or administrator; hourly sweep | refund policy, refund sender |
| Refund policy (`services/refund_policy.js`) | none | `computeRefundQuote` | cancellation, sweep |
| Refund sender (`services/stripe_refund_service.js`, `refund_service.js`) | `Refund.status`, refunds at Stripe, ledger reversals | send, retry, apply Stripe's answer, reconcile, complete by hand | Stripe |
| Licence review (`controllers/licence_controller.js`) | `CustomerLicenceDocument` | upload, approve, reject | booking, sweep |
| Webhook inbox (`routes/stripe_routes.js`, `jobs/stripeWebhook_worker.js`, `services/cron_job_service.js`) | `StripeWebhookEvent`, an advisory lock | insert once, claim, apply, retry with backoff, take over what was left locked | card payment, refund sender |
| Job queue (`services/job_queue_service.js`, `jobs/jobQueue_worker.js`) | `JobQueue` | enqueue, claim a batch under a lease, run, complete, reschedule, give up | handlers of analytics events and support mails |
| Idempotency keys (`services/idempotency_service.js`) | `IdempotencyKey` | claim, replay or refuse, complete, release, clean up | creation of a booking, upload of a receipt |
| Listing stock and exposure (`services/car_availability_service.js`, `concurrent_exposure_service.js`, `car_requote_service.js`) | none; counted from `Booking` under the row locks of listing and customer | count, offer, accept, decline | creation and negotiation of a booking |
| Operator payouts (`jobs/operatorPayout_job.js`) | `OperatorPayout`, `CommissionLedgerEntry.payoutId` | claim an entry, transfer, record, cancel | Stripe |
| Credit, subscriptions, pricing, notifications, chat, accounts, clients | a table each, or none | see `PROJECT.json` | |

What is hard here, in one list: two handlers between their read and their write; a status that
is checked and then written without a condition; money captured after a booking was closed;
events that come twice, late or never; a sweep that works from a list it read minutes ago; saves
that are not in the transaction they belong to; refunds computed from a row that changes; locks
and leases that run out while their holder goes on; processes that die between two statements;
numbers that are counted, not stored; and rounding. The `hazards` of `PROJECT.json` give each
its line.

What would make the components correct, in words (the code does not keep all of it: see the
known limits):

* a booking goes on (paid, handed over, completed) only with its payment paid in full;
* the payment row, its parts and the ledger agree, whoever records a payment and how often;
* captured money is recorded, returned or reported, never lost;
* a closed booking stays closed; only defaulters expire; overdue bookings do end;
* a charge that is returned by hand ends its booking;
* a rental is ready for pickup only with an approved licence;
* a closure refunds what the policy says, only what was paid, and never more than is left;
* a refund, a payout, a mail and a booking are made once, however often they are tried;
* an event or job is done or given up in the end, and is done only when its effect is there;
* the bookings of a car are never more than its units.

## Modules

```
BookingStatus   PaymentSchedule   RefundPolicy          definitions, no state
        \             |            /        \
         `------ BookingPayment --'      RefundAccount   state machines

BookingStatus -- CarStock <-- extended and implemented by -- BookingRequest
RefundPromise <-- implemented by -- CardRefund
JobPromise    <-- implemented by -- JobQueue
WebhookInbox        OperatorPayout
```

`MC<module>` gives a module the constants of its runs, `<module>Proofs` holds its theorems;
`MCCarStock` is for the one run of `CarStock` alone.

* `BookingStatus`: the fifteen statuses, the terminal ones and the table of moves.
* `PaymentSchedule`: the functions that compute the next payment row. A part's transaction id is
  kept as its kind (session, payment intent, invented for a manual payment), since that is all
  later code looks at.
* `RefundPolicy`: `computeRefundQuote` and what it calls, in whole cents, with JavaScript's
  `Math.round` as integer arithmetic.
* `BookingPayment`: one booking with everything that happens to it.
* `RefundAccount`: the refunds of one booking over any number of closures, failures and retries.
* `CardRefund`: the card refunds of one closed booking on their way through Stripe.
* `RefundPromise`: the abstract specification of that: cents owed, on the way, arrived; it says
  nothing of rows, claims, charges, senders or crashes.
* `WebhookInbox`: from Stripe's delivery to the outcome of an event.
* `JobQueue`: from a job's row to its end, with two kinds of handlers; `JobPromise`: what the
  code that enqueues is promised, without workers, leases or attempts.
* `CarStock`: who holds which car, and who has how many unpaid bookings.
* `BookingRequest`: the request that creates a booking, around a transaction of `CarStock`; it
  composes the idempotency keys with it.
* `OperatorPayout`: the ledger entries of one booking on their way to the operator.

### How `BookingPayment` corresponds to the code

| Variable | Code |
| --- | --- |
| `booking`, `alternative` | `Booking.status`, `Booking.alternativeUsed` |
| `payment` | the `Payment` row; status `NONE` before it exists |
| `schedule` | the three `PaymentScheduleEntry` rows: deposit, balance, licence |
| `documents` | the customer's `CustomerLicenceDocument` rows, oldest first |
| `clock` | which of four instants have passed: deposit due, balance and licence due, pickup, end of service |
| `sessions` | Stripe's checkout sessions for the booking |
| `inbox` | for each session, its payment events in `StripeWebhookEvent` not yet `PROCESSED` |
| `ledger` | sessions with a `CommissionLedgerEntry` |
| `refunds` | cents in active `Refund` rows, per part |
| `task` | the local variables of every request or job that is running |

A handler reads, decides, and writes. Each of these is a step of its own, because other handlers
run in between:

* `Begin...` is the read with all the guards and early returns. What the handler has read and
  will use later is kept in its task (`seen`, `active`, `cause`, `to`).
* `Check` is the second read, by `transitionBookingStatus` inside the transaction.
* `Commit...` is the transaction's effect. Nothing of it is seen before, as READ COMMITTED
  promises.
* `Abandon` is a refused move, a failed transaction or the death of the process.

The code's order of statements matters for locks. `applyPaidState` and the acceptance write the
payment and schedule rows first and move the booking after that, so they hold row locks from
`Check` to `Commit`; `PaymentLocked` and `ScheduleLocked` keep others from writing the same
rows. Cancellation, sweep and no-show move the booking first and void the schedule after it, so
they only wait at their `Commit`. If two wait for each other PostgreSQL aborts one, which is
`Abandon`.

The handlers of manual payment, the completion job, the automatic rejection and the answer to an
alternative write the booking without looking at it again: `SaveReceipt` then `SaveBooking`,
`Overwrite`, `CommitSuggest`.

`bulkBookingAction` rejects and suggests in whatever status the table allows, without the
questions its single counterparts ask and without voiding the schedule or creating refunds:
`BeginReject` is both ways to reject (the bulk one asks less), `bulkSuggest` the bulk offer,
which does not set `alternativeUsed`; both end in `CommitMove`.

A charge that the staff returns in Stripe's dashboard (`TakeBack`, always the whole charge here;
parts are in `CardRefund`) comes back as `charge.refunded`. The handler finds the payment by the
intent on its parts (`OnRow`), stops if its own refunds explain the amount (`SkipRefunded`), and
otherwise writes three times: the payment is `FAILED` (`BeginRefunded`), the booking is cancelled
if the table allows it (`CancelRefunded`), and the refund is recorded (`RecordRefunded`). It may
die between any two, and the event comes again. How much of the platform's own refunds was sent
by then is one of two cases, none or all.

Merged steps, each because nothing that happens between them is told apart: the sweep's list and
its catching up of entries whose part is paid (`BeginSweep`); the commit of `applyPaidState` and
marking its event `PROCESSED`, since a replay of the same event is covered by the success page,
which may call `applyPaidState` for a session at any time; Stripe's two events of one payment,
which call `applyPaidState` with the same session.

Handlers that cannot have an effect today are left out, with the reason:
`payment_intent.payment_failed` looks a payment up by `Payment.transactionId`, which no code
writes; the overdue check of `cron_service.js` is disabled (`void performOverdueBookingCheck`),
so `OVERDUE` is reached by no move of the table; the administrator's own reject route passes the
id as a string, which the database client refuses.

### How `CardRefund` corresponds to the code

| Variable | Code |
| --- | --- |
| `row` | the booking's `Refund` rows: status, the provider's refund ids, or the charge id that `completeProviderRefund` writes in their place; `age` is the time since `updatedAt` in three classes (under five minutes, under an hour, more); `readers` are the senders whose copy of the row is still current |
| `stripe` | the refunds at Stripe, with the metadata `bnplRefundId` in `refund` (0 for one made by hand) and the charge's `amount_refunded` after it in `total` |
| `reversed` | rows with a `refund:<id>` entry in `CommissionLedgerEntry` |
| `extra` | refunds recorded because `charge.refunded` reported money no row explains |
| `payment`, `paidOut` | `Payment.status`; whether the operator's payout is `TRANSFERRED` |
| `queue` | what `sendCardRefunds` and the daily check have left of their lists |
| `task`, `event` | the local variables of each sender and of the webhook worker |

`processStripeRefund` is cut where another process can come between: `Pick` (all checks on the
row it read), `Claim` (the compare-and-swap, which succeeds as long as nobody has written the
row since), one `Look` per payment intent, then for each step of the plan `Adopt` (a refund
found at Stripe) or `Create`, and `Finish`, or `SaveFailure` after `Refuse` or a lost answer.
`Crash` may end a sender at any of these. Comparing `updatedAt` is modelled by `readers`: every
write empties the set. The webhook worker reads in `ReadUpdate` or `ReadCharge` and writes in
`WriteUpdate` or `WriteCharge`; any event about any refund may come at any time and again, which
stands for late, repeated and reordered delivery.

`charge.refunded` for a charge that is refunded in full also cancels the booking. Here it only
sets `payment`, as a booking with card refunds is closed already; the rest is in
`BookingPayment`.

### How `WebhookInbox` corresponds to the code

`row` is the `StripeWebhookEvent` table with its times as two flags: `due` (`nextAttemptAt` has
passed) and `stale` (`lockedAt` is five minutes old, `STALE_LOCK_MS`). A pass of the worker is `BeginPass` (the
advisory lock of `runLoggedCronJob` and the `findMany` of the batch), then for each event
`ClaimEvent` (the conditional `updateMany`; an event that another pass has written since is
passed over, `Unlisted` and `UnlistedBy`), `Apply`, and `Finish` or `Fail`, which write by the id alone; then
`EndPass`. The lock is held by a transaction of ten minutes: `LoseLock` ends it while the pass
goes on. A pass dates its claims with the moment it began, so what it claims after that is stale
from the start for a pass that began later (`older`), which may take the event over even if it
had listed it before. `Receive` is the endpoint, whose insert does nothing for a known id. Applying is one
step: what it does is the subject of `BookingPayment` and `CardRefund`, where the inbox is the
number of events not yet `PROCESSED`. `late` is history: events that were in hand when a lock
was lost.

### How `JobQueue` corresponds to the code

`row` is the `JobQueue` table with `due` and `leased` for its two times. `Claim` is the `UPDATE
... FOR UPDATE SKIP LOCKED` of `claimJobs`; `batch` keeps the copies it returns, which are not
read again. `GiveUp`, `Start`, `Complete` and `Fail` are the branches of `processJobs`; every
write asks for `PROCESSING` only (`Written`), so a worker whose lease ran out may end a job that
another has taken over. The handlers are cut where something becomes visible: an event's row
(`RecordEvent`), the question whether a mail was sent or is moot (`LookUp`), and for each
recipient the log's row (`WriteLog`) and the mail (`Deliver`). `Expire` is the end of a lease;
`Crash` the death of a process at any of these steps. History: `runs` counts starts, `mailed`
mails, and `overrun` are the jobs whose lease ran out in the hands of a worker that was still
alive.

### How `CarStock` and `BookingRequest` correspond to the code

All bookings want the same day, so a listing is a number of units. `Hold` is `effectiveHold`,
`Count` the lock of the listing's row and the count under it, `BeginCreate` the lock of the
customer's row and the count of unpaid bookings. Creation, offer and acceptance are begun,
counted, agreed to (`transitionBookingStatus` reads the status) and committed;
`AgreeToPay`/`CommitPay` is `acceptBookingAndRequestPayment`, `BeginText`/`CommitText` the
acceptance of an offer that names no car, `BeginDecline`/`CommitDecline` a declined offer, and
`Move` every other handler in one step. `Rollback` is any failure. History: `unchecked` are
bookings that hold a car nobody counted for them, `uncapped` those that became open and unpaid
without a count.

In `BookingRequest`, request `r` would make booking `r`. `Miss` and `Hit` are the read of
`claimIdempotencyKey`, `Insert` its insert under the unique key, `Begin`, `CountFor` and
`Commit` the transaction, `Complete` and `Release` what becomes of the key, `Lapse` its deletion
after a day, `Crash` a death anywhere between. `Elsewhere` is what staff do to the same bookings
meanwhile.

### How `OperatorPayout` corresponds to the code

`state` is what `isSettleableLedgerEntry` says of an entry, `payout` its payout row, `money` and
`keyed` are Stripe's. The job first claims what it listed (`ClaimEntry`, the transaction of
`createPendingPayout`), then lists the pending payouts once (`ListPayouts`) and decides on each
from that copy: `CancelPayout`, or `Transfer` under the entry's key and `Record`.
`ClaimEntry` passes over an entry that leaves the operator nothing or has no account to go to
(`Unpayable`), each hour again. `TransferFails` is Stripe's refusal, `LoseAnswer` a transfer nobody records, `ForgetKey` the day
after which Stripe forgets a key, `LoseLock` and `Crash` as in the inbox. History: `forgotten`,
and `doubtful`, the entries whose transfer was not recorded by who made it, or that a job without
the lock transferred, cancelled or recorded (`Handles`).

### How `RefundAccount` corresponds to the code

`active` are the cents of refunds that `alreadyRefundedCents` counts, `failed` those of `FAILED`
ones. `Close` is a quote and the refunds created from it, `Fail` the write of a failure, `Retry`
the claim of a `FAILED` refund by `processStripeRefund`. A failed refund stays on the account in
full, because it can be sent again and a part of it may be out already. History: `again` are the
cents that a closure quoted although a failed refund of them existed.

## What is checked

The runs of `BookingPayment` use a deposit of 3 and a balance of 5 cents with half the deposit
refundable, so that rounding, the kept share and the two parts can be told apart.
`CHECK_DEADLOCK` is off because a booking that has ended has nothing left to do.

| Run | Instance | States | Shows |
| --- | --- | --- | --- |
| `card_race` | 2 workers, 1 session, 1 document, all 14 handlers of a card-paid rental | 1.8 million | `TypeOK`, `PaidBookingsArePaid`, `CapturedMoneyIsKept`, `RefundsArePaidFor`, `PaidIsFinal` |
| `two_sessions` | 2 workers, 2 sessions; accept, checkout, payment, cancellation, sweep | 1.6 million | `PartsAddUp`, `LedgerMatchesPayment`, `OnlySurplusIsDropped` |
| `one_by_one` | 1 worker, 2 documents, every handler, payment by receipt | 2.8 million | `ReadyHasLicence`, `ClosingReturnsTheBalance` |
| `liveness` | 1 worker, 1 session, card payment, a charge returned by hand, fair | 29,258 | `OverdueEnds`, `CapturedMoneySettlesOrEnds`, `ReturnedChargeEnds` |
| `refund_account` | amounts 0, 1, 3, 10; five elections; any closures, failures and retries; 3 cents quoted again | 302,705 | `NeverMoreThanPaid`, `FollowsPolicy` |
| `card_refund` | one refund of 2 cents that needs both charges; closing request, daily job, one clerk; crashes, lost answers, dashboard refunds, payout | 1.5 million | `TypeOK`, `OneRefundPerCharge`, `NeverMoreThanOwed` |
| `refund_ends` | one refund, no clerk, lost answers, refunds that fail at the bank; fair | 1,941 | `KeepsPromise` (of `RefundPromise`), `StuckRefundsEnd` |
| `webhook_inbox` | 2 passes, 2 events, one of which always fails; crashes, lost locks, repeated deliveries; fair | 27,417 | `TypeOK`, `ProcessedWasApplied`, `HeldByOne`, `ProcessedIsFinal`, `EventsSettle` |
| `job_queue` | 2 workers, an event and a mail, 2 attempts, batches of 2; crashes and leases that run out; fair | 265,930 | `TypeOK`, `HeldByOne`, `RunsAreLimited`, `MailedOnce`, `KeepsPromise` (of `JobPromise`), `JobsEnd` |
| `booking_request` | 2 requests under one key with equal or different bodies, 1 member of staff, 2 cars of one unit, a limit of one unpaid booking | 828,392 | `TypeOK`, `NeverOverbooked`, `ExposureCap`, `OneBookingPerKey`, `AnswersAgree` |
| `payout` | 3 entries (one of a deposit, one with nothing to pay), 2 jobs; crashes, lost locks and answers, a charge that goes back; fair | 85,077 | `TypeOK`, `PaidOnce`, `RowAgreesWithStripe`, `EntriesSettle` |
| `double_booking` | 1 worker, 1 car of one unit, 2 customers | | `LastCarGoesOnce` is violated |

Why these bounds are enough to be interesting: races in this code are between two handlers, one
that has read and one that commits, so two workers show them; the two parts of a payment need
two sessions; a rejected and a second document need two documents. `MaxSessions` and
`MaxDocuments` are the only bounds of `BookingPayment` that cut behaviour off. Payment by receipt needs no session,
so `one_by_one` has none, and `card_race` and `liveness` have no receipts.

In `RefundAccount` only `MaxAgain` cuts behaviour off: closures stop before they quote more than
three cents a second time. Three is the amount of a whole part, so that one closure, a failure,
another closure and a retry bring the active refunds above what was paid, several times over for
the smallest amount.

In `CardRefund` the charges hold 1 or 2 cents, so that a refund can be split over both and a
dashboard refund can leave too little; `MaxStripe` bounds the refunds made at Stripe by 3, one
more than a correct run of one refund over two charges makes, and is the only bound. `Faults`
says what may go wrong, so that each run names what its result depends on: `card_refund` is
without `slow` and `dies` (see the known limits).

Inbox, queue and payout: a race is between a holder whose lock or lease ran out and its
successor, so two of them show it, and two items share one list. An event that always fails next
to a good one, in batches of two, shows that it cannot starve the other; `EventsSettle` needs
fewer such events than a batch holds (twenty in the code, where the growing delay makes more of
them rare). Two attempts instead of five let a job be taken over, fail and be given up. Counts
that make no more difference are capped (`Again`, `Bump`, `money`, `applied`). In
`booking_request` one unit per car and one booking per customer put every count at its limit.
Cars and bodies are interchangeable there, which `SYMMETRY` uses (the run has no liveness
property). `MoveTo` names the statuses that other handlers may give, one for each way a booking
may come to hold, or no longer hold, what it held.

`CHECK_DEADLOCK` is off in most runs: when everything has ended nothing is left to do.

`ReadyHasLicence` and `ClosingReturnsTheBalance` hold only when handlers run one after the other
(see the known limits below); that is why `one_by_one` has one worker. What they say is that each
handler, begun in any state a history of handlers can leave, does its part right; they say
nothing of two that overlap. `RefundsArePaidFor` is what remains of the refund rule when they do.
It also holds with `charge.refunded` (`CardRace.cfg` with `Operations <- CardAndDashboard`, 6.1
million states, too many for a run that is repeated often). `liveness` has one worker because
TLC's search for cycles grows with it; the worker still is abandoned anywhere.

### Fairness

`liveness` assumes weak fairness of `Abandon` (a request or transaction does not hang: Prisma's
transactions time out) and strong fairness of the sweep's and the webhook worker's turns
(`BeginSweep`, `EventTaken`, `ReturnTaken`): both are started by cron again and again (`0 * * * *`,
every minute) and events are retried without limit. Of what follows only this is assumed
(`AttemptsSucceed`): of the transactions of these handlers that are tried again and again, taken
together, one passes its check and one commits. So a particular event or sweep may fail any
number of times while others go through. Nothing is assumed of customers, operators or Stripe: no
fairness on paying, answering, cancelling, uploading or returning money by hand.

`refund_ends` assumes that the daily job is started again and again (`0 9 * * *`) and that of
its attempts, and of those of any sender, some run to their end (strong fairness of each step,
as a crash may interrupt any one of them); that Stripe decides a pending refund; and that time
passes. Clerks need never come, and no event need be delivered: the daily check alone makes
`StuckRefundsEnd` hold. The instance has one refund and one charge in use; with more the
fairness would have to name the steps for each.

`webhook_inbox`, `job_queue` and `payout` assume that time passes, that the job is started again
and again (every minute, on a timer, every hour), and that a process that is not interrupted
goes on (weak fairness of its steps together, as it decides itself which is next). Processes may
die and calls may fail any number of times, but not for ever at the same point of the same item:
strong fairness of claiming, applying and closing each event, of claiming each entry, of transfers
and cancellations of payouts together and of records of them together (`Deciding`, `Recording`),
and of giving up each hopeless job. The queue needs no more than that: a
job whose runs all kill their process ends because taking it over counts as an attempt. Nothing
is assumed of deliveries, customers or refusals.

## Where code and its documents disagree

`double_booking`: `ACTIVE_BOOKING_STATUSES` in `services/car_availability_service.js:27` lacks
`READY_FOR_PICKUP`. From the approval of the licence until the hand-over a paid booking is not
counted, and its car is offered and given to somebody else. The comment of the booking endpoint
(`controllers/car_booking_controller.js:9-11`) says that two requests for the last car are
serialised and the second sees the first one's booking when it counts stock.

## Known limits of the checked promises

Some promises hold only in the instances above. TLC shows each of the following when the named
constant of the run's configuration is changed and the property is checked:

| Property | Change | What happens |
| --- | --- | --- |
| `TerminalIsFinal` | `OneByOne.cfg`, `Workers = {w1, w2}`, `Operations = {"accept", "suggest", "cancelCustomer"}` | The operator is suggesting an alternative while the customer cancels: the suggestion is written over the cancelled booking. |
| `TerminalIsFinal` | `OneByOne.cfg`, no change | A receipt is approved or rejected after the booking was cancelled or expired: the booking is open again. |
| `RecordedChargesStay` | `CardRace.cfg`, `PartialRefund <- KeepDeposit` | Deposit recorded, customer cancels, the deposit is to be kept. Every payment has two events; the second is handled after the cancellation, finds a closed booking whose payment is not complete and returns the charge that was recorded. |
| `CapturedMoneySettles` | `Liveness.cfg`, no change | A payment is captured while the booking expires. `EXPIRED` is not in the list of closed statuses, the move is refused, the event fails for ever and the money stays. |
| `PaidIsFinal` | `CardRace.cfg`, `Operations = {"accept", "checkout", "applyPaid", "rejectReceipt"}` | An operator rejects a payment that was unpaid when the page was read (`rejectPayment`); a card payment recorded in between becomes `FAILED`. |
| `PaidIsFinal` | `CardRace.cfg`, `Operations <- CardAndDashboard` | A charge is returned in Stripe's dashboard: `charge.refunded` sets the paid payment to `FAILED`, as it is meant to. |
| `PaidBookingsArePaid` | `CardRace.cfg`, `Operations <- CardAndDashboard` | The same, before the booking is cancelled, or when it is in use or completed already and cannot be. |
| `PaidBookingsArePaid` | `CardRace.cfg`, `Operations = {"accept", "uploadReceipt", "approveReceipt"}` | A receipt is uploaded while another is being approved: the payment waits for verification again, and the booking becomes `PAID`. |
| `ClosingReturnsTheBalance` | `CardRace.cfg`, no change | A balance payment commits between the read and the commit of a cancellation; the booking is cancelled without a refund of the balance, which `backend/REFUNDS.md:11` says is refunded in full whenever it was paid. Two who cancel at once both quote the whole, and the booking has two sets of refunds. |
| `OnlyDefaultersExpire` | `Liveness.cfg`, no change | A licence is uploaded after the sweep has read its list: the booking is expired although a review is waiting. |
| `NeverMoreThanOwed` | `CardRefund.cfg`, `Faults = {"slow"}` | A sender takes more than five minutes between looking and sending. Its row counts as abandoned, another sender looks, finds nothing, and both send. |
| `RefundedHasArrived` | `CardRefund.cfg`, `Faults = {}` | A refund needs two charges. An event about the first part comes before the ids are saved and marks the whole as refunded; the sender then fails, and the rest is not sent. |
| `KeepsPromise` of `CardRefund` | `CardRefund.cfg`, `Faults = {"dashboard"}` | Somebody returns one cent by hand; `charge.refunded` takes it for the pending refund of two, marks that as refunded and reverses its ledger entry. |
| `KeepsPromise` of `CardRefund` | `RefundEnds.cfg`, `Clerks = {"clerk"}`, `Faults = {"dies"}`, `MaxStripe = 3` | The bank sends a refund back and another sender looks, finding nothing to reuse; the event about the bounce then marks its row as failed, so a clerk may send as well: both do. |
| `StuckRefundsEnd` | `RefundEnds.cfg`, `Faults = {"lost", "payout"}` | A sender dies, the operator's payout is transferred, and from then on nobody may look at the refund: it stays `PROCESSING`. |
| `PendingRefundsGoOut` | `RefundEnds.cfg`, no change | The request dies between the cancellation and the sending: the refund is `PENDING`, which the daily check does not look at. |

Other properties name in their own text what they except, by a history variable of the model.
These cases do occur:

* `WebhookInbox`: a pass that outlived its lock writes `FAILED` over the `PROCESSED` of its
  successor, and the event is applied once more (`late`).
* `JobQueue`: a lease covers a batch and is not extended, so the last jobs of a slow batch are
  run by two workers, and a mail may go out twice (`overrun`). Also, the log marks an alert as
  sent with its first recipient; a crash then leaves the others without a mail.
* `RefundAccount`: a refund fails, a second closure quotes its money again, and then the first is
  sent again: the active refunds exceed what was paid, by what was quoted twice (`again`). What
  stops the money is not the platform's account but Stripe, which gives no more back than a charge
  holds (`allocateRefund` then throws `REFUND_EXCEEDS_PAYMENT`).
* `CarStock`: a booking that an operator accepts while an offer for another car is being made,
  or that a write from an older copy reopens after it was closed, ends up with a car nobody
  counted for it (`unchecked`); a booking with an offer does not count as unpaid, so its
  customer may open another before accepting it (`uncapped`).
* `OperatorPayout`: a call repeated after more than a day makes a second transfer (`forgotten`);
  a payout may be cancelled although a transfer was made that was not recorded, or, with two jobs
  after a lost lock, `CANCELLED` may be written by id over a `TRANSFERRED` that was (`doubtful`).
  A payout that is cancelled keeps its entry, which is not paid again should it become settleable later.
* `BookingPayment`: a charge that is returned by hand before its payment is recorded is recorded
  as a payment afterwards, so `ReturnedChargeEnds` speaks of recorded charges only. An approval of
  the licence and a complete payment that pass each other leave the booking `PAID` with an
  approved licence: each looks before the other's commit, and nobody looks again.
* `BookingRequest`: a key that lapsed, or whose answer could not be stored, protects nothing
  (`lapsed`). A request that died is refused for a day: by intention, as nobody knows what it
  did.

## What is proved

With TLAPS, for every value of the constants that satisfies the modules' assumptions:

* `BookingPaymentProofs!TypesHold`: `TypeOK` is an invariant. It is not inductive: a commit
  writes what its task holds, so `TasksHold` says what a task of each kind holds (a status to
  write, a session), and an event leaves the inbox only if it is there, which needs
  `OneEventAtATime` (the webhook worker's advisory lock) and the event's presence in
  `TaskHolds`. There is one lemma per kind of step.
* `BookingPaymentProofs!LedgerFollowsPayments`, `PartsAlwaysAddUp`, `NobodyDrivesUnpaid`,
  `DroppedEventsAreSurplus` and `CardPaymentsStayPaid`: with the handlers of a card payment
  (`CardOperations`), any number of workers and sessions, and any amounts,
  `LedgerMatchesPayment`, `PartsAddUp`, `PaidBookingsArePaid`, `OnlySurplusIsDropped` and
  `PaidIsFinal` hold. None of them is inductive, because a commit writes what its handler
  computed from an older row. `CardInv` says why the old row is good enough: before acceptance
  there is no row (`NotAccepted`); at most one transaction that writes the row is past its check
  (`OneWriter`, the row lock); a part that a payment handler saw paid is still paid, and a
  deposit that is about to be confirmed leaves the balance open (`ApplyHolds`, from the table:
  CONFIRMED is entered from PENDING_PAYMENT only, and by `SettledParts` such a booking has an
  open balance); every other handler promises a paid status only for a complete payment
  (`MoveHolds`). `CardInv` was model-checked before it was proved. The theorems are about the
  card handlers only: some fail once receipts are handled too (see the known limits).
* `BookingPaymentProofs!CapturedMoneyIsNotForgotten`: `CapturedMoneyIsKept` with the card
  handlers, any number of workers and one session, as the property's comment says (with more, a
  surplus payment is dropped; that is what `OnlySurplusIsDropped` is for). An event is dropped
  only for a complete payment, and by the ledger's agreement with it a complete payment has a
  recorded session, which is this one; where nothing is to be paid no session is ever opened
  (`NoSessions`).
* `BookingPaymentProofs!OnlyPaidPartsAreRefunded`: `RefundsArePaidFor` with the card handlers, any
  number of them at once, and any amounts. A quote is made from the payment its handler read, so
  `RefundInv` adds to `CardInv` that a part which any task has seen paid is paid (`SeenIsPaid`).
  That is kept because no card handler takes a part back (`NextPartsStay`, which also gives
  `CardPaymentsStayPaid`), except acceptance, which starts the row again, but only before
  anything is paid. Only closures create refunds (`OnlyClosuresRefund`), and a quote returns
  nothing of a part that was not seen paid (`QuotesOfSeen`).
* `BookingPaymentProofs!ReadyRentalsHaveLicence` and `ClosuresRefundByPolicy`: `ReadyHasLicence`
  and `ClosingReturnsTheBalance` for any amounts, elections, sessions and documents and all
  handlers, receipts, overrides and `charge.refunded` included, as long as there is at most one
  worker. Handlers that overlap break both (see the known limits); the code does not serialise
  them, so these two are statements about each handler and not about the races between them. One
  worker is not one atomic step: a handler stops between its reads and its writes while the
  customer pays, uploads or time passes, and is abandoned anywhere. `AloneInv` says what holds
  meanwhile: what the handler has read is still so (`CopyIsCurrent`, `ReviewIsCurrent`), the cause
  it quotes for is the one the booking's state calls for (`CauseIsCurrent`), and a payment is paid
  when its parts are (`WholeIsParts`), which is what makes the sums of the quote those of the
  parts. That a quote is the policy's split, to the cent and within what is left, is
  `RefundPolicyProofs!QuoteSplits`.
* `RefundAccountProofs!RefundsNeverExceedPayment` and `QuotesFollowPolicy`: from
  `RefundPolicyProofs!QuoteIsCents` (a quote is a pair of natural numbers) and `QuoteSplits`: the
  procedural "take the excess off the deposit, then the balance" equals the policy's wording, and
  the sum is at most what is left of the active refunds. So a closure adds to active and failed
  refunds together at most what is left plus what it quotes again, which is the property. For an
  account on which nothing ever failed it says that no more goes back than was paid.
* `CardRefundProofs!SentOncePerCharge`: `OneRefundPerCharge` for any set of refunds, clerks and
  intents and every fault but `slow` and `dies` (`Careful`). The property is about Stripe only;
  what makes it inductive is `SendInv`: a sender that has claimed a row keeps it taken
  (`Exclusive`: whoever holds a current copy may claim, and every claim makes all copies stale),
  so there is one sender per refund; and what that sender has looked up is still so
  (`Informed`), as nobody else makes a refund for its record and none disappears. `Create` is
  the one step that makes a refund for a record, and it does so only where `Informed` says there
  is none. `PlacesDiffer` says that no intent comes twice on the list. `Age` keeps `Exclusive`
  because of `Careful`, `WriteUpdate` because no dead refund is ever reported. `SendInv` was
  model-checked before it was proved.
* `CardRefundProofs!NoRefundIsTooLarge`: `NeverMoreThanOwed`, also under `Careful`, for any
  amounts and for records that need both charges. `OwedInv` adds to `SendInv`: no charge gives
  back more than it captured (`Drawn`); no refund of a record is larger than it, nor are two
  together, and the second charge is used only when the first has given its share or has nothing
  left (`Within`); and what a sender has noted down of a charge is what it can still give, or
  more, or what it has given (`Reckons`), so that a retry takes from the second charge only what
  the first cannot give. `OwedInv` was model-checked before it was proved.
* `CardRefundProofs!RefundTypesHold`: `TypeOK` with all faults.
* `CardRefundProofs!SendersKeepPromise`: `KeepsPromise`, the refinement of `RefundPromise`, with
  crashes, lost answers, payouts and late or repeated events, under five conditions: one record
  (`OneRecord`), paid back from one charge (`OneCharge`), nobody refunding in the dashboard
  (`NoDashboardRefunds`), senders that end within five minutes (`PromptSenders`), and no clerk
  where refunds may fail at the bank (`BouncesWithoutClerks`). The first two hold, for example, of
  a booking of which only the deposit was paid; the code ensures none of them, and none can be
  dropped. With two charges, an event about one part marks the whole as refunded; with two
  records, `charge.refunded` for one marks the other; one cent returned by hand is taken for the
  record; a slow sender and its successor both send. With a clerk and refunds that fail, TLC finds
  this: a refund bounced, a sender looks again and finds nothing, the late event about the bounce
  marks the row `FAILED` under its hands, the clerk presses the button, and both send. `PlanInv`
  says that every refund at Stripe is all of a record (`Whole`), that a sender is about to make
  one only where none is under way, and is done only after one was made (`Plans`). That two
  senders are never at work on one record comes from `SendInv`, or without clerks from `LoopInv`:
  the daily job lists only what the closing request is done with. Each step is then one of the
  promise (`CreateKeeps`, `SettleKeeps`, `ReversesKeep`) or a stutter.
* The sums of cents are folds over finite sets. `CardRefundProofs` takes the fold apart
  (`Adds`, `IsSum`): there is one function that adds up the subsets of a finite set
  (`SumsExist`, `SumsAgree`), and any element may be taken first (`SumTakesAny`). These are
  inductions on the number of elements, done by least counterexample with the library's
  well-foundedness of the naturals. `OneMoreRefund` and `OneRefundForAnother` are what the
  proofs of the invariants cite.
* `WebhookInboxProofs`: `TypeOK`, `ProcessedWasApplied`, `HeldByOne` and `ProcessedIsFinal` for any
  events, passes and batch size. `Hands` says that a pass has one event in hand at most, and
  without the lock only one in `late`; `DidApply` that whoever may write `PROCESSED` has
  applied; `RowsAgree` that an event in hand and not late is `PROCESSING`, and that no list
  still names a processed event.
* `JobQueueProofs`: `TypeOK`, `HeldByOne`, `RunsAreLimited`, `MailedOnce` for any jobs, workers,
  recipients and limits, and the refinement `KeepsPromise`. Outside `overrun`, what a worker
  holds is leased to it and its copy is true (`Leased`), and is held once (`Once`); each start
  is paid for with an attempt when the run ends or is taken over (`RunsArePaid`);
  `MailsAreLogged` and `Handled` say how far a handler is. The refinement needs of `Handled`
  only that whoever is about to complete a row has left the effect, which holds for overrun jobs
  too; each step then moves one job of `JobPromise`, applies one, or is a stutter
  (`PromiseStep`).
* `BookingRequestProofs`: `TypeOK`, `NeverOverbooked` and `ExposureCap` for any cars, stock,
  customers, limits and bookings. A count is only good as long as the lock is held, so `StockInv`
  says of a transaction that has counted that it holds the lock and that there is still room for
  one more (`RoomForOne`, `LimitForOne`); every step of another transaction that adds a holder
  would need the same lock, or adds it to `unchecked`. `RequestsFollowTheStock`: every step of
  `BookingRequest` is one of `CarStock` or leaves it alone, which carries these two over.
  `OneBookingPerKey` and `AnswersAgree`: from `OwnWork` (only request `r` creates booking `r`),
  `Progress` (where a handler is says what it has done) and `Rows` (the row under a key is of the
  one request that claimed it).
* `OperatorPayoutProofs`: `TypeOK`, `PaidOnce` and `RowAgreesWithStripe` for any entries and jobs.
  `KeysRemembered`: an entry that was transferred has its key at Stripe or is in `forgotten`;
  `Places`: money has moved only for entries that are claimed, and an entry that was just
  transferred is not met again in the same run; `Certain`: of entries that are not doubtful,
  only the holder of the lock has any in hand, and what was paid is recorded or about to be.
  `RowAgreesWithStripe` excepts by name what its comment excepts and no more.

The assumptions, all named in the modules: `AmountsAssumption`, `BoundsAssumption`,
`AmountsAreCents`, `MaxAgainIsCents` and `TermsAreElections` (amounts are whole cents, an election is a flag, a
percentage and a flag); `RefundsAssumption`; `EventsAreOrdered`, `JobsAreOrdered` and
`EntriesAreOrdered` (rows are numbers in the order of creation); `JobKinds` and `Limits`;
`PoisonAmongEvents`, `DepositsAmongEntries` and `UnpayableAmongEntries`; `NoPassIsNone`, `NoJobIsNone` and `NoneIsNone`;
`BookingsHaveCustomers`, `StockAndLimits` and `OtherMoves`; `FiniteBookings`, since
cardinalities are compared; `RequestsServeThemselves`, `RequestsHaveKeys` and
`KeysHaveOneCustomer` (a key is one customer's, as the code's key includes the user).

Only model-checked: the liveness properties `OverdueEnds`, `CapturedMoneySettlesOrEnds`, `ReturnedChargeEnds`,
`StuckRefundsEnd`, `EventsSettle`, `JobsEnd` and `EntriesSettle`, as liveness and `ENABLED` are
beyond the prover.

## What is not modelled, and why

* Refunds of receipts that an operator sends by hand (`completeManualRefund`), and invoices, which
  only mirror the payment. In `BookingPayment` a charge is returned by hand as a whole; parts of
  one are in `CardRefund`.
* Servicing blocks of a car, and ranges of days altogether: `CarStock` has one day and a fixed
  stock. The bookings of free-text services and of partner sites hold no car and have no stock
  to count.
* Operator subscriptions: a life cycle of its own, of invoices and plan changes, that no
  modelled handler reads.
* Customer credit: a record of events that feeds back into a booking only through the limit,
  which is a constant here.
* Pricing: arithmetic that ends before the modelled part begins.
* Notifications, chat and the assistant: text and output, apart from the support mails that
  `JobQueue` has as its example of a handler that cannot be repeated. Accounts and access: every
  handler is called by somebody who may.
* The web and mobile clients, two thirds of the repository's lines: user interfaces over the
  HTTP API. They keep no state that the server relies on, and no promise of theirs is more than
  a view of the server's.

What could be added next: subscriptions as a module of their own; days and servicing blocks in
`CarStock`; and proofs of the overlapping handlers for more than card payments, where the known
limits leave something to prove.

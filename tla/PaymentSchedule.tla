-------------------------- MODULE PaymentSchedule --------------------------
(***************************************************************************)
(* The Payment row of a booking, split in a deposit (down payment) and a   *)
(* balance (final payment), and the functions that compute its next value  *)
(* (services/payment_schedule_service.js).  A row has one overall status,  *)
(* one method and, for each part, a status and the kind of reference kept  *)
(* in its transaction id: none, a checkout session, a payment intent or a  *)
(* number invented for a manual payment.                                   *)
(***************************************************************************)
EXTENDS Integers

PaymentTypes == { "DOWN_PAYMENT", "FINAL_PAYMENT", "FULL_PAYMENT" }
PartStatuses == { "UNPAID", "PENDING_VERIFICATION", "PAID", "FAILED" }
References   == { "none", "session", "intent", "manual" }

\* "NONE" stands for a booking that has no Payment row yet.
OverallStatuses ==
  { "NONE", "UNPAID", "PARTIALLY_PAID", "DOWN_PAYMENT_PENDING_VERIFICATION",
    "FINAL_PAYMENT_PENDING_VERIFICATION", "PAID", "FAILED" }

Payments ==
  [ status : OverallStatuses, method : { "PENDING", "STRIPE", "DUITNOW" },
    down : PartStatuses, final : PartStatuses,
    downRef : References, finalRef : References ]

NoPayment ==
  [ status |-> "NONE", method |-> "PENDING", down |-> "UNPAID",
    final |-> "UNPAID", downRef |-> "none", finalRef |-> "none" ]

CoversDown(type)  == type \in { "DOWN_PAYMENT", "FULL_PAYMENT" }
CoversFinal(type) == type \in { "FINAL_PAYMENT", "FULL_PAYMENT" }

\* getOverallPaymentStatus
OverallStatus(down, final) ==
  CASE down = "PAID" /\ final = "PAID"                 -> "PAID"
    [] down = "PAID" /\ final = "PENDING_VERIFICATION"
                             -> "FINAL_PAYMENT_PENDING_VERIFICATION"
    [] down = "PAID" /\ final \notin { "PAID", "PENDING_VERIFICATION" }
                             -> "PARTIALLY_PAID"
    [] down = "PENDING_VERIFICATION"
                             -> "DOWN_PAYMENT_PENDING_VERIFICATION"
    [] down \notin { "PAID", "PENDING_VERIFICATION" }
         /\ final = "PENDING_VERIFICATION"
                             -> "FINAL_PAYMENT_PENDING_VERIFICATION"
    [] OTHER                 -> "UNPAID"

\* What getPaymentSpec charges for a type, from the amounts of the two parts.
PriceOf(type, deposit, balance) ==
  (IF CoversDown(type) THEN deposit ELSE 0)
    + (IF CoversFinal(type) THEN balance ELSE 0)

\* getPaymentSpec throws when there is nothing to charge, and for the balance
\* before the deposit.
SpecExists(seen, type, deposit, balance) ==
  /\ seen.status # "NONE"
  /\ type = "FINAL_PAYMENT" => seen.down = "PAID"
  /\ PriceOf(type, deposit, balance) > 0

\* The part statuses that follow, when type takes the value s.
NextDown(seen, type, s)  == IF CoversDown(type) THEN s ELSE seen.down
NextFinal(seen, type, s) == IF CoversFinal(type) THEN s ELSE seen.final
StatusAfter(seen, type, s) ==
  OverallStatus(NextDown(seen, type, s), NextFinal(seen, type, s))

\* The update getPaymentConfirmationData builds from the row that was read
\* (seen), written over the row as it is by then.
Confirmed(row, seen, type, ref) ==
  [ row EXCEPT
      !.status   = StatusAfter(seen, type, "PAID"),
      !.method   = IF seen.method = "PENDING" THEN "STRIPE" ELSE seen.method,
      !.down     = IF CoversDown(type) THEN "PAID" ELSE @,
      !.final    = IF CoversFinal(type) THEN "PAID" ELSE @,
      !.downRef  = IF CoversDown(type) THEN ref ELSE @,
      !.finalRef = IF CoversFinal(type) THEN ref ELSE @ ]

\* The update getPaymentPendingData builds, with the method of the receipt.
AwaitingVerification(row, seen, type) ==
  [ row EXCEPT
      !.status = StatusAfter(seen, type, "PENDING_VERIFICATION"),
      !.method = "DUITNOW",
      !.down   = IF CoversDown(type) THEN "PENDING_VERIFICATION" ELSE @,
      !.final  = IF CoversFinal(type) THEN "PENDING_VERIFICATION" ELSE @ ]

\* getManualPaymentOptions: the parts a receipt can be uploaded for.
ManualOption(seen, type, deposit, balance) ==
  CASE type = "DOWN_PAYMENT"  -> deposit > 0 /\ seen.down # "PAID"
    [] type = "FINAL_PAYMENT" -> /\ balance > 0
                                 /\ seen.down = "PAID"
                                 /\ seen.final # "PAID"
    [] type = "FULL_PAYMENT"  -> /\ deposit > 0 /\ balance > 0
                                 /\ seen.down # "PAID"
                                 /\ seen.final # "PAID"
=============================================================================

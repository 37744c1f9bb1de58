---------------------------- MODULE RefundPolicy ----------------------------
(***************************************************************************)
(* The one calculation that decides every refund                           *)
(* (services/refund_policy.js).  Amounts are whole cents.                  *)
(***************************************************************************)
EXTENDS Integers

RefundCauses ==
  { "CUSTOMER", "OPERATOR", "OPERATOR_OVERDUE", "MISSED_BALANCE",
    "MISSED_LICENCE", "PLATFORM_FAULT", "ADMIN_CUSTOMER_FAULT",
    "ADMIN_OPERATOR_FAULT", "ADMIN_PLATFORM_FAULT" }

EverythingBack ==
  { "OPERATOR", "PLATFORM_FAULT", "ADMIN_OPERATOR_FAULT",
    "ADMIN_PLATFORM_FAULT" }

Lesser(a, b) == IF a <= b THEN a ELSE b

\* paidParts: the deposit and the balance the row says are paid, in cents.
PaidDeposit(payment, deposit) ==
  IF payment.down = "PAID" \/ payment.status = "PAID" THEN deposit ELSE 0
PaidBalanceByCard(payment, balance) ==   \* a slip: a manual payment is not counted
  IF payment.final = "PAID" /\ payment.method = "STRIPE" THEN balance ELSE 0
PaidBalance(payment, balance) ==
  IF payment.final = "PAID" \/ payment.status = "PAID" THEN balance ELSE 0

\* depositRefundPercent: the operator's election, where it applies.
DepositRefundPercent(terms) ==
  IF terms.elected /\ terms.eligible /\ terms.percent \in 0..100
    THEN terms.percent ELSE 0

\* Math.round of a non-negative percentage.
PercentOf(cents, percent) == (2 * cents * percent + 100) \div 200

\* Slips: the operator's percentage applies to the balance as well; money on its
\* way back is not counted.
SamePercentQuote(paidDeposit, paidBalance, active, cause, terms) ==
  LET percent == IF cause \in EverythingBack THEN 100 ELSE DepositRefundPercent(terms)
  IN  [ deposit |-> PercentOf(paidDeposit, percent),
        balance |-> PercentOf(paidBalance, percent) ]
FreshQuote(paidDeposit, paidBalance, active, cause, terms) ==
  LET percent == IF cause \in EverythingBack THEN 100 ELSE DepositRefundPercent(terms)
  IN  [ deposit |-> PercentOf(paidDeposit, percent), balance |-> paidBalance ]

\* computeRefundQuote: what goes back of the deposit and of the balance, when
\* `active` cents are already refunded or on their way.
RefundQuote(paidDeposit, paidBalance, active, cause, terms) ==
  LET percent   == IF cause \in EverythingBack
                     THEN 100 ELSE DepositRefundPercent(terms)
      owed      == PercentOf(paidDeposit, percent)
      left      == paidDeposit + paidBalance - active
      remaining == IF left > 0 THEN left ELSE 0
      excess    == IF owed + paidBalance > remaining
                     THEN owed + paidBalance - remaining ELSE 0
      cut       == Lesser(owed, excess)
  IN  [ deposit |-> owed - cut, balance |-> paidBalance - (excess - cut) ]
=============================================================================

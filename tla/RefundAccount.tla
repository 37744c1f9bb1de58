---------------------------- MODULE RefundAccount ----------------------------
(***************************************************************************)
(* The refunds of one booking, as the refund policy quotes them.  A closure*)
(* (a cancellation or the sweep) quotes what goes back and creates the     *)
(* refunds; a booking may be closed more than once, because a manual       *)
(* payment can be approved after the closure and opens it again.  Refunds  *)
(* that fail stop counting as active, so a later closure quotes their money*)
(* again; they can still be sent again themselves, and part of them may    *)
(* already have gone out.                                                  *)
(***************************************************************************)
EXTENDS RefundPolicy

CONSTANTS
  Amounts,   \* possible amounts of a part, in cents
  Terms,     \* possible elections of the operator
  MaxAgain   \* bound on the cents quoted again

ASSUME AmountsAreCents == Amounts \subseteq Nat
ASSUME TermsAreElections ==
  Terms \subseteq [ elected : BOOLEAN, percent : Nat, eligible : BOOLEAN ]
ASSUME MaxAgainIsCents == MaxAgain \in Nat

VARIABLES
  paid,     \* what the customer has paid of the two parts
  active,   \* cents refunded or on their way back
  failed,   \* cents of FAILED refunds, which may be sent again
  again,    \* history: cents quoted although a FAILED refund of them exists
  last      \* the last closure: active cents before it, cause, terms and quote

vars == << paid, active, failed, again, last >>

Quotes == [ deposit : Nat, balance : Nat ]
Paid == paid.deposit + paid.balance

TypeOK ==
  /\ paid \in [ deposit : Amounts, balance : Amounts ]
  /\ active \in Nat /\ failed \in Nat /\ again \in Nat
  /\ last \in [ before : Nat, cause : RefundCauses, terms : Terms, quote : Quotes ]

Nothing == [ deposit |-> 0, balance |-> 0 ]

Init ==
  /\ paid \in [ deposit : Amounts, balance : Amounts ]
  /\ active = 0 /\ failed = 0 /\ again = 0
  /\ \E terms \in Terms :
       last = [ before |-> Paid, cause |-> "CUSTOMER", terms |-> terms,
                quote |-> Nothing ]

\* createRefundsForClosure, and cancelBooking alike: one refund per part of
\* the quote.
Close(cause, terms) ==
  LET quote == RefundQuote(paid.deposit, paid.balance, active, cause, terms)
      total == quote.deposit + quote.balance
  IN  /\ again + Lesser(failed, total) <= MaxAgain
      /\ active' = active + total
      /\ again' = again + Lesser(failed, total)
      /\ last' = [ before |-> active, cause |-> cause, terms |-> terms, quote |-> quote ]
      /\ UNCHANGED << paid, failed >>

\* Refunds of some amount fail: their status is no longer an active one, though
\* a part of them may have been sent.
Fail(amount) ==
  /\ amount <= active
  /\ active' = active - amount
  /\ failed' = failed + amount
  /\ UNCHANGED << paid, again, last >>

\* processStripeRefund of FAILED refunds: they are claimed like pending ones.
Retry(amount) ==
  /\ amount <= failed
  /\ failed' = failed - amount
  /\ active' = active + amount
  /\ UNCHANGED << paid, again, last >>

Next ==
  \/ \E cause \in RefundCauses, terms \in Terms : Close(cause, terms)
  \/ \E amount \in Amounts : Fail(amount)
  \/ \E amount \in Amounts : Retry(amount)

Spec == Init /\ [][Next]_vars

\* "Money already refunded is never refunded twice": however often a booking is
\* closed and its refunds fail and are sent again, all its refunds together, the
\* failed ones in full because they may be sent again or have gone out in part,
\* come to no more than was paid, except for what a closure quoted while a
\* refund of the same money stood as FAILED.
NeverMoreThanPaid == active + failed <= Paid + again

\* The policy as it is written, without the procedure: of what is left the
\* balance goes back first and in full, then the deposit up to the share the
\* rule gives.  Retries can bring the active refunds above what was paid; then
\* nothing is left.
AsWritten(parts, closure) ==
  LET rest  == parts.deposit + parts.balance - closure.before
      left  == IF rest > 0 THEN rest ELSE 0
      terms == closure.terms
      share == IF closure.cause \in EverythingBack THEN parts.deposit
               ELSE IF terms.elected /\ terms.eligible /\ terms.percent <= 100
                 THEN PercentOf(parts.deposit, terms.percent)
               ELSE 0
  IN  /\ closure.quote.balance = Lesser(parts.balance, left)
      /\ closure.quote.deposit = Lesser(share, left - closure.quote.balance)

\* What computeRefundQuote returns is what the policy says, for the payment and
\* the refunds the closure found.
FollowsPolicy == AsWritten(paid, last)
=============================================================================

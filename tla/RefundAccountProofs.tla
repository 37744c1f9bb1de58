------------------------- MODULE RefundAccountProofs -------------------------
(***************************************************************************)
(* The refund calculation for every amount, percentage and cause.          *)
(***************************************************************************)
EXTENDS RefundAccount, RefundPolicyProofs

(***************************************************************************)
(* The invariants of RefundAccount.  A closure quotes at most what the     *)
(* active refunds leave of the payment; of that, what the FAILED refunds   *)
(* already stand for is counted by `again`, so the bound is inductive.     *)
(***************************************************************************)
IInv == TypeOK /\ NeverMoreThanPaid /\ FollowsPolicy

LEMMA IInvHolds == Spec => []IInv
<1> USE DEF Paid
<1>1. Init => IInv
  <2> SUFFICES ASSUME Init PROVE IInv
    OBVIOUS
  <2>1. paid.deposit \in Nat /\ paid.balance \in Nat
    BY AmountsAreCents DEF Init
  <2>2. PICK terms \in Terms :
          last = [ before |-> Paid, cause |-> "CUSTOMER", terms |-> terms,
                   quote |-> Nothing ]
    BY DEF Init
  <2>3. TypeOK
    BY <2>1, <2>2 DEF Init, TypeOK, Quotes, Nothing, RefundCauses
  <2>4. NeverMoreThanPaid
    BY <2>1 DEF Init, NeverMoreThanPaid
  <2>5. FollowsPolicy
    <3>1. PercentOf(paid.deposit, last.terms.percent) \in Nat
      BY <2>1, <2>2, TermsAreElections, PercentIsCents
    <3> QED BY <2>1, <2>2, <3>1 DEF FollowsPolicy, AsWritten, Nothing, Lesser
  <2> QED BY <2>3, <2>4, <2>5 DEF IInv
<1>2. IInv /\ [Next]_vars => IInv'
  <2> SUFFICES ASSUME IInv, [Next]_vars PROVE IInv'
    OBVIOUS
  <2>1. /\ paid.deposit \in Nat /\ paid.balance \in Nat
        /\ active \in Nat /\ failed \in Nat /\ again \in Nat
        /\ active + failed <= paid.deposit + paid.balance + again
    BY AmountsAreCents DEF IInv, TypeOK, NeverMoreThanPaid
  <2>2. ASSUME NEW cause \in RefundCauses, NEW terms \in Terms, Close(cause, terms)
        PROVE  IInv'
    <3> DEFINE quote == RefundQuote(paid.deposit, paid.balance, active, cause, terms)
               rest  == paid.deposit + paid.balance - active
               left  == IF rest > 0 THEN rest ELSE 0
               total == quote.deposit + quote.balance
    <3>1. terms \in [ elected : BOOLEAN, percent : Nat, eligible : BOOLEAN ]
      BY TermsAreElections
    <3>2. /\ quote \in Quotes
          /\ quote.deposit + quote.balance <= left
          /\ quote.balance = Lesser(paid.balance, left)
          /\ quote.deposit = Lesser(PercentOf(paid.deposit, PercentFor(cause, terms)),
                                    left - quote.balance)
      <4>1. /\ quote = RefundQuote(paid.deposit, paid.balance, active, cause, terms)
            /\ left = IF paid.deposit + paid.balance > active
                        THEN paid.deposit + paid.balance - active ELSE 0
        BY <2>1
      <4>2. SplitsLeft(quote, paid.balance, left,
                       PercentOf(paid.deposit, PercentFor(cause, terms)))
        <5> HIDE DEF quote, left
        <5> QED BY <2>1, <3>1, <4>1, QuoteSplits
      <4>3. quote \in [ deposit : Nat, balance : Nat ]
        BY <2>1, <3>1, QuoteIsCents
      <4> HIDE DEF quote, left
      <4> QED BY <4>2, <4>3 DEF Quotes, SplitsLeft
    <3>3. /\ active' = active + total
          /\ again' = again + Lesser(failed, total)
          /\ last' = [ before |-> active, cause |-> cause, terms |-> terms, quote |-> quote ]
          /\ paid' = paid /\ failed' = failed
      BY <2>2 DEF Close
    <3> HIDE DEF quote
    <3>4. TypeOK'
      BY <2>1, <3>2, <3>3 DEF IInv, TypeOK, Quotes, Lesser
    <3>5. NeverMoreThanPaid'
      <4>1. total \in Nat /\ total <= left
        BY <3>2 DEF Quotes
      <4>2. active' + failed' <= paid.deposit + paid.balance + again'
        <5>1. CASE total <= failed
          BY <2>1, <3>3, <4>1, <5>1 DEF Lesser
        <5>2. CASE total > failed
          BY <2>1, <3>3, <4>1, <5>2 DEF Lesser
        <5> HIDE DEF total
        <5> QED BY <2>1, <4>1, <5>1, <5>2
      <4> QED BY <3>3, <4>2 DEF NeverMoreThanPaid
    <3>6. FollowsPolicy'
      <4> DEFINE share == IF cause \in EverythingBack THEN paid.deposit
                          ELSE IF terms.elected /\ terms.eligible /\ terms.percent <= 100
                            THEN PercentOf(paid.deposit, terms.percent)
                          ELSE 0
      <4>1. PercentOf(paid.deposit, 100) = paid.deposit
        BY <2>1 DEF PercentOf
      <4>2. PercentOf(paid.deposit, 0) = 0
        BY <2>1 DEF PercentOf
      <4>3. PercentOf(paid.deposit, PercentFor(cause, terms)) = share
        BY <3>1, <4>1, <4>2, PercentApplies DEF PercentFor
      <4>4. quote.deposit = Lesser(share, left - quote.balance)
        <5> HIDE DEF share
        <5> QED BY <3>2, <4>3
      <4> DEFINE closure == [ before |-> active, cause |-> cause, terms |-> terms,
                              quote |-> quote ]
      <4>5. AsWritten(paid, closure)
        BY <3>2, <4>4 DEF AsWritten
      <4> QED BY <3>3, <4>5 DEF FollowsPolicy
    <3> QED BY <3>4, <3>5, <3>6 DEF IInv
  <2>3. ASSUME NEW amount \in Amounts, Fail(amount)
        PROVE  IInv'
    BY <2>1, <2>3, AmountsAreCents
       DEF IInv, TypeOK, NeverMoreThanPaid, FollowsPolicy, Fail
  <2>4. ASSUME NEW amount \in Amounts, Retry(amount)
        PROVE  IInv'
    BY <2>1, <2>4, AmountsAreCents
       DEF IInv, TypeOK, NeverMoreThanPaid, FollowsPolicy, Retry
  <2>5. CASE UNCHANGED vars
    BY <2>5 DEF IInv, TypeOK, NeverMoreThanPaid, FollowsPolicy, vars
  <2> QED BY <2>2, <2>3, <2>4, <2>5 DEF Next
<1> QED BY <1>1, <1>2, PTL DEF Spec

\* Whatever the amounts and the elections, and however closures, failures and
\* retries follow each other, the refunds of a booking exceed what the customer
\* paid by no more than what was quoted while a FAILED refund stood for it.
THEOREM RefundsNeverExceedPayment == Spec => []NeverMoreThanPaid
BY IInvHolds, PTL DEF IInv

\* Every quote of computeRefundQuote is the split the written policy describes.
THEOREM QuotesFollowPolicy == Spec => []FollowsPolicy
BY IInvHolds, PTL DEF IInv
=============================================================================

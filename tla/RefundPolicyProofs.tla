------------------------- MODULE RefundPolicyProofs -------------------------
(***************************************************************************)
(* Facts about the refund calculation that hold for every amount.          *)
(***************************************************************************)
EXTENDS RefundPolicy, TLAPS

\* A percentage of an amount of cents, rounded, is an amount of cents.
LEMMA PercentIsCents ==
  ASSUME NEW cents \in Nat, NEW percent \in Nat
  PROVE  PercentOf(cents, percent) \in Nat
<1> DEFINE n == 2 * cents * percent + 100
<1>1. n \in Nat
  OBVIOUS
<1>2. n \div 200 \in Nat
  <2> HIDE DEF n
  <2> QED BY <1>1
<1> QED BY <1>2 DEF PercentOf

\* The percentage that applies is one, and it is the election's when it counts.
LEMMA PercentApplies ==
  ASSUME NEW terms \in [ elected : BOOLEAN, percent : Nat, eligible : BOOLEAN ]
  PROVE  /\ DepositRefundPercent(terms) \in 0..100
         /\ terms.elected /\ terms.eligible /\ terms.percent <= 100
              => DepositRefundPercent(terms) = terms.percent
         /\ ~(terms.elected /\ terms.eligible /\ terms.percent <= 100)
              => DepositRefundPercent(terms) = 0
BY DEF DepositRefundPercent

\* Even for refunds that exceed the payment, a quote is two amounts of cents.
LEMMA QuoteIsCents ==
  ASSUME NEW deposit \in Nat, NEW balance \in Nat, NEW active \in Nat,
         NEW cause \in RefundCauses,
         NEW terms \in [ elected : BOOLEAN, percent : Nat, eligible : BOOLEAN ]
  PROVE  RefundQuote(deposit, balance, active, cause, terms)
           \in [ deposit : Nat, balance : Nat ]
<1> DEFINE percent == IF cause \in EverythingBack THEN 100
                      ELSE DepositRefundPercent(terms)
           owed == PercentOf(deposit, percent)
<1>1. owed \in Nat
  <2>1. percent \in Nat
    BY PercentApplies
  <2> HIDE DEF percent
  <2> QED BY <2>1, PercentIsCents
<1>2. RefundQuote(deposit, balance, active, cause, terms) =
        LET left == deposit + balance - active
            remaining == IF left > 0 THEN left ELSE 0
            excess == IF owed + balance > remaining
                        THEN owed + balance - remaining ELSE 0
            cut == Lesser(owed, excess)
        IN  [ deposit |-> owed - cut, balance |-> balance - (excess - cut) ]
  BY DEF RefundQuote
<1> HIDE DEF owed
<1> QED BY <1>1, <1>2 DEF Lesser

\* The percentage of the deposit that goes back.
PercentFor(cause, terms) ==
  IF cause \in EverythingBack THEN 100 ELSE DepositRefundPercent(terms)

SplitsLeft(quote, balance, left, share) ==
  /\ quote.deposit \in Nat /\ quote.balance \in Nat
  /\ quote.deposit + quote.balance <= left
  /\ quote.balance = Lesser(balance, left)
  /\ quote.deposit = Lesser(share, left - quote.balance)

\* A quote splits the smaller of what is owed and what is left: the balance
\* first, then the share of the deposit.
LEMMA QuoteSplits ==
  ASSUME NEW deposit \in Nat, NEW balance \in Nat, NEW before \in Nat,
         NEW cause \in RefundCauses,
         NEW terms \in [ elected : BOOLEAN, percent : Nat, eligible : BOOLEAN ],
         NEW left, left = (IF deposit + balance > before
                             THEN deposit + balance - before ELSE 0),
         NEW quote, quote = RefundQuote(deposit, balance, before, cause, terms)
  PROVE  SplitsLeft(quote, balance, left, PercentOf(deposit, PercentFor(cause, terms)))
<1> DEFINE owed   == PercentOf(deposit, PercentFor(cause, terms))
           excess == IF owed + balance > left THEN owed + balance - left ELSE 0
           cut    == Lesser(owed, excess)
<1>1. PercentFor(cause, terms) \in Nat
  BY PercentApplies DEF PercentFor
<1>2. owed \in Nat
  BY <1>1, PercentIsCents
<1>3. left \in Nat
  OBVIOUS
<1>4. quote = [ deposit |-> owed - cut, balance |-> balance - (excess - cut) ]
  <2>1. (IF deposit + balance - before > 0 THEN deposit + balance - before ELSE 0) = left
    OBVIOUS
  <2> QED BY <2>1 DEF RefundQuote, PercentFor
<1> HIDE DEF owed
<1>5. SplitsLeft(quote, balance, left, owed)
  BY <1>2, <1>3, <1>4 DEF Lesser, SplitsLeft
<1> QED BY <1>5 DEF owed

\* All of the deposit is a hundred per cent of it.
LEMMA WholePercent ==
  ASSUME NEW cents \in Nat
  PROVE  PercentOf(cents, 100) = cents
BY DEF PercentOf
=============================================================================

---------------------------- MODULE MCCardRefund ----------------------------
(***************************************************************************)
(* Instances of CardRefund, for a booking paid in two charges: the refund  *)
(* of the deposit, or that of the balance when its charge can no longer    *)
(* cover it.                                                               *)
(***************************************************************************)
EXTENDS CardRefund

BalanceOnly == << "FINAL_PAYMENT" >>
DepositOnly == << "DOWN_PAYMENT" >>

Two == << 2 >>
One == << 1 >>

TwoCharges == [ DOWN_PAYMENT |-> "pi_down", FINAL_PAYMENT |-> "pi_final" ]

CapturedInTwo == [ pi_down |-> 2, pi_final |-> 2 ]
PartlyReturned == [ pi_down |-> 2, pi_final |-> 1 ]
=============================================================================

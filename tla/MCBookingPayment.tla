------------------------- MODULE MCBookingPayment -------------------------
(***************************************************************************)
(* Values for the constants of BookingPayment.                             *)
(***************************************************************************)
EXTENDS BookingPayment

CardAndDashboard == CardOperations \cup { "chargeRefunded" }

KeepDeposit == [ elected |-> FALSE, percent |-> 50, eligible |-> TRUE ]
HalfDeposit == [ elected |-> TRUE, percent |-> 50, eligible |-> TRUE ]
=============================================================================

--------------------------- MODULE BookingStatus ---------------------------
(***************************************************************************)
(* The status of a booking and the moves transitionBookingStatus accepts   *)
(* (services/booking_status_service.js).  Definitions only: the behaviour  *)
(* of the handlers that use the table is in BookingPayment.                *)
(***************************************************************************)

Statuses ==
  { "PENDING", "ACCEPTED", "ALTERNATIVE_SUGGESTED", "PENDING_PAYMENT",
    "CONFIRMED", "PAID", "READY_FOR_PICKUP", "IN_PROGRESS", "OVERDUE",
    "EXPIRED", "COMPLETED", "CANCELLED", "NO_SHOW", "NO_SHOW_UNPAID",
    "REJECTED" }

TerminalStatuses ==
  { "COMPLETED", "CANCELLED", "EXPIRED", "NO_SHOW", "NO_SHOW_UNPAID",
    "REJECTED" }

\* The table TRANSITIONS.
Transitions ==
  [ PENDING               |-> { "REJECTED", "PENDING_PAYMENT", "CANCELLED",
                                "ALTERNATIVE_SUGGESTED" },
    ACCEPTED              |-> { "PENDING_PAYMENT", "REJECTED", "CANCELLED" },
    ALTERNATIVE_SUGGESTED |-> { "PENDING", "PENDING_PAYMENT", "REJECTED",
                                "CANCELLED" },
    PENDING_PAYMENT       |-> { "CONFIRMED", "PAID", "REJECTED", "CANCELLED",
                                "EXPIRED" },
    CONFIRMED             |-> { "PAID", "CANCELLED", "EXPIRED", "NO_SHOW",
                                "NO_SHOW_UNPAID" },
    PAID                  |-> { "READY_FOR_PICKUP", "IN_PROGRESS", "COMPLETED",
                                "CANCELLED", "EXPIRED", "NO_SHOW",
                                "NO_SHOW_UNPAID" },
    READY_FOR_PICKUP      |-> { "IN_PROGRESS", "CANCELLED", "NO_SHOW",
                                "NO_SHOW_UNPAID" },
    IN_PROGRESS           |-> { "COMPLETED", "NO_SHOW", "NO_SHOW_UNPAID" },
    OVERDUE               |-> { "CANCELLED", "EXPIRED" },
    EXPIRED               |-> {},
    COMPLETED             |-> {},
    CANCELLED             |-> {},
    NO_SHOW               |-> {},
    NO_SHOW_UNPAID        |-> {},
    REJECTED              |-> {} ]

\* Slips: a deposit recorded late is confirmed; a confirmed booking cannot expire.
ValidOrLateDeposit(old, new) ==
  old # new /\ (new \in Transitions[old] \/ (old = "PAID" /\ new = "CONFIRMED"))
ValidUnlessConfirmed(old, new) ==
  old # new /\ new \in Transitions[old] /\ ~(old = "CONFIRMED" /\ new = "EXPIRED")

\* isValidBookingTransition
ValidTransition(old, new) == old # new /\ new \in Transitions[old]
=============================================================================

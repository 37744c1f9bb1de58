-------------------------- MODULE MCBookingRequest --------------------------
(* Instances of BookingRequest: ann's request and its repetition. *)
EXTENDS BookingRequest, TLC

BothByAnn == [ b \in Bookings |-> "ann" ]
OneKey == [ r \in Requests |-> "ka" ]
OneUnit == [ c \in Cars |-> 1 ]
OneEach == [ u \in Customers |-> 1 ]

\* The cars are alike, and so are the bodies.
Alike == Permutations(Cars) \cup Permutations(Bodies)
=============================================================================

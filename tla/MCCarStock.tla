----------------------------- MODULE MCCarStock -----------------------------
(* Instances of CarStock: two customers who want the one unit of a car. *)
EXTENDS CarStock

AnnAndBob == << "ann", "bob" >>
OneUnit == [ c \in Cars |-> 1 ]
OneEach == [ u \in Customers |-> 1 ]
=============================================================================

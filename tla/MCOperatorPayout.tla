-------------------------- MODULE MCOperatorPayout --------------------------
(* Instances of OperatorPayout. *)
EXTENDS OperatorPayout
=============================================================================

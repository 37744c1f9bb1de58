--------------------------- MODULE MCRefundAccount ---------------------------
(***************************************************************************)
(* Amounts and elections for RefundAccount: nothing, one cent, amounts whose*)
(* share is rounded, and the percentages at the ends of the range.         *)
(***************************************************************************)
EXTENDS RefundAccount

SomeAmounts == { 0, 1, 3, 10 }
Election(elected, percent, eligible) ==
  [ elected |-> elected, percent |-> percent, eligible |-> eligible ]
SomeTerms ==
  { Election(FALSE, 50, TRUE), Election(TRUE, 60, FALSE), Election(TRUE, 60, TRUE),
    Election(TRUE, 100, TRUE), Election(TRUE, 150, TRUE) }
=============================================================================

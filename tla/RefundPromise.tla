---------------------------- MODULE RefundPromise ----------------------------
(***************************************************************************)
(* What the sender of card refunds promises of each refund, in cents: money*)
(* is given to the bank, arrives or bounces, and is given again only when  *)
(* it has bounced, so that no more is under way and arrived than is owed;  *)
(* the commission ledger is reversed only when the bank has accepted all   *)
(* of it.  CardRefund implements it.                                       *)
(***************************************************************************)
EXTENDS Integers

CONSTANTS
  Refunds,   \* the refund records
  Amount     \* what each of them owes

VARIABLES
  onTheWay,  \* cents the bank has accepted and not yet paid
  arrived,   \* cents the customer has back
  bounced,   \* cents the bank accepted and gave back to the platform
  reversed   \* refunds whose ledger entry is reversed

vars == << onTheWay, arrived, bounced, reversed >>

Init ==
  /\ onTheWay = [ r \in Refunds |-> 0 ]
  /\ arrived = [ r \in Refunds |-> 0 ]
  /\ bounced = [ r \in Refunds |-> 0 ]
  /\ reversed = {}

\* Some of the money is given to the bank, which may pay it at once.
Send(r) ==
  \E c \in 1 .. Amount[r] - onTheWay[r] - arrived[r] :
    /\ \/ /\ onTheWay' = [ onTheWay EXCEPT ![r] = @ + c ]
          /\ UNCHANGED arrived
       \/ /\ arrived' = [ arrived EXCEPT ![r] = @ + c ]
          /\ UNCHANGED onTheWay
    /\ UNCHANGED << bounced, reversed >>

\* Money on the way arrives, or comes back to the platform.
Arrive(r) ==
  \E c \in 1 .. onTheWay[r] :
    /\ onTheWay' = [ onTheWay EXCEPT ![r] = @ - c ]
    /\ arrived' = [ arrived EXCEPT ![r] = @ + c ]
    /\ UNCHANGED << bounced, reversed >>

Bounce(r) ==
  \E c \in 1 .. onTheWay[r] :
    /\ onTheWay' = [ onTheWay EXCEPT ![r] = @ - c ]
    /\ bounced' = [ bounced EXCEPT ![r] = @ + c ]
    /\ UNCHANGED << arrived, reversed >>

Reverse(r) ==
  /\ onTheWay[r] + arrived[r] + bounced[r] >= Amount[r]
  /\ reversed' = reversed \cup { r }
  /\ UNCHANGED << onTheWay, arrived, bounced >>

Next == \E r \in Refunds : Send(r) \/ Arrive(r) \/ Bounce(r) \/ Reverse(r)

Spec == Init /\ [][Next]_vars
=============================================================================

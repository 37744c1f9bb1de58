-------------------------- MODULE CardRefundProofs --------------------------
(***************************************************************************)
(* For any number of refunds, clerks and payment intents, with crashes,    *)
(* lost answers, dashboard refunds, payouts and late events: the state has *)
(* the types it should have, whatever goes wrong; and as long as senders   *)
(* end within five minutes and a refund the bank has accepted does not     *)
(* fail, no card refund is sent twice from one charge, and no record gets  *)
(* more than its amount from one charge or two.  For one refund from one   *)
(* charge, the senders implement RefundPromise.                            *)
(***************************************************************************)
EXTENDS CardRefund, TLAPS, WellFoundedInduction, FiniteSetTheorems

RowOf(c) ==
  [ status |-> c.status, ids |-> c.ids, charge |-> c.charge, age |-> c.age,
    readers |-> c.readers ]
CallOf(x) ==
  [ id |-> x.id, intent |-> x.intent, refund |-> x.refund, cents |-> x.cents,
    status |-> x.status, total |-> x.total ]

\* The shape of the state, as far as the argument needs it.
Shape ==
  /\ row = [ r \in Refunds |-> row[r] ]
  /\ \A r \in Refunds : row[r] = RowOf(row[r])
  /\ \A x \in stripe : x = CallOf(x) /\ x.status \in { "pending", "succeeded" }
  /\ task = [ s \in Senders |-> task[s] ]
  /\ \A s \in Senders :
       \/ task[s] = NoTask
       \/ /\ task[s].stage \in { "claim", "look", "send", "fail" }
          /\ task[s].refund \in Refunds
  /\ event.kind = "update" =>
       event.about.refund \in Refunds /\ event.about.status # "dead"

\* A sender that has claimed a refund and not yet let go of it.
Working(s, r) ==
  task[s].stage \in { "look", "send", "fail" } /\ task[s].refund = r

\* While somebody works on a refund, nobody may pick it.
Taken(r) ==
  \/ row[r].status = "REFUNDED"
  \/ row[r].status = "PROCESSING" /\ row[r].age = "fresh"

\* Whoever holds a current copy of a row may claim it; claiming ends that.
Exclusive ==
  /\ \A r \in Refunds : row[r].readers # {} => ~Taken(r)
  /\ \A s \in Senders, r \in Refunds : Working(s, r) => Taken(r)
  /\ \A s, t \in Senders, r \in Refunds : Working(s, r) /\ Working(t, r) => s = t

\* What a sender has found is still so: where it found no refund made for its
\* record there is none, as nobody else makes one.
Informed(s) ==
  LET t == task[s]
      KnowsOf(i) ==
        /\ t.found[i].intent = IntentsOf(t.refund)[i]
        /\ t.found[i].made = {} => MadeFor(t.refund, IntentsOf(t.refund)[i]) = {}
  IN  /\ t.stage = "look" =>
           t.at \in 0 .. Last(t.refund) - 1 /\ \A i \in 1 .. t.at : KnowsOf(i)
      /\ t.stage = "send" =>
           t.at \in 1 .. Last(t.refund) + 1 /\ \A i \in t.at .. Last(t.refund) : KnowsOf(i)

SendInv ==
  Shape /\ Exclusive /\ (\A s \in Senders : Informed(s)) /\ OneRefundPerCharge

\* The two things that must not happen.
Careful == "slow" \notin Faults /\ "dies" \notin Faults

-----------------------------------------------------------------------------
(* Parts of the invariant that a step leaves alone                         *)

\* Whatever the step is: a sender that stays where it is stays informed as
\* long as nothing is made at Stripe.
LEMMA StaysInformed ==
  ASSUME NEW s \in Senders, Informed(s), task'[s] = task[s], stripe' = stripe
  PROVE  Informed(s)'
  BY DEF Informed, MadeFor, For, On

LEMMA StripeStays ==
  ASSUME OneRefundPerCharge, stripe' = stripe
  PROVE  OneRefundPerCharge'
  BY DEF OneRefundPerCharge

\* A step that touches neither rows nor senders nor Stripe.
LEMMA QuietStep ==
  ASSUME SendInv, UNCHANGED << row, stripe, task >>,
         event'.kind = "update" =>
           event'.about.refund \in Refunds /\ event'.about.status # "dead"
  PROVE  SendInv'
<1>1. Shape'
  BY DEF SendInv, Shape, RowOf, CallOf, NoTask
<1>2. Exclusive'
  BY DEF SendInv, Exclusive, Taken, Working
<1>3. QED
  BY <1>1, <1>2, StaysInformed, StripeStays DEF SendInv

LEMMA InitSend == Init => SendInv
<1> SUFFICES ASSUME Init PROVE SendInv
  OBVIOUS
<1>1. Shape
  BY DEF Init, Shape, RowOf, CallOf, NoTask, NoEvent
<1>2. Exclusive
  BY DEF Init, Exclusive, Taken, Working, NoTask
<1>3. \A s \in Senders : Informed(s)
  BY DEF Init, Informed, NoTask
<1>4. OneRefundPerCharge
  BY DEF Init, OneRefundPerCharge
<1>5. QED
  BY <1>1, <1>2, <1>3, <1>4 DEF SendInv

-----------------------------------------------------------------------------
(* Steps of a sender that do not reach Stripe                              *)

LEMMA PickStep ==
  ASSUME SendInv, NEW s \in Senders, NEW r \in Refunds, Pick(s, r)
  PROVE  SendInv'
<1>0. /\ task' = [ task EXCEPT ![s] = Doing("claim", r, 0, << >>, {}) ]
      /\ row' = [ row EXCEPT ![r].readers = @ \cup { s } ]
      /\ stripe' = stripe /\ event' = event
      /\ Sendable(r)
  BY DEF Pick
<1>1. Shape'
  BY <1>0 DEF SendInv, Shape, RowOf, CallOf, NoTask, Doing
<1>2. \A q \in Refunds : /\ row'[q].status = row[q].status
                         /\ row'[q].age = row[q].age
                         /\ q # r => row'[q].readers = row[q].readers
  BY <1>0 DEF SendInv, Shape, RowOf
<1>3. ~Taken(r)
  BY <1>0 DEF Sendable, Taken
<1>4. \A t \in Senders, q \in Refunds : Working(t, q)' => Working(t, q)
  BY <1>0 DEF SendInv, Shape, Working, Doing
<1>5. Exclusive'
  BY <1>2, <1>3, <1>4 DEF SendInv, Exclusive, Taken
<1>6. \A t \in Senders : Informed(t)'
  <2>1. Informed(s)'
    BY <1>0 DEF SendInv, Shape, Informed, Doing
  <2>2. \A t \in Senders \ { s } : task'[t] = task[t]
    BY <1>0 DEF SendInv, Shape
  <2>3. QED
    BY <1>0, <2>1, <2>2, StaysInformed DEF SendInv
<1>7. QED
  BY <1>0, <1>1, <1>5, <1>6, StripeStays DEF SendInv

\* A sender lets go, and at most its copy of the row with it.
LEMMA CrashStep ==
  ASSUME SendInv, NEW s \in Senders, Crash(s)
  PROVE  SendInv'
<1>0. /\ task' = [ task EXCEPT ![s] = NoTask ]
      /\ row' = [ r \in Refunds |-> [ row[r] EXCEPT !.readers = @ \ { s } ] ]
      /\ stripe' = stripe /\ event' = event
  BY DEF Crash
<1>1. Shape'
  BY <1>0 DEF SendInv, Shape, RowOf, CallOf, NoTask
<1>2. \A q \in Refunds : /\ row'[q].status = row[q].status
                         /\ row'[q].age = row[q].age
                         /\ row'[q].readers \subseteq row[q].readers
  BY <1>0 DEF SendInv, Shape, RowOf
<1>4. \A t \in Senders, q \in Refunds : Working(t, q)' => Working(t, q)
  BY <1>0 DEF SendInv, Shape, Working, NoTask
<1>5. Exclusive'
  BY <1>2, <1>4 DEF SendInv, Exclusive, Taken
<1>6. \A t \in Senders : Informed(t)'
  <2>1. Informed(s)'
    BY <1>0 DEF SendInv, Shape, Informed, NoTask
  <2>2. \A t \in Senders \ { s } : task'[t] = task[t]
    BY <1>0 DEF SendInv, Shape
  <2>3. QED
    BY <1>0, <2>1, <2>2, StaysInformed DEF SendInv
<1>7. QED
  BY <1>0, <1>1, <1>5, <1>6, StripeStays DEF SendInv

\* The swap succeeds only on a row that is not taken, so the winner is alone.
LEMMA ClaimStep ==
  ASSUME SendInv, NEW s \in Senders, Claim(s)
  PROVE  SendInv'
<1> DEFINE r == task[s].refund
<1>0. /\ task[s].stage = "claim" /\ r \in Refunds
      /\ stripe' = stripe /\ event' = event
  BY DEF Claim, SendInv, Shape, NoTask
<1>1. CASE s \in row[r].readers
  <2>0. /\ row' = [ row EXCEPT ![r] = Written("PROCESSING", row[r].ids, row[r].charge) ]
        /\ task' = [ task EXCEPT ![s] = Doing("look", r, 0, << >>, {}) ]
    BY <1>1 DEF Claim, Marked
  <2>1. Shape'
    BY <1>0, <2>0 DEF SendInv, Shape, RowOf, CallOf, NoTask, Doing, Written
  <2>2. ~Taken(r)
    BY <1>0, <1>1 DEF SendInv, Exclusive
  <2>3. \A t \in Senders : ~Working(t, r)
    BY <1>0, <2>2 DEF SendInv, Exclusive
  <2>4. /\ row'[r].status = "PROCESSING" /\ row'[r].age = "fresh" /\ row'[r].readers = {}
        /\ \A q \in Refunds \ { r } : row'[q] = row[q]
    BY <1>0, <2>0 DEF SendInv, Shape, Written
  <2>5. \A t \in Senders, q \in Refunds : Working(t, q)' =>
          Working(t, q) \/ (t = s /\ q = r)
    BY <2>0 DEF SendInv, Shape, Working, Doing
  <2>6. Exclusive'
    BY <1>0, <2>3, <2>4, <2>5 DEF SendInv, Exclusive, Taken
  <2>7. \A t \in Senders : Informed(t)'
    <3>1. Informed(s)'
      <4>1. task'[s] = Doing("look", r, 0, << >>, {})
        BY <2>0 DEF SendInv, Shape
      <4>2. Last(r) \in Nat /\ Last(r) >= 1
        BY DEF Last, IntentsOf
      <4>3. QED
        BY <4>1, <4>2 DEF Informed, Doing
    <3>2. \A t \in Senders \ { s } : task'[t] = task[t]
      BY <2>0 DEF SendInv, Shape
    <3>3. QED
      BY <1>0, <3>1, <3>2, StaysInformed DEF SendInv
  <2>8. QED
    BY <1>0, <2>1, <2>6, <2>7, StripeStays DEF SendInv
<1>2. CASE s \notin row[r].readers
  <2>0. row' = row /\ task' = [ task EXCEPT ![s] = NoTask ]
    BY <1>2 DEF Claim
  <2>1. Shape'
    BY <1>0, <2>0 DEF SendInv, Shape, RowOf, CallOf, NoTask
  <2>2. \A t \in Senders, q \in Refunds : Working(t, q)' => Working(t, q)
    BY <2>0 DEF SendInv, Shape, Working, NoTask
  <2>3. Exclusive'
    BY <2>0, <2>2 DEF SendInv, Exclusive, Taken
  <2>4. \A t \in Senders : Informed(t)'
    <3>1. Informed(s)'
      BY <2>0 DEF SendInv, Shape, Informed, NoTask
    <3>2. \A t \in Senders \ { s } : task'[t] = task[t]
      BY <2>0 DEF SendInv, Shape
    <3>3. QED
      BY <1>0, <3>1, <3>2, StaysInformed DEF SendInv
  <2>5. QED
    BY <1>0, <2>1, <2>3, <2>4, StripeStays DEF SendInv
<1>3. QED
  BY <1>1, <1>2

\* A sender at work goes on with the refund it has.
LEMMA SenderStep ==
  ASSUME SendInv, NEW s \in Senders, Shape', row' = row, stripe' = stripe,
         \A t \in Senders \ { s } : task'[t] = task[t],
         task[s].stage \in { "look", "send" },
         task'[s].refund = task[s].refund,
         Informed(s)'
  PROVE  SendInv'
<1>1. \A t \in Senders, q \in Refunds : Working(t, q)' => Working(t, q)
  BY DEF Working
<1>2. Exclusive'
  BY <1>1 DEF SendInv, Exclusive, Taken
<1>3. \A t \in Senders : Informed(t)'
  BY StaysInformed DEF SendInv
<1>4. QED
  BY <1>2, <1>3, StripeStays DEF SendInv

\* What its next step leaves of the shape.
LEMMA SenderShape ==
  ASSUME SendInv, NEW s \in Senders, NEW r \in Refunds,
         NEW stage \in { "look", "send", "fail" }, NEW at, NEW found, NEW sent,
         row' = row, stripe' = stripe, event' = event,
         task' = [ task EXCEPT ![s] = Doing(stage, r, at, found, sent) ]
  PROVE  /\ Shape'
         /\ task'[s] = Doing(stage, r, at, found, sent)
         /\ \A t \in Senders \ { s } : task'[t] = task[t]
<1>1. /\ task'[s] = Doing(stage, r, at, found, sent)
      /\ \A t \in Senders \ { s } : task'[t] = task[t]
  BY DEF SendInv, Shape
<1>2. Shape'
  BY DEF SendInv, Shape, RowOf, CallOf, NoTask, Doing
<1>3. QED
  BY <1>1, <1>2

LEMMA LookStep ==
  ASSUME SendInv, NEW s \in Senders, Look(s)
  PROVE  SendInv'
<1> PICK r \in Refunds : r = task[s].refund
  BY DEF Look, SendInv, Shape, NoTask
<1> DEFINE at    == task[s].at + 1
           knows(found, i) ==
             /\ found[i].intent = IntentsOf(r)[i]
             /\ found[i].made = {} => MadeFor(r, IntentsOf(r)[i]) = {}
<1>1. PICK entry, found :
        /\ entry.intent = IntentsOf(r)[at] /\ entry.made = MadeFor(r, IntentsOf(r)[at])
        /\ found = [ i \in 1 .. at |-> IF i < at THEN task[s].found[i] ELSE entry ]
        /\ task[s].stage = "look"
        /\ row' = row /\ stripe' = stripe /\ event' = event
        /\ task' = [ task EXCEPT ![s] =
             IF at < Last(r) THEN Doing("look", r, at, found, {})
             ELSE Doing(IF Covers(r, found) THEN "send" ELSE "fail", r, 1, found, {}) ]
  <2> DEFINE made  == MadeFor(r, IntentsOf(r)[at])
             cents == IF made = {} THEN Refundable(IntentsOf(r)[at]) ELSE Newest(made).cents
             entry == [ intent |-> IntentsOf(r)[at], made |-> made, cents |-> cents ]
             found == [ i \in 1 .. at |-> IF i < at THEN task[s].found[i] ELSE entry ]
  <2>1. /\ task[s].stage = "look"
        /\ row' = row /\ stripe' = stripe /\ event' = event
        /\ task' = [ task EXCEPT ![s] =
             IF at < Last(r) THEN Doing("look", r, at, found, {})
             ELSE Doing(IF Covers(r, found) THEN "send" ELSE "fail", r, 1, found, {}) ]
    BY DEF Look
  <2>2. entry.intent = IntentsOf(r)[at] /\ entry.made = made
    OBVIOUS
  <2> WITNESS entry, found
  <2> HIDE DEF entry
  <2> QED
    BY <2>1, <2>2
<1>2. /\ task[s].at \in 0 .. Last(r) - 1
      /\ \A i \in 1 .. task[s].at : knows(task[s].found, i)
  BY <1>1 DEF SendInv, Informed
<1>3. Last(r) \in Nat /\ Last(r) >= 1
  BY DEF Last, IntentsOf
<1>4. at \in 1 .. Last(r)
  BY <1>2, <1>3
<1>5. \A i \in 1 .. at : knows(found, i)
  <2> TAKE i \in 1 .. at
  <2>1. CASE i < at
    <3>1. i \in 1 .. task[s].at /\ found[i] = task[s].found[i]
      BY <1>1, <1>2, <1>3, <2>1
    <3>2. QED
      BY <1>2, <3>1
  <2>2. CASE i = at
    <3>1. found[i] = entry
      BY <1>1, <1>4, <2>2
    <3>2. QED
      BY <1>1, <2>2, <3>1
  <2>3. QED
    BY <1>4, <2>1, <2>2
<1>6. \A q, i : MadeFor(q, i)' = MadeFor(q, i)
  BY <1>1 DEF MadeFor, For, On
<1> HIDE DEF at
<1>7. CASE at < Last(r)
  <2>1. /\ Shape'
        /\ task'[s] = Doing("look", r, at, found, {})
        /\ \A t \in Senders \ { s } : task'[t] = task[t]
    BY <1>1, <1>7, SenderShape
  <2>2. Informed(s)'
    BY <1>3, <1>4, <1>5, <1>6, <1>7, <2>1 DEF Informed, Doing
  <2>3. QED
    BY <1>1, <2>1, <2>2, SenderStep DEF Doing
<1>8. CASE ~(at < Last(r))
  <2>1. PICK stage \in { "send", "fail" } :
          task' = [ task EXCEPT ![s] = Doing(stage, r, 1, found, {}) ]
    BY <1>1, <1>8
  <2>2. /\ Shape'
        /\ task'[s] = Doing(stage, r, 1, found, {})
        /\ \A t \in Senders \ { s } : task'[t] = task[t]
    BY <1>1, <2>1, SenderShape
  <2>3. at = Last(r)
    BY <1>3, <1>4, <1>8
  <2>4. Informed(s)'
    BY <1>3, <1>5, <1>6, <2>2, <2>3 DEF Informed, Doing
  <2>5. QED
    BY <1>1, <2>2, <2>4, SenderStep DEF Doing
<1>9. QED
  BY <1>7, <1>8

LEMMA AdoptStep ==
  ASSUME SendInv, NEW s \in Senders, Adopt(s)
  PROVE  SendInv'
<1> DEFINE t    == task[s]
           sent == t.sent \cup (IF Share(t.refund, t.found, t.at) = 0 THEN {}
                                ELSE { Newest(t.found[t.at].made) })
<1>0. /\ t.stage = "send" /\ t.at <= Last(t.refund)
      /\ row' = row /\ stripe' = stripe /\ event' = event
      /\ task' = [ task EXCEPT ![s] = Doing("send", t.refund, t.at + 1, t.found, sent) ]
  BY DEF Adopt
<1> HIDE DEF sent
<1>1. /\ task'[s] = Doing("send", t.refund, t.at + 1, t.found, sent)
      /\ \A u \in Senders \ { s } : task'[u] = task[u]
  BY <1>0 DEF SendInv, Shape
<1>2. Last(t.refund) \in Nat
  BY DEF Last, IntentsOf
<1>3. \A q, i : MadeFor(q, i)' = MadeFor(q, i)
  BY <1>0 DEF MadeFor, For, On
<1>4. Informed(s)'
  BY <1>0, <1>1, <1>2, <1>3 DEF SendInv, Informed, Doing
<1>5. Shape'
  <2>1. t.refund \in Refunds
    BY <1>0 DEF SendInv, Shape, NoTask
  <2>2. QED
    BY <1>0, <2>1 DEF SendInv, Shape, RowOf, CallOf, NoTask, Doing
<1>6. QED
  BY <1>0, <1>1, <1>4, <1>5, SenderStep DEF Doing

LEMMA RefuseStep ==
  ASSUME SendInv, NEW s \in Senders, Refuse(s)
  PROVE  SendInv'
<1>0. /\ task[s].stage \in { "look", "send" }
      /\ row' = row /\ stripe' = stripe /\ event' = event
      /\ task' = [ task EXCEPT ![s] = Doing("fail", task[s].refund, 0, << >>, {}) ]
  BY DEF Refuse
<1>1. task[s].refund \in Refunds
  BY <1>0 DEF SendInv, Shape, NoTask
<1>2. Shape'
  BY <1>0, <1>1 DEF SendInv, Shape, RowOf, CallOf, NoTask, Doing
<1>3. /\ task'[s] = Doing("fail", task[s].refund, 0, << >>, {})
      /\ \A t \in Senders \ { s } : task'[t] = task[t]
  BY <1>0 DEF SendInv, Shape
<1>4. Informed(s)'
  BY <1>3 DEF Informed, Doing
<1>5. QED
  BY <1>0, <1>2, <1>3, <1>4, SenderStep DEF Doing

\* The sender writes the row, whatever has become of it, and lets go.
LEMMA ReleaseStep ==
  ASSUME SendInv, NEW s \in Senders, NEW r \in Refunds,
         Shape', stripe' = stripe,
         task[s].stage \in { "send", "fail" }, task[s].refund = r,
         task'[s] = NoTask, \A t \in Senders \ { s } : task'[t] = task[t],
         row'[r].readers = {}, \A q \in Refunds \ { r } : row'[q] = row[q]
  PROVE  SendInv'
<1>1. \A t \in Senders, q \in Refunds : Working(t, q)' => Working(t, q) /\ t # s
  BY DEF Working, NoTask
<1>2. Working(s, r)
  BY DEF Working
<1>3. \A t \in Senders : ~Working(t, r)'
  BY <1>1, <1>2 DEF SendInv, Exclusive
<1>4. Exclusive'
  <2>1. \A q \in Refunds : row'[q].readers # {} => ~Taken(q)'
    BY DEF SendInv, Exclusive, Taken
  <2>2. \A t \in Senders, q \in Refunds : Working(t, q)' => Taken(q)'
    <3> TAKE t \in Senders, q \in Refunds
    <3> HAVE Working(t, q)'
    <3>1. q # r /\ Working(t, q)
      BY <1>1, <1>3
    <3>2. Taken(q) /\ row'[q] = row[q]
      BY <3>1 DEF SendInv, Exclusive
    <3>3. QED
      BY <3>2 DEF Taken
  <2>3. QED
    BY <1>1, <2>1, <2>2 DEF SendInv, Exclusive
<1>5. \A t \in Senders : Informed(t)'
  <2>1. Informed(s)'
    BY DEF Informed, NoTask
  <2>2. QED
    BY <2>1, StaysInformed DEF SendInv
<1>6. QED
  BY <1>4, <1>5, StripeStays DEF SendInv

LEMMA SaveFailureStep ==
  ASSUME SendInv, NEW s \in Senders, SaveFailure(s)
  PROVE  SendInv'
<1> PICK r \in Refunds : r = task[s].refund
  BY DEF SaveFailure, SendInv, Shape, NoTask
<1>1. /\ task[s].stage = "fail"
      /\ row' = [ row EXCEPT ![r] = Written("FAILED", row[r].ids, row[r].charge) ]
      /\ task' = [ task EXCEPT ![s] = NoTask ]
      /\ stripe' = stripe /\ event' = event
  BY DEF SaveFailure, Marked
<1>2. Shape'
  BY <1>1 DEF SendInv, Shape, RowOf, CallOf, NoTask, Written
<1>3. /\ row'[r].readers = {}
      /\ \A q \in Refunds \ { r } : row'[q] = row[q]
      /\ task'[s] = NoTask
      /\ \A t \in Senders \ { s } : task'[t] = task[t]
  BY <1>1 DEF SendInv, Shape, Written
<1>4. QED
  BY <1>1, <1>2, <1>3, ReleaseStep

LEMMA FinishStep ==
  ASSUME SendInv, NEW s \in Senders, Finish(s)
  PROVE  SendInv'
<1> PICK r \in Refunds : r = task[s].refund
  BY DEF Finish, SendInv, Shape, NoTask
<1> DEFINE ids == { x.id : x \in task[s].sent }
<1>1. /\ task[s].stage = "send"
      /\ task' = [ task EXCEPT ![s] = NoTask ]
      /\ stripe' = stripe /\ event' = event
      /\ \/ row' = [ row EXCEPT ![r] = Written("REFUNDED", ids, {}) ]
         \/ row' = [ row EXCEPT ![r] = Written("PROCESSING", ids, {}) ]
  BY DEF Finish
<1> HIDE DEF ids
<1>2. Shape'
  BY <1>1 DEF SendInv, Shape, RowOf, CallOf, NoTask, Written
<1>3. /\ row'[r].readers = {}
      /\ \A q \in Refunds \ { r } : row'[q] = row[q]
      /\ task'[s] = NoTask
      /\ \A t \in Senders \ { s } : task'[t] = task[t]
  BY <1>1 DEF SendInv, Shape, Written
<1>4. QED
  BY <1>1, <1>2, <1>3, ReleaseStep
-----------------------------------------------------------------------------
(* The step that makes a refund at Stripe                                  *)

\* No payment intent is met twice on the way through a refund's charges.
LEMMA PlacesDiffer ==
  ASSUME NEW r \in Refunds, NEW i \in 1 .. Last(r), NEW j \in 1 .. Last(r), i # j
  PROVE  IntentsOf(r)[i] # IntentsOf(r)[j]
  BY DEF Last, IntentsOf

LEMMA CreateStep ==
  ASSUME SendInv, NEW s \in Senders, Create(s)
  PROVE  SendInv'
<1> PICK r \in Refunds : r = task[s].refund
  BY DEF Create, SendInv, Shape, NoTask
<1> PICK at, found, sent :
      at = task[s].at /\ found = task[s].found /\ sent = task[s].sent
  OBVIOUS
<1>1. PICK status \in { "succeeded", "pending" } :
        LET new == Made(found[at].intent, r, Share(r, found, at), status)
        IN  /\ stripe' = stripe \cup { new }
            /\ \/ task' = [ task EXCEPT ![s] = Doing("send", r, at + 1, found, sent \cup { new }) ]
               \/ task' = [ task EXCEPT ![s] = Doing("fail", r, 0, << >>, {}) ]
  BY DEF Create
<1>2. /\ task[s].stage = "send" /\ at <= Last(r) /\ found[at].made = {}
      /\ row' = row /\ event' = event
  BY DEF Create
<1>3. Last(r) \in Nat /\ at \in 1 .. Last(r)
  BY <1>2 DEF SendInv, Informed, Last, IntentsOf
<1>4. /\ found[at].intent = IntentsOf(r)[at]
      /\ MadeFor(r, IntentsOf(r)[at]) = {}
      /\ \A i \in at .. Last(r) :
           /\ found[i].intent = IntentsOf(r)[i]
           /\ found[i].made = {} => MadeFor(r, IntentsOf(r)[i]) = {}
  <2>1. Informed(s)
    BY DEF SendInv
  <2>2. \A i \in at .. Last(r) :
          /\ found[i].intent = IntentsOf(r)[i]
          /\ found[i].made = {} => MadeFor(r, IntentsOf(r)[i]) = {}
    BY <1>2, <2>1 DEF Informed
  <2>3. at \in at .. Last(r)
    BY <1>3
  <2>4. QED
    BY <1>2, <2>2, <2>3
<1> DEFINE new == Made(found[at].intent, r, Share(r, found, at), status)
<1>5. /\ new.refund = r /\ new.intent = IntentsOf(r)[at] /\ new.status = status
      /\ new = CallOf(new)
  BY <1>4 DEF Made, CallOf
<1>6. /\ stripe' = stripe \cup { new }
      /\ \/ task' = [ task EXCEPT ![s] = Doing("send", r, at + 1, found, sent \cup { new }) ]
         \/ task' = [ task EXCEPT ![s] = Doing("fail", r, 0, << >>, {}) ]
  BY <1>1
<1> HIDE DEF new
<1>7. \A t \in Senders \ { s } : task'[t] = task[t]
  BY <1>6 DEF SendInv, Shape
<1>8. \/ task'[s] = Doing("send", r, at + 1, found, sent \cup { new })
      \/ task'[s] = Doing("fail", r, 0, << >>, {})
  BY <1>6 DEF SendInv, Shape
<1>9. \A q, i : q # r \/ i # IntentsOf(r)[at] => MadeFor(q, i)' = MadeFor(q, i)
  BY <1>5, <1>6 DEF MadeFor, For, On
<1>10. Shape'
  <2>1. \A x \in stripe' : x = CallOf(x) /\ x.status \in { "pending", "succeeded" }
    BY <1>5, <1>6 DEF SendInv, Shape
  <2>2. task' = [ t \in Senders |-> task'[t] ]
    BY <1>6 DEF SendInv, Shape
  <2>3. \A t \in Senders :
          \/ task'[t] = NoTask
          \/ /\ task'[t].stage \in { "claim", "look", "send", "fail" }
             /\ task'[t].refund \in Refunds
    BY <1>7, <1>8 DEF SendInv, Shape, Doing
  <2>4. QED
    BY <1>2, <2>1, <2>2, <2>3 DEF SendInv, Shape, RowOf, CallOf
<1>11. Exclusive'
  <2>1. \A t \in Senders, q \in Refunds : Working(t, q)' => Working(t, q)
    BY <1>2, <1>7, <1>8 DEF Working, Doing
  <2>2. QED
    BY <1>2, <2>1 DEF SendInv, Exclusive, Taken
<1>12. \A t \in Senders : Informed(t)'
  <2>1. Informed(s)'
    <3>1. CASE task'[s] = Doing("fail", r, 0, << >>, {})
      BY <3>1 DEF Informed, Doing
    <3>2. CASE task'[s] = Doing("send", r, at + 1, found, sent \cup { new })
      <4>1. \A i \in at + 1 .. Last(r) : MadeFor(r, IntentsOf(r)[i])' = MadeFor(r, IntentsOf(r)[i])
        BY <1>3, <1>9, PlacesDiffer
      <4>2. at + 1 \in 1 .. Last(r) + 1 /\ at + 1 .. Last(r) \subseteq at .. Last(r)
        BY <1>3
      <4>3. QED
        BY <1>4, <3>2, <4>1, <4>2 DEF Informed, Doing
    <3>3. QED
      BY <1>8, <3>1, <3>2
  <2>2. ASSUME NEW t \in Senders \ { s }
        PROVE  Informed(t)'
    <3>1. task[t].stage \in { "look", "send" } => task[t].refund # r
      BY <1>2 DEF SendInv, Exclusive, Working
    <3>2. task[t].stage \in { "look", "send" } =>
            \A i : MadeFor(task[t].refund, i)' = MadeFor(task[t].refund, i)
      BY <1>7, <1>9, <3>1
    <3>3. task'[t] = task[t] /\ Informed(t)
      BY <1>7 DEF SendInv
    <3>4. QED
      BY <3>2, <3>3 DEF Informed
  <2>3. QED
    BY <2>1, <2>2
<1>13. OneRefundPerCharge'
  <2>1. \A x \in stripe :
          x.refund = r /\ x.intent = IntentsOf(r)[at] => x.status = "dead"
    BY <1>4 DEF MadeFor, For, On
  <2>2. QED
    BY <1>6, <1>5, <2>1 DEF SendInv, OneRefundPerCharge
<1>14. QED
  BY <1>10, <1>11, <1>12, <1>13 DEF SendInv

-----------------------------------------------------------------------------
(* Steps of others                                                         *)

\* The webhook worker finds a refund done, whoever is at work on it.
LEMMA DoneStep ==
  ASSUME SendInv, NEW r \in Refunds, NEW ids, NEW charge,
         row' = [ row EXCEPT ![r] = Written("REFUNDED", ids, charge) ],
         UNCHANGED << stripe, task >>, event' = NoEvent
  PROVE  SendInv'
<1>1. Shape'
  BY DEF SendInv, Shape, RowOf, CallOf, NoTask, Written, NoEvent
<1>2. /\ row'[r].status = "REFUNDED" /\ row'[r].readers = {}
      /\ \A q \in Refunds \ { r } : row'[q] = row[q]
  BY DEF SendInv, Shape, Written
<1>3. Exclusive'
  BY <1>2 DEF SendInv, Exclusive, Taken, Working
<1>4. QED
  BY <1>1, <1>3, StaysInformed, StripeStays DEF SendInv

LEMMA WriteUpdateStep ==
  ASSUME SendInv, WriteUpdate
  PROVE  SendInv'
<1>1. event.about.refund \in Refunds /\ event.about.status # "dead"
  BY DEF WriteUpdate, SendInv, Shape
<1>2. QED
  BY <1>1, DoneStep DEF WriteUpdate

\* A set of numbers that is not empty has a least one.
LEMMA LeastNumber ==
  ASSUME NEW C, C \subseteq Nat, C # {}
  PROVE  \E n \in C : \A m \in C : n <= m
<1> DEFINE less == { p \in Nat \X Nat : p[1] < p[2] }
<1>1. IsWellFoundedOn(less, Nat)
  BY NatLessThanWellFounded DEF OpToRel
<1>2. PICK n \in C : \A m \in C : << m, n >> \notin less
  BY <1>1, WFMin
<1>3. ASSUME NEW m \in C PROVE n <= m
  <2>1. m \in Nat /\ n \in Nat /\ << m, n >> \notin less
    BY <1>2
  <2>2. ~(m < n)
    BY <2>1
  <2>3. QED
    BY <2>1, <2>2
<1>4. QED
  BY <1>3

LEMMA LeastIsIn ==
  ASSUME NEW C, C \subseteq Nat, C # {}
  PROVE  Min(C) \in C
  BY LeastNumber DEF Min

\* The oldest of the refunds that wait is one of them.
LEMMA OldestWaits ==
  ASSUME Waiting # {}
  PROVE  Min(Waiting) \in Waiting
<1>1. Waiting \subseteq Nat
  BY RefundsAssumption DEF Waiting
<1> HIDE DEF Waiting
<1> QED BY <1>1, LeastIsIn

LEMMA WriteChargeStep ==
  ASSUME SendInv, WriteCharge
  PROVE  SendInv'
<1>1. CASE row' = row
  BY <1>1, QuietStep DEF WriteCharge, NoEvent
<1>2. CASE row' # row
  <2>1. Waiting # {} /\ Waiting \subseteq Refunds
    BY <1>2 DEF WriteCharge, Waiting
  <2>2. PICK charge : row' = [ row EXCEPT ![Min(Waiting)] = Written("REFUNDED", {}, { charge }) ]
    BY <1>2 DEF WriteCharge
  <2>3. Min(Waiting) \in Waiting
    BY <2>1, OldestWaits
  <2>4. QED
    BY <2>1, <2>2, <2>3, DoneStep DEF WriteCharge
<1>3. QED
  BY <1>1, <1>2

\* Nothing that Stripe has accepted dies.
LEMMA SettleStep ==
  ASSUME SendInv, Careful, NEW x \in stripe, Settle(x)
  PROVE  SendInv'
<1>1. /\ stripe' = (stripe \ { x }) \cup { [ x EXCEPT !.status = "succeeded" ] }
      /\ x.status = "pending"
      /\ row' = row /\ task' = task /\ event' = event
  BY DEF Settle, Careful
<1> PICK y : y = [ x EXCEPT !.status = "succeeded" ]
  OBVIOUS
<1>2. /\ y = CallOf(y) /\ y.status = "succeeded"
      /\ y.refund = x.refund /\ y.intent = x.intent
  BY DEF SendInv, Shape, CallOf
<1>3. Shape'
  <2>1. \A z \in stripe' : z = CallOf(z) /\ z.status \in { "pending", "succeeded" }
    BY <1>1, <1>2 DEF SendInv, Shape
  <2>2. QED
    BY <1>1, <2>1 DEF SendInv, Shape, RowOf, CallOf, NoTask
<1>4. Exclusive'
  BY <1>1 DEF SendInv, Exclusive, Taken, Working
<1>5. \A q, i : MadeFor(q, i) = {} => MadeFor(q, i)' = {}
  BY <1>1, <1>2 DEF MadeFor, For, On
<1>6. \A s \in Senders : Informed(s)'
  BY <1>1, <1>5 DEF SendInv, Informed
<1>7. OneRefundPerCharge'
  <2>1. \A z \in stripe : z.refund = x.refund /\ z.refund # 0 /\ z.intent = x.intent
                           /\ z.status # "dead" => z = x
    BY <1>1 DEF SendInv, OneRefundPerCharge
  <2>2. \A z \in stripe \ { x } : z.refund # y.refund \/ z.refund = 0
                                 \/ z.intent # y.intent \/ z.status = "dead"
    BY <1>2, <2>1
  <2>3. stripe' = (stripe \ { x }) \cup { y }
    BY <1>1
  <2>4. SUFFICES ASSUME NEW v \in stripe', NEW w \in stripe',
                        v.refund = w.refund, v.refund # 0, v.intent = w.intent,
                        v.status # "dead", w.status # "dead"
                 PROVE  v = w
    BY DEF OneRefundPerCharge
  <2>5. CASE v \in stripe \ { x } /\ w \in stripe \ { x }
    BY <2>4, <2>5 DEF SendInv, OneRefundPerCharge
  <2>6. CASE v = y \/ w = y
    BY <2>2, <2>3, <2>4, <2>6
  <2>7. QED
    BY <2>3, <2>5, <2>6
<1>8. QED
  BY <1>3, <1>4, <1>6, <1>7 DEF SendInv

\* A refund made by hand at Stripe is no record's.
LEMMA DashboardStep ==
  ASSUME SendInv, NEW intent \in Intents, Dashboard(intent)
  PROVE  SendInv'
<1>1. 0 \notin Refunds
  BY RefundsAssumption
<1>2. PICK y :
        /\ stripe' = stripe \cup { y }
        /\ y = CallOf(y) /\ y.refund = 0 /\ y.status = "succeeded"
        /\ row' = row /\ task' = task /\ event' = event
  <2>1. PICK cents, new :
          /\ stripe' = stripe \cup { new }
          /\ new = Made(intent, 0, cents, "succeeded")
    BY DEF Dashboard
  <2>2. /\ new = CallOf(new) /\ new.refund = 0 /\ new.status = "succeeded"
    BY <2>1 DEF Made, CallOf
  <2>3. QED
    BY <2>1, <2>2 DEF Dashboard
<1>3. Shape'
  <2>1. \A z \in stripe' : z = CallOf(z) /\ z.status \in { "pending", "succeeded" }
    BY <1>2 DEF SendInv, Shape
  <2>2. QED
    BY <1>2, <2>1 DEF SendInv, Shape, RowOf, CallOf, NoTask
<1>4. Exclusive'
  BY <1>2 DEF SendInv, Exclusive, Taken, Working
<1>5. \A q \in Refunds : \A i : MadeFor(q, i)' = MadeFor(q, i)
  BY <1>1, <1>2 DEF MadeFor, For, On
<1>6. \A s \in Senders : Informed(s)'
  <2> TAKE s \in Senders
  <2>1. task[s].stage \in { "look", "send" } => task[s].refund \in Refunds
    BY DEF SendInv, Shape, NoTask
  <2>2. task[s].stage \in { "look", "send" } =>
          \A i : MadeFor(task[s].refund, i)' = MadeFor(task[s].refund, i)
    BY <1>2, <1>5, <2>1
  <2>3. Informed(s) /\ task'[s] = task[s]
    BY <1>2 DEF SendInv
  <2>4. QED
    BY <2>2, <2>3 DEF Informed
<1>7. OneRefundPerCharge'
  BY <1>2 DEF SendInv, OneRefundPerCharge
<1>8. QED
  BY <1>3, <1>4, <1>6, <1>7 DEF SendInv

\* Only a row that nobody is busy with grows older.
LEMMA AgeStep ==
  ASSUME SendInv, Careful, NEW r \in Refunds, Age(r)
  PROVE  SendInv'
<1>1. /\ \A s \in Senders : ~Busy(s, r)
      /\ row' = [ row EXCEPT ![r].age = IF @ = "fresh" THEN "minutes" ELSE "hour" ]
      /\ row[r].status = "PROCESSING" /\ row[r].age # "hour"
      /\ stripe' = stripe /\ task' = task /\ event' = event
  BY DEF Age, Careful
<1>2. Shape'
  BY <1>1 DEF SendInv, Shape, RowOf, CallOf, NoTask
<1>3. /\ row'[r].status = row[r].status /\ row'[r].readers = row[r].readers
      /\ row'[r].age # "fresh"
      /\ \A q \in Refunds \ { r } : row'[q] = row[q]
  BY <1>1 DEF SendInv, Shape, RowOf
<1>4. \A s \in Senders : ~Working(s, r)
  BY <1>1 DEF Busy, Working
<1>5. Exclusive'
  BY <1>1, <1>3, <1>4 DEF SendInv, Exclusive, Taken, Working
<1>6. QED
  BY <1>1, <1>2, <1>5, StaysInformed, StripeStays DEF SendInv

LEMMA SendStays ==
  ASSUME Careful
  PROVE  SendInv /\ [Next]_vars => SendInv'
<1> SUFFICES ASSUME SendInv, [Next]_vars PROVE SendInv'
  OBVIOUS
<1>1. ASSUME NEW s \in Senders, NEW r \in Refunds, Pick(s, r) PROVE SendInv'
  BY <1>1, PickStep
<1>2. ASSUME NEW s \in Senders, PassOver(s) PROVE SendInv'
  BY <1>2, QuietStep DEF PassOver, SendInv, Shape
<1>3. ASSUME NEW s \in Senders, Claim(s) PROVE SendInv'
  BY <1>3, ClaimStep
<1>4. ASSUME NEW s \in Senders, Look(s) PROVE SendInv'
  BY <1>4, LookStep
<1>5. ASSUME NEW s \in Senders, Adopt(s) PROVE SendInv'
  BY <1>5, AdoptStep
<1>6. ASSUME NEW s \in Senders, Create(s) PROVE SendInv'
  BY <1>6, CreateStep
<1>7. ASSUME NEW s \in Senders, Refuse(s) PROVE SendInv'
  BY <1>7, RefuseStep
<1>8. ASSUME NEW s \in Senders, SaveFailure(s) PROVE SendInv'
  BY <1>8, SaveFailureStep
<1>9. ASSUME NEW s \in Senders, Finish(s) PROVE SendInv'
  BY <1>9, FinishStep
<1>10. ASSUME NEW s \in Senders, Crash(s) PROVE SendInv'
  BY <1>10, CrashStep
<1>11. CASE List \/ PayOut \/ UNCHANGED vars
  BY <1>11, QuietStep DEF List, PayOut, vars, SendInv, Shape
<1>12. CASE DropEvent
  BY <1>12, QuietStep DEF DropEvent, NoEvent
<1>13. ASSUME NEW x \in stripe, ReadUpdate(x) PROVE SendInv'
  BY <1>13, QuietStep DEF ReadUpdate, SendInv, Shape
<1>14. ASSUME NEW x \in stripe, ReadCharge(x) PROVE SendInv'
  BY <1>14, QuietStep DEF ReadCharge
<1>15. ASSUME NEW x \in stripe, Settle(x) PROVE SendInv'
  BY <1>15, SettleStep
<1>16. CASE WriteUpdate
  BY <1>16, WriteUpdateStep
<1>17. CASE WriteCharge
  BY <1>17, WriteChargeStep
<1>18. ASSUME NEW intent \in Intents, Dashboard(intent) PROVE SendInv'
  BY <1>18, DashboardStep
<1>19. ASSUME NEW r \in Refunds, Age(r) PROVE SendInv'
  BY <1>19, AgeStep
<1>20. QED
  BY <1>1, <1>2, <1>3, <1>4, <1>5, <1>6, <1>7, <1>8, <1>9, <1>10, <1>11, <1>12,
     <1>13, <1>14, <1>15, <1>16, <1>17, <1>18, <1>19 DEF Next

\* No step makes a second refund of one record from one charge: every sender
\* looks before it sends, the claim keeps other senders away, and what it
\* looked up stays true until it sends.  Of processStripeRefund and everything
\* that writes the same rows.
THEOREM SentOncePerCharge ==
  ASSUME Careful
  PROVE  Spec => []OneRefundPerCharge
<1>1. Init => SendInv
  BY InitSend
<1>2. SendInv /\ [Next]_vars => SendInv'
  BY SendStays
<1>3. SendInv => OneRefundPerCharge
  BY DEF SendInv
<1>4. QED
  BY <1>1, <1>2, <1>3, PTL DEF Spec

-----------------------------------------------------------------------------
(* Sums over finite sets.  What the fold of the community modules computes *)
(* is taken apart once, by induction on the number of elements.            *)

Chosen(s) == CHOOSE x \in s : TRUE

\* f gives the sum of the weights w for every subset of S, taking the elements
\* in the order of the choice operator.
Adds(f, w, S) ==
  f = [ s \in SUBSET S |->
        IF s = {} THEN 0 ELSE w[Chosen(s)] + f[s \ { Chosen(s) }] ]

\* The number n is the sum of the weights w of the elements of S.
IsSum(n, w, S) == \E f : Adds(f, w, S) /\ n = f[S]

LEMMA ChosenIsIn ==
  ASSUME NEW s, s # {}
  PROVE  Chosen(s) \in s
  BY DEF Chosen

\* A recursive function over the subsets of a finite set exists.
LEMMA SumsExist ==
  ASSUME NEW S, IsFiniteSet(S), NEW w
  PROVE  \E f : Adds(f, w, S)
<1> DEFINE Sub(n) == { s \in SUBSET S : Cardinality(s) <= n }
           Upto(f, n) == f = [ s \in Sub(n) |->
             IF s = {} THEN 0 ELSE w[Chosen(s)] + f[s \ { Chosen(s) }] ]
           Bad == { n \in Nat : ~ \E f : Upto(f, n) }
<1>1. \A s \in SUBSET S : IsFiniteSet(s) /\ Cardinality(s) \in Nat
  BY FS_Subset, FS_CardinalityType
<1>2. Bad = {}
  <2> SUFFICES ASSUME Bad # {} PROVE FALSE
    OBVIOUS
  <2>1. PICK n \in Bad : \A m \in Bad : n <= m
    <3> HIDE DEF Bad
    <3>1. Bad \subseteq Nat
      BY DEF Bad
    <3> QED BY <3>1, LeastNumber
  <2>2. n \in Nat /\ ~ \E f : Upto(f, n)
    BY <2>1
  <2>3. CASE n = 0
    <3>1. \A s \in Sub(0) : s = {}
      BY <1>1, FS_EmptySet
    <3>2. Upto([ s \in Sub(0) |-> 0 ], 0)
      BY <3>1
    <3> QED BY <2>2, <2>3, <3>2
  <2>4. CASE n # 0
    <3>1. n - 1 \in Nat /\ ~(n <= n - 1)
      BY <2>2, <2>4
    <3>2. PICK f : Upto(f, n - 1)
      BY <2>1, <3>1
    <3> DEFINE g == [ s \in Sub(n) |->
                      IF s = {} THEN 0 ELSE w[Chosen(s)] + f[s \ { Chosen(s) }] ]
    <3>3. \A s \in Sub(n - 1) : s \in Sub(n) /\ g[s] = f[s]
      <4> TAKE s \in Sub(n - 1)
      <4>1. s \in Sub(n)
        BY <1>1, <2>2, <3>1
      <4>2. f[s] = IF s = {} THEN 0 ELSE w[Chosen(s)] + f[s \ { Chosen(s) }]
        BY <3>2
      <4> QED BY <4>1, <4>2
    <3>4. \A s \in Sub(n) : s # {} => s \ { Chosen(s) } \in Sub(n - 1)
      <4> TAKE s \in Sub(n)
      <4> HAVE s # {}
      <4>1. Cardinality(s \ { Chosen(s) }) = Cardinality(s) - 1
        BY <1>1, ChosenIsIn, FS_RemoveElement
      <4> QED BY <1>1, <2>2, <4>1
    <3>5. Upto(g, n)
      <4>1. \A s \in Sub(n) : s # {} =>
              g[s \ { Chosen(s) }] = f[s \ { Chosen(s) }]
        BY <3>3, <3>4
      <4> QED BY <4>1
    <3> QED BY <2>2, <3>5
  <2> QED BY <2>3, <2>4
<1>3. Cardinality(S) \in Nat
  BY FS_CardinalityType
<1>4. PICK f : Upto(f, Cardinality(S))
  BY <1>2, <1>3
<1>5. Sub(Cardinality(S)) = SUBSET S
  BY FS_Subset
<1>6. Adds(f, w, S)
  BY <1>4, <1>5 DEF Adds
<1> QED BY <1>6

\* Any element may be taken first.
LEMMA SumTakesAny ==
  ASSUME NEW S, IsFiniteSet(S), NEW w, \A x \in S : w[x] \in Int, NEW f, Adds(f, w, S)
  PROVE  \A s \in SUBSET S :
           /\ f[s] \in Int
           /\ (\A x \in s : w[x] >= 0) => f[s] >= 0
           /\ \A x \in s : f[s] = w[x] + f[s \ { x }]
<1> DEFINE P(s) == /\ f[s] \in Int
                   /\ (\A x \in s : w[x] >= 0) => f[s] >= 0
                   /\ \A x \in s : f[s] = w[x] + f[s \ { x }]
           Bad == { n \in Nat : \E s \in SUBSET S : Cardinality(s) = n /\ ~P(s) }
<1>1. \A s \in SUBSET S : IsFiniteSet(s) /\ Cardinality(s) \in Nat
  BY FS_Subset, FS_CardinalityType
<1>2. \A s \in SUBSET S :
        f[s] = IF s = {} THEN 0 ELSE w[Chosen(s)] + f[s \ { Chosen(s) }]
  BY DEF Adds
<1>3. Bad = {}
  <2> SUFFICES ASSUME Bad # {} PROVE FALSE
    OBVIOUS
  <2>1. PICK n \in Bad : \A m \in Bad : n <= m
    <3> HIDE DEF Bad
    <3>1. Bad \subseteq Nat
      BY DEF Bad
    <3> QED BY <3>1, LeastNumber
  <2>2. PICK s \in SUBSET S : Cardinality(s) = n /\ ~P(s)
    BY <2>1
  <2>20. n \in Nat /\ Cardinality(s) = n /\ IsFiniteSet(s) /\ s \in SUBSET S
    BY <1>1, <2>2
  <2>3. \A x \in s : P(s \ { x })
    <3> TAKE x \in s
    <3>1. Cardinality(s \ { x }) = n - 1 /\ n \in Nat /\ n - 1 \in Nat
      <4>1. Cardinality(s \ { x }) = n - 1
        BY <2>20, FS_RemoveElement
      <4>2. Cardinality(s \ { x }) \in Nat
        BY <1>1, <2>20
      <4> QED BY <2>20, <4>1, <4>2
    <3>2. ~(n <= n - 1)
      BY <3>1
    <3> HIDE DEF P
    <3>3. n - 1 \notin Bad
      <4> HIDE DEF Bad
      <4> QED BY <2>1, <3>2
    <3> QED BY <3>1, <3>3
  <2>4. s # {}
    <3> SUFFICES ASSUME s = {} PROVE P(s)
      BY <2>2
    <3>1. f[s] = 0
      BY <1>2, <2>20
    <3> QED BY <3>1
  <2> DEFINE c == Chosen(s)
  <2>5. c \in s
    BY <2>4, ChosenIsIn
  <2>6. f[s] = w[c] + f[s \ { c }]
    BY <1>2, <2>4
  <2> HIDE DEF c
  <2>7. f[s] \in Int /\ f[s \ { c }] \in Int /\ w[c] \in Int
    <3>1. f[s \ { c }] \in Int
      BY <2>3, <2>5
    <3>2. w[c] \in Int
      BY <2>5
    <3> QED BY <2>6, <3>1, <3>2
  <2>8. ASSUME \A x \in s : w[x] >= 0 PROVE f[s] >= 0
    <3>1. f[s \ { c }] >= 0 /\ w[c] >= 0
      BY <2>3, <2>5, <2>8
    <3> QED BY <2>6, <2>7, <3>1
  <2>9. ASSUME NEW x \in s PROVE f[s] = w[x] + f[s \ { x }]
    <3>1. CASE x = c
      BY <2>6, <3>1
    <3>2. CASE x # c
      <4>1. f[s \ { c }] = w[x] + f[(s \ { c }) \ { x }]
        BY <2>3, <2>5, <3>2
      <4>2. f[s \ { x }] = w[c] + f[(s \ { x }) \ { c }]
        BY <2>3, <2>5, <3>2
      <4>3. (s \ { c }) \ { x } = (s \ { x }) \ { c }
        OBVIOUS
      <4>4. f[(s \ { c }) \ { x }] \in Int
        <5>1. (s \ { c }) \ { x } \in SUBSET S /\ x \in s \ { c }
          BY <3>2
        <5>2. Cardinality((s \ { c }) \ { x }) = n - 2 /\ n - 2 \in Nat /\ n \in Nat
          <6>1. IsFiniteSet(s \ { c }) /\ Cardinality(s \ { c }) = n - 1 /\ n \in Nat
            BY <2>20, <2>5, FS_RemoveElement
          <6>2. Cardinality((s \ { c }) \ { x }) = (n - 1) - 1
            <7> DEFINE u == s \ { c }
            <7>1. IsFiniteSet(u) /\ Cardinality(u) = n - 1 /\ x \in u
              BY <5>1, <6>1
            <7> HIDE DEF u
            <7>2. Cardinality(u \ { x }) = Cardinality(u) - 1
              BY <7>1, FS_RemoveElement
            <7> QED BY <7>1, <7>2 DEF u
          <6>3. Cardinality((s \ { c }) \ { x }) \in Nat
            BY <1>1, <5>1
          <6> QED BY <6>1, <6>2, <6>3
        <5>3. ~(n <= n - 2)
          BY <5>2
        <5>4. n - 2 \notin Bad
          <6> HIDE DEF Bad
          <6> QED BY <2>1, <5>3
        <5>5. P((s \ { c }) \ { x })
          <6> HIDE DEF P
          <6> QED BY <5>1, <5>2, <5>4
        <5> QED BY <5>5
      <4>5. w[x] \in Int
        OBVIOUS
      <4> HIDE DEF c
      <4> DEFINE rest == f[(s \ { c }) \ { x }]
                 wc == w[c]
                 wx == w[x]
      <4>6. /\ f[s] = wc + (wx + rest) /\ f[s \ { x }] = wc + rest
            /\ wc \in Int /\ wx \in Int /\ rest \in Int
        BY <2>6, <2>7, <4>1, <4>2, <4>3, <4>4, <4>5
      <4> HIDE DEF rest, wc, wx
      <4>7. f[s] = wx + f[s \ { x }]
        BY <4>6
      <4> QED BY <4>7 DEF wx
    <3> QED BY <3>1, <3>2
  <2> QED BY <2>2, <2>7, <2>8, <2>9
<1>4. ASSUME NEW s \in SUBSET S PROVE P(s)
  <2>1. Cardinality(s) \notin Bad /\ Cardinality(s) \in Nat
    BY <1>1, <1>3
  <2> HIDE DEF P
  <2> QED BY <2>1
<1> QED BY <1>4

\* Two ways to add up agree on what they have in common.
LEMMA SumsAgree ==
  ASSUME NEW S, IsFiniteSet(S), NEW T, NEW w, NEW v, NEW f, NEW g,
         Adds(f, w, S), Adds(g, v, T), S \subseteq T,
         \A x \in S : w[x] = v[x]
  PROVE  f[S] = g[S]
<1> DEFINE Bad == { n \in Nat : \E s \in SUBSET S : Cardinality(s) = n /\ f[s] # g[s] }
<1>1. \A s \in SUBSET S : IsFiniteSet(s) /\ Cardinality(s) \in Nat
  BY FS_Subset, FS_CardinalityType
<1>2. \A s \in SUBSET S :
        /\ f[s] = IF s = {} THEN 0 ELSE w[Chosen(s)] + f[s \ { Chosen(s) }]
        /\ g[s] = IF s = {} THEN 0 ELSE v[Chosen(s)] + g[s \ { Chosen(s) }]
  BY DEF Adds
<1>3. Bad = {}
  <2> SUFFICES ASSUME Bad # {} PROVE FALSE
    OBVIOUS
  <2>1. PICK n \in Bad : \A m \in Bad : n <= m
    <3> HIDE DEF Bad
    <3>1. Bad \subseteq Nat
      BY DEF Bad
    <3> QED BY <3>1, LeastNumber
  <2>2. PICK s \in SUBSET S : Cardinality(s) = n /\ f[s] # g[s]
    BY <2>1
  <2>3. s # {} /\ Chosen(s) \in s
    BY <1>2, <2>2, ChosenIsIn
  <2> DEFINE u == s \ { Chosen(s) }
  <2>4. u \in SUBSET S /\ Cardinality(u) = n - 1 /\ n - 1 \in Nat /\ n \in Nat
    <3>1. IsFiniteSet(s) /\ Cardinality(s) = n /\ n \in Nat
      BY <1>1, <2>2
    <3>2. Cardinality(u) = n - 1
      BY <2>3, <3>1, FS_RemoveElement
    <3>3. u \in SUBSET S
      OBVIOUS
    <3> QED BY <1>1, <3>1, <3>2, <3>3
  <2>5. n - 1 \notin Bad
    <3> HIDE DEF Bad
    <3>1. ~(n <= n - 1)
      BY <2>4
    <3> QED BY <2>1, <3>1
  <2>6. f[u] = g[u]
    <3> HIDE DEF u
    <3> QED BY <2>4, <2>5
  <2>7. w[Chosen(s)] = v[Chosen(s)]
    BY <2>3
  <2>8. f[s] = w[Chosen(s)] + f[u] /\ g[s] = v[Chosen(s)] + g[u]
    BY <1>2, <2>3
  <2> QED BY <2>2, <2>6, <2>7, <2>8
<1>4. Cardinality(S) \in Nat /\ Cardinality(S) \notin Bad /\ S \in SUBSET S
  BY <1>1, <1>3
<1> HIDE DEF Bad
<1> QED BY <1>4 DEF Bad

LEMMA SumOfNone ==
  ASSUME NEW n, NEW w, IsSum(n, w, {})
  PROVE  n = 0
<1>1. PICK f : Adds(f, w, {}) /\ n = f[{}]
  BY DEF IsSum
<1> QED BY <1>1 DEF Adds

\* Sums are numbers, and no less than zero when no weight is.
LEMMA SumIsNumber ==
  ASSUME NEW n, NEW w, NEW S, IsFiniteSet(S), \A x \in S : w[x] \in Int, IsSum(n, w, S)
  PROVE  /\ n \in Int
         /\ (\A x \in S : w[x] >= 0) => n \in Nat
<1>1. PICK f : Adds(f, w, S) /\ n = f[S]
  BY DEF IsSum
<1>2. f[S] \in Int /\ ((\A x \in S : w[x] >= 0) => f[S] >= 0)
  BY <1>1, SumTakesAny
<1> QED BY <1>1, <1>2

GrowsBy(m, n, c) == m \in Int /\ n = m + c

LEMMA SumOfMore ==
  ASSUME NEW S, IsFiniteSet(S), NEW x, x \notin S, NEW n, NEW m, NEW w, NEW v,
         \A y \in S \cup { x } : w[y] \in Int,
         \A y \in S : v[y] = w[y],
         IsSum(n, w, S \cup { x }), IsSum(m, v, S)
  PROVE  GrowsBy(m, n, w[x])
<1>1. PICK f : Adds(f, w, S \cup { x }) /\ n = f[S \cup { x }]
  BY DEF IsSum
<1>2. PICK g : Adds(g, v, S) /\ m = g[S]
  BY DEF IsSum
<1>3. IsFiniteSet(S \cup { x })
  BY FS_AddElement
<1>4. f[S \cup { x }] = w[x] + f[(S \cup { x }) \ { x }]
  BY <1>1, <1>3, SumTakesAny
<1>5. (S \cup { x }) \ { x } = S
  OBVIOUS
<1>6. g[S] = f[S]
  BY <1>1, <1>2, SumsAgree
<1>7. m \in Int
  BY <1>2, SumIsNumber DEF IsSum
<1>8. w[x] \in Int
  OBVIOUS
<1> DEFINE wx == w[x]
<1>9. n = wx + m /\ wx \in Int
  BY <1>1, <1>2, <1>4, <1>5, <1>6, <1>8
<1> HIDE DEF wx
<1>10. n = m + wx
  BY <1>7, <1>9
<1> QED BY <1>7, <1>10 DEF wx, GrowsBy

-----------------------------------------------------------------------------
(* The sums of the model                                                   *)

\* A fold for a sum chooses its function: there is one to choose.
LEMMA CentsIsSum ==
  ASSUME NEW xs, IsFiniteSet(xs)
  PROVE  IsSum(Cents(xs), [ x \in xs |-> x.cents ], xs)
<1> DEFINE w == [ x \in xs |-> x.cents ]
           Iterates(f) == f = [ s \in SUBSET xs |->
             IF s = {} THEN 0 ELSE LET x == CHOOSE y \in s : TRUE IN x.cents + f[s \ { x }] ]
           iter == CHOOSE f : Iterates(f)
<1>1. Cents(xs) = iter[xs]
  BY DEF Cents, MapThenSumSet, MapThenFoldSet
<1>2. \A f : Adds(f, w, xs) <=> Iterates(f)
  <2>1. \A s \in SUBSET xs : s # {} => w[Chosen(s)] = Chosen(s).cents
    BY ChosenIsIn
  <2> QED BY <2>1 DEF Adds, Chosen
<1>3. \E f : Iterates(f)
  <2> HIDE DEF Iterates, w
  <2> QED BY <1>2, SumsExist
<1>4. Iterates(iter)
  <2> HIDE DEF Iterates
  <2> QED BY <1>3
<1> HIDE DEF iter, Iterates, w
<1>5. IsSum(Cents(xs), w, xs)
  BY <1>1, <1>2, <1>4 DEF IsSum
<1> QED BY <1>5 DEF w

LEMMA AvailableIsSum ==
  ASSUME NEW found, NEW is, IsFiniteSet(is)
  PROVE  IsSum(Available(found, is), [ i \in is |-> found[i].cents ], is)
<1> DEFINE w == [ i \in is |-> found[i].cents ]
           Iterates(f) == f = [ s \in SUBSET is |->
             IF s = {} THEN 0
             ELSE LET x == CHOOSE y \in s : TRUE IN found[x].cents + f[s \ { x }] ]
           iter == CHOOSE f : Iterates(f)
<1>1. Available(found, is) = iter[is]
  BY DEF Available, MapThenSumSet, MapThenFoldSet
<1>2. \A f : Adds(f, w, is) <=> Iterates(f)
  <2>1. \A s \in SUBSET is : s # {} => w[Chosen(s)] = found[Chosen(s)].cents
    BY ChosenIsIn
  <2> QED BY <2>1 DEF Adds, Chosen
<1>3. \E f : Iterates(f)
  <2> HIDE DEF Iterates, w
  <2> QED BY <1>2, SumsExist
<1>4. Iterates(iter)
  <2> HIDE DEF Iterates
  <2> QED BY <1>3
<1> HIDE DEF iter, Iterates, w
<1>5. IsSum(Available(found, is), w, is)
  BY <1>1, <1>2, <1>4 DEF IsSum
<1> QED BY <1>5 DEF w


LEMMA SumOfNoCents == Cents({}) = 0
  BY CentsIsSum, SumOfNone, FS_EmptySet

LEMMA CentsAreNatural ==
  ASSUME NEW xs, IsFiniteSet(xs), \A x \in xs : x.cents \in Nat
  PROVE  Cents(xs) \in Nat
<1> DEFINE w == [ x \in xs |-> x.cents ]
<1>1. \A x \in xs : w[x] \in Int /\ w[x] >= 0
  OBVIOUS
<1>2. IsSum(Cents(xs), w, xs)
  BY CentsIsSum
<1> HIDE DEF w
<1> QED BY <1>1, <1>2, SumIsNumber

LEMMA OneMoreRefund ==
  ASSUME NEW xs, IsFiniteSet(xs), NEW x, x \notin xs,
         \A y \in xs \cup { x } : y.cents \in Nat
  PROVE  Cents(xs \cup { x }) = Cents(xs) + x.cents
<1> DEFINE w == [ y \in xs \cup { x } |-> y.cents ]
           v == [ y \in xs |-> y.cents ]
<1>1. /\ \A y \in xs \cup { x } : w[y] \in Int
      /\ \A y \in xs : v[y] = w[y]
      /\ w[x] = x.cents
  OBVIOUS
<1>2. IsFiniteSet(xs \cup { x })
  BY FS_AddElement
<1>3. IsSum(Cents(xs \cup { x }), w, xs \cup { x }) /\ IsSum(Cents(xs), v, xs)
  BY <1>2, CentsIsSum
<1> HIDE DEF w, v
<1>4. Cents(xs \cup { x }) = Cents(xs) + w[x]
  <2> DEFINE n == Cents(xs \cup { x })
             m == Cents(xs)
  <2>1. IsSum(n, w, xs \cup { x }) /\ IsSum(m, v, xs)
    BY <1>3
  <2> HIDE DEF n, m
  <2>2. GrowsBy(m, n, w[x])
    BY <1>1, <2>1, SumOfMore
  <2> QED BY <2>2 DEF n, m, GrowsBy
<1> QED BY <1>1, <1>4

LEMMA CentsOfOne ==
  ASSUME NEW x, x.cents \in Nat
  PROVE  Cents({ x }) = x.cents
<1>1. Cents({} \cup { x }) = Cents({}) + x.cents
  BY OneMoreRefund, FS_EmptySet
<1>2. {} \cup { x } = { x }
  OBVIOUS
<1> QED BY <1>1, <1>2, SumOfNoCents

LEMMA CentsOfTwo ==
  ASSUME NEW x, NEW y, x # y, x.cents \in Nat, y.cents \in Nat
  PROVE  Cents({ x, y }) = x.cents + y.cents
<1>1. Cents({ x } \cup { y }) = Cents({ x }) + y.cents
  BY OneMoreRefund, FS_Singleton
<1>2. { x } \cup { y } = { x, y }
  OBVIOUS
<1> QED BY <1>1, <1>2, CentsOfOne

\* A refund is replaced by one of the same amount.
LEMMA OneRefundForAnother ==
  ASSUME NEW xs, IsFiniteSet(xs), NEW x \in xs, NEW y, y \notin xs \ { x },
         y.cents = x.cents, \A z \in xs : z.cents \in Nat
  PROVE  Cents((xs \ { x }) \cup { y }) = Cents(xs)
<1> DEFINE rest == xs \ { x }
<1>1. IsFiniteSet(rest)
  BY FS_RemoveElement
<1>2. rest \cup { x } = xs /\ x \notin rest /\ y \notin rest
  OBVIOUS
<1>3. \A z \in rest \cup { x } : z.cents \in Nat
  OBVIOUS
<1>4. \A z \in rest \cup { y } : z.cents \in Nat
  OBVIOUS
<1> HIDE DEF rest
<1>5. Cents(rest \cup { x }) = Cents(rest) + x.cents
  BY <1>1, <1>2, <1>3, OneMoreRefund
<1>6. Cents(rest \cup { y }) = Cents(rest) + y.cents
  BY <1>1, <1>2, <1>4, OneMoreRefund
<1> QED BY <1>2, <1>5, <1>6 DEF rest

LEMMA NothingAvailable ==
  ASSUME NEW found
  PROVE  Available(found, {}) = 0
  BY AvailableIsSum, SumOfNone, FS_EmptySet

LEMMA FirstAvailable ==
  ASSUME NEW found, NEW i, found[i].cents \in Int
  PROVE  Available(found, { i }) = found[i].cents
<1> DEFINE w == [ j \in { i } |-> found[j].cents ]
           v == [ j \in {} |-> found[j].cents ]
<1>1. /\ \A j \in {} \cup { i } : w[j] \in Int
      /\ \A j \in {} : v[j] = w[j]
      /\ w[i] = found[i].cents
  OBVIOUS
<1>2. IsFiniteSet({ i }) /\ IsFiniteSet({}) /\ {} \cup { i } = { i }
  BY FS_Singleton, FS_EmptySet
<1>3. IsSum(Available(found, {} \cup { i }), w, {} \cup { i }) /\ IsSum(Available(found, {}), v, {})
  BY <1>2, AvailableIsSum
<1> HIDE DEF w, v
<1>4. Available(found, {} \cup { i }) = Available(found, {}) + w[i]
  <2> DEFINE n == Available(found, {} \cup { i })
             m == Available(found, {})
             none == {}
  <2>1. /\ IsSum(n, w, none \cup { i }) /\ IsSum(m, v, none)
        /\ i \notin none /\ IsFiniteSet(none)
        /\ \A j \in none \cup { i } : w[j] \in Int
        /\ \A j \in none : v[j] = w[j]
    BY <1>1, <1>2, <1>3
  <2> HIDE DEF n, m, none
  <2>2. GrowsBy(m, n, w[i])
    BY <2>1, SumOfMore
  <2> QED BY <2>2 DEF n, m, none, GrowsBy
<1> QED BY <1>1, <1>2, <1>4, NothingAvailable

LEMMA RecordedIsNumber ==
  ASSUME IsFiniteSet(extra), \A y \in extra : y.cents \in Nat
  PROVE  Recorded \in Nat
<1> DEFINE rs == { r \in Refunds : row[r].status \in { "REFUNDED", "PROCESSING" } }
           Iterates(f) == f = [ s \in SUBSET rs |->
             IF s = {} THEN 0
             ELSE LET x == CHOOSE y \in s : TRUE IN Amount[x] + f[s \ { x }] ]
           iter == CHOOSE f : Iterates(f)
<1>1. Recorded = iter[rs] + Cents(extra)
  BY DEF Recorded, MapThenSumSet, MapThenFoldSet
<1>2. IsFiniteSet(rs)
  BY RefundsAssumption, FS_Subset
<1>3. \A f : Adds(f, Amount, rs) <=> Iterates(f)
  BY DEF Adds, Chosen
<1>4. \A r \in rs : Amount[r] \in Int /\ Amount[r] >= 0
  BY RefundsAssumption
<1> HIDE DEF Iterates, rs
<1>5. \E f : Iterates(f)
  BY <1>2, <1>3, SumsExist
<1>6. Iterates(iter)
  BY <1>5
<1> HIDE DEF iter
<1>7. IsSum(iter[rs], Amount, rs)
  BY <1>3, <1>6 DEF IsSum
<1>8. iter[rs] \in Nat
  BY <1>2, <1>4, <1>7, SumIsNumber
<1> QED BY <1>1, <1>8, CentsAreNatural

-----------------------------------------------------------------------------
(* Types                                                                   *)

\* What a lookup notes down of one payment intent.
Entries == [ intent : Intents, made : SUBSET Calls, cents : Int ]

TaskTypes ==
  /\ task = [ s \in Senders |-> task[s] ]
  /\ \A s \in Senders : task[s] # NoTask =>
       LET t == task[s]
       IN  /\ t.stage \in { "claim", "look", "send", "fail" }
           /\ t.refund \in Refunds /\ t.sent \subseteq Calls
           /\ t.stage = "look" =>
                t.at \in 0 .. Last(t.refund) - 1 /\ \A i \in 1 .. t.at : t.found[i] \in Entries
           /\ t.stage = "send" =>
                /\ t.at \in 1 .. Last(t.refund) + 1
                /\ \A i \in 1 .. Last(t.refund) : t.found[i] \in Entries

EventTypes ==
  event # NoEvent =>
    /\ event.kind \in { "update", "charge" }
    /\ event.about \in Calls
    /\ event.kind = "update" => event.about.refund \in Refunds
    /\ event.kind = "charge" => event.cents \in Nat \ { 0 }

TypeInv ==
  TypeOK /\ IsFiniteSet(stripe) /\ IsFiniteSet(extra) /\ TaskTypes /\ EventTypes

LEMMA PlacesOf ==
  ASSUME NEW r \in Refunds
  PROVE  /\ Last(r) \in { 1, 2 }
         /\ \A i \in 1 .. Last(r) : IntentsOf(r)[i] \in Intents
  BY DEF Last, IntentsOf, Intents, Parts

\* There is a last one among the refunds found at Stripe.
LEMMA NewestIsIn ==
  ASSUME NEW made, made \subseteq Calls, made # {}
  PROVE  Newest(made) \in made
<1> DEFINE ages == { MaxStripe - x.id : x \in made }
<1>1. /\ \A x \in made : x.id \in 1 .. MaxStripe
      /\ MaxStripe \in Nat
  BY RefundsAssumption DEF Calls
<1>2. ages \subseteq Nat /\ ages # {}
  BY <1>1
<1>3. PICK n \in ages : \A m \in ages : n <= m
  <2> HIDE DEF ages
  <2> QED BY <1>2, LeastNumber
<1>4. PICK x \in made : n = MaxStripe - x.id
  BY <1>3
<1>5. ASSUME NEW y \in made PROVE y.id <= x.id
  <2>1. MaxStripe - x.id <= MaxStripe - y.id
    BY <1>3, <1>4
  <2>2. MaxStripe \in Int /\ x.id \in Int /\ y.id \in Int
    BY <1>1
  <2> QED BY <2>1, <2>2
<1> QED BY <1>5 DEF Newest

\* What an intent is charged with can be counted.
LEMMA RefundableIsNumber ==
  ASSUME stripe \subseteq Calls, IsFiniteSet(stripe), NEW intent \in Intents
  PROVE  Cents(On(intent)) \in Nat /\ Refundable(intent) \in Int
<1>1. On(intent) \subseteq stripe /\ IsFiniteSet(On(intent))
  BY FS_Subset DEF On
<1>2. \A x \in On(intent) : x.cents \in Nat
  BY <1>1 DEF Calls
<1>3. Cents(On(intent)) \in Nat
  BY <1>1, <1>2, CentsAreNatural
<1>4. Captured[intent] \in Nat
  BY RefundsAssumption
<1> QED BY <1>3, <1>4 DEF Refundable

LEMMA MadeIsCall ==
  ASSUME stripe \subseteq Calls, IsFiniteSet(stripe), Cardinality(stripe) < MaxStripe,
         NEW intent \in Intents, NEW r \in Refunds \cup { 0 }, NEW cents \in Nat \ { 0 },
         NEW status \in { "succeeded", "pending" }
  PROVE  Made(intent, r, cents, status) \in Calls
<1>1. Cardinality(stripe) + 1 \in 1 .. MaxStripe
  BY FS_CardinalityType, RefundsAssumption
<1>2. Cents(On(intent)) + cents \in Nat
  BY RefundableIsNumber
<1> QED BY <1>1, <1>2 DEF Made, Calls

LEMMA LargerOfTwo ==
  ASSUME NEW a \in Int, NEW b \in Int
  PROVE  Max({ a, b }) = IF a >= b THEN a ELSE b
  BY DEF Max

LEMMA SmallerOfTwo ==
  ASSUME NEW a \in Int, NEW b \in Int
  PROVE  Min({ a, b }) = IF a <= b THEN a ELSE b
  BY DEF Min

\* What one intent gives, as what it has and what is still needed say.
Gives(share, has, needed) ==
  /\ share \in Nat
  /\ share > 0 => share <= has /\ share <= needed
  /\ share = 0 => has <= 0 \/ needed <= 0
  /\ 0 <= needed /\ needed <= has => share = needed

LEMMA ShareOfAll ==
  ASSUME NEW r, NEW found, NEW at, found[at].cents \in Int,
         NEW before \in Int, Available(found, 1 .. at - 1) = before, Amount[r] \in Int
  PROVE  Gives(Share(r, found, at), found[at].cents, Amount[r] - before)
<1> DEFINE has == found[at].cents
           needed == Amount[r] - before
           least == IF has <= needed THEN has ELSE needed
<1>1. has \in Int /\ needed \in Int /\ least \in Int
  OBVIOUS
<1>2. Share(r, found, at) = Max({ 0, Min({ has, needed }) })
  BY DEF Share
<1> HIDE DEF has, needed
<1>3. Min({ has, needed }) = least
  BY <1>1, SmallerOfTwo
<1>4. Max({ 0, least }) = IF 0 >= least THEN 0 ELSE least
  <2> HIDE DEF least
  <2> QED BY <1>1, LargerOfTwo
<1>5. Share(r, found, at) = IF 0 >= least THEN 0 ELSE least
  BY <1>2, <1>3, <1>4
<1>6. Gives(Share(r, found, at), has, needed)
  BY <1>1, <1>5 DEF Gives
<1> QED BY <1>6 DEF has, needed

\* At the first place all of the amount is needed, at the second what the
\* first cannot give.
LEMMA FirstShare ==
  ASSUME NEW r \in Refunds, NEW found, found[1].cents \in Int
  PROVE  Gives(Share(r, found, 1), found[1].cents, Amount[r])
<1>1. 1 .. 1 - 1 = {} /\ Amount[r] \in Int /\ 0 \in Int
  BY RefundsAssumption
<1>2. Available(found, 1 .. 1 - 1) = 0
  BY <1>1, NothingAvailable
<1>3. Gives(Share(r, found, 1), found[1].cents, Amount[r] - 0)
  BY <1>1, <1>2, ShareOfAll
<1>4. Amount[r] - 0 = Amount[r]
  BY <1>1
<1> QED BY <1>3, <1>4

LEMMA SecondShare ==
  ASSUME NEW r \in Refunds, NEW found, found[1].cents \in Int, found[2].cents \in Int
  PROVE  Gives(Share(r, found, 2), found[2].cents, Amount[r] - found[1].cents)
<1>1. 1 .. 2 - 1 = { 1 } /\ Amount[r] \in Int
  BY RefundsAssumption
<1>2. Available(found, 1 .. 2 - 1) = found[1].cents
  BY <1>1, FirstAvailable
<1> QED BY <1>1, <1>2, ShareOfAll

LEMMA ShareIsNumber ==
  ASSUME NEW r \in Refunds, NEW found, NEW at \in 1 .. Last(r),
         \A i \in 1 .. Last(r) : found[i].cents \in Int
  PROVE  Share(r, found, at) \in Nat
<1>1. CASE at = 1
  <2>1. 1 \in 1 .. Last(r)
    BY <1>1
  <2> QED BY <1>1, <2>1, FirstShare DEF Gives
<1>2. CASE at = 2
  <2>1. 1 \in 1 .. Last(r) /\ 2 \in 1 .. Last(r)
    BY <1>2, PlacesOf
  <2> QED BY <1>2, <2>1, SecondShare DEF Gives
<1> QED BY <1>1, <1>2, PlacesOf

\* A sender that does something lawful, while nobody else does anything.
LEMMA TaskStaysTyped ==
  ASSUME TaskTypes, NEW s \in Senders, NEW next,
         task' = [ task EXCEPT ![s] = next ],
         next # NoTask =>
           /\ next.stage \in { "claim", "look", "send", "fail" }
           /\ next.refund \in Refunds /\ next.sent \subseteq Calls
           /\ next.stage = "look" =>
                /\ next.at \in 0 .. Last(next.refund) - 1
                /\ \A i \in 1 .. next.at : next.found[i] \in Entries
           /\ next.stage = "send" =>
                /\ next.at \in 1 .. Last(next.refund) + 1
                /\ \A i \in 1 .. Last(next.refund) : next.found[i] \in Entries
  PROVE  TaskTypes' /\ DOMAIN task' = Senders
<1>1. /\ task' = [ t \in Senders |-> IF t = s THEN next ELSE task[t] ]
      /\ \A t \in Senders : task'[t] = IF t = s THEN next ELSE task[t]
  BY DEF TaskTypes
<1>2. task' = [ t \in Senders |-> task'[t] ]
  BY <1>1
<1>3. ASSUME NEW t \in Senders, task'[t] # NoTask
      PROVE  /\ task'[t].stage \in { "claim", "look", "send", "fail" }
             /\ task'[t].refund \in Refunds /\ task'[t].sent \subseteq Calls
             /\ task'[t].stage = "look" =>
                  /\ task'[t].at \in 0 .. Last(task'[t].refund) - 1
                  /\ \A i \in 1 .. task'[t].at : task'[t].found[i] \in Entries
             /\ task'[t].stage = "send" =>
                  /\ task'[t].at \in 1 .. Last(task'[t].refund) + 1
                  /\ \A i \in 1 .. Last(task'[t].refund) : task'[t].found[i] \in Entries
  <2>1. CASE t = s
    BY <1>1, <1>3, <2>1
  <2>2. CASE t # s
    <3>1. task'[t] = task[t]
      BY <1>1, <2>2
    <3> QED BY <1>3, <3>1 DEF TaskTypes
  <2> QED BY <2>1, <2>2
<1>4. TaskTypes'
  BY <1>2, <1>3 DEF TaskTypes
<1> QED BY <1>1, <1>4

\* Everything but the senders' tasks.
StateTypes ==
  /\ row \in [ Refunds -> Contents ]
  /\ stripe \subseteq Calls /\ IsFiniteSet(stripe)
  /\ reversed \subseteq Refunds
  /\ \A x \in extra : x.charge \in Intents \X Nat /\ x.cents \in Nat \ { 0 }
  /\ IsFiniteSet(extra)
  /\ payment \in { "PAID", "FAILED" } /\ paidOut \in BOOLEAN
  /\ queue \in [ Loops -> SUBSET Refunds ]
  /\ event # NoEvent => event.about.id \in { x.id : x \in stripe }
  /\ EventTypes

LEMMA TypeInvParts == TypeInv <=> StateTypes /\ TaskTypes
<1>1. TaskTypes => DOMAIN task = Senders
  BY DEF TaskTypes
<1>2. TaskTypes => \A s \in Senders : task[s] # NoTask => task[s].refund \in Refunds
  BY DEF TaskTypes
<1> QED BY <1>1, <1>2 DEF TypeInv, TypeOK, StateTypes

LEMMA InitTypes == Init => TypeInv
<1> SUFFICES ASSUME Init PROVE StateTypes /\ TaskTypes
  BY TypeInvParts
<1>1. TaskTypes
  BY DEF Init, TaskTypes
<1>2. row \in [ Refunds -> Contents ]
  BY DEF Init, Contents, Statuses, Ages
<1>3. queue \in [ Loops -> SUBSET Refunds ]
  BY DEF Init, Loops
<1> QED BY <1>1, <1>2, <1>3, FS_EmptySet DEF Init, StateTypes, EventTypes

\* A row is written in one of two ways.
LEMMA WritesTyped ==
  ASSUME row \in [ Refunds -> Contents ], NEW r \in Refunds, NEW status \in Statuses
  PROVE  /\ Marked(r, status) \in Contents
         /\ \A ids \in SUBSET (1 .. MaxStripe), charge \in SUBSET (Intents \X Nat) :
              Written(status, ids, charge) \in Contents
  BY DEF Marked, Written, Contents, Ages

LEMMA RowStaysTyped ==
  ASSUME row \in [ Refunds -> Contents ], NEW r \in Refunds, NEW c \in Contents,
         row' = [ row EXCEPT ![r] = c ]
  PROVE  row' \in [ Refunds -> Contents ]
  OBVIOUS

LEMMA RestTyped ==
  ASSUME queue \in [ Loops -> SUBSET Refunds ], NEW s, NEW r
  PROVE  Rest(s, r) \in [ Loops -> SUBSET Refunds ]
  BY DEF Rest

LEMMA PickTypes ==
  ASSUME StateTypes, TaskTypes, NEW s \in Senders, NEW r \in Refunds, Pick(s, r)
  PROVE  StateTypes' /\ TaskTypes'
<1>1. TaskTypes'
  <2> DEFINE next == Doing("claim", r, 0, << >>, {})
  <2>1. task' = [ task EXCEPT ![s] = next ]
    BY DEF Pick
  <2>2. next.stage = "claim" /\ next.refund = r /\ next.sent = {}
    BY DEF Doing
  <2> HIDE DEF next
  <2> QED BY <2>1, <2>2, TaskStaysTyped
<1>2. row' \in [ Refunds -> Contents ]
  <2> DEFINE c == [ row[r] EXCEPT !.readers = @ \cup { s } ]
  <2>1. c \in Contents
    BY DEF StateTypes, Contents
  <2>2. row' = [ row EXCEPT ![r] = c ]
    BY DEF Pick
  <2> HIDE DEF c
  <2> QED BY <2>1, <2>2, RowStaysTyped DEF StateTypes
<1>3. queue' \in [ Loops -> SUBSET Refunds ]
  BY RestTyped DEF Pick, StateTypes
<1> QED BY <1>1, <1>2, <1>3 DEF Pick, StateTypes, EventTypes

LEMMA PassTypes ==
  ASSUME StateTypes, TaskTypes, NEW s \in Senders, PassOver(s)
  PROVE  StateTypes' /\ TaskTypes'
<1>1. queue' \in [ Loops -> SUBSET Refunds ]
  BY RestTyped DEF PassOver, StateTypes
<1> QED BY <1>1 DEF PassOver, StateTypes, EventTypes, TaskTypes

\* A step of a sender that touches at most its row and the ledger.
LEMMA RowStepTypes ==
  ASSUME StateTypes, TaskTypes', row' \in [ Refunds -> Contents ], reversed' \subseteq Refunds,
         UNCHANGED << stripe, extra, payment, paidOut, queue, event >>
  PROVE  StateTypes' /\ TaskTypes'
  BY DEF StateTypes, EventTypes

LEMMA ClaimTypes ==
  ASSUME StateTypes, TaskTypes, NEW s \in Senders, Claim(s)
  PROVE  StateTypes' /\ TaskTypes'
<1> DEFINE r == task[s].refund
<1>0. task[s].stage = "claim" /\ r \in Refunds
  BY DEF Claim, TaskTypes, NoTask
<1>1. CASE s \in row[r].readers
  <2> DEFINE next == Doing("look", r, 0, << >>, {})
             c == Marked(r, "PROCESSING")
  <2>1. task' = [ task EXCEPT ![s] = next ] /\ row' = [ row EXCEPT ![r] = c ]
    BY <1>1 DEF Claim
  <2>2. /\ next.stage = "look" /\ next.refund = r /\ next.sent = {}
        /\ next.at \in 0 .. Last(next.refund) - 1
        /\ \A i \in 1 .. next.at : next.found[i] \in Entries
    BY <1>0, PlacesOf DEF Doing
  <2>3. c \in Contents
    BY <1>0, WritesTyped DEF StateTypes, Statuses
  <2> HIDE DEF next, c
  <2>4. TaskTypes'
    BY <1>0, <2>1, <2>2, TaskStaysTyped
  <2>5. row' \in [ Refunds -> Contents ]
    BY <1>0, <2>1, <2>3, RowStaysTyped DEF StateTypes
  <2> QED BY <2>4, <2>5, RowStepTypes DEF Claim, StateTypes
<1>2. CASE s \notin row[r].readers
  <2>1. task' = [ task EXCEPT ![s] = NoTask ] /\ row' = row
    BY <1>2 DEF Claim
  <2>2. TaskTypes'
    BY <2>1, TaskStaysTyped
  <2> QED BY <2>1, <2>2, RowStepTypes DEF Claim, StateTypes
<1> QED BY <1>1, <1>2

LEMMA LookTypes ==
  ASSUME StateTypes, TaskTypes, NEW s \in Senders, Look(s)
  PROVE  StateTypes' /\ TaskTypes'
<1> PICK r : r = task[s].refund
  OBVIOUS
<1> DEFINE at     == task[s].at + 1
           intent == IntentsOf(r)[at]
           made   == MadeFor(r, intent)
           entry  == [ intent |-> intent, made |-> made,
                       cents |-> IF made = {} THEN Refundable(intent) ELSE Newest(made).cents ]
           found  == [ i \in 1 .. at |-> IF i < at THEN task[s].found[i] ELSE entry ]
           next   == IF at < Last(r) THEN Doing("look", r, at, found, {})
                     ELSE Doing(IF Covers(r, found) THEN "send" ELSE "fail", r, 1, found, {})
<1>1. /\ task[s].stage = "look" /\ task' = [ task EXCEPT ![s] = next ]
      /\ UNCHANGED << row, stripe, reversed, extra, payment, paidOut, queue, event >>
  BY DEF Look
<1>2. /\ r \in Refunds /\ task[s].at \in 0 .. Last(r) - 1
      /\ \A i \in 1 .. task[s].at : task[s].found[i] \in Entries
  BY <1>1 DEF TaskTypes, NoTask
<1>3. at \in 1 .. Last(r) /\ intent \in Intents
  BY <1>2, PlacesOf
<1>4. entry \in Entries
  <2>1. made \subseteq Calls
    BY DEF MadeFor, For, On, StateTypes
  <2>2. made # {} => Newest(made).cents \in Int
    <3> HIDE DEF made
    <3>1. made # {} => Newest(made) \in Calls
      BY <2>1, NewestIsIn
    <3> QED BY <3>1 DEF Calls
  <2>3. Refundable(intent) \in Int
    BY <1>3, RefundableIsNumber DEF StateTypes
  <2> HIDE DEF made, intent
  <2> QED BY <1>3, <2>1, <2>2, <2>3 DEF Entries
<1> HIDE DEF entry, intent, made
<1>5. \A i \in 1 .. at : found[i] \in Entries
  BY <1>2, <1>3, <1>4
<1> HIDE DEF found
<1>6. /\ next.stage \in { "look", "send", "fail" } /\ next.refund = r /\ next.sent = {}
      /\ next.stage = "look" => at < Last(r) /\ next.at = at /\ next.found = found
      /\ next.stage = "send" => ~(at < Last(r)) /\ next.at = 1 /\ next.found = found
  BY DEF Doing
<1>7. next.stage = "look" => /\ next.at \in 0 .. Last(next.refund) - 1
                             /\ \A i \in 1 .. next.at : next.found[i] \in Entries
  <2> HIDE DEF next
  <2> QED BY <1>2, <1>3, <1>5, <1>6, PlacesOf
<1>8. next.stage = "send" => /\ next.at \in 1 .. Last(next.refund) + 1
                             /\ \A i \in 1 .. Last(next.refund) : next.found[i] \in Entries
  <2> HIDE DEF next
  <2>1. Last(r) \in { 1, 2 }
    BY <1>2, PlacesOf
  <2>2. next.stage = "send" => at = Last(r)
    BY <1>3, <1>6, <2>1
  <2> HIDE DEF at
  <2> QED BY <1>5, <1>6, <2>1, <2>2
<1> HIDE DEF next, at
<1>9. TaskTypes'
  BY <1>1, <1>2, <1>6, <1>7, <1>8, TaskStaysTyped
<1> QED BY <1>1, <1>9, RowStepTypes DEF StateTypes

LEMMA AdoptTypes ==
  ASSUME StateTypes, TaskTypes, NEW s \in Senders, Adopt(s)
  PROVE  StateTypes' /\ TaskTypes'
<1> PICK t : t = task[s]
  OBVIOUS
<1> DEFINE more == IF Share(t.refund, t.found, t.at) = 0 THEN {} ELSE { Newest(t.found[t.at].made) }
           next == Doing("send", t.refund, t.at + 1, t.found, t.sent \cup more)
<1>1. /\ t.stage = "send" /\ t.at <= Last(t.refund)
      /\ Share(t.refund, t.found, t.at) = 0 \/ t.found[t.at].made # {}
      /\ task' = [ task EXCEPT ![s] = next ]
      /\ UNCHANGED << row, stripe, reversed, extra, payment, paidOut, queue, event >>
  BY DEF Adopt
<1>2. /\ t.refund \in Refunds /\ t.sent \subseteq Calls
      /\ t.at \in 1 .. Last(t.refund) + 1
      /\ \A i \in 1 .. Last(t.refund) : t.found[i] \in Entries
  BY <1>1 DEF TaskTypes, NoTask
<1>3. t.at \in 1 .. Last(t.refund) /\ t.at + 1 \in 1 .. Last(t.refund) + 1
  BY <1>1, <1>2, PlacesOf
<1>4. more \subseteq Calls
  <2>1. t.found[t.at].made \subseteq Calls
    BY <1>2, <1>3 DEF Entries
  <2> QED BY <1>1, <2>1, NewestIsIn
<1> HIDE DEF more
<1>5. /\ next.stage = "send" /\ next.refund = t.refund /\ next.found = t.found
      /\ next.at = t.at + 1 /\ next.sent \subseteq Calls
  BY <1>2, <1>4 DEF Doing
<1> HIDE DEF next
<1>6. TaskTypes'
  BY <1>1, <1>2, <1>3, <1>5, TaskStaysTyped
<1> QED BY <1>1, <1>6, RowStepTypes DEF StateTypes

LEMMA RefuseTypes ==
  ASSUME StateTypes, TaskTypes, NEW s \in Senders, Refuse(s)
  PROVE  StateTypes' /\ TaskTypes'
<1> DEFINE next == Doing("fail", task[s].refund, 0, << >>, {})
<1>1. /\ task[s].stage \in { "look", "send" } /\ task' = [ task EXCEPT ![s] = next ]
      /\ UNCHANGED << row, stripe, reversed, extra, payment, paidOut, queue, event >>
  BY DEF Refuse
<1>2. next.stage = "fail" /\ next.refund \in Refunds /\ next.sent = {}
  BY <1>1 DEF TaskTypes, NoTask, Doing
<1> HIDE DEF next
<1>3. TaskTypes'
  BY <1>1, <1>2, TaskStaysTyped
<1> QED BY <1>1, <1>3, RowStepTypes DEF StateTypes

LEMMA SaveFailureTypes ==
  ASSUME StateTypes, TaskTypes, NEW s \in Senders, SaveFailure(s)
  PROVE  StateTypes' /\ TaskTypes'
<1> DEFINE r == task[s].refund
           c == Marked(r, "FAILED")
<1>1. r \in Refunds
  BY DEF SaveFailure, TaskTypes, NoTask
<1>2. task' = [ task EXCEPT ![s] = NoTask ] /\ row' = [ row EXCEPT ![r] = c ]
  BY DEF SaveFailure
<1>3. c \in Contents
  BY <1>1, WritesTyped DEF StateTypes, Statuses
<1> HIDE DEF c
<1>4. row' \in [ Refunds -> Contents ]
  BY <1>1, <1>2, <1>3, RowStaysTyped DEF StateTypes
<1>5. TaskTypes'
  BY <1>2, TaskStaysTyped
<1> QED BY <1>4, <1>5, RowStepTypes DEF SaveFailure, StateTypes

LEMMA FinishTypes ==
  ASSUME StateTypes, TaskTypes, NEW s \in Senders, Finish(s)
  PROVE  StateTypes' /\ TaskTypes'
<1> DEFINE r == task[s].refund
           ids == { x.id : x \in task[s].sent }
<1>1. r \in Refunds /\ task[s].sent \subseteq Calls
  BY DEF Finish, TaskTypes, NoTask
<1>2. ids \in SUBSET (1 .. MaxStripe)
  BY <1>1 DEF Calls
<1>3. /\ task' = [ task EXCEPT ![s] = NoTask ]
      /\ \/ row' = [ row EXCEPT ![r] = Written("REFUNDED", ids, {}) ]
         \/ row' = [ row EXCEPT ![r] = Written("PROCESSING", ids, {}) ]
      /\ reversed' = reversed \cup { r } \/ reversed' = reversed
      /\ UNCHANGED << stripe, extra, payment, paidOut, queue, event >>
  BY DEF Finish
<1> HIDE DEF r, ids
<1>4. row' \in [ Refunds -> Contents ]
  <2>1. /\ Written("REFUNDED", ids, {}) \in Contents
        /\ Written("PROCESSING", ids, {}) \in Contents
    BY <1>1, <1>2, WritesTyped DEF StateTypes, Statuses
  <2> QED BY <1>1, <1>3, <2>1, RowStaysTyped DEF StateTypes
<1>5. TaskTypes'
  BY <1>3, TaskStaysTyped
<1> QED BY <1>1, <1>3, <1>4, <1>5, RowStepTypes DEF StateTypes

LEMMA CrashTypes ==
  ASSUME StateTypes, TaskTypes, NEW s \in Senders, Crash(s)
  PROVE  StateTypes' /\ TaskTypes'
<1>1. TaskTypes'
  BY TaskStaysTyped DEF Crash
<1>2. row' \in [ Refunds -> Contents ]
  <2>1. row' = [ r \in Refunds |-> [ row[r] EXCEPT !.readers = @ \ { s } ] ]
    BY DEF Crash
  <2>2. ASSUME NEW r \in Refunds PROVE [ row[r] EXCEPT !.readers = @ \ { s } ] \in Contents
    <3>1. row[r] \in Contents
      BY DEF StateTypes
    <3> QED BY <3>1 DEF Contents
  <2> QED BY <2>1, <2>2
<1>3. queue' \in [ Loops -> SUBSET Refunds ]
  BY DEF Crash, StateTypes
<1> QED BY <1>1, <1>2, <1>3 DEF Crash, StateTypes, EventTypes

\* One more refund at Stripe, or one in a new state.
LEMMA StripeStepTypes ==
  ASSUME StateTypes, TaskTypes', stripe' \subseteq Calls, IsFiniteSet(stripe'),
         { x.id : x \in stripe } \subseteq { x.id : x \in stripe' },
         UNCHANGED << row, reversed, extra, payment, paidOut, queue, event >>
  PROVE  StateTypes' /\ TaskTypes'
  BY DEF StateTypes, EventTypes

LEMMA CreateTypes ==
  ASSUME StateTypes, TaskTypes, NEW s \in Senders, Create(s)
  PROVE  StateTypes' /\ TaskTypes'
<1> PICK t : t = task[s]
  OBVIOUS
<1> DEFINE share == Share(t.refund, t.found, t.at)
<1>1. /\ t.stage = "send" /\ t.at <= Last(t.refund) /\ share > 0
      /\ Cardinality(stripe) < MaxStripe
  BY DEF Create
<1>2. PICK status \in { "succeeded", "pending" } :
        LET new == Made(t.found[t.at].intent, t.refund, share, status)
        IN  /\ stripe' = stripe \cup { new }
            /\ \/ task' = [ task EXCEPT ![s] =
                    Doing("send", t.refund, t.at + 1, t.found, t.sent \cup { new }) ]
               \/ task' = [ task EXCEPT ![s] = Doing("fail", t.refund, 0, << >>, {}) ]
  BY DEF Create
<1> DEFINE new == Made(t.found[t.at].intent, t.refund, share, status)
<1>3. /\ t.refund \in Refunds /\ t.sent \subseteq Calls
      /\ t.at \in 1 .. Last(t.refund) + 1
      /\ \A i \in 1 .. Last(t.refund) : t.found[i] \in Entries
  BY <1>1 DEF TaskTypes, NoTask
<1>4. t.at \in 1 .. Last(t.refund) /\ t.at + 1 \in 1 .. Last(t.refund) + 1
  BY <1>1, <1>3, PlacesOf
<1>5. new \in Calls
  <2>1. share \in Nat
    BY <1>3, <1>4, ShareIsNumber DEF Entries
  <2>2. share \in Nat \ { 0 } /\ t.found[t.at].intent \in Intents
    BY <1>1, <1>3, <1>4, <2>1 DEF Entries
  <2> HIDE DEF share
  <2> QED BY <1>1, <1>3, <2>2, MadeIsCall DEF StateTypes
<1>6. PICK next :
        /\ task' = [ task EXCEPT ![s] = next ]
        /\ \/ next = Doing("send", t.refund, t.at + 1, t.found, t.sent \cup { new })
           \/ next = Doing("fail", t.refund, 0, << >>, {})
  BY <1>2
<1>7. stripe' = stripe \cup { new }
  BY <1>2
<1> HIDE DEF new
<1>8. /\ next.stage \in { "send", "fail" } /\ next.refund = t.refund /\ next.sent \subseteq Calls
      /\ next.stage = "send" => next.at = t.at + 1 /\ next.found = t.found
  BY <1>3, <1>5, <1>6 DEF Doing
<1>9. TaskTypes'
  BY <1>3, <1>4, <1>6, <1>8, TaskStaysTyped
<1>10. stripe' \subseteq Calls /\ IsFiniteSet(stripe')
  BY <1>5, <1>7, FS_AddElement DEF StateTypes
<1> QED BY <1>7, <1>9, <1>10, StripeStepTypes DEF Create

LEMMA SettleTypes ==
  ASSUME StateTypes, TaskTypes, NEW x \in stripe, Settle(x)
  PROVE  StateTypes' /\ TaskTypes'
<1>1. PICK status \in { "succeeded", "dead" } :
        stripe' = (stripe \ { x }) \cup { [ x EXCEPT !.status = status ] }
  BY DEF Settle
<1> DEFINE y == [ x EXCEPT !.status = status ]
<1>2. y \in Calls /\ y.id = x.id
  BY DEF StateTypes, Calls
<1>3. stripe' = (stripe \ { x }) \cup { y }
  BY <1>1
<1> HIDE DEF y
<1>4. stripe' \subseteq Calls
  BY <1>2, <1>3 DEF StateTypes
<1>5. IsFiniteSet(stripe')
  <2>1. IsFiniteSet(stripe \ { x })
    BY FS_RemoveElement DEF StateTypes
  <2> QED BY <1>3, <2>1, FS_AddElement
<1>6. { z.id : z \in stripe } \subseteq { z.id : z \in stripe' }
  BY <1>2, <1>3
<1>7. TaskTypes'
  BY DEF Settle, TaskTypes
<1> QED BY <1>4, <1>5, <1>6, <1>7, StripeStepTypes DEF Settle

LEMMA DashboardTypes ==
  ASSUME StateTypes, TaskTypes, NEW intent \in Intents, Dashboard(intent)
  PROVE  StateTypes' /\ TaskTypes'
<1>1. PICK cents \in 1 .. Refundable(intent) :
        stripe' = stripe \cup { Made(intent, 0, cents, "succeeded") }
  BY DEF Dashboard
<1> DEFINE new == Made(intent, 0, cents, "succeeded")
<1>2. new \in Calls
  <2>1. Refundable(intent) \in Int
    BY RefundableIsNumber DEF StateTypes
  <2>2. cents \in Nat \ { 0 }
    BY <2>1
  <2> QED BY <2>2, MadeIsCall DEF Dashboard, StateTypes
<1> HIDE DEF new
<1>3. stripe' = stripe \cup { new }
  BY <1>1 DEF new
<1>4. stripe' \subseteq Calls /\ IsFiniteSet(stripe')
  BY <1>2, <1>3, FS_AddElement DEF StateTypes
<1>5. TaskTypes'
  BY DEF Dashboard, TaskTypes
<1> QED BY <1>3, <1>4, <1>5, StripeStepTypes DEF Dashboard

\* The worker reads, writes rows and the ledger, and lets go.
LEMMA ReadTypes ==
  ASSUME StateTypes, TaskTypes, NEW x \in stripe, ReadUpdate(x) \/ ReadCharge(x)
  PROVE  StateTypes' /\ TaskTypes'
<1>1. x \in Calls
  BY DEF StateTypes
<1>2. EventTypes' /\ event'.about = x
  <2>1. CASE ReadUpdate(x)
    BY <1>1, <2>1 DEF ReadUpdate, EventTypes
  <2>2. CASE ReadCharge(x)
    <3>1. x.total > Recorded /\ event' = [ kind |-> "charge", about |-> x, cents |-> x.total - Recorded ]
      BY <2>2 DEF ReadCharge
    <3>2. Recorded \in Nat
      BY RecordedIsNumber DEF StateTypes
    <3>3. x.total \in Nat
      BY <1>1 DEF Calls
    <3>4. x.total - Recorded \in Nat \ { 0 }
      BY <3>1, <3>2, <3>3
    <3> QED BY <1>1, <3>1, <3>4 DEF EventTypes
  <2> QED BY <2>1, <2>2
<1>3. TaskTypes'
  BY DEF ReadUpdate, ReadCharge, TaskTypes
<1>4. UNCHANGED << row, stripe, reversed, extra, payment, paidOut, queue >>
  BY DEF ReadUpdate, ReadCharge
<1> QED BY <1>2, <1>3, <1>4 DEF StateTypes

LEMMA WriteUpdateTypes ==
  ASSUME StateTypes, TaskTypes, WriteUpdate
  PROVE  StateTypes' /\ TaskTypes'
<1> PICK x : x = event.about
  OBVIOUS
<1>1. x \in Calls /\ x.refund \in Refunds
  BY DEF WriteUpdate, StateTypes, EventTypes, NoEvent
<1>2. /\ Marked(x.refund, "FAILED") \in Contents
      /\ Written("REFUNDED", { x.id }, {}) \in Contents
  <2>1. { x.id } \in SUBSET (1 .. MaxStripe)
    BY <1>1 DEF Calls
  <2> QED BY <1>1, <2>1, WritesTyped DEF StateTypes, Statuses
<1>3. row' \in [ Refunds -> Contents ]
  <2>1. \/ row' = [ row EXCEPT ![x.refund] = Marked(x.refund, "FAILED") ]
        \/ row' = [ row EXCEPT ![x.refund] = Written("REFUNDED", { x.id }, {}) ]
    BY DEF WriteUpdate
  <2> QED BY <1>1, <1>2, <2>1, RowStaysTyped DEF StateTypes
<1>4. reversed' \subseteq Refunds
  BY <1>1 DEF WriteUpdate, StateTypes
<1>5. TaskTypes'
  BY DEF WriteUpdate, TaskTypes
<1> QED BY <1>3, <1>4, <1>5 DEF WriteUpdate, StateTypes, EventTypes

LEMMA WriteChargeTypes ==
  ASSUME StateTypes, TaskTypes, WriteCharge
  PROVE  StateTypes' /\ TaskTypes'
<1> PICK x : x = event.about
  OBVIOUS
<1> DEFINE charge == << x.intent, x.total >>
           entry == [ charge |-> charge, cents |-> event.cents ]
<1>1. x \in Calls /\ event.cents \in Nat \ { 0 }
  BY DEF WriteCharge, StateTypes, EventTypes, NoEvent
<1>2. charge \in Intents \X Nat
  BY <1>1 DEF Calls
<1>3. /\ payment' \in { "PAID", "FAILED" } /\ event' = NoEvent
      /\ \/ UNCHANGED << row, reversed, extra >>
         \/ /\ Waiting # {}
            /\ row' = [ row EXCEPT ![Min(Waiting)] = Written("REFUNDED", {}, { charge }) ]
            /\ reversed' = reversed \cup { Min(Waiting) }
            /\ UNCHANGED extra
         \/ /\ extra' = extra \cup { entry }
            /\ UNCHANGED << row, reversed >>
      /\ UNCHANGED << stripe, paidOut, queue, task >>
  BY DEF WriteCharge, StateTypes
<1>4. /\ row' \in [ Refunds -> Contents ] /\ reversed' \subseteq Refunds
      /\ IsFiniteSet(extra')
      /\ \A y \in extra' : y.charge \in Intents \X Nat /\ y.cents \in Nat \ { 0 }
  <2>1. CASE UNCHANGED << row, reversed, extra >>
    BY <2>1 DEF StateTypes
  <2>2. CASE /\ Waiting # {}
             /\ row' = [ row EXCEPT ![Min(Waiting)] = Written("REFUNDED", {}, { charge }) ]
             /\ reversed' = reversed \cup { Min(Waiting) }
             /\ UNCHANGED extra
    <3>1. Min(Waiting) \in Refunds
      BY <2>2, OldestWaits DEF Waiting
    <3>2. Written("REFUNDED", {}, { charge }) \in Contents
      <4> HIDE DEF charge
      <4> QED BY <1>2, <3>1, WritesTyped DEF StateTypes, Statuses
    <3>3. row' \in [ Refunds -> Contents ]
      BY <2>2, <3>1, <3>2, RowStaysTyped DEF StateTypes
    <3> QED BY <2>2, <3>1, <3>3 DEF StateTypes
  <2>3. CASE extra' = extra \cup { entry } /\ UNCHANGED << row, reversed >>
    <3>1. entry.charge \in Intents \X Nat /\ entry.cents \in Nat \ { 0 }
      BY <1>1, <1>2
    <3> HIDE DEF entry
    <3>2. IsFiniteSet(extra')
      BY <2>3, FS_AddElement DEF StateTypes
    <3>3. \A y \in extra' : y.charge \in Intents \X Nat /\ y.cents \in Nat \ { 0 }
      BY <2>3, <3>1 DEF StateTypes
    <3> QED BY <2>3, <3>2, <3>3 DEF StateTypes
  <2> QED BY <1>3, <2>1, <2>2, <2>3
<1>5. TaskTypes'
  BY <1>3 DEF TaskTypes
<1> QED BY <1>3, <1>4, <1>5 DEF StateTypes, EventTypes

LEMMA AgeTypes ==
  ASSUME StateTypes, TaskTypes, NEW r \in Refunds, Age(r)
  PROVE  StateTypes' /\ TaskTypes'
<1> DEFINE c == [ row[r] EXCEPT !.age = IF @ = "fresh" THEN "minutes" ELSE "hour" ]
<1>1. c \in Contents
  BY DEF StateTypes, Contents, Ages
<1>2. row' = [ row EXCEPT ![r] = c ]
  BY DEF Age
<1> HIDE DEF c
<1>3. row' \in [ Refunds -> Contents ]
  BY <1>1, <1>2, RowStaysTyped DEF StateTypes
<1>4. TaskTypes'
  BY DEF Age, TaskTypes
<1> QED BY <1>3, <1>4 DEF Age, StateTypes, EventTypes

LEMMA ListTypes ==
  ASSUME StateTypes, TaskTypes, List \/ PayOut \/ DropEvent \/ UNCHANGED vars
  PROVE  StateTypes' /\ TaskTypes'
<1>1. CASE List
  <2> DEFINE old == { r \in Refunds : row[r].status = "PROCESSING" /\ row[r].age = "hour" }
  <2>1. queue' = [ queue EXCEPT !["job"] = old ] /\ old \in SUBSET Refunds
    BY <1>1 DEF List
  <2> HIDE DEF old
  <2>2. queue' \in [ Loops -> SUBSET Refunds ]
    BY <2>1 DEF StateTypes, Loops
  <2> QED BY <1>1, <2>2 DEF List, StateTypes, EventTypes, TaskTypes
<1>2. CASE PayOut \/ DropEvent
  BY <1>2 DEF PayOut, DropEvent, StateTypes, EventTypes, TaskTypes
<1>3. CASE UNCHANGED vars
  BY <1>3 DEF vars, StateTypes, EventTypes, TaskTypes
<1> QED BY <1>1, <1>2, <1>3

LEMMA TypesStay == TypeInv /\ [Next]_vars => TypeInv'
<1> SUFFICES ASSUME StateTypes, TaskTypes, [Next]_vars PROVE StateTypes' /\ TaskTypes'
  <2>1. StateTypes' /\ TaskTypes' => TypeInv'
    BY TypeInvParts, PTL
  <2> QED BY <2>1, TypeInvParts
<1>1. ASSUME NEW s \in Senders,
             \/ \E r \in Refunds : Pick(s, r)
             \/ PassOver(s) \/ Claim(s) \/ Look(s) \/ Adopt(s) \/ Create(s)
             \/ Refuse(s) \/ SaveFailure(s) \/ Finish(s) \/ Crash(s)
      PROVE  StateTypes' /\ TaskTypes'
  BY <1>1, PickTypes, PassTypes, ClaimTypes, LookTypes, AdoptTypes, CreateTypes,
     RefuseTypes, SaveFailureTypes, FinishTypes, CrashTypes
<1>2. CASE List \/ PayOut \/ DropEvent \/ UNCHANGED vars
  BY <1>2, ListTypes
<1>3. ASSUME NEW x \in stripe, ReadUpdate(x) \/ ReadCharge(x) \/ Settle(x)
      PROVE  StateTypes' /\ TaskTypes'
  BY <1>3, ReadTypes, SettleTypes
<1>4. CASE WriteUpdate \/ WriteCharge
  BY <1>4, WriteUpdateTypes, WriteChargeTypes
<1>5. CASE \E intent \in Intents : Dashboard(intent)
  BY <1>5, DashboardTypes
<1>6. CASE \E r \in Refunds : Age(r)
  BY <1>6, AgeTypes
<1> QED BY <1>1, <1>2, <1>3, <1>4, <1>5, <1>6 DEF Next

\* The types hold whatever goes wrong; in particular no sender asks Stripe for
\* nothing, none works on a refund that is not on record, and no event is at
\* hand for a refund Stripe has not made.  Of processStripeRefund, the job and
\* the refund events of the webhook.
THEOREM RefundTypesHold == Spec => []TypeOK
<1>1. TypeInv => TypeOK
  BY DEF TypeInv
<1> QED BY <1>1, InitTypes, TypesStay, PTL DEF Spec

-----------------------------------------------------------------------------
(* Never more than is owed                                                 *)

FirstMade(r) == MadeFor(r, IntentsOf(r)[1])
SecondMade(r) == MadeFor(r, IntentsOf(r)[2])

\* No refund is larger than the record's amount, nor are two together; and the
\* second charge is used only when the first has given all it has, or has
\* given its share.
Within(r) ==
  /\ \A x \in stripe : x.refund = r =>
       x.cents <= Amount[r] /\ \E i \in 1 .. Last(r) : x.intent = IntentsOf(r)[i]
  /\ Last(r) = 2 =>
       /\ \A x \in FirstMade(r), y \in SecondMade(r) : x.cents + y.cents <= Amount[r]
       /\ SecondMade(r) # {} /\ FirstMade(r) = {} => Refundable(IntentsOf(r)[1]) <= 0

\* No charge gives back more than it captured, and it can only ever give less
\* than a sender has found.
Drawn ==
  /\ \A i \in Intents : Refundable(i) >= 0
  /\ \A x \in stripe : x.status = "pending" => x.refund \in Refunds

\* What a sender has found of one charge is right, or too much.
KnowsCentsOf(r, found, i) ==
  /\ found[i].cents >= 0
  /\ found[i].made = {} => Refundable(IntentsOf(r)[i]) <= found[i].cents
  /\ found[i].made # {} =>
       /\ MadeFor(r, IntentsOf(r)[i]) # {}
       /\ \A x \in MadeFor(r, IntentsOf(r)[i]) : x.cents = found[i].cents

\* At the second charge, the first has given no more than was found there, or
\* has nothing to give.
PastFirst(r, found) ==
  /\ found[1].cents >= 0
  /\ \A x \in FirstMade(r) : x.cents <= found[1].cents
  /\ FirstMade(r) = {} => Refundable(IntentsOf(r)[1]) <= 0

Reckons(s) ==
  LET t == task[s]
      r == t.refund
  IN  /\ t.stage = "look" => \A i \in 1 .. t.at : KnowsCentsOf(r, t.found, i)
      /\ t.stage = "send" => \A i \in t.at .. Last(r) : KnowsCentsOf(r, t.found, i)
      /\ t.stage = "send" /\ t.at = 2 /\ Last(r) = 2 => PastFirst(r, t.found)

OwedInv == Drawn /\ (\A r \in Refunds : Within(r)) /\ \A s \in Senders : Reckons(s)

LEMMA InitOwed == Init => OwedInv
<1> SUFFICES ASSUME Init PROVE OwedInv
  OBVIOUS
<1>1. \A i \in Intents : Refundable(i) >= 0
  <2> TAKE i \in Intents
  <2>1. On(i) = {}
    BY DEF Init, On
  <2>2. Cents(On(i)) = 0 /\ Captured[i] \in Nat
    BY <2>1, SumOfNoCents, RefundsAssumption
  <2> QED BY <2>2 DEF Refundable
<1>2. Drawn
  BY <1>1 DEF Init, Drawn
<1>3. \A r \in Refunds : Within(r)
  BY DEF Init, Within, FirstMade, SecondMade, MadeFor, For, On
<1>4. \A s \in Senders : Reckons(s)
  BY DEF Init, Reckons, NoTask
<1> QED BY <1>2, <1>3, <1>4 DEF OwedInv

\* While nothing is made at Stripe, what was right stays right.
LEMMA MoneyStays ==
  ASSUME stripe' = stripe
  PROVE  /\ \A i : Refundable(i)' = Refundable(i)
         /\ \A r, i : MadeFor(r, i)' = MadeFor(r, i)
         /\ Drawn => Drawn'
         /\ \A r : Within(r) => Within(r)'
         /\ \A r, found, i : KnowsCentsOf(r, found, i) => KnowsCentsOf(r, found, i)'
         /\ \A r, found : PastFirst(r, found) => PastFirst(r, found)'
  BY DEF Drawn, Within, KnowsCentsOf, PastFirst, FirstMade, SecondMade, MadeFor, For, On,
         Refundable

LEMMA OneReckons ==
  ASSUME OwedInv, stripe' = stripe, NEW s \in Senders, Reckons(s)',
         \A t \in Senders \ { s } : task'[t] = task[t]
  PROVE  OwedInv'
<1>1. Drawn' /\ \A r \in Refunds : Within(r)'
  BY MoneyStays DEF OwedInv
<1>2. \A t \in Senders \ { s } : Reckons(t)'
  <2> TAKE t \in Senders \ { s }
  <2>1. Reckons(t) /\ task'[t] = task[t]
    BY DEF OwedInv
  <2> QED BY <2>1, MoneyStays DEF Reckons
<1>3. \A t \in Senders : Reckons(t)'
  BY <1>2
<1> QED BY <1>1, <1>3 DEF OwedInv

\* Who neither looks nor sends reckons with nothing.
LEMMA IdleReckons ==
  ASSUME NEW s \in Senders, task'[s].stage \notin { "look", "send" }
  PROVE  Reckons(s)'
  BY DEF Reckons

LEMMA OthersOwed ==
  ASSUME OwedInv, UNCHANGED << stripe, task >>
  PROVE  OwedInv'
<1>1. Drawn' /\ \A r \in Refunds : Within(r)'
  BY MoneyStays DEF OwedInv
<1>2. \A t \in Senders : Reckons(t)'
  <2> TAKE t \in Senders
  <2>1. Reckons(t) /\ task'[t] = task[t]
    BY DEF OwedInv
  <2> QED BY <2>1, MoneyStays DEF Reckons
<1> QED BY <1>1, <1>2 DEF OwedInv

LEMMA IdleOwed ==
  ASSUME SendInv, OwedInv, NEW s \in Senders,
         \/ \E r \in Refunds : Pick(s, r)
         \/ Claim(s) \/ Refuse(s) \/ SaveFailure(s) \/ Finish(s) \/ Crash(s)
  PROVE  OwedInv'
<1>1. /\ stripe' = stripe
      /\ \/ \E r : task' = [ task EXCEPT ![s] = Doing("claim", r, 0, << >>, {}) ]
         \/ \E r : task' = [ task EXCEPT ![s] = Doing("look", r, 0, << >>, {}) ]
         \/ \E r : task' = [ task EXCEPT ![s] = Doing("fail", r, 0, << >>, {}) ]
         \/ task' = [ task EXCEPT ![s] = NoTask ]
  BY DEF Pick, Claim, Refuse, SaveFailure, Finish, Crash
<1>2. /\ \A t \in Senders \ { s } : task'[t] = task[t]
      /\ \/ \E r : task'[s] = Doing("claim", r, 0, << >>, {})
         \/ \E r : task'[s] = Doing("look", r, 0, << >>, {})
         \/ \E r : task'[s] = Doing("fail", r, 0, << >>, {})
         \/ task'[s] = NoTask
  BY <1>1 DEF SendInv, Shape
<1>3. \/ task'[s].stage \notin { "look", "send" }
      \/ task'[s].stage = "look" /\ task'[s].at = 0
  <2>1. \A r : /\ Doing("claim", r, 0, << >>, {}).stage = "claim"
               /\ Doing("fail", r, 0, << >>, {}).stage = "fail"
               /\ Doing("look", r, 0, << >>, {}).stage = "look"
               /\ Doing("look", r, 0, << >>, {}).at = 0
    BY DEF Doing
  <2>2. NoTask.stage = "idle"
    BY DEF NoTask
  <2> QED BY <1>2, <2>1, <2>2
<1>4. Reckons(s)'
  BY <1>3, IdleReckons DEF Reckons
<1> QED BY <1>1, <1>2, <1>4, OneReckons

LEMMA LookOwed ==
  ASSUME SendInv, OwedInv, TypeInv, NEW s \in Senders, Look(s)
  PROVE  OwedInv'
<1> PICK r \in Refunds : r = task[s].refund
  BY DEF Look, SendInv, Shape, NoTask
<1> DEFINE at     == task[s].at + 1
           intent == IntentsOf(r)[at]
           made   == MadeFor(r, intent)
           entry  == [ intent |-> intent, made |-> made,
                       cents |-> IF made = {} THEN Refundable(intent) ELSE Newest(made).cents ]
           found  == [ i \in 1 .. at |-> IF i < at THEN task[s].found[i] ELSE entry ]
           next   == IF at < Last(r) THEN Doing("look", r, at, found, {})
                     ELSE Doing(IF Covers(r, found) THEN "send" ELSE "fail", r, 1, found, {})
<1>1. /\ task[s].stage = "look" /\ task' = [ task EXCEPT ![s] = next ]
      /\ stripe' = stripe
  BY DEF Look
<1>2. /\ task[s].at \in 0 .. Last(r) - 1
      /\ \A i \in 1 .. task[s].at : KnowsCentsOf(r, task[s].found, i)
  BY <1>1 DEF SendInv, Informed, OwedInv, Reckons
<1>3. at \in 1 .. Last(r) /\ intent \in Intents
  BY <1>2, PlacesOf
<1>4. /\ entry.cents >= 0
      /\ entry.made = {} => Refundable(intent) <= entry.cents
      /\ entry.made # {} => made # {} /\ \A x \in made : x.cents = entry.cents
  <2>1. stripe \subseteq Calls /\ IsFiniteSet(stripe)
    BY DEF TypeInv, TypeOK
  <2>2. CASE made = {}
    <3>1. Refundable(intent) \in Int /\ Refundable(intent) >= 0
      BY <1>3, <2>1, RefundableIsNumber DEF OwedInv, Drawn
    <3>2. entry.cents = Refundable(intent) /\ entry.made = {}
      BY <2>2
    <3> QED BY <3>1, <3>2
  <2>3. CASE made # {}
    <3>1. made \subseteq Calls /\ \A x, y \in made : x = y
      <4>1. \A x \in made : x \in stripe /\ x.refund = r /\ x.intent = intent /\ x.status # "dead"
        BY DEF MadeFor, For, On
      <4>2. r # 0
        BY RefundsAssumption
      <4> HIDE DEF made
      <4> QED BY <2>1, <4>1, <4>2 DEF SendInv, OneRefundPerCharge
    <3>2. Newest(made) \in made
      <4> HIDE DEF made
      <4> QED BY <2>3, <3>1, NewestIsIn
    <3>3. entry.cents = Newest(made).cents /\ entry.made = made
      BY <2>3
    <3>4. Newest(made).cents \in Nat
      BY <3>1, <3>2 DEF Calls
    <3> HIDE DEF entry, made
    <3>5. \A x \in made : x.cents = entry.cents
      BY <3>1, <3>2, <3>3
    <3>6. entry.cents >= 0
      BY <3>3, <3>4
    <3> QED BY <2>3, <3>3, <3>5, <3>6
  <2> QED BY <2>2, <2>3
<1>5. \A i \in 1 .. at : KnowsCentsOf(r, found, i)
  <2> TAKE i \in 1 .. at
  <2>1. CASE i < at
    <3>1. i \in 1 .. task[s].at /\ found[i] = task[s].found[i]
      BY <1>2, <2>1
    <3> QED BY <1>2, <3>1 DEF KnowsCentsOf
  <2>2. CASE i = at
    <3>1. found[i] = entry /\ IntentsOf(r)[i] = intent
      BY <2>2
    <3> HIDE DEF entry, intent, found
    <3> QED BY <1>4, <3>1 DEF KnowsCentsOf
  <2> QED BY <1>3, <2>1, <2>2, PlacesOf
<1> HIDE DEF found
<1>6. /\ next.stage \in { "look", "send", "fail" } /\ next.refund = r
      /\ next.stage = "look" => at < Last(r) /\ next.at = at /\ next.found = found
      /\ next.stage = "send" => ~(at < Last(r)) /\ next.at = 1 /\ next.found = found
  BY DEF Doing
<1> HIDE DEF next
<1>7. task'[s] = next /\ \A t \in Senders \ { s } : task'[t] = task[t]
  BY <1>1 DEF SendInv, Shape
<1> PICK seen : seen = found
  OBVIOUS
<1>8. \A i \in 1 .. at : KnowsCentsOf(r, seen, i)'
  <2>1. \A i \in 1 .. at : KnowsCentsOf(r, seen, i)
    BY <1>5
  <2> HIDE DEF at
  <2> QED BY <1>1, <2>1, MoneyStays
<1>9. next.stage = "send" => 1 .. Last(r) \subseteq 1 .. at
  BY <1>3, <1>6, PlacesOf
<1> HIDE DEF at
<1>10. Reckons(s)'
  <2>1. /\ task'[s].stage \in { "look", "send", "fail" } /\ task'[s].refund = r
        /\ task'[s].stage = "look" => task'[s].at = at /\ task'[s].found = seen
        /\ task'[s].stage = "send" => /\ task'[s].at = 1 /\ task'[s].found = seen
                                     /\ 1 .. Last(r) \subseteq 1 .. at
    BY <1>6, <1>7, <1>9
  <2> QED BY <1>8, <2>1 DEF Reckons
<1> QED BY <1>1, <1>7, <1>10, OneReckons

\* A sender that goes on to the second charge has had what the first can give.
LEMMA PastTheFirst ==
  ASSUME NEW r \in Refunds, NEW found, found[1].cents \in Int,
         KnowsCentsOf(r, found, 1),
         Share(r, found, 1) = 0 \/ found[1].made # {},
         found[1].made = {} => FirstMade(r) = {},
         Refundable(IntentsOf(r)[1]) \in Int
  PROVE  PastFirst(r, found)
<1>1. CASE found[1].made # {}
  <2>1. /\ found[1].cents >= 0 /\ FirstMade(r) # {}
        /\ \A x \in FirstMade(r) : x.cents = found[1].cents
    BY <1>1 DEF KnowsCentsOf, FirstMade
  <2> QED BY <2>1 DEF PastFirst
<1>2. CASE found[1].made = {}
  <2>1. Gives(Share(r, found, 1), found[1].cents, Amount[r]) /\ Share(r, found, 1) = 0
    BY <1>2, FirstShare
  <2>2. Amount[r] \in Nat \ { 0 }
    BY RefundsAssumption
  <2>3. found[1].cents <= 0
    BY <2>1, <2>2 DEF Gives
  <2>4. Refundable(IntentsOf(r)[1]) <= 0 /\ found[1].cents >= 0
    BY <1>2, <2>3 DEF KnowsCentsOf
  <2> QED BY <1>2, <2>4 DEF PastFirst
<1> QED BY <1>1, <1>2

LEMMA AdoptOwed ==
  ASSUME SendInv, OwedInv, TypeInv, NEW s \in Senders, Adopt(s)
  PROVE  OwedInv'
<1> PICK t : t = task[s]
  OBVIOUS
<1> PICK r : r = t.refund
  OBVIOUS
<1>1. /\ t.stage = "send" /\ t.at <= Last(r)
      /\ Share(r, t.found, t.at) = 0 \/ t.found[t.at].made # {}
      /\ \E sent : task' = [ task EXCEPT ![s] = Doing("send", r, t.at + 1, t.found, sent) ]
      /\ stripe' = stripe
  BY DEF Adopt
<1>2. /\ r \in Refunds /\ t.at \in 1 .. Last(r) + 1
      /\ \A i \in 1 .. Last(r) : t.found[i] \in Entries
  BY <1>1 DEF TypeInv, TaskTypes, NoTask
<1>3. Last(r) \in { 1, 2 } /\ t.at \in 1 .. Last(r)
  BY <1>1, <1>2, PlacesOf
<1>4. \A i \in t.at .. Last(r) : KnowsCentsOf(r, t.found, i)
  BY <1>1 DEF OwedInv, Reckons
<1>5. t.at = 1 => PastFirst(r, t.found)
  <2> HAVE t.at = 1
  <2>1. 1 \in 1 .. Last(r) /\ 1 \in t.at .. Last(r)
    BY <1>3
  <2>2. t.found[1].cents \in Int
    BY <1>2, <2>1 DEF Entries
  <2>3. t.found[1].made = {} => FirstMade(r) = {}
    BY <1>1, <2>1 DEF SendInv, Informed, FirstMade
  <2>4. Refundable(IntentsOf(r)[1]) \in Int
    BY <1>2, <2>1, PlacesOf, RefundableIsNumber DEF TypeInv, TypeOK
  <2> QED BY <1>1, <1>2, <1>4, <2>1, <2>2, <2>3, <2>4, PastTheFirst
<1>6. PICK sent : task'[s] = Doing("send", r, t.at + 1, t.found, sent)
  BY <1>1 DEF SendInv, Shape
<1>7. \A u \in Senders \ { s } : task'[u] = task[u]
  BY <1>1 DEF SendInv, Shape
<1>8. /\ task'[s].stage = "send" /\ task'[s].refund = r /\ task'[s].found = t.found
      /\ task'[s].at = t.at + 1
  BY <1>6 DEF Doing
<1>9. /\ \A i \in t.at + 1 .. Last(r) : KnowsCentsOf(r, t.found, i)'
      /\ t.at = 1 => PastFirst(r, t.found)'
  <2>1. t.at + 1 .. Last(r) \subseteq t.at .. Last(r)
    BY <1>3
  <2> QED BY <1>1, <1>4, <1>5, <2>1, MoneyStays
<1>10. Reckons(s)'
  <2>1. t.at + 1 = 2 => t.at = 1
    BY <1>3
  <2> QED BY <1>8, <1>9, <2>1 DEF Reckons
<1> QED BY <1>1, <1>7, <1>10, OneReckons

-----------------------------------------------------------------------------
(* Steps that make or settle refunds at Stripe                             *)

Lowers(new, old) == new <= old /\ (old >= 0 => new >= 0)

\* A refund no larger than what its charge can give back lowers that, and no
\* more.
LEMMA OneMoreOn ==
  ASSUME stripe \subseteq Calls, IsFiniteSet(stripe), NEW new \in Calls, new.status # "dead",
         new.cents <= Refundable(new.intent), stripe' = stripe \cup { new }
  PROVE  \A i \in Intents : Lowers(Refundable(i)', Refundable(i))
<1> TAKE i \in Intents
<1> PICK on : on = On(i)
  OBVIOUS
<1>1. Cents(on) \in Nat /\ Captured[i] \in Nat /\ Refundable(i) = Captured[i] - Cents(on)
  BY RefundableIsNumber, RefundsAssumption DEF Refundable
<1>2. On(i)' = IF new.intent = i THEN on \cup { new } ELSE on
  BY DEF On
<1>3. IsFiniteSet(on) /\ on \subseteq stripe
  BY FS_Subset DEF On
<1>4. Refundable(i)' = Captured[i] - Cents(On(i)')
  BY DEF Refundable
<1>5. CASE new.intent # i \/ new \in on
  <2>1. On(i)' = on
    BY <1>2, <1>5
  <2> QED BY <1>1, <1>4, <2>1 DEF Lowers
<1>6. CASE new.intent = i /\ new \notin on
  <2>1. \A y \in on \cup { new } : y.cents \in Nat
    BY <1>3 DEF Calls
  <2>2. Cents(on \cup { new }) = Cents(on) + new.cents
    BY <1>3, <1>6, <2>1, OneMoreRefund
  <2>3. new.cents \in Nat /\ new.cents <= Refundable(i)
    BY <1>6 DEF Calls
  <2>4. Refundable(i)' = Captured[i] - (Cents(on) + new.cents)
    BY <1>2, <1>4, <1>6, <2>2
  <2> QED BY <1>1, <2>3, <2>4 DEF Lowers
<1> QED BY <1>5, <1>6

\* What a lowered charge leaves true for a record nothing was made for.
LEMMA KnowledgeStays ==
  ASSUME NEW r \in Refunds, \A i \in Intents : Refundable(i) \in Int /\ Refundable(i)' \in Int,
         \A i \in Intents : Lowers(Refundable(i)', Refundable(i)),
         NEW i \in 1 .. Last(r), NEW found, found[i].cents \in Int,
         MadeFor(r, IntentsOf(r)[i])' = MadeFor(r, IntentsOf(r)[i]),
         KnowsCentsOf(r, found, i)
  PROVE  KnowsCentsOf(r, found, i)'
<1> DEFINE intent == IntentsOf(r)[i]
<1>1. intent \in Intents
  BY PlacesOf
<1>2. Refundable(intent) \in Int /\ Refundable(intent)' \in Int
      /\ Refundable(intent)' <= Refundable(intent)
  BY <1>1 DEF Lowers
<1> QED BY <1>2 DEF KnowsCentsOf

LEMMA PastStays ==
  ASSUME NEW r \in Refunds, \A i \in Intents : Refundable(i) \in Int /\ Refundable(i)' \in Int,
         \A i \in Intents : Lowers(Refundable(i)', Refundable(i)), NEW found,
         FirstMade(r)' = FirstMade(r), PastFirst(r, found)
  PROVE  PastFirst(r, found)'
<1>1. IntentsOf(r)[1] \in Intents
  BY PlacesOf
<1>2. /\ Refundable(IntentsOf(r)[1]) \in Int /\ Refundable(IntentsOf(r)[1])' \in Int
      /\ Refundable(IntentsOf(r)[1])' <= Refundable(IntentsOf(r)[1])
  BY <1>1 DEF Lowers
<1> QED BY <1>2 DEF PastFirst

LEMMA WithinStays ==
  ASSUME NEW r \in Refunds, \A i \in Intents : Refundable(i) \in Int /\ Refundable(i)' \in Int,
         \A i \in Intents : Lowers(Refundable(i)', Refundable(i)),
         \A i : MadeFor(r, i)' = MadeFor(r, i),
         \A x \in stripe' : x.refund = r => x \in stripe,
         Within(r)
  PROVE  Within(r)'
<1>1. IntentsOf(r)[1] \in Intents
  BY PlacesOf
<1>2. /\ Refundable(IntentsOf(r)[1]) \in Int /\ Refundable(IntentsOf(r)[1])' \in Int
      /\ Refundable(IntentsOf(r)[1])' <= Refundable(IntentsOf(r)[1])
  BY <1>1 DEF Lowers
<1>3. FirstMade(r)' = FirstMade(r) /\ SecondMade(r)' = SecondMade(r)
  BY DEF FirstMade, SecondMade
<1> QED BY <1>2, <1>3 DEF Within

LEMMA RefundablesAreNumbers == TypeInv => \A i \in Intents : Refundable(i) \in Int
  BY RefundableIsNumber DEF TypeInv, TypeOK

LEMMA NumbersBeforeAndAfter ==
  TypeInv /\ TypeInv' => \A i \in Intents : Refundable(i) \in Int /\ Refundable(i)' \in Int
<1>1. TypeInv' => (\A i \in Intents : Refundable(i) \in Int)'
  BY RefundablesAreNumbers, PTL
<1> QED BY <1>1, RefundablesAreNumbers

\* A sender at work on a record nothing was made for.
LEMMA OthersReckon ==
  ASSUME TypeInv, TypeInv', NEW t \in Senders, task'[t] = task[t], Reckons(t),
         \A i \in Intents : Lowers(Refundable(i)', Refundable(i)),
         task[t].stage \in { "look", "send" } =>
           \A i : MadeFor(task[t].refund, i)' = MadeFor(task[t].refund, i)
  PROVE  Reckons(t)'
<1>1. \A i \in Intents : Refundable(i) \in Int /\ Refundable(i)' \in Int
  BY NumbersBeforeAndAfter
<1> SUFFICES ASSUME task[t].stage \in { "look", "send" } PROVE Reckons(t)'
  BY DEF Reckons
<1> PICK u : u = task[t]
  OBVIOUS
<1> PICK r : r = u.refund
  OBVIOUS
<1>2. r \in Refunds /\ Last(r) \in { 1, 2 }
  BY PlacesOf DEF TypeInv, TaskTypes, NoTask
<1>3. \A i : MadeFor(r, i)' = MadeFor(r, i)
  OBVIOUS
<1>4. CASE u.stage = "look"
  <2>1. u.at \in 0 .. Last(r) - 1 /\ \A i \in 1 .. u.at : u.found[i] \in Entries
    BY <1>4 DEF TypeInv, TaskTypes, NoTask
  <2>2. \A i \in 1 .. u.at : i \in 1 .. Last(r) /\ u.found[i].cents \in Int
    BY <1>2, <2>1 DEF Entries
  <2>3. \A i \in 1 .. u.at : KnowsCentsOf(r, u.found, i)
    BY <1>4 DEF Reckons
  <2>4. \A i \in 1 .. u.at : KnowsCentsOf(r, u.found, i)'
    BY <1>1, <1>2, <1>3, <2>2, <2>3, KnowledgeStays
  <2> QED BY <1>4, <2>4 DEF Reckons
<1>5. CASE u.stage = "send"
  <2>1. u.at \in 1 .. Last(r) + 1 /\ \A i \in 1 .. Last(r) : u.found[i] \in Entries
    BY <1>5 DEF TypeInv, TaskTypes, NoTask
  <2>2. \A i \in u.at .. Last(r) : i \in 1 .. Last(r) /\ u.found[i].cents \in Int
    BY <1>2, <2>1 DEF Entries
  <2>3. /\ \A i \in u.at .. Last(r) : KnowsCentsOf(r, u.found, i)
        /\ u.at = 2 /\ Last(r) = 2 => PastFirst(r, u.found)
    BY <1>5 DEF Reckons
  <2>4. \A i \in u.at .. Last(r) : KnowsCentsOf(r, u.found, i)'
    BY <1>1, <1>2, <1>3, <2>2, <2>3, KnowledgeStays
  <2>5. FirstMade(r)' = FirstMade(r)
    BY <1>3 DEF FirstMade
  <2>6. u.at = 2 /\ Last(r) = 2 => PastFirst(r, u.found)'
    BY <1>1, <1>2, <2>3, <2>5, PastStays
  <2> QED BY <1>5, <2>4, <2>6 DEF Reckons
<1> QED BY <1>4, <1>5

LEMMA CreateOwed ==
  ASSUME SendInv, OwedInv, TypeInv, TypeInv', NEW s \in Senders, Create(s)
  PROVE  OwedInv'
<1> PICK r : r = task[s].refund
  OBVIOUS
<1> PICK at, found, sent :
      at = task[s].at /\ found = task[s].found /\ sent = task[s].sent
  OBVIOUS
<1> PICK share : share = Share(r, found, at)
  OBVIOUS
<1>1. /\ task[s].stage = "send" /\ at <= Last(r) /\ found[at].made = {}
      /\ share > 0 /\ share <= Refundable(found[at].intent)
  BY DEF Create
<1>2. /\ r \in Refunds /\ at \in 1 .. Last(r) + 1
      /\ \A i \in 1 .. Last(r) : found[i] \in Entries
  BY <1>1 DEF TypeInv, TaskTypes, NoTask
<1>3. Last(r) \in { 1, 2 } /\ at \in 1 .. Last(r)
  BY <1>1, <1>2, PlacesOf
<1>4. /\ stripe \subseteq Calls /\ IsFiniteSet(stripe)
      /\ stripe' \subseteq Calls
      /\ \A i \in Intents : Refundable(i) \in Int /\ Refundable(i)' \in Int
  BY NumbersBeforeAndAfter DEF TypeInv, TypeOK
<1>5. /\ found[at].intent = IntentsOf(r)[at] /\ IntentsOf(r)[at] \in Intents
      /\ MadeFor(r, IntentsOf(r)[at]) = {}
      /\ \A i \in at .. Last(r) : KnowsCentsOf(r, found, i)
      /\ at = 2 /\ Last(r) = 2 => PastFirst(r, found)
  <2>1. Informed(s) /\ Reckons(s)
    BY DEF SendInv, OwedInv
  <2>2. at \in at .. Last(r)
    BY <1>3
  <2>3. found[at].intent = IntentsOf(r)[at] /\ MadeFor(r, IntentsOf(r)[at]) = {}
    BY <1>1, <2>1, <2>2 DEF Informed
  <2>4. /\ \A i \in at .. Last(r) : KnowsCentsOf(r, found, i)
        /\ at = 2 /\ Last(r) = 2 => PastFirst(r, found)
    BY <1>1, <2>1 DEF Reckons
  <2> QED BY <1>2, <1>3, <2>3, <2>4, PlacesOf
<1>6. PICK new :
        /\ new.intent = IntentsOf(r)[at] /\ new.refund = r /\ new.cents = share
        /\ new.status \in { "succeeded", "pending" }
        /\ stripe' = stripe \cup { new }
        /\ \/ task' = [ task EXCEPT ![s] = Doing("send", r, at + 1, found, sent \cup { new }) ]
           \/ task' = [ task EXCEPT ![s] = Doing("fail", r, 0, << >>, {}) ]
  <2>1. PICK status \in { "succeeded", "pending" } :
          LET new == Made(found[at].intent, r, share, status)
          IN  /\ stripe' = stripe \cup { new }
              /\ \/ task' = [ task EXCEPT ![s] = Doing("send", r, at + 1, found, sent \cup { new }) ]
                 \/ task' = [ task EXCEPT ![s] = Doing("fail", r, 0, << >>, {}) ]
    BY DEF Create
  <2> DEFINE new == Made(found[at].intent, r, share, status)
  <2>2. /\ new.intent = found[at].intent /\ new.refund = r /\ new.cents = share
        /\ new.status = status
    BY DEF Made
  <2>3. /\ stripe' = stripe \cup { new }
        /\ \/ task' = [ task EXCEPT ![s] = Doing("send", r, at + 1, found, sent \cup { new }) ]
           \/ task' = [ task EXCEPT ![s] = Doing("fail", r, 0, << >>, {}) ]
    BY <2>1
  <2> HIDE DEF new
  <2> QED BY <1>5, <2>2, <2>3
<1>7. new \in Calls /\ share \in Nat
  BY <1>4, <1>6 DEF Calls
<1>8. \A i \in Intents : Lowers(Refundable(i)', Refundable(i))
  BY <1>1, <1>4, <1>5, <1>6, <1>7, OneMoreOn
<1>9. /\ \A q, i : q # r \/ i # IntentsOf(r)[at] => MadeFor(q, i)' = MadeFor(q, i)
      /\ MadeFor(r, IntentsOf(r)[at])' = { new }
  BY <1>5, <1>6 DEF MadeFor, For, On
<1>10. at = 1 => Gives(share, found[1].cents, Amount[r])
  <2> HAVE at = 1
  <2>1. 1 \in 1 .. Last(r)
    BY <1>3
  <2> QED BY <1>2, <2>1, FirstShare DEF Entries
<1>11. at = 2 => Last(r) = 2 /\ Gives(share, found[2].cents, Amount[r] - found[1].cents)
  <2> HAVE at = 2
  <2>1. 1 \in 1 .. Last(r) /\ 2 \in 1 .. Last(r) /\ Last(r) = 2
    BY <1>3
  <2> QED BY <1>2, <2>1, SecondShare DEF Entries
<1>12. at \in { 1, 2 }
  BY <1>3
<1>13. Amount[r] \in Nat /\ \A i \in 1 .. Last(r) : found[i].cents \in Int
  BY <1>2, RefundsAssumption DEF Entries
<1>14. Drawn'
  <2>1. \A i \in Intents : Refundable(i)' >= 0
    BY <1>8 DEF OwedInv, Drawn, Lowers
  <2>2. \A x \in stripe' : x.status = "pending" => x.refund \in Refunds
    BY <1>2, <1>6 DEF OwedInv, Drawn
  <2> QED BY <2>1, <2>2 DEF Drawn
<1>15. ASSUME NEW q \in Refunds PROVE Within(q)'
  <2>1. CASE q # r
    <3>1. \A i : MadeFor(q, i)' = MadeFor(q, i)
      BY <1>9, <2>1
    <3>2. \A x \in stripe' : x.refund = q => x \in stripe
      BY <1>6, <2>1
    <3>3. Within(q)
      BY DEF OwedInv
    <3> QED BY <1>4, <1>8, <3>1, <3>2, <3>3, WithinStays
  <2>2. CASE q = r
    <3>1. Within(r)
      BY <1>2 DEF OwedInv
    <3>2. share <= Amount[r]
      <4>1. CASE at = 1
        BY <1>1, <1>10, <4>1 DEF Gives
      <4>2. CASE at = 2
        <5>1. /\ share <= Amount[r] - found[1].cents /\ found[1].cents >= 0
              /\ found[1].cents \in Int
          BY <1>1, <1>5, <1>11, <1>13, <4>2 DEF Gives, PastFirst
        <5> QED BY <1>7, <1>13, <5>1
      <4> QED BY <1>12, <4>1, <4>2
    <3>3. \A x \in stripe' : x.refund = r =>
            x.cents <= Amount[r] /\ \E i \in 1 .. Last(r) : x.intent = IntentsOf(r)[i]
      BY <1>3, <1>6, <3>1, <3>2 DEF Within
    <3>4. CASE at = 1 /\ Last(r) = 2
      <4>1. Refundable(IntentsOf(r)[1]) > 0 /\ Refundable(IntentsOf(r)[1]) \in Int
        BY <1>1, <1>4, <1>5, <1>7, <3>4
      <4>2. SecondMade(r) = {}
        BY <1>5, <3>1, <3>4, <4>1 DEF Within, FirstMade
      <4>3. IntentsOf(r)[2] # IntentsOf(r)[1]
        BY <1>2, <3>4, PlacesDiffer
      <4>4. SecondMade(r)' = {}
        BY <1>9, <3>4, <4>2, <4>3 DEF SecondMade
      <4> QED BY <2>2, <3>3, <4>4 DEF Within
    <3>5. CASE at = 2 /\ Last(r) = 2
      <4>1. IntentsOf(r)[2] # IntentsOf(r)[1] /\ IntentsOf(r)[1] \in Intents
        BY <1>2, <3>5, PlacesDiffer, PlacesOf
      <4>2. FirstMade(r)' = FirstMade(r) /\ SecondMade(r)' = { new }
        BY <1>9, <3>5, <4>1 DEF FirstMade, SecondMade
      <4>3. PastFirst(r, found)
        BY <1>5, <3>5
      <4>4. ASSUME NEW x \in FirstMade(r) PROVE x.cents + new.cents <= Amount[r]
        <5>1. x.cents <= found[1].cents /\ x.cents \in Int
          BY <1>4, <4>3 DEF PastFirst, FirstMade, MadeFor, For, Calls
        <5>2. share <= Amount[r] - found[1].cents /\ found[1].cents \in Int
          BY <1>1, <1>11, <1>13, <3>5 DEF Gives
        <5> QED BY <1>6, <1>7, <1>13, <5>1, <5>2
      <4>5. FirstMade(r) = {} => Refundable(IntentsOf(r)[1])' <= 0
        <5> HAVE FirstMade(r) = {}
        <5>1. Refundable(IntentsOf(r)[1]) <= 0
          BY <4>3 DEF PastFirst
        <5>2. /\ Refundable(IntentsOf(r)[1])' <= Refundable(IntentsOf(r)[1])
              /\ Refundable(IntentsOf(r)[1]) \in Int /\ Refundable(IntentsOf(r)[1])' \in Int
          BY <1>4, <1>8, <4>1 DEF Lowers
        <5> QED BY <5>1, <5>2
      <4> QED BY <2>2, <3>3, <4>2, <4>4, <4>5 DEF Within
    <3>6. CASE Last(r) = 1
      BY <2>2, <3>3, <3>6 DEF Within
    <3> QED BY <1>3, <1>12, <3>4, <3>5, <3>6
  <2> QED BY <2>1, <2>2
<1>16. \A t \in Senders \ { s } : task'[t] = task[t]
  BY <1>6 DEF SendInv, Shape
<1>17. \/ task'[s] = Doing("send", r, at + 1, found, sent \cup { new })
       \/ task'[s] = Doing("fail", r, 0, << >>, {})
  BY <1>6 DEF SendInv, Shape
<1>18. Reckons(s)'
  <2>1. CASE task'[s] = Doing("fail", r, 0, << >>, {})
    BY <2>1 DEF Reckons, Doing
  <2>2. CASE task'[s] = Doing("send", r, at + 1, found, sent \cup { new })
    <3>1. /\ task'[s].stage = "send" /\ task'[s].refund = r /\ task'[s].found = found
          /\ task'[s].at = at + 1
      BY <2>2 DEF Doing
    <3>2. ASSUME NEW i \in at + 1 .. Last(r) PROVE KnowsCentsOf(r, found, i)'
      <4>1. i \in 1 .. Last(r) /\ i # at /\ i \in at .. Last(r)
        BY <1>3
      <4>2. IntentsOf(r)[i] # IntentsOf(r)[at]
        BY <1>2, <1>3, <4>1, PlacesDiffer
      <4>3. MadeFor(r, IntentsOf(r)[i])' = MadeFor(r, IntentsOf(r)[i])
        BY <1>9, <4>2
      <4>4. KnowsCentsOf(r, found, i) /\ found[i].cents \in Int
        BY <1>5, <1>13, <4>1
      <4> QED BY <1>2, <1>4, <1>8, <4>1, <4>3, <4>4, KnowledgeStays
    <3>3. at + 1 = 2 /\ Last(r) = 2 => PastFirst(r, found)'
      <4> HAVE at + 1 = 2 /\ Last(r) = 2
      <4>1. at = 1
        BY <1>12
      <4>2. FirstMade(r)' = { new }
        BY <1>9, <4>1 DEF FirstMade
      <4>3. share <= found[1].cents
        BY <1>1, <1>10, <4>1 DEF Gives
      <4>4. found[1].cents >= 0
        BY <1>5, <1>3, <4>1 DEF KnowsCentsOf
      <4> QED BY <1>6, <4>2, <4>3, <4>4 DEF PastFirst
    <3> QED BY <3>1, <3>2, <3>3 DEF Reckons
  <2> QED BY <1>17, <2>1, <2>2
<1>19. ASSUME NEW t \in Senders \ { s } PROVE Reckons(t)'
  <2>1. task[t].stage \in { "look", "send" } => task[t].refund # r
    BY <1>1, <1>2 DEF SendInv, Exclusive, Working
  <2>2. task[t].stage \in { "look", "send" } =>
          \A i : MadeFor(task[t].refund, i)' = MadeFor(task[t].refund, i)
    BY <1>9, <1>16, <2>1
  <2>3. Reckons(t) /\ task'[t] = task[t]
    BY <1>16 DEF OwedInv
  <2> QED BY <1>8, <2>2, <2>3, OthersReckon
<1> QED BY <1>14, <1>15, <1>18, <1>19 DEF OwedInv

\* A refund that has arrived is the same money as before.
LEMMA SettleMoney ==
  ASSUME SendInv, OwedInv, TypeInv, Careful, NEW x \in stripe, Settle(x)
  PROVE  /\ \A i \in Intents : Refundable(i)' = Refundable(i)
         /\ \A q, i : /\ MadeFor(q, i)' = {} <=> MadeFor(q, i) = {}
                      /\ \A z \in MadeFor(q, i)' : \E v \in MadeFor(q, i) : v.cents = z.cents
         /\ \A z \in stripe' : \E v \in stripe :
              /\ v.cents = z.cents /\ v.refund = z.refund /\ v.intent = z.intent
              /\ z.status = "pending" => v.status = "pending"
<1>1. /\ stripe' = (stripe \ { x }) \cup { [ x EXCEPT !.status = "succeeded" ] }
      /\ x.status = "pending"
  BY DEF Settle, Careful
<1> PICK y : y = [ x EXCEPT !.status = "succeeded" ]
  OBVIOUS
<1>2. /\ y.status = "succeeded" /\ y.refund = x.refund /\ y.intent = x.intent
      /\ y.cents = x.cents
  BY DEF SendInv, Shape, CallOf
<1>3. stripe' = (stripe \ { x }) \cup { y }
  BY <1>1
<1>4. x.refund \in Refunds /\ x.refund # 0
  BY <1>1, RefundsAssumption DEF OwedInv, Drawn
<1>5. y \notin stripe \ { x }
  <2>1. \A z \in stripe \ { x } : z.refund # x.refund \/ z.intent # x.intent \/ z.status = "dead"
    BY <1>1, <1>4 DEF SendInv, OneRefundPerCharge
  <2> QED BY <1>2, <2>1
<1>6. ASSUME NEW i \in Intents PROVE Refundable(i)' = Refundable(i)
  <2> PICK on : on = On(i)
    OBVIOUS
  <2>1. IsFiniteSet(on) /\ on \subseteq stripe /\ \A z \in on : z.cents \in Nat
    BY FS_Subset DEF On, TypeInv, TypeOK, Calls
  <2>2. On(i)' = IF x.intent = i THEN (on \ { x }) \cup { y } ELSE on
    BY <1>1, <1>2, <1>3 DEF On
  <2>3. Refundable(i)' = Captured[i] - Cents(On(i)') /\ Refundable(i) = Captured[i] - Cents(on)
    BY DEF Refundable
  <2>4. CASE x.intent = i
    <3>1. x \in on /\ y \notin on \ { x }
      BY <1>1, <1>5, <2>1, <2>4 DEF On
    <3>2. Cents((on \ { x }) \cup { y }) = Cents(on)
      <4>1. x \in on
        BY <3>1
      <4>2. y \notin on \ { x }
        BY <3>1
      <4>3. y.cents = x.cents
        BY <1>2
      <4>4. IsFiniteSet(on)
        BY <2>1
      <4>5. \A z \in on : z.cents \in Nat
        BY <2>1
      <4> QED BY ONLY <4>1, <4>2, <4>3, <4>4, <4>5, OneRefundForAnother
    <3> QED BY <2>2, <2>3, <2>4, <3>2
  <2>5. CASE x.intent # i
    BY <2>2, <2>3, <2>5
  <2> QED BY <2>4, <2>5
<1>7. ASSUME NEW q, NEW i
      PROVE  /\ MadeFor(q, i)' = {} <=> MadeFor(q, i) = {}
             /\ \A z \in MadeFor(q, i)' : \E v \in MadeFor(q, i) : v.cents = z.cents
  <2>1. MadeFor(q, i)' = IF x.refund = q /\ x.intent = i THEN (MadeFor(q, i) \ { x }) \cup { y }
                         ELSE MadeFor(q, i)
    BY <1>1, <1>2, <1>3 DEF MadeFor, For, On
  <2>2. x.refund = q /\ x.intent = i => x \in MadeFor(q, i)
    BY <1>1 DEF MadeFor, For, On
  <2> QED BY <1>2, <2>1, <2>2
<1>8. \A z \in stripe' : \E v \in stripe :
        /\ v.cents = z.cents /\ v.refund = z.refund /\ v.intent = z.intent
        /\ z.status = "pending" => v.status = "pending"
  BY <1>2, <1>3
<1> QED BY <1>6, <1>7, <1>8

LEMMA SettleOwed ==
  ASSUME SendInv, OwedInv, TypeInv, Careful, NEW x \in stripe, Settle(x)
  PROVE  OwedInv'
<1>1. /\ \A i \in Intents : Refundable(i)' = Refundable(i)
      /\ \A q, i : /\ MadeFor(q, i)' = {} <=> MadeFor(q, i) = {}
                   /\ \A z \in MadeFor(q, i)' : \E v \in MadeFor(q, i) : v.cents = z.cents
      /\ \A z \in stripe' : \E v \in stripe :
           /\ v.cents = z.cents /\ v.refund = z.refund /\ v.intent = z.intent
           /\ z.status = "pending" => v.status = "pending"
  BY SettleMoney
<1>2. Drawn'
  <2>1. \A i \in Intents : Refundable(i)' >= 0
    BY <1>1 DEF OwedInv, Drawn
  <2>2. \A z \in stripe' : z.status = "pending" => z.refund \in Refunds
    BY <1>1 DEF OwedInv, Drawn
  <2> QED BY <2>1, <2>2 DEF Drawn
<1>3. ASSUME NEW r \in Refunds PROVE Within(r)'
  <2>1. Within(r) /\ IntentsOf(r)[1] \in Intents
    BY PlacesOf DEF OwedInv
  <2>2. \A z \in stripe' : z.refund = r =>
          z.cents <= Amount[r] /\ \E i \in 1 .. Last(r) : z.intent = IntentsOf(r)[i]
    <3> TAKE z \in stripe'
    <3> HAVE z.refund = r
    <3>1. PICK v \in stripe : v.cents = z.cents /\ v.refund = r /\ v.intent = z.intent
      BY <1>1
    <3> QED BY <2>1, <3>1 DEF Within
  <2>3. /\ FirstMade(r)' = {} <=> FirstMade(r) = {}
        /\ SecondMade(r)' = {} <=> SecondMade(r) = {}
        /\ \A z \in FirstMade(r)' : \E v \in FirstMade(r) : v.cents = z.cents
        /\ \A z \in SecondMade(r)' : \E v \in SecondMade(r) : v.cents = z.cents
    BY <1>1 DEF FirstMade, SecondMade
  <2>4. Last(r) = 2 => \A z \in FirstMade(r)', u \in SecondMade(r)' :
                         z.cents + u.cents <= Amount[r]
    <3> HAVE Last(r) = 2
    <3> TAKE z \in FirstMade(r)', u \in SecondMade(r)'
    <3>1. PICK v \in FirstMade(r) : v.cents = z.cents
      BY <2>3
    <3>2. PICK w \in SecondMade(r) : w.cents = u.cents
      BY <2>3
    <3>3. v.cents + w.cents <= Amount[r]
      BY <2>1 DEF Within
    <3> QED BY <3>1, <3>2, <3>3
  <2>5. Last(r) = 2 => (SecondMade(r)' # {} /\ FirstMade(r)' = {}
                         => Refundable(IntentsOf(r)[1])' <= 0)
    BY <1>1, <2>1, <2>3 DEF Within
  <2> QED BY <2>2, <2>4, <2>5 DEF Within
<1>4. ASSUME NEW t \in Senders PROVE Reckons(t)'
  <2> PICK u : u = task[t]
    OBVIOUS
  <2>1. task'[t] = u
    BY DEF Settle
  <2>2. Reckons(t)
    BY DEF OwedInv
  <2>3. ASSUME NEW r \in Refunds, NEW found, NEW i \in 1 .. Last(r), KnowsCentsOf(r, found, i)
        PROVE  KnowsCentsOf(r, found, i)'
    <3>1. Refundable(IntentsOf(r)[i])' = Refundable(IntentsOf(r)[i])
      BY <1>1, PlacesOf
    <3>2. found[i].made # {} => \A z \in MadeFor(r, IntentsOf(r)[i])' : z.cents = found[i].cents
      BY <1>1, <2>3 DEF KnowsCentsOf
    <3>3. found[i].made # {} => MadeFor(r, IntentsOf(r)[i])' # {}
      BY <1>1, <2>3 DEF KnowsCentsOf
    <3> QED BY <2>3, <3>1, <3>2, <3>3 DEF KnowsCentsOf
  <2>4. ASSUME NEW r \in Refunds, NEW found, PastFirst(r, found)
        PROVE  PastFirst(r, found)'
    <3>1. Refundable(IntentsOf(r)[1])' = Refundable(IntentsOf(r)[1])
      BY <1>1, PlacesOf
    <3>2. /\ FirstMade(r)' = {} <=> FirstMade(r) = {}
          /\ \A z \in FirstMade(r)' : \E v \in FirstMade(r) : v.cents = z.cents
      BY <1>1 DEF FirstMade
    <3>3. \A z \in FirstMade(r)' : z.cents <= found[1].cents
      BY <2>4, <3>2 DEF PastFirst
    <3> QED BY <2>4, <3>1, <3>2, <3>3 DEF PastFirst
  <2>5. u # NoTask => /\ u.refund \in Refunds /\ Last(u.refund) \in { 1, 2 }
                      /\ u.stage = "look" => u.at \in 0 .. Last(u.refund) - 1
                      /\ u.stage = "send" => u.at \in 1 .. Last(u.refund) + 1
    BY PlacesOf DEF TypeInv, TaskTypes
  <2>6. CASE u.stage = "look"
    <3>1. u # NoTask
      BY <2>6 DEF NoTask
    <3>2. \A i \in 1 .. u.at : i \in 1 .. Last(u.refund) /\ KnowsCentsOf(u.refund, u.found, i)
      BY <2>2, <2>5, <2>6, <3>1 DEF Reckons
    <3>3. \A i \in 1 .. u.at : KnowsCentsOf(u.refund, u.found, i)'
      BY <2>3, <2>5, <3>1, <3>2
    <3> QED BY <2>1, <2>6, <3>3 DEF Reckons
  <2>7. CASE u.stage = "send"
    <3>1. u # NoTask
      BY <2>7 DEF NoTask
    <3>2. /\ \A i \in u.at .. Last(u.refund) :
               i \in 1 .. Last(u.refund) /\ KnowsCentsOf(u.refund, u.found, i)
          /\ u.at = 2 /\ Last(u.refund) = 2 => PastFirst(u.refund, u.found)
      BY <2>2, <2>5, <2>7, <3>1 DEF Reckons
    <3>3. /\ \A i \in u.at .. Last(u.refund) : KnowsCentsOf(u.refund, u.found, i)'
          /\ u.at = 2 /\ Last(u.refund) = 2 => PastFirst(u.refund, u.found)'
      BY <2>3, <2>4, <2>5, <3>1, <3>2
    <3> QED BY <2>1, <2>7, <3>3 DEF Reckons
  <2>8. CASE u.stage \notin { "look", "send" }
    BY <2>1, <2>8 DEF Reckons
  <2> QED BY <2>6, <2>7, <2>8
<1> QED BY <1>2, <1>3, <1>4 DEF OwedInv

LEMMA DashboardOwed ==
  ASSUME SendInv, OwedInv, TypeInv, TypeInv', NEW intent \in Intents, Dashboard(intent)
  PROVE  OwedInv'
<1>1. /\ stripe \subseteq Calls /\ IsFiniteSet(stripe) /\ stripe' \subseteq Calls
      /\ \A i \in Intents : Refundable(i) \in Int /\ Refundable(i)' \in Int
  BY NumbersBeforeAndAfter DEF TypeInv, TypeOK
<1>2. PICK new :
        /\ stripe' = stripe \cup { new }
        /\ new.refund = 0 /\ new.status = "succeeded"
        /\ new.cents <= Refundable(new.intent)
  <2>1. PICK cents \in 1 .. Refundable(intent) :
          stripe' = stripe \cup { Made(intent, 0, cents, "succeeded") }
    BY DEF Dashboard
  <2> DEFINE new == Made(intent, 0, cents, "succeeded")
  <2>2. /\ new.refund = 0 /\ new.status = "succeeded" /\ new.intent = intent
        /\ new.cents = cents /\ cents <= Refundable(intent)
    BY <1>1 DEF Made
  <2>3. stripe' = stripe \cup { new }
    BY <2>1
  <2> HIDE DEF new
  <2> QED BY <2>2, <2>3
<1>3. new \in Calls /\ 0 \notin Refunds
  BY <1>1, <1>2, RefundsAssumption
<1>4. \A i \in Intents : Lowers(Refundable(i)', Refundable(i))
  BY <1>1, <1>2, <1>3, OneMoreOn
<1>5. \A q \in Refunds : \A i : MadeFor(q, i)' = MadeFor(q, i)
  BY <1>2, <1>3 DEF MadeFor, For, On
<1>6. Drawn'
  <2>1. \A i \in Intents : Refundable(i)' >= 0
    BY <1>4 DEF OwedInv, Drawn, Lowers
  <2>2. \A x \in stripe' : x.status = "pending" => x.refund \in Refunds
    BY <1>2 DEF OwedInv, Drawn
  <2> QED BY <2>1, <2>2 DEF Drawn
<1>7. ASSUME NEW q \in Refunds PROVE Within(q)'
  <2>1. \A x \in stripe' : x.refund = q => x \in stripe
    BY <1>2, <1>3
  <2>2. Within(q)
    BY DEF OwedInv
  <2> QED BY <1>1, <1>4, <1>5, <2>1, <2>2, WithinStays
<1>8. ASSUME NEW t \in Senders PROVE Reckons(t)'
  <2>1. Reckons(t) /\ task'[t] = task[t]
    BY DEF OwedInv, Dashboard
  <2>2. task[t].stage \in { "look", "send" } => task[t].refund \in Refunds
    BY DEF SendInv, Shape, NoTask
  <2>3. task[t].stage \in { "look", "send" } =>
          \A i : MadeFor(task[t].refund, i)' = MadeFor(task[t].refund, i)
    BY <1>5, <2>1, <2>2
  <2> QED BY <1>4, <2>1, <2>3, OthersReckon
<1> QED BY <1>6, <1>7, <1>8 DEF OwedInv

LEMMA OwedStays ==
  ASSUME Careful
  PROVE  SendInv /\ TypeInv /\ TypeInv' /\ OwedInv /\ [Next]_vars => OwedInv'
<1> SUFFICES ASSUME SendInv, TypeInv, TypeInv', OwedInv, [Next]_vars PROVE OwedInv'
  OBVIOUS
<1>1. ASSUME NEW s \in Senders,
             \/ \E r \in Refunds : Pick(s, r)
             \/ Claim(s) \/ Refuse(s) \/ SaveFailure(s) \/ Finish(s) \/ Crash(s)
      PROVE  OwedInv'
  BY <1>1, IdleOwed
<1>2. ASSUME NEW s \in Senders, Look(s) \/ Adopt(s) \/ Create(s) PROVE OwedInv'
  BY <1>2, LookOwed, AdoptOwed, CreateOwed
<1>3. ASSUME NEW s \in Senders, PassOver(s) PROVE OwedInv'
  BY <1>3, OthersOwed DEF PassOver
<1>4. CASE List \/ PayOut \/ DropEvent \/ WriteUpdate \/ WriteCharge \/ UNCHANGED vars
  BY <1>4, OthersOwed DEF List, PayOut, DropEvent, WriteUpdate, WriteCharge, vars
<1>5. ASSUME NEW x \in stripe, ReadUpdate(x) \/ ReadCharge(x) PROVE OwedInv'
  BY <1>5, OthersOwed DEF ReadUpdate, ReadCharge
<1>6. ASSUME NEW x \in stripe, Settle(x) PROVE OwedInv'
  BY <1>6, SettleOwed
<1>7. CASE \E intent \in Intents : Dashboard(intent)
  BY <1>7, DashboardOwed
<1>8. CASE \E r \in Refunds : Age(r)
  BY <1>8, OthersOwed DEF Age
<1> QED BY <1>1, <1>2, <1>3, <1>4, <1>5, <1>6, <1>7, <1>8 DEF Next

\* With at most one refund from each charge, those of a record are none, one
\* or one of each of its two charges.
LEMMA OwedHolds == SendInv /\ TypeInv /\ OwedInv => NeverMoreThanOwed
<1> SUFFICES ASSUME SendInv, TypeInv, OwedInv, NEW r \in Refunds
             PROVE  Cents(For(r)) <= Amount[r]
  BY DEF NeverMoreThanOwed
<1>1. \A x \in For(r) :
        /\ x.cents \in Nat /\ x.cents <= Amount[r]
        /\ \E i \in 1 .. Last(r) : x.intent = IntentsOf(r)[i]
  BY DEF For, TypeInv, TypeOK, Calls, OwedInv, Within
<1>2. \A x, y \in For(r) : x.intent = y.intent => x = y
  BY RefundsAssumption DEF For, SendInv, OneRefundPerCharge
<1>3. Amount[r] \in Nat
  BY RefundsAssumption
<1>4. CASE For(r) = {}
  BY <1>3, <1>4, SumOfNoCents
<1>5. CASE \E x : For(r) = { x }
  <2>1. PICK x : For(r) = { x }
    BY <1>5
  <2>2. x.cents \in Nat /\ x.cents <= Amount[r]
    BY <1>1, <2>1
  <2> QED BY <2>1, <2>2, CentsOfOne
<1>6. CASE For(r) # {} /\ ~ \E x : For(r) = { x }
  <2>1. PICK x \in For(r), y \in For(r) : x # y
    BY <1>6
  <2>2. PICK i \in 1 .. Last(r) : x.intent = IntentsOf(r)[i]
    BY <1>1
  <2>3. PICK j \in 1 .. Last(r) : y.intent = IntentsOf(r)[j]
    BY <1>1
  <2>4. i # j
    BY <1>2, <2>1, <2>2, <2>3
  <2>5. Last(r) = 2 /\ { i, j } = { 1, 2 }
    BY <2>4, PlacesOf
  <2>6. For(r) = { x, y }
    <3> SUFFICES ASSUME NEW z \in For(r) PROVE z = x \/ z = y
      OBVIOUS
    <3>1. PICK k \in 1 .. Last(r) : z.intent = IntentsOf(r)[k]
      BY <1>1
    <3>2. k = i \/ k = j
      BY <2>5
    <3> QED BY <1>2, <2>2, <2>3, <3>1, <3>2
  <2>7. x.cents + y.cents <= Amount[r]
    <3>1. \A u \in FirstMade(r), v \in SecondMade(r) : u.cents + v.cents <= Amount[r]
      BY <2>5 DEF OwedInv, Within
    <3>2. \A z \in For(r) : z \in stripe /\ z.status # "dead"
      BY DEF For
    <3>3. CASE i = 1 /\ j = 2
      <4>1. x \in FirstMade(r) /\ y \in SecondMade(r)
        BY <2>2, <2>3, <3>2, <3>3 DEF FirstMade, SecondMade, MadeFor, On
      <4> QED BY <3>1, <4>1
    <3>4. CASE i = 2 /\ j = 1
      <4>1. y \in FirstMade(r) /\ x \in SecondMade(r)
        BY <2>2, <2>3, <3>2, <3>4 DEF FirstMade, SecondMade, MadeFor, On
      <4>2. y.cents + x.cents <= Amount[r]
        BY <3>1, <4>1
      <4>3. x.cents \in Nat /\ y.cents \in Nat
        BY <1>1
      <4> QED BY <4>2, <4>3
    <3> QED BY <2>4, <2>5, <3>3, <3>4
  <2>8. Cents({ x, y }) = x.cents + y.cents
    BY <1>1, <2>1, CentsOfTwo
  <2> QED BY <2>6, <2>7, <2>8
<1> QED BY <1>4, <1>5, <1>6

\* What Stripe returns for a record never exceeds its amount, whether it comes
\* from one charge or from two, in one attempt or in several: the second charge
\* is used only for what the first cannot give, and a retry counts what was
\* sent before.  Of allocateRefund and the lookups before it.
THEOREM NoRefundIsTooLarge ==
  ASSUME Careful
  PROVE  Spec => []NeverMoreThanOwed
<1>1. SendInv /\ [Next]_vars => SendInv'
  BY SendStays
<1>2. SendInv /\ TypeInv /\ TypeInv' /\ OwedInv /\ [Next]_vars => OwedInv'
  BY OwedStays
<1> QED BY <1>1, <1>2, InitSend, InitTypes, InitOwed, TypesStay, OwedHolds, PTL DEF Spec

-----------------------------------------------------------------------------
(* The promise of RefundPromise.  The code does not keep it everywhere:    *)
(* each of these five conditions excludes a case in which it fails (the    *)
(* known limits of README.md), and nothing in the code ensures them.       *)

\* The booking has one refund: the amount of a charge.refunded event does not tell
\* which record it belongs to.
OneRecord == \A r, q \in Refunds : r = q

\* It comes out of one charge: an event about one part marks the whole as refunded.
OneCharge == \A r \in Refunds : Last(r) = 1

\* Nobody refunds by hand in Stripe's dashboard.
NoDashboardRefunds == "dashboard" \notin Faults

\* No sender takes longer than the five minutes after which it counts as dead.
PromptSenders == "slow" \notin Faults

\* A refund that Stripe accepted fails at the bank only where no clerk can press
\* the button while another sender is still at work.
BouncesWithoutClerks == "dies" \in Faults => Clerks = {}

Solo == OneRecord /\ OneCharge /\ NoDashboardRefunds /\ PromptSenders /\ BouncesWithoutClerks

\* Two senders never work on one refund.
Alone == \A s, t \in Senders, r \in Refunds : Working(s, r) /\ Working(t, r) => s = t

\* Where there are no clerks, the job lists only what the closing request is
\* done with.
LoopInv ==
  /\ \A r \in queue["job"] : r \notin queue["closing"] /\ ~Busy("closing", r)
  /\ \A r \in queue["closing"] :
       row[r].status # "PROCESSING" /\ ~Busy("closing", r) /\ ~Busy("job", r)
  /\ \A r \in Refunds : Busy("closing", r) =>
       ~Busy("job", r) /\ (row[r].status = "PROCESSING" => row[r].age = "fresh")

LEMMA InitLoop == Init => LoopInv
  BY DEF Init, LoopInv, Busy, NoTask, Loops, Senders

LEMMA LoopAlone == Clerks = {} /\ LoopInv => Alone
<1> SUFFICES ASSUME Clerks = {}, LoopInv, NEW s \in Senders, NEW t \in Senders,
                    NEW r \in Refunds, Working(s, r), Working(t, r), s # t
             PROVE  FALSE
  BY DEF Alone
<1>1. Busy(s, r) /\ Busy(t, r)
  BY DEF Working, Busy
<1>2. Busy("closing", r) /\ Busy("job", r)
  BY <1>1 DEF Senders, Loops
<1> QED BY <1>2 DEF LoopInv

\* Nobody takes anything up, and no row is taken up by its writing.
LEMMA LoopStays ==
  ASSUME LoopInv, TypeInv,
         \A l \in Loops : queue'[l] \subseteq queue[l],
         \A s \in Senders, r \in Refunds : Busy(s, r)' => Busy(s, r),
         \A r \in Refunds : row'[r].status = "PROCESSING" =>
           row[r].status = "PROCESSING" /\ row'[r].age = row[r].age
  PROVE  LoopInv'
<1>1. \A l \in Loops : queue[l] \subseteq Refunds
  BY DEF TypeInv, TypeOK
<1>2. "job" \in Loops /\ "closing" \in Loops /\ "job" \in Senders /\ "closing" \in Senders
  BY DEF Senders, Loops
<1> QED BY <1>1, <1>2 DEF LoopInv

LEMMA RowFields ==
  ASSUME TypeInv, NEW r \in Refunds, NEW status, NEW ids, NEW charge
  PROVE  /\ \A q \in Refunds \ { r } :
              [ row EXCEPT ![r] = Written(status, ids, charge) ][q] = row[q]
         /\ [ row EXCEPT ![r] = Written(status, ids, charge) ][r].status = status
         /\ [ row EXCEPT ![r] = Written(status, ids, charge) ][r].age = "fresh"
  BY DEF TypeInv, TypeOK, Written

\* Who is busy after a step of one sender.
LEMMA BusyAfter ==
  ASSUME TypeInv, NEW s \in Senders, NEW next, task' = [ task EXCEPT ![s] = next ]
  PROVE  /\ \A t \in Senders \ { s } : \A r : Busy(t, r)' <=> Busy(t, r)
         /\ \A r : Busy(s, r)' <=> next.stage # "idle" /\ next.refund = r
  BY DEF TypeInv, TaskTypes, Busy

LEMMA BusyStays ==
  ASSUME TypeInv, NEW s \in Senders, NEW next, task' = [ task EXCEPT ![s] = next ],
         next = NoTask \/ (task[s].stage # "idle" /\ next.refund = task[s].refund)
  PROVE  \A t \in Senders, r \in Refunds : Busy(t, r)' => Busy(t, r)
<1>1. /\ \A t \in Senders \ { s } : \A r : Busy(t, r)' <=> Busy(t, r)
      /\ \A r : Busy(s, r)' <=> next.stage # "idle" /\ next.refund = r
  BY BusyAfter
<1>2. NoTask.stage = "idle"
  BY DEF NoTask
<1>3. \A r : Busy(s, r)' => Busy(s, r)
  BY <1>1, <1>2 DEF Busy
<1> QED BY <1>1, <1>3

LEMMA PickLoop ==
  ASSUME Clerks = {}, LoopInv, TypeInv, NEW s \in Senders, NEW r \in Refunds, Pick(s, r)
  PROVE  LoopInv'
<1>1. /\ queue[s] # {} /\ r = Min(queue[s]) /\ queue' = Rest(s, r)
      /\ task' = [ task EXCEPT ![s] = Doing("claim", r, 0, << >>, {}) ]
      /\ row' = [ row EXCEPT ![r].readers = @ \cup { s } ]
  BY DEF Pick, Asked, Senders
<1>2. s \in Loops /\ queue[s] \subseteq Nat
  BY RefundsAssumption DEF TypeInv, TypeOK, Senders
<1>3. r \in queue[s]
  BY <1>1, <1>2, LeastIsIn
<1>4. /\ \A l \in Loops \ { s } : queue'[l] = queue[l]
      /\ queue'[s] = queue[s] \ { r }
  BY <1>1, <1>2 DEF Rest
<1>5. \A q \in Refunds : row'[q].status = row[q].status /\ row'[q].age = row[q].age
  BY <1>1 DEF TypeInv, TypeOK, Contents
<1>6. /\ \A t \in Senders \ { s } : \A q : Busy(t, q)' <=> Busy(t, q)
      /\ \A q : Busy(s, q)' <=> q = r
  <2> PICK next : next = Doing("claim", r, 0, << >>, {})
    OBVIOUS
  <2>1. task' = [ task EXCEPT ![s] = next ]
    BY <1>1
  <2>2. next.stage # "idle" /\ next.refund = r
    BY DEF Doing
  <2> QED BY <2>1, <2>2, BusyAfter
<1>7. queue["job"] \subseteq Refunds /\ queue["closing"] \subseteq Refunds
  BY DEF TypeInv, TypeOK, Loops
<1>8. CASE s = "job"
  <2>1. r \notin queue["closing"] /\ ~Busy("closing", r)
    BY <1>3, <1>8 DEF LoopInv
  <2>2. \A q : Busy("closing", q)' <=> Busy("closing", q)
    BY <1>6, <1>8 DEF Senders, Loops
  <2>3. queue'["closing"] = queue["closing"] /\ queue'["job"] \subseteq queue["job"]
    BY <1>4, <1>8 DEF Loops
  <2> QED BY <1>5, <1>6, <1>7, <1>8, <2>1, <2>2, <2>3 DEF LoopInv
<1>9. CASE s = "closing"
  <2>1. r \notin queue["job"] /\ row[r].status # "PROCESSING" /\ ~Busy("job", r)
    BY <1>3, <1>9 DEF LoopInv
  <2>2. \A q : Busy("job", q)' <=> Busy("job", q)
    BY <1>6, <1>9 DEF Senders, Loops
  <2>3. queue'["job"] = queue["job"] /\ queue'["closing"] = queue["closing"] \ { r }
    BY <1>4, <1>9 DEF Loops
  <2>4. \A q \in queue'["job"] : q \notin queue'["closing"] /\ ~Busy("closing", q)'
    BY <1>6, <1>9, <2>1, <2>3 DEF LoopInv
  <2>5. \A q \in queue'["closing"] :
          row'[q].status # "PROCESSING" /\ ~Busy("closing", q)' /\ ~Busy("job", q)'
    BY <1>5, <1>6, <1>7, <1>9, <2>2, <2>3 DEF LoopInv
  <2>6. \A q \in Refunds : Busy("closing", q)' =>
          ~Busy("job", q)' /\ (row'[q].status = "PROCESSING" => row'[q].age = "fresh")
    BY <1>5, <1>6, <1>9, <2>1, <2>2
  <2> QED BY <2>4, <2>5, <2>6 DEF LoopInv
<1> QED BY <1>2, <1>8, <1>9 DEF Loops

\* The sender writes the row it is busy with, as of now.
LEMMA WriteLoop ==
  ASSUME Clerks = {}, LoopInv, TypeInv, NEW s \in Senders, NEW r \in Refunds, Busy(s, r),
         queue' = queue, NEW status, NEW ids, NEW charge,
         row' = [ row EXCEPT ![r] = Written(status, ids, charge) ],
         \A t \in Senders, q \in Refunds : Busy(t, q)' => Busy(t, q)
  PROVE  LoopInv'
<1>1. /\ \A q \in Refunds \ { r } : row'[q] = row[q]
      /\ row'[r].age = "fresh"
  BY RowFields
<1>2. s \in Loops /\ "job" \in Senders /\ "closing" \in Senders
  BY DEF Senders, Loops
<1>3. queue["job"] \subseteq Refunds /\ queue["closing"] \subseteq Refunds
  BY DEF TypeInv, TypeOK, Loops
<1>4. r \notin queue["closing"]
  BY <1>2 DEF LoopInv, Loops
<1>5. \A q \in queue'["job"] : q \notin queue'["closing"] /\ ~Busy("closing", q)'
  BY <1>2, <1>3 DEF LoopInv
<1>6. \A q \in queue'["closing"] :
        row'[q].status # "PROCESSING" /\ ~Busy("closing", q)' /\ ~Busy("job", q)'
  BY <1>1, <1>2, <1>3, <1>4 DEF LoopInv
<1>7. \A q \in Refunds : Busy("closing", q)' =>
        ~Busy("job", q)' /\ (row'[q].status = "PROCESSING" => row'[q].age = "fresh")
  BY <1>1, <1>2 DEF LoopInv
<1> QED BY <1>5, <1>6, <1>7 DEF LoopInv

LEMMA ListLoop ==
  ASSUME LoopInv, TypeInv, List
  PROVE  LoopInv'
<1>1. /\ queue'["job"] = { r \in Refunds : row[r].status = "PROCESSING" /\ row[r].age = "hour" }
      /\ queue'["closing"] = queue["closing"]
      /\ row' = row /\ task' = task
  BY DEF List, TypeInv, TypeOK, Loops
<1>2. \A s, r : Busy(s, r)' <=> Busy(s, r)
  BY <1>1 DEF Busy
<1> QED BY <1>1, <1>2 DEF LoopInv

LEMMA AgeLoop ==
  ASSUME LoopInv, TypeInv, "slow" \notin Faults, NEW r \in Refunds, Age(r)
  PROVE  LoopInv'
<1>1. /\ row' = [ row EXCEPT ![r].age = IF @ = "fresh" THEN "minutes" ELSE "hour" ]
      /\ queue' = queue /\ task' = task /\ ~Busy("closing", r)
  BY DEF Age, Senders, Loops
<1>2. /\ \A q \in Refunds : row'[q].status = row[q].status
      /\ \A q \in Refunds \ { r } : row'[q].age = row[q].age
  BY <1>1 DEF TypeInv, TypeOK, Contents
<1>3. \A s, q : Busy(s, q)' <=> Busy(s, q)
  BY <1>1 DEF Busy
<1>4. queue["closing"] \subseteq Refunds
  BY DEF TypeInv, TypeOK, Loops
<1> QED BY <1>1, <1>2, <1>3, <1>4 DEF LoopInv

LEMMA ClosedLoop ==
  ASSUME LoopInv, TypeInv, queue' = queue, task' = task,
         NEW r, NEW status, NEW ids, NEW charge, status # "PROCESSING",
         row' = [ row EXCEPT ![r] = Written(status, ids, charge) ]
  PROVE  LoopInv'
<1>1. \A q \in Refunds : row'[q].status = "PROCESSING" => row'[q] = row[q]
  BY DEF TypeInv, TypeOK, Written
<1> QED BY <1>1, LoopStays DEF Busy

LEMMA StepLoop ==
  ASSUME Clerks = {}, "slow" \notin Faults
  PROVE  LoopInv /\ TypeInv /\ TypeInv' /\ [Next]_vars => LoopInv'
<1> SUFFICES ASSUME LoopInv, TypeInv, TypeInv', [Next]_vars PROVE LoopInv'
  OBVIOUS
<1>1. ASSUME NEW s \in Senders, NEW r \in Refunds, Pick(s, r) PROVE LoopInv'
  BY <1>1, PickLoop
<1>2. ASSUME NEW s \in Senders, PassOver(s) PROVE LoopInv'
  <2>1. /\ \A l \in Loops : queue'[l] \subseteq queue[l]
        /\ row' = row /\ task' = task
    BY <1>2 DEF PassOver, Rest
  <2> QED BY <2>1, LoopStays DEF Busy
<1>3. ASSUME NEW s \in Senders, Claim(s) PROVE LoopInv'
  <2> PICK r : r = task[s].refund
    OBVIOUS
  <2>1. task[s].stage = "claim" /\ r \in Refunds /\ Busy(s, r) /\ queue' = queue
    BY <1>3 DEF Claim, TypeInv, TypeOK, NoTask, Busy
  <2>2. CASE s \in row[r].readers
    <3>1. row' = [ row EXCEPT ![r] = Written("PROCESSING", row[r].ids, row[r].charge) ]
      BY <1>3, <2>2 DEF Claim, Marked
    <3>2. task' = [ task EXCEPT ![s] = Doing("look", r, 0, << >>, {}) ]
      BY <1>3, <2>2 DEF Claim
    <3> PICK next : next = Doing("look", r, 0, << >>, {})
      OBVIOUS
    <3>3. task' = [ task EXCEPT ![s] = next ] /\ next.refund = r
      BY <3>2 DEF Doing
    <3>4. \A t \in Senders, q \in Refunds : Busy(t, q)' => Busy(t, q)
      BY <2>1, <3>3, BusyStays
    <3> QED BY <2>1, <3>1, <3>4, WriteLoop
  <2>3. CASE s \notin row[r].readers
    <3>1. row' = row /\ task' = [ task EXCEPT ![s] = NoTask ]
      BY <1>3, <2>3 DEF Claim
    <3>2. \A t \in Senders, q \in Refunds : Busy(t, q)' => Busy(t, q)
      BY <3>1, BusyStays
    <3> QED BY <2>1, <3>1, <3>2, LoopStays
  <2> QED BY <2>2, <2>3
<1>4. ASSUME NEW s \in Senders, Look(s) \/ Adopt(s) \/ Create(s) \/ Refuse(s) PROVE LoopInv'
  <2>1. queue' = queue /\ row' = row /\ task[s].stage \in { "look", "send" }
    BY <1>4 DEF Look, Adopt, Create, Refuse
  <2>2. \E next : task' = [ task EXCEPT ![s] = next ] /\ next.refund = task[s].refund
    BY <1>4 DEF Look, Adopt, Create, Refuse, Doing
  <2>3. \A t \in Senders, q \in Refunds : Busy(t, q)' => Busy(t, q)
    <3>1. PICK next : task' = [ task EXCEPT ![s] = next ] /\ next.refund = task[s].refund
      BY <2>2
    <3> QED BY <2>1, <3>1, BusyStays
  <2> QED BY <2>1, <2>3, LoopStays
<1>5. ASSUME NEW s \in Senders, SaveFailure(s) \/ Finish(s) PROVE LoopInv'
  <2> PICK r : r = task[s].refund
    OBVIOUS
  <2>1. /\ task[s].stage # "idle" /\ r \in Refunds /\ Busy(s, r) /\ queue' = queue
        /\ task' = [ task EXCEPT ![s] = NoTask ]
    BY <1>5 DEF SaveFailure, Finish, TypeInv, TypeOK, NoTask, Busy
  <2>2. \E status, ids, charge : row' = [ row EXCEPT ![r] = Written(status, ids, charge) ]
    BY <1>5 DEF SaveFailure, Finish, Marked
  <2>3. \A t \in Senders, q \in Refunds : Busy(t, q)' => Busy(t, q)
    BY <2>1, BusyStays
  <2>4. PICK status, ids, charge : row' = [ row EXCEPT ![r] = Written(status, ids, charge) ]
    BY <2>2
  <2> QED BY <2>1, <2>3, <2>4, WriteLoop
<1>6. ASSUME NEW s \in Senders, Crash(s) PROVE LoopInv'
  <2>1. /\ task' = [ task EXCEPT ![s] = NoTask ]
        /\ row' = [ r \in Refunds |-> [ row[r] EXCEPT !.readers = @ \ { s } ] ]
        /\ \A l \in Loops : queue'[l] \subseteq queue[l]
    BY <1>6 DEF Crash
  <2>2. \A r \in Refunds : row'[r].status = row[r].status /\ row'[r].age = row[r].age
    BY <2>1 DEF TypeInv, TypeOK, Contents
  <2>3. \A t \in Senders, q \in Refunds : Busy(t, q)' => Busy(t, q)
    BY <2>1, BusyStays
  <2> QED BY <2>1, <2>2, <2>3, LoopStays
<1>7. CASE List
  BY <1>7, ListLoop
<1>8. CASE \/ \E x \in stripe : ReadUpdate(x) \/ ReadCharge(x) \/ Settle(x)
           \/ DropEvent \/ PayOut \/ (\E intent \in Intents : Dashboard(intent))
           \/ UNCHANGED vars
  <2>1. queue' = queue /\ row' = row /\ task' = task
    BY <1>8 DEF ReadUpdate, ReadCharge, Settle, DropEvent, PayOut, Dashboard, vars
  <2> QED BY <2>1, LoopStays DEF Busy
<1>9. CASE WriteUpdate
  <2> PICK x : x = event.about
    OBVIOUS
  <2>1. queue' = queue /\ task' = task
    BY <1>9 DEF WriteUpdate
  <2>2. \/ row' = [ row EXCEPT ![x.refund] =
               Written("FAILED", row[x.refund].ids, row[x.refund].charge) ]
        \/ row' = [ row EXCEPT ![x.refund] = Written("REFUNDED", { x.id }, {}) ]
    BY <1>9 DEF WriteUpdate, Marked
  <2>3. "FAILED" # "PROCESSING" /\ "REFUNDED" # "PROCESSING"
    OBVIOUS
  <2>4. PICK status, ids, charge :
          /\ row' = [ row EXCEPT ![x.refund] = Written(status, ids, charge) ]
          /\ status # "PROCESSING"
    BY <2>2, <2>3, Zenon
  <2> QED BY <2>1, <2>4, ClosedLoop
<1>10. CASE WriteCharge
  <2>1. queue' = queue /\ task' = task
    BY <1>10 DEF WriteCharge
  <2>2. \/ row' = row
        \/ \E charge : row' = [ row EXCEPT ![Min(Waiting)] = Written("REFUNDED", {}, { charge }) ]
    BY <1>10 DEF WriteCharge
  <2>3. CASE row' = row
    BY <2>1, <2>3, LoopStays DEF Busy
  <2> PICK r, status, ids : r = Min(Waiting) /\ status = "REFUNDED" /\ ids = {}
    OBVIOUS
  <2>4. status # "PROCESSING"
    OBVIOUS
  <2>5. CASE row' # row
    <3>1. PICK charge : row' = [ row EXCEPT ![r] = Written(status, ids, { charge }) ]
      BY <2>2, <2>5
    <3> QED BY <2>1, <2>4, <3>1, ClosedLoop
  <2> QED BY <2>3, <2>5
<1>11. ASSUME NEW r \in Refunds, Age(r) PROVE LoopInv'
  BY <1>11, AgeLoop
<1> QED BY <1>1, <1>2, <1>3, <1>4, <1>5, <1>6, <1>7, <1>8, <1>9, <1>10, <1>11 DEF Next

Tried(r) == \E x \in stripe : x.refund = r

\* Every refund made at Stripe is all of a record, and has a number of its own.
Whole ==
  /\ \A x \in stripe :
       /\ x.refund \in Refunds /\ x.intent = IntentsOf(x.refund)[1]
       /\ x.cents = Amount[x.refund] /\ x.id <= Cardinality(stripe)
  /\ \A x, y \in stripe : x.id = y.id => x = y

\* A sender sends what is owed when nothing is under way, and is done only when
\* something was made.
Plans(s) ==
  LET t == task[s]
      r == t.refund
  IN  t.stage = "send" =>
        /\ t.at = 1 =>
             /\ t.found[1].intent = IntentsOf(r)[1] /\ Amount[r] <= t.found[1].cents
             /\ IF t.found[1].made = {} THEN For(r) = {} ELSE Tried(r)
        /\ t.at = 2 => Tried(r)

PlanInv == Whole /\ OneRefundPerCharge /\ \A s \in Senders : Plans(s)

LEMMA InitPlan == Init => PlanInv
  BY DEF Init, PlanInv, Whole, OneRefundPerCharge, Plans, NoTask

\* A sender that does not send plans nothing.
LEMMA OnePlans ==
  ASSUME PlanInv, TypeInv, stripe' = stripe, NEW s \in Senders, NEW next,
         task' = [ task EXCEPT ![s] = next ], next.stage # "send"
  PROVE  PlanInv'
<1>1. Whole' /\ OneRefundPerCharge'
  BY DEF PlanInv, Whole, OneRefundPerCharge
<1>2. task'[s] = next /\ \A t \in Senders \ { s } : task'[t] = task[t]
  BY DEF TypeInv, TaskTypes
<1>3. \A r : Tried(r)' = Tried(r) /\ For(r)' = For(r)
  BY DEF Tried, For
<1>4. Plans(s)'
  BY <1>2 DEF Plans
<1>5. ASSUME NEW t \in Senders \ { s } PROVE Plans(t)'
  BY <1>2, <1>3 DEF PlanInv, Plans
<1> QED BY <1>1, <1>4, <1>5 DEF PlanInv

\* Nor does a step that leaves the senders alone.
LEMMA OthersPlan ==
  ASSUME PlanInv, UNCHANGED << stripe, task >>
  PROVE  PlanInv'
<1>1. Whole' /\ OneRefundPerCharge'
  BY DEF PlanInv, Whole, OneRefundPerCharge
<1>2. \A t \in Senders : Plans(t)'
  BY DEF PlanInv, Plans, Tried, For
<1> QED BY <1>1, <1>2 DEF PlanInv

LEMMA WhatIsMade ==
  ASSUME PlanInv, NEW r \in Refunds
  PROVE  MadeFor(r, IntentsOf(r)[1]) = For(r)
  BY DEF PlanInv, Whole, MadeFor, For, On

LEMMA LookPlans ==
  ASSUME Solo, PlanInv, TypeInv, NEW s \in Senders, Look(s)
  PROVE  PlanInv'
<1> PICK r \in Refunds : r = task[s].refund
  BY DEF Look, TypeInv, TypeOK, NoTask
<1> DEFINE entry == [ intent |-> IntentsOf(r)[1], made |-> MadeFor(r, IntentsOf(r)[1]),
                      cents |-> IF MadeFor(r, IntentsOf(r)[1]) = {}
                                THEN Refundable(IntentsOf(r)[1])
                                ELSE Newest(MadeFor(r, IntentsOf(r)[1])).cents ]
           found == [ i \in 1 .. 1 |-> IF i < 1 THEN task[s].found[i] ELSE entry ]
           next  == Doing(IF Covers(r, found) THEN "send" ELSE "fail", r, 1, found, {})
<1>1. Last(r) = 1 /\ task[s].stage = "look" /\ task[s].at = 0 /\ stripe' = stripe
  <2>1. task[s].stage = "look" /\ Last(r) = 1 /\ stripe' = stripe
    BY
       DEF Look, Solo, OneRecord, OneCharge, NoDashboardRefunds, PromptSenders, BouncesWithoutClerks
  <2>2. task[s].at \in 0 .. Last(r) - 1
    BY <2>1 DEF TypeInv, TaskTypes, NoTask
  <2> QED BY <2>1, <2>2
<1>2. task' = [ task EXCEPT ![s] = next ]
  <2>1. task[s].at + 1 = 1 /\ ~(1 < Last(r))
    BY <1>1
  <2> QED BY <1>1, <2>1 DEF Look
<1>3. found[1] = entry
  OBVIOUS
<1>4. entry.intent = IntentsOf(r)[1] /\ entry.made = For(r)
  BY WhatIsMade
<1>5. entry.cents \in Int
  <2>1. stripe \subseteq Calls /\ IsFiniteSet(stripe) /\ IntentsOf(r)[1] \in Intents
    BY <1>1, PlacesOf DEF TypeInv, TypeOK
  <2>2. MadeFor(r, IntentsOf(r)[1]) \subseteq Calls
    BY <2>1 DEF MadeFor, For, On
  <2>3. Refundable(IntentsOf(r)[1]) \in Int
    BY <2>1, RefundableIsNumber
  <2>4. MadeFor(r, IntentsOf(r)[1]) # {} => Newest(MadeFor(r, IntentsOf(r)[1])).cents \in Int
    BY <2>2, NewestIsIn DEF Calls
  <2> QED BY <2>3, <2>4
<1>6. /\ next.stage \in { "send", "fail" } /\ next.at = 1 /\ next.refund = r
      /\ next.found = found
      /\ next.stage = "send" => Covers(r, found)
  BY DEF Doing
<1> HIDE DEF next, found, entry
<1>7. next.stage = "send" => Amount[r] <= entry.cents
  <2>1. Available(found, { 1 }) = found[1].cents
    BY <1>3, <1>5, FirstAvailable
  <2>2. 1 .. Last(r) = { 1 }
    BY <1>1
  <2> QED BY <1>3, <1>6, <2>1, <2>2 DEF Covers
<1>8. task'[s] = next /\ \A t \in Senders \ { s } : task'[t] = task[t]
  BY <1>2 DEF TypeInv, TaskTypes
<1>9. Whole' /\ OneRefundPerCharge'
  BY <1>1 DEF PlanInv, Whole, OneRefundPerCharge
<1>10. \A q : Tried(q)' = Tried(q) /\ For(q)' = For(q)
  BY <1>1 DEF Tried, For
<1>11. For(r) # {} => Tried(r)
  BY DEF For, Tried
<1> PICK seen : seen = next
  OBVIOUS
<1>12. Plans(s)'
  <2>1. /\ seen.found[1].intent = IntentsOf(r)[1] /\ seen.refund = r /\ seen.at = 1
        /\ seen.stage = "send" => Amount[r] <= seen.found[1].cents
        /\ IF seen.found[1].made = {} THEN For(r) = {} ELSE Tried(r)
    BY <1>3, <1>4, <1>6, <1>7, <1>11
  <2>2. task'[s] = seen
    BY <1>8
  <2> QED BY <1>10, <2>1, <2>2 DEF Plans
<1>13. ASSUME NEW t \in Senders \ { s } PROVE Plans(t)'
  BY <1>8, <1>10 DEF PlanInv, Plans
<1> QED BY <1>9, <1>12, <1>13 DEF PlanInv

\* At its only charge a sender sends all of the amount.
LEMMA SendsAll ==
  ASSUME Solo, PlanInv, TypeInv, NEW s \in Senders,
         task[s].stage = "send", task[s].at <= Last(task[s].refund)
  PROVE  /\ task[s].refund \in Refunds /\ task[s].at = 1
         /\ Amount[task[s].refund] \in Nat \ { 0 }
         /\ Share(task[s].refund, task[s].found, 1) = Amount[task[s].refund]
<1> PICK r : r = task[s].refund
  OBVIOUS
<1> PICK found : found = task[s].found
  OBVIOUS
<1>1. /\ r \in Refunds /\ task[s].at \in 1 .. Last(r) + 1
      /\ \A i \in 1 .. Last(r) : found[i] \in Entries
  BY DEF TypeInv, TaskTypes, NoTask
<1>2. Last(r) = 1 /\ task[s].at = 1
  <2>1. Last(r) = 1
    BY <1>1
       DEF Solo, OneRecord, OneCharge, NoDashboardRefunds, PromptSenders, BouncesWithoutClerks
  <2> QED BY <1>1, <2>1
<1>3. found[1].cents \in Int /\ Amount[r] \in Nat \ { 0 }
  BY <1>1, <1>2, RefundsAssumption DEF Entries
<1>4. Amount[r] <= found[1].cents
  BY <1>2 DEF PlanInv, Plans
<1>5. Gives(Share(r, found, 1), found[1].cents, Amount[r])
  BY <1>1, <1>3, FirstShare
<1>6. Share(r, found, 1) = Amount[r]
  BY <1>3, <1>4, <1>5 DEF Gives
<1> QED BY <1>1, <1>2, <1>3, <1>6

LEMMA AdoptPlans ==
  ASSUME Solo, PlanInv, TypeInv, NEW s \in Senders, Adopt(s)
  PROVE  PlanInv'
<1> PICK r : r = task[s].refund
  OBVIOUS
<1> PICK found : found = task[s].found
  OBVIOUS
<1>1. /\ task[s].stage = "send" /\ task[s].at <= Last(r) /\ stripe' = stripe
      /\ Share(r, found, task[s].at) = 0 \/ found[task[s].at].made # {}
      /\ \E sent : task' = [ task EXCEPT ![s] = Doing("send", r, task[s].at + 1, found, sent) ]
  BY DEF Adopt
<1>2. task[s].at = 1 /\ Share(r, found, 1) # 0
  BY <1>1, SendsAll
<1>3. Tried(r)
  BY <1>1, <1>2 DEF PlanInv, Plans
<1>4. PICK sent : task' = [ task EXCEPT ![s] = Doing("send", r, 2, found, sent) ]
  <2>1. task[s].at + 1 = 2
    BY <1>2
  <2> QED BY <1>1, <2>1
<1>5. task'[s] = Doing("send", r, 2, found, sent) /\ \A t \in Senders \ { s } : task'[t] = task[t]
  BY <1>4 DEF TypeInv, TaskTypes
<1>6. Whole' /\ OneRefundPerCharge'
  BY <1>1 DEF PlanInv, Whole, OneRefundPerCharge
<1>7. \A q : Tried(q)' = Tried(q) /\ For(q)' = For(q)
  BY <1>1 DEF Tried, For
<1>8. Plans(s)'
  BY <1>3, <1>5, <1>7 DEF Plans, Doing
<1>9. ASSUME NEW t \in Senders \ { s } PROVE Plans(t)'
  BY <1>5, <1>7 DEF PlanInv, Plans
<1> QED BY <1>6, <1>8, <1>9 DEF PlanInv

\* What a sender makes is all of the amount, of a record that has nothing under
\* way and nothing arrived.
AllOf(new, r) ==
  /\ new.refund = r /\ new.intent = IntentsOf(r)[1] /\ new.cents = Amount[r]
  /\ new.id = Cardinality(stripe) + 1 /\ new.status \in { "succeeded", "pending" }

LEMMA CreateMakes ==
  ASSUME Solo, PlanInv, TypeInv, NEW s \in Senders, Create(s)
  PROVE  /\ task[s].refund \in Refunds /\ For(task[s].refund) = {}
         /\ task[s].stage = "send" /\ reversed' = reversed
         /\ \E new :
              /\ AllOf(new, task[s].refund) /\ stripe' = stripe \cup { new }
              /\ \E next : /\ task' = [ task EXCEPT ![s] = next ]
                           /\ next.refund = task[s].refund
                           /\ next.stage = "send" => next.at = 2
<1> PICK r : r = task[s].refund
  OBVIOUS
<1> PICK found, sent : found = task[s].found /\ sent = task[s].sent
  OBVIOUS
<1>1. /\ task[s].stage = "send" /\ task[s].at <= Last(r)
      /\ found[task[s].at].made = {} /\ reversed' = reversed
  BY DEF Create
<1>2. /\ task[s].at = 1 /\ task[s].at + 1 = 2 /\ r \in Refunds
      /\ Share(r, found, 1) = Amount[r]
  BY <1>1, SendsAll
<1>3. For(r) = {} /\ found[1].intent = IntentsOf(r)[1]
  BY <1>1, <1>2 DEF PlanInv, Plans
<1>4. PICK status \in { "succeeded", "pending" } :
        LET new == Made(IntentsOf(r)[1], r, Amount[r], status)
        IN  /\ stripe' = stripe \cup { new }
            /\ \/ task' = [ task EXCEPT ![s] = Doing("send", r, 2, found, sent \cup { new }) ]
               \/ task' = [ task EXCEPT ![s] = Doing("fail", r, 0, << >>, {}) ]
  BY <1>2, <1>3 DEF Create
<1> DEFINE new == Made(IntentsOf(r)[1], r, Amount[r], status)
<1>5. AllOf(new, r)
  BY DEF AllOf, Made
<1>6. stripe' = stripe \cup { new }
  BY <1>4
<1> PICK made : made = new
  OBVIOUS
<1>7. \E next : /\ task' = [ task EXCEPT ![s] = next ]
                /\ next.refund = r
                /\ next.stage = "send" => next.at = 2
  <2> PICK sending : sending = Doing("send", r, 2, found, sent \cup { made })
    OBVIOUS
  <2> PICK failing : failing = Doing("fail", r, 0, << >>, {})
    OBVIOUS
  <2>1. task' = [ task EXCEPT ![s] = sending ] \/ task' = [ task EXCEPT ![s] = failing ]
    BY <1>4
  <2>2. sending.refund = r /\ sending.at = 2 /\ failing.refund = r /\ failing.stage # "send"
    BY DEF Doing
  <2> QED BY <2>1, <2>2
<1> HIDE DEF new
<1> QED BY <1>1, <1>2, <1>3, <1>5, <1>6, <1>7

LEMMA CreatePlans ==
  ASSUME Solo, Alone, PlanInv, TypeInv, NEW s \in Senders, Create(s)
  PROVE  PlanInv'
<1> PICK r : r = task[s].refund
  OBVIOUS
<1>1. r \in Refunds /\ For(r) = {} /\ task[s].stage = "send"
  BY CreateMakes
<1>2. PICK new, next :
        /\ AllOf(new, r) /\ stripe' = stripe \cup { new }
        /\ task' = [ task EXCEPT ![s] = next ] /\ next.refund = r
        /\ next.stage = "send" => next.at = 2
  BY CreateMakes
<1>3. task'[s] = next /\ \A t \in Senders \ { s } : task'[t] = task[t]
  BY <1>2 DEF TypeInv, TaskTypes
<1>4. IsFiniteSet(stripe) /\ Cardinality(stripe) \in Nat
  BY FS_CardinalityType DEF TypeInv
<1>5. \A x \in stripe : x.id \in Nat /\ x.id <= Cardinality(stripe)
  BY DEF TypeInv, TypeOK, Calls, PlanInv, Whole
<1>6. \A x \in stripe : x.id # new.id
  BY <1>2, <1>4, <1>5 DEF AllOf
<1>7. new \notin stripe
  BY <1>6
<1>8. Cardinality(stripe') = Cardinality(stripe) + 1
  BY <1>2, <1>4, <1>7, FS_AddElement
<1>9. Whole'
  <2>1. \A x \in stripe' : x.id <= Cardinality(stripe')
    <3> TAKE x \in stripe'
    <3>1. CASE x \in stripe
      BY <1>4, <1>5, <1>8, <3>1
    <3>2. CASE x = new
      BY <1>2, <1>4, <1>8, <3>2 DEF AllOf
    <3> QED BY <1>2, <3>1, <3>2
  <2>2. \A x \in stripe' : /\ x.refund \in Refunds /\ x.intent = IntentsOf(x.refund)[1]
                           /\ x.cents = Amount[x.refund]
    BY <1>1, <1>2 DEF PlanInv, Whole, AllOf
  <2>3. \A x, y \in stripe' : x.id = y.id => x = y
    BY <1>2, <1>6 DEF PlanInv, Whole
  <2> QED BY <2>1, <2>2, <2>3 DEF Whole
<1>10. OneRefundPerCharge'
  <2>1. \A x \in stripe : x.refund # r \/ x.status = "dead"
    BY <1>1 DEF For
  <2>2. \A x \in stripe' : x \in stripe \/ x = new
    BY <1>2
  <2> QED BY <1>2, <2>1, <2>2 DEF PlanInv, OneRefundPerCharge, AllOf
<1>11. Tried(r)'
  BY <1>2 DEF Tried, AllOf
<1>12. Plans(s)'
  BY <1>2, <1>3, <1>11 DEF Plans
<1>13. ASSUME NEW t \in Senders \ { s } PROVE Plans(t)'
  <2>1. task[t].stage # "send"
    <3> SUFFICES ASSUME task[t].stage = "send" PROVE FALSE
      OBVIOUS
    <3>1. task[t].refund \in Refunds
      BY DEF TypeInv, TaskTypes, NoTask
    <3>2. task[t].refund = r
      BY <1>1, <3>1
         DEF Solo, OneRecord, OneCharge, NoDashboardRefunds, PromptSenders, BouncesWithoutClerks
    <3> QED BY <1>1, <3>2 DEF Alone, Working
  <2> QED BY <1>3, <2>1 DEF Plans
<1> QED BY <1>9, <1>10, <1>12, <1>13 DEF PlanInv

\* A refund that is paid or sent back is the same refund otherwise.
SettledAs(x, y) ==
  /\ y.id = x.id /\ y.refund = x.refund /\ y.intent = x.intent /\ y.cents = x.cents
  /\ y.status \in { "succeeded", "dead" }

LEMMA SettleReplaces ==
  ASSUME PlanInv, TypeInv, NEW x \in stripe, Settle(x)
  PROVE  /\ x.status = "pending" /\ task' = task /\ reversed' = reversed
         /\ \E y : SettledAs(x, y) /\ y \notin stripe \ { x } /\ stripe' = (stripe \ { x }) \cup { y }
<1>1. PICK status \in { "succeeded", "dead" } :
        stripe' = (stripe \ { x }) \cup { [ x EXCEPT !.status = status ] }
  BY DEF Settle
<1> PICK y : y = [ x EXCEPT !.status = status ]
  OBVIOUS
<1>2. x \in Calls
  BY DEF TypeInv, TypeOK
<1>3. SettledAs(x, y)
  BY <1>2 DEF SettledAs, Calls
<1>4. y \notin stripe \ { x }
  BY <1>3 DEF SettledAs, PlanInv, Whole
<1>5. x.status = "pending" /\ task' = task /\ reversed' = reversed
  BY DEF Settle
<1> QED BY <1>1, <1>3, <1>4, <1>5

LEMMA SettlePlans ==
  ASSUME PlanInv, TypeInv, NEW x \in stripe, Settle(x)
  PROVE  PlanInv'
<1>1. x.status = "pending" /\ task' = task
  BY SettleReplaces
<1>2. PICK y : SettledAs(x, y) /\ y \notin stripe \ { x } /\ stripe' = (stripe \ { x }) \cup { y }
  BY SettleReplaces
<1>3. Cardinality(stripe') = Cardinality(stripe)
  <2> DEFINE rest == stripe \ { x }
  <2>1. IsFiniteSet(stripe) /\ Cardinality(stripe) \in Nat
    BY FS_CardinalityType DEF TypeInv
  <2>2. IsFiniteSet(rest) /\ Cardinality(rest) = Cardinality(stripe) - 1
    BY <2>1, FS_RemoveElement
  <2> HIDE DEF rest
  <2>3. y \notin rest /\ stripe' = rest \cup { y }
    BY <1>2 DEF rest
  <2>4. Cardinality(stripe') = Cardinality(rest) + 1
    BY <2>2, <2>3, FS_AddElement
  <2> QED BY <2>1, <2>2, <2>4
<1>4. Whole'
  BY <1>2, <1>3 DEF PlanInv, Whole, SettledAs
<1>5. OneRefundPerCharge'
  BY <1>1, <1>2 DEF PlanInv, OneRefundPerCharge, SettledAs
<1>6. \A r : (Tried(r) => Tried(r)') /\ (For(r) = {} => For(r)' = {})
  BY <1>1, <1>2 DEF Tried, For, SettledAs
<1>7. ASSUME NEW t \in Senders PROVE Plans(t)'
  BY <1>1, <1>6 DEF PlanInv, Plans
<1> QED BY <1>4, <1>5, <1>7 DEF PlanInv

LEMMA StepPlans ==
  ASSUME Solo
  PROVE  Alone /\ PlanInv /\ TypeInv /\ [Next]_vars => PlanInv'
<1> SUFFICES ASSUME Alone, PlanInv, TypeInv, [Next]_vars PROVE PlanInv'
  OBVIOUS
<1>1. ASSUME NEW s \in Senders,
             \/ \E r \in Refunds : Pick(s, r)
             \/ Claim(s) \/ Refuse(s) \/ SaveFailure(s) \/ Finish(s) \/ Crash(s)
      PROVE  PlanInv'
  <2>1. /\ stripe' = stripe
        /\ \/ \E r : task' = [ task EXCEPT ![s] = Doing("claim", r, 0, << >>, {}) ]
           \/ \E r : task' = [ task EXCEPT ![s] = Doing("look", r, 0, << >>, {}) ]
           \/ \E r : task' = [ task EXCEPT ![s] = Doing("fail", r, 0, << >>, {}) ]
           \/ task' = [ task EXCEPT ![s] = NoTask ]
    BY <1>1 DEF Pick, Claim, Refuse, SaveFailure, Finish, Crash
  <2>2. \A r : /\ Doing("claim", r, 0, << >>, {}).stage # "send"
               /\ Doing("look", r, 0, << >>, {}).stage # "send"
               /\ Doing("fail", r, 0, << >>, {}).stage # "send"
    BY DEF Doing
  <2>3. NoTask.stage # "send"
    BY DEF NoTask
  <2>4. PICK next : task' = [ task EXCEPT ![s] = next ] /\ next.stage # "send"
    BY <2>1, <2>2, <2>3, Zenon
  <2> QED BY <2>1, <2>4, OnePlans
<1>2. ASSUME NEW s \in Senders, Look(s) \/ Adopt(s) \/ Create(s) PROVE PlanInv'
  BY <1>2, LookPlans, AdoptPlans, CreatePlans
<1>3. ASSUME NEW s \in Senders, PassOver(s) PROVE PlanInv'
  BY <1>3, OthersPlan DEF PassOver
<1>4. CASE \/ List \/ PayOut \/ DropEvent \/ WriteUpdate \/ WriteCharge \/ UNCHANGED vars
           \/ \E x \in stripe : ReadUpdate(x) \/ ReadCharge(x)
           \/ \E r \in Refunds : Age(r)
  BY <1>4, OthersPlan DEF List, PayOut, DropEvent, WriteUpdate, WriteCharge, vars, ReadUpdate,
     ReadCharge, Age
<1>5. ASSUME NEW x \in stripe, Settle(x) PROVE PlanInv'
  BY <1>5, SettlePlans
<1>6. CASE \E intent \in Intents : Dashboard(intent)
  BY <1>6
     DEF Dashboard, Solo, OneRecord, OneCharge, NoDashboardRefunds, PromptSenders, BouncesWithoutClerks
<1> QED BY <1>1, <1>2, <1>3, <1>4, <1>5, <1>6 DEF Next

\* What the inductive argument rests on, with and without clerks.
SoloInv == TypeInv /\ PlanInv /\ (Careful => SendInv) /\ (Clerks = {} => LoopInv)

LEMMA SoloAlone == Solo /\ SoloInv => Alone
<1>1. Solo => Careful \/ Clerks = {}
  BY
     DEF Solo, OneRecord, OneCharge, NoDashboardRefunds, PromptSenders, BouncesWithoutClerks, Careful
<1>2. SendInv => Alone
  BY DEF SendInv, Exclusive, Alone
<1> QED BY <1>1, <1>2, LoopAlone DEF SoloInv

LEMMA SoloHolds ==
  ASSUME Solo
  PROVE  Spec => []SoloInv
<1>1. Init => SoloInv
  BY InitTypes, InitPlan, InitSend, InitLoop DEF SoloInv
<1>2. SoloInv /\ [Next]_vars => SoloInv'
  <2> SUFFICES ASSUME SoloInv, [Next]_vars PROVE SoloInv'
    OBVIOUS
  <2>1. TypeInv'
    BY TypesStay DEF SoloInv
  <2>2. PlanInv'
    BY SoloAlone, StepPlans DEF SoloInv
  <2>3. Careful' => SendInv'
    BY SendStays DEF SoloInv, Careful
  <2>4. Clerks' = {} => LoopInv'
    BY <2>1, StepLoop
       DEF SoloInv, Solo, OneRecord, OneCharge, NoDashboardRefunds, PromptSenders, BouncesWithoutClerks
  <2> QED BY <2>1, <2>2, <2>3, <2>4 DEF SoloInv
<1> QED BY <1>1, <1>2, PTL DEF Spec

-----------------------------------------------------------------------------
(* The money of a record, counted                                          *)

Counted(r) ==
  /\ OnTheWay(r) \in Nat /\ Arrived(r) \in Nat /\ Bounced(r) \in Nat
  /\ For(r) = {} => OnTheWay(r) = 0 /\ Arrived(r) = 0
  /\ \A x : For(r) = { x } =>
       /\ x.status = "pending" => OnTheWay(r) = Amount[r] /\ Arrived(r) = 0
       /\ x.status = "succeeded" => OnTheWay(r) = 0 /\ Arrived(r) = Amount[r]

LEMMA MoneyOf ==
  ASSUME PlanInv, TypeInv, NEW r \in Refunds
  PROVE  Counted(r)
<1>2. /\ IsFiniteSet(stripe)
      /\ \A x \in stripe : x.cents \in Nat /\ (x.refund = r => x.cents = Amount[r])
  BY DEF TypeInv, TypeOK, Calls, PlanInv, Whole
<1>3. \A xs \in SUBSET stripe : Cents(xs) \in Nat
  <2> TAKE xs \in SUBSET stripe
  <2>1. IsFiniteSet(xs)
    BY <1>2, FS_Subset
  <2> QED BY <1>2, <2>1, CentsAreNatural
<1>4. OnTheWay(r) \in Nat /\ Arrived(r) \in Nat /\ Bounced(r) \in Nat
  <2>1. /\ { x \in For(r) : x.status = "pending" } \in SUBSET stripe
        /\ { x \in For(r) : x.status = "succeeded" } \in SUBSET stripe
        /\ { x \in stripe : x.refund = r /\ x.status = "dead" } \in SUBSET stripe
    BY DEF For
  <2> QED BY <1>3, <2>1 DEF OnTheWay, Arrived, Bounced
<1>5. For(r) = {} => OnTheWay(r) = 0 /\ Arrived(r) = 0
  <2> HAVE For(r) = {}
  <2>1. /\ { x \in For(r) : x.status = "pending" } = {}
        /\ { x \in For(r) : x.status = "succeeded" } = {}
    OBVIOUS
  <2> QED BY <2>1, SumOfNoCents DEF OnTheWay, Arrived
<1>6. ASSUME NEW x, For(r) = { x }
      PROVE  /\ x.status = "pending" => OnTheWay(r) = Amount[r] /\ Arrived(r) = 0
             /\ x.status = "succeeded" => OnTheWay(r) = 0 /\ Arrived(r) = Amount[r]
  <2>1. x \in For(r) /\ x.cents = Amount[r] /\ x.cents \in Nat
    BY <1>2, <1>6 DEF For
  <2>2. Cents({ x }) = Amount[r] /\ Cents({}) = 0
    BY <2>1, CentsOfOne, SumOfNoCents
  <2>3. x.status = "pending" =>
          /\ { z \in For(r) : z.status = "pending" } = { x }
          /\ { z \in For(r) : z.status = "succeeded" } = {}
    BY <1>6
  <2>4. x.status = "succeeded" =>
          /\ { z \in For(r) : z.status = "pending" } = {}
          /\ { z \in For(r) : z.status = "succeeded" } = { x }
    BY <1>6
  <2> QED BY <2>2, <2>3, <2>4 DEF OnTheWay, Arrived
<1> QED BY <1>4, <1>5, <1>6 DEF Counted

\* Once something was made for a record, all of it is under way, has arrived or
\* has come back.
LEMMA TriedIsAll ==
  ASSUME PlanInv, TypeInv, NEW r \in Refunds, Tried(r)
  PROVE  OnTheWay(r) + Arrived(r) + Bounced(r) >= Amount[r]
<1>1. PICK x \in stripe : x.refund = r
  BY DEF Tried
<1>2. /\ x.cents = Amount[r] /\ x.cents \in Nat
      /\ x.status \in { "pending", "succeeded", "dead" }
  BY <1>1 DEF TypeInv, TypeOK, Calls, PlanInv, Whole
<1>3. /\ Amount[r] \in Nat
      /\ OnTheWay(r) \in Nat /\ Arrived(r) \in Nat /\ Bounced(r) \in Nat
  BY MoneyOf, RefundsAssumption DEF Counted
<1>4. CASE x.status # "dead"
  <2>1. r # 0
    BY RefundsAssumption
  <2>2. For(r) = { x }
    BY <1>1, <1>4, <2>1 DEF For, PlanInv, OneRefundPerCharge, Whole
  <2>3. OnTheWay(r) = Amount[r] \/ Arrived(r) = Amount[r]
    BY <1>2, <1>4, <2>2, MoneyOf DEF Counted
  <2> QED BY <1>3, <2>3
<1>5. CASE x.status = "dead"
  <2> DEFINE back == { z \in stripe : z.refund = r /\ z.status = "dead" }
             rest == back \ { x }
  <2>1. IsFiniteSet(back) /\ \A z \in back : z.cents \in Nat
    BY FS_Subset DEF TypeInv, TypeOK, Calls
  <2>2. x \in back /\ rest \cup { x } = back /\ x \notin rest
    BY <1>1, <1>5
  <2>3. IsFiniteSet(rest)
    BY <2>1, FS_RemoveElement
  <2>4. \A z \in rest \cup { x } : z.cents \in Nat
    BY <2>1, <2>2
  <2>5. Bounced(r) = Cents(back)
    BY DEF Bounced
  <2> HIDE DEF rest, back
  <2>6. Cents(back) = Cents(rest) + x.cents
    BY <2>2, <2>3, <2>4, OneMoreRefund
  <2>7. Cents(rest) \in Nat
    <3>1. \A z \in rest : z.cents \in Nat
      BY <2>4
    <3> QED BY <2>3, <3>1, CentsAreNatural
  <2> QED BY <1>2, <1>3, <2>5, <2>6, <2>7
<1> QED BY <1>4, <1>5

LEMMA MoneyBeforeAndAfter ==
  SoloInv /\ SoloInv' => \A r \in Refunds : Counted(r) /\ Counted(r)'
<1>1. SoloInv => \A r \in Refunds : Counted(r)
  BY MoneyOf DEF SoloInv
<1>2. SoloInv' => (\A r \in Refunds : Counted(r))'
  BY <1>1, PTL
<1> QED BY <1>1, <1>2

-----------------------------------------------------------------------------
(* Every step is one of the promise, or none of its concern                *)

Amounts(r) == << OnTheWay(r), Arrived(r), Bounced(r) >>

\* A step that moves the money of the only record.
LEMMA MoneyMoves ==
  ASSUME Solo, NEW r \in Refunds, reversed' = reversed, NEW c \in Nat \ { 0 },
         Amount[r] = c, NEW b \in Nat,
         \/ Amounts(r) = << 0, 0, b >> /\ Amounts(r)' = << c, 0, b >>
         \/ Amounts(r) = << 0, 0, b >> /\ Amounts(r)' = << 0, c, b >>
         \/ Amounts(r) = << c, 0, b >> /\ Amounts(r)' = << 0, c, b >>
         \/ Amounts(r) = << c, 0, b >> /\ Amounts(r)' = << 0, 0, b + c >>
  PROVE  Promise!Next
<1>1. \A q \in Refunds : q = r
  BY
     DEF Solo, OneRecord, OneCharge, NoDashboardRefunds, PromptSenders, BouncesWithoutClerks
<1>2. CASE Amounts(r) = << 0, 0, b >> /\ Amounts(r)' \in { << c, 0, b >>, << 0, c, b >> }
  <2>1. c \in 1 .. Amount[r] - OnTheWay(r) - Arrived(r)
    BY <1>2 DEF Amounts
  <2>2. Promise!Send(r)
    BY <1>1, <1>2, <2>1 DEF Amounts, Promise!Send
  <2> QED BY <2>2 DEF Promise!Next
<1>3. CASE Amounts(r) = << c, 0, b >> /\ Amounts(r)' = << 0, c, b >>
  <2>1. c \in 1 .. OnTheWay(r)
    BY <1>3 DEF Amounts
  <2>2. Promise!Arrive(r)
    BY <1>1, <1>3, <2>1 DEF Amounts, Promise!Arrive
  <2> QED BY <2>2 DEF Promise!Next
<1>4. CASE Amounts(r) = << c, 0, b >> /\ Amounts(r)' = << 0, 0, b + c >>
  <2>1. c \in 1 .. OnTheWay(r)
    BY <1>4 DEF Amounts
  <2>2. \A q \in Refunds : /\ OnTheWay(q)' = OnTheWay(q) - c /\ Bounced(q)' = Bounced(q) + c
                           /\ Arrived(q)' = Arrived(q)
    BY <1>1, <1>4 DEF Amounts
  <2>3. Promise!Bounce(r)
    BY <1>1, <2>1, <2>2 DEF Promise!Bounce
  <2> QED BY <2>3 DEF Promise!Next
<1> QED BY <1>2, <1>3, <1>4

LEMMA AmountsStay ==
  ASSUME stripe' = stripe
  PROVE  \A r : OnTheWay(r)' = OnTheWay(r) /\ Arrived(r)' = Arrived(r) /\ Bounced(r)' = Bounced(r)
  BY DEF OnTheWay, Arrived, Bounced, For

LEMMA QuietKeeps ==
  ASSUME stripe' = stripe, reversed' = reversed
  PROVE  [Promise!Next]_(Promise!vars)
  BY AmountsStay DEF Promise!vars

\* The ledger is reversed for a record that something was made for.
LEMMA ReversesKeep ==
  ASSUME SoloInv, stripe' = stripe, NEW r \in Refunds, Tried(r), reversed' = reversed \cup { r }
  PROVE  [Promise!Next]_(Promise!vars)
<1>1. OnTheWay(r) + Arrived(r) + Bounced(r) >= Amount[r]
  BY TriedIsAll DEF SoloInv
<1>2. Promise!Reverse(r)
  BY <1>1, AmountsStay DEF Promise!Reverse
<1> QED BY <1>2 DEF Promise!Next

LEMMA CreateKeeps ==
  ASSUME Solo, SoloInv, SoloInv', NEW s \in Senders, Create(s)
  PROVE  [Promise!Next]_(Promise!vars)
<1> PICK r : r = task[s].refund
  OBVIOUS
<1>1. r \in Refunds /\ For(r) = {} /\ reversed' = reversed
  BY CreateMakes DEF SoloInv
<1>2. PICK new : AllOf(new, r) /\ stripe' = stripe \cup { new }
  BY CreateMakes DEF SoloInv
<1>3. For(r)' = { new }
  BY <1>1, <1>2 DEF For, AllOf
<1>4. Bounced(r)' = Bounced(r)
  <2>1. { x \in stripe' : x.refund = r /\ x.status = "dead" }
          = { x \in stripe : x.refund = r /\ x.status = "dead" }
    BY <1>2 DEF AllOf
  <2> QED BY <2>1 DEF Bounced
<1>5. Counted(r) /\ Counted(r)'
  BY <1>1, MoneyBeforeAndAfter
<1>6. OnTheWay(r) = 0 /\ Arrived(r) = 0 /\ Bounced(r) \in Nat
  BY <1>1, <1>5 DEF Counted
<1>7. \/ OnTheWay(r)' = Amount[r] /\ Arrived(r)' = 0
      \/ OnTheWay(r)' = 0 /\ Arrived(r)' = Amount[r]
  BY <1>2, <1>3, <1>5 DEF Counted, AllOf
<1>8. Amount[r] \in Nat \ { 0 }
  BY <1>1, RefundsAssumption
<1> QED BY <1>1, <1>4, <1>6, <1>7, <1>8, MoneyMoves DEF Amounts

LEMMA SettleKeeps ==
  ASSUME Solo, SoloInv, SoloInv', NEW x \in stripe, Settle(x)
  PROVE  [Promise!Next]_(Promise!vars)
<1> PICK r : r = x.refund
  OBVIOUS
<1>1. x.status = "pending" /\ reversed' = reversed
  BY SettleReplaces DEF SoloInv
<1>2. PICK y : SettledAs(x, y) /\ y \notin stripe \ { x } /\ stripe' = (stripe \ { x }) \cup { y }
  BY SettleReplaces DEF SoloInv
<1>3. r \in Refunds /\ r # 0 /\ x.cents = Amount[r] /\ Amount[r] \in Nat \ { 0 }
  BY RefundsAssumption DEF SoloInv, PlanInv, Whole
<1>4. For(r) = { x }
  BY <1>1, <1>3 DEF For, SoloInv, PlanInv, OneRefundPerCharge, Whole
<1>5. Counted(r) /\ Counted(r)'
  BY <1>3, MoneyBeforeAndAfter
<1>6. OnTheWay(r) = Amount[r] /\ Arrived(r) = 0 /\ Bounced(r) \in Nat
  BY <1>1, <1>4, <1>5 DEF Counted
<1> DEFINE back == { z \in stripe : z.refund = r /\ z.status = "dead" }
<1>7. CASE y.status = "succeeded"
  <2>1. For(r)' = { y }
    BY <1>2, <1>4, <1>7 DEF For, SettledAs
  <2>2. OnTheWay(r)' = 0 /\ Arrived(r)' = Amount[r]
    BY <1>5, <1>7, <2>1 DEF Counted
  <2>3. { z \in stripe' : z.refund = r /\ z.status = "dead" } = back
    BY <1>1, <1>2, <1>7
  <2>4. Bounced(r)' = Bounced(r)
    BY <2>3 DEF Bounced
  <2> QED BY <1>1, <1>3, <1>6, <2>2, <2>4, MoneyMoves DEF Amounts
<1>8. CASE y.status = "dead"
  <2>1. For(r)' = {}
    BY <1>2, <1>4, <1>8 DEF For, SettledAs
  <2>2. OnTheWay(r)' = 0 /\ Arrived(r)' = 0
    BY <1>5, <2>1 DEF Counted
  <2>3. { z \in stripe' : z.refund = r /\ z.status = "dead" } = back \cup { y }
    BY <1>1, <1>2, <1>8 DEF SettledAs
  <2>4. y \notin back
    BY <1>1, <1>2
  <2>5. IsFiniteSet(back) /\ \A z \in back \cup { y } : z.cents \in Nat
    <3>1. IsFiniteSet(stripe) /\ \A z \in stripe : z.cents \in Nat
      BY DEF SoloInv, TypeInv, TypeOK, Calls
    <3>2. y.cents \in Nat
      BY <1>2, <1>3 DEF SettledAs
    <3> QED BY <3>1, <3>2, FS_Subset
  <2>6. Bounced(r) = Cents(back) /\ Bounced(r)' = Cents(back \cup { y })
    BY <2>3 DEF Bounced
  <2> HIDE DEF back
  <2>7. Cents(back \cup { y }) = Cents(back) + y.cents
    BY <2>4, <2>5, OneMoreRefund
  <2>8. Bounced(r)' = Bounced(r) + Amount[r]
    BY <1>2, <1>3, <2>6, <2>7 DEF SettledAs
  <2> QED BY <1>1, <1>3, <1>6, <2>2, <2>8, MoneyMoves DEF Amounts
<1> QED BY <1>2, <1>7, <1>8 DEF SettledAs

\* An event is about a refund that was made.
LEMMA EventsAreTold ==
  ASSUME Solo, SoloInv, event # NoEvent, NEW r \in Refunds
  PROVE  Tried(r)
<1>1. PICK x \in stripe : TRUE
  BY DEF SoloInv, TypeInv, TypeOK
<1>2. x.refund \in Refunds
  BY DEF SoloInv, PlanInv, Whole
<1> QED BY <1>1, <1>2
   DEF Tried, Solo, OneRecord, OneCharge, NoDashboardRefunds, PromptSenders, BouncesWithoutClerks

LEMMA StepKeeps ==
  ASSUME Solo
  PROVE  SoloInv /\ SoloInv' /\ [Next]_vars => [Promise!Next]_(Promise!vars)
<1> SUFFICES ASSUME SoloInv, SoloInv', [Next]_vars PROVE [Promise!Next]_(Promise!vars)
  OBVIOUS
<1>1. ASSUME NEW s \in Senders,
             \/ \E r \in Refunds : Pick(s, r)
             \/ PassOver(s) \/ Claim(s) \/ Look(s) \/ Adopt(s)
             \/ Refuse(s) \/ SaveFailure(s) \/ Crash(s)
      PROVE  [Promise!Next]_(Promise!vars)
  <2>1. stripe' = stripe /\ reversed' = reversed
    BY <1>1 DEF Pick, PassOver, Claim, Look, Adopt, Refuse, SaveFailure, Crash
  <2> QED BY <2>1, QuietKeeps
<1>2. ASSUME NEW s \in Senders, Create(s) PROVE [Promise!Next]_(Promise!vars)
  BY <1>2, CreateKeeps
<1>3. ASSUME NEW s \in Senders, Finish(s) PROVE [Promise!Next]_(Promise!vars)
  <2> PICK r : r = task[s].refund
    OBVIOUS
  <2>1. /\ task[s].stage = "send" /\ task[s].at > Last(r) /\ stripe' = stripe
        /\ reversed' = reversed \/ reversed' = reversed \cup { r }
    BY <1>3 DEF Finish
  <2>2. r \in Refunds /\ task[s].at \in 1 .. Last(r) + 1
    BY <2>1 DEF SoloInv, TypeInv, TaskTypes, NoTask
  <2>3. task[s].at = 2
    BY <2>1, <2>2
       DEF Solo, OneRecord, OneCharge, NoDashboardRefunds, PromptSenders, BouncesWithoutClerks
  <2>4. Tried(r)
    BY <2>1, <2>3 DEF SoloInv, PlanInv, Plans
  <2> QED BY <2>1, <2>2, <2>4, QuietKeeps, ReversesKeep
<1>4. CASE WriteUpdate
  <2> PICK r : r = event.about.refund
    OBVIOUS
  <2>1. /\ event # NoEvent /\ event.kind = "update" /\ stripe' = stripe
        /\ reversed' = reversed \/ reversed' = reversed \cup { r }
    BY <1>4 DEF WriteUpdate, NoEvent
  <2>2. r \in Refunds
    BY <2>1 DEF SoloInv, TypeInv, EventTypes
  <2> QED BY <2>1, <2>2, EventsAreTold, QuietKeeps, ReversesKeep
<1>5. CASE WriteCharge
  <2> PICK r : r = Min(Waiting)
    OBVIOUS
  <2>1. /\ event # NoEvent /\ stripe' = stripe
        /\ reversed' = reversed \/ (Waiting # {} /\ reversed' = reversed \cup { r })
    BY <1>5 DEF WriteCharge, NoEvent
  <2>2. Waiting # {} => r \in Refunds
    BY OldestWaits DEF Waiting
  <2> QED BY <2>1, <2>2, EventsAreTold, QuietKeeps, ReversesKeep
<1>6. CASE \/ List \/ PayOut \/ DropEvent \/ UNCHANGED vars
           \/ \E x \in stripe : ReadUpdate(x) \/ ReadCharge(x)
           \/ \E r \in Refunds : Age(r)
  <2>1. stripe' = stripe /\ reversed' = reversed
    BY <1>6 DEF List, PayOut, DropEvent, vars, ReadUpdate, ReadCharge, Age
  <2> QED BY <2>1, QuietKeeps
<1>7. ASSUME NEW x \in stripe, Settle(x) PROVE [Promise!Next]_(Promise!vars)
  BY <1>7, SettleKeeps
<1>8. CASE \E intent \in Intents : Dashboard(intent)
  BY <1>8
     DEF Dashboard, Solo, OneRecord, OneCharge, NoDashboardRefunds, PromptSenders, BouncesWithoutClerks
<1> QED BY <1>1, <1>2, <1>3, <1>4, <1>5, <1>6, <1>7, <1>8 DEF Next

\* For a booking with one refund from one charge, where nobody refunds by hand,
\* senders are in time and bounced refunds do not meet a clerk, the senders, the
\* webhook worker and the bank together implement RefundPromise: money is given to
\* the bank only when none is under way or arrived, it is never more than is owed,
\* and the commission ledger is reversed only when all of it was given, whatever
\* crashes and however late or often Stripe's events come.  Of processStripeRefund,
\* applyStripeRefundUpdate and completeProviderRefund.
THEOREM SendersKeepPromise ==
  ASSUME OneRecord, OneCharge, NoDashboardRefunds, PromptSenders, BouncesWithoutClerks
  PROVE  Spec => KeepsPromise
<1>0. Solo
  BY DEF Solo
<1>1. Init => Promise!Init
  <2> SUFFICES ASSUME Init PROVE Promise!Init
    OBVIOUS
  <2>1. ASSUME NEW r \in Refunds PROVE OnTheWay(r) = 0 /\ Arrived(r) = 0 /\ Bounced(r) = 0
    <3>1. /\ { x \in For(r) : x.status = "pending" } = {}
          /\ { x \in For(r) : x.status = "succeeded" } = {}
          /\ { x \in stripe : x.refund = r /\ x.status = "dead" } = {}
      BY DEF Init, For
    <3> QED BY <3>1, SumOfNoCents DEF OnTheWay, Arrived, Bounced
  <2> QED BY <2>1 DEF Init, Promise!Init
<1>2. SoloInv /\ SoloInv' /\ [Next]_vars => [Promise!Next]_(Promise!vars)
  BY <1>0, StepKeeps
<1>3. Spec => []SoloInv
  BY <1>0, SoloHolds
<1> QED BY <1>1, <1>2, <1>3, PTL DEF Spec, KeepsPromise, Promise!Spec
=============================================================================

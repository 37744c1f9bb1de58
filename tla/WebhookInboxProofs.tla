------------------------- MODULE WebhookInboxProofs -------------------------
(***************************************************************************)
(* Theorems about WebhookInbox, for any events, any batch size and any     *)
(* number of passes: a processed event was applied, one pass has an event  *)
(* in hand, and a processed event stays processed and is not applied again.*)
(***************************************************************************)
EXTENDS WebhookInbox, TLAPS

\* A pass has at most one event in hand, and works without the lock only on
\* events that the history remembers as late.
Hands ==
  /\ \A p \in Passes : \A d, e \in hand[p] : d = e
  /\ \A p \in Passes : p # lock => hand[p] \subseteq late

\* What a pass has applied and not written yet was applied.
DidApply == \A p \in Passes : did[p] => \A e \in hand[p] : applied[e] > 0

\* An event in the hands of the pass that holds the lock is marked as such, and no
\* list still names an event that was processed.
RowsAgree ==
  /\ \A p \in Passes : \A e \in hand[p] \ late : row[e].status = "PROCESSING"
  /\ \A p \in Passes : \A e \in listed[p] : row[e].status # "PROCESSED"

\* The inductive invariant.
IInv == TypeOK /\ Hands /\ DidApply /\ RowsAgree /\ ProcessedWasApplied

-----------------------------------------------------------------------------
LEMMA InitIInv == Init => IInv
  BY NoPassIsNone DEF Init, IInv, TypeOK, Hands, DidApply, RowsAgree, ProcessedWasApplied, Rows

LEMMA HandsOfTwoAreLate == IInv => HeldByOne
  BY DEF IInv, TypeOK, Hands, HeldByOne

LEMMA TypeStep == TypeOK /\ [Next]_vars => TypeOK'
<1> SUFFICES ASSUME TypeOK, [Next]_vars PROVE TypeOK'
  OBVIOUS
<1> USE NoPassIsNone DEF TypeOK, Rows
<1>1. ASSUME NEW e \in Events, Receive(e) PROVE TypeOK'
  BY <1>1 DEF Receive, Stored
<1>2. ASSUME NEW e \in Events, Due(e) PROVE TypeOK'
  BY <1>2 DEF Due
<1>3. ASSUME NEW e \in Events, Stale(e) PROVE TypeOK'
  BY <1>3 DEF Stale
<1>4. ASSUME NEW p \in Passes, LoseLock(p) PROVE TypeOK'
  BY <1>4 DEF LoseLock
<1>5. ASSUME NEW p \in Passes, BeginPass(p) PROVE TypeOK'
  BY <1>5 DEF BeginPass, Oldest
<1>6. ASSUME NEW p \in Passes, ClaimEvent(p) PROVE TypeOK'
  BY <1>6 DEF ClaimEvent, IsNext, UnlistedBy
<1>7. ASSUME NEW p \in Passes, Apply(p) PROVE TypeOK'
  BY <1>7 DEF Apply
<1>8. ASSUME NEW p \in Passes, NEW e \in hand[p], NEW s \in {"PROCESSED", "FAILED"},
             Put(p, e, s)
      PROVE  TypeOK'
  BY <1>8 DEF Put, Unlisted
<1>9. ASSUME NEW p \in Passes, Finish(p) PROVE TypeOK'
  BY <1>8, <1>9 DEF Finish
<1>10. ASSUME NEW p \in Passes, Fail(p) PROVE TypeOK'
  BY <1>8, <1>10 DEF Fail
<1>11. ASSUME NEW p \in Passes, EndPass(p) PROVE TypeOK'
  BY <1>11 DEF EndPass
<1>12. ASSUME NEW p \in Passes, Crash(p) PROVE TypeOK'
  BY <1>12 DEF Crash
<1>13. CASE UNCHANGED vars
  BY <1>13 DEF vars
<1> QED
  BY <1>1, <1>2, <1>3, <1>4, <1>5, <1>6, <1>7, <1>9, <1>10, <1>11, <1>12, <1>13 DEF Next

LEMMA HandsStep == TypeOK /\ Hands /\ [Next]_vars => Hands'
<1> SUFFICES ASSUME TypeOK, Hands, [Next]_vars PROVE Hands'
  OBVIOUS
<1> USE NoPassIsNone DEF TypeOK, Hands
<1>1. ASSUME NEW e \in Events, Receive(e) \/ Due(e) \/ Stale(e) PROVE Hands'
  BY <1>1 DEF Receive, Due, Stale
<1>2. ASSUME NEW p \in Passes, LoseLock(p) \/ BeginPass(p) \/ Apply(p) PROVE Hands'
  BY <1>2 DEF LoseLock, BeginPass, FreeFor, Apply
<1>3. ASSUME NEW p \in Passes, ClaimEvent(p) PROVE Hands'
  BY <1>3 DEF ClaimEvent
<1>4. ASSUME NEW p \in Passes, NEW e \in hand[p], NEW s, Put(p, e, s) PROVE Hands'
  BY <1>4 DEF Put
<1>5. ASSUME NEW p \in Passes, Finish(p) \/ Fail(p) PROVE Hands'
  BY <1>4, <1>5 DEF Finish, Fail
<1>6. ASSUME NEW p \in Passes, EndPass(p) \/ Crash(p) PROVE Hands'
  BY <1>6 DEF EndPass, Crash
<1>7. CASE UNCHANGED vars
  BY <1>7 DEF vars
<1> QED
  BY <1>1, <1>2, <1>3, <1>5, <1>6, <1>7 DEF Next

LEMMA DidApplyStep == TypeOK /\ Hands /\ DidApply /\ [Next]_vars => DidApply'
<1> SUFFICES ASSUME TypeOK, Hands, DidApply, [Next]_vars PROVE DidApply'
  OBVIOUS
<1> USE DEF TypeOK, DidApply
<1>1. ASSUME NEW e \in Events, Receive(e) \/ Due(e) \/ Stale(e) PROVE DidApply'
  BY <1>1 DEF Receive, Due, Stale
<1>2. ASSUME NEW p \in Passes, LoseLock(p) \/ BeginPass(p) \/ ClaimEvent(p) PROVE DidApply'
  BY <1>2 DEF LoseLock, BeginPass, ClaimEvent
<1>3. ASSUME NEW p \in Passes, Apply(p) PROVE DidApply'
  <2>1. PICK e \in hand[p] \ Poison :
          /\ did' = [ did EXCEPT ![p] = TRUE ]
          /\ applied' = [ applied EXCEPT ![e] = IF @ < 2 THEN @ + 1 ELSE @ ]
          /\ UNCHANGED hand
    BY <1>3 DEF Apply
  <2>2. applied'[e] > 0 /\ \A d \in Events : applied[d] > 0 => applied'[d] > 0
    BY <2>1
  <2>3. \A d \in hand[p] : d = e
    BY <2>1 DEF Hands
  <2> QED
    BY <2>1, <2>2, <2>3
<1>4. ASSUME NEW p \in Passes, NEW e \in hand[p], NEW s, Put(p, e, s) PROVE DidApply'
  BY <1>4 DEF Put
<1>5. ASSUME NEW p \in Passes, Finish(p) \/ Fail(p) PROVE DidApply'
  BY <1>4, <1>5 DEF Finish, Fail
<1>6. ASSUME NEW p \in Passes, EndPass(p) \/ Crash(p) PROVE DidApply'
  BY <1>6 DEF EndPass, Crash
<1>7. CASE UNCHANGED vars
  BY <1>7 DEF vars
<1> QED
  BY <1>1, <1>2, <1>3, <1>5, <1>6, <1>7 DEF Next

LEMMA ProcessedStep == IInv /\ [Next]_vars => ProcessedWasApplied'
<1> SUFFICES ASSUME IInv, [Next]_vars PROVE ProcessedWasApplied'
  OBVIOUS
<1> USE DEF IInv, TypeOK, Rows, ProcessedWasApplied
<1>1. ASSUME NEW e \in Events, Receive(e) \/ Due(e) \/ Stale(e) PROVE ProcessedWasApplied'
  BY <1>1 DEF Receive, Stored, Due, Stale
<1>2. ASSUME NEW p \in Passes, LoseLock(p) \/ BeginPass(p) PROVE ProcessedWasApplied'
  BY <1>2 DEF LoseLock, BeginPass
<1>3. ASSUME NEW p \in Passes, ClaimEvent(p) PROVE ProcessedWasApplied'
  BY <1>3 DEF ClaimEvent, IsNext
<1>4. ASSUME NEW p \in Passes, Apply(p) PROVE ProcessedWasApplied'
  BY <1>4 DEF Apply
<1>5. ASSUME NEW p \in Passes, Finish(p) PROVE ProcessedWasApplied'
  BY <1>5 DEF Finish, Put, DidApply
<1>6. ASSUME NEW p \in Passes, Fail(p) PROVE ProcessedWasApplied'
  BY <1>6 DEF Fail, Put
<1>7. ASSUME NEW p \in Passes, EndPass(p) \/ Crash(p) PROVE ProcessedWasApplied'
  BY <1>7 DEF EndPass, Crash
<1>8. CASE UNCHANGED vars
  BY <1>8 DEF vars
<1> QED
  BY <1>1, <1>2, <1>3, <1>4, <1>5, <1>6, <1>7, <1>8 DEF Next

LEMMA RowsStep == IInv /\ [Next]_vars => RowsAgree'
<1> SUFFICES ASSUME IInv, [Next]_vars PROVE RowsAgree'
  OBVIOUS
<1>0. HeldByOne
  BY HandsOfTwoAreLate
<1> USE DEF IInv, TypeOK, Rows, RowsAgree
<1>1. ASSUME NEW e \in Events, Receive(e) \/ Due(e) \/ Stale(e) PROVE RowsAgree'
  <2>1. UNCHANGED << hand, listed, late >>
    BY <1>1 DEF Receive, Due, Stale
  <2>2. \A d \in Events :
          (row'[d].status = row[d].status)
            \/ (row[d].status = "none" /\ row'[d].status = "PENDING")
    BY <1>1 DEF Receive, Stored, Due, Stale
  <2>3. \A p \in Passes : hand[p] \subseteq Events /\ listed[p] \subseteq Events
    OBVIOUS
  <2>4. ASSUME NEW p \in Passes, NEW d \in hand[p] \ late PROVE row'[d].status = "PROCESSING"
    BY <2>2, <2>3
  <2>5. ASSUME NEW p \in Passes, NEW d \in listed[p] PROVE row'[d].status # "PROCESSED"
    BY <2>2, <2>3
  <2> QED
    BY <2>1, <2>4, <2>5
<1>2. ASSUME NEW p \in Passes, LoseLock(p) PROVE RowsAgree'
  BY <1>2 DEF LoseLock
<1>3. ASSUME NEW p \in Passes, BeginPass(p) PROVE RowsAgree'
  BY <1>3 DEF BeginPass, Oldest, Claimable
<1>4. ASSUME NEW p \in Passes, ClaimEvent(p) PROVE RowsAgree'
  BY <1>4 DEF ClaimEvent, IsNext, UnlistedBy
<1>5. ASSUME NEW p \in Passes, Apply(p) PROVE RowsAgree'
  BY <1>5 DEF Apply
<1>6. ASSUME NEW p \in Passes, NEW e \in hand[p], NEW s \in {"PROCESSED", "FAILED"},
             Put(p, e, s)
      PROVE  RowsAgree'
  <2>1. ASSUME NEW q \in Passes, NEW d \in hand'[q] \ late' PROVE row'[d].status = "PROCESSING"
    <3>1. q # p /\ d \in hand[q] \ late
      BY <1>6, <2>1 DEF Put
    <3>2. d # e
      BY <3>1, <1>0, <1>6 DEF HeldByOne
    <3> QED
      BY <1>6, <3>1, <3>2 DEF Put
  <2>2. ASSUME NEW q \in Passes, NEW d \in listed'[q] PROVE row'[d].status # "PROCESSED"
    BY <1>6, <2>2 DEF Put, Unlisted
  <2> QED
    BY <2>1, <2>2
<1>7. ASSUME NEW p \in Passes, Finish(p) \/ Fail(p) PROVE RowsAgree'
  BY <1>6, <1>7 DEF Finish, Fail
<1>8. ASSUME NEW p \in Passes, EndPass(p) \/ Crash(p) PROVE RowsAgree'
  BY <1>8 DEF EndPass, Crash
<1>9. CASE UNCHANGED vars
  BY <1>9 DEF vars
<1> QED
  BY <1>1, <1>2, <1>3, <1>4, <1>5, <1>7, <1>8, <1>9 DEF Next

LEMMA StepIInv == IInv /\ [Next]_vars => IInv'
  BY TypeStep, HandsStep, DidApplyStep, RowsStep, ProcessedStep DEF IInv

\* The invariant holds throughout.
LEMMA Invariant == Spec => []IInv
<1>1. Init => IInv
  BY InitIInv
<1>2. IInv /\ [Next]_vars => IInv'
  BY StepIInv
<1> QED
  BY <1>1, <1>2, PTL DEF Spec

-----------------------------------------------------------------------------
\* The inbox never calls an event processed that nobody applied, whichever passes
\* overlap, die, or write a row they no longer own.
THEOREM ProcessedEventsWereApplied == Spec => []ProcessedWasApplied
<1>1. IInv => ProcessedWasApplied
  BY DEF IInv
<1> QED
  BY <1>1, Invariant, PTL

\* The advisory lock keeps passes apart: two of them have an event in hand only
\* when one has outlived its transaction.
THEOREM OnePassHoldsAnEvent == Spec => []HeldByOne
<1>1. IInv => HeldByOne
  BY HandsOfTwoAreLate
<1> QED
  BY <1>1, Invariant, PTL

\* A processed event is neither applied again nor reopened, however often Stripe
\* delivers it, unless a pass that outlived its lock had it in hand.
THEOREM ProcessedEventsStay == Spec => ProcessedIsFinal
<1> DEFINE Final ==
      \A e \in Events \ late :
        row[e].status = "PROCESSED" => row'[e].status = "PROCESSED" /\ applied'[e] = applied[e]
<1>1. IInv /\ [Next]_vars => [Final]_vars
  <2> SUFFICES ASSUME IInv, Next, NEW e \in Events \ late, row[e].status = "PROCESSED"
               PROVE  row'[e].status = "PROCESSED" /\ applied'[e] = applied[e]
    OBVIOUS
  <2> USE DEF IInv, TypeOK, Rows, RowsAgree
  <2>0. \A p \in Passes : e \notin hand[p] /\ e \notin listed[p]
    OBVIOUS
  <2>1. ASSUME NEW d \in Events, Receive(d) \/ Due(d) \/ Stale(d)
        PROVE  row'[e].status = "PROCESSED" /\ applied'[e] = applied[e]
    BY <2>1 DEF Receive, Stored, Due, Stale
  <2>2. ASSUME NEW p \in Passes, LoseLock(p) \/ BeginPass(p) \/ EndPass(p) \/ Crash(p)
        PROVE  row'[e].status = "PROCESSED" /\ applied'[e] = applied[e]
    BY <2>2 DEF LoseLock, BeginPass, EndPass, Crash
  <2>3. ASSUME NEW p \in Passes, ClaimEvent(p) \/ Apply(p)
        PROVE  row'[e].status = "PROCESSED" /\ applied'[e] = applied[e]
    BY <2>0, <2>3 DEF ClaimEvent, Apply
  <2>4. ASSUME NEW p \in Passes, Finish(p) \/ Fail(p)
        PROVE  row'[e].status = "PROCESSED" /\ applied'[e] = applied[e]
    BY <2>0, <2>4 DEF Finish, Fail, Put
  <2> QED
    BY <2>1, <2>2, <2>3, <2>4 DEF Next
<1> QED
  BY <1>1, Invariant, PTL DEF Spec, ProcessedIsFinal

\* Every reachable inbox is well typed, whatever passes overlap, die or write late.
THEOREM InboxTypesHold == Spec => []TypeOK
<1>1. IInv => TypeOK
  BY DEF IInv
<1> QED
  BY <1>1, Invariant, PTL
=============================================================================

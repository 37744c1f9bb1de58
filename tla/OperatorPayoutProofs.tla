------------------------ MODULE OperatorPayoutProofs ------------------------
(***************************************************************************)
(* Theorems about OperatorPayout, for any entries and any number of jobs:  *)
(* an operator is paid once for an entry, and the payout rows agree with   *)
(* what Stripe did.                                                        *)
(***************************************************************************)
EXTENDS OperatorPayout, TLAPS

\* Stripe remembers the key of every entry it has paid, unless a day has passed.
KeysRemembered == \A e \in Entries \ forgotten : money[e] > 0 => e \in keyed

\* Where an entry may be, and what that says of its row and its money.
Places ==
  /\ \A e \in Entries : payout[e] = "none" => money[e] = 0
  /\ \A e \in keyed : money[e] > 0
  /\ \A j \in Jobs : stage[j] # "paying" => paid[j] = {}
  /\ \A j \in Jobs : \A d, e \in paid[j] : d = e
  /\ \A j \in Jobs : \A e \in paid[j] :
       payout[e] # "none" /\ money[e] > 0 /\ \A c \in listed[j] : c.entry # e
  /\ \A j \in Jobs : stage[j] = "paying" =>
       \A c \in listed[j] : payout[c.entry] # "none"

\* What is certain of the entries that the history does not call doubtful: only
\* the job with the lock has been told of their transfer, what it has read of them
\* is still so, and their money is on record.
Certain ==
  \A e \in Entries \ doubtful :
    /\ \A j \in Jobs : e \in paid[j] => j = lock
    /\ \A j \in Jobs : stage[j] = "paying" /\ j = lock =>
         \A c \in listed[j] :
           c.entry = e => payout[e] = "PENDING" /\ money[e] = 0
    /\ money[e] > 0 => payout[e] = "TRANSFERRED" \/ \E j \in Jobs : e \in paid[j]

\* The inductive invariant.
IInv == TypeOK /\ KeysRemembered /\ PaidOnce /\ Places /\ Certain /\ RowAgreesWithStripe

-----------------------------------------------------------------------------
LEMMA InitIInv == Init => IInv
  BY NoJobIsNone DEF Init, IInv, TypeOK, KeysRemembered, PaidOnce, Places, Certain,
     RowAgreesWithStripe, Copies

LEMMA TypeStep == TypeOK /\ [Next]_vars => TypeOK'
<1> SUFFICES ASSUME TypeOK, [Next]_vars PROVE TypeOK'
  OBVIOUS
<1> USE NoJobIsNone DEF TypeOK, Copies
<1>1. CASE Resolve
  BY <1>1 DEF Resolve
<1>2. ASSUME NEW e \in Entries, ReturnCharge(e) PROVE TypeOK'
  BY <1>2 DEF ReturnCharge
<1>3. ASSUME NEW e \in Entries, ForgetKey(e) PROVE TypeOK'
  BY <1>3 DEF ForgetKey
<1>4. ASSUME NEW j \in Jobs, LoseLock(j) PROVE TypeOK'
  BY <1>4 DEF LoseLock
<1>5. ASSUME NEW j \in Jobs, BeginJob(j) PROVE TypeOK'
  <2>1. ASSUME NEW e \in Entries PROVE ReadEntry(e) \in Copies
    BY DEF ReadEntry
  <2>2. listed' \in [ Jobs -> SUBSET Copies ]
    BY <1>5, <2>1 DEF BeginJob
  <2> QED
    BY <1>5, <2>2 DEF BeginJob
<1>6. ASSUME NEW j \in Jobs, ClaimEntry(j) PROVE TypeOK'
  <2>1. PICK c \in listed[j] :
          /\ (UNCHANGED payout) \/ payout' = [ payout EXCEPT ![c.entry] = "PENDING" ]
          /\ listed' = [ listed EXCEPT ![j] = @ \ {c} ]
    BY <1>6 DEF ClaimEntry
  <2>2. payout' \in [ Entries -> {"none", "PENDING", "TRANSFERRED", "CANCELLED"} ]
    BY <2>1
  <2>3. listed' \in [ Jobs -> SUBSET Copies ]
    BY <2>1
  <2> QED
    BY <1>6, <2>2, <2>3 DEF ClaimEntry
<1>7. ASSUME NEW j \in Jobs, ListPayouts(j) PROVE TypeOK'
  <2>1. ASSUME NEW e \in Entries PROVE ReadPayout(e) \in Copies
    <3>1. (state[e] = "settleable") \in BOOLEAN
      OBVIOUS
    <3> QED
      BY <3>1, Zenon DEF ReadPayout, Copies
  <2>2. listed' \in [ Jobs -> SUBSET Copies ]
    BY <1>7, <2>1 DEF ListPayouts
  <2>3. stage' \in [ Jobs -> {"idle", "claiming", "paying"} ]
    BY <1>7 DEF ListPayouts
  <2> QED
    BY <1>7, <2>2, <2>3 DEF ListPayouts
<1>8. ASSUME NEW j \in Jobs, NEW e \in Entries, CancelPayout(j, e) \/ TransferFails(j, e)
      PROVE  TypeOK'
  BY <1>8 DEF CancelPayout, TransferFails, Without, Handles
<1>9. ASSUME NEW j \in Jobs, NEW e \in Entries, Transfer(j, e) PROVE TypeOK'
  <2>1. keyed' \subseteq Entries /\ money' \in [ Entries -> 0 .. 2 ]
    BY <1>9 DEF Transfer, KeyedTransfer
  <2> QED
    BY <1>9, <2>1 DEF Transfer, Without, Handles
<1>10. ASSUME NEW j \in Jobs, NEW e \in Entries, Record(j, e) \/ LoseAnswer(j, e) PROVE TypeOK'
  BY <1>10 DEF Record, LoseAnswer
<1>11. ASSUME NEW j \in Jobs, EndJob(j) \/ Crash(j) PROVE TypeOK'
  BY <1>11 DEF EndJob, Crash, Stop
<1>12. CASE UNCHANGED vars
  BY <1>12 DEF vars
<1> QED
  BY <1>1, <1>2, <1>3, <1>4, <1>5, <1>6, <1>7, <1>8, <1>9, <1>10, <1>11, <1>12 DEF Next, Pay

LEMMA MoneyStep ==
  TypeOK /\ KeysRemembered /\ PaidOnce /\ [Next]_vars => KeysRemembered' /\ PaidOnce'
<1> SUFFICES ASSUME TypeOK, KeysRemembered, PaidOnce, [Next]_vars
             PROVE  KeysRemembered' /\ PaidOnce'
  OBVIOUS
<1> USE DEF TypeOK, KeysRemembered, PaidOnce
<1>1. ASSUME UNCHANGED << money, keyed, forgotten >> PROVE KeysRemembered' /\ PaidOnce'
  BY <1>1
<1>2. ASSUME NEW e \in Entries, ForgetKey(e) PROVE KeysRemembered' /\ PaidOnce'
  BY <1>2 DEF ForgetKey
<1>3. ASSUME NEW j \in Jobs, NEW e \in Entries, Transfer(j, e)
      PROVE  KeysRemembered' /\ PaidOnce'
  BY <1>3 DEF Transfer, KeyedTransfer
<1> QED
  BY <1>1, <1>2, <1>3
  DEF Next, Pay, Resolve, ReturnCharge, LoseLock, BeginJob, ClaimEntry, ListPayouts,
      CancelPayout, Record, TransferFails, LoseAnswer, EndJob, Crash, Stop, vars

LEMMA PlacesStep == TypeOK /\ Places /\ [Next]_vars => Places'
<1> SUFFICES ASSUME TypeOK, Places, [Next]_vars PROVE Places'
  OBVIOUS
<1> USE DEF TypeOK, Places, Copies
<1>1. CASE keyed' \subseteq keyed /\ UNCHANGED << payout, money, stage, listed, paid >>
  BY <1>1
<1>2. ASSUME NEW j \in Jobs, BeginJob(j) PROVE Places'
  BY <1>2 DEF BeginJob
<1>3. ASSUME NEW j \in Jobs, ClaimEntry(j) PROVE Places'
  BY <1>3 DEF ClaimEntry
<1>4. ASSUME NEW j \in Jobs, ListPayouts(j) PROVE Places'
  BY <1>4 DEF ListPayouts, ReadPayout
<1>5. ASSUME NEW j \in Jobs, NEW e \in Entries, CancelPayout(j, e) \/ TransferFails(j, e)
      PROVE  Places'
  BY <1>5 DEF CancelPayout, TransferFails, Turn, Without
<1>6. ASSUME NEW j \in Jobs, NEW e \in Entries, Transfer(j, e) PROVE Places'
  <2>1. payout[e] # "none" /\ stage[j] = "paying" /\ paid[j] = {}
    BY <1>6 DEF Transfer, Turn, IsNext
  <2>2. /\ money'[e] > 0 /\ keyed' = keyed \cup {e}
        /\ \A d \in Entries \ {e} : money'[d] = money[d]
    BY <1>6 DEF Transfer, KeyedTransfer
  <2>3. /\ UNCHANGED << payout, stage >>
        /\ listed' = [ listed EXCEPT ![j] = { c \in @ : c.entry # e } ]
        /\ paid' = [ paid EXCEPT ![j] = {e} ]
    BY <1>6 DEF Transfer, Without
  <2>4. \A d \in Entries : payout'[d] = "none" => money'[d] = 0
    BY <2>1, <2>2, <2>3
  <2>5. ASSUME NEW i \in Jobs, NEW d \in paid'[i]
        PROVE  payout'[d] # "none" /\ money'[d] > 0 /\ \A c \in listed'[i] : c.entry # d
    <3>1. CASE i = j
      BY <2>1, <2>2, <2>3, <2>5, <3>1
    <3>2. CASE i # j
      BY <2>1, <2>2, <2>3, <2>5, <3>2
    <3> QED
      BY <3>1, <3>2
  <2>6. \A i \in Jobs : stage'[i] # "paying" => paid'[i] = {}
    BY <2>1, <2>3
  <2>7. ASSUME NEW i \in Jobs, stage'[i] = "paying", NEW c \in listed'[i]
        PROVE  payout'[c.entry] # "none"
    BY <2>3, <2>7
  <2>9. \A d \in keyed' : money'[d] > 0
    BY <2>2
  <2>8. \A i \in Jobs : \A d, f \in paid'[i] : d = f
    BY <2>1, <2>3
  <2> QED
    BY <2>4, <2>5, <2>6, <2>7, <2>8, <2>9
<1>7. ASSUME NEW j \in Jobs, NEW e \in Entries, Record(j, e) \/ LoseAnswer(j, e) PROVE Places'
  BY <1>7 DEF Record, LoseAnswer
<1>8. ASSUME NEW j \in Jobs, EndJob(j) \/ Crash(j) PROVE Places'
  BY <1>8 DEF EndJob, Crash, Stop
<1> QED
  BY <1>1, <1>2, <1>3, <1>4, <1>5, <1>6, <1>7, <1>8
  DEF Next, Pay, Resolve, ReturnCharge, ForgetKey, LoseLock, vars

\* The certain facts after a step that leaves rows, money and hands alone, or that
\* only makes more entries doubtful.
LEMMA CertainStaysPut ==
  Certain /\ doubtful \subseteq doubtful' /\ UNCHANGED << payout, money, lock, stage, listed, paid >>
    => Certain'
  BY DEF Certain

LEMMA CertainStep == IInv /\ [Next]_vars => Certain'
<1> SUFFICES ASSUME IInv, [Next]_vars PROVE Certain'
  OBVIOUS
<1> USE NoJobIsNone DEF IInv, TypeOK, Places, Copies
<1>1. CASE \/ Resolve
           \/ \E e \in Entries : ReturnCharge(e) \/ ForgetKey(e)
           \/ UNCHANGED vars
  BY <1>1, CertainStaysPut DEF Resolve, ReturnCharge, ForgetKey, vars
<1>2. ASSUME NEW j \in Jobs, LoseLock(j) PROVE Certain'
  BY <1>2 DEF LoseLock, Certain
<1>3. ASSUME NEW j \in Jobs, BeginJob(j) PROVE Certain'
  BY <1>3 DEF BeginJob, Certain
<1>4. ASSUME NEW j \in Jobs, ClaimEntry(j) PROVE Certain'
  <2>1. PICK c \in listed[j] :
          /\ (UNCHANGED payout)
               \/ (payout[c.entry] = "none" /\ payout' = [ payout EXCEPT ![c.entry] = "PENDING" ])
          /\ listed' = [ listed EXCEPT ![j] = @ \ {c} ]
    BY <1>4 DEF ClaimEntry
  <2>2. stage[j] = "claiming" /\ UNCHANGED << money, lock, stage, paid, doubtful >>
    BY <1>4 DEF ClaimEntry
  <2>3. \A d \in Entries : payout'[d] = payout[d] \/ (payout[d] = "none" /\ money[d] = 0)
    BY <2>1
  <2>4. \A i \in Jobs : listed'[i] \subseteq listed[i]
    BY <2>1
  <2> QED
    BY <2>2, <2>3, <2>4 DEF Certain
<1>5. ASSUME NEW j \in Jobs, ListPayouts(j) PROVE Certain'
  <2>1. /\ stage[j] = "claiming" /\ paid[j] = {}
        /\ stage' = [ stage EXCEPT ![j] = "paying" ]
        /\ UNCHANGED << payout, money, lock, paid, doubtful >>
    BY <1>5 DEF ListPayouts
  <2>2. /\ \A i \in Jobs \ {j} : listed'[i] = listed[i]
        /\ \A c \in listed'[j] : payout[c.entry] = "PENDING"
    BY <1>5 DEF ListPayouts, ReadPayout
  <2>3. ASSUME NEW e \in Entries \ doubtful, j = lock, payout[e] = "PENDING"
        PROVE  money[e] = 0
    <3>1. ASSUME money[e] > 0 PROVE FALSE
      <4>1. PICK i \in Jobs : e \in paid[i]
        BY <2>3, <3>1 DEF Certain
      <4>2. i = lock
        BY <4>1 DEF Certain
      <4> QED
        BY <2>1, <2>3, <4>1, <4>2
    <3> QED
      BY <3>1
  <2>4. ASSUME NEW e \in Entries \ doubtful', NEW i \in Jobs, stage'[i] = "paying", i = lock',
               NEW c \in listed'[i], c.entry = e
        PROVE  payout[e] = "PENDING" /\ money[e] = 0
    BY <2>1, <2>2, <2>3, <2>4 DEF Certain
  <2> QED
    BY <2>1, <2>4 DEF Certain
<1>6. ASSUME NEW j \in Jobs, NEW e \in Entries, CancelPayout(j, e) PROVE Certain'
  <2>1. e \notin doubtful' =>
          e \notin doubtful /\ j = lock /\ money[e] = 0 /\ \A i \in Jobs : e \notin paid[i]
    BY <1>6 DEF CancelPayout, Turn, IsNext, Handles, Certain
  <2>2. /\ payout' = [ payout EXCEPT ![e] = "CANCELLED" ]
        /\ listed' = [ listed EXCEPT ![j] = { c \in @ : c.entry # e } ]
        /\ doubtful \subseteq doubtful'
        /\ UNCHANGED << money, lock, stage, paid >>
    BY <1>6 DEF CancelPayout, Without, Handles
  <2>3. e \notin doubtful' => \A c \in listed'[lock] : c.entry # e
    BY <2>1, <2>2
  <2>4. \A i \in Jobs : listed'[i] \subseteq listed[i]
    BY <2>2
  <2>5. \A d \in Entries \ {e} : payout'[d] = payout[d]
    BY <2>2
  <2> QED
    BY <2>1, <2>2, <2>3, <2>4, <2>5 DEF Certain
<1>7. ASSUME NEW j \in Jobs, NEW e \in Entries, Transfer(j, e) PROVE Certain'
  <2>1. e \notin doubtful' => e \notin doubtful /\ j = lock
    BY <1>7 DEF Transfer, Handles
  <2>2. paid[j] = {} /\ doubtful \subseteq doubtful'
    BY <1>7 DEF Transfer, Turn, Handles
  <2>3. \A d \in Entries \ {e} : money'[d] = money[d]
    BY <1>7 DEF Transfer, KeyedTransfer
  <2>4. /\ listed' = [ listed EXCEPT ![j] = { c \in @ : c.entry # e } ]
        /\ paid' = [ paid EXCEPT ![j] = {e} ]
        /\ UNCHANGED << payout, lock, stage >>
    BY <1>7 DEF Transfer, Without
  <2>5. e \notin doubtful' => \A c \in listed'[lock] : c.entry # e
    BY <2>1, <2>4
  <2>6. \A i \in Jobs : listed'[i] \subseteq listed[i] /\ paid[i] \subseteq paid'[i]
    BY <2>2, <2>4
  <2>7. ASSUME NEW d \in Entries \ doubtful', NEW i \in Jobs, d \in paid'[i] PROVE i = lock
    BY <2>1, <2>2, <2>4, <2>7 DEF Certain
  <2>8. ASSUME NEW d \in Entries \ doubtful', NEW i \in Jobs, stage[i] = "paying", i = lock,
               NEW c \in listed'[i], c.entry = d
        PROVE  payout[d] = "PENDING" /\ money'[d] = 0
    BY <2>2, <2>3, <2>5, <2>6, <2>8 DEF Certain
  <2>9. ASSUME NEW d \in Entries \ doubtful', money'[d] > 0
        PROVE  payout[d] = "TRANSFERRED" \/ \E i \in Jobs : d \in paid'[i]
    BY <2>2, <2>3, <2>4, <2>6, <2>9 DEF Certain
  <2> QED
    BY <2>4, <2>7, <2>8, <2>9 DEF Certain
<1>8. ASSUME NEW j \in Jobs, NEW e \in Entries, Record(j, e) PROVE Certain'
  <2>1. /\ e \in paid[j]
        /\ payout' = [ payout EXCEPT ![e] = "TRANSFERRED" ]
        /\ paid' = [ paid EXCEPT ![j] = {} ]
        /\ UNCHANGED << money, lock, stage, listed, doubtful >>
    BY <1>8 DEF Record
  <2>2. e \notin doubtful => j = lock /\ \A c \in listed[j] : c.entry # e
    BY <2>1 DEF Certain
  <2>3. \A d \in paid[j] : d = e
    BY <2>1
  <2> QED
    BY <2>1, <2>2, <2>3 DEF Certain
<1>9. ASSUME NEW j \in Jobs, NEW e \in Entries, TransferFails(j, e) PROVE Certain'
  BY <1>9 DEF TransferFails, Without, Certain
<1>10. ASSUME NEW j \in Jobs, NEW e \in Entries, LoseAnswer(j, e) PROVE Certain'
  BY <1>10 DEF LoseAnswer, Certain
<1>11. ASSUME NEW j \in Jobs, EndJob(j) \/ Crash(j) PROVE Certain'
  BY <1>11 DEF EndJob, Crash, Stop, Certain
<1> QED
  BY <1>1, <1>2, <1>3, <1>4, <1>5, <1>6, <1>7, <1>8, <1>9, <1>10, <1>11 DEF Next, Pay

LEMMA AgreementStep == IInv /\ [Next]_vars => RowAgreesWithStripe'
<1> SUFFICES ASSUME IInv, [Next]_vars PROVE RowAgreesWithStripe'
  OBVIOUS
<1> USE DEF IInv, TypeOK, Places, RowAgreesWithStripe
<1>1. CASE doubtful \subseteq doubtful' /\ UNCHANGED << payout, money >>
  BY <1>1
<1>2. ASSUME NEW j \in Jobs, ClaimEntry(j) PROVE RowAgreesWithStripe'
  BY <1>2 DEF ClaimEntry
<1>3. ASSUME NEW j \in Jobs, NEW e \in Entries, CancelPayout(j, e) PROVE RowAgreesWithStripe'
  <2>1. /\ payout' = [ payout EXCEPT ![e] = "CANCELLED" ]
        /\ doubtful \subseteq doubtful' /\ UNCHANGED money
        /\ e \notin doubtful' => e \notin doubtful /\ j = lock
    BY <1>3 DEF CancelPayout, Handles
  <2>2. e \notin doubtful' => money[e] = 0
    BY <1>3, <2>1 DEF CancelPayout, Turn, IsNext, Certain
  <2> QED
    BY <2>1, <2>2
<1>4. ASSUME NEW j \in Jobs, NEW e \in Entries, Transfer(j, e) PROVE RowAgreesWithStripe'
  <2>1. /\ UNCHANGED payout /\ doubtful \subseteq doubtful'
        /\ e \notin doubtful' => payout[e] = "PENDING"
    BY <1>4 DEF Transfer, Turn, IsNext, Handles, Certain
  <2>2. \A d \in Entries : money[d] > 0 => money'[d] > 0
    BY <1>4 DEF Transfer, KeyedTransfer
  <2>3. \A d \in Entries \ {e} : money'[d] = money[d]
    BY <1>4 DEF Transfer, KeyedTransfer
  <2> QED
    BY <2>1, <2>2, <2>3
<1>5. ASSUME NEW j \in Jobs, NEW e \in Entries, Record(j, e) PROVE RowAgreesWithStripe'
  BY <1>5 DEF Record
<1> QED
  BY <1>1, <1>2, <1>3, <1>4, <1>5
  DEF Next, Pay, Resolve, ReturnCharge, ForgetKey, LoseLock, BeginJob, ListPayouts,
      TransferFails, LoseAnswer, EndJob, Crash, Stop, vars

LEMMA StepIInv == IInv /\ [Next]_vars => IInv'
  BY TypeStep, MoneyStep, PlacesStep, CertainStep, AgreementStep DEF IInv

\* The invariant holds throughout.
LEMMA Invariant == Spec => []IInv
<1>1. Init => IInv
  BY InitIInv
<1>2. IInv /\ [Next]_vars => IInv'
  BY StepIInv
<1> QED
  BY <1>1, <1>2, PTL DEF Spec

-----------------------------------------------------------------------------
\* No operator is paid twice for an entry, however many jobs overlap, die or miss
\* Stripe's answer, as long as Stripe remembers the key of the entry.
THEOREM OperatorsArePaidOnce == Spec => []PaidOnce
<1>1. IInv => PaidOnce
  BY DEF IInv
<1> QED
  BY <1>1, Invariant, PTL

\* A payout that is recorded as transferred was, and one that is recorded as
\* cancelled was not, unless its transfer was made and not recorded by who made it,
\* or a job without the lock transferred or cancelled it or recorded its transfer.
THEOREM PayoutsAgreeWithStripe == Spec => []RowAgreesWithStripe
<1>1. IInv => RowAgreesWithStripe
  BY DEF IInv
<1> QED
  BY <1>1, Invariant, PTL

\* Every reachable state of the payouts is well typed, whatever jobs overlap or die.
THEOREM PayoutTypesHold == Spec => []TypeOK
<1>1. IInv => TypeOK
  BY DEF IInv
<1> QED
  BY <1>1, Invariant, PTL
=============================================================================

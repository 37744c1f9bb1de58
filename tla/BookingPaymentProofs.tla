------------------------ MODULE BookingPaymentProofs ------------------------
(***************************************************************************)
(* Invariants of BookingPayment for any number of workers, sessions and    *)
(* documents, and any amounts.                                             *)
(***************************************************************************)
EXTENDS BookingPayment, RefundPolicyProofs

(***************************************************************************)
(* Types.  A commit writes what its task holds, so the type invariant needs*)
(* to know what a task of each kind holds, and that only one run of the    *)
(* webhook worker is on its way with an event of the inbox.                *)
(***************************************************************************)
TaskHolds(t) ==
  /\ t.op \notin { "idle", "checkout", "chargeRefunded" } => t.to \in Statuses
  /\ t.op = "chargeRefunded" /\ t.checked => t.to \in Statuses
  /\ t.op \in { "applyPaid", "chargeRefunded" } => t.session \in Sessions
  /\ t.fromInbox => \/ t.op = "applyPaid" /\ inbox[t.session] > 0
                    \/ t.op = "chargeRefunded"

TasksHold == \A w \in Workers : TaskHolds(task[w])
OneEventAtATime ==
  \A v, w \in Workers : task[v].fromInbox /\ task[w].fromInbox => v = w

TypeInv == TypeOK /\ TasksHold /\ OneEventAtATime

LEMMA NoTaskIsTask == NoTask \in Tasks
BY DEF NoTask, Tasks, NoPayment, Payments, PartStatuses, References, OverallStatuses,
       RefundCauses, PaymentTypes

LEMMA LoadedIsTask ==
  ASSUME TypeOK, NEW op \in Operations, NEW to \in Statuses \cup { "none" }
  PROVE  Loaded(op, to) \in Tasks
<1>1. TotalRefunds \in Nat
  BY DEF TotalRefunds, TypeOK, Parts
<1>2. payment \in Payments
  BY DEF TypeOK
<1> QED BY NoTaskIsTask, <1>1, <1>2 DEF Loaded, Tasks

LEMMA MovingIsTask ==
  ASSUME NEW op \in Operations, NEW to \in Statuses \cup { "none" }
  PROVE  Moving(op, to) \in Tasks
BY NoTaskIsTask DEF Moving, Tasks

LEMMA InitTypes == Init => TypeInv
<1> SUFFICES ASSUME Init PROVE TypeInv
  OBVIOUS
<1>1. TypeOK
  <2>1. /\ booking \in Statuses
        /\ alternative \in BOOLEAN
        /\ clock \in 0..ServiceEnd
    <3>1. booking \in Statuses
      BY DEF Init, Statuses
    <3>2. alternative \in BOOLEAN
      BY DEF Init
    <3>3. clock \in 0..ServiceEnd
      BY DEF Init, ServiceEnd
    <3> QED BY <3>1, <3>2, <3>3
  <2>2. payment \in Payments
    BY DEF Init, NoPayment, Payments, PartStatuses, References, OverallStatuses
  <2>3. /\ schedule \in [ Entries -> EntryStates ]
        /\ ledger \subseteq Sessions
        /\ refunds \in [ Parts -> Nat ]
    BY DEF Init, EntryStates
  <2>4. documents \in [ Documents -> DocumentStates ]
    BY DEF Init, DocumentStates
  <2>5. sessions \in [ Sessions -> [ type : PaymentTypes, state : SessionStates ] ]
    BY DEF Init, NoSession, PaymentTypes, SessionStates, Untaken
  <2>6. inbox \in [ Sessions -> 0..2 ]
    BY DEF Init
  <2>7. task \in [ Workers -> Tasks ]
    BY NoTaskIsTask DEF Init
  <2> QED BY <2>1, <2>2, <2>3, <2>4, <2>5, <2>6, <2>7 DEF TypeOK
<1>2. TasksHold /\ OneEventAtATime
  BY DEF Init, TasksHold, TaskHolds, OneEventAtATime, NoTask
<1> QED BY <1>1, <1>2 DEF TypeInv

(***************************************************************************)
(* A step that only changes what a worker is in the middle of.             *)
(***************************************************************************)
LEMMA TaskStepTypes ==
  ASSUME TypeInv, NEW w \in Workers, NEW t \in Tasks, TaskHolds(t),
         t.fromInbox => \A v \in Workers : ~task[v].fromInbox,
         task' = [ task EXCEPT ![w] = t ], UNCHANGED << rows, clock, stripe >>
  PROVE  TypeInv'
<1>1. TypeOK'
  BY DEF TypeInv, TypeOK, rows, stripe
<1>2. TasksHold'
  BY DEF TypeInv, TypeOK, TasksHold, TaskHolds, stripe
<1>3. OneEventAtATime'
  BY DEF TypeInv, TypeOK, OneEventAtATime
<1> QED BY <1>1, <1>2, <1>3 DEF TypeInv

LEMMA BeginTypes ==
  ASSUME TypeInv, NEW w \in Workers, NEW op \in Operations, NEW to \in Statuses,
         op \notin { "applyPaid", "chargeRefunded" }, Begin(w, Loaded(op, to))
  PROVE  TypeInv'
<1>1. Loaded(op, to) \in Tasks
  BY LoadedIsTask DEF TypeInv
<1>2. TaskHolds(Loaded(op, to)) /\ ~Loaded(op, to).fromInbox
  BY DEF TaskHolds, Loaded, NoTask
<1> QED BY <1>1, <1>2, TaskStepTypes DEF Begin

LEMMA MovingTypes ==
  ASSUME TypeInv, NEW w \in Workers, NEW op \in Operations, NEW to \in Statuses,
         op \notin { "applyPaid", "chargeRefunded" }, Begin(w, Moving(op, to))
  PROVE  TypeInv'
<1>1. Moving(op, to) \in Tasks
  BY MovingIsTask
<1>2. TaskHolds(Moving(op, to)) /\ ~Moving(op, to).fromInbox
  BY DEF TaskHolds, Moving, NoTask
<1> QED BY <1>1, <1>2, TaskStepTypes DEF Begin

\* A step that ends a task and leaves the inbox alone.
LEMMA FinishTypes ==
  ASSUME TypeInv, NEW w \in Workers, Finish(w), inbox' = inbox
  PROVE  task' \in [ Workers -> Tasks ] /\ TasksHold' /\ OneEventAtATime'
<1>1. task' \in [ Workers -> Tasks ]
  BY NoTaskIsTask DEF TypeInv, TypeOK, Finish
<1>2. \A v \in Workers : task'[v] = task[v] \/ task'[v] = NoTask
  BY DEF TypeInv, TypeOK, Finish
<1>3. TasksHold'
  BY <1>2 DEF TypeInv, TasksHold, TaskHolds, NoTask
<1>4. OneEventAtATime'
  BY <1>2 DEF TypeInv, OneEventAtATime, NoTask
<1> QED BY <1>1, <1>3, <1>4

(***************************************************************************)
(* The steps that begin a handler.                                         *)
(***************************************************************************)
LEMMA AnswersBegin ==
  ASSUME TypeInv, NEW w \in Workers,
         \/ BeginAccept(w) \/ BeginReject(w) \/ BeginAutoReject(w)
         \/ BeginSuggest(w) \/ BeginDecline(w) \/ BeginHandover(w)
         \/ BeginReturn(w) \/ BeginConfirm(w) \/ BeginComplete(w)
         \/ BeginNoShow(w) \/ BeginOverride(w)
  PROVE  TypeInv'
<1>1. CASE BeginAccept(w)
  BY <1>1, BeginTypes DEF BeginAccept, Free, Statuses
<1>2. CASE BeginReject(w)
  BY <1>2, MovingTypes DEF BeginReject, Free, Statuses
<1>3. CASE BeginAutoReject(w)
  BY <1>3, MovingTypes DEF BeginAutoReject, Free, Statuses
<1>4. CASE BeginSuggest(w)
  BY <1>4, MovingTypes DEF BeginSuggest, Free, Statuses
<1>5. CASE BeginDecline(w)
  BY <1>5, MovingTypes DEF BeginDecline, Free, Statuses
<1>6. CASE BeginHandover(w)
  BY <1>6, MovingTypes DEF BeginHandover, Free, Statuses
<1>7. CASE BeginReturn(w)
  BY <1>7, MovingTypes DEF BeginReturn, Free, Statuses
<1>8. CASE BeginConfirm(w)
  BY <1>8, MovingTypes DEF BeginConfirm, Free, Statuses
<1>9. CASE BeginComplete(w)
  BY <1>9, MovingTypes DEF BeginComplete, Free, Statuses
<1>10. CASE BeginNoShow(w)
  <2> DEFINE to == IF payment.status = "PAID" THEN "NO_SHOW" ELSE "NO_SHOW_UNPAID"
  <2>1. to \in Statuses
    BY DEF Statuses
  <2>2. "noShow" \in Operations /\ Begin(w, Moving("noShow", to))
    BY <1>10 DEF BeginNoShow, Free
  <2> HIDE DEF to
  <2> QED BY <2>1, <2>2, MovingTypes
<1>11. CASE BeginOverride(w)
  <2>1. PICK to \in OverrideStatuses : Begin(w, Moving("override", to))
    BY <1>11 DEF BeginOverride
  <2>2. to \in Statuses
    BY DEF OverrideStatuses, Statuses
  <2> QED BY <1>11, <2>1, <2>2, MovingTypes DEF BeginOverride, Free
<1> QED BY <1>1, <1>2, <1>3, <1>4, <1>5, <1>6, <1>7, <1>8, <1>9, <1>10, <1>11

LEMMA PaymentsBegin ==
  ASSUME TypeInv, NEW w \in Workers,
         \/ BeginCheckout(w)
         \/ \E s \in Sessions, fromInbox \in BOOLEAN : BeginApply(w, s, fromInbox)
  PROVE  TypeInv'
<1>1. CASE BeginCheckout(w)
  <2>1. PICK type \in PaymentTypes :
          Begin(w, [ Loaded("checkout", "none") EXCEPT !.type = type ])
    BY <1>1 DEF BeginCheckout
  <2> DEFINE t == [ Loaded("checkout", "none") EXCEPT !.type = type ]
  <2>2. Loaded("checkout", "none") \in Tasks
    BY <1>1, LoadedIsTask DEF TypeInv, BeginCheckout, Free
  <2>3. t \in Tasks
    BY <2>2 DEF Tasks
  <2>4. TaskHolds(t) /\ ~t.fromInbox
    BY DEF TaskHolds, Loaded, NoTask
  <2> HIDE DEF t
  <2> QED BY <2>1, <2>3, <2>4, TaskStepTypes DEF Begin, t
<1>2. ASSUME NEW s \in Sessions, NEW fromInbox \in BOOLEAN, BeginApply(w, s, fromInbox)
      PROVE  TypeInv'
  <2> DEFINE type == sessions[s].type
             to   == IF StatusAfter(payment, type, "PAID") = "PAID" THEN "PAID"
                     ELSE IF type = "DOWN_PAYMENT" THEN "CONFIRMED" ELSE "PENDING_PAYMENT"
             t    == [ Loaded("applyPaid", to) EXCEPT
                         !.type = type, !.session = s, !.fromInbox = fromInbox ]
  <2>1. Begin(w, t)
    BY <1>2 DEF BeginApply
  <2>2. type \in PaymentTypes
    BY DEF TypeInv, TypeOK
  <2>3. to \in Statuses
    BY DEF Statuses
  <2>4. Loaded("applyPaid", to) \in Tasks
    <3> HIDE DEF to
    <3> QED BY <1>2, <2>3, LoadedIsTask DEF TypeInv, BeginApply, MayApply, Free
  <2>5. t \in Tasks
    <3> HIDE DEF to, type
    <3> QED BY <2>2, <2>4 DEF Tasks
  <2>6. /\ t.op = "applyPaid" /\ t.to = to /\ t.session = s
        /\ t.fromInbox = fromInbox
    <3> HIDE DEF to, type
    <3> QED BY DEF Loaded, NoTask
  <2>7. fromInbox => inbox[s] > 0 /\ \A v \in Workers : ~task[v].fromInbox
    BY <1>2 DEF BeginApply, MayApply
  <2> HIDE DEF t
  <2>8. TaskHolds(t)
    <3> HIDE DEF to, type
    <3> QED BY <2>3, <2>6, <2>7 DEF TaskHolds
  <2> QED BY <2>1, <2>5, <2>6, <2>7, <2>8, TaskStepTypes DEF Begin
<1> QED BY <1>1, <1>2

LEMMA CancelBegins ==
  ASSUME TypeInv, NEW w \in Workers, BeginCancel(w)
  PROVE  TypeInv'
<1>1. PICK op \in Operations, cause \in RefundCauses :
        /\ op \notin { "applyPaid", "chargeRefunded" }
        /\ Begin(w, [ Loaded(op, "CANCELLED") EXCEPT !.cause = cause ])
  <2>1. CASE Free(w, "cancelCustomer")
             /\ Begin(w, [ Loaded("cancelCustomer", "CANCELLED") EXCEPT !.cause =
                             IF LicenceRejectedLate THEN "PLATFORM_FAULT" ELSE "CUSTOMER" ])
    BY <2>1 DEF Free, RefundCauses
  <2>2. CASE Free(w, "cancelOperator")
             /\ Begin(w, [ Loaded("cancelOperator", "CANCELLED") EXCEPT !.cause =
                             IF booking = "OVERDUE" THEN "OPERATOR_OVERDUE" ELSE "OPERATOR" ])
    BY <2>2 DEF Free, RefundCauses
  <2>3. CASE Free(w, "cancelAdmin")
             /\ \E cause \in AdminCauses :
                  Begin(w, [ Loaded("cancelAdmin", "CANCELLED") EXCEPT !.cause = cause ])
    BY <2>3 DEF Free, RefundCauses, AdminCauses
  <2> QED BY <2>1, <2>2, <2>3 DEF BeginCancel
<1> DEFINE t == [ Loaded(op, "CANCELLED") EXCEPT !.cause = cause ]
<1>2. t \in Tasks
  <2>1. Loaded(op, "CANCELLED") \in Tasks
    BY LoadedIsTask DEF TypeInv, Statuses
  <2> QED BY <2>1 DEF Tasks
<1>3. TaskHolds(t) /\ ~t.fromInbox
  BY <1>1 DEF TaskHolds, Loaded, NoTask, Statuses
<1> HIDE DEF t
<1> QED BY <1>1, <1>2, <1>3, TaskStepTypes DEF Begin, t

LEMMA ReviewBegins ==
  ASSUME TypeInv, NEW w \in Workers, BeginReview(w)
  PROVE  TypeInv'
<1>1. PICK d \in Documents, approved \in BOOLEAN :
        Begin(w, [ Moving("reviewLicence", "READY_FOR_PICKUP") EXCEPT
                    !.document = d, !.licensed = approved ])
  BY DEF BeginReview
<1> DEFINE t == [ Moving("reviewLicence", "READY_FOR_PICKUP") EXCEPT
                    !.document = d, !.licensed = approved ]
<1>2. t \in Tasks
  <2>1. Moving("reviewLicence", "READY_FOR_PICKUP") \in Tasks
    BY MovingIsTask DEF Statuses, BeginReview, Free
  <2> QED BY <2>1 DEF Tasks
<1>3. TaskHolds(t) /\ ~t.fromInbox
  BY DEF TaskHolds, Moving, NoTask, Statuses
<1> HIDE DEF t
<1> QED BY <1>1, <1>2, <1>3, TaskStepTypes DEF Begin, t

LEMMA ReceiptBegins ==
  ASSUME TypeInv, NEW w \in Workers,
         BeginUpload(w) \/ BeginApprove(w) \/ BeginDisapprove(w) \/ BeginRequest(w)
  PROVE  TypeInv'
<1>1. \/ \E op \in Operations, type \in PaymentTypes, to \in Statuses :
           /\ op \notin { "applyPaid", "chargeRefunded" }
           /\ Begin(w, [ Loaded(op, to) EXCEPT !.type = type ])
      \/ \E op \in Operations, to \in Statuses :
           op \notin { "applyPaid", "chargeRefunded" } /\ Begin(w, Loaded(op, to))
  <2>1. ApprovedType(payment) \in PaymentTypes
    BY DEF ApprovedType, PaymentTypes
  <2>2. "PENDING_PAYMENT" \in Statuses /\ "PAID" \in Statuses
    BY DEF Statuses
  <2>3. ApprovedBooking(payment, ApprovedType(payment)) \in Statuses
    BY <2>2 DEF ApprovedBooking
  <2>4. CASE BeginUpload(w)
    BY <2>2, <2>4 DEF BeginUpload, Free
  <2>5. CASE BeginApprove(w)
    BY <2>1, <2>3, <2>5 DEF BeginApprove, Free
  <2>6. CASE BeginDisapprove(w)
    BY <2>2, <2>6 DEF BeginDisapprove, Free
  <2>7. CASE BeginRequest(w)
    BY <2>2, <2>7 DEF BeginRequest, Free
  <2> QED BY <2>4, <2>5, <2>6, <2>7
<1>2. ASSUME NEW op \in Operations, NEW type \in PaymentTypes, NEW to \in Statuses,
             op \notin { "applyPaid", "chargeRefunded" }, Begin(w, [ Loaded(op, to) EXCEPT !.type = type ])
      PROVE  TypeInv'
  <2> DEFINE t == [ Loaded(op, to) EXCEPT !.type = type ]
  <2>1. t \in Tasks
    <3>1. Loaded(op, to) \in Tasks
      BY LoadedIsTask DEF TypeInv
    <3> QED BY <3>1 DEF Tasks
  <2>2. TaskHolds(t) /\ ~t.fromInbox
    BY <1>2 DEF TaskHolds, Loaded, NoTask
  <2> HIDE DEF t
  <2> QED BY <1>2, <2>1, <2>2, TaskStepTypes DEF Begin, t
<1> QED BY <1>1, <1>2, BeginTypes

LEMMA SweepBegins ==
  ASSUME TypeInv, NEW w \in Workers, BeginSweep(w)
  PROVE  TypeInv'
<1> DEFINE cause == IF payment.status = "PAID" THEN "MISSED_LICENCE" ELSE "MISSED_BALANCE"
           t     == [ Loaded("sweep", "EXPIRED") EXCEPT !.cause = cause ]
<1>1. t \in Tasks
  <2>1. Loaded("sweep", "EXPIRED") \in Tasks
    BY LoadedIsTask DEF TypeInv, Statuses, BeginSweep, Free
  <2>2. cause \in RefundCauses
    BY DEF RefundCauses
  <2> HIDE DEF cause
  <2> QED BY <2>1, <2>2 DEF Tasks
<1>2. TaskHolds(t) /\ ~t.fromInbox
  BY DEF TaskHolds, Loaded, NoTask, Statuses
<1>3. task' = [ task EXCEPT ![w] = t ] \/ task' = task
  BY DEF BeginSweep
<1> HIDE DEF t
<1>4. TypeOK'
  <2>1. schedule' \in [ Entries -> EntryStates ]
    BY DEF TypeInv, TypeOK, BeginSweep, EntryStates
  <2>2. task' \in [ Workers -> Tasks ]
    BY <1>1, <1>3 DEF TypeInv, TypeOK
  <2> QED BY <2>1, <2>2 DEF TypeInv, TypeOK, BeginSweep, stripe
<1>5. TasksHold'
  BY <1>2, <1>3 DEF TypeInv, TypeOK, TasksHold, TaskHolds, BeginSweep, stripe
<1>6. OneEventAtATime'
  BY <1>2, <1>3 DEF TypeInv, TypeOK, OneEventAtATime
<1> QED BY <1>4, <1>5, <1>6 DEF TypeInv

(***************************************************************************)
(* Check and Abandon.                                                      *)
(***************************************************************************)
LEMMA MovesLeadToStatuses ==
  ASSUME NEW old \in Statuses, NEW new, ValidTransition(old, new)
  PROVE  new \in Statuses
BY DEF ValidTransition, Transitions, Statuses

LEMMA CheckTypes ==
  ASSUME TypeInv, NEW w \in Workers, Check(w)
  PROVE  TypeInv'
<1> DEFINE t == [ task[w] EXCEPT !.checked = TRUE, !.licensed = Licensed ]
<1>1. task' = [ task EXCEPT ![w] = t ] /\ UNCHANGED << rows, clock, stripe >>
  BY DEF Check, TypeInv, TypeOK
<1>2. t \in Tasks
  <2>1. Licensed \in BOOLEAN
    BY DEF Licensed
  <2> QED BY <2>1 DEF TypeInv, TypeOK, Tasks
<1>3. /\ t.op = task[w].op /\ t.to = task[w].to /\ t.session = task[w].session
      /\ t.fromInbox = task[w].fromInbox
  BY DEF TypeInv, TypeOK, Tasks
<1> HIDE DEF t
<1>4. TypeOK'
  BY <1>1, <1>2 DEF TypeInv, TypeOK, rows, stripe
<1>5. TasksHold'
  <2>1. task[w].to \in Statuses
    BY MovesLeadToStatuses DEF Check, TypeInv, TypeOK
  <2> QED BY <1>1, <1>3, <2>1 DEF TypeInv, TypeOK, TasksHold, TaskHolds, stripe
<1>6. OneEventAtATime'
  BY <1>1, <1>3 DEF TypeInv, TypeOK, OneEventAtATime
<1> QED BY <1>4, <1>5, <1>6 DEF TypeInv

LEMMA AbandonTypes ==
  ASSUME TypeInv, NEW w \in Workers, Abandon(w)
  PROVE  TypeInv'
<1>1. inbox' = inbox
  BY DEF Abandon, stripe
<1>2. TypeOK'
  BY <1>1, FinishTypes DEF Abandon, TypeInv, TypeOK, rows, stripe
<1> QED BY <1>1, <1>2, FinishTypes DEF TypeInv, Abandon

(***************************************************************************)
(* The steps that write rows.                                              *)
(***************************************************************************)
\* What a checked task writes into the booking is a status.
LEMMA TargetIsStatus ==
  ASSUME TypeInv, NEW w \in Workers, task[w].op \notin { "idle", "checkout" },
         task[w].op = "chargeRefunded" => task[w].checked
  PROVE  task[w].to \in Statuses
BY DEF TypeInv, TasksHold, TaskHolds

LEMMA PaymentRows ==
  ASSUME NEW row \in Payments, NEW seen \in Payments, NEW type \in PaymentTypes,
         NEW ref \in References
  PROVE  /\ Confirmed(row, seen, type, ref) \in Payments
         /\ AwaitingVerification(row, seen, type) \in Payments
         /\ Rejected(row, seen) \in Payments
<1>1. ASSUME NEW s PROVE StatusAfter(seen, type, s) \in OverallStatuses
  BY DEF StatusAfter, OverallStatus, OverallStatuses
<1>2. Confirmed(row, seen, type, ref) \in Payments
  BY <1>1 DEF Confirmed, Payments, PartStatuses
<1>3. AwaitingVerification(row, seen, type) \in Payments
  BY <1>1 DEF AwaitingVerification, Payments, PartStatuses
<1>4. Rejected(row, seen) \in Payments
  BY DEF Rejected, Payments, PartStatuses, OverallStatuses
<1> QED BY <1>2, <1>3, <1>4

LEMMA RefundRows ==
  ASSUME TypeOK, NEW t \in Tasks
  PROVE  WithRefunds(t) \in [ Parts -> Nat ]
<1> DEFINE quote == RefundQuote(PaidDeposit(t.seen, Deposit), PaidBalance(t.seen, Balance),
                                t.active, t.cause, PartialRefund)
<1>1. quote \in [ deposit : Nat, balance : Nat ]
  <2>1. /\ PaidDeposit(t.seen, Deposit) \in Nat
        /\ PaidBalance(t.seen, Balance) \in Nat
    BY AmountsAssumption DEF PaidDeposit, PaidBalance
  <2>2. t.active \in Nat /\ t.cause \in RefundCauses
    BY DEF Tasks
  <2> QED BY <2>1, <2>2, AmountsAssumption, QuoteIsCents
<1>2. WithRefunds(t) = [ refunds EXCEPT !.down = @ + quote.deposit, !.final = @ + quote.balance ]
  BY DEF WithRefunds
<1> HIDE DEF quote
<1>3. /\ refunds \in [ {"down", "final"} -> Nat ]
      /\ quote.deposit \in Nat /\ quote.balance \in Nat
  BY <1>1 DEF TypeOK, Parts
<1>4. refunds["down"] + quote.deposit \in Nat /\ refunds["final"] + quote.balance \in Nat
  BY <1>3
<1>5. WithRefunds(t) =
        [ [ refunds EXCEPT !["down"] = refunds["down"] + quote.deposit ]
            EXCEPT !["final"] = refunds["final"] + quote.balance ]
  BY <1>2, <1>3
<1> DEFINE down  == refunds["down"] + quote.deposit
           final == refunds["final"] + quote.balance
<1>6. down \in Nat /\ final \in Nat
  BY <1>4
<1> HIDE DEF down, final
<1>7. [ [ refunds EXCEPT !["down"] = down ] EXCEPT !["final"] = final ]
        \in [ {"down", "final"} -> Nat ]
  BY <1>3, <1>6
<1> QED BY <1>5, <1>7 DEF Parts, down, final

LEMMA CommitAcceptTypes ==
  ASSUME TypeInv, NEW w \in Workers, CommitAccept(w)
  PROVE  TypeInv'
<1>1. payment' \in Payments
  <2>1. task[w].seen.method \in { "PENDING", "STRIPE", "DUITNOW" }
    BY DEF TypeInv, TypeOK, Tasks, Payments
  <2> QED BY <2>1 DEF CommitAccept, Payments, PartStatuses, References, OverallStatuses
<1>2. schedule' \in [ Entries -> EntryStates ]
  <2>1. schedule' = [ down    |-> schedule'.down, final |-> schedule'.final,
                      licence |-> schedule'.licence ]
        /\ schedule'.down \in EntryStates /\ schedule'.final \in EntryStates
        /\ schedule'.licence \in EntryStates
    BY DEF CommitAccept, EntryStates
  <2> QED BY <2>1 DEF Entries
<1>3. booking' \in Statuses /\ clock' \in 0..ServiceEnd
  BY DEF CommitAccept, Statuses, ServiceEnd, TypeInv, TypeOK
<1>4. Finish(w) /\ inbox' = inbox
  BY DEF CommitAccept, stripe
<1>5. TypeOK'
  BY <1>1, <1>2, <1>3, <1>4, FinishTypes DEF CommitAccept, TypeInv, TypeOK, stripe
<1> QED BY <1>4, <1>5, FinishTypes DEF TypeInv

LEMMA CommitCheckoutTypes ==
  ASSUME TypeInv, NEW w \in Workers, CommitCheckout(w)
  PROVE  TypeInv'
<1>1. Finish(w) /\ inbox' = inbox
  BY DEF CommitCheckout
<1>2. task[w].type \in PaymentTypes
  BY DEF TypeInv, TypeOK, Tasks
<1>3. payment' \in Payments
  BY DEF CommitCheckout, TypeInv, TypeOK, Payments, References
<1>4. sessions' \in [ Sessions -> [ type : PaymentTypes, state : SessionStates ] ]
  <2>1. PICK s \in Sessions :
          sessions' = [ sessions EXCEPT ![s] = [ type |-> task[w].type, state |-> "open" ] ]
    BY DEF CommitCheckout
  <2> QED BY <1>2, <2>1 DEF TypeInv, TypeOK, SessionStates, Untaken
<1>5. TypeOK'
  BY <1>1, <1>3, <1>4, FinishTypes DEF CommitCheckout, TypeInv, TypeOK
<1> QED BY <1>1, <1>5, FinishTypes DEF TypeInv

\* The steps that end a task and write the booking, the schedule or refunds.
LEMMA ClosingTypes ==
  ASSUME TypeInv, NEW w \in Workers,
         CommitCancel(w) \/ CommitSweep(w) \/ CommitNoShow(w)
  PROVE  TypeInv'
<1>1. Finish(w) /\ inbox' = inbox
  BY DEF CommitCancel, CommitSweep, CommitNoShow, stripe
<1>2. Voided \in [ Entries -> EntryStates ]
  BY DEF Voided, TypeInv, TypeOK, EntryStates
<1>3. task[w] \in Tasks /\ [ task[w] EXCEPT !.active = TotalRefunds ] \in Tasks
  <2>1. TotalRefunds \in Nat
    BY DEF TotalRefunds, TypeInv, TypeOK, Parts
  <2> QED BY <2>1 DEF TypeInv, TypeOK, Tasks
<1>4. refunds' \in [ Parts -> Nat ]
  BY <1>3, RefundRows DEF CommitCancel, CommitSweep, CommitNoShow, TypeInv, TypeOK
<1>5. booking' \in Statuses
  <2>1. CASE CommitNoShow(w)
    BY <2>1, TargetIsStatus DEF CommitNoShow, Committing
  <2>2. CASE CommitCancel(w) \/ CommitSweep(w)
    BY <2>2 DEF CommitCancel, CommitSweep, Statuses
  <2> QED BY <2>1, <2>2
<1>6. schedule' \in [ Entries -> EntryStates ]
  BY <1>2 DEF CommitCancel, CommitSweep, CommitNoShow, TypeInv, TypeOK
<1>7. UNCHANGED << alternative, payment, documents, clock, sessions, ledger >>
  BY DEF CommitCancel, CommitSweep, CommitNoShow, stripe
<1>8. TypeOK'
  BY <1>1, <1>4, <1>5, <1>6, <1>7, FinishTypes DEF TypeInv, TypeOK
<1> QED BY <1>1, <1>8, FinishTypes DEF TypeInv

LEMMA MoveTypes ==
  ASSUME TypeInv, NEW w \in Workers,
         CommitMove(w) \/ Overwrite(w) \/ SaveBooking(w) \/ CommitSuggest(w)
  PROVE  TypeInv'
<1>1. Finish(w) /\ inbox' = inbox
  BY DEF CommitMove, Overwrite, SaveBooking, CommitSuggest, stripe
<1>2. booking' \in Statuses /\ alternative' \in BOOLEAN
  <2>1. CASE CommitMove(w) \/ Overwrite(w) \/ SaveBooking(w)
    BY <2>1, TargetIsStatus
       DEF CommitMove, Overwrite, SaveBooking, ReceiptOperations, TypeInv, TypeOK
  <2>2. CASE CommitSuggest(w)
    BY <2>2 DEF CommitSuggest, Statuses
  <2> QED BY <2>1, <2>2
<1>3. UNCHANGED << payment, schedule, documents, clock, sessions, ledger, refunds >>
  BY DEF CommitMove, Overwrite, SaveBooking, CommitSuggest, stripe
<1>4. TypeOK'
  BY <1>1, <1>2, <1>3, FinishTypes DEF TypeInv, TypeOK
<1> QED BY <1>1, <1>4, FinishTypes DEF TypeInv

(***************************************************************************)
(* The steps that take an event from the inbox.                            *)
(***************************************************************************)
LEMMA ProcessedTypes ==
  ASSUME TypeInv, NEW s \in Sessions, NEW fromInbox \in BOOLEAN,
         fromInbox => inbox[s] > 0, Processed(s, fromInbox)
  PROVE  /\ inbox' \in [ Sessions -> 0..2 ]
         /\ ~fromInbox => inbox' = inbox
<1>1. ASSUME fromInbox
      PROVE  inbox' \in [ Sessions -> 0..2 ]
  <2>1. inbox[s] \in 0..2 /\ inbox[s] > 0
    BY <1>1 DEF TypeInv, TypeOK
  <2>2. inbox[s] - 1 \in 0..2
    BY <2>1
  <2>3. inbox' = [ inbox EXCEPT ![s] = inbox[s] - 1 ]
    BY <1>1 DEF Processed
  <2> QED BY <2>2, <2>3 DEF TypeInv, TypeOK
<1>2. ~fromInbox => inbox' = inbox
  BY DEF Processed
<1> QED BY <1>1, <1>2 DEF TypeInv, TypeOK

LEMMA AnsweredTypes ==
  ASSUME TypeInv, NEW w \in Workers, NEW s \in Sessions, NEW fromInbox \in BOOLEAN,
         SkipPaid(w, s, fromInbox) \/ ReturnCharge(w, s, fromInbox)
  PROVE  TypeInv'
<1>1. /\ fromInbox => inbox[s] > 0 /\ \A v \in Workers : ~task[v].fromInbox
      /\ Processed(s, fromInbox)
      /\ UNCHANGED << rows, clock, task >>
  BY DEF SkipPaid, ReturnCharge, MayApply
<1>2. /\ inbox' \in [ Sessions -> 0..2 ]
      /\ ~fromInbox => inbox' = inbox
  BY <1>1, ProcessedTypes
<1>3. sessions' \in [ Sessions -> [ type : PaymentTypes, state : SessionStates ] ]
  <2>1. CASE SkipPaid(w, s, fromInbox)
    BY <2>1 DEF SkipPaid, TypeInv, TypeOK
  <2>2. CASE ReturnCharge(w, s, fromInbox)
    BY <2>2 DEF ReturnCharge, TypeInv, TypeOK, SessionStates
  <2> QED BY <2>1, <2>2
<1>4. TypeOK'
  BY <1>1, <1>2, <1>3 DEF TypeInv, TypeOK, rows
<1>5. TasksHold'
  BY <1>1, <1>2 DEF TypeInv, TasksHold, TaskHolds
<1>6. OneEventAtATime'
  BY <1>1 DEF TypeInv, OneEventAtATime
<1> QED BY <1>4, <1>5, <1>6 DEF TypeInv

LEMMA CommitApplyTypes ==
  ASSUME TypeInv, NEW w \in Workers, CommitApply(w)
  PROVE  TypeInv'
<1> DEFINE t == task[w]
<1>1. /\ t \in Tasks /\ t.session \in Sessions /\ t.to \in Statuses
      /\ t.fromInbox => inbox[t.session] > 0
  BY DEF TypeInv, TypeOK, TasksHold, TaskHolds, CommitApply, Committing
<1>2. t.fromInbox \in BOOLEAN /\ t.seen \in Payments /\ t.type \in PaymentTypes
  BY <1>1 DEF Tasks
<1>3. /\ inbox' \in [ Sessions -> 0..2 ]
      /\ ~t.fromInbox => inbox' = inbox
  <2>1. Processed(t.session, t.fromInbox)
    BY DEF CommitApply
  <2> HIDE DEF t
  <2> QED BY <1>1, <1>2, <2>1, ProcessedTypes
<1>4. payment' \in Payments
  <2>1. "intent" \in References /\ payment \in Payments
    BY DEF References, TypeInv, TypeOK
  <2>2. payment' = Confirmed(payment, t.seen, t.type, "intent")
    BY DEF CommitApply
  <2> HIDE DEF t
  <2> QED BY <1>2, <2>1, <2>2, PaymentRows
<1>5. schedule' \in [ Entries -> EntryStates ]
  BY DEF CommitApply, TypeInv, TypeOK, EntryStates
<1>6. booking' \in Statuses /\ ledger' \subseteq Sessions
  BY <1>1 DEF CommitApply, TypeInv, TypeOK, Statuses
<1>7. task' = [ task EXCEPT ![w] = NoTask ]
      /\ UNCHANGED << alternative, documents, clock, sessions, refunds >>
  BY DEF CommitApply, Finish
<1>8. TypeOK'
  BY <1>3, <1>4, <1>5, <1>6, <1>7, NoTaskIsTask DEF TypeInv, TypeOK
<1>9. \A v \in Workers : (v # w /\ task'[v] = task[v]) \/ task'[v] = NoTask
  BY <1>7 DEF TypeInv, TypeOK
<1>10. TasksHold'
  <2> SUFFICES ASSUME NEW v \in Workers PROVE TaskHolds(task[v])'
    BY DEF TasksHold
  <2>1. CASE task'[v] = NoTask
    BY <2>1 DEF TaskHolds, NoTask
  <2>2. CASE v # w /\ task'[v] = task[v]
    <3>1. task[v].fromInbox => inbox' = inbox
      BY <1>3, <2>2 DEF TypeInv, OneEventAtATime
    <3> QED BY <2>2, <3>1 DEF TypeInv, TasksHold, TaskHolds
  <2> QED BY <1>9, <2>1, <2>2
<1>11. OneEventAtATime'
  BY <1>9 DEF TypeInv, OneEventAtATime, NoTask
<1> QED BY <1>8, <1>10, <1>11 DEF TypeInv

(***************************************************************************)
(* A charge returned by hand.                                              *)
(***************************************************************************)
LEMMA RefundedTypes ==
  ASSUME TypeInv, NEW w \in Workers, NEW s \in Sessions,
         SkipRefunded(w, s) \/ BeginRefunded(w, s)
  PROVE  TypeInv'
<1>1. CASE SkipRefunded(w, s)
  <2>1. sessions' \in [ Sessions -> [ type : PaymentTypes, state : SessionStates ] ]
    BY <1>1 DEF SkipRefunded, TypeInv, TypeOK, SessionStates
  <2>2. TypeOK'
    BY <1>1, <2>1 DEF SkipRefunded, TypeInv, TypeOK, rows
  <2>3. TasksHold' /\ OneEventAtATime'
    BY <1>1 DEF SkipRefunded, TypeInv, TasksHold, TaskHolds, OneEventAtATime
  <2> QED BY <2>2, <2>3 DEF TypeInv
<1>2. CASE BeginRefunded(w, s)
  <2> DEFINE to == IF ValidTransition(booking, "CANCELLED") THEN "CANCELLED" ELSE "none"
             held(sent) == [ Moving("chargeRefunded", to) EXCEPT
                               !.active = sent, !.session = s, !.fromInbox = TRUE ]
  <2>1. PICK sent \in { 0, TotalRefunds } : task' = [ task EXCEPT ![w] = held(sent) ]
    BY <1>2 DEF BeginRefunded
  <2>2. sent \in Nat /\ to \in Statuses \cup { "none" } /\ "chargeRefunded" \in Operations
    BY <1>2 DEF TotalRefunds, TypeInv, TypeOK, Parts, Statuses, BeginRefunded, MayUndo, Free
  <2> DEFINE t == held(sent)
  <2>3. t \in Tasks
    <3> HIDE DEF to
    <3>1. Moving("chargeRefunded", to) \in Tasks
      BY <2>2, MovingIsTask
    <3> QED BY <2>2, <3>1 DEF Tasks
  <2>4. t.op = "chargeRefunded" /\ ~t.checked /\ t.session = s /\ t.fromInbox
    <3> HIDE DEF to
    <3> QED BY DEF Moving, NoTask
  <2>5. task' = [ task EXCEPT ![w] = t ]
    BY <2>1
  <2> HIDE DEF t
  <2>6. payment' \in Payments
    BY <1>2 DEF BeginRefunded, TypeInv, TypeOK, Payments, OverallStatuses
  <2>7. TypeOK'
    BY <1>2, <2>3, <2>5, <2>6 DEF BeginRefunded, TypeInv, TypeOK, stripe
  <2>8. TasksHold'
    BY <1>2, <2>4, <2>5 DEF BeginRefunded, TypeInv, TypeOK, TasksHold, TaskHolds, stripe
  <2>9. OneEventAtATime'
    BY <1>2, <2>5 DEF BeginRefunded, MayUndo, TypeInv, TypeOK, OneEventAtATime
  <2> QED BY <2>7, <2>8, <2>9 DEF TypeInv
<1> QED BY <1>1, <1>2

LEMMA CancelRefundedTypes ==
  ASSUME TypeInv, NEW w \in Workers, CancelRefunded(w)
  PROVE  TypeInv'
<1> DEFINE t == [ task[w] EXCEPT !.to = "none", !.checked = FALSE ]
<1>1. /\ task' = [ task EXCEPT ![w] = t ]
      /\ UNCHANGED << alternative, payment, schedule, documents, ledger, refunds, clock, stripe >>
  BY DEF CancelRefunded, TypeInv, TypeOK
<1>2. t \in Tasks /\ t.op = "chargeRefunded" /\ ~t.checked
      /\ t.session = task[w].session /\ t.fromInbox = task[w].fromInbox
  BY DEF CancelRefunded, Committing, TypeInv, TypeOK, Tasks
<1>3. booking' \in Statuses
  BY TargetIsStatus DEF CancelRefunded, Committing
<1>4. t.session \in Sessions
  BY <1>2 DEF CancelRefunded, Committing, TypeInv, TasksHold, TaskHolds
<1> HIDE DEF t
<1>5. TypeOK'
  BY <1>1, <1>2, <1>3 DEF TypeInv, TypeOK, stripe
<1>6. TasksHold'
  BY <1>1, <1>2, <1>4 DEF TypeInv, TypeOK, TasksHold, TaskHolds, stripe
<1>7. OneEventAtATime'
  BY <1>1, <1>2 DEF TypeInv, TypeOK, OneEventAtATime
<1> QED BY <1>5, <1>6, <1>7 DEF TypeInv

LEMMA RecordRefundedTypes ==
  ASSUME TypeInv, NEW w \in Workers, RecordRefunded(w)
  PROVE  TypeInv'
<1> DEFINE s   == task[w].session
           new == Unrecorded(s, task[w].active)
<1>1. Finish(w) /\ inbox' = inbox
      /\ UNCHANGED << booking, alternative, payment, schedule, documents, ledger, clock >>
  BY DEF RecordRefunded
<1>2. s \in Sessions /\ sessions' = [ sessions EXCEPT ![s].state = "undone" ]
  BY DEF RecordRefunded, TypeInv, TasksHold, TaskHolds
<1>3. sessions' \in [ Sessions -> [ type : PaymentTypes, state : SessionStates ] ]
  BY <1>2 DEF TypeInv, TypeOK, SessionStates
<1>4. refunds' \in [ Parts -> Nat ]
  <2>1. new \in Nat
    <3>1. Price(sessions[s].type) \in Nat /\ task[w].active \in Nat
      BY AmountsAssumption DEF Price, PriceOf, TypeInv, TypeOK, Tasks
    <3> QED BY <3>1 DEF Unrecorded
  <2>2. refunds \in [ Parts -> Nat ] /\ refunds["down"] + new \in Nat
    BY <2>1 DEF TypeInv, TypeOK, Parts
  <2>3. refunds' = refunds \/ refunds' = [ refunds EXCEPT !["down"] = refunds["down"] + new ]
    BY DEF RecordRefunded, TypeInv, TypeOK, Parts
  <2> HIDE DEF new
  <2> QED BY <2>2, <2>3
<1> HIDE DEF s, new
<1>5. TypeOK'
  BY <1>1, <1>3, <1>4, FinishTypes DEF TypeInv, TypeOK
<1> QED BY <1>1, <1>5, FinishTypes DEF TypeInv

LEMMA TakeBackTypes ==
  ASSUME TypeInv, NEW s \in Sessions, TakeBack(s)
  PROVE  TypeInv'
<1>1. sessions' \in [ Sessions -> [ type : PaymentTypes, state : SessionStates ] ]
  BY DEF TakeBack, TypeInv, TypeOK, SessionStates
<1>2. TypeOK'
  BY <1>1 DEF TakeBack, TypeInv, TypeOK, rows
<1>3. TasksHold' /\ OneEventAtATime'
  BY DEF TakeBack, TypeInv, TasksHold, TaskHolds, OneEventAtATime
<1> QED BY <1>2, <1>3 DEF TypeInv

(***************************************************************************)
(* The licence, the receipts, Stripe and the clock.                        *)
(***************************************************************************)
LEMMA SaveReviewTypes ==
  ASSUME TypeInv, NEW w \in Workers, SaveReview(w)
  PROVE  TypeInv'
<1> DEFINE t == IF task[w].licensed THEN [ task[w] EXCEPT !.document = 0 ] ELSE NoTask
<1>1. task' = [ task EXCEPT ![w] = t ]
  BY DEF SaveReview
<1>2. t \in Tasks
  BY NoTaskIsTask DEF TypeInv, TypeOK, Tasks
<1>3. /\ t = NoTask \/ (/\ t.op = task[w].op /\ t.to = task[w].to
                        /\ t.session = task[w].session /\ t.checked = task[w].checked)
      /\ t = NoTask \/ t.fromInbox = task[w].fromInbox
  BY DEF TypeInv, TypeOK, Tasks
<1>4. documents' \in [ Documents -> DocumentStates ]
  BY DEF SaveReview, TypeInv, TypeOK, DocumentStates
<1>5. UNCHANGED << booking, alternative, payment, schedule, clock, stripe, ledger, refunds >>
  BY DEF SaveReview
<1> HIDE DEF t
<1>6. TypeOK'
  BY <1>1, <1>2, <1>4, <1>5 DEF TypeInv, TypeOK, stripe
<1>7. TasksHold'
  BY <1>1, <1>3, <1>5 DEF TypeInv, TypeOK, TasksHold, TaskHolds, stripe, NoTask
<1>8. OneEventAtATime'
  BY <1>1, <1>3 DEF TypeInv, TypeOK, OneEventAtATime, NoTask
<1> QED BY <1>6, <1>7, <1>8 DEF TypeInv

LEMMA SaveReceiptTypes ==
  ASSUME TypeInv, NEW w \in Workers, SaveReceipt(w)
  PROVE  TypeInv'
<1> DEFINE t == [ task[w] EXCEPT !.checked = TRUE ]
<1>1. task' = [ task EXCEPT ![w] = t ]
  BY DEF SaveReceipt, TypeInv, TypeOK
<1>2. t \in Tasks
  BY DEF TypeInv, TypeOK, Tasks
<1>3. /\ t.op = task[w].op /\ t.to = task[w].to /\ t.session = task[w].session
      /\ t.fromInbox = task[w].fromInbox /\ t.op # "chargeRefunded"
  BY DEF SaveReceipt, ReceiptOperations, TypeInv, TypeOK, Tasks
<1>4. payment' \in Payments
  <2>1. /\ payment \in Payments /\ task[w].seen \in Payments
        /\ task[w].type \in PaymentTypes /\ "manual" \in References
    BY DEF TypeInv, TypeOK, Tasks, References
  <2>2. [ payment EXCEPT !.status = "UNPAID" ] \in Payments
    BY <2>1 DEF Payments, OverallStatuses
  <2>3. \/ payment' = AwaitingVerification(payment, task[w].seen, task[w].type)
        \/ payment' = Confirmed(payment, task[w].seen, task[w].type, "manual")
        \/ payment' = Rejected(payment, task[w].seen)
        \/ payment' = [ payment EXCEPT !.status = "UNPAID" ]
    BY DEF SaveReceipt, ReceiptOperations
  <2>4. /\ Confirmed(payment, task[w].seen, task[w].type, "manual") \in Payments
        /\ AwaitingVerification(payment, task[w].seen, task[w].type) \in Payments
        /\ Rejected(payment, task[w].seen) \in Payments
    BY <2>1, PaymentRows
  <2> HIDE DEF t
  <2> QED BY <2>2, <2>3, <2>4
<1>5. UNCHANGED << booking, alternative, schedule, documents, clock, stripe, ledger, refunds >>
  BY DEF SaveReceipt
<1> HIDE DEF t
<1>6. TypeOK'
  BY <1>1, <1>2, <1>4, <1>5 DEF TypeInv, TypeOK, stripe
<1>7. TasksHold'
  BY <1>1, <1>3, <1>5 DEF TypeInv, TypeOK, TasksHold, TaskHolds, stripe
<1>8. OneEventAtATime'
  BY <1>1, <1>3 DEF TypeInv, TypeOK, OneEventAtATime
<1> QED BY <1>6, <1>7, <1>8 DEF TypeInv

LEMMA WorldTypes ==
  ASSUME TypeInv, (\E s \in Sessions : Capture(s)) \/ UploadLicence \/ Tick
  PROVE  TypeInv'
<1>1. ASSUME NEW s \in Sessions, Capture(s) PROVE TypeInv'
  <2>1. sessions' \in [ Sessions -> [ type : PaymentTypes, state : SessionStates ] ]
    BY <1>1 DEF Capture, TypeInv, TypeOK, SessionStates
  <2>2. inbox' = [ inbox EXCEPT ![s] = 2 ] /\ inbox' \in [ Sessions -> 0..2 ]
    BY <1>1 DEF Capture, TypeInv, TypeOK
  <2>3. TypeOK'
    BY <1>1, <2>1, <2>2 DEF Capture, TypeInv, TypeOK, rows
  <2>4. \A r \in Sessions : inbox[r] > 0 => inbox'[r] > 0
    BY <2>2 DEF TypeInv, TypeOK
  <2>5. TasksHold' /\ OneEventAtATime'
    BY <1>1, <2>4 DEF Capture, TypeInv, TasksHold, TaskHolds, OneEventAtATime
  <2> QED BY <2>3, <2>5 DEF TypeInv
<1>2. CASE UploadLicence
  <2>1. documents' \in [ Documents -> DocumentStates ]
    BY <1>2 DEF UploadLicence, TypeInv, TypeOK, DocumentStates
  <2>2. TypeOK'
    BY <1>2, <2>1 DEF UploadLicence, TypeInv, TypeOK, stripe
  <2>3. TasksHold' /\ OneEventAtATime'
    BY <1>2 DEF UploadLicence, TypeInv, TasksHold, TaskHolds, OneEventAtATime, stripe
  <2> QED BY <2>2, <2>3 DEF TypeInv
<1>3. CASE Tick
  <2>1. clock' \in 0..ServiceEnd
    BY <1>3 DEF Tick, TypeInv, TypeOK, ServiceEnd
  <2>2. TypeOK'
    BY <1>3, <2>1 DEF Tick, TypeInv, TypeOK, rows, stripe
  <2>3. TasksHold' /\ OneEventAtATime'
    BY <1>3 DEF Tick, TypeInv, TasksHold, TaskHolds, OneEventAtATime, stripe
  <2> QED BY <2>2, <2>3 DEF TypeInv
<1> QED BY <1>1, <1>2, <1>3

LEMMA NextTypes == TypeInv /\ [Next]_vars => TypeInv'
<1> SUFFICES ASSUME TypeInv, [Next]_vars PROVE TypeInv'
  OBVIOUS
<1>1. ASSUME NEW w \in Workers, Work(w) PROVE TypeInv'
  <2>1. CASE Answer(w)
    BY <2>1, AnswersBegin, CommitAcceptTypes, MoveTypes DEF Answer
  <2>2. CASE CardPayment(w)
    <3>1. CASE \E s \in Sessions, fromInbox \in BOOLEAN :
                 SkipPaid(w, s, fromInbox) \/ ReturnCharge(w, s, fromInbox)
      BY <3>1, AnsweredTypes
    <3>2. CASE \E s \in Sessions, fromInbox \in BOOLEAN : BeginApply(w, s, fromInbox)
      BY <3>2, PaymentsBegin
    <3> QED BY <2>2, <3>1, <3>2, PaymentsBegin, CommitCheckoutTypes, CommitApplyTypes
            DEF CardPayment
  <2>3. CASE Closure(w)
    BY <2>3, CancelBegins, SweepBegins, ClosingTypes DEF Closure
  <2>4. CASE Rental(w)
    BY <2>4, AnswersBegin, ReviewBegins, SaveReviewTypes, ClosingTypes DEF Rental
  <2>5. CASE ManualPayment(w)
    BY <2>5, ReceiptBegins, SaveReceiptTypes, MoveTypes DEF ManualPayment
  <2>6. CASE Check(w) \/ CommitMove(w) \/ Overwrite(w) \/ Abandon(w)
    BY <2>6, CheckTypes, MoveTypes, AbandonTypes
  <2>7. CASE ReturnByHand(w)
    BY <2>7, RefundedTypes, CancelRefundedTypes, RecordRefundedTypes DEF ReturnByHand
  <2> QED BY <1>1, <2>1, <2>2, <2>3, <2>4, <2>5, <2>6, <2>7 DEF Work
<1>2. CASE UNCHANGED vars
  <2>1. TypeOK'
    BY <1>2 DEF TypeInv, TypeOK, vars, rows, stripe
  <2>2. TasksHold' /\ OneEventAtATime'
    BY <1>2 DEF TypeInv, TasksHold, TaskHolds, OneEventAtATime, vars, rows, stripe
  <2> QED BY <2>1, <2>2 DEF TypeInv
<1> QED BY <1>1, <1>2, WorldTypes, TakeBackTypes DEF Next

\* Every reachable state is well typed, whatever handlers the instance runs and
\* however they overlap: a handler writes only statuses and amounts the code
\* knows, and an event is taken from the inbox no more often than it came.
THEOREM TypesHold == Spec => []TypeOK
<1>1. Init => TypeInv
  BY InitTypes
<1>2. TypeInv /\ [Next]_vars => TypeInv'
  BY NextTypes
<1>3. TypeInv => TypeOK
  BY DEF TypeInv
<1> QED BY <1>1, <1>2, <1>3, PTL DEF Spec

-----------------------------------------------------------------------------
(***************************************************************************)
(* What the card payment handlers promise when any number of workers run   *)
(* them at the same time, for any number of checkout sessions and any      *)
(* amounts, zero included.  The argument rests on three facts of the code: *)
(*   - the payment row is started once, at acceptance, and from then on a  *)
(*     part that is PAID stays PAID;                                       *)
(*   - the row lock lets one transaction at a time pass its Check and      *)
(*     write the row, so what it found there still holds when it commits;  *)
(*   - the table lets a booking become CONFIRMED from PENDING_PAYMENT only,*)
(*     and a booking is PENDING_PAYMENT only while its balance is open.    *)
(***************************************************************************)

PaidStatuses == { "PAID", "READY_FOR_PICKUP", "IN_PROGRESS", "COMPLETED", "NO_SHOW" }
OpenStatuses == { "PENDING", "ALTERNATIVE_SUGGESTED", "ACCEPTED", "PENDING_PAYMENT" }

(***************************************************************************)
(* The inductive invariant                                                 *)
(***************************************************************************)
\* There is no payment row before the operator accepts.
NotAccepted ==
  /\ booking \in { "PENDING", "ALTERNATIVE_SUGGESTED" } => payment = NoPayment
  /\ booking # "ACCEPTED"

\* A part with nothing to pay is settled as soon as there is a row, and a
\* booking waits for payment only while its balance does.
SettledParts ==
  /\ payment.status # "NONE" /\ Deposit = 0 => payment.down = "PAID"
  /\ payment.status # "NONE" /\ Balance = 0 => payment.final = "PAID"
  /\ booking = "PENDING_PAYMENT" /\ payment.final = "PAID" => Balance = 0

Writing(t) == t.checked /\ t.op \in { "accept", "applyPaid" }
OneWriter == \A v, w \in Workers : Writing(task[v]) /\ Writing(task[w]) => v = w

AcceptHolds(t) ==
  t.op = "accept" => t.to = "PENDING_PAYMENT" /\ (t.checked => payment = NoPayment)

\* What a payment on its way has seen is still true of the row.
ApplyHolds(t) ==
  t.op = "applyPaid" =>
    /\ payment.status # "NONE"
    /\ sessions[t.session].state # "none" /\ t.type = sessions[t.session].type
    /\ t.seen.down  = "PAID" => payment.down  = "PAID"
    /\ t.seen.final = "PAID" => payment.final = "PAID"
    /\ Balance = 0 => t.seen.final = "PAID"
    /\ \/ t.to = "PAID" /\ StatusAfter(t.seen, t.type, "PAID") = "PAID"
       \/ /\ t.to = "CONFIRMED" /\ t.type = "DOWN_PAYMENT" /\ t.seen.final # "PAID"
          /\ t.checked => payment.final # "PAID"

CheckoutHolds(t) == t.op = "checkout" => payment.status # "NONE"

\* The other handlers do not open a booking again, and promise a paid status
\* only for a payment that is complete.
MoveHolds(t) ==
  t.op \notin { "idle", "accept", "applyPaid", "checkout" } =>
    /\ t.to \notin OpenStatuses
    /\ t.to \in PaidStatuses /\ (t.op = "reviewLicence" => t.checked)
         => payment.status = "PAID"

CardTask(t) == AcceptHolds(t) /\ ApplyHolds(t) /\ CheckoutHolds(t) /\ MoveHolds(t)

RecordedSessions == \A s \in ledger : sessions[s].state # "none"

Promises ==
  PartsAddUp /\ PaidBookingsArePaid /\ LedgerMatchesPayment /\ OnlySurplusIsDropped

CardInv ==
  /\ TypeInv
  /\ NotAccepted /\ SettledParts
  /\ OneWriter /\ \A w \in Workers : CardTask(task[w])
  /\ RecordedSessions
  /\ Promises

(***************************************************************************)
(* Lemmas                                                                  *)
(***************************************************************************)
\* A payment completes the row exactly when it covers each part or finds it paid.
LEMMA CompletedWhen ==
  ASSUME NEW seen \in Payments, NEW type \in PaymentTypes
  PROVE  StatusAfter(seen, type, "PAID") = "PAID"
           <=> /\ CoversDown(type) \/ seen.down = "PAID"
               /\ CoversFinal(type) \/ seen.final = "PAID"
BY DEF StatusAfter, NextDown, NextFinal, OverallStatus

LEMMA FreshTask == CardTask(NoTask) /\ ~Writing(NoTask)
BY DEF CardTask, AcceptHolds, ApplyHolds, CheckoutHolds, MoveHolds, Writing, NoTask

(***************************************************************************)
(* Steps that only change what a worker is in the middle of.               *)
(***************************************************************************)
LEMMA TaskStep ==
  ASSUME CardInv, TypeInv', NEW w \in Workers,
         UNCHANGED << booking, payment, ledger, sessions, inbox >>,
         \A v \in Workers \ { w } : task'[v] = task[v],
         CardTask(task'[w]),
         Writing(task'[w]) => \A v \in Workers \ { w } : ~Writing(task[v])
  PROVE  CardInv'
<1>1. (NotAccepted /\ SettledParts /\ RecordedSessions /\ Promises)'
  BY DEF CardInv, NotAccepted, SettledParts, RecordedSessions, Promises, PartsAddUp,
         PaidBookingsArePaid, LedgerMatchesPayment, OnlySurplusIsDropped
<1>2. OneWriter'
  BY DEF CardInv, OneWriter, Writing
<1>3. ASSUME NEW v \in Workers PROVE CardTask(task[v])'
  <2>1. CardTask(task'[v])
    BY DEF CardInv
  <2> QED BY <2>1 DEF CardTask, AcceptHolds, ApplyHolds, CheckoutHolds, MoveHolds
<1> QED BY <1>1, <1>2, <1>3 DEF CardInv

(***************************************************************************)
(* Steps that end a handler with a move of the booking.                    *)
(***************************************************************************)
LEMMA MoveStep ==
  ASSUME CardInv, TypeInv', NEW w \in Workers, Finish(w),
         UNCHANGED << payment, ledger, sessions, inbox >>,
         booking' \notin OpenStatuses,
         booking' \in PaidStatuses => payment.status = "PAID"
  PROVE  CardInv'
<1>1. (NotAccepted /\ SettledParts)'
  BY DEF CardInv, NotAccepted, SettledParts, OpenStatuses
<1>2. (RecordedSessions /\ PartsAddUp /\ LedgerMatchesPayment /\ OnlySurplusIsDropped)'
  BY DEF CardInv, RecordedSessions, Promises, PartsAddUp, LedgerMatchesPayment,
         OnlySurplusIsDropped
<1>3. PaidBookingsArePaid'
  BY DEF PaidBookingsArePaid, PaidStatuses
<1>4. \A v \in Workers : task'[v] = task[v] \/ task'[v] = NoTask
  BY DEF Finish, CardInv, TypeInv, TypeOK
<1>5. OneWriter'
  BY <1>4, FreshTask DEF CardInv, OneWriter, Writing
<1>6. ASSUME NEW v \in Workers PROVE CardTask(task[v])'
  <2>1. CardTask(task'[v])
    BY <1>4, FreshTask DEF CardInv
  <2> QED BY <2>1 DEF CardTask, AcceptHolds, ApplyHolds, CheckoutHolds, MoveHolds
<1> QED BY <1>1, <1>2, <1>3, <1>5, <1>6 DEF CardInv, Promises

(***************************************************************************)
(* The commits that write the payment row.                                 *)
(***************************************************************************)
\* While one transaction writes the row, no other one has passed its Check.
LEMMA OnlyWriter ==
  ASSUME CardInv, NEW w \in Workers, Writing(task[w]), NEW v \in Workers, v # w
  PROVE  ~Writing(task[v])
BY DEF CardInv, OneWriter

\* Acceptance starts the row, which did not exist: no payment is on its way.
LEMMA CommitAcceptKeeps ==
  ASSUME CardInv, TypeInv', NEW w \in Workers, CommitAccept(w)
  PROVE  CardInv'
<1>1. Writing(task[w]) /\ payment = NoPayment
  BY DEF CommitAccept, Committing, Writing, CardInv, CardTask, AcceptHolds
<1>2. /\ booking' = "PENDING_PAYMENT"
      /\ payment'.status = IF Deposit + Balance = 0 THEN "PAID" ELSE "UNPAID"
      /\ payment'.down   = IF Deposit = 0 THEN "PAID" ELSE "UNPAID"
      /\ payment'.final  = IF Balance = 0 THEN "PAID" ELSE "UNPAID"
      /\ Finish(w) /\ UNCHANGED << ledger, sessions, inbox >>
  BY DEF CommitAccept, stripe
<1>3. (NotAccepted /\ SettledParts)'
  BY <1>2, AmountsAssumption DEF NotAccepted, SettledParts
<1>4. (PartsAddUp /\ PaidBookingsArePaid)'
  BY <1>2, AmountsAssumption DEF PartsAddUp, PaidBookingsArePaid
<1>5. (RecordedSessions /\ LedgerMatchesPayment /\ OnlySurplusIsDropped)'
  <2>1. payment.status = "NONE" /\ payment.down = "UNPAID" /\ payment.final = "UNPAID"
    BY <1>1 DEF NoPayment
  <2>2. Deposit > 0 => payment'.down = "UNPAID"
    BY <1>2, AmountsAssumption
  <2>3. Balance > 0 => payment'.final = "UNPAID"
    BY <1>2, AmountsAssumption
  <2> QED BY <1>2, <2>1, <2>2, <2>3 DEF CardInv, RecordedSessions, Promises,
             LedgerMatchesPayment, OnlySurplusIsDropped
<1>6. \A v \in Workers : IF v = w THEN task'[v] = NoTask ELSE task'[v] = task[v]
  BY <1>2 DEF Finish, CardInv, TypeInv, TypeOK
<1>7. OneWriter'
  BY <1>6, FreshTask DEF CardInv, OneWriter, Writing
<1>8. ASSUME NEW v \in Workers PROVE CardTask(task[v])'
  <2>1. CASE v = w
    BY <1>6, <2>1 DEF CardTask, AcceptHolds, ApplyHolds, CheckoutHolds, MoveHolds, NoTask
  <2>2. CASE v # w
    <3>1. task'[v] = task[v] /\ CardTask(task[v]) /\ ~Writing(task[v])
      BY <1>1, <1>6, <2>2, OnlyWriter DEF CardInv
    <3>2. task[v].op # "applyPaid" /\ task[v].op # "checkout"
      BY <1>1, <3>1 DEF CardTask, ApplyHolds, CheckoutHolds, NoPayment
    <3>3. ~(task[v].op = "accept" /\ task[v].checked)
      BY <3>1 DEF Writing
    <3>4. payment.status # "PAID"
      BY <1>1 DEF NoPayment
    <3>5. MoveHolds(task[v])'
      BY <3>1, <3>4 DEF CardTask, MoveHolds
    <3> QED BY <3>1, <3>2, <3>3, <3>5 DEF CardTask, AcceptHolds, ApplyHolds, CheckoutHolds
  <2> QED BY <2>1, <2>2
<1> QED BY <1>3, <1>4, <1>5, <1>7, <1>8 DEF CardInv, Promises

\* A checkout only notes the session it opened.
LEMMA CommitCheckoutKeeps ==
  ASSUME CardInv, TypeInv', NEW w \in Workers, CommitCheckout(w)
  PROVE  CardInv'
<1>1. /\ payment'.status = payment.status
      /\ payment'.down = payment.down /\ payment'.final = payment.final
  BY DEF CommitCheckout, CardInv, TypeInv, TypeOK, Payments
<1>2. payment.status # "NONE"
  BY DEF CommitCheckout, CardInv, CardTask, CheckoutHolds
<1>3. PICK s \in Sessions :
        /\ sessions[s].state = "none"
        /\ sessions' = [ sessions EXCEPT ![s] = [ type |-> task[w].type, state |-> "open" ] ]
  BY DEF CommitCheckout
<1>4. \A r \in Sessions :
        /\ r # s => sessions'[r] = sessions[r]
        /\ r = s => sessions'[r].state = "open"
  BY <1>3 DEF CardInv, TypeInv, TypeOK
<1>5. Finish(w) /\ UNCHANGED << booking, ledger, inbox >>
  BY DEF CommitCheckout
<1>6. ledger \subseteq Sessions /\ s \notin ledger
  BY <1>3 DEF CardInv, TypeInv, TypeOK, RecordedSessions
<1>7. (NotAccepted /\ SettledParts)'
  BY <1>1, <1>2, <1>5 DEF CardInv, NotAccepted, SettledParts, NoPayment
<1>8. (PartsAddUp /\ PaidBookingsArePaid)'
  BY <1>1, <1>5 DEF CardInv, Promises, PartsAddUp, PaidBookingsArePaid
<1>9. (RecordedSessions /\ LedgerMatchesPayment /\ OnlySurplusIsDropped)'
  BY <1>1, <1>4, <1>5, <1>6 DEF CardInv, RecordedSessions, Promises, LedgerMatchesPayment,
     OnlySurplusIsDropped
<1>10. \A v \in Workers : IF v = w THEN task'[v] = NoTask ELSE task'[v] = task[v]
  BY <1>5 DEF Finish, CardInv, TypeInv, TypeOK
<1>11. OneWriter'
  BY <1>10, FreshTask DEF CardInv, OneWriter, Writing
<1>12. ASSUME NEW v \in Workers PROVE CardTask(task[v])'
  <2>1. CASE v = w
    BY <1>10, <2>1 DEF CardTask, AcceptHolds, ApplyHolds, CheckoutHolds, MoveHolds, NoTask
  <2>2. CASE v # w
    <3>1. task'[v] = task[v] /\ CardTask(task[v])
      BY <1>10, <2>2 DEF CardInv
    <3>2. AcceptHolds(task[v])' /\ CheckoutHolds(task[v])' /\ MoveHolds(task[v])'
      BY <1>1, <1>2, <3>1 DEF CardTask, AcceptHolds, CheckoutHolds, MoveHolds, NoPayment
    <3>3. ApplyHolds(task[v])'
      <4>1. task[v].op = "applyPaid" => task[v].session \in Sessions /\ task[v].session # s
        BY <1>3, <3>1 DEF CardInv, TypeInv, TasksHold, TaskHolds, CardTask, ApplyHolds
      <4> QED BY <1>1, <1>4, <3>1, <4>1 DEF CardTask, ApplyHolds
    <3> QED BY <3>2, <3>3 DEF CardTask
  <2> QED BY <2>1, <2>2
<1> QED BY <1>7, <1>8, <1>9, <1>11, <1>12 DEF CardInv, Promises

\* What the row becomes when a payment is recorded.
LEMMA RecordedRow ==
  ASSUME CardInv, NEW w \in Workers, CommitApply(w)
  PROVE  /\ payment'.down  = IF CoversDown(task[w].type)  THEN "PAID" ELSE payment.down
         /\ payment'.final = IF CoversFinal(task[w].type) THEN "PAID" ELSE payment.final
         /\ payment'.status = "PAID" <=> payment'.down = "PAID" /\ payment'.final = "PAID"
         /\ payment'.status # "NONE"
         /\ \/ booking' \in { "PAID", "READY_FOR_PICKUP" } /\ payment'.status = "PAID"
            \/ booking' = "CONFIRMED" /\ payment.status # "PAID"
<1> DEFINE t == task[w]
<1>1. t \in Tasks /\ t.seen \in Payments /\ t.type \in PaymentTypes /\ payment \in Payments
  BY DEF CardInv, TypeInv, TypeOK, Tasks
<1>2. t.op = "applyPaid" /\ t.checked /\ ApplyHolds(t)
  BY DEF CommitApply, Committing, CardInv, CardTask
<1>3. /\ payment'.status = StatusAfter(t.seen, t.type, "PAID")
      /\ payment'.down  = IF CoversDown(t.type)  THEN "PAID" ELSE payment.down
      /\ payment'.final = IF CoversFinal(t.type) THEN "PAID" ELSE payment.final
      /\ booking' = IF t.to = "PAID" /\ t.licensed THEN "READY_FOR_PICKUP" ELSE t.to
  BY <1>1 DEF CommitApply, Confirmed, Payments
<1>4. payment'.status = "PAID" <=> /\ CoversDown(t.type) \/ t.seen.down = "PAID"
                                   /\ CoversFinal(t.type) \/ t.seen.final = "PAID"
  BY <1>1, <1>3, CompletedWhen
<1>5. payment'.status # "NONE"
  BY <1>3 DEF StatusAfter, OverallStatus
<1>6. /\ t.seen.down  = "PAID" => payment.down  = "PAID"
      /\ t.seen.final = "PAID" => payment.final = "PAID"
  BY <1>2 DEF ApplyHolds
<1>7. payment.status = "PAID" => payment.down = "PAID" /\ payment.final = "PAID"
  BY DEF CardInv, Promises, PartsAddUp
<1>8. CASE t.to = "PAID" /\ StatusAfter(t.seen, t.type, "PAID") = "PAID"
  <2>1. payment'.status = "PAID" /\ booking' \in { "PAID", "READY_FOR_PICKUP" }
    BY <1>3, <1>8
  <2>2. payment'.down = "PAID" /\ payment'.final = "PAID"
    BY <1>3, <1>4, <1>6, <2>1
  <2> HIDE DEF t
  <2> QED BY <1>3, <1>5, <2>1, <2>2 DEF t
<1>9. CASE /\ t.to = "CONFIRMED" /\ t.type = "DOWN_PAYMENT" /\ t.seen.final # "PAID"
           /\ payment.final # "PAID"
  <2>1. ~CoversFinal(t.type)
    BY <1>9 DEF CoversFinal
  <2>2. payment'.status # "PAID" /\ payment'.final # "PAID" /\ payment.status # "PAID"
    BY <1>3, <1>4, <1>7, <1>9, <2>1
  <2>3. booking' = "CONFIRMED"
    BY <1>3, <1>9
  <2> QED BY <1>3, <1>5, <2>2, <2>3
<1> QED BY <1>2, <1>8, <1>9 DEF ApplyHolds

\* Recording a payment: the row lock keeps other writers out, so the row still
\* agrees with what this handler read of it.
LEMMA CommitApplyKeeps ==
  ASSUME CardInv, TypeInv', NEW w \in Workers, CommitApply(w)
  PROVE  CardInv'
<1> DEFINE t == task[w]
<1>1. /\ t.op = "applyPaid" /\ t.checked /\ ApplyHolds(t) /\ Writing(t)
      /\ t.session \in Sessions /\ t.fromInbox \in BOOLEAN
  BY DEF CommitApply, Committing, CardInv, CardTask, TypeInv, TypeOK, Tasks, TasksHold,
         TaskHolds, Writing
<1>2. /\ Finish(w) /\ sessions' = sessions
      /\ ledger' = ledger \cup { t.session }
      /\ Processed(t.session, t.fromInbox)
  BY DEF CommitApply
<1>3. /\ payment.status # "NONE" /\ payment'.status # "NONE"
      /\ payment.down  = "PAID" => payment'.down  = "PAID"
      /\ payment.final = "PAID" => payment'.final = "PAID"
      /\ payment.status = "PAID" => payment'.status = "PAID"
  BY <1>1, RecordedRow DEF ApplyHolds
<1>4. (NotAccepted /\ SettledParts)'
  BY <1>3, RecordedRow DEF CardInv, NotAccepted, SettledParts
<1>5. (PartsAddUp /\ PaidBookingsArePaid)'
  BY RecordedRow DEF PartsAddUp, PaidBookingsArePaid
<1>6. sessions[t.session].type = t.type /\ sessions[t.session].state # "none"
  BY <1>1 DEF ApplyHolds
<1>7. (RecordedSessions /\ LedgerMatchesPayment)'
  <2>1. RecordedSessions'
    BY <1>2, <1>6 DEF CardInv, RecordedSessions
  <2>2. LedgerMatchesPayment'
    BY <1>2, <1>6, RecordedRow DEF CardInv, Promises, LedgerMatchesPayment
  <2> QED BY <2>1, <2>2
<1>8. OnlySurplusIsDropped'
  <2>1. \A s \in Sessions : s # t.session => inbox'[s] = inbox[s]
    BY <1>1, <1>2 DEF Processed, CardInv, TypeInv, TypeOK
  <2> QED BY <1>2, <1>3, <2>1 DEF CardInv, Promises, OnlySurplusIsDropped
<1>9. \A v \in Workers : IF v = w THEN task'[v] = NoTask ELSE task'[v] = task[v]
  BY <1>2 DEF Finish, CardInv, TypeInv, TypeOK
<1>10. OneWriter'
  BY <1>9, FreshTask DEF CardInv, OneWriter, Writing
<1>11. ASSUME NEW v \in Workers PROVE CardTask(task[v])'
  <2>1. CASE v = w
    BY <1>9, <2>1 DEF CardTask, AcceptHolds, ApplyHolds, CheckoutHolds, MoveHolds, NoTask
  <2>2. CASE v # w
    <3>1. task'[v] = task[v] /\ CardTask(task[v]) /\ ~Writing(task[v])
      BY <1>1, <1>9, <2>2, OnlyWriter DEF CardInv
    <3>2. AcceptHolds(task[v])' /\ CheckoutHolds(task[v])' /\ MoveHolds(task[v])'
      BY <1>3, <3>1 DEF CardTask, AcceptHolds, CheckoutHolds, MoveHolds, Writing
    <3>3. ApplyHolds(task[v])'
      <4>1. task[v].op = "applyPaid" => ~task[v].checked
        BY <3>1 DEF Writing
      <4>2. ApplyHolds(task[v])
        BY <3>1 DEF CardTask
      <4> QED BY <1>2, <1>3, <3>1, <4>1, <4>2 DEF ApplyHolds
    <3> QED BY <3>2, <3>3 DEF CardTask
  <2> QED BY <2>1, <2>2
<1> QED BY <1>4, <1>5, <1>7, <1>8, <1>10, <1>11 DEF CardInv, Promises

(***************************************************************************)
(* Stripe, and payments that are answered without a transaction.           *)
(***************************************************************************)
LEMMA SameTasks ==
  ASSUME CardInv, UNCHANGED << booking, payment, task >>,
         \A s \in Sessions :
           /\ sessions'[s].type = sessions[s].type
           /\ sessions[s].state # "none" => sessions'[s].state # "none"
  PROVE  OneWriter' /\ \A w \in Workers : CardTask(task[w])'
<1>1. OneWriter'
  BY DEF CardInv, OneWriter, Writing
<1>2. ASSUME NEW w \in Workers PROVE CardTask(task[w])'
  <2>1. CardTask(task[w]) /\ (task[w].op = "applyPaid" => task[w].session \in Sessions)
    BY DEF CardInv, TypeInv, TasksHold, TaskHolds
  <2>2. ApplyHolds(task[w])'
    BY <2>1 DEF CardTask, ApplyHolds
  <2>3. AcceptHolds(task[w])' /\ CheckoutHolds(task[w])' /\ MoveHolds(task[w])'
    BY <2>1 DEF CardTask, AcceptHolds, CheckoutHolds, MoveHolds
  <2> QED BY <2>2, <2>3 DEF CardTask
<1> QED BY <1>1, <1>2

LEMMA CaptureKeeps ==
  ASSUME CardInv, TypeInv', NEW s \in Sessions, Capture(s)
  PROVE  CardInv'
<1>1. \A r \in Sessions :
        /\ sessions'[r].type = sessions[r].type
        /\ sessions[r].state # "none" => sessions'[r].state # "none"
        /\ IF r = s THEN inbox'[r] = 2
           ELSE sessions'[r] = sessions[r] /\ inbox'[r] = inbox[r]
  BY DEF Capture, CardInv, TypeInv, TypeOK
<1>2. UNCHANGED << booking, payment, ledger, task >>
  BY DEF Capture, rows
<1>3. ledger \subseteq Sessions
  BY DEF CardInv, TypeInv, TypeOK
<1>4. (NotAccepted /\ SettledParts)'
  BY <1>2 DEF CardInv, NotAccepted, SettledParts
<1>5. Promises'
  BY <1>1, <1>2, <1>3 DEF CardInv, Promises, PartsAddUp, PaidBookingsArePaid,
     LedgerMatchesPayment, OnlySurplusIsDropped
<1>6. RecordedSessions'
  BY <1>1, <1>2, <1>3 DEF CardInv, RecordedSessions
<1> QED BY <1>1, <1>2, <1>4, <1>5, <1>6, SameTasks DEF CardInv

\* A payment that is skipped or given back: the first only when the row is
\* complete, the second with a mark on the session.
LEMMA AnsweredKeeps ==
  ASSUME CardInv, TypeInv', NEW w \in Workers, NEW s \in Sessions,
         NEW fromInbox \in BOOLEAN,
         SkipPaid(w, s, fromInbox) \/ ReturnCharge(w, s, fromInbox)
  PROVE  CardInv'
<1>1. /\ UNCHANGED << booking, payment, ledger, task >>
      /\ \A r \in Sessions : r # s => inbox'[r] = inbox[r]
  BY DEF SkipPaid, ReturnCharge, rows, Processed, CardInv, TypeInv, TypeOK
<1>2. \A r \in Sessions :
        /\ sessions'[r].type = sessions[r].type
        /\ sessions[r].state # "none" => sessions'[r].state # "none"
        /\ r # s => sessions'[r] = sessions[r]
        /\ payment.status = "PAID" \/ sessions'[s].state # "captured"
  BY DEF SkipPaid, ReturnCharge, CardInv, TypeInv, TypeOK
<1>3. ledger \subseteq Sessions
  BY DEF CardInv, TypeInv, TypeOK
<1>4. (NotAccepted /\ SettledParts)'
  BY <1>1 DEF CardInv, NotAccepted, SettledParts
<1>5. (PartsAddUp /\ PaidBookingsArePaid /\ LedgerMatchesPayment)'
  BY <1>1, <1>2, <1>3 DEF CardInv, Promises, PartsAddUp, PaidBookingsArePaid,
     LedgerMatchesPayment
<1>6. OnlySurplusIsDropped'
  BY <1>1, <1>2 DEF CardInv, Promises, OnlySurplusIsDropped
<1>7. RecordedSessions'
  BY <1>1, <1>2, <1>3 DEF CardInv, RecordedSessions
<1> QED BY <1>1, <1>2, <1>4, <1>5, <1>6, <1>7, SameTasks DEF CardInv, Promises

(***************************************************************************)
(* Check.                                                                  *)
(***************************************************************************)
\* The rows of the table that matter: where PENDING_PAYMENT and CONFIRMED are
\* entered from.
LEMMA TableRows ==
  ASSUME NEW old \in Statuses
  PROVE  /\ ValidTransition(old, "PENDING_PAYMENT")
              => old \in { "PENDING", "ACCEPTED", "ALTERNATIVE_SUGGESTED" }
         /\ ValidTransition(old, "CONFIRMED") => old = "PENDING_PAYMENT"
BY DEF ValidTransition, Transitions, Statuses

LEMMA CheckKeeps ==
  ASSUME CardInv, TypeInv', NEW w \in Workers, Check(w)
  PROVE  CardInv'
<1> DEFINE t == task[w]
           u == task'[w]
<1>1. /\ UNCHANGED << booking, payment, ledger, sessions, inbox >>
      /\ \A v \in Workers \ { w } : task'[v] = task[v]
      /\ u = [ t EXCEPT !.checked = TRUE, !.licensed = Licensed ]
  BY DEF Check, rows, stripe, CardInv, TypeInv, TypeOK
<1>2. /\ u.op = t.op /\ u.to = t.to /\ u.seen = t.seen /\ u.type = t.type
      /\ u.session = t.session /\ u.checked
  BY <1>1 DEF CardInv, TypeInv, TypeOK, Tasks
<1>3. t.op \in { "accept", "applyPaid" } => \A v \in Workers \ { w } : ~Writing(task[v])
  BY DEF Check, PaymentLocked, Writing
<1>4. booking \in Statuses /\ ValidTransition(booking, t.to) /\ CardTask(t)
  BY DEF Check, CardInv, TypeInv, TypeOK
<1> HIDE DEF t, u
<1>5. AcceptHolds(u)
  <2>1. t.op = "accept" => booking \in { "PENDING", "ALTERNATIVE_SUGGESTED" }
    BY <1>4, TableRows DEF CardTask, AcceptHolds, CardInv, NotAccepted
  <2> QED BY <1>2, <1>4, <2>1 DEF CardTask, AcceptHolds, CardInv, NotAccepted
<1>6. ApplyHolds(u)
  <2>1. CASE t.op = "applyPaid" /\ t.to = "CONFIRMED" /\ t.seen.final # "PAID"
    <3>1. payment.final # "PAID"
      BY <1>4, <2>1, TableRows DEF CardTask, ApplyHolds, CardInv, SettledParts
    <3> QED BY <1>2, <1>4, <2>1, <3>1 DEF CardTask, ApplyHolds
  <2>2. CASE t.op = "applyPaid" /\ ~(t.to = "CONFIRMED" /\ t.seen.final # "PAID")
    <3>1. ApplyHolds(t)
      BY <1>4 DEF CardTask
    <3> QED BY <1>2, <2>2, <3>1 DEF ApplyHolds
  <2>3. CASE t.op # "applyPaid"
    BY <1>2, <2>3 DEF ApplyHolds
  <2> QED BY <2>1, <2>2, <2>3
<1>7. CheckoutHolds(u)
  BY <1>2, <1>4 DEF CardTask, CheckoutHolds
<1>8. MoveHolds(u)
  <2>1. t.op = "reviewLicence" => payment.status = "PAID"
    BY DEF Check, t
  <2> QED BY <1>2, <1>4, <2>1 DEF CardTask, MoveHolds
<1>9. Writing(u) => t.op \in { "accept", "applyPaid" }
  BY <1>2 DEF Writing
<1>10. CardTask(u)
  BY <1>5, <1>6, <1>7, <1>8 DEF CardTask
<1> QED BY <1>1, <1>3, <1>9, <1>10, TaskStep DEF u

(***************************************************************************)
(* The steps that begin a handler.                                         *)
(***************************************************************************)
LEMMA BeginFrame ==
  ASSUME TypeInv, NEW w \in Workers, NEW t, Begin(w, t)
  PROVE  /\ UNCHANGED << booking, payment, ledger, sessions, inbox >>
         /\ \A v \in Workers \ { w } : task'[v] = task[v]
         /\ task'[w] = t
BY DEF Begin, rows, stripe, TypeInv, TypeOK

\* A handler that only moves the booking begins.
LEMMA MoveBegins ==
  ASSUME CardInv, TypeInv', NEW w \in Workers, NEW t, Begin(w, t),
         ~t.checked, t.op \notin { "accept", "applyPaid", "checkout" },
         t.to \notin OpenStatuses,
         t.to \in PaidStatuses /\ t.op # "reviewLicence" => payment.status = "PAID"
  PROVE  CardInv'
<1>1. CardTask(t) /\ ~Writing(t)
  BY DEF CardTask, AcceptHolds, ApplyHolds, CheckoutHolds, MoveHolds, Writing
<1>2. /\ UNCHANGED << booking, payment, ledger, sessions, inbox >>
      /\ \A v \in Workers \ { w } : task'[v] = task[v]
      /\ task'[w] = t
  BY BeginFrame DEF CardInv
<1> QED BY <1>1, <1>2, TaskStep

LEMMA MovingBegins ==
  ASSUME CardInv, TypeInv', NEW w \in Workers, NEW op, NEW to, Begin(w, Moving(op, to)),
         op \notin { "accept", "applyPaid", "checkout", "reviewLicence" },
         to \notin OpenStatuses, to \in PaidStatuses => payment.status = "PAID"
  PROVE  CardInv'
<1> DEFINE t == Moving(op, to)
<1>1. t.op = op /\ t.to = to /\ ~t.checked /\ Begin(w, t)
  BY DEF Moving, NoTask
<1> HIDE DEF t
<1> QED BY <1>1, MoveBegins

LEMMA AnswersKeep ==
  ASSUME CardInv, TypeInv', NEW w \in Workers,
         \/ BeginReject(w) \/ BeginHandover(w) \/ BeginReturn(w) \/ BeginConfirm(w)
         \/ BeginComplete(w) \/ BeginNoShow(w) \/ BeginCancel(w) \/ BeginReview(w)
  PROVE  CardInv'
<1>1. PaidBookingsArePaid
  BY DEF CardInv, Promises
<1>2. CASE BeginReject(w)
  BY <1>2, MovingBegins DEF BeginReject, OpenStatuses, PaidStatuses
<1>3. CASE BeginHandover(w)
  BY <1>3, MovingBegins DEF BeginHandover, OpenStatuses
<1>4. CASE BeginReturn(w)
  BY <1>1, <1>4, MovingBegins DEF BeginReturn, OpenStatuses, PaidBookingsArePaid
<1>5. CASE BeginConfirm(w)
  BY <1>1, <1>5, MovingBegins DEF BeginConfirm, OpenStatuses, PaidBookingsArePaid
<1>6. CASE BeginComplete(w)
  BY <1>6, MovingBegins DEF BeginComplete, OpenStatuses
<1>7. CASE BeginNoShow(w)
  <2> DEFINE t == Moving("noShow", IF payment.status = "PAID" THEN "NO_SHOW"
                                   ELSE "NO_SHOW_UNPAID")
  <2>1. t.op = "noShow" /\ ~t.checked
    BY DEF Moving, NoTask
  <2>2. t.to = IF payment.status = "PAID" THEN "NO_SHOW" ELSE "NO_SHOW_UNPAID"
    BY DEF Moving, NoTask
  <2>3. t.to \notin OpenStatuses /\ (t.to \in PaidStatuses => payment.status = "PAID")
    BY <2>2 DEF OpenStatuses, PaidStatuses
  <2>4. Begin(w, t)
    BY <1>7 DEF BeginNoShow
  <2> HIDE DEF t
  <2> QED BY <2>1, <2>3, <2>4, MoveBegins
<1>8. CASE BeginCancel(w)
  <2>1. PICK op \in { "cancelCustomer", "cancelOperator", "cancelAdmin" }, c \in RefundCauses :
          Begin(w, [ Loaded(op, "CANCELLED") EXCEPT !.cause = c ])
    BY <1>8 DEF BeginCancel, RefundCauses, AdminCauses
  <2> DEFINE t == [ Loaded(op, "CANCELLED") EXCEPT !.cause = c ]
  <2>2. t.op = op /\ t.to = "CANCELLED" /\ ~t.checked
    BY DEF Loaded, NoTask
  <2> HIDE DEF t
  <2>3. Begin(w, t)
    BY <2>1 DEF t
  <2> QED BY <2>2, <2>3, MoveBegins DEF OpenStatuses, PaidStatuses
<1>9. CASE BeginReview(w)
  <2>1. PICK d \in Documents, approved \in BOOLEAN :
          Begin(w, [ Moving("reviewLicence", "READY_FOR_PICKUP") EXCEPT
                       !.document = d, !.licensed = approved ])
    BY <1>9 DEF BeginReview
  <2> DEFINE t == [ Moving("reviewLicence", "READY_FOR_PICKUP") EXCEPT
                      !.document = d, !.licensed = approved ]
  <2>2. t.op = "reviewLicence" /\ t.to = "READY_FOR_PICKUP" /\ ~t.checked
    BY DEF Moving, NoTask
  <2> HIDE DEF t
  <2>3. Begin(w, t)
    BY <2>1 DEF t
  <2> QED BY <2>2, <2>3, MoveBegins DEF OpenStatuses
<1> QED BY <1>2, <1>3, <1>4, <1>5, <1>6, <1>7, <1>8, <1>9

LEMMA BeginAcceptKeeps ==
  ASSUME CardInv, TypeInv', NEW w \in Workers, BeginAccept(w)
  PROVE  CardInv'
<1> DEFINE t == Loaded("accept", "PENDING_PAYMENT")
<1>1. CardTask(t) /\ ~Writing(t)
  BY DEF CardTask, AcceptHolds, ApplyHolds, CheckoutHolds, MoveHolds, Writing, Loaded, NoTask
<1>2. Begin(w, t)
  BY DEF BeginAccept
<1> HIDE DEF t
<1>3. /\ UNCHANGED << booking, payment, ledger, sessions, inbox >>
      /\ \A v \in Workers \ { w } : task'[v] = task[v]
      /\ task'[w] = t
  BY <1>2, BeginFrame DEF CardInv
<1> QED BY <1>1, <1>3, TaskStep

LEMMA BeginCheckoutKeeps ==
  ASSUME CardInv, TypeInv', NEW w \in Workers, BeginCheckout(w)
  PROVE  CardInv'
<1>1. PICK type \in PaymentTypes :
        /\ SpecExists(payment, type, Deposit, Balance)
        /\ Begin(w, [ Loaded("checkout", "none") EXCEPT !.type = type ])
  BY DEF BeginCheckout
<1> DEFINE t == [ Loaded("checkout", "none") EXCEPT !.type = type ]
<1>2. CardTask(t) /\ ~Writing(t)
  BY <1>1 DEF CardTask, AcceptHolds, ApplyHolds, CheckoutHolds, MoveHolds, Writing,
              Loaded, NoTask, SpecExists
<1> HIDE DEF t
<1>3. /\ UNCHANGED << booking, payment, ledger, sessions, inbox >>
      /\ \A v \in Workers \ { w } : task'[v] = task[v]
      /\ task'[w] = t
  BY <1>1, BeginFrame DEF CardInv, t
<1> QED BY <1>2, <1>3, TaskStep

\* A payment is on its way: what it computed from the row it just read.
LEMMA BeginApplyKeeps ==
  ASSUME CardInv, TypeInv', NEW w \in Workers, NEW s \in Sessions,
         NEW fromInbox \in BOOLEAN, BeginApply(w, s, fromInbox)
  PROVE  CardInv'
<1> DEFINE type == sessions[s].type
           to   == IF StatusAfter(payment, type, "PAID") = "PAID" THEN "PAID"
                   ELSE IF type = "DOWN_PAYMENT" THEN "CONFIRMED" ELSE "PENDING_PAYMENT"
           t    == [ Loaded("applyPaid", to) EXCEPT
                       !.type = type, !.session = s, !.fromInbox = fromInbox ]
<1>1. Begin(w, t) /\ SpecExists(payment, type, Deposit, Balance)
  BY DEF BeginApply
<1>2. type \in PaymentTypes /\ payment \in Payments /\ sessions[s].state # "none"
  BY DEF BeginApply, MayApply, Untaken, CardInv, TypeInv, TypeOK
<1>3. /\ t.op = "applyPaid" /\ t.type = type /\ t.session = s /\ ~t.checked
      /\ t.seen = payment
  BY DEF Loaded, NoTask
<1>4. t.to = to
  BY DEF Loaded, NoTask
<1>5. \/ to = "PAID" /\ StatusAfter(payment, type, "PAID") = "PAID"
      \/ to = "CONFIRMED" /\ type = "DOWN_PAYMENT" /\ payment.final # "PAID"
  <2>1. CASE StatusAfter(payment, type, "PAID") = "PAID"
    BY <2>1
  <2>2. CASE StatusAfter(payment, type, "PAID") # "PAID"
    <3>1. type = "DOWN_PAYMENT" /\ payment.final # "PAID"
      BY <1>1, <1>2, <2>2, CompletedWhen
      DEF SpecExists, CoversDown, CoversFinal, PaymentTypes
    <3> QED BY <2>2, <3>1
  <2> QED BY <2>1, <2>2
<1>6. payment.status # "NONE" /\ (Balance = 0 => payment.final = "PAID")
  BY <1>1 DEF SpecExists, CardInv, SettledParts
<1> HIDE DEF t, to
<1>7. ApplyHolds(t)
  BY <1>2, <1>3, <1>4, <1>5, <1>6 DEF ApplyHolds
<1>8. CardTask(t) /\ ~Writing(t)
  BY <1>3, <1>7 DEF CardTask, AcceptHolds, CheckoutHolds, MoveHolds, Writing
<1>9. /\ UNCHANGED << booking, payment, ledger, sessions, inbox >>
      /\ \A v \in Workers \ { w } : task'[v] = task[v]
      /\ task'[w] = t
  BY <1>1, BeginFrame DEF CardInv
<1> QED BY <1>8, <1>9, TaskStep

LEMMA BeginSweepKeeps ==
  ASSUME CardInv, TypeInv', NEW w \in Workers, BeginSweep(w)
  PROVE  CardInv'
<1> DEFINE t == [ Loaded("sweep", "EXPIRED") EXCEPT
                    !.cause = IF payment.status = "PAID"
                                THEN "MISSED_LICENCE" ELSE "MISSED_BALANCE" ]
<1>1. t.op = "sweep" /\ t.to = "EXPIRED" /\ ~t.checked
  BY DEF Loaded, NoTask
<1>2. /\ UNCHANGED << booking, payment, ledger, sessions, inbox >>
      /\ task' = [ task EXCEPT ![w] = t ] \/ task' = task
  BY DEF BeginSweep, stripe
<1> HIDE DEF t
<1>3. CardTask(t) /\ ~Writing(t)
  BY <1>1 DEF CardTask, AcceptHolds, ApplyHolds, CheckoutHolds, MoveHolds, Writing,
              OpenStatuses, PaidStatuses
<1>4. /\ \A v \in Workers \ { w } : task'[v] = task[v]
      /\ task'[w] = t \/ task'[w] = task[w]
  BY <1>2 DEF CardInv, TypeInv, TypeOK
<1>5. /\ CardTask(task'[w])
      /\ Writing(task'[w]) => \A v \in Workers \ { w } : ~Writing(task[v])
  BY <1>3, <1>4, OnlyWriter DEF CardInv
<1> QED BY <1>2, <1>4, <1>5, TaskStep

(***************************************************************************)
(* The steps that end a handler.                                           *)
(***************************************************************************)
LEMMA AbandonKeeps ==
  ASSUME CardInv, TypeInv', NEW w \in Workers, Abandon(w)
  PROVE  CardInv'
<1>1. /\ UNCHANGED << booking, payment, ledger, sessions, inbox >>
      /\ \A v \in Workers \ { w } : task'[v] = task[v]
      /\ task'[w] = NoTask
  BY DEF Abandon, Finish, rows, stripe, CardInv, TypeInv, TypeOK
<1> QED BY <1>1, FreshTask, TaskStep

LEMMA SaveReviewKeeps ==
  ASSUME CardInv, TypeInv', NEW w \in Workers, SaveReview(w)
  PROVE  CardInv'
<1> DEFINE t == task[w]
           u == [ t EXCEPT !.document = 0 ]
<1>1. /\ UNCHANGED << booking, payment, ledger, sessions, inbox >>
      /\ \A v \in Workers \ { w } : task'[v] = task[v]
      /\ task'[w] = u \/ task'[w] = NoTask
      /\ t.op = "reviewLicence"
  BY DEF SaveReview, stripe, CardInv, TypeInv, TypeOK
<1>2. u.op = t.op /\ u.to = t.to /\ u.checked = t.checked
  BY DEF CardInv, TypeInv, TypeOK, Tasks
<1>3. MoveHolds(t)
  BY DEF CardInv, CardTask
<1> HIDE DEF t, u
<1>4. CardTask(u) /\ ~Writing(u)
  BY <1>1, <1>2, <1>3
  DEF CardTask, AcceptHolds, ApplyHolds, CheckoutHolds, MoveHolds, Writing
<1>5. CardTask(task'[w]) /\ ~Writing(task'[w])
  BY <1>1, <1>4, FreshTask
<1> QED BY <1>1, <1>5, TaskStep

LEMMA MovesKeep ==
  ASSUME CardInv, TypeInv', NEW w \in Workers, Operations \subseteq CardOperations,
         \/ CommitCancel(w) \/ CommitSweep(w) \/ CommitNoShow(w)
         \/ CommitMove(w) \/ Overwrite(w)
  PROVE  CardInv'
<1> DEFINE t == task[w]
<1>1. /\ Finish(w) /\ UNCHANGED << payment, ledger, sessions, inbox >>
      /\ booking' \in { "CANCELLED", "EXPIRED", t.to }
      /\ booking' = t.to => t.checked \/ t.op \in { "autoReject", "declineAlternative", "complete" }
                           \/ t.to \in { "CANCELLED", "EXPIRED" }
      /\ t.op \notin { "idle", "accept", "applyPaid", "checkout" }
  BY DEF CommitCancel, CommitSweep, CommitNoShow, CommitMove, Overwrite, Committing, stripe
<1>2. MoveHolds(t)
  BY DEF CardInv, CardTask
<1> HIDE DEF t
<1>3. booking' \notin OpenStatuses
  BY <1>1, <1>2 DEF MoveHolds, OpenStatuses
<1>4. booking' \in PaidStatuses => payment.status = "PAID"
  BY <1>1, <1>2 DEF MoveHolds, PaidStatuses
<1> QED BY <1>1, <1>3, <1>4, MoveStep

LEMMA WorldKeeps ==
  ASSUME CardInv, TypeInv', UploadLicence \/ Tick \/ UNCHANGED vars
  PROVE  CardInv'
<1>1. UNCHANGED << booking, payment, ledger, sessions, inbox, task >>
  BY DEF UploadLicence, Tick, vars, rows, stripe
<1>2. (NotAccepted /\ SettledParts /\ RecordedSessions /\ Promises)'
  BY <1>1 DEF CardInv, NotAccepted, SettledParts, RecordedSessions, Promises, PartsAddUp,
              PaidBookingsArePaid, LedgerMatchesPayment, OnlySurplusIsDropped
<1> QED BY <1>1, <1>2, SameTasks DEF CardInv

\* The handlers that are not among the card operations do not run.
LEMMA OthersAbsent ==
  ASSUME TypeInv, Operations \subseteq CardOperations, NEW w \in Workers
  PROVE  /\ ~ManualPayment(w)
         /\ ~BeginAutoReject(w) /\ ~BeginSuggest(w) /\ ~CommitSuggest(w)
         /\ ~BeginDecline(w) /\ ~BeginOverride(w)
         /\ ~ReturnByHand(w)
<1>1. task[w].op \in CardOperations \cup { "idle" }
  BY DEF TypeInv, TypeOK, Tasks
<1>2. ~BeginAutoReject(w) /\ ~BeginSuggest(w) /\ ~BeginDecline(w) /\ ~BeginOverride(w)
  BY DEF BeginAutoReject, BeginSuggest, BeginDecline, BeginOverride, Free, CardOperations
<1>3. ~CommitSuggest(w)
  BY <1>1 DEF CommitSuggest, Committing, CardOperations
<1>4. ~BeginUpload(w) /\ ~BeginApprove(w) /\ ~BeginDisapprove(w) /\ ~BeginRequest(w)
  BY DEF BeginUpload, BeginApprove, BeginDisapprove, BeginRequest, Free, CardOperations
<1>5. ~SaveReceipt(w) /\ ~SaveBooking(w)
  BY <1>1 DEF SaveReceipt, SaveBooking, ReceiptOperations, CardOperations
<1>6. ~ReturnByHand(w)
  BY <1>1 DEF ReturnByHand, SkipRefunded, BeginRefunded, MayUndo, Free, CancelRefunded,
         Committing, RecordRefunded, CardOperations
<1> QED BY <1>2, <1>3, <1>4, <1>5, <1>6 DEF ManualPayment

LEMMA NobodyTakesBack ==
  ASSUME Operations \subseteq CardOperations, NEW s \in Sessions
  PROVE  ~TakeBack(s)
BY DEF TakeBack, CardOperations

(***************************************************************************)
(* The theorems                                                            *)
(***************************************************************************)
LEMMA InitKeeps == Init => CardInv
<1> SUFFICES ASSUME Init PROVE CardInv
  OBVIOUS
<1>1. TypeInv
  BY InitTypes
<1>2. /\ booking = "PENDING" /\ payment = NoPayment /\ ledger = {}
      /\ \A w \in Workers : task[w] = NoTask
      /\ \A s \in Sessions : sessions[s].state = "none"
  BY DEF Init, NoSession
<1>3. payment.status = "NONE" /\ payment.down = "UNPAID" /\ payment.final = "UNPAID"
  BY <1>2 DEF NoPayment
<1>4. NotAccepted /\ SettledParts /\ RecordedSessions /\ Promises
  BY <1>2, <1>3 DEF NotAccepted, SettledParts, RecordedSessions, Promises, PartsAddUp,
     PaidBookingsArePaid, LedgerMatchesPayment, OnlySurplusIsDropped
<1>5. OneWriter /\ \A w \in Workers : CardTask(task[w])
  BY <1>2, FreshTask DEF OneWriter
<1> QED BY <1>1, <1>4, <1>5 DEF CardInv

LEMMA NextKeeps ==
  ASSUME Operations \subseteq CardOperations
  PROVE  CardInv /\ [Next]_vars => CardInv'
<1> SUFFICES ASSUME CardInv, [Next]_vars PROVE CardInv'
  OBVIOUS
<1>1. TypeInv'
  BY NextTypes DEF CardInv
<1>2. ASSUME NEW w \in Workers, Work(w) PROVE CardInv'
  <2> USE <1>1, <1>2
  <2>0. TypeInv
    BY DEF CardInv
  <2>1. CASE Answer(w)
    BY <2>0, <2>1, OthersAbsent, BeginAcceptKeeps, CommitAcceptKeeps, AnswersKeep DEF Answer
  <2>2. CASE CardPayment(w)
    <3>1. CASE \E s \in Sessions, fromInbox \in BOOLEAN :
                 SkipPaid(w, s, fromInbox) \/ ReturnCharge(w, s, fromInbox)
      BY <3>1, AnsweredKeeps
    <3>2. CASE \E s \in Sessions, fromInbox \in BOOLEAN : BeginApply(w, s, fromInbox)
      BY <3>2, BeginApplyKeeps
    <3> QED BY <2>2, <3>1, <3>2, BeginCheckoutKeeps, CommitCheckoutKeeps, CommitApplyKeeps
            DEF CardPayment
  <2>3. CASE Closure(w)
    BY <2>3, AnswersKeep, BeginSweepKeeps, MovesKeep DEF Closure
  <2>4. CASE Rental(w)
    BY <2>0, <2>4, OthersAbsent, AnswersKeep, SaveReviewKeeps, MovesKeep DEF Rental
  <2>5. CASE Check(w) \/ CommitMove(w) \/ Overwrite(w) \/ Abandon(w)
    BY <2>5, CheckKeeps, MovesKeep, AbandonKeeps
  <2> QED BY <2>0, <2>1, <2>2, <2>3, <2>4, <2>5, OthersAbsent DEF Work
<1>3. ASSUME NEW s \in Sessions, Capture(s) PROVE CardInv'
  BY <1>1, <1>3, CaptureKeeps
<1> QED BY <1>1, <1>2, <1>3, WorldKeeps, NobodyTakesBack DEF Next

LEMMA CardInvariant ==
  ASSUME Operations \subseteq CardOperations
  PROVE  Spec => []CardInv
<1>1. Init => CardInv
  BY InitKeeps
<1>2. CardInv /\ [Next]_vars => CardInv'
  BY NextKeeps
<1> QED BY <1>1, <1>2, PTL DEF Spec

\* Whatever card payment handlers overlap, and however many sessions the
\* customer pays: the ledger has an entry exactly for the parts that are paid.
THEOREM LedgerFollowsPayments ==
  ASSUME Operations \subseteq CardOperations
  PROVE  Spec => []LedgerMatchesPayment
<1>1. CardInv => LedgerMatchesPayment
  BY DEF CardInv, Promises
<1> QED BY <1>1, CardInvariant, PTL

\* The overall status of the payment row and its parts tell the same story.
THEOREM PartsAlwaysAddUp ==
  ASSUME Operations \subseteq CardOperations
  PROVE  Spec => []PartsAddUp
<1>1. CardInv => PartsAddUp
  BY DEF CardInv, Promises
<1> QED BY <1>1, CardInvariant, PTL

\* No booking goes on without its payment.
THEOREM NobodyDrivesUnpaid ==
  ASSUME Operations \subseteq CardOperations
  PROVE  Spec => []PaidBookingsArePaid
<1>1. CardInv => PaidBookingsArePaid
  BY DEF CardInv, Promises
<1> QED BY <1>1, CardInvariant, PTL

\* An event is dropped only when the payment is complete without it.
THEOREM DroppedEventsAreSurplus ==
  ASSUME Operations \subseteq CardOperations
  PROVE  Spec => []OnlySurplusIsDropped
<1>1. CardInv => OnlySurplusIsDropped
  BY DEF CardInv, Promises
<1> QED BY <1>1, CardInvariant, PTL

-----------------------------------------------------------------------------
(***************************************************************************)
(* One checkout session.  An event is dropped only when the payment is     *)
(* complete without it, and a payment is complete only through a session   *)
(* the ledger knows, or when there is nothing to pay, which opens none.    *)
(***************************************************************************)
NoSessions ==
  /\ \A s \in Sessions : sessions[s].state = "none"
  /\ \A w \in Workers : task[w].op # "checkout"

\* getPaymentSpec throws when there is nothing to charge.
LEMMA NothingIsCheckedOutFree ==
  ASSUME NEW w \in Workers, BeginCheckout(w)
  PROVE  Deposit + Balance > 0
<1>1. PICK type \in PaymentTypes : PriceOf(type, Deposit, Balance) > 0
  BY DEF BeginCheckout, SpecExists
<1> QED BY <1>1, AmountsAssumption DEF PriceOf

\* A handler that is not the checkout begins, goes on or ends.
LEMMA NoCheckoutBegins ==
  ASSUME NoSessions, TypeInv, NEW w \in Workers, NEW t, t.op # "checkout",
         task' = [ task EXCEPT ![w] = t ], sessions' = sessions
  PROVE  NoSessions'
BY DEF NoSessions, TypeInv, TypeOK

LEMMA NoSessionsStep ==
  ASSUME Deposit + Balance = 0, Operations \subseteq CardOperations
  PROVE  NoSessions /\ TypeInv /\ [Next]_vars => NoSessions'
<1> SUFFICES ASSUME NoSessions, TypeInv, [Next]_vars PROVE NoSessions'
  OBVIOUS
<1>1. ASSUME NEW w \in Workers, Finish(w), sessions' = sessions PROVE NoSessions'
  BY <1>1, NoCheckoutBegins DEF Finish, NoTask
<1>2. ASSUME NEW w \in Workers, NEW op, NEW to, op # "checkout",
             Begin(w, Moving(op, to)) \/ Begin(w, Loaded(op, to))
      PROVE  NoSessions'
  <2>1. Loaded(op, to).op = op /\ Moving(op, to).op = op
    BY DEF Loaded, Moving, NoTask
  <2> QED BY <1>2, <2>1, NoCheckoutBegins DEF Begin, stripe
<1>3. ASSUME NEW w \in Workers, NEW t, t.op # "checkout", Begin(w, t) PROVE NoSessions'
  BY <1>3, NoCheckoutBegins DEF Begin, stripe
<1>4. CASE UNCHANGED << sessions, task >>
  BY <1>4 DEF NoSessions
<1>5. ASSUME NEW w \in Workers, Work(w) PROVE NoSessions'
  <2> USE <1>5
  <2>1. CASE Answer(w)
    BY <1>1, <1>2, <2>1
    DEF Answer, BeginAccept, CommitAccept, BeginReject, BeginAutoReject, BeginSuggest,
        CommitSuggest, BeginDecline, stripe
  <2>2. CASE CardPayment(w)
    <3>1. ASSUME NEW s \in Sessions, NEW fromInbox \in BOOLEAN
          PROVE  ~MayApply(w, s, fromInbox)
      BY DEF NoSessions, MayApply, Untaken
    <3>2. ~BeginCheckout(w) /\ ~CommitCheckout(w)
      <4>1. ~BeginCheckout(w)
        BY NothingIsCheckedOutFree, AmountsAssumption
      <4>2. CommitCheckout(w) => task[w].op = "checkout"
        BY DEF CommitCheckout
      <4> QED BY <4>1, <4>2 DEF NoSessions
    <3>3. CommitApply(w)
      BY <2>2, <3>1, <3>2 DEF CardPayment, SkipPaid, ReturnCharge, BeginApply
    <3> QED BY <1>1, <3>3 DEF CommitApply
  <2>3. CASE Closure(w)
    <3>1. CASE BeginCancel(w)
      <4>0. PICK op \in { "cancelCustomer", "cancelOperator", "cancelAdmin" } :
              \E c : Begin(w, [ Loaded(op, "CANCELLED") EXCEPT !.cause = c ])
        BY <3>1 DEF BeginCancel
      <4>1. PICK c : Begin(w, [ Loaded(op, "CANCELLED") EXCEPT !.cause = c ])
        BY <4>0
      <4>2. [ Loaded(op, "CANCELLED") EXCEPT !.cause = c ].op = op
        BY DEF Loaded, NoTask
      <4> QED BY <1>3, <4>1, <4>2
    <3>2. CASE BeginSweep(w)
      <4> DEFINE t == [ Loaded("sweep", "EXPIRED") EXCEPT
                          !.cause = IF payment.status = "PAID"
                                      THEN "MISSED_LICENCE" ELSE "MISSED_BALANCE" ]
      <4>1. /\ sessions' = sessions
            /\ task' = task \/ task' = [ task EXCEPT ![w] = t ]
        BY <3>2 DEF BeginSweep, stripe
      <4>2. t.op = "sweep"
        BY DEF Loaded, NoTask
      <4> HIDE DEF t
      <4> QED BY <1>4, <4>1, <4>2, NoCheckoutBegins
    <3> QED BY <1>1, <2>3, <3>1, <3>2 DEF Closure, CommitCancel, CommitSweep, stripe
  <2>4. CASE Rental(w)
    <3>1. CASE BeginReview(w)
      <4>1. PICK d, approved :
              Begin(w, [ Moving("reviewLicence", "READY_FOR_PICKUP") EXCEPT
                           !.document = d, !.licensed = approved ])
        BY <3>1 DEF BeginReview
      <4>2. [ Moving("reviewLicence", "READY_FOR_PICKUP") EXCEPT
                !.document = d, !.licensed = approved ].op = "reviewLicence"
        BY DEF Moving, NoTask
      <4> QED BY <1>3, <4>1, <4>2
    <3>2. CASE SaveReview(w)
      <4>1. PICK t : /\ t.op # "checkout" /\ sessions' = sessions
                     /\ task' = [ task EXCEPT ![w] = t ]
        BY <3>2 DEF SaveReview, stripe, NoTask, TypeInv, TypeOK, Tasks
      <4> QED BY <4>1, NoCheckoutBegins
    <3> QED BY <1>1, <1>2, <2>4, <3>1, <3>2
            DEF Rental, BeginHandover, BeginReturn, BeginConfirm, BeginComplete, BeginNoShow,
                CommitNoShow, BeginOverride, stripe
  <2>5. ~ManualPayment(w) /\ ~ReturnByHand(w)
    BY OthersAbsent
  <2>6. CASE Check(w)
    <3>1. PICK t : /\ t.op # "checkout" /\ sessions' = sessions
                   /\ task' = [ task EXCEPT ![w] = t ]
      BY <2>6 DEF Check, Transactional, stripe, TypeInv, TypeOK, Tasks
    <3> QED BY <3>1, NoCheckoutBegins
  <2> QED BY <1>1, <2>1, <2>2, <2>3, <2>4, <2>5, <2>6
          DEF Work, CommitMove, Overwrite, Abandon, stripe
<1>6. ASSUME NEW s \in Sessions PROVE ~Capture(s)
  BY DEF NoSessions, Capture
<1> QED BY <1>4, <1>5, <1>6, NobodyTakesBack DEF Next, UploadLicence, Tick, vars, stripe

\* Money Stripe captured through the only checkout session of a booking is recorded,
\* given back or reported, or waits as an event that will be processed again:
\* applyPaidState never forgets it, whatever card handlers overlap with it.
THEOREM CapturedMoneyIsNotForgotten ==
  ASSUME Operations \subseteq CardOperations, \A r, s \in Sessions : r = s
  PROVE  Spec => []CapturedMoneyIsKept
<1>1. CASE Deposit + Balance = 0
  <2>1. Init => NoSessions
    BY DEF Init, NoSessions, NoSession, NoTask
  <2>2. NoSessions => CapturedMoneyIsKept
    BY DEF NoSessions, CapturedMoneyIsKept
  <2>3. CardInv => TypeInv
    BY DEF CardInv
  <2>4. NoSessions /\ TypeInv /\ [Next]_vars => NoSessions'
    BY <1>1, NoSessionsStep
  <2> QED BY <2>1, <2>2, <2>3, <2>4, CardInvariant, PTL DEF Spec
<1>2. CASE Deposit + Balance # 0
  <2>1. CardInv => CapturedMoneyIsKept
    <3> SUFFICES ASSUME CardInv, NEW s \in Sessions, sessions[s].state = "captured",
                        s \notin ledger, inbox[s] = 0
                 PROVE  FALSE
      BY DEF CapturedMoneyIsKept, CardInv, TypeInv, TypeOK
    <3>1. payment.status = "PAID" /\ payment.down = "PAID" /\ payment.final = "PAID"
      BY DEF CardInv, Promises, OnlySurplusIsDropped, PartsAddUp
    <3>2. Deposit > 0 \/ Balance > 0
      BY <1>2, AmountsAssumption
    <3>3. PICK r \in ledger : TRUE
      BY <3>1, <3>2 DEF CardInv, Promises, LedgerMatchesPayment
    <3> QED BY <3>3 DEF CardInv, TypeInv, TypeOK
  <2> QED BY <2>1, CardInvariant, PTL
<1> QED BY <1>1, <1>2

-----------------------------------------------------------------------------
(***************************************************************************)
(* Refunds of card payments, for any number of workers.  A closure quotes  *)
(* from the row it has read, which may be old; but a part that was paid    *)
(* then is paid now, so whatever the quote gives back was paid.            *)
(***************************************************************************)
PartsStay ==
  /\ payment.down  = "PAID" => payment'.down  = "PAID"
  /\ payment.final = "PAID" => payment'.final = "PAID"

\* What a task has seen paid is paid.
SeenIsPaid(t) ==
  /\ t.seen.down  = "PAID" \/ t.seen.status = "PAID" => payment.down  = "PAID"
  /\ t.seen.final = "PAID" \/ t.seen.status = "PAID" => payment.final = "PAID"

RefundInv == RefundsArePaidFor /\ \A w \in Workers : SeenIsPaid(task[w])

\* What a step makes a task see is what it saw, the row, or nothing.
SeenIsFound ==
  \A v \in Workers : task'[v].seen \in { task[v].seen, payment, NoPayment }

\* The writers of the row, and what each does to a part that is paid.
LEMMA NextPartsStay ==
  ASSUME Operations \subseteq CardOperations
  PROVE  CardInv /\ [Next]_vars => PartsStay
<1> SUFFICES ASSUME CardInv, [Next]_vars PROVE PartsStay
  OBVIOUS
<1>1. ASSUME NEW w \in Workers, CommitAccept(w) PROVE PartsStay
  <2>1. payment = NoPayment
    BY <1>1 DEF CommitAccept, Committing, CardInv, CardTask, AcceptHolds
  <2> QED BY <2>1 DEF PartsStay, NoPayment
<1>2. ASSUME NEW w \in Workers, CommitCheckout(w) PROVE PartsStay
  <2>1. payment'.down = payment.down /\ payment'.final = payment.final
    BY <1>2 DEF CommitCheckout, CardInv, TypeInv, TypeOK, Payments
  <2> QED BY <2>1 DEF PartsStay
<1>3. ASSUME NEW w \in Workers, CommitApply(w) PROVE PartsStay
  BY <1>3, RecordedRow DEF PartsStay
<1>4. ASSUME UNCHANGED payment PROVE PartsStay
  BY <1>4 DEF PartsStay
<1>5. ASSUME NEW w \in Workers, Work(w) PROVE PartsStay
  <2>1. ~ManualPayment(w) /\ ~ReturnByHand(w)
    BY OthersAbsent DEF CardInv
  <2>2. CASE Answer(w)
    BY <1>1, <1>4, <2>2
    DEF Answer, BeginAccept, BeginReject, BeginAutoReject, BeginSuggest, CommitSuggest,
        BeginDecline, Begin, rows
  <2>3. CASE CardPayment(w)
    BY <1>2, <1>3, <1>4, <2>3
    DEF CardPayment, BeginCheckout, BeginApply, SkipPaid, ReturnCharge, Begin, rows
  <2>4. CASE Closure(w)
    BY <1>4, <2>4 DEF Closure, BeginCancel, CommitCancel, BeginSweep, CommitSweep, Begin, rows
  <2>5. CASE Rental(w)
    BY <1>4, <2>5
    DEF Rental, BeginReview, SaveReview, BeginHandover, BeginReturn, BeginConfirm,
        BeginComplete, BeginNoShow, CommitNoShow, BeginOverride, Begin, rows
  <2>6. CASE Check(w) \/ CommitMove(w) \/ Overwrite(w) \/ Abandon(w)
    BY <1>4, <2>6 DEF Check, CommitMove, Overwrite, Abandon, rows
  <2> QED BY <1>5, <2>1, <2>2, <2>3, <2>4, <2>5, <2>6 DEF Work
<1> QED BY <1>4, <1>5, NobodyTakesBack DEF Next, Capture, UploadLicence, Tick, vars, rows

\* No card handler takes a complete payment back, however old what it read.
THEOREM CardPaymentsStayPaid ==
  ASSUME Operations \subseteq CardOperations
  PROVE  Spec => PaidIsFinal
<1>1. CardInv /\ CardInv' /\ [Next]_vars => PaidStays
  BY NextPartsStay DEF PartsStay, PaidStays, CardInv, Promises, PartsAddUp
<1> QED BY <1>1, CardInvariant, PTL DEF Spec, PaidIsFinal

\* A step of one worker, which may begin, go on or end.
LEMMA OneTaskSees ==
  ASSUME TypeInv, NEW w \in Workers, NEW t, task' = [ task EXCEPT ![w] = t ],
         t.seen \in { task[w].seen, payment, NoPayment }
  PROVE  SeenIsFound
BY DEF SeenIsFound, TypeInv, TypeOK

LEMMA NextSees ==
  ASSUME Operations \subseteq CardOperations
  PROVE  CardInv /\ [Next]_vars => SeenIsFound
<1> SUFFICES ASSUME CardInv, [Next]_vars PROVE SeenIsFound
  OBVIOUS
<1>0. TypeInv
  BY DEF CardInv
<1>1. ASSUME UNCHANGED task PROVE SeenIsFound
  BY <1>1 DEF SeenIsFound
<1>2. ASSUME NEW w \in Workers, Finish(w) PROVE SeenIsFound
  BY <1>0, <1>2, OneTaskSees DEF Finish, NoTask
<1>3. ASSUME NEW w \in Workers, NEW op, NEW to, Begin(w, Loaded(op, to)) \/ Begin(w, Moving(op, to))
      PROVE  SeenIsFound
  <2>1. Loaded(op, to).seen = payment /\ Moving(op, to).seen = NoPayment
    BY DEF Loaded, Moving, NoTask
  <2> QED BY <1>0, <1>3, <2>1, OneTaskSees DEF Begin
<1>4. ASSUME NEW w \in Workers, NEW t, Begin(w, t), t.seen \in { payment, NoPayment }
      PROVE  SeenIsFound
  BY <1>0, <1>4, OneTaskSees DEF Begin
<1>5. ASSUME NEW w \in Workers, Work(w) PROVE SeenIsFound
  <2>1. ~ManualPayment(w) /\ ~ReturnByHand(w)
    BY <1>0, OthersAbsent
  <2>2. CASE Answer(w)
    BY <1>2, <1>3, <2>2
    DEF Answer, BeginAccept, CommitAccept, BeginReject, BeginAutoReject, BeginSuggest,
        CommitSuggest, BeginDecline
  <2>3. CASE CardPayment(w)
    <3>1. CASE BeginCheckout(w)
      <4>1. PICK type : Begin(w, [ Loaded("checkout", "none") EXCEPT !.type = type ])
        BY <3>1 DEF BeginCheckout
      <4>2. [ Loaded("checkout", "none") EXCEPT !.type = type ].seen = payment
        BY DEF Loaded, NoTask
      <4> QED BY <1>4, <4>1, <4>2
    <3>2. ASSUME NEW s \in Sessions, NEW fromInbox \in BOOLEAN, BeginApply(w, s, fromInbox)
          PROVE  SeenIsFound
      <4>1. PICK to, type :
              Begin(w, [ Loaded("applyPaid", to) EXCEPT
                           !.type = type, !.session = s, !.fromInbox = fromInbox ])
        BY <3>2 DEF BeginApply
      <4>2. [ Loaded("applyPaid", to) EXCEPT
                !.type = type, !.session = s, !.fromInbox = fromInbox ].seen = payment
        BY DEF Loaded, NoTask
      <4> QED BY <1>4, <4>1, <4>2
    <3>3. ASSUME NEW s \in Sessions, NEW fromInbox \in BOOLEAN,
                 SkipPaid(w, s, fromInbox) \/ ReturnCharge(w, s, fromInbox)
          PROVE  SeenIsFound
      BY <1>1, <3>3 DEF SkipPaid, ReturnCharge
    <3> QED BY <1>2, <2>3, <3>1, <3>2, <3>3 DEF CardPayment, CommitCheckout, CommitApply
  <2>4. CASE Closure(w)
    <3>1. CASE BeginCancel(w)
      <4>0. PICK op \in { "cancelCustomer", "cancelOperator", "cancelAdmin" } :
              \E c : Begin(w, [ Loaded(op, "CANCELLED") EXCEPT !.cause = c ])
        BY <3>1 DEF BeginCancel
      <4>1. PICK c : Begin(w, [ Loaded(op, "CANCELLED") EXCEPT !.cause = c ])
        BY <4>0
      <4>2. [ Loaded(op, "CANCELLED") EXCEPT !.cause = c ].seen = payment
        BY DEF Loaded, NoTask
      <4> QED BY <1>4, <4>1, <4>2
    <3>2. CASE BeginSweep(w)
      <4> DEFINE t == [ Loaded("sweep", "EXPIRED") EXCEPT
                          !.cause = IF payment.status = "PAID"
                                      THEN "MISSED_LICENCE" ELSE "MISSED_BALANCE" ]
      <4>1. task' = task \/ task' = [ task EXCEPT ![w] = t ]
        BY <3>2 DEF BeginSweep
      <4>2. t.seen = payment
        BY DEF Loaded, NoTask
      <4> HIDE DEF t
      <4> QED BY <1>0, <1>1, <4>1, <4>2, OneTaskSees
    <3> QED BY <1>2, <2>4, <3>1, <3>2 DEF Closure, CommitCancel, CommitSweep
  <2>5. CASE Rental(w)
    <3>1. CASE BeginReview(w)
      <4>1. PICK d, approved :
              Begin(w, [ Moving("reviewLicence", "READY_FOR_PICKUP") EXCEPT
                           !.document = d, !.licensed = approved ])
        BY <3>1 DEF BeginReview
      <4>2. [ Moving("reviewLicence", "READY_FOR_PICKUP") EXCEPT
                !.document = d, !.licensed = approved ].seen = NoPayment
        BY DEF Moving, NoTask
      <4> QED BY <1>4, <4>1, <4>2
    <3>2. CASE SaveReview(w)
      <4> DEFINE t == IF task[w].licensed THEN [ task[w] EXCEPT !.document = 0 ] ELSE NoTask
      <4>1. task' = [ task EXCEPT ![w] = t ]
        BY <3>2 DEF SaveReview
      <4>2. t.seen \in { task[w].seen, NoPayment }
        BY <1>0 DEF NoTask, TypeInv, TypeOK, Tasks
      <4> HIDE DEF t
      <4> QED BY <1>0, <1>1, <4>1, <4>2, OneTaskSees
    <3> QED BY <1>2, <1>3, <2>5, <3>1, <3>2
            DEF Rental, BeginHandover, BeginReturn, BeginConfirm, BeginComplete, BeginNoShow,
                CommitNoShow, BeginOverride
  <2>6. CASE Check(w)
    <3> DEFINE t == [ task[w] EXCEPT !.checked = TRUE, !.licensed = Licensed ]
    <3>1. task' = [ task EXCEPT ![w] = t ]
      BY <1>0, <2>6 DEF Check, TypeInv, TypeOK
    <3>2. t.seen = task[w].seen
      BY <1>0 DEF TypeInv, TypeOK, Tasks
    <3> HIDE DEF t
    <3> QED BY <1>0, <1>1, <3>1, <3>2, OneTaskSees
  <2> QED BY <1>2, <1>5, <2>1, <2>2, <2>3, <2>4, <2>5, <2>6
          DEF Work, CommitMove, Overwrite, Abandon
<1> QED BY <1>1, <1>5, NobodyTakesBack DEF Next, Capture, UploadLicence, Tick, vars

\* Refunds are created by closures only, each from what its task has seen.
LEMMA OnlyClosuresRefund ==
  ASSUME Operations \subseteq CardOperations, CardInv, [Next]_vars, refunds' # refunds
  PROVE  \E w \in Workers, t \in Tasks : t.seen = task[w].seen /\ refunds' = WithRefunds(t)
<1>1. PICK w \in Workers : Work(w)
  BY NobodyTakesBack DEF Next, Capture, UploadLicence, Tick, vars, rows
<1>2. ~ManualPayment(w) /\ ~ReturnByHand(w)
  BY OthersAbsent DEF CardInv
<1>3. CommitCancel(w) \/ CommitSweep(w)
  <2>1. ~Answer(w)
    BY DEF Answer, BeginAccept, CommitAccept, BeginReject, BeginAutoReject, BeginSuggest,
       CommitSuggest, BeginDecline, Begin, rows
  <2>2. ~CardPayment(w)
    BY DEF CardPayment, BeginCheckout, CommitCheckout, BeginApply, CommitApply, SkipPaid,
       ReturnCharge, Begin, rows
  <2>3. ~Rental(w)
    BY DEF Rental, BeginReview, SaveReview, BeginHandover, BeginReturn, BeginConfirm,
       BeginComplete, BeginNoShow, CommitNoShow, BeginOverride, Begin, rows
  <2>4. ~Check(w) /\ ~CommitMove(w) /\ ~Overwrite(w) /\ ~Abandon(w)
    BY DEF Check, CommitMove, Overwrite, Abandon, rows
  <2>5. ~BeginCancel(w) /\ ~BeginSweep(w)
    BY DEF BeginCancel, BeginSweep, Begin, rows
  <2> QED BY <1>1, <1>2, <2>1, <2>2, <2>3, <2>4, <2>5 DEF Work, Closure
<1>4. /\ task[w] \in Tasks
      /\ [ task[w] EXCEPT !.active = TotalRefunds ] \in Tasks
      /\ [ task[w] EXCEPT !.active = TotalRefunds ].seen = task[w].seen
  <2>1. TotalRefunds \in Nat
    BY DEF TotalRefunds, CardInv, TypeInv, TypeOK, Parts
  <2> QED BY <2>1 DEF CardInv, TypeInv, TypeOK, Tasks
<1> QED BY <1>3, <1>4 DEF CommitCancel, CommitSweep

LEMMA RefundsAdded ==
  ASSUME TypeOK, NEW t \in Tasks, NEW quote,
         quote = RefundQuote(PaidDeposit(t.seen, Deposit), PaidBalance(t.seen, Balance),
                             t.active, t.cause, PartialRefund)
  PROVE  /\ WithRefunds(t).down = refunds.down + quote.deposit
         /\ WithRefunds(t).final = refunds.final + quote.balance
<1>1. WithRefunds(t) = [ refunds EXCEPT !.down = @ + quote.deposit, !.final = @ + quote.balance ]
  BY DEF WithRefunds
<1>2. refunds \in [ {"down", "final"} -> Nat ]
  BY DEF TypeOK, Parts
<1> QED BY <1>1, <1>2

\* A quote gives nothing back of a part that was not seen paid.
LEMMA QuotesOfSeen ==
  ASSUME TypeOK, NEW t \in Tasks
  PROVE  /\ WithRefunds(t).down > refunds.down
              => t.seen.down = "PAID" \/ t.seen.status = "PAID"
         /\ WithRefunds(t).final > refunds.final
              => t.seen.final = "PAID" \/ t.seen.status = "PAID"
<1> DEFINE deposit == PaidDeposit(t.seen, Deposit)
           balance == PaidBalance(t.seen, Balance)
           left == IF deposit + balance > t.active THEN deposit + balance - t.active ELSE 0
           share == PercentOf(deposit, PercentFor(t.cause, PartialRefund))
<1>1. /\ deposit \in Nat /\ balance \in Nat
      /\ deposit = 0 \/ t.seen.down = "PAID" \/ t.seen.status = "PAID"
      /\ balance = 0 \/ t.seen.final = "PAID" \/ t.seen.status = "PAID"
  BY AmountsAssumption DEF PaidDeposit, PaidBalance
<1>2. PICK quote : quote = RefundQuote(deposit, balance, t.active, t.cause, PartialRefund)
  OBVIOUS
<1>3. /\ WithRefunds(t).down = refunds.down + quote.deposit
      /\ WithRefunds(t).final = refunds.final + quote.balance
      /\ refunds.down \in Nat /\ refunds.final \in Nat
  BY <1>2, RefundsAdded DEF TypeOK, Parts
<1>4. t.active \in Nat /\ t.cause \in RefundCauses
  BY DEF Tasks
<1> HIDE DEF deposit, balance
<1>5. SplitsLeft(quote, balance, left, share)
  <2>1. left = IF deposit + balance > t.active THEN deposit + balance - t.active ELSE 0
    OBVIOUS
  <2> HIDE DEF left
  <2> QED BY <1>1, <1>2, <1>4, <2>1, QuoteSplits, AmountsAssumption
<1>6. deposit = 0 => share = 0
  <2>1. PercentOf(0, PercentFor(t.cause, PartialRefund)) = 0
    <3>1. PercentFor(t.cause, PartialRefund) \in Nat
      BY PercentApplies, AmountsAssumption DEF PercentFor
    <3> QED BY <3>1 DEF PercentOf
  <2> QED BY <2>1
<1>7. (deposit = 0 => quote.deposit = 0) /\ (balance = 0 => quote.balance = 0)
  <2>1. left \in Nat
    BY <1>1, <1>4
  <2> HIDE DEF left, share
  <2> QED BY <1>1, <1>5, <1>6, <2>1 DEF SplitsLeft, Lesser
<1> QED BY <1>1, <1>3, <1>7

LEMMA RefundInvKept ==
  ASSUME Operations \subseteq CardOperations
  PROVE  CardInv /\ CardInv' /\ RefundInv /\ [Next]_vars => RefundInv'
<1> SUFFICES ASSUME CardInv, CardInv', RefundInv, [Next]_vars PROVE RefundInv'
  OBVIOUS
<1>1. PartsStay /\ SeenIsFound
  BY NextPartsStay, NextSees
<1>2. PartsAddUp /\ NoPayment.down = "UNPAID" /\ NoPayment.final = "UNPAID"
      /\ NoPayment.status = "NONE"
  BY DEF CardInv, Promises, NoPayment
<1>3. ASSUME NEW v \in Workers PROVE SeenIsPaid(task[v])'
  <2>1. task'[v].seen \in { task[v].seen, payment, NoPayment }
    BY <1>1 DEF SeenIsFound
  <2>2. SeenIsPaid(task[v])
    BY DEF RefundInv
  <2> QED BY <1>1, <1>2, <2>1, <2>2 DEF SeenIsPaid, PartsStay, PartsAddUp
<1>4. RefundsArePaidFor'
  <2>1. CASE refunds' = refunds
    BY <1>1, <2>1 DEF RefundInv, RefundsArePaidFor, PartsStay
  <2>2. CASE refunds' # refunds
    <3>1. PICK w \in Workers, t \in Tasks : t.seen = task[w].seen /\ refunds' = WithRefunds(t)
      BY <2>2, OnlyClosuresRefund
    <3>2. /\ refunds'.down > refunds.down => t.seen.down = "PAID" \/ t.seen.status = "PAID"
          /\ refunds'.final > refunds.final => t.seen.final = "PAID" \/ t.seen.status = "PAID"
      BY <3>1, QuotesOfSeen DEF CardInv, TypeInv
    <3>3. /\ refunds.down \in Nat /\ refunds.final \in Nat
          /\ refunds'.down \in Nat /\ refunds'.final \in Nat
      BY DEF CardInv, TypeInv, TypeOK, Parts
    <3>4. SeenIsPaid(t)
      BY <3>1 DEF RefundInv, SeenIsPaid
    <3> QED BY <1>1, <3>2, <3>3, <3>4 DEF RefundInv, RefundsArePaidFor, SeenIsPaid, PartsStay
  <2> QED BY <2>1, <2>2
<1> QED BY <1>3, <1>4 DEF RefundInv

\* Whatever cancellations, sweeps and payments by card overlap, and however old the
\* payment a closure read: a part that was not paid is not refunded.
THEOREM OnlyPaidPartsAreRefunded ==
  ASSUME Operations \subseteq CardOperations
  PROVE  Spec => []RefundsArePaidFor
<1>1. Init => RefundInv
  BY DEF Init, RefundInv, RefundsArePaidFor, SeenIsPaid, Parts, NoTask, NoPayment
<1>2. CardInv /\ CardInv' /\ RefundInv /\ [Next]_vars => RefundInv'
  BY RefundInvKept
<1>3. RefundInv => RefundsArePaidFor
  BY DEF RefundInv
<1> QED BY <1>1, <1>2, <1>3, CardInvariant, PTL DEF Spec

-----------------------------------------------------------------------------
(***************************************************************************)
(* What all the handlers promise, receipts, overrides and charges returned *)
(* by hand included, when they run one after the other: at most one        *)
(* worker.  A handler still stops between two steps while the customer     *)
(* pays, uploads a licence or time passes, and may be abandoned at any of  *)
(* them; but what it has read of the rows nobody else writes, so its copy  *)
(* is current when it commits.                                             *)
(***************************************************************************)
\* The handlers that close a booking with a refund, and those that compute what they
\* write from the payment they have read.
ClosingOperations == { "cancelCustomer", "cancelOperator", "cancelAdmin", "sweep" }
Readers == ClosingOperations \cup ReceiptOperations \cup { "applyPaid" }

\* A receipt operation that has written the payment row is done with what it read.
PaymentSaved(t) == t.op \in ReceiptOperations /\ t.checked

\* What a handler has read is still so.
CopyIsCurrent(t) ==
  t.op \in Readers /\ ~PaymentSaved(t) => t.seen = payment /\ t.active = TotalRefunds

\* The cause a closure was given is that of the booking as it is.
CauseIsCurrent(t) ==
  /\ t.op = "cancelCustomer" =>
       t.cause = IF LicenceRejectedLate THEN "PLATFORM_FAULT" ELSE "CUSTOMER"
  /\ t.op = "cancelOperator" =>
       t.cause = IF booking = "OVERDUE" THEN "OPERATOR_OVERDUE" ELSE "OPERATOR"
  /\ t.op = "cancelAdmin" => t.cause \in AdminCauses
  /\ t.op = "sweep" => t.cause \in { "MISSED_LICENCE", "MISSED_BALANCE" }

ReviewIsCurrent(t) ==
  /\ t.op = "reviewLicence" =>
       IF t.document = 0 THEN Licensed
       ELSE documents[t.document] = "UNDER_REVIEW" /\ ~t.checked
  /\ t.op = "applyPaid" /\ t.licensed => Licensed
  /\ t.to = "READY_FOR_PICKUP" => t.op = "reviewLicence"

AloneTask(t) == CopyIsCurrent(t) /\ CauseIsCurrent(t) /\ ReviewIsCurrent(t)

\* The whole is paid only when its parts are.
WholeIsParts == payment.status = "PAID" => payment.down = "PAID" /\ payment.final = "PAID"

AloneInv ==
  /\ TypeInv
  /\ \A w \in Workers : AloneTask(task[w])
  /\ ReadyHasLicence /\ WholeIsParts

LEMMA NoTaskAlone == AloneTask(NoTask)
BY DEF AloneTask, CopyIsCurrent, CauseIsCurrent, ReviewIsCurrent, NoTask, Readers,
       ClosingOperations, ReceiptOperations

\* A handler that closes nothing, with what it has just read or without.
LEMMA FreshAlone ==
  ASSUME NEW t, t.op \in Readers => t.seen = payment /\ t.active = TotalRefunds,
         ~t.licensed, t.op # "reviewLicence", t.op \notin ClosingOperations,
         t.to # "READY_FOR_PICKUP"
  PROVE  AloneTask(t)
BY DEF AloneTask, CopyIsCurrent, CauseIsCurrent, ReviewIsCurrent, ClosingOperations

(***************************************************************************)
(* Steps that only change what the worker is in the middle of.             *)
(***************************************************************************)
LEMMA AloneTaskStep ==
  ASSUME AloneInv, TypeInv', NEW w \in Workers, NEW t, AloneTask(t),
         task' = [ task EXCEPT ![w] = t ],
         UNCHANGED << booking, payment, documents, refunds >>
  PROVE  AloneInv'
<1>1. (ReadyHasLicence /\ WholeIsParts)'
  BY DEF AloneInv, ReadyHasLicence, Licensed, WholeIsParts
<1>2. ASSUME NEW v \in Workers PROVE AloneTask(task[v])'
  <2>1. AloneTask(task'[v])
    BY DEF AloneInv, TypeInv, TypeOK
  <2> QED BY <2>1 DEF AloneTask, CopyIsCurrent, CauseIsCurrent, ReviewIsCurrent,
             PaymentSaved, TotalRefunds, Licensed, LicenceRejectedLate
<1> QED BY <1>1, <1>2 DEF AloneInv

LEMMA AloneBegins ==
  ASSUME AloneInv, TypeInv', NEW w \in Workers, NEW t, AloneTask(t), Begin(w, t)
  PROVE  AloneInv'
BY AloneTaskStep DEF Begin, rows

LEMMA PlainBegins ==
  ASSUME AloneInv, TypeInv', NEW w \in Workers, NEW op, NEW to,
         \/ Begin(w, Loaded(op, to))
         \/ Begin(w, Moving(op, to)) /\ op \notin Readers,
         op # "reviewLicence", op \notin ClosingOperations, to # "READY_FOR_PICKUP"
  PROVE  AloneInv'
<1>1. /\ Loaded(op, to).op = op /\ Loaded(op, to).to = to /\ ~Loaded(op, to).licensed
      /\ Loaded(op, to).seen = payment /\ Loaded(op, to).active = TotalRefunds
      /\ Moving(op, to).op = op /\ Moving(op, to).to = to /\ ~Moving(op, to).licensed
  BY DEF Loaded, Moving, NoTask
<1>2. CASE Begin(w, Loaded(op, to))
  BY <1>1, <1>2, FreshAlone, AloneBegins
<1>3. CASE Begin(w, Moving(op, to)) /\ op \notin Readers
  BY <1>1, <1>3, FreshAlone, AloneBegins
<1> QED BY <1>2, <1>3

LEMMA TypedBegins ==
  ASSUME AloneInv, TypeInv', NEW w \in Workers, NEW op, NEW to, NEW type,
         Begin(w, [ Loaded(op, to) EXCEPT !.type = type ]),
         op # "reviewLicence", op \notin ClosingOperations, to # "READY_FOR_PICKUP"
  PROVE  AloneInv'
<1> DEFINE t == [ Loaded(op, to) EXCEPT !.type = type ]
<1>1. /\ t.op = op /\ t.to = to /\ t.seen = payment /\ t.active = TotalRefunds /\ ~t.licensed
  BY DEF Loaded, NoTask
<1>2. Begin(w, t)
  OBVIOUS
<1> HIDE DEF t
<1>3. AloneTask(t)
  BY <1>1, FreshAlone
<1> QED BY <1>2, <1>3, AloneBegins

LEMMA MovesBeginAlone ==
  ASSUME AloneInv, TypeInv', NEW w \in Workers,
         \/ BeginAccept(w) \/ BeginReject(w) \/ BeginAutoReject(w)
         \/ BeginSuggest(w) \/ BeginDecline(w) \/ BeginHandover(w)
         \/ BeginReturn(w) \/ BeginConfirm(w) \/ BeginComplete(w)
         \/ BeginNoShow(w) \/ BeginOverride(w)
         \/ BeginDisapprove(w) \/ BeginRequest(w)
  PROVE  AloneInv'
<1> USE PlainBegins DEF Readers, ClosingOperations, ReceiptOperations
<1>1. CASE BeginAccept(w) \/ BeginReject(w) \/ BeginAutoReject(w)
  BY <1>1 DEF BeginAccept, BeginReject, BeginAutoReject
<1>2. CASE BeginSuggest(w) \/ BeginDecline(w)
  BY <1>2 DEF BeginSuggest, BeginDecline
<1>3. CASE BeginHandover(w) \/ BeginReturn(w) \/ BeginConfirm(w) \/ BeginComplete(w)
  BY <1>3 DEF BeginHandover, BeginReturn, BeginConfirm, BeginComplete
<1>4. CASE BeginNoShow(w)
  <2>1. PICK to \in { "NO_SHOW", "NO_SHOW_UNPAID" } : Begin(w, Moving("noShow", to))
    BY <1>4 DEF BeginNoShow
  <2> QED BY <2>1
<1>5. CASE BeginOverride(w)
  BY <1>5 DEF BeginOverride, OverrideStatuses
<1>6. CASE BeginDisapprove(w) \/ BeginRequest(w)
  BY <1>6 DEF BeginDisapprove, BeginRequest
<1> QED BY <1>1, <1>2, <1>3, <1>4, <1>5, <1>6

LEMMA PaymentsBeginAlone ==
  ASSUME AloneInv, TypeInv', NEW w \in Workers,
         \/ BeginCheckout(w) \/ BeginUpload(w) \/ BeginApprove(w)
         \/ \E s \in Sessions, fromInbox \in BOOLEAN : BeginApply(w, s, fromInbox)
  PROVE  AloneInv'
<1>1. CASE BeginCheckout(w) \/ BeginUpload(w)
  <2>1. PICK op \in { "checkout", "uploadReceipt" } :
          \E to \in { "none", "PENDING_PAYMENT" }, type \in PaymentTypes :
            Begin(w, [ Loaded(op, to) EXCEPT !.type = type ])
    BY <1>1 DEF BeginCheckout, BeginUpload
  <2>2. PICK to \in { "none", "PENDING_PAYMENT" }, type \in PaymentTypes :
          Begin(w, [ Loaded(op, to) EXCEPT !.type = type ])
    BY <2>1
  <2>3. op # "reviewLicence" /\ op \notin ClosingOperations /\ to # "READY_FOR_PICKUP"
    BY <2>1, <2>2 DEF ClosingOperations
  <2> QED BY <2>2, <2>3, TypedBegins
<1>2. CASE BeginApprove(w)
  <2> DEFINE op   == "approveReceipt"
             type == ApprovedType(payment)
             to   == ApprovedBooking(payment, type)
  <2>1. Begin(w, [ Loaded(op, to) EXCEPT !.type = type ])
    BY <1>2 DEF BeginApprove
  <2>2. op # "reviewLicence" /\ op \notin ClosingOperations /\ to # "READY_FOR_PICKUP"
    BY DEF ApprovedBooking, ClosingOperations
  <2> HIDE DEF op, type, to
  <2> QED BY <2>1, <2>2, TypedBegins
<1>3. ASSUME NEW s \in Sessions, NEW fromInbox \in BOOLEAN, BeginApply(w, s, fromInbox)
      PROVE  AloneInv'
  <2> DEFINE type == sessions[s].type
             to   == IF StatusAfter(payment, type, "PAID") = "PAID" THEN "PAID"
                     ELSE IF type = "DOWN_PAYMENT" THEN "CONFIRMED" ELSE "PENDING_PAYMENT"
             t    == [ Loaded("applyPaid", to) EXCEPT
                         !.type = type, !.session = s, !.fromInbox = fromInbox ]
  <2>1. Begin(w, t)
    BY <1>3 DEF BeginApply
  <2>2. /\ t.op = "applyPaid" /\ t.seen = payment
        /\ t.active = TotalRefunds /\ ~t.licensed
    BY DEF Loaded, NoTask
  <2>3. t.to = to
    BY DEF Loaded, NoTask
  <2>4. t.to # "READY_FOR_PICKUP"
    BY <2>3
  <2> HIDE DEF t
  <2>5. AloneTask(t)
    BY <2>2, <2>4, FreshAlone DEF ClosingOperations
  <2> QED BY <2>1, <2>5, AloneBegins
<1> QED BY <1>1, <1>2, <1>3

\* A closure notes its cause from the rows that it reads.
LEMMA ClosuresBeginAlone ==
  ASSUME AloneInv, TypeInv', NEW w \in Workers, BeginCancel(w) \/ BeginSweep(w)
  PROVE  AloneInv'
<1> DEFINE t(op, to, c) == [ Loaded(op, to) EXCEPT !.cause = c ]
<1>1. ASSUME NEW op, NEW to, NEW c
      PROVE  /\ t(op, to, c).op = op /\ t(op, to, c).to = to /\ t(op, to, c).cause = c
             /\ t(op, to, c).seen = payment /\ t(op, to, c).active = TotalRefunds
             /\ ~t(op, to, c).licensed
  BY DEF Loaded, NoTask
<1>2. ASSUME NEW c, NEW op \in ClosingOperations, NEW to \in { "CANCELLED", "EXPIRED" },
             CauseIsCurrent(t(op, to, c))
      PROVE  AloneTask(t(op, to, c))
  <2>1. PICK u : u = t(op, to, c)
    OBVIOUS
  <2> HIDE DEF t
  <2> QED BY <1>1, <1>2, <2>1 DEF AloneTask, CopyIsCurrent, ReviewIsCurrent, ClosingOperations
<1> HIDE DEF t
<1>3. CASE BeginCancel(w)
  <2>1. PICK op \in { "cancelCustomer", "cancelOperator", "cancelAdmin" } :
          \E c : /\ Begin(w, t(op, "CANCELLED", c))
                 /\ op = "cancelCustomer" =>
                      c = IF LicenceRejectedLate THEN "PLATFORM_FAULT" ELSE "CUSTOMER"
                 /\ op = "cancelOperator" =>
                      c = IF booking = "OVERDUE" THEN "OPERATOR_OVERDUE" ELSE "OPERATOR"
                 /\ op = "cancelAdmin" => c \in AdminCauses
    BY <1>3 DEF BeginCancel, t
  <2>2. PICK c : /\ Begin(w, t(op, "CANCELLED", c))
                 /\ op = "cancelCustomer" =>
                      c = IF LicenceRejectedLate THEN "PLATFORM_FAULT" ELSE "CUSTOMER"
                 /\ op = "cancelOperator" =>
                      c = IF booking = "OVERDUE" THEN "OPERATOR_OVERDUE" ELSE "OPERATOR"
                 /\ op = "cancelAdmin" => c \in AdminCauses
    BY <2>1
  <2>3. CauseIsCurrent(t(op, "CANCELLED", c))
    BY <1>1, <2>1, <2>2 DEF CauseIsCurrent
  <2> QED BY <1>2, <2>1, <2>2, <2>3, AloneBegins DEF ClosingOperations
<1>4. CASE BeginSweep(w)
  <2> DEFINE c == IF payment.status = "PAID" THEN "MISSED_LICENCE" ELSE "MISSED_BALANCE"
  <2>1. /\ UNCHANGED << booking, payment, documents, refunds >>
        /\ \/ task' = [ task EXCEPT ![w] = t("sweep", "EXPIRED", c) ]
           \/ task' = [ task EXCEPT ![w] = task[w] ]
    BY <1>4 DEF BeginSweep, AloneInv, TypeInv, TypeOK, t
  <2>2. c \in { "MISSED_LICENCE", "MISSED_BALANCE" }
    OBVIOUS
  <2> HIDE DEF c
  <2>3. CauseIsCurrent(t("sweep", "EXPIRED", c))
    BY <1>1, <2>2 DEF CauseIsCurrent
  <2>4. AloneTask(t("sweep", "EXPIRED", c)) /\ AloneTask(task[w])
    BY <1>2, <2>3 DEF ClosingOperations, AloneInv
  <2> QED BY <2>1, <2>4, AloneTaskStep
<1> QED BY <1>3, <1>4

\* A reviewer opens a document that waits for review.
LEMMA ReviewBeginsAlone ==
  ASSUME AloneInv, TypeInv', NEW w \in Workers, BeginReview(w)
  PROVE  AloneInv'
<1>1. PICK d \in Documents, approved \in BOOLEAN :
        /\ documents[d] = "UNDER_REVIEW"
        /\ Begin(w, [ Moving("reviewLicence", "READY_FOR_PICKUP") EXCEPT
                       !.document = d, !.licensed = approved ])
  BY DEF BeginReview
<1> DEFINE t == [ Moving("reviewLicence", "READY_FOR_PICKUP") EXCEPT
                    !.document = d, !.licensed = approved ]
<1>2. /\ t.op = "reviewLicence" /\ t.document = d /\ d # 0 /\ ~t.checked
      /\ t.to = "READY_FOR_PICKUP"
  BY BoundsAssumption DEF Moving, NoTask, Documents
<1>3. Begin(w, t)
  BY <1>1
<1> HIDE DEF t
<1>4. AloneTask(t)
  BY <1>1, <1>2 DEF AloneTask, CopyIsCurrent, CauseIsCurrent, ReviewIsCurrent, Readers,
     ClosingOperations, ReceiptOperations
<1> QED BY <1>3, <1>4, AloneBegins

\* The transaction finds the move in the table, and the licence if there is one.
LEMMA CheckAlone ==
  ASSUME AloneInv, TypeInv', NEW w \in Workers, Check(w)
  PROVE  AloneInv'
<1> DEFINE t == task[w]
           u == [ t EXCEPT !.checked = TRUE, !.licensed = Licensed ]
<1>1. /\ task' = [ task EXCEPT ![w] = u ]
      /\ UNCHANGED << booking, payment, documents, refunds >>
  BY DEF Check, rows, AloneInv, TypeInv, TypeOK
<1>2. /\ u.op = t.op /\ u.to = t.to /\ u.seen = t.seen /\ u.active = t.active
      /\ u.cause = t.cause /\ u.document = t.document /\ u.licensed = Licensed
  BY DEF AloneInv, TypeInv, TypeOK, Tasks
<1>3. /\ t.op \in Transactional
      /\ t.op = "reviewLicence" => t.document = 0
      /\ AloneTask(t)
  BY DEF Check, AloneInv
<1> HIDE DEF t, u
<1>4. t.op \notin ReceiptOperations
  BY <1>3 DEF Transactional, ReceiptOperations
<1>5. AloneTask(u)
  BY <1>2, <1>3, <1>4
  DEF AloneTask, CopyIsCurrent, CauseIsCurrent, ReviewIsCurrent, PaymentSaved
<1> QED BY <1>1, <1>5, AloneTaskStep

(***************************************************************************)
(* The licence.                                                            *)
(***************************************************************************)
\* A document that was decided stays so, and one under review waits for its review.
LEMMA DocumentsAlone ==
  ASSUME AloneInv, TypeInv',
         \A d \in Documents : \/ documents'[d] = documents[d]
                              \/ documents[d] = "none" /\ documents'[d] = "UNDER_REVIEW",
         UNCHANGED << booking, payment, refunds, task >>
  PROVE  AloneInv'
<1>1. (Licensed => Licensed') /\ (LicenceRejectedLate <=> LicenceRejectedLate')
  BY DEF Licensed, LicenceRejectedLate
<1>2. (ReadyHasLicence /\ WholeIsParts)'
  BY <1>1 DEF AloneInv, ReadyHasLicence, WholeIsParts
<1>3. ASSUME NEW v \in Workers PROVE AloneTask(task[v])'
  <2>1. AloneTask(task[v]) /\ task[v].document \in Documents \cup { 0 }
    BY DEF AloneInv, TypeInv, TypeOK, Tasks
  <2>2. ReviewIsCurrent(task[v])'
    BY <1>1, <2>1 DEF AloneTask, ReviewIsCurrent
  <2>3. CauseIsCurrent(task[v])'
    BY <1>1, <2>1 DEF AloneTask, CauseIsCurrent
  <2> QED BY <2>1, <2>2, <2>3 DEF AloneTask, CopyIsCurrent, PaymentSaved, TotalRefunds
<1> QED BY <1>2, <1>3 DEF AloneInv

\* The decision is saved: of the document that was under review.
LEMMA SaveReviewAlone ==
  ASSUME AloneInv, TypeInv', NEW w \in Workers, SaveReview(w), \A v \in Workers : v = w
  PROVE  AloneInv'
<1> DEFINE t == task[w]
           u == IF t.licensed THEN [ t EXCEPT !.document = 0 ] ELSE NoTask
<1>1. /\ t.op = "reviewLicence" /\ t.document \in Documents /\ t.licensed \in BOOLEAN
      /\ documents[t.document] = "UNDER_REVIEW" /\ AloneTask(t)
  BY DEF SaveReview, AloneInv, AloneTask, ReviewIsCurrent, TypeInv, TypeOK, Tasks
<1>2. /\ UNCHANGED << booking, payment, refunds >> /\ task'[w] = u
      /\ \A d \in Documents \ { t.document } : documents'[d] = documents[d]
      /\ t.licensed => documents'[t.document] = "APPROVED"
  BY <1>1 DEF SaveReview, AloneInv, TypeInv, TypeOK
<1>3. t.licensed => u.op = t.op /\ u.to = t.to /\ u.document = 0
  BY DEF AloneInv, TypeInv, TypeOK, Tasks
<1>4. ~t.licensed => u = NoTask
  OBVIOUS
<1> PICK next : next = u
  OBVIOUS
<1> HIDE DEF t, u
<1>5. (Licensed => Licensed') /\ (t.licensed => Licensed')
  BY <1>1, <1>2 DEF Licensed
<1>6. (ReadyHasLicence /\ WholeIsParts)'
  BY <1>2, <1>5 DEF AloneInv, ReadyHasLicence, WholeIsParts
<1>7. AloneTask(next)'
  BY <1>1, <1>3, <1>4, <1>5
  DEF AloneTask, CopyIsCurrent, CauseIsCurrent, ReviewIsCurrent, Readers,
      ClosingOperations, ReceiptOperations, NoTask
<1>8. \A v \in Workers : AloneTask(task[v])'
  <2>1. AloneTask(task[w])'
    BY <1>2, <1>7 DEF AloneTask, CopyIsCurrent, CauseIsCurrent, ReviewIsCurrent, PaymentSaved
  <2> QED BY <2>1
<1> QED BY <1>6, <1>8 DEF AloneInv

(***************************************************************************)
(* The commits that move the booking.                                      *)
(***************************************************************************)
LEMMA FinishAlone ==
  ASSUME AloneInv, TypeInv', NEW w \in Workers, \A v \in Workers : v = w, Finish(w),
         (ReadyHasLicence /\ WholeIsParts)'
  PROVE  AloneInv'
<1>1. \A v \in Workers : task'[v] = NoTask
  BY DEF Finish, AloneInv, TypeInv, TypeOK
<1>2. ASSUME NEW v \in Workers PROVE AloneTask(task[v])'
  BY <1>1 DEF AloneTask, CopyIsCurrent, CauseIsCurrent, ReviewIsCurrent, NoTask, Readers,
     ClosingOperations, ReceiptOperations
<1> QED BY <1>2 DEF AloneInv

\* What a handler writes into the booking: READY_FOR_PICKUP only with a licence.
LEMMA MovesEndAlone ==
  ASSUME AloneInv, TypeInv', NEW w \in Workers, \A v \in Workers : v = w,
         \/ CommitSuggest(w) \/ CommitMove(w) \/ Overwrite(w) \/ CommitNoShow(w)
         \/ SaveBooking(w) \/ CommitCancel(w) \/ CommitSweep(w) \/ Abandon(w)
  PROVE  AloneInv'
<1>1. Finish(w) /\ UNCHANGED << payment, documents >>
  BY DEF CommitSuggest, CommitMove, Overwrite, CommitNoShow, SaveBooking, CommitCancel,
     CommitSweep, Abandon, rows
<1>2. \/ booking' = booking
      \/ booking' \in { "ALTERNATIVE_SUGGESTED", "CANCELLED", "EXPIRED" }
      \/ booking' = task[w].to /\ (task[w].op = "reviewLicence" => task[w].checked)
  BY DEF CommitSuggest, CommitMove, Overwrite, CommitNoShow, Committing, SaveBooking,
     CommitCancel, CommitSweep, Abandon, rows, ReceiptOperations
<1>3. AloneTask(task[w]) /\ ReadyHasLicence
  BY DEF AloneInv
<1>4. ReadyHasLicence'
  BY <1>1, <1>2, <1>3 DEF ReadyHasLicence, AloneTask, ReviewIsCurrent, Licensed
<1>5. WholeIsParts'
  BY <1>1 DEF AloneInv, WholeIsParts
<1> QED BY <1>1, <1>4, <1>5, FinishAlone

(***************************************************************************)
(* The payment.                                                            *)
(***************************************************************************)
LEMMA ConfirmAlone ==
  ASSUME TypeInv, NEW type \in PaymentTypes, NEW ref,
         payment' = Confirmed(payment, payment, type, ref)
  PROVE  WholeIsParts'
<1>1. payment \in Payments
  BY DEF TypeInv, TypeOK
<1>2. /\ payment'.status = StatusAfter(payment, type, "PAID")
      /\ payment'.down  = IF CoversDown(type)  THEN "PAID" ELSE payment.down
      /\ payment'.final = IF CoversFinal(type) THEN "PAID" ELSE payment.final
  BY <1>1 DEF Confirmed, Payments
<1> QED BY <1>1, <1>2, CompletedWhen DEF WholeIsParts

LEMMA PaymentsEndAlone ==
  ASSUME AloneInv, TypeInv', NEW w \in Workers, \A v \in Workers : v = w,
         CommitAccept(w) \/ CommitCheckout(w) \/ CommitApply(w)
  PROVE  AloneInv'
<1> DEFINE t == task[w]
<1>1. Finish(w) /\ UNCHANGED documents
  BY DEF CommitAccept, CommitCheckout, CommitApply
<1>2. AloneTask(t) /\ t.type \in PaymentTypes /\ payment \in Payments
  BY DEF AloneInv, TypeInv, TypeOK, Tasks
<1>3. CASE CommitAccept(w)
  <2>1. /\ booking' = "PENDING_PAYMENT"
        /\ payment'.status = IF Deposit + Balance = 0 THEN "PAID" ELSE "UNPAID"
        /\ payment'.down   = IF Deposit = 0 THEN "PAID" ELSE "UNPAID"
        /\ payment'.final  = IF Balance = 0 THEN "PAID" ELSE "UNPAID"
    BY <1>3 DEF CommitAccept
  <2>2. (ReadyHasLicence /\ WholeIsParts)'
    BY <2>1, AmountsAssumption DEF ReadyHasLicence, WholeIsParts
  <2> QED BY <1>1, <2>2, FinishAlone
<1>4. CASE CommitCheckout(w)
  <2>1. /\ booking' = booking
        /\ payment'.status = payment.status
        /\ payment'.down = payment.down /\ payment'.final = payment.final
    BY <1>2, <1>4 DEF CommitCheckout, Payments
  <2>2. (ReadyHasLicence /\ WholeIsParts)'
    BY <1>1, <2>1 DEF AloneInv, ReadyHasLicence, WholeIsParts, Licensed
  <2> QED BY <1>1, <2>2, FinishAlone
<1>5. CASE CommitApply(w)
  <2>1. /\ t.op = "applyPaid"
        /\ payment' = Confirmed(payment, t.seen, t.type, "intent")
        /\ booking' = IF t.to = "PAID" /\ t.licensed THEN "READY_FOR_PICKUP" ELSE t.to
    BY <1>5 DEF CommitApply, Committing
  <2>2. t.seen = payment
    BY <1>2, <2>1 DEF AloneTask, CopyIsCurrent, Readers, PaymentSaved, ReceiptOperations
  <2>3. ReadyHasLicence'
    BY <1>1, <1>2, <2>1 DEF ReadyHasLicence, AloneTask, ReviewIsCurrent, Licensed
  <2>4. WholeIsParts'
    BY <1>2, <2>1, <2>2, ConfirmAlone DEF AloneInv
  <2> QED BY <1>1, <2>3, <2>4, FinishAlone
<1> QED BY <1>3, <1>4, <1>5

\* The payment of a receipt operation is saved, the booking is yet to come.
LEMMA SaveReceiptAlone ==
  ASSUME AloneInv, TypeInv', NEW w \in Workers, \A v \in Workers : v = w, SaveReceipt(w)
  PROVE  AloneInv'
<1> DEFINE t == task[w]
           u == [ t EXCEPT !.checked = TRUE ]
<1>1. /\ t.op \in ReceiptOperations /\ ~t.checked /\ task' = [ task EXCEPT ![w] = u ]
      /\ UNCHANGED << booking, documents >>
  BY DEF SaveReceipt, AloneInv, TypeInv, TypeOK
<1>2. /\ AloneTask(t) /\ t.type \in PaymentTypes /\ payment \in Payments
      /\ u.op = t.op /\ u.to = t.to /\ u.checked
  BY DEF AloneInv, TypeInv, TypeOK, Tasks
<1>3. t.seen = payment
  BY <1>1, <1>2 DEF AloneTask, CopyIsCurrent, Readers, PaymentSaved
<1>4. WholeIsParts'
  <2>1. CASE t.op = "uploadReceipt"
    <3>1. payment'.status = StatusAfter(payment, t.type, "PENDING_VERIFICATION")
      BY <1>2, <1>3, <2>1 DEF SaveReceipt, AwaitingVerification, Payments
    <3>2. payment'.status # "PAID"
      BY <1>2, <3>1 DEF StatusAfter, NextDown, NextFinal, OverallStatus, CoversDown, CoversFinal,
                        PaymentTypes
    <3> QED BY <3>2 DEF WholeIsParts
  <2>2. CASE t.op = "approveReceipt"
    <3>1. payment' = Confirmed(payment, payment, t.type, "manual")
      BY <1>3, <2>2 DEF SaveReceipt
    <3> QED BY <1>2, <3>1, ConfirmAlone DEF AloneInv
  <2>3. CASE t.op \in { "rejectReceipt", "requestPayment" }
    <3>1. payment'.status \in { "FAILED", "UNPAID" }
      BY <1>2, <2>3 DEF SaveReceipt, Rejected, Payments
    <3> QED BY <3>1 DEF WholeIsParts
  <2> QED BY <1>1, <2>1, <2>2, <2>3 DEF ReceiptOperations
<1>5. ReadyHasLicence'
  BY <1>1 DEF AloneInv, ReadyHasLicence, Licensed
<1> PICK next : next = u
  OBVIOUS
<1>6. task'[w] = next
  BY <1>1 DEF AloneInv, TypeInv, TypeOK
<1> HIDE DEF t, u
<1>7. AloneTask(next)'
  BY <1>1, <1>2
  DEF AloneTask, CopyIsCurrent, CauseIsCurrent, ReviewIsCurrent, PaymentSaved, ReceiptOperations
<1>8. \A v \in Workers : AloneTask(task[v])'
  <2>1. AloneTask(task[w])'
    BY <1>6, <1>7 DEF AloneTask, CopyIsCurrent, CauseIsCurrent, ReviewIsCurrent, PaymentSaved
  <2> QED BY <2>1
<1> QED BY <1>4, <1>5, <1>8 DEF AloneInv

(***************************************************************************)
(* A charge returned by hand.                                              *)
(***************************************************************************)
LEMMA RefundedAlone ==
  ASSUME AloneInv, TypeInv', NEW w \in Workers, \A v \in Workers : v = w, ReturnByHand(w)
  PROVE  AloneInv'
<1>1. ASSUME NEW s \in Sessions, SkipRefunded(w, s) PROVE AloneInv'
  BY <1>1, DocumentsAlone DEF SkipRefunded, rows
<1>2. CASE RecordRefunded(w)
  <2>1. (ReadyHasLicence /\ WholeIsParts)'
    BY <1>2 DEF RecordRefunded, AloneInv, ReadyHasLicence, WholeIsParts, Licensed
  <2> QED BY <1>2, <2>1, FinishAlone DEF RecordRefunded
<1>3. ASSUME NEW t, task'[w] = t, t.op = "chargeRefunded", t.to # "READY_FOR_PICKUP",
             (ReadyHasLicence /\ WholeIsParts)'
      PROVE  AloneInv'
  <2>1. AloneTask(task[w])'
    BY <1>3 DEF AloneTask, CopyIsCurrent, CauseIsCurrent, ReviewIsCurrent, Readers,
       ClosingOperations, ReceiptOperations
  <2> QED BY <1>3, <2>1 DEF AloneInv
<1>4. ASSUME NEW s \in Sessions, BeginRefunded(w, s) PROVE AloneInv'
  <2>1. PICK to \in { "CANCELLED", "none" }, sent \in { 0, TotalRefunds } :
          task' = [ task EXCEPT ![w] =
                      [ Moving("chargeRefunded", to) EXCEPT
                          !.active = sent, !.session = s, !.fromInbox = TRUE ] ]
    BY <1>4 DEF BeginRefunded
  <2> DEFINE t == [ Moving("chargeRefunded", to) EXCEPT
                      !.active = sent, !.session = s, !.fromInbox = TRUE ]
  <2>2. t.op = "chargeRefunded" /\ t.to = to
    BY DEF Moving, NoTask
  <2>3. task'[w] = t
    BY <2>1 DEF AloneInv, TypeInv, TypeOK
  <2>4. payment'.status = "FAILED" /\ UNCHANGED << booking, documents >>
    BY <1>4 DEF BeginRefunded, AloneInv, TypeInv, TypeOK, Payments
  <2>5. (ReadyHasLicence /\ WholeIsParts)'
    BY <2>4 DEF AloneInv, ReadyHasLicence, WholeIsParts, Licensed
  <2> HIDE DEF t
  <2> QED BY <1>3, <2>1, <2>2, <2>3, <2>5
<1>5. CASE CancelRefunded(w)
  <2> DEFINE t == [ task[w] EXCEPT !.to = "none", !.checked = FALSE ]
  <2>1. task'[w] = t /\ t.op = "chargeRefunded" /\ t.to = "none"
    BY <1>5 DEF CancelRefunded, Committing, AloneInv, TypeInv, TypeOK, Tasks
  <2>2. booking' # "READY_FOR_PICKUP"
    BY <1>5 DEF CancelRefunded, Committing, AloneInv, AloneTask, ReviewIsCurrent
  <2>3. (ReadyHasLicence /\ WholeIsParts)'
    BY <1>5, <2>2 DEF CancelRefunded, AloneInv, ReadyHasLicence, WholeIsParts
  <2> HIDE DEF t
  <2> QED BY <1>3, <2>1, <2>3
<1> QED BY <1>1, <1>2, <1>4, <1>5 DEF ReturnByHand

(***************************************************************************)
(* The whole system                                                        *)
(***************************************************************************)
LEMMA InitAlone == Init => AloneInv
<1> SUFFICES ASSUME Init PROVE AloneInv
  OBVIOUS
<1>1. \A w \in Workers : AloneTask(task[w])
  BY NoTaskAlone DEF Init
<1>2. ReadyHasLicence /\ WholeIsParts
  BY DEF Init, ReadyHasLicence, WholeIsParts, NoPayment
<1> QED BY <1>1, <1>2, InitTypes DEF AloneInv

LEMMA NextAlone ==
  ASSUME \A v, w \in Workers : v = w
  PROVE  AloneInv /\ [Next]_vars => AloneInv'
<1> SUFFICES ASSUME AloneInv, [Next]_vars PROVE AloneInv'
  OBVIOUS
<1>1. TypeInv'
  BY NextTypes DEF AloneInv
<1>2. ASSUME UNCHANGED << booking, payment, documents, refunds, task >> PROVE AloneInv'
  BY <1>1, <1>2, DocumentsAlone
<1>3. ASSUME NEW w \in Workers, Work(w) PROVE AloneInv'
  <2> USE <1>1
  <2>0. \A v \in Workers : v = w
    OBVIOUS
  <2>1. CASE Answer(w)
    BY <2>0, <2>1, MovesBeginAlone, PaymentsEndAlone, MovesEndAlone DEF Answer
  <2>2. CASE CardPayment(w)
    <3>1. CASE \E s \in Sessions, fromInbox \in BOOLEAN :
                 SkipPaid(w, s, fromInbox) \/ ReturnCharge(w, s, fromInbox)
      BY <1>2, <3>1 DEF SkipPaid, ReturnCharge, rows
    <3>2. CASE \E s \in Sessions, fromInbox \in BOOLEAN : BeginApply(w, s, fromInbox)
      BY <3>2, PaymentsBeginAlone
    <3> QED BY <2>0, <2>2, <3>1, <3>2, PaymentsBeginAlone, PaymentsEndAlone DEF CardPayment
  <2>3. CASE Closure(w)
    BY <2>0, <2>3, ClosuresBeginAlone, MovesEndAlone DEF Closure
  <2>4. CASE Rental(w)
    BY <2>0, <2>4, ReviewBeginsAlone, SaveReviewAlone, MovesBeginAlone, MovesEndAlone DEF Rental
  <2>5. CASE ManualPayment(w)
    BY <2>0, <2>5, PaymentsBeginAlone, MovesBeginAlone, SaveReceiptAlone, MovesEndAlone
    DEF ManualPayment
  <2>6. CASE Check(w) \/ CommitMove(w) \/ Overwrite(w) \/ Abandon(w)
    BY <2>0, <2>6, CheckAlone, MovesEndAlone
  <2>7. CASE ReturnByHand(w)
    BY <2>0, <2>7, RefundedAlone
  <2> QED BY <1>3, <2>1, <2>2, <2>3, <2>4, <2>5, <2>6, <2>7 DEF Work
<1>4. CASE (\E s \in Sessions : Capture(s) \/ TakeBack(s)) \/ Tick \/ UNCHANGED vars
  BY <1>2, <1>4 DEF Capture, TakeBack, Tick, vars, rows
<1>5. CASE UploadLicence
  <2>1. \A d \in Documents : \/ documents'[d] = documents[d]
                             \/ documents[d] = "none" /\ documents'[d] = "UNDER_REVIEW"
    BY <1>5 DEF UploadLicence, AloneInv, TypeInv, TypeOK
  <2> QED BY <1>1, <1>5, <2>1, DocumentsAlone DEF UploadLicence
<1> QED BY <1>3, <1>4, <1>5 DEF Next

LEMMA AloneInvariant ==
  ASSUME \A v, w \in Workers : v = w
  PROVE  Spec => []AloneInv
<1>1. Init => AloneInv
  BY InitAlone
<1>2. AloneInv /\ [Next]_vars => AloneInv'
  BY NextAlone
<1> QED BY <1>1, <1>2, PTL DEF Spec

\* Only a rental whose customer has an approved licence becomes ready for pickup,
\* whatever handlers run one after the other: applyPaidState reads the licence in the
\* transaction that promotes the booking, the licence review after it has saved its
\* decision, and an administrator's override is not offered that status.
THEOREM ReadyRentalsHaveLicence ==
  ASSUME \A v, w \in Workers : v = w
  PROVE  Spec => []ReadyHasLicence
<1>1. AloneInv => ReadyHasLicence
  BY DEF AloneInv
<1> QED BY <1>1, AloneInvariant, PTL

(***************************************************************************)
(* The refunds of a closure.                                               *)
(***************************************************************************)
\* A cancellation writes the refunds it computed; the sweep counts the refunds again.
LEMMA ClosingRefunds ==
  ASSUME AloneInv, NEW w \in Workers, CommitCancel(w) \/ CommitSweep(w)
  PROVE  RefundedByPolicy(w)
<1> DEFINE t       == task[w]
           deposit == IF payment.down = "PAID" THEN Deposit ELSE 0
           balance == IF payment.final = "PAID" THEN Balance ELSE 0
           rest    == deposit + balance - TotalRefunds
           left    == IF rest > 0 THEN rest ELSE 0
           share   == IF EverythingIsOwed(w) THEN deposit
                      ELSE PercentOf(deposit, DepositRefundPercent(PartialRefund))
<1>1. t \in Tasks /\ AloneTask(t) /\ TotalRefunds \in Nat /\ t.cause \in RefundCauses
  BY DEF AloneInv, TypeInv, TypeOK, TotalRefunds, Parts, Tasks
<1>2. t.op \in ClosingOperations /\ t.seen = payment /\ t.active = TotalRefunds
  BY <1>1 DEF CommitCancel, CommitSweep, Committing, AloneTask, CopyIsCurrent, PaymentSaved,
     Readers, ClosingOperations, ReceiptOperations
<1>3. refunds' = WithRefunds(t)
  <2>1. [ t EXCEPT !.active = TotalRefunds ] = t
    BY <1>1, <1>2 DEF Tasks
  <2> QED BY <2>1 DEF CommitCancel, CommitSweep
<1>4. /\ PaidDeposit(t.seen, Deposit) = deposit /\ PaidBalance(t.seen, Balance) = balance
      /\ deposit \in Nat /\ balance \in Nat
  BY <1>2, AmountsAssumption DEF PaidDeposit, PaidBalance, AloneInv, WholeIsParts
<1>5. PercentOf(deposit, PercentFor(t.cause, PartialRefund)) = share
  <2>1. EverythingIsOwed(w) <=> t.cause \in EverythingBack
    BY <1>1, <1>2
    DEF AloneTask, CauseIsCurrent, ClosingOperations, EverythingIsOwed, EverythingBack, AdminCauses
  <2>2. PercentOf(deposit, 100) = deposit
    BY <1>4, WholePercent
  <2> HIDE DEF deposit, t
  <2> QED BY <2>1, <2>2 DEF PercentFor
<1>6. PICK quote : quote = RefundQuote(deposit, balance, TotalRefunds, t.cause, PartialRefund)
  OBVIOUS
<1>7. /\ refunds'.down = refunds.down + quote.deposit
      /\ refunds'.final = refunds.final + quote.balance
  <2>1. quote = RefundQuote(PaidDeposit(t.seen, Deposit), PaidBalance(t.seen, Balance),
                            t.active, t.cause, PartialRefund)
    BY <1>2, <1>4, <1>6
  <2> HIDE DEF t
  <2> QED BY <1>1, <1>3, <2>1, RefundsAdded DEF AloneInv, TypeInv
<1>8. SplitsLeft(quote, balance, left, share)
  <2>1. left = IF deposit + balance > TotalRefunds THEN deposit + balance - TotalRefunds ELSE 0
    <3>1. deposit \in Nat /\ balance \in Nat /\ TotalRefunds \in Nat
      BY <1>1, <1>4
    <3> HIDE DEF deposit, balance
    <3> QED BY <3>1
  <2> HIDE DEF deposit, balance, left, share, t
  <2>2. SplitsLeft(quote, balance, left, PercentOf(deposit, PercentFor(t.cause, PartialRefund)))
    BY <1>1, <1>4, <1>6, <2>1, QuoteSplits, AmountsAssumption
  <2> QED BY <1>5, <2>2
<1>9. refunds.down \in Nat /\ refunds.final \in Nat
  BY DEF AloneInv, TypeInv, TypeOK, Parts
<1>10. /\ refunds'.final - refunds.final = Lesser(balance, left)
       /\ refunds'.down - refunds.down = Lesser(share, left - Lesser(balance, left))
  <2> HIDE DEF balance, left, share
  <2> QED BY <1>7, <1>8, <1>9 DEF SplitsLeft
<1> QED BY <1>10 DEF RefundedByPolicy

\* While a closure is on its way, only its commit moves the booking.
LEMMA OnlyClosuresMove ==
  ASSUME [Next]_vars, booking' # booking, \A v, w \in Workers : v = w,
         NEW w \in Workers, task[w].op \in ClosingOperations
  PROVE  CommitCancel(w) \/ CommitSweep(w)
<1>1. Work(w)
  BY DEF Next, Capture, TakeBack, UploadLicence, Tick, vars, rows
<1> USE DEF Begin, rows, Committing, ClosingOperations
<1>2. ~Answer(w)
  BY DEF Answer, BeginAccept, CommitAccept, BeginReject, BeginAutoReject, BeginSuggest,
     CommitSuggest, BeginDecline
<1>3. ~CardPayment(w)
  BY DEF CardPayment, BeginCheckout, CommitCheckout, BeginApply, CommitApply, SkipPaid,
     ReturnCharge
<1>4. ~ReturnByHand(w)
  BY DEF ReturnByHand, SkipRefunded, BeginRefunded, CancelRefunded, RecordRefunded
<1>5. ~Rental(w)
  BY DEF Rental, BeginReview, SaveReview, BeginHandover, BeginReturn, BeginConfirm,
     BeginComplete, BeginNoShow, CommitNoShow, BeginOverride
<1>6. ~ManualPayment(w)
  BY DEF ManualPayment, BeginUpload, BeginApprove, BeginDisapprove, BeginRequest,
     SaveReceipt, SaveBooking, ReceiptOperations
<1>7. ~Check(w) /\ ~CommitMove(w) /\ ~Overwrite(w) /\ ~Abandon(w)
  BY DEF Check, CommitMove, Overwrite, Abandon
<1>8. ~BeginCancel(w) /\ ~BeginSweep(w)
  BY DEF BeginCancel, BeginSweep
<1> QED BY <1>1, <1>2, <1>3, <1>4, <1>5, <1>6, <1>7, <1>8 DEF Work, Closure

\* Rule 3 of the refund policy, for every amount, percentage and cause: a booking that
\* is cancelled or expires is refunded what the policy says of what was paid and not
\* yet refunded, to the cent, however often it is paid, closed and opened again by
\* handlers that run one after the other.
THEOREM ClosuresRefundByPolicy ==
  ASSUME \A v, w \in Workers : v = w
  PROVE  Spec => ClosingReturnsTheBalance
<1>1. AloneInv /\ [Next]_vars => ClosureRefunds
  <2> SUFFICES ASSUME AloneInv, [Next]_vars, booking' # booking,
                      NEW w \in Workers, task[w].op \in ClosingOperations
               PROVE  RefundedByPolicy(w)
    BY DEF ClosureRefunds, ClosingOperations
  <2> QED BY OnlyClosuresMove, ClosingRefunds
<1> QED BY <1>1, AloneInvariant, PTL DEF Spec, ClosingReturnsTheBalance
=============================================================================

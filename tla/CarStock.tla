------------------------------ MODULE CarStock ------------------------------
(***************************************************************************)
(* Which bookings hold which cars, and how many unpaid bookings a customer *)
(* may have.  Neither number is stored: each is counted from the bookings, *)
(* in a transaction that first locks the row of the listing or of the      *)
(* customer.  A booking comes to hold a car by being created, by being     *)
(* offered another car, or because its status or its car changes.          *)
(*                                                                         *)
(* All bookings here want the same day, so a car is a listing and Stock    *)
(* the units of it that are available on that day.                         *)
(***************************************************************************)
EXTENDS BookingStatus, Naturals, FiniteSets

CONSTANTS Bookings,    \* the bookings that may be created
          Customers,
          CustomerOf,  \* CustomerOf[b]: who books b
          Cars,        \* the listings
          Stock,       \* Stock[c]: units of c available on the day
          TierPolicy,  \* whether exposure limits act
          Limit,       \* Limit[u]: the unpaid bookings u may have by u's tier
          MoveTo,      \* the statuses other handlers give a booking
          Workers,     \* requests that are served at the same time
          NoCar, Nobody

ASSUME BookingsHaveCustomers == CustomerOf \in [ Bookings -> Customers ]
ASSUME StockAndLimits == /\ Stock \in [ Cars -> Nat ]
                         /\ Limit \in [ Customers -> Nat ]
                         /\ TierPolicy \in BOOLEAN
ASSUME FiniteBookings == IsFiniteSet(Bookings)
ASSUME OtherMoves == MoveTo \subseteq Statuses
ASSUME NoneIsNone == NoCar \notin Cars /\ Nobody \notin Workers

VARIABLES
  status,     \* status[b], "none" before b is created
  car,        \* car[b]: the listing b is for
  alt,        \* alt[b]: the alternative car of b, kept after it is accepted
  carLock,    \* carLock[c]: the transaction that has locked the listing's row
  userLock,   \* userLock[u]: the transaction that has locked the customer's row
  task,       \* task[w]: the transaction w is in, or Idle
  unchecked,  \* history: bookings that hold a car nobody counted for them
  uncapped    \* history: open unpaid bookings that became so without a count

stockVars == << status, car, alt, carLock, userLock, task, unchecked, uncapped >>
table == << status, car, alt >>

Idle == [ op |-> "idle" ]
Tasks == {Idle} \cup
  [ op : {"create", "offer", "accept", "text", "decline", "pay"}, stage : {"begun", "counted", "agreed"},
    booking : Bookings, car : Cars ]

StockTypeOK ==
  /\ status \in [ Bookings -> Statuses \cup {"none"} ]
  /\ car \in [ Bookings -> Cars \cup {NoCar} ]
  /\ alt \in [ Bookings -> Cars \cup {NoCar} ]
  /\ carLock \in [ Cars -> Workers \cup {Nobody} ]
  /\ userLock \in [ Customers -> Workers \cup {Nobody} ]
  /\ task \in [ Workers -> Tasks ]
  /\ unchecked \subseteq Bookings
  /\ uncapped \subseteq Bookings

StockInit ==
  /\ status = [ b \in Bookings |-> "none" ]
  /\ car = [ b \in Bookings |-> NoCar ]
  /\ alt = [ b \in Bookings |-> NoCar ]
  /\ carLock = [ c \in Cars |-> Nobody ]
  /\ userLock = [ u \in Customers |-> Nobody ]
  /\ task = [ w \in Workers |-> Idle ]
  /\ unchecked = {}
  /\ uncapped = {}

-----------------------------------------------------------------------------
(* What is counted.                                                         *)

\* ACTIVE_BOOKING_STATUSES
ActiveStatuses ==
  { "PENDING", "ACCEPTED", "ALTERNATIVE_SUGGESTED", "PENDING_PAYMENT",
    "CONFIRMED", "PAID", "IN_PROGRESS", "NO_SHOW", "NO_SHOW_UNPAID" }

\* effectiveHold: the car a booking with this status, car and offer holds.
HoldOf(s, own, offered) ==
  IF s = "ALTERNATIVE_SUGGESTED" /\ offered # NoCar THEN offered
  ELSE IF s \in ActiveStatuses THEN own
  ELSE NoCar

Hold(b) == HoldOf(status[b], car[b], alt[b])

Holders(c, but) == { b \in Bookings \ {but} : Hold(b) = c }

OpenUnpaidStatuses == { "PENDING", "ACCEPTED", "PENDING_PAYMENT", "CONFIRMED" }

\* A booking with one of these statuses has no payment, or one that is not PAID.
OpenUnpaid(u) ==
  { b \in Bookings : CustomerOf[b] = u /\ status[b] \in OpenUnpaidStatuses }

-----------------------------------------------------------------------------
(* Transactions.                                                            *)

Start(w, op, stage, b, c) ==
  /\ task[w] = Idle
  /\ task' = [ task EXCEPT ![w] =
                 [ op |-> op, stage |-> stage, booking |-> b, car |-> c ] ]

In(w, op, stage) == task[w] # Idle /\ task[w].op = op /\ task[w].stage = stage

\* The end of w's transaction, committed or not: its rows are unlocked.
Finish(w) ==
  /\ task' = [ task EXCEPT ![w] = Idle ]
  /\ carLock' = [ c \in Cars |-> IF carLock[c] = w THEN Nobody ELSE carLock[c] ]
  /\ userLock' = [ u \in Customers |-> IF userLock[u] = w THEN Nobody ELSE userLock[u] ]

\* The update of one booking by its id, whatever the row holds by now.
Write(b, s, own, offered) ==
  /\ status' = [ status EXCEPT ![b] = s ]
  /\ car' = [ car EXCEPT ![b] = own ]
  /\ alt' = [ alt EXCEPT ![b] = offered ]

\* What the histories say of b after such an update by somebody who has counted the
\* bookings of the car counted, or none: b may now hold a car that it did not hold,
\* or be open and unpaid when it was not.
Unchecked(b, s, own, offered, counted) ==
  CASE HoldOf(s, own, offered) \in {counted, NoCar} -> unchecked \ {b}
    [] HoldOf(s, own, offered) = Hold(b) -> unchecked
    [] OTHER -> unchecked \cup {b}

Uncapped(b, s) ==
  CASE s \notin OpenUnpaidStatuses -> uncapped \ {b}
    [] status[b] \in OpenUnpaidStatuses -> uncapped
    [] OTHER -> uncapped \cup {b}

Update(b, s, own, offered, counted) ==
  /\ Write(b, s, own, offered)
  /\ unchecked' = Unchecked(b, s, own, offered, counted)
  /\ uncapped' = Uncapped(b, s)

\* Any transaction may fail, time out or die with its process: nothing is written.
Rollback(w) ==
  /\ task[w] # Idle
  /\ Finish(w)
  /\ UNCHANGED << table, unchecked, uncapped >>

\* A slip: the bookings are counted without a lock on the customer's row.
BeginCreateUnlocked(w, b, c) ==
  /\ status[b] = "none"
  /\ \A v \in Workers : task[v] # Idle => task[v].booking # b
  /\ Start(w, "create", "begun", b, c)
  /\ TierPolicy => Cardinality(OpenUnpaid(CustomerOf[b])) < Limit[CustomerOf[b]]
  /\ UNCHANGED << table, carLock, userLock, unchecked, uncapped >>

\* createBookingOrchestrator up to the lock of the listing.  With the limits on,
\* the customer's row is locked and the customer's unpaid bookings are counted.
BeginCreate(w, b, c) ==
  /\ status[b] = "none"
  /\ \A v \in Workers : task[v] # Idle => task[v].booking # b
  /\ Start(w, "create", "begun", b, c)
  /\ IF TierPolicy
     THEN LET u == CustomerOf[b] IN
            /\ userLock[u] = Nobody
            /\ Cardinality(OpenUnpaid(u)) < Limit[u]
            /\ userLock' = [ userLock EXCEPT ![u] = w ]
     ELSE UNCHANGED userLock
  /\ UNCHANGED << table, carLock, unchecked, uncapped >>

\* The operator offers another car, new dates or a charge for the same car.
BeginOffer(w, b, c) ==
  /\ status[b] = "PENDING" /\ alt[b] = NoCar
  /\ Start(w, "offer", "begun", b, c)
  /\ UNCHANGED << table, carLock, userLock, unchecked, uncapped >>

\* The customer accepts what was offered.
BeginAccept(w, b) ==
  /\ status[b] = "ALTERNATIVE_SUGGESTED" /\ alt[b] # NoCar
  /\ Start(w, "accept", "begun", b, alt[b])
  /\ UNCHANGED << table, carLock, userLock, unchecked, uncapped >>

\* A slip: the listing is not locked before its bookings are counted.
CountUnlocked(w) ==
  /\ \E op \in {"create", "offer", "accept"} : In(w, op, "begun")
  /\ LET c == task[w].car IN Cardinality(Holders(c, task[w].booking)) < Stock[c]
  /\ task' = [ task EXCEPT ![w].stage = "counted" ]
  /\ UNCHANGED << table, carLock, userLock, unchecked, uncapped >>

\* The listing's row is locked and its bookings, this one left out, are counted.
\* When no car is left the transaction fails: a Rollback.
Count(w) ==
  /\ \E op \in {"create", "offer", "accept"} : In(w, op, "begun")
  /\ LET c == task[w].car IN
       /\ carLock[c] = Nobody
       /\ Cardinality(Holders(c, task[w].booking)) < Stock[c]
       /\ carLock' = [ carLock EXCEPT ![c] = w ]
  /\ task' = [ task EXCEPT ![w].stage = "counted" ]
  /\ UNCHANGED << table, userLock, unchecked, uncapped >>

CommitCreate(w) ==
  /\ In(w, "create", "counted")
  /\ Write(task[w].booking, "PENDING", task[w].car, NoCar)
  /\ unchecked' = unchecked \ {task[w].booking}
  /\ uncapped' = uncapped \ {task[w].booking}
  /\ Finish(w)

\* transitionBookingStatus reads the status and, if the move is allowed, writes
\* the new one by the booking's id alone.
AgreeToOffer(w) ==
  /\ In(w, "offer", "counted")
  /\ ValidTransition(status[task[w].booking], "ALTERNATIVE_SUGGESTED")
  /\ task' = [ task EXCEPT ![w].stage = "agreed" ]
  /\ UNCHANGED << table, carLock, userLock, unchecked, uncapped >>

CommitOffer(w) ==
  /\ In(w, "offer", "agreed")
  /\ LET b == task[w].booking IN
       Update(b, "ALTERNATIVE_SUGGESTED", car[b], task[w].car, task[w].car)
  /\ Finish(w)

\* applyCarAlternative: the booking becomes one for the offered car, whatever
\* its status is by now.  The payment is requested in a transaction of its own.
CommitAccept(w) ==
  /\ In(w, "accept", "counted")
  /\ LET b == task[w].booking IN
       Update(b, status[b], task[w].car, alt[b], task[w].car)
  /\ Finish(w)

\* The customer accepts an offer without a car, which an operator can make for
\* several bookings at once: the booking is written as it was read.
BeginText(w, b) ==
  /\ status[b] = "ALTERNATIVE_SUGGESTED" /\ alt[b] = NoCar
  /\ \E c \in Cars : c = car[b] /\ Start(w, "text", "agreed", b, c)
  /\ UNCHANGED << table, carLock, userLock, unchecked, uncapped >>

CommitText(w) ==
  /\ In(w, "text", "agreed")
  /\ LET b == task[w].booking IN
       Update(b, "ALTERNATIVE_SUGGESTED", car[b], alt[b], NoCar)
  /\ Finish(w)

\* acceptBookingAndRequestPayment, for the operator who accepts the request as it
\* is or for the customer whose acceptance of an offer has just been applied.
AgreeToPay(w, b) ==
  /\ status[b] \in {"PENDING", "ALTERNATIVE_SUGGESTED"}
  /\ ValidTransition(status[b], "PENDING_PAYMENT")
  /\ \E c \in Cars : c = car[b] /\ Start(w, "pay", "agreed", b, c)
  /\ UNCHANGED << table, carLock, userLock, unchecked, uncapped >>

CommitPay(w) ==
  /\ In(w, "pay", "agreed")
  /\ LET b == task[w].booking IN Update(b, "PENDING_PAYMENT", car[b], alt[b], NoCar)
  /\ Finish(w)

\* The customer declines what was offered.
BeginDecline(w, b) ==
  /\ status[b] = "ALTERNATIVE_SUGGESTED"
  /\ \E c \in Cars : c = car[b] /\ Start(w, "decline", "agreed", b, c)
  /\ UNCHANGED << table, carLock, userLock, unchecked, uncapped >>

\* A slip: the booking gets a status that is not one.
CommitAsDeclined(w) ==
  /\ In(w, "decline", "agreed")
  /\ LET b == task[w].booking IN Update(b, "DECLINED", car[b], alt[b], NoCar)
  /\ Finish(w)

\* rejectAlternativeBooking writes REJECTED over whatever the status is by then.
CommitDecline(w) ==
  /\ In(w, "decline", "agreed")
  /\ LET b == task[w].booking IN Update(b, "REJECTED", car[b], alt[b], NoCar)
  /\ Finish(w)

\* Every other handler that moves a booking, in one step: an operator's offer to
\* several bookings, the administrator's override, and the payments, closures and
\* hand-overs that are the subject of BookingPayment.
Move(b, to) ==
  /\ to \in MoveTo
  /\ ValidTransition(status[b], to)
  /\ Update(b, to, car[b], alt[b], NoCar)
  /\ UNCHANGED << carLock, userLock, task >>

-----------------------------------------------------------------------------
Serve(w) ==
  \/ Count(w)
  \/ AgreeToOffer(w) \/ CommitOffer(w)
  \/ CommitAccept(w) \/ CommitText(w)
  \/ CommitPay(w)
  \/ CommitDecline(w)
  \/ Rollback(w)

Existing == { b \in Bookings : status[b] # "none" }

Negotiate(w) ==
  \E b \in Existing :
    \/ \E c \in Cars : BeginOffer(w, b, c)
    \/ BeginAccept(w, b) \/ BeginText(w, b)
    \/ AgreeToPay(w, b)
    \/ BeginDecline(w, b)

StockNext ==
  \/ \E w \in Workers :
       \/ \E b \in Bookings, c \in Cars : BeginCreate(w, b, c)
       \/ CommitCreate(w)
       \/ Negotiate(w)
       \/ Serve(w)
  \/ \E b \in Existing, to \in MoveTo : Move(b, to)

StockSpec == StockInit /\ [][StockNext]_stockVars

-----------------------------------------------------------------------------
(* Properties.                                                              *)

\* Bookings that were counted under the listing's lock never hold more units of a
\* car than there are, however requests, offers and acceptances interleave.
NeverOverbooked ==
  \A c \in Cars : Cardinality({ b \in Bookings \ unchecked : Hold(b) = c }) <= Stock[c]

\* The bookings of a customer that were counted against the customer's limit when
\* they were made, and are open and unpaid since, stay within it.
ExposureCap ==
  TierPolicy => \A u \in Customers : Cardinality(OpenUnpaid(u) \ uncapped) <= Limit[u]

\* The bookings a renter still counts on: requested, paid for, or on the road.
Expected(c) ==
  { b \in Bookings : status[b] \in ActiveStatuses \cup {"READY_FOR_PICKUP"} /\ car[b] = c }

\* Two requests never both get the last car of a listing, as the comments of the
\* booking endpoint say.  A booking that is READY_FOR_PICKUP is not counted.
LastCarGoesOnce == \A c \in Cars : Cardinality(Expected(c)) <= Stock[c]
=============================================================================

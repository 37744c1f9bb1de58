------------------------ MODULE BookingRequestProofs ------------------------
(***************************************************************************)
(* Theorems about CarStock and BookingRequest, for any bookings, cars,     *)
(* stock, limits, keys and requests: counted bookings never exceed the     *)
(* stock or the limit, a key makes one booking, and its answers agree.     *)
(***************************************************************************)
EXTENDS BookingRequest, FiniteSetTheorems, TLAPS

-----------------------------------------------------------------------------
(* The stock and the limits.                                                *)

\* The bookings that hold c after a count, and those u was counted for.
Checked(c) == { b \in Bookings \ unchecked : Hold(b) = c }
Capped(u) == OpenUnpaid(u) \ uncapped

\* w has counted the bookings of c and not yet written b.
Counting(w, c, b) ==
  /\ task[w] # Idle
  /\ task[w].op \in {"create", "offer", "accept"}
  /\ task[w].stage \in {"counted", "agreed"}
  /\ task[w].car = c /\ task[w].booking = b

\* w has counted the unpaid bookings of u and not yet written another one.
Creating(w, u) ==
  task[w] # Idle /\ task[w].op = "create" /\ CustomerOf[task[w].booking] = u

\* Until it writes, w has the listing locked and there is room for one more.
RoomForOne ==
  \A w \in Workers, c \in Cars, b \in Bookings : Counting(w, c, b) =>
    carLock[c] = w /\ Cardinality(Checked(c) \ {b}) < Stock[c]

\* Likewise for the customer and the limit.
LimitForOne ==
  \A w \in Workers, u \in Customers : TierPolicy /\ Creating(w, u) =>
    userLock[u] = w /\ Cardinality(Capped(u)) < Limit[u]

\* The inductive invariant of CarStock.
StockInv == StockTypeOK /\ RoomForOne /\ NeverOverbooked /\ LimitForOne /\ ExposureCap

-----------------------------------------------------------------------------
LEMMA Counts ==
  ASSUME NEW S \in SUBSET Bookings, NEW T \in SUBSET S
  PROVE  Cardinality(S) \in Nat /\ Cardinality(T) \in Nat /\ Cardinality(T) <= Cardinality(S)
<1>1. IsFiniteSet(S)
  BY FiniteBookings, FS_Subset
<1>2. IsFiniteSet(T) /\ Cardinality(T) <= Cardinality(S)
  BY <1>1, FS_Subset
<1> QED
  BY <1>1, <1>2, FS_CardinalityType

LEMMA OneMore ==
  ASSUME NEW S \in SUBSET Bookings, NEW b \in Bookings, NEW T \in SUBSET (S \cup {b})
  PROVE  Cardinality(S \ {b}) \in Nat /\ Cardinality(T) <= Cardinality(S \ {b}) + 1
<1> DEFINE R == S \ {b}
<1>1. R \in SUBSET Bookings /\ R \cup {b} \in SUBSET Bookings /\ T \in SUBSET (R \cup {b})
  OBVIOUS
<1>2. IsFiniteSet(R)
  BY <1>1, FiniteBookings, FS_Subset
<1>3. Cardinality(R) \in Nat
  BY <1>2, FS_CardinalityType
<1>4. Cardinality(R \cup {b}) = Cardinality(R) + 1
  <2>1. b \notin R
    OBVIOUS
  <2> QED
    BY <1>2, <2>1, FS_AddElement
<1>5. Cardinality(T) <= Cardinality(R \cup {b})
  BY <1>1, Counts
<1> QED
  BY <1>3, <1>4, <1>5

\* What a transaction is about.
LEMMA TaskParts ==
  ASSUME StockTypeOK, NEW w \in Workers, task[w] # Idle
  PROVE  task[w].booking \in Bookings /\ task[w].car \in Cars
  BY DEF StockTypeOK, Tasks

\* The table as it was, the sets are as they were.
LEMMA SameTable ==
  ASSUME UNCHANGED << table, unchecked, uncapped >>
  PROVE  /\ \A c : Checked(c)' = Checked(c)
         /\ \A u : Capped(u)' = Capped(u)
  BY DEF table, Checked, Capped, OpenUnpaid, Hold

\* An update adds a booking at most to the car that was counted, and to no limit.
LEMMA UpdateAdds ==
  ASSUME StockTypeOK,
         NEW b \in Bookings, NEW s \in Statuses \cup {"none"},
         NEW own \in Cars \cup {NoCar}, NEW offered \in Cars \cup {NoCar},
         NEW counted \in Cars \cup {NoCar},
         Update(b, s, own, offered, counted)
  PROVE  /\ \A c \in Cars \ {counted} : Checked(c)' \in SUBSET Checked(c)
         /\ Checked(counted)' \in SUBSET (Checked(counted) \cup {b})
         /\ \A u : Capped(u)' \in SUBSET Capped(u)
<1>1. /\ status' = [ status EXCEPT ![b] = s ]
      /\ car' = [ car EXCEPT ![b] = own ]
      /\ alt' = [ alt EXCEPT ![b] = offered ]
      /\ unchecked' = Unchecked(b, s, own, offered, counted)
      /\ uncapped' = Uncapped(b, s)
  BY DEF Update, Write
<1>2. /\ Hold(b)' = HoldOf(s, own, offered)
      /\ \A a \in Bookings \ {b} : Hold(a)' = Hold(a)
  BY <1>1 DEF Hold, StockTypeOK
<1>3. \A a \in Bookings \ {b} : a \in unchecked' <=> a \in unchecked
  BY <1>1 DEF Unchecked
<1>4. \A c \in Cars \ {counted} :
        b \notin unchecked' /\ Hold(b)' = c => b \notin unchecked /\ Hold(b) = c
  BY <1>1, <1>2, NoneIsNone DEF Unchecked
<1>5. \A c \in Cars \ {counted} : Checked(c)' \in SUBSET Checked(c)
  BY <1>2, <1>3, <1>4 DEF Checked
<1>6. Checked(counted)' \in SUBSET (Checked(counted) \cup {b})
  BY <1>2, <1>3 DEF Checked
<1>7. ASSUME NEW u PROVE Capped(u)' \in SUBSET Capped(u)
  <2>1. \A a \in Bookings \ {b} :
          (status'[a] = status[a]) /\ (a \in uncapped' <=> a \in uncapped)
    BY <1>1 DEF Uncapped, StockTypeOK
  <2>2. status'[b] = s
    BY <1>1 DEF StockTypeOK
  <2>3. b \notin uncapped' /\ s \in OpenUnpaidStatuses
          => b \notin uncapped /\ status[b] \in OpenUnpaidStatuses
    BY <1>1 DEF Uncapped
  <2> QED
    BY <2>1, <2>2, <2>3 DEF Capped, OpenUnpaid
<1> QED
  BY <1>5, <1>6, <1>7

-----------------------------------------------------------------------------
\* A step that counts and writes nothing more keeps the room that was counted.
LEMMA RoomIsKept ==
  ASSUME RoomForOne, NeverOverbooked,
         \A c \in Cars : Checked(c)' \in SUBSET Checked(c),
         \A v \in Workers, c \in Cars, b \in Bookings :
           Counting(v, c, b)' => Counting(v, c, b) /\ carLock'[c] = carLock[c]
  PROVE  RoomForOne' /\ NeverOverbooked'
<1>1. ASSUME NEW c \in Cars PROVE Cardinality(Checked(c)') <= Stock[c]
  <2>1. Cardinality(Checked(c)) <= Stock[c]
    BY DEF NeverOverbooked, Checked
  <2>2. Checked(c) \in SUBSET Bookings /\ Checked(c)' \in SUBSET Checked(c)
    BY DEF Checked
  <2>3. /\ Cardinality(Checked(c)) \in Nat /\ Cardinality(Checked(c)') \in Nat
        /\ Cardinality(Checked(c)') <= Cardinality(Checked(c))
    BY <2>2, Counts
  <2> QED
    BY <2>1, <2>3, StockAndLimits
<1>2. ASSUME NEW v \in Workers, NEW c \in Cars, NEW b \in Bookings, Counting(v, c, b)'
      PROVE  carLock'[c] = v /\ Cardinality(Checked(c)' \ {b}) < Stock[c]
  <2>1. carLock'[c] = v /\ Cardinality(Checked(c) \ {b}) < Stock[c]
    BY <1>2 DEF RoomForOne
  <2>2. /\ Checked(c) \ {b} \in SUBSET Bookings
        /\ Checked(c)' \ {b} \in SUBSET (Checked(c) \ {b})
    BY DEF Checked
  <2>3. /\ Cardinality(Checked(c) \ {b}) \in Nat /\ Cardinality(Checked(c)' \ {b}) \in Nat
        /\ Cardinality(Checked(c)' \ {b}) <= Cardinality(Checked(c) \ {b})
    BY <2>2, Counts
  <2> QED
    BY <2>1, <2>3, StockAndLimits
<1> QED
  BY <1>1, <1>2 DEF RoomForOne, NeverOverbooked, Checked

\* A step that creates nothing keeps the limits that were counted.
LEMMA LimitIsKept ==
  ASSUME LimitForOne, ExposureCap,
         \A u \in Customers : Capped(u)' \in SUBSET Capped(u),
         \A v \in Workers, u \in Customers :
           TierPolicy /\ Creating(v, u)' => Creating(v, u) /\ userLock'[u] = userLock[u]
  PROVE  LimitForOne' /\ ExposureCap'
<1>1. ASSUME NEW u \in Customers
      PROVE  /\ Cardinality(Capped(u)) \in Nat /\ Cardinality(Capped(u)') \in Nat
             /\ Cardinality(Capped(u)') <= Cardinality(Capped(u))
  <2>1. Capped(u) \in SUBSET Bookings /\ Capped(u)' \in SUBSET Capped(u)
    BY DEF Capped, OpenUnpaid
  <2> QED
    BY <2>1, Counts
<1>2. ASSUME TierPolicy, NEW u \in Customers PROVE Cardinality(Capped(u)') <= Limit[u]
  <2>1. Cardinality(Capped(u)) <= Limit[u]
    BY <1>2 DEF ExposureCap, Capped
  <2> QED
    BY <1>1, <2>1, StockAndLimits
<1>3. ASSUME NEW v \in Workers, NEW u \in Customers, TierPolicy, Creating(v, u)'
      PROVE  userLock'[u] = v /\ Cardinality(Capped(u)') < Limit[u]
  <2>1. userLock'[u] = v /\ Cardinality(Capped(u)) < Limit[u]
    BY <1>3 DEF LimitForOne
  <2> QED
    BY <1>1, <2>1, StockAndLimits
<1> QED
  BY <1>2, <1>3 DEF LimitForOne, ExposureCap, Capped

\* The commit of w, which counted the bookings of c and adds b to them.
LEMMA RoomIsTaken ==
  ASSUME StockTypeOK, RoomForOne, NeverOverbooked,
         NEW w \in Workers, NEW c \in Cars, NEW b \in Bookings,
         Counting(w, c, b), Finish(w),
         \A d \in Cars \ {c} : Checked(d)' \in SUBSET Checked(d),
         Checked(c)' \in SUBSET (Checked(c) \cup {b})
  PROVE  RoomForOne' /\ NeverOverbooked'
<1>1. carLock[c] = w /\ Cardinality(Checked(c) \ {b}) < Stock[c]
  BY DEF RoomForOne
<1>2. Cardinality(Checked(c)') <= Stock[c]
  <2>1. Checked(c) \in SUBSET Bookings /\ Checked(c)' \in SUBSET Bookings
    BY DEF Checked
  <2>2. Cardinality(Checked(c)') \in Nat
    BY <2>1, Counts
  <2>3. /\ Cardinality(Checked(c) \ {b}) \in Nat
        /\ Cardinality(Checked(c)') <= Cardinality(Checked(c) \ {b}) + 1
    BY <2>1, OneMore
  <2> QED
    BY <1>1, <2>2, <2>3, StockAndLimits
<1>3. ASSUME NEW d \in Cars \ {c} PROVE Cardinality(Checked(d)') <= Stock[d]
  <2>1. Cardinality(Checked(d)) <= Stock[d]
    BY DEF NeverOverbooked, Checked
  <2>2. Checked(d) \in SUBSET Bookings /\ Checked(d)' \in SUBSET Checked(d)
    BY DEF Checked
  <2>3. /\ Cardinality(Checked(d)) \in Nat /\ Cardinality(Checked(d)') \in Nat
        /\ Cardinality(Checked(d)') <= Cardinality(Checked(d))
    BY <2>2, Counts
  <2> QED
    BY <2>1, <2>3, StockAndLimits
<1>4. ASSUME NEW v \in Workers, NEW d \in Cars, NEW a \in Bookings, Counting(v, d, a)'
      PROVE  carLock'[d] = v /\ Cardinality(Checked(d)' \ {a}) < Stock[d]
  <2>1. v # w /\ Counting(v, d, a)
    BY <1>4 DEF Finish, Counting, StockTypeOK
  <2>2. carLock[d] = v /\ Cardinality(Checked(d) \ {a}) < Stock[d]
    BY <2>1 DEF RoomForOne
  <2>3. d # c
    BY <1>1, <2>1, <2>2
  <2>4. carLock'[d] = v
    BY <2>1, <2>2 DEF Finish
  <2>5. /\ Checked(d) \ {a} \in SUBSET Bookings
        /\ Checked(d)' \ {a} \in SUBSET (Checked(d) \ {a})
    BY <2>3 DEF Checked
  <2>6. /\ Cardinality(Checked(d) \ {a}) \in Nat /\ Cardinality(Checked(d)' \ {a}) \in Nat
        /\ Cardinality(Checked(d)' \ {a}) <= Cardinality(Checked(d) \ {a})
    BY <2>5, Counts
  <2>7. Cardinality(Checked(d)' \ {a}) < Stock[d]
    BY <2>2, <2>6, StockAndLimits
  <2> QED
    BY <2>4, <2>7
<1> QED
  BY <1>2, <1>3, <1>4 DEF RoomForOne, NeverOverbooked, Checked

\* The others keep what they counted when w ends its transaction.
LEMMA FinishKeeps ==
  ASSUME StockTypeOK, RoomForOne, LimitForOne, NEW w \in Workers, Finish(w)
  PROVE  /\ \A v \in Workers, c \in Cars, b \in Bookings :
              Counting(v, c, b)' => Counting(v, c, b) /\ carLock'[c] = carLock[c]
         /\ \A v \in Workers, u \in Customers :
              TierPolicy /\ Creating(v, u)' => Creating(v, u) /\ userLock'[u] = userLock[u]
<1>1. ASSUME NEW v \in Workers, NEW c \in Cars, NEW b \in Bookings, Counting(v, c, b)'
      PROVE  Counting(v, c, b) /\ carLock'[c] = carLock[c]
  <2>1. v # w /\ Counting(v, c, b)
    BY <1>1 DEF Finish, Counting, StockTypeOK
  <2>2. carLock[c] = v
    BY <2>1 DEF RoomForOne
  <2> QED
    BY <2>1, <2>2 DEF Finish
<1>2. ASSUME NEW v \in Workers, NEW u \in Customers, TierPolicy, Creating(v, u)'
      PROVE  Creating(v, u) /\ userLock'[u] = userLock[u]
  <2>1. v # w /\ Creating(v, u)
    BY <1>2 DEF Finish, Creating, StockTypeOK
  <2>2. userLock[u] = v
    BY <1>2, <2>1 DEF LimitForOne
  <2> QED
    BY <2>1, <2>2 DEF Finish
<1> QED
  BY <1>1, <1>2

LEMMA FinishType ==
  ASSUME StockTypeOK, NEW w \in Workers, Finish(w)
  PROVE  /\ task' \in [ Workers -> Tasks ]
         /\ carLock' \in [ Cars -> Workers \cup {Nobody} ]
         /\ userLock' \in [ Customers -> Workers \cup {Nobody} ]
  BY DEF Finish, StockTypeOK, Tasks

LEMMA UpdateType ==
  ASSUME StockTypeOK, NEW b \in Bookings, NEW s \in Statuses \cup {"none"},
         NEW own \in Cars \cup {NoCar}, NEW offered \in Cars \cup {NoCar}, NEW counted,
         Update(b, s, own, offered, counted)
  PROVE  /\ status' \in [ Bookings -> Statuses \cup {"none"} ]
         /\ car' \in [ Bookings -> Cars \cup {NoCar} ]
         /\ alt' \in [ Bookings -> Cars \cup {NoCar} ]
         /\ unchecked' \subseteq Bookings
         /\ uncapped' \subseteq Bookings
  BY DEF Update, Write, Unchecked, Uncapped, StockTypeOK

\* w begins something other than a creation.
LEMMA StartStep ==
  ASSUME StockInv, NEW w \in Workers, NEW b \in Bookings, NEW c \in Cars,
         NEW op \in {"offer", "accept", "text", "pay", "decline"},
         NEW stage \in {"begun", "agreed"},
         op \in {"offer", "accept"} => stage = "begun",
         Start(w, op, stage, b, c),
         UNCHANGED << table, carLock, userLock, unchecked, uncapped >>
  PROVE  StockInv'
<1>1. StockTypeOK'
  BY DEF StockInv, StockTypeOK, Start, Tasks, table
<1>2. /\ \A v \in Workers, d \in Cars, a \in Bookings :
           Counting(v, d, a)' => Counting(v, d, a) /\ carLock'[d] = carLock[d]
      /\ \A v \in Workers, u \in Customers :
           Creating(v, u)' => Creating(v, u) /\ userLock'[u] = userLock[u]
  BY DEF StockInv, StockTypeOK, Start, Counting, Creating
<1>3. /\ \A d : Checked(d)' = Checked(d)
      /\ \A u : Capped(u)' = Capped(u)
  BY SameTable
<1>4. RoomForOne' /\ NeverOverbooked'
  BY <1>2, <1>3, RoomIsKept DEF StockInv
<1>5. LimitForOne' /\ ExposureCap'
  BY <1>2, <1>3, LimitIsKept DEF StockInv
<1> QED
  BY <1>1, <1>4, <1>5 DEF StockInv

LEMMA NegotiateStep ==
  ASSUME StockInv, NEW w \in Workers, Negotiate(w)
  PROVE  StockInv'
<1>1. PICK b \in Existing :
        \/ \E c \in Cars : BeginOffer(w, b, c)
        \/ BeginAccept(w, b) \/ BeginText(w, b)
        \/ AgreeToPay(w, b)
        \/ BeginDecline(w, b)
  BY DEF Negotiate
<1>2. b \in Bookings
  BY DEF Existing
<1>3. CASE \E c \in Cars : BeginOffer(w, b, c)
  BY <1>2, <1>3, StartStep DEF BeginOffer
<1>4. CASE BeginAccept(w, b)
  <2>1. alt[b] \in Cars
    BY <1>2, <1>4 DEF BeginAccept, StockInv, StockTypeOK
  <2> QED
    BY <1>2, <1>4, <2>1, StartStep DEF BeginAccept
<1>5. CASE BeginText(w, b)
  BY <1>2, <1>5, StartStep DEF BeginText
<1>6. CASE AgreeToPay(w, b)
  BY <1>2, <1>6, StartStep DEF AgreeToPay
<1>7. CASE BeginDecline(w, b)
  BY <1>2, <1>7, StartStep DEF BeginDecline
<1> QED
  BY <1>1, <1>3, <1>4, <1>5, <1>6, <1>7

\* The row is locked, and the customer's unpaid bookings are below the limit.
LEMMA BeginCreateStep ==
  ASSUME StockInv, NEW w \in Workers, NEW b \in Bookings, NEW c \in Cars,
         BeginCreate(w, b, c)
  PROVE  StockInv'
<1> DEFINE u == CustomerOf[b]
<1>0. u \in Customers
  BY BookingsHaveCustomers
<1>1. StockTypeOK'
  BY <1>0 DEF StockInv, StockTypeOK, BeginCreate, Start, Tasks, table
<1>2. \A v \in Workers, d \in Cars, a \in Bookings :
        Counting(v, d, a)' => Counting(v, d, a) /\ carLock'[d] = carLock[d]
  BY DEF StockInv, StockTypeOK, BeginCreate, Start, Counting
<1>3. /\ \A d : Checked(d)' = Checked(d)
      /\ \A q : Capped(q)' = Capped(q)
  BY SameTable DEF BeginCreate
<1>4. RoomForOne' /\ NeverOverbooked'
  BY <1>2, <1>3, RoomIsKept DEF StockInv
<1>5. ExposureCap'
  BY <1>3 DEF StockInv, ExposureCap, Capped
<1>6. ASSUME NEW v \in Workers, NEW q \in Customers, TierPolicy, Creating(v, q)'
      PROVE  userLock'[q] = v /\ Cardinality(Capped(q)) < Limit[q]
  <2>1. /\ userLock[u] = Nobody /\ Cardinality(OpenUnpaid(u)) < Limit[u]
        /\ userLock' = [ userLock EXCEPT ![u] = w ]
    BY <1>6 DEF BeginCreate
  <2>2. CASE v = w
    <3>1. q = u
      BY <1>6, <2>2 DEF Creating, BeginCreate, Start, StockInv, StockTypeOK
    <3>2. OpenUnpaid(u) \in SUBSET Bookings /\ Capped(u) \in SUBSET OpenUnpaid(u)
      BY DEF OpenUnpaid, Capped
    <3>3. /\ Cardinality(OpenUnpaid(u)) \in Nat /\ Cardinality(Capped(u)) \in Nat
          /\ Cardinality(Capped(u)) <= Cardinality(OpenUnpaid(u))
      BY <3>2, Counts
    <3>4. Cardinality(Capped(u)) < Limit[u]
      BY <1>0, <2>1, <3>3, StockAndLimits
    <3>5. userLock'[u] = w
      BY <1>0, <2>1 DEF StockInv, StockTypeOK
    <3> QED
      BY <2>2, <3>1, <3>4, <3>5
  <2>3. CASE v # w
    <3>1. Creating(v, q)
      BY <1>6, <2>3 DEF Creating, BeginCreate, Start, StockInv, StockTypeOK
    <3>2. userLock[q] = v /\ Cardinality(Capped(q)) < Limit[q]
      BY <1>6, <3>1 DEF StockInv, LimitForOne
    <3>3. q # u
      BY <2>1, <3>2, NoneIsNone
    <3> QED
      BY <2>1, <3>2, <3>3 DEF StockInv, StockTypeOK
  <2> QED
    BY <2>2, <2>3
<1>7. LimitForOne'
  BY <1>3, <1>6 DEF LimitForOne
<1> QED
  BY <1>1, <1>4, <1>5, <1>7 DEF StockInv

\* The listing is locked, and one of its units is free.
LEMMA CountStep ==
  ASSUME StockInv, NEW w \in Workers, Count(w)
  PROVE  StockInv'
<1>1. task[w] # Idle /\ task[w].op \in {"create", "offer", "accept"} /\ task[w].stage = "begun"
  BY DEF Count, In
<1>2. PICK c \in Cars : c = task[w].car
  BY <1>1, TaskParts DEF StockInv
<1>3. PICK b \in Bookings : b = task[w].booking
  BY <1>1, TaskParts DEF StockInv
<1>4. /\ carLock[c] = Nobody
      /\ Cardinality(Holders(c, b)) < Stock[c]
      /\ carLock' = [ carLock EXCEPT ![c] = w ]
      /\ task' = [ task EXCEPT ![w].stage = "counted" ]
      /\ UNCHANGED << table, userLock, unchecked, uncapped >>
  BY <1>2, <1>3 DEF Count
<1>5. StockTypeOK'
  BY <1>1, <1>4 DEF StockInv, StockTypeOK, Tasks, table
<1>6. /\ \A d : Checked(d)' = Checked(d)
      /\ \A q : Capped(q)' = Capped(q)
  BY <1>4, SameTable
<1>7. \A v \in Workers, q \in Customers :
        Creating(v, q)' => Creating(v, q) /\ userLock'[q] = userLock[q]
  BY <1>1, <1>4 DEF Creating, StockInv, StockTypeOK, Tasks, Idle
<1>8. LimitForOne' /\ ExposureCap'
  BY <1>6, <1>7, LimitIsKept DEF StockInv
<1>9. NeverOverbooked'
  BY <1>6 DEF StockInv, NeverOverbooked, Checked
<1>10. ASSUME NEW v \in Workers, NEW d \in Cars, NEW a \in Bookings, Counting(v, d, a)'
       PROVE  carLock'[d] = v /\ Cardinality(Checked(d) \ {a}) < Stock[d]
  <2>1. CASE v = w
    <3>1. d = c /\ a = b
      BY <1>1, <1>2, <1>3, <1>4, <1>10, <2>1 DEF Counting, StockInv, StockTypeOK, Tasks, Idle
    <3>2. Holders(c, b) \in SUBSET Bookings /\ Checked(c) \ {b} \in SUBSET Holders(c, b)
      BY DEF Holders, Checked
    <3>3. /\ Cardinality(Holders(c, b)) \in Nat /\ Cardinality(Checked(c) \ {b}) \in Nat
          /\ Cardinality(Checked(c) \ {b}) <= Cardinality(Holders(c, b))
      BY <3>2, Counts
    <3>4. Cardinality(Checked(c) \ {b}) < Stock[c]
      BY <1>4, <3>3, StockAndLimits
    <3>5. carLock'[c] = w
      BY <1>4 DEF StockInv, StockTypeOK
    <3> QED
      BY <2>1, <3>1, <3>4, <3>5
  <2>2. CASE v # w
    <3>1. Counting(v, d, a)
      BY <1>4, <1>10, <2>2 DEF Counting, StockInv, StockTypeOK
    <3>2. carLock[d] = v /\ Cardinality(Checked(d) \ {a}) < Stock[d]
      BY <3>1 DEF StockInv, RoomForOne
    <3>3. d # c
      BY <1>4, <3>2, NoneIsNone
    <3> QED
      BY <1>4, <3>2, <3>3 DEF StockInv, StockTypeOK
  <2> QED
    BY <2>1, <2>2
<1>11. RoomForOne'
  BY <1>6, <1>10 DEF RoomForOne
<1> QED
  BY <1>5, <1>8, <1>9, <1>11 DEF StockInv

\* Nothing is written: the transaction fails, or only agrees to the move.
LEMMA RollbackStep ==
  ASSUME StockInv, NEW w \in Workers, Rollback(w)
  PROVE  StockInv'
<1>1. Finish(w) /\ UNCHANGED << table, unchecked, uncapped >>
  BY DEF Rollback
<1>2. /\ \A d : Checked(d)' = Checked(d)
      /\ \A q : Capped(q)' = Capped(q)
  BY <1>1, SameTable
<1>3. StockTypeOK'
  BY <1>1, FinishType DEF StockInv, StockTypeOK, table
<1>4. RoomForOne' /\ NeverOverbooked'
  BY <1>1, <1>2, FinishKeeps, RoomIsKept DEF StockInv
<1>5. LimitForOne' /\ ExposureCap'
  BY <1>1, <1>2, FinishKeeps, LimitIsKept DEF StockInv
<1> QED
  BY <1>3, <1>4, <1>5 DEF StockInv

LEMMA AgreeToOfferStep ==
  ASSUME StockInv, NEW w \in Workers, AgreeToOffer(w)
  PROVE  StockInv'
<1>1. /\ task[w] # Idle /\ task[w].op = "offer" /\ task[w].stage = "counted"
      /\ task' = [ task EXCEPT ![w].stage = "agreed" ]
      /\ UNCHANGED << table, carLock, userLock, unchecked, uncapped >>
  BY DEF AgreeToOffer, In
<1>2. /\ \A d : Checked(d)' = Checked(d)
      /\ \A q : Capped(q)' = Capped(q)
  BY <1>1, SameTable
<1>3. StockTypeOK'
  BY <1>1 DEF StockInv, StockTypeOK, Tasks, table
<1>4. /\ \A v \in Workers, d \in Cars, a \in Bookings :
           Counting(v, d, a)' => Counting(v, d, a) /\ carLock'[d] = carLock[d]
      /\ \A v \in Workers, u \in Customers :
           Creating(v, u)' => Creating(v, u) /\ userLock'[u] = userLock[u]
  BY <1>1 DEF StockInv, StockTypeOK, Tasks, Idle, Counting, Creating
<1>5. RoomForOne' /\ NeverOverbooked'
  BY <1>2, <1>4, RoomIsKept DEF StockInv
<1>6. LimitForOne' /\ ExposureCap'
  BY <1>2, <1>4, LimitIsKept DEF StockInv
<1> QED
  BY <1>3, <1>5, <1>6 DEF StockInv

\* A write that nobody counted for.
LEMMA UncountedStep ==
  ASSUME StockInv, NEW b \in Bookings, NEW s \in Statuses \cup {"none"},
         Update(b, s, car[b], alt[b], NoCar),
         \/ UNCHANGED << carLock, userLock, task >>
         \/ \E w \in Workers : Finish(w)
  PROVE  StockInv'
<1>1. PICK own \in Cars \cup {NoCar}, offered \in Cars \cup {NoCar} :
        own = car[b] /\ offered = alt[b]
  BY DEF StockInv, StockTypeOK
<1>2. Update(b, s, own, offered, NoCar)
  BY <1>1
<1>3. /\ \A d \in Cars : Checked(d)' \in SUBSET Checked(d)
      /\ \A q : Capped(q)' \in SUBSET Capped(q)
  BY <1>2, UpdateAdds, NoneIsNone DEF StockInv
<1>4. /\ \A v \in Workers, c \in Cars, a \in Bookings :
           Counting(v, c, a)' => Counting(v, c, a) /\ carLock'[c] = carLock[c]
      /\ \A v \in Workers, u \in Customers :
           TierPolicy /\ Creating(v, u)' => Creating(v, u) /\ userLock'[u] = userLock[u]
  <2>1. CASE UNCHANGED << carLock, userLock, task >>
    BY <2>1 DEF Counting, Creating
  <2>2. CASE \E w \in Workers : Finish(w)
    BY <2>2, FinishKeeps DEF StockInv
  <2> QED
    BY <2>1, <2>2
<1>5. /\ task' \in [ Workers -> Tasks ]
      /\ carLock' \in [ Cars -> Workers \cup {Nobody} ]
      /\ userLock' \in [ Customers -> Workers \cup {Nobody} ]
  BY FinishType DEF StockInv, StockTypeOK
<1>6. StockTypeOK'
  BY <1>2, <1>5, UpdateType DEF StockInv, StockTypeOK
<1>7. RoomForOne' /\ NeverOverbooked'
  BY <1>3, <1>4, RoomIsKept DEF StockInv
<1>8. LimitForOne' /\ ExposureCap'
  BY <1>3, <1>4, LimitIsKept DEF StockInv
<1> QED
  BY <1>6, <1>7, <1>8 DEF StockInv

\* An offer or an acceptance is written: its car has been counted.
LEMMA CountedStep ==
  ASSUME StockInv, NEW w \in Workers, NEW b \in Bookings, NEW c \in Cars,
         NEW s \in Statuses \cup {"none"},
         NEW own \in Cars \cup {NoCar}, NEW offered \in Cars \cup {NoCar},
         Counting(w, c, b), Update(b, s, own, offered, c), Finish(w)
  PROVE  StockInv'
<1>1. /\ \A d \in Cars \ {c} : Checked(d)' \in SUBSET Checked(d)
      /\ Checked(c)' \in SUBSET (Checked(c) \cup {b})
      /\ \A q : Capped(q)' \in SUBSET Capped(q)
  BY UpdateAdds DEF StockInv
<1>2. RoomForOne' /\ NeverOverbooked'
  BY <1>1, RoomIsTaken DEF StockInv
<1>3. LimitForOne' /\ ExposureCap'
  BY <1>1, FinishKeeps, LimitIsKept DEF StockInv
<1>4. StockTypeOK'
  BY UpdateType, FinishType DEF StockInv, StockTypeOK
<1> QED
  BY <1>2, <1>3, <1>4 DEF StockInv

LEMMA CommitOfferStep ==
  ASSUME StockInv, NEW w \in Workers, CommitOffer(w)
  PROVE  StockInv'
<1>1. task[w] # Idle /\ task[w].op = "offer" /\ task[w].stage = "agreed" /\ Finish(w)
  BY DEF CommitOffer, In
<1>2. PICK c \in Cars, b \in Bookings : c = task[w].car /\ b = task[w].booking
  BY <1>1, TaskParts DEF StockInv
<1>3. PICK own \in Cars \cup {NoCar} : own = car[b]
  BY DEF StockInv, StockTypeOK
<1>4. Update(b, "ALTERNATIVE_SUGGESTED", own, c, c)
  BY <1>2, <1>3 DEF CommitOffer
<1>5. Counting(w, c, b)
  BY <1>1, <1>2 DEF Counting
<1> QED
  BY <1>1, <1>4, <1>5, CountedStep DEF Statuses

LEMMA CommitAcceptStep ==
  ASSUME StockInv, NEW w \in Workers, CommitAccept(w)
  PROVE  StockInv'
<1>1. task[w] # Idle /\ task[w].op = "accept" /\ task[w].stage = "counted" /\ Finish(w)
  BY DEF CommitAccept, In
<1>2. PICK c \in Cars, b \in Bookings : c = task[w].car /\ b = task[w].booking
  BY <1>1, TaskParts DEF StockInv
<1>3. PICK s \in Statuses \cup {"none"}, offered \in Cars \cup {NoCar} : s = status[b] /\ offered = alt[b]
  BY <1>2 DEF StockInv, StockTypeOK
<1>4. Update(b, s, c, offered, c)
  BY <1>2, <1>3 DEF CommitAccept
<1>5. Counting(w, c, b)
  BY <1>1, <1>2 DEF Counting
<1> QED
  BY <1>1, <1>4, <1>5, CountedStep

\* The new booking takes the unit and the place that were counted for it.
LEMMA CommitCreateStep ==
  ASSUME StockInv, NEW w \in Workers, CommitCreate(w)
  PROVE  StockInv'
<1>1. task[w] # Idle /\ task[w].op = "create" /\ task[w].stage = "counted" /\ Finish(w)
  BY DEF CommitCreate, In
<1>2. PICK c \in Cars, b \in Bookings : c = task[w].car /\ b = task[w].booking
  BY <1>1, TaskParts DEF StockInv
<1>3. PICK u \in Customers : u = CustomerOf[b]
  BY BookingsHaveCustomers
<1>4. /\ status' = [ status EXCEPT ![b] = "PENDING" ]
      /\ car' = [ car EXCEPT ![b] = c ]
      /\ alt' = [ alt EXCEPT ![b] = NoCar ]
      /\ unchecked' = unchecked \ {b}
      /\ uncapped' = uncapped \ {b}
  BY <1>2 DEF CommitCreate, Write
<1>5. Hold(b)' = c /\ \A a \in Bookings \ {b} : Hold(a)' = Hold(a)
  BY <1>4 DEF Hold, HoldOf, ActiveStatuses, StockInv, StockTypeOK
<1>6. /\ \A d \in Cars \ {c} : Checked(d)' \in SUBSET Checked(d)
      /\ Checked(c)' \in SUBSET (Checked(c) \cup {b})
  BY <1>4, <1>5 DEF Checked
<1>7. /\ \A q \in Customers \ {u} : Capped(q)' \in SUBSET Capped(q)
      /\ Capped(u)' \in SUBSET (Capped(u) \cup {b})
  BY <1>3, <1>4 DEF Capped, OpenUnpaid, StockInv, StockTypeOK
<1>8. RoomForOne' /\ NeverOverbooked'
  <2>1. Counting(w, c, b)
    BY <1>1, <1>2 DEF Counting
  <2> QED
    BY <1>1, <1>6, <2>1, RoomIsTaken DEF StockInv
<1>9. ASSUME TierPolicy, NEW q \in Customers PROVE Cardinality(Capped(q)') <= Limit[q]
  <2>1. Capped(q) \in SUBSET Bookings
    BY DEF Capped, OpenUnpaid
  <2>2. Cardinality(Capped(q)) \in Nat /\ Cardinality(Capped(q)) <= Limit[q]
    BY <1>9, <2>1, Counts DEF StockInv, ExposureCap, Capped
  <2>3. CASE q # u
    <3>1. Cardinality(Capped(q)') \in Nat /\ Cardinality(Capped(q)') <= Cardinality(Capped(q))
      BY <1>7, <2>1, <2>3, Counts
    <3> QED
      BY <2>2, <3>1, StockAndLimits
  <2>4. CASE q = u
    <3>1. Creating(w, u)
      BY <1>1, <1>2, <1>3 DEF Creating
    <3>2. Cardinality(Capped(u)) < Limit[u]
      BY <1>9, <3>1 DEF StockInv, LimitForOne
    <3>3. Capped(u) \ {b} \in SUBSET Capped(u) /\ Capped(u)' \in SUBSET Bookings
      BY <1>7, <2>1, <2>4
    <3>4. /\ Cardinality(Capped(u) \ {b}) \in Nat
          /\ Cardinality(Capped(u) \ {b}) <= Cardinality(Capped(u))
          /\ Cardinality(Capped(u)') \in Nat
      BY <2>1, <2>4, <3>3, Counts
    <3>5. Cardinality(Capped(u)') <= Cardinality(Capped(u) \ {b}) + 1
      BY <1>7, <2>1, <2>4, OneMore
    <3> QED
      BY <2>2, <2>4, <3>2, <3>4, <3>5, StockAndLimits
  <2> QED
    BY <2>3, <2>4
<1>10. ASSUME NEW v \in Workers, NEW q \in Customers, TierPolicy, Creating(v, q)'
       PROVE  userLock'[q] = v /\ Cardinality(Capped(q)') < Limit[q]
  <2>1. Creating(v, q) /\ userLock'[q] = userLock[q]
    BY <1>1, <1>10, FinishKeeps DEF StockInv
  <2>2. userLock[q] = v /\ Cardinality(Capped(q)) < Limit[q]
    BY <1>10, <2>1 DEF StockInv, LimitForOne
  <2>3. userLock[u] = w
    BY <1>1, <1>2, <1>3, <1>10 DEF StockInv, LimitForOne, Creating
  <2>4. v # w
    BY <1>1, <1>10 DEF Creating, Finish, StockInv, StockTypeOK
  <2>5. q # u
    BY <2>2, <2>3, <2>4
  <2>6. Capped(q) \in SUBSET Bookings /\ Capped(q)' \in SUBSET Capped(q)
    BY <1>7, <2>5 DEF Capped, OpenUnpaid
  <2>7. /\ Cardinality(Capped(q)) \in Nat /\ Cardinality(Capped(q)') \in Nat
        /\ Cardinality(Capped(q)') <= Cardinality(Capped(q))
    BY <2>6, Counts
  <2> QED
    BY <2>1, <2>2, <2>7, StockAndLimits
<1>11. StockTypeOK'
  BY <1>1, <1>4, FinishType DEF StockInv, StockTypeOK, Statuses
<1>12. LimitForOne' /\ ExposureCap'
  BY <1>9, <1>10 DEF LimitForOne, ExposureCap, Capped
<1> QED
  BY <1>8, <1>11, <1>12 DEF StockInv

-----------------------------------------------------------------------------
LEMMA ServeStep ==
  ASSUME StockInv, NEW w \in Workers, Serve(w)
  PROVE  StockInv'
<1>1. CASE CommitText(w) \/ CommitPay(w) \/ CommitDecline(w)
  <2>1. PICK b \in Bookings : b = task[w].booking
    BY <1>1, TaskParts DEF StockInv, CommitText, CommitPay, CommitDecline, In
  <2>2. \E s \in Statuses : Update(b, s, car[b], alt[b], NoCar)
    BY <1>1, <2>1 DEF CommitText, CommitPay, CommitDecline, Statuses
  <2>3. Finish(w)
    BY <1>1 DEF CommitText, CommitPay, CommitDecline
  <2> QED
    BY <2>2, <2>3, UncountedStep
<1> QED
  BY <1>1, CountStep, AgreeToOfferStep, CommitOfferStep, CommitAcceptStep, RollbackStep
     DEF Serve

LEMMA MoveStep ==
  ASSUME StockInv, NEW b \in Bookings, NEW to \in MoveTo, Move(b, to)
  PROVE  StockInv'
  BY OtherMoves, UncountedStep DEF Move

LEMMA StockStep == StockInv /\ [StockNext]_stockVars => StockInv'
<1> SUFFICES ASSUME StockInv, [StockNext]_stockVars PROVE StockInv'
  OBVIOUS
<1>1. CASE UNCHANGED stockVars
  <2>1. UNCHANGED << table, carLock, userLock, task, unchecked, uncapped >>
    BY <1>1 DEF stockVars, table
  <2>2. /\ \A d : Checked(d)' = Checked(d)
        /\ \A q : Capped(q)' = Capped(q)
    BY <2>1, SameTable
  <2>3. RoomForOne' /\ NeverOverbooked'
    BY <2>1, <2>2, RoomIsKept DEF StockInv, Counting
  <2>4. LimitForOne' /\ ExposureCap'
    BY <2>1, <2>2, LimitIsKept DEF StockInv, Creating
  <2>5. StockTypeOK'
    BY <2>1 DEF table, StockInv, StockTypeOK
  <2> QED
    BY <2>3, <2>4, <2>5 DEF StockInv
<1>2. CASE \E w \in Workers, b \in Bookings, c \in Cars : BeginCreate(w, b, c)
  BY <1>2, BeginCreateStep
<1>3. CASE \E w \in Workers : CommitCreate(w) \/ Negotiate(w) \/ Serve(w)
  BY <1>3, CommitCreateStep, NegotiateStep, ServeStep
<1>4. CASE \E b \in Existing, to \in MoveTo : Move(b, to)
  BY <1>4, MoveStep DEF Existing
<1> QED
  BY <1>1, <1>2, <1>3, <1>4 DEF StockNext

LEMMA InitStock == StockInit => StockInv
<1> SUFFICES ASSUME StockInit PROVE StockInv
  OBVIOUS
<1>1. StockTypeOK
  BY DEF StockInit, StockTypeOK, Tasks
<1>2. \A w \in Workers : task[w] = Idle
  BY DEF StockInit
<1>3. RoomForOne /\ LimitForOne
  BY <1>2 DEF RoomForOne, LimitForOne, Counting, Creating
<1>4. \A b \in Bookings : Hold(b) = NoCar /\ status[b] \notin OpenUnpaidStatuses
  BY DEF StockInit, Hold, HoldOf, ActiveStatuses, OpenUnpaidStatuses
<1>5. \A c \in Cars : Checked(c) = {}
  BY <1>4, NoneIsNone DEF Checked
<1>6. \A u \in Customers : Capped(u) = {}
  BY <1>4 DEF Capped, OpenUnpaid
<1>7. NeverOverbooked
  BY <1>5, FS_EmptySet, StockAndLimits DEF NeverOverbooked, Checked
<1>8. ExposureCap
  BY <1>6, FS_EmptySet, StockAndLimits DEF ExposureCap, Capped
<1> QED
  BY <1>1, <1>3, <1>7, <1>8 DEF StockInv

LEMMA StockInvariant == StockSpec => []StockInv
  BY InitStock, StockStep, PTL DEF StockSpec

\* Whatever the cars, the stock and the number of requests, offers and acceptances
\* at the same time, bookings that were counted never hold more than there is.
THEOREM CountedBookingsFit == StockSpec => []NeverOverbooked
<1>1. StockInv => NeverOverbooked
  BY DEF StockInv
<1> QED
  BY <1>1, StockInvariant, PTL

\* Whatever the customers and their limits, the unpaid bookings that were counted
\* when they were made stay within the limit of their customer.
THEOREM UnpaidBookingsStayWithinLimit == StockSpec => []ExposureCap
<1>1. StockInv => ExposureCap
  BY DEF StockInv
<1> QED
  BY <1>1, StockInvariant, PTL

-----------------------------------------------------------------------------
(* The keys.                                                                *)

Made(r) == status[r] # "none"

\* What the row of r's key says, unless it lapsed or is out of date.
HasKey(r) == r \in record[KeyOf[r]] \/ KeyOf[r] \in lapsed

\* w is not creating a booking but busy with one that exists.
Serving(w) == task[w] # Idle => task[w].op # "create" /\ Made(task[w].booking)

\* Only request r creates booking r; everybody else is busy with bookings that exist.
OwnWork ==
  /\ \A r \in Requests : task[r] # Idle =>
       task[r].op = "create" /\ task[r].booking = r /\ phase[r] = "claimed"
  /\ \A w \in Staff : Serving(w)

\* How far a request is says whether its booking is made and its key recorded.
Progress ==
  /\ \A r \in Requests : phase[r] \in {"new", "missed", "claimed"} => ~Made(r)
  /\ \A r \in Requests : phase[r] = "claimed" => HasKey(r)
  /\ \A r \in Requests : phase[r] = "made" => Made(r)
  /\ \A r \in Requests : phase[r] = "failing" /\ Made(r) => KeyOf[r] \in lapsed
  /\ \A r \in Requests : Made(r) => HasKey(r)

\* A key has one row, of a request that carries it, and only made bookings are
\* stored in rows and told to customers.
Rows ==
  /\ \A k \in Keys : \A q \in record[k] : KeyOf[q] = k
  /\ \A k \in Keys : \A q, r \in record[k] : q = r
  /\ \A q \in stored : Made(q)
  /\ \A r \in Requests : \A b \in answer[r] :
       b \in Requests /\ Made(b) /\ KeyOf[b] = KeyOf[r] /\ body[b] = body[r]

\* The inductive invariant of BookingRequest.
IInv == TypeOK /\ OwnWork /\ Progress /\ Rows

LEMMA InvImpliesOne == IInv => OneBookingPerKey
<1> SUFFICES ASSUME IInv, NEW q \in Requests, NEW r \in Requests, q # r,
                    KeyOf[q] = KeyOf[r], KeyOf[q] \notin lapsed, Made(q), Made(r)
             PROVE  FALSE
  BY DEF OneBookingPerKey, Made
<1>1. q \in record[KeyOf[q]] /\ r \in record[KeyOf[q]]
  BY DEF IInv, Progress, HasKey
<1> QED
  BY <1>1, RequestsHaveKeys DEF IInv, Rows

LEMMA InvImpliesAgree == IInv => AnswersAgree
<1> SUFFICES ASSUME IInv, NEW q \in Requests, NEW r \in Requests, NEW b \in answer[q]
             PROVE  /\ status[b] # "none" /\ body[b] = body[q]
                    /\ (KeyOf[q] = KeyOf[r] /\ KeyOf[q] \notin lapsed => answer[r] \subseteq {b})
  BY DEF AnswersAgree
<1>1. b \in Requests /\ Made(b) /\ KeyOf[b] = KeyOf[q] /\ body[b] = body[q]
  BY DEF IInv, Rows
<1>2. ASSUME KeyOf[q] = KeyOf[r], KeyOf[q] \notin lapsed, NEW a \in answer[r]
      PROVE  a = b
  <2>1. a \in Requests /\ Made(a) /\ KeyOf[a] = KeyOf[r]
    BY DEF IInv, Rows
  <2> QED
    BY <1>1, <1>2, <2>1, InvImpliesOne DEF OneBookingPerKey, Made
<1> QED
  BY <1>1, <1>2 DEF Made

LEMMA InitIInv == Init => IInv
<1> SUFFICES ASSUME Init PROVE IInv
  OBVIOUS
<1>1. StockTypeOK
  BY InitStock DEF Init, StockInv
<1>2. \A b \in Bookings : ~Made(b)
  BY DEF Init, StockInit, Made
<1>3. \A w \in Workers : task[w] = Idle
  BY DEF Init, StockInit
<1>4. TypeOK
  BY <1>1 DEF Init, TypeOK, Phases
<1>5. OwnWork
  BY <1>3, RequestsServeThemselves DEF OwnWork, Staff, Serving
<1>6. Progress
  BY <1>2, RequestsServeThemselves DEF Init, Progress
<1>7. Rows
  BY DEF Init, Rows
<1> QED
  BY <1>4, <1>5, <1>6, <1>7 DEF IInv

\* Updating a booking that exists makes none and unmakes none.
LEMMA UpdateMakesNone ==
  ASSUME StockTypeOK, NEW b \in Bookings, Made(b), NEW s \in Statuses,
         NEW own, NEW offered, NEW counted, Update(b, s, own, offered, counted)
  PROVE  \A a \in Bookings : Made(a)' <=> Made(a)
  BY DEF Update, Write, Made, StockTypeOK, Statuses

\* Nor does beginning a transaction, counting or failing.
LEMMA SameTableMakesNone ==
  ASSUME UNCHANGED table
  PROVE  \A a \in Bookings : Made(a)' <=> Made(a)
  BY DEF table, Made

\* A member of staff begins something.
LEMMA NegotiateServes ==
  ASSUME StockTypeOK, NEW w \in Workers, Negotiate(w)
  PROVE  /\ \A a \in Bookings : Made(a)' <=> Made(a)
         /\ \A v \in Workers \ {w} : task'[v] = task[v]
         /\ Serving(w)'
<1>1. PICK b \in Bookings :
        /\ Made(b)
        /\ \/ \E c \in Cars : BeginOffer(w, b, c)
           \/ BeginAccept(w, b) \/ BeginText(w, b)
           \/ AgreeToPay(w, b)
           \/ BeginDecline(w, b)
  BY DEF Negotiate, Existing, Made
<1>2. UNCHANGED table
  BY <1>1 DEF BeginOffer, BeginAccept, BeginText, AgreeToPay, BeginDecline
<1>3. \E op \in {"offer", "accept", "text", "pay", "decline"} :
        \E stage, c : Start(w, op, stage, b, c)
  BY <1>1 DEF BeginOffer, BeginAccept, BeginText, AgreeToPay, BeginDecline
<1>4. /\ task'[w].op # "create" /\ task'[w].booking = b
      /\ \A v \in Workers \ {w} : task'[v] = task[v]
  BY <1>3 DEF Start, StockTypeOK
<1>5. \A a \in Bookings : Made(a)' <=> Made(a)
  BY <1>2, SameTableMakesNone
<1> QED
  BY <1>1, <1>4, <1>5 DEF Serving, Made

\* A member of staff goes on.
LEMMA ServeServes ==
  ASSUME StockTypeOK, NEW w \in Workers, Serving(w), Serve(w)
  PROVE  /\ \A a \in Bookings : Made(a)' <=> Made(a)
         /\ \A v \in Workers \ {w} : task'[v] = task[v]
         /\ Serving(w)'
<1>0. task[w] # Idle
  BY DEF Serve, Count, AgreeToOffer, CommitOffer, CommitAccept, CommitText, CommitPay,
     CommitDecline, Rollback, In
<1>1. PICK b \in Bookings : b = task[w].booking /\ Made(b) /\ task[w].op # "create"
  BY <1>0, TaskParts DEF Serving
<1>2. CASE Count(w) \/ AgreeToOffer(w)
  <2>1. UNCHANGED table /\ \E stage : task' = [ task EXCEPT ![w].stage = stage ]
    BY <1>2 DEF Count, AgreeToOffer
  <2>2. /\ \A v \in Workers \ {w} : task'[v] = task[v]
        /\ task'[w].op = task[w].op /\ task'[w].booking = b
    BY <1>0, <1>1, <2>1 DEF StockTypeOK, Tasks
  <2> QED
    BY <1>1, <2>1, <2>2, SameTableMakesNone DEF Serving, Made
<1>3. CASE Finish(w) /\ \A a \in Bookings : Made(a)' <=> Made(a)
  BY <1>3 DEF Finish, Serving, StockTypeOK
<1>4. CASE Rollback(w)
  BY <1>3, <1>4, SameTableMakesNone DEF Rollback
<1>5. CASE CommitOffer(w) \/ CommitAccept(w) \/ CommitText(w) \/ CommitPay(w)
           \/ CommitDecline(w)
  <2>1. Finish(w)
    BY <1>5 DEF CommitOffer, CommitAccept, CommitText, CommitPay, CommitDecline
  <2>2. \E s \in Statuses : \E own, offered, counted : Update(b, s, own, offered, counted)
    BY <1>1, <1>5 DEF CommitOffer, CommitAccept, CommitText, CommitPay, CommitDecline,
       Statuses, Made, StockTypeOK
  <2>3. \A a \in Bookings : Made(a)' <=> Made(a)
    BY <1>1, <2>2, UpdateMakesNone
  <2> QED
    BY <1>3, <2>1, <2>3
<1> QED
  BY <1>2, <1>4, <1>5 DEF Serve

\* With no booking made and no request at work changed, the rest stands.
LEMMA ElsewhereKeeps ==
  ASSUME IInv, StockTypeOK', UNCHANGED requestVars,
         \A a \in Bookings : Made(a)' <=> Made(a), OwnWork'
  PROVE  IInv'
<1>1. TypeOK'
  BY DEF IInv, TypeOK, requestVars
<1>2. Progress'
  BY RequestsServeThemselves DEF IInv, Progress, HasKey, requestVars
<1>3. Rows'
  BY RequestsServeThemselves DEF IInv, Rows, TypeOK, requestVars
<1> QED
  BY <1>1, <1>2, <1>3 DEF IInv

LEMMA ElsewhereStep ==
  ASSUME IInv, StockTypeOK', Elsewhere
  PROVE  IInv'
<1>0. Requests \subseteq Bookings /\ Requests \subseteq Workers /\ StockTypeOK
  BY RequestsServeThemselves DEF IInv, TypeOK
<1>1. UNCHANGED requestVars
  BY DEF Elsewhere
<1>2. ASSUME NEW w \in Staff, Negotiate(w) \/ Serve(w) PROVE IInv'
  <2>1. w \in Workers /\ w \notin Requests /\ Serving(w)
    BY DEF Staff, IInv, OwnWork
  <2>2. /\ \A a \in Bookings : Made(a)' <=> Made(a)
        /\ \A v \in Workers \ {w} : task'[v] = task[v]
        /\ Serving(w)'
    BY <1>0, <1>2, <2>1, NegotiateServes, ServeServes
  <2>3. ASSUME NEW v \in Staff PROVE Serving(v)'
    <3>1. CASE v = w
      BY <2>2, <3>1
    <3>2. CASE v # w
      <4>1. v \in Workers /\ Serving(v) /\ task'[v] = task[v]
        BY <2>2, <3>2 DEF Staff, IInv, OwnWork
      <4>2. task[v] # Idle => task[v].booking \in Bookings
        BY <1>0, <4>1, TaskParts
      <4> QED
        BY <2>2, <4>1, <4>2 DEF Serving, Made
    <3> QED
      BY <3>1, <3>2
  <2>4. OwnWork'
    BY <1>0, <1>1, <2>1, <2>2, <2>3 DEF IInv, OwnWork, Staff, requestVars
  <2> QED
    BY <1>1, <2>2, <2>4, ElsewhereKeeps
<1>3. ASSUME NEW b \in Existing, NEW to \in MoveTo, Move(b, to) PROVE IInv'
  <2>1. b \in Bookings /\ Made(b) /\ to \in Statuses
    BY OtherMoves DEF Existing, Made
  <2>2. \A a \in Bookings : Made(a)' <=> Made(a)
    BY <1>0, <1>3, <2>1, UpdateMakesNone DEF Move
  <2>3. task' = task
    BY <1>3 DEF Move
  <2>4. ASSUME NEW v \in Staff PROVE Serving(v)'
    <3>1. v \in Workers /\ Serving(v)
      BY DEF Staff, IInv, OwnWork
    <3>2. task[v] # Idle => task[v].booking \in Bookings
      BY <1>0, <3>1, TaskParts
    <3> QED
      BY <2>2, <2>3, <3>1, <3>2 DEF Serving, Made
  <2>5. OwnWork'
    BY <1>0, <1>1, <2>3, <2>4 DEF IInv, OwnWork, Staff, requestVars
  <2> QED
    BY <1>1, <2>2, <2>5, ElsewhereKeeps
<1> QED
  BY <1>2, <1>3 DEF Elsewhere

\* A step of request r leaves the others to their own work.
LEMMA RequestWork ==
  ASSUME IInv, NEW r \in Requests,
         \A a \in Bookings : Made(a) => Made(a)',
         \A v \in Workers \ {r} : task'[v] = task[v],
         \A q \in Requests \ {r} : phase'[q] = phase[q],
         task'[r] # Idle =>
           task'[r].op = "create" /\ task'[r].booking = r /\ phase'[r] = "claimed"
  PROVE  OwnWork'
<1>1. ASSUME NEW q \in Requests, task'[q] # Idle
      PROVE  task'[q].op = "create" /\ task'[q].booking = q /\ phase'[q] = "claimed"
  BY <1>1, RequestsServeThemselves DEF IInv, OwnWork
<1>2. ASSUME NEW v \in Staff PROVE Serving(v)'
  <2>1. v \in Workers /\ v # r /\ Serving(v)
    BY DEF Staff, IInv, OwnWork
  <2>2. task[v] # Idle => task[v].booking \in Bookings
    BY <2>1, TaskParts DEF IInv, TypeOK
  <2> QED
    BY <2>1, <2>2 DEF Serving, Made
<1> QED
  BY <1>1, <1>2 DEF OwnWork

\* The steps of the key, which leave the stock alone.
LEMMA KeyWork ==
  ASSUME IInv, NEW r \in Requests, UNCHANGED stockVars,
         \A q \in Requests \ {r} : phase'[q] = phase[q],
         phase[r] # "claimed" \/ phase'[r] = "claimed"
  PROVE  OwnWork' /\ StockTypeOK' /\ \A a \in Bookings : Made(a)' <=> Made(a)
<1>1. task' = task /\ UNCHANGED table
  BY DEF stockVars, table
<1>2. \A a \in Bookings : Made(a)' <=> Made(a)
  BY <1>1, SameTableMakesNone
<1>3. task'[r] # Idle =>
        task'[r].op = "create" /\ task'[r].booking = r /\ phase'[r] = "claimed"
  BY <1>1 DEF IInv, OwnWork
<1>4. OwnWork'
  BY <1>1, <1>2, <1>3, RequestWork
<1>5. StockTypeOK'
  BY DEF stockVars, IInv, TypeOK, StockTypeOK
<1> QED
  BY <1>2, <1>4, <1>5

LEMMA MissStep ==
  ASSUME IInv, NEW r \in Requests, Miss(r)
  PROVE  IInv'
<1>1. /\ phase[r] = "new" /\ phase' = [ phase EXCEPT ![r] = "missed" ]
      /\ UNCHANGED << stockVars, body, record, stored, answer, lapsed >>
  BY DEF Miss, Goes
<1>2. OwnWork' /\ StockTypeOK' /\ \A a \in Bookings : Made(a)' <=> Made(a)
  BY <1>1, KeyWork DEF IInv, TypeOK
<1>3. TypeOK'
  BY <1>1, <1>2 DEF IInv, TypeOK, Phases
<1>4. Progress'
  BY <1>1, <1>2, RequestsServeThemselves DEF IInv, TypeOK, Progress, HasKey
<1>5. Rows'
  BY <1>1, <1>2, RequestsServeThemselves DEF IInv, TypeOK, Rows
<1> QED
  BY <1>2, <1>3, <1>4, <1>5 DEF IInv

LEMMA HitStep ==
  ASSUME IInv, NEW r \in Requests, Hit(r)
  PROVE  IInv'
<1>1. PICK q \in record[KeyOf[r]] :
        IF q \in stored /\ SameBody(q, r)
        THEN Goes(r, "new", "answered") /\ answer' = [ answer EXCEPT ![r] = {q} ]
        ELSE Goes(r, "new", "refused") /\ UNCHANGED answer
  BY DEF Hit
<1>2. q \in Requests /\ KeyOf[q] = KeyOf[r]
  BY RequestsHaveKeys DEF IInv, TypeOK, Rows
<1>3. /\ phase[r] = "new"
      /\ \E to \in {"answered", "refused"} : phase' = [ phase EXCEPT ![r] = to ]
      /\ UNCHANGED << stockVars, body, record, stored, lapsed >>
  BY <1>1 DEF Hit, Goes
<1>4. OwnWork' /\ StockTypeOK' /\ \A a \in Bookings : Made(a)' <=> Made(a)
  BY <1>3, KeyWork DEF IInv, TypeOK
<1>5. /\ answer' \in [ Requests -> SUBSET Bookings ]
      /\ \A p \in Requests \ {r} : answer'[p] = answer[p]
      /\ answer'[r] \subseteq answer[r] \cup
           (IF q \in stored /\ SameBody(q, r) THEN {q} ELSE {})
  BY <1>1, <1>2, RequestsServeThemselves DEF IInv, TypeOK
<1>6. TypeOK'
  BY <1>3, <1>4, <1>5 DEF IInv, TypeOK, Phases
<1>7. Progress'
  BY <1>3, <1>4, RequestsServeThemselves DEF IInv, TypeOK, Progress, HasKey
<1>8. ASSUME NEW p \in Requests, NEW b \in answer'[p]
      PROVE  b \in Requests /\ Made(b)' /\ KeyOf[b] = KeyOf[p] /\ body'[b] = body'[p]
  <2>1. CASE b \in answer[p]
    BY <1>3, <1>4, <2>1, RequestsServeThemselves DEF IInv, Rows
  <2>2. CASE p = r /\ b = q /\ q \in stored /\ SameBody(q, r)
    BY <1>2, <1>3, <1>4, <2>2, RequestsServeThemselves DEF IInv, Rows, SameBody
  <2> QED
    BY <1>5, <1>8, <2>1, <2>2
<1>9. Rows'
  BY <1>3, <1>4, <1>8, RequestsServeThemselves DEF IInv, TypeOK, Rows
<1> QED
  BY <1>4, <1>6, <1>7, <1>9 DEF IInv

LEMMA InsertStep ==
  ASSUME IInv, NEW r \in Requests, Insert(r)
  PROVE  IInv'
<1> DEFINE k == KeyOf[r]
<1>0. k \in Keys
  BY RequestsHaveKeys
<1>1. phase[r] = "missed" /\ UNCHANGED << stockVars, body, stored, answer, lapsed >>
  BY DEF Insert, Goes
<1>2. CASE record[k] = {}
  <2>1. /\ phase' = [ phase EXCEPT ![r] = "claimed" ]
        /\ record' = [ record EXCEPT ![k] = {r} ]
    BY <1>2 DEF Insert, Goes
  <2>2. OwnWork' /\ StockTypeOK' /\ \A a \in Bookings : Made(a)' <=> Made(a)
    BY <1>1, <2>1, KeyWork DEF IInv, TypeOK
  <2>3. TypeOK'
    BY <1>0, <1>1, <2>1, <2>2 DEF IInv, TypeOK, Phases
  <2>4. \A q \in Requests : HasKey(q) => HasKey(q)'
    BY <1>0, <1>1, <1>2, <2>1, RequestsHaveKeys DEF IInv, TypeOK, HasKey
  <2>5. HasKey(r)'
    BY <1>0, <2>1 DEF IInv, TypeOK, HasKey
  <2>6. Progress'
    BY <1>1, <2>1, <2>2, <2>4, <2>5, RequestsServeThemselves DEF IInv, TypeOK, Progress
  <2>7. Rows'
    BY <1>0, <1>1, <2>1, <2>2, RequestsServeThemselves DEF IInv, TypeOK, Rows
  <2> QED
    BY <2>2, <2>3, <2>6, <2>7 DEF IInv
<1>3. CASE record[k] # {}
  <2>1. phase' = [ phase EXCEPT ![r] = "refused" ] /\ record' = record
    BY <1>3 DEF Insert, Goes
  <2>2. OwnWork' /\ StockTypeOK' /\ \A a \in Bookings : Made(a)' <=> Made(a)
    BY <1>1, <2>1, KeyWork DEF IInv, TypeOK
  <2>3. TypeOK'
    BY <1>1, <2>1, <2>2 DEF IInv, TypeOK, Phases
  <2>4. Progress'
    BY <1>1, <2>1, <2>2, RequestsServeThemselves DEF IInv, TypeOK, Progress, HasKey
  <2>5. Rows'
    BY <1>1, <2>1, <2>2, RequestsServeThemselves DEF IInv, TypeOK, Rows
  <2> QED
    BY <2>2, <2>3, <2>4, <2>5 DEF IInv
<1> QED
  BY <1>2, <1>3

LEMMA LapseStep ==
  ASSUME IInv, NEW k \in Keys, Lapse(k)
  PROVE  IInv'
<1>1. /\ record' = [ record EXCEPT ![k] = {} ]
      /\ stored' = stored \ record[k]
      /\ lapsed' = lapsed \cup {k}
      /\ UNCHANGED << stockVars, body, phase, answer >>
  BY DEF Lapse
<1>2. task' = task /\ UNCHANGED table
  BY <1>1 DEF stockVars, table
<1>3. \A a \in Bookings : Made(a)' <=> Made(a)
  BY <1>2, SameTableMakesNone
<1>4. StockTypeOK'
  BY <1>1 DEF stockVars, IInv, TypeOK, StockTypeOK
<1>5. TypeOK'
  BY <1>1, <1>4 DEF IInv, TypeOK
<1>6. \A v \in Staff : Serving(v)'
  <2>1. ASSUME NEW v \in Staff PROVE Serving(v)'
    <3>1. v \in Workers /\ Serving(v)
      BY DEF Staff, IInv, OwnWork
    <3>2. task[v] # Idle => task[v].booking \in Bookings
      BY <3>1, TaskParts DEF IInv, TypeOK
    <3> QED
      BY <1>2, <1>3, <3>1, <3>2 DEF Serving, Made
  <2> QED
    BY <2>1
<1>7. OwnWork'
  BY <1>1, <1>2, <1>6 DEF IInv, OwnWork
<1>8. \A q \in Requests : HasKey(q) => HasKey(q)'
  BY <1>1, RequestsHaveKeys DEF IInv, TypeOK, HasKey
<1>9. Progress'
  BY <1>1, <1>3, <1>8, RequestsServeThemselves DEF IInv, TypeOK, Progress
<1>10. Rows'
  BY <1>1, <1>3, RequestsServeThemselves DEF IInv, TypeOK, Rows
<1> QED
  BY <1>5, <1>7, <1>9, <1>10 DEF IInv

\* The transaction of a request begins, counts, or ends without a booking.
LEMMA WorkStep ==
  ASSUME IInv, StockTypeOK', NEW r \in Requests, phase[r] = "claimed",
         UNCHANGED << table, requestVars >>,
         \A v \in Workers \ {r} : task'[v] = task[v],
         task'[r].op = "create" /\ task'[r].booking = r
  PROVE  IInv'
<1>1. \A a \in Bookings : Made(a)' <=> Made(a)
  BY SameTableMakesNone
<1>2. OwnWork'
  BY <1>1, RequestWork DEF requestVars
<1> QED
  BY <1>1, <1>2, ElsewhereKeeps

LEMMA BeginStep ==
  ASSUME IInv, StockTypeOK', NEW r \in Requests, Begin(r)
  PROVE  IInv'
<1>1. phase[r] = "claimed" /\ UNCHANGED << table, requestVars >>
  BY DEF Begin, BeginCreate
<1>2. \E c : Start(r, "create", "begun", r, c)
  BY DEF Begin, BeginCreate
<1>3. /\ \A v \in Workers \ {r} : task'[v] = task[v]
      /\ task'[r].op = "create" /\ task'[r].booking = r
  BY <1>2, RequestsServeThemselves DEF Start, IInv, TypeOK, StockTypeOK
<1> QED
  BY <1>1, <1>3, WorkStep

LEMMA CountForStep ==
  ASSUME IInv, StockTypeOK', NEW r \in Requests, CountFor(r)
  PROVE  IInv'
<1>1. /\ task[r] # Idle /\ task' = [ task EXCEPT ![r].stage = "counted" ]
      /\ UNCHANGED << table, requestVars >>
  BY DEF CountFor, Count, In
<1>2. phase[r] = "claimed" /\ task[r].op = "create" /\ task[r].booking = r
  BY <1>1 DEF IInv, OwnWork
<1>3. /\ \A v \in Workers \ {r} : task'[v] = task[v]
      /\ task'[r].op = "create" /\ task'[r].booking = r
  BY <1>1, <1>2, RequestsServeThemselves DEF IInv, TypeOK, StockTypeOK, Tasks
<1> QED
  BY <1>1, <1>2, <1>3, WorkStep

LEMMA CommitStep ==
  ASSUME IInv, StockTypeOK', NEW r \in Requests, Commit(r)
  PROVE  IInv'
<1>1. /\ phase[r] = "claimed" /\ phase' = [ phase EXCEPT ![r] = "made" ]
      /\ UNCHANGED << body, record, stored, answer, lapsed >>
      /\ task[r] # Idle /\ Finish(r)
  BY DEF Commit, Goes, CommitCreate, In
<1>2. task[r].booking = r
  BY <1>1 DEF IInv, OwnWork
<1>3. status' = [ status EXCEPT ![r] = "PENDING" ]
  BY <1>2 DEF Commit, CommitCreate, Write
<1>4. /\ Made(r)' /\ \A a \in Bookings \ {r} : Made(a)' <=> Made(a)
  BY <1>3, RequestsServeThemselves DEF Made, IInv, TypeOK, StockTypeOK
<1>5. /\ \A v \in Workers \ {r} : task'[v] = task[v]
      /\ task'[r] = Idle
  BY <1>1, RequestsServeThemselves DEF Finish, IInv, TypeOK, StockTypeOK
<1>6. \A a \in Bookings : Made(a) => Made(a)'
  BY <1>4
<1>7. OwnWork'
  BY <1>1, <1>5, <1>6, RequestWork DEF IInv, TypeOK
<1>8. TypeOK'
  BY <1>1 DEF IInv, TypeOK, Phases
<1>9. HasKey(r) /\ \A q \in Requests : HasKey(q)' <=> HasKey(q)
  BY <1>1 DEF IInv, Progress, HasKey
<1>10. Progress'
  BY <1>1, <1>4, <1>9, RequestsServeThemselves DEF IInv, TypeOK, Progress
<1>11. Rows'
  BY <1>1, <1>6, RequestsServeThemselves DEF IInv, TypeOK, Rows
<1> QED
  BY <1>7, <1>8, <1>10, <1>11 DEF IInv

\* A transaction of r, if there is one, is over and has written nothing.
LEMMA GivenUp ==
  ASSUME IInv, NEW r \in Requests,
         IF task[r] = Idle THEN UNCHANGED stockVars ELSE Rollback(r)
  PROVE  /\ \A a \in Bookings : Made(a)' <=> Made(a)
         /\ \A v \in Workers \ {r} : task'[v] = task[v]
         /\ task'[r] = Idle
<1>1. UNCHANGED table
  BY DEF Rollback, stockVars, table
<1>2. \A a \in Bookings : Made(a)' <=> Made(a)
  BY <1>1, SameTableMakesNone
<1>3. CASE task[r] = Idle
  BY <1>2, <1>3 DEF stockVars
<1>4. CASE task[r] # Idle
  BY <1>2, <1>4, RequestsServeThemselves DEF Rollback, Finish, IInv, TypeOK, StockTypeOK
<1> QED
  BY <1>3, <1>4

LEMMA RefuseStep ==
  ASSUME IInv, StockTypeOK', NEW r \in Requests, Refuse(r)
  PROVE  IInv'
<1>1. /\ phase[r] = "claimed" /\ phase' = [ phase EXCEPT ![r] = "failing" ]
      /\ UNCHANGED << body, record, stored, answer, lapsed >>
  BY DEF Refuse, Goes
<1>2. /\ \A a \in Bookings : Made(a)' <=> Made(a)
      /\ \A v \in Workers \ {r} : task'[v] = task[v]
      /\ task'[r] = Idle
  BY GivenUp DEF Refuse
<1>3. OwnWork'
  BY <1>1, <1>2, RequestWork DEF IInv, TypeOK
<1>4. TypeOK'
  BY <1>1 DEF IInv, TypeOK, Phases
<1>5. Progress'
  BY <1>1, <1>2, RequestsServeThemselves DEF IInv, TypeOK, Progress, HasKey
<1>6. Rows'
  BY <1>1, <1>2, RequestsServeThemselves DEF IInv, TypeOK, Rows
<1> QED
  BY <1>3, <1>4, <1>5, <1>6 DEF IInv

LEMMA CrashStep ==
  ASSUME IInv, StockTypeOK', NEW r \in Requests, Crash(r)
  PROVE  IInv'
<1>1. /\ phase' = [ phase EXCEPT ![r] = "dead" ]
      /\ UNCHANGED << body, record, stored, answer, lapsed >>
  BY DEF Crash
<1>2. /\ \A a \in Bookings : Made(a)' <=> Made(a)
      /\ \A v \in Workers \ {r} : task'[v] = task[v]
      /\ task'[r] = Idle
  BY GivenUp DEF Crash
<1>3. OwnWork'
  BY <1>1, <1>2, RequestWork DEF IInv, TypeOK
<1>4. TypeOK'
  BY <1>1 DEF IInv, TypeOK, Phases
<1>5. Progress'
  BY <1>1, <1>2, RequestsServeThemselves DEF IInv, TypeOK, Progress, HasKey
<1>6. Rows'
  BY <1>1, <1>2, RequestsServeThemselves DEF IInv, TypeOK, Rows
<1> QED
  BY <1>3, <1>4, <1>5, <1>6 DEF IInv

LEMMA CompleteStep ==
  ASSUME IInv, NEW r \in Requests, Complete(r)
  PROVE  IInv'
<1>0. phase[r] = "made" /\ UNCHANGED << stockVars, body, record >>
  BY DEF Complete, Goes
<1>1. CASE /\ phase' = [ phase EXCEPT ![r] = "answered" ]
           /\ stored' = stored \cup {r}
           /\ answer' = [ answer EXCEPT ![r] = {r} ]
           /\ UNCHANGED lapsed
  <2>1. OwnWork' /\ StockTypeOK' /\ \A a \in Bookings : Made(a)' <=> Made(a)
    BY <1>0, <1>1, KeyWork DEF IInv, TypeOK
  <2>2. TypeOK'
    BY <1>0, <1>1, <2>1, RequestsServeThemselves DEF IInv, TypeOK, Phases
  <2>3. Progress'
    BY <1>0, <1>1, <2>1, RequestsServeThemselves DEF IInv, TypeOK, Progress, HasKey
  <2>4. Rows'
    BY <1>0, <1>1, <2>1, RequestsServeThemselves DEF IInv, TypeOK, Progress, Rows
  <2> QED
    BY <2>1, <2>2, <2>3, <2>4 DEF IInv
<1>2. CASE /\ phase' = [ phase EXCEPT ![r] = "failing" ]
           /\ lapsed' = lapsed \cup {KeyOf[r]}
           /\ UNCHANGED << stored, answer >>
  <2>1. OwnWork' /\ StockTypeOK' /\ \A a \in Bookings : Made(a)' <=> Made(a)
    BY <1>0, <1>2, KeyWork DEF IInv, TypeOK
  <2>2. TypeOK'
    BY <1>0, <1>2, <2>1, RequestsHaveKeys DEF IInv, TypeOK, Phases
  <2>3. Progress'
    BY <1>0, <1>2, <2>1, RequestsServeThemselves DEF IInv, TypeOK, Progress, HasKey
  <2>4. Rows'
    BY <1>0, <1>2, <2>1, RequestsServeThemselves DEF IInv, TypeOK, Rows
  <2> QED
    BY <2>1, <2>2, <2>3, <2>4 DEF IInv
<1> QED
  BY <1>1, <1>2 DEF Complete, Goes

LEMMA ReleaseStep ==
  ASSUME IInv, NEW r \in Requests, Release(r)
  PROVE  IInv'
<1> DEFINE k == KeyOf[r]
<1>1. /\ phase[r] = "failing" /\ phase' = [ phase EXCEPT ![r] = "refused" ]
      /\ UNCHANGED << stockVars, body, stored, answer, lapsed >>
      /\ record' = record \/ record' = [ record EXCEPT ![k] = record[k] \ {r} ]
  BY DEF Release, Goes
<1>2. OwnWork' /\ StockTypeOK' /\ \A a \in Bookings : Made(a)' <=> Made(a)
  BY <1>1, KeyWork DEF IInv, TypeOK
<1>3. TypeOK'
  BY <1>1, <1>2 DEF IInv, TypeOK, Phases
<1>4. /\ \A j \in Keys : record'[j] \subseteq record[j]
      /\ \A q \in Requests \ {r} : HasKey(q) => HasKey(q)'
  <2>1. \A j \in Keys :
          record'[j] \subseteq record[j] /\ record[j] \ {r} \subseteq record'[j]
    BY <1>1, RequestsHaveKeys DEF IInv, TypeOK
  <2> QED
    BY <1>1, <2>1, RequestsHaveKeys DEF HasKey
<1>5. Made(r) => HasKey(r)'
  BY <1>1 DEF IInv, Progress, HasKey
<1>6. Progress'
  BY <1>1, <1>2, <1>4, <1>5, RequestsServeThemselves DEF IInv, TypeOK, Progress
<1>7. Rows'
  BY <1>1, <1>2, <1>4, RequestsServeThemselves DEF IInv, TypeOK, Rows
<1> QED
  BY <1>2, <1>3, <1>6, <1>7 DEF IInv

-----------------------------------------------------------------------------
\* Every step of BookingRequest is one of CarStock, or leaves the stock alone.
LEMMA RequestIsStockStep == [Next]_vars => [StockNext]_stockVars
<1> SUFFICES ASSUME [Next]_vars PROVE [StockNext]_stockVars
  OBVIOUS
<1>0. Requests \subseteq Workers /\ Requests \subseteq Bookings /\ Staff \subseteq Workers
  BY RequestsServeThemselves DEF Staff
<1>1. CASE UNCHANGED vars
  BY <1>1 DEF vars
<1>2. ASSUME NEW r \in Requests,
             Miss(r) \/ Hit(r) \/ Insert(r) \/ Complete(r) \/ Release(r)
      PROVE  [StockNext]_stockVars
  BY <1>2 DEF Miss, Hit, Insert, Complete, Release
<1>3. ASSUME NEW r \in Requests, Begin(r) \/ CountFor(r) \/ Commit(r)
      PROVE  [StockNext]_stockVars
  BY <1>0, <1>3 DEF Begin, CountFor, Commit, StockNext, Serve
<1>4. ASSUME NEW r \in Requests, Refuse(r) \/ Crash(r)
      PROVE  [StockNext]_stockVars
  BY <1>0, <1>4 DEF Refuse, Crash, StockNext, Serve
<1>5. ASSUME NEW k \in Keys, Lapse(k) PROVE [StockNext]_stockVars
  BY <1>5 DEF Lapse
<1>6. CASE Elsewhere
  BY <1>0, <1>6 DEF Elsewhere, StockNext
<1> QED
  BY <1>1, <1>2, <1>3, <1>4, <1>5, <1>6 DEF Next

\* However requests are repeated, refused and cut off, what they do to the bookings,
\* the cars and the locks is what CarStock allows.
THEOREM RequestsFollowTheStock == Spec => StockSpec
<1>1. Init => StockInit
  BY DEF Init
<1> QED
  BY <1>1, RequestIsStockStep, PTL DEF Spec, StockSpec

LEMMA IInvStep == IInv /\ StockInv /\ [Next]_vars => IInv'
<1> SUFFICES ASSUME IInv, StockInv, [Next]_vars PROVE IInv'
  OBVIOUS
<1>1. StockTypeOK'
  BY RequestIsStockStep, StockStep DEF StockInv
<1>2. CASE UNCHANGED vars
  <2>1. UNCHANGED requestVars /\ task' = task /\ UNCHANGED table
    BY <1>2 DEF vars, stockVars, table
  <2>2. \A a \in Bookings : Made(a)' <=> Made(a)
    BY <2>1, SameTableMakesNone
  <2>3. ASSUME NEW v \in Staff PROVE Serving(v)'
    <3>1. Serving(v)
      BY DEF IInv, OwnWork
    <3> QED
      BY <2>1, <3>1 DEF Serving, Made, table
  <2>4. OwnWork'
    BY <2>1, <2>3 DEF IInv, OwnWork, requestVars
  <2> QED
    BY <1>1, <2>1, <2>2, <2>4, ElsewhereKeeps
<1>3. CASE \E r \in Requests :
             \/ Miss(r) \/ Hit(r) \/ Insert(r)
             \/ Begin(r) \/ CountFor(r) \/ Commit(r) \/ Refuse(r)
             \/ Complete(r) \/ Release(r) \/ Crash(r)
  BY <1>1, <1>3, MissStep, HitStep, InsertStep, BeginStep, CountForStep, CommitStep,
     RefuseStep, CompleteStep, ReleaseStep, CrashStep
<1>4. CASE \E k \in Keys : Lapse(k)
  BY <1>4, LapseStep
<1>5. CASE Elsewhere
  BY <1>1, <1>5, ElsewhereStep
<1> QED
  BY <1>2, <1>3, <1>4, <1>5 DEF Next

LEMMA Invariant == Spec => [](IInv /\ StockInv)
<1>1. Init => IInv /\ StockInv
  BY InitIInv, InitStock DEF Init
<1>2. IInv /\ StockInv /\ [Next]_vars => (IInv /\ StockInv)'
  BY IInvStep, RequestIsStockStep, StockStep
<1> QED
  BY <1>1, <1>2, PTL DEF Spec

\* However often a request is repeated, for any number of keys and of requests at
\* the same time, one key makes one booking unless its claim lapsed.
THEOREM KeysMakeOneBooking == Spec => []OneBookingPerKey
  BY Invariant, InvImpliesOne, PTL

\* And all that were answered under one key were told of that booking.
THEOREM AnswersUnderAKeyAgree == Spec => []AnswersAgree
  BY Invariant, InvImpliesAgree, PTL

\* Every reachable state of the requests, their keys and the stock they book from is
\* well typed, however requests overlap, fail or are repeated.
THEOREM RequestTypesHold == Spec => []TypeOK
<1>1. IInv /\ StockInv => TypeOK
  BY DEF IInv
<1> QED
  BY <1>1, Invariant, PTL
=============================================================================

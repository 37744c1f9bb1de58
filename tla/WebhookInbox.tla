---------------------------- MODULE WebhookInbox ----------------------------
(***************************************************************************)
(* The inbox of Stripe's events: the endpoint stores each event once, and  *)
(* passes of a worker, one at a time under an advisory lock, claim the     *)
(* stored events and apply them.                                           *)
(*                                                                         *)
(* A pass runs inside a transaction that only holds the lock.  When the    *)
(* transaction exceeds its ten minutes it is rolled back and the lock is   *)
(* free, while the pass goes on; `late' remembers the events such a pass   *)
(* had in hand.  Applying an event is one step here: what it does to a     *)
(* booking is the subject of BookingPayment and CardRefund.                *)
(***************************************************************************)
EXTENDS Naturals, FiniteSets

CONSTANTS Events,     \* Stripe's events, in the order in which they are received
          Poison,     \* events that applying always refuses
          Passes,     \* the processes that may run a pass
          BatchSize,  \* BATCH_SIZE
          NoPass

ASSUME EventsAreOrdered == Events \subseteq Nat
ASSUME PoisonAmongEvents == Poison \subseteq Events
ASSUME NoPassIsNone == NoPass \notin Passes

VARIABLES
  row,      \* row[e]: status, due (nextAttemptAt has passed), stale (lockedAt is old)
  lock,     \* the pass that holds the advisory lock, or NoPass
  active,   \* passes that run
  older,    \* older[p]: of them, those that ran already when p began
  listed,   \* listed[p]: events p has read and not come to yet
  hand,     \* hand[p]: the set of at most one event p is working on
  did,      \* did[p]: p has applied the event in its hand
  applied,  \* applied[e]: how often e was applied, 2 for more than once
  late      \* history: events that were in the hands of a pass without the lock

vars == << row, lock, active, older, listed, hand, did, applied, late >>

Rows == [ status : {"none", "PENDING", "PROCESSING", "PROCESSED", "FAILED"},
          due : BOOLEAN, stale : BOOLEAN ]

TypeOK ==
  /\ row \in [ Events -> Rows ]
  /\ lock \in Passes \cup {NoPass}
  /\ active \subseteq Passes
  /\ older \in [ Passes -> SUBSET Passes ]
  /\ listed \in [ Passes -> SUBSET Events ]
  /\ hand \in [ Passes -> SUBSET Events ]
  /\ did \in [ Passes -> BOOLEAN ]
  /\ applied \in [ Events -> 0 .. 2 ]
  /\ late \subseteq Events

Init ==
  /\ row = [ e \in Events |-> [ status |-> "none", due |-> FALSE, stale |-> FALSE ] ]
  /\ lock = NoPass
  /\ active = {}
  /\ older = [ p \in Passes |-> {} ]
  /\ listed = [ p \in Passes |-> {} ]
  /\ hand = [ p \in Passes |-> {} ]
  /\ did = [ p \in Passes |-> FALSE ]
  /\ applied = [ e \in Events |-> 0 ]
  /\ late = {}

-----------------------------------------------------------------------------
(* Stripe's delivery and the passing of time.                               *)

\* A slip: an event that comes again is stored again.
StoredAgain(e) == [ status |-> "PENDING", due |-> TRUE, stale |-> FALSE ]

\* The event's id is the key: a delivery of a stored event changes nothing.
Stored(e) == IF row[e].status = "none"
             THEN [ status |-> "PENDING", due |-> TRUE, stale |-> FALSE ]
             ELSE row[e]

\* Stripe delivers in its own order of events and may deliver again.
Receive(e) ==
  /\ \A d \in Events : d < e => row[d].status # "none"
  /\ row' = [ row EXCEPT ![e] = Stored(e) ]
  /\ UNCHANGED << lock, active, older, listed, hand, did, applied, late >>

Due(e) ==
  /\ row[e].status = "FAILED" /\ ~row[e].due
  /\ row' = [ row EXCEPT ![e].due = TRUE ]
  /\ UNCHANGED << lock, active, older, listed, hand, did, applied, late >>

Stale(e) ==
  /\ row[e].status = "PROCESSING" /\ ~row[e].stale
  /\ row' = [ row EXCEPT ![e].stale = TRUE ]
  /\ UNCHANGED << lock, active, older, listed, hand, did, applied, late >>

\* The transaction of the pass has lasted ten minutes: the lock is free, and
\* whatever the pass holds has been locked for longer than a lock counts.
LoseLock(p) ==
  /\ lock = p
  /\ lock' = NoPass
  /\ row' = [ e \in Events |-> IF e \in hand[p] THEN [ row[e] EXCEPT !.stale = TRUE ]
                               ELSE row[e] ]
  /\ late' = late \cup hand[p]
  /\ UNCHANGED << active, older, listed, hand, did, applied >>

-----------------------------------------------------------------------------
(* A pass.                                                                  *)

\* A slip: an event that a dead process had locked is never taken again.
Unlocked(e) == row[e].status \in {"PENDING", "FAILED"} /\ row[e].due

Claimable(e) ==
  \/ row[e].status \in {"PENDING", "FAILED"} /\ row[e].due
  \/ row[e].status = "PROCESSING" /\ row[e].stale

Oldest ==
  { e \in Events : Claimable(e)
      /\ Cardinality({ d \in Events : d < e /\ Claimable(d) }) < BatchSize }

\* A slip: a pass starts without asking for the lock.
UnlockedFor(p) == TRUE

FreeFor(p) == lock = NoPass

BeginPass(p) ==
  /\ p \notin active
  /\ FreeFor(p)
  /\ Oldest # {}
  /\ lock' = p
  /\ active' = active \cup {p}
  /\ older' = [ q \in Passes |-> IF q = p THEN active ELSE older[q] \ {p} ]
  /\ listed' = [ listed EXCEPT ![p] = Oldest ]
  /\ UNCHANGED << row, hand, did, applied, late >>

\* What became of an event makes it one that no pass can claim any more: a pass
\* compares with the moment it began.
Unlisted(e) == [ q \in Passes |-> listed[q] \ {e} ]

\* A claim is dated with the moment its pass began.  A younger pass that has listed
\* the event began after that pass had lost its lock, more than five minutes
\* later: for it the claim is stale already, and it can take the event over.
UnlistedBy(p, e) ==
  [ q \in Passes |-> IF p \in older[q] THEN listed[q] ELSE listed[q] \ {e} ]

\* The event that is next on the list of p.  An event that can no longer be
\* claimed is passed over by Unlisted.
IsNext(p, e) == e \in listed[p] /\ \A d \in listed[p] : e <= d

ClaimEvent(p) ==
  /\ p \in active /\ hand[p] = {}
  /\ \E e \in listed[p] :
       /\ IsNext(p, e)
       /\ row' = [ row EXCEPT ![e] = [ status |-> "PROCESSING", due |-> FALSE,
                                       stale |-> lock # p ] ]
       /\ listed' = UnlistedBy(p, e)
       /\ hand' = [ hand EXCEPT ![p] = {e} ]
       /\ late' = IF lock # p THEN late \cup {e} ELSE late
  /\ did' = [ did EXCEPT ![p] = FALSE ]
  /\ UNCHANGED << lock, active, older, applied >>

Apply(p) ==
  \E e \in hand[p] \ Poison :
    /\ ~did[p]
    /\ did' = [ did EXCEPT ![p] = TRUE ]
    /\ applied' = [ applied EXCEPT ![e] = IF @ < 2 THEN @ + 1 ELSE @ ]
    /\ UNCHANGED << row, lock, active, older, listed, hand, late >>

Put(p, e, status) ==
  /\ row' = [ row EXCEPT ![e] = [ status |-> status, due |-> FALSE, stale |-> FALSE ] ]
  /\ hand' = [ hand EXCEPT ![p] = {} ]
  /\ listed' = Unlisted(e)
  /\ did' = [ did EXCEPT ![p] = FALSE ]
  /\ UNCHANGED << lock, active, older, applied, late >>

\* A slip: an event that cannot be applied is marked as processed.
FinishAnyway(p) == \E e \in hand[p] : Put(p, e, "PROCESSED")

\* Both outcomes are written by the event's id alone.
Finish(p) == did[p] /\ \E e \in hand[p] : Put(p, e, "PROCESSED")

\* A slip: the failure is written with a status the column does not have.
Refuse(p) == \E e \in hand[p] : Put(p, e, "ERROR")

\* Applying throws, or the write after it does.
Fail(p) == \E e \in hand[p] : Put(p, e, "FAILED")

EndPass(p) ==
  /\ p \in active /\ hand[p] = {} /\ listed[p] = {}
  /\ active' = active \ {p}
  /\ lock' = IF lock = p THEN NoPass ELSE lock
  /\ UNCHANGED << row, older, listed, hand, did, applied, late >>

\* The process dies, or a claim or the write of a failure throws.
Crash(p) ==
  /\ p \in active
  /\ active' = active \ {p}
  /\ lock' = IF lock = p THEN NoPass ELSE lock
  /\ listed' = [ listed EXCEPT ![p] = {} ]
  /\ hand' = [ hand EXCEPT ![p] = {} ]
  /\ did' = [ did EXCEPT ![p] = FALSE ]
  /\ UNCHANGED << row, older, applied, late >>

Next ==
  \/ \E e \in Events : Receive(e) \/ Due(e) \/ Stale(e)
  \/ \E p \in Passes :
       \/ LoseLock(p) \/ BeginPass(p) \/ ClaimEvent(p) \/ Apply(p)
       \/ Finish(p) \/ Fail(p) \/ EndPass(p) \/ Crash(p)

Spec == Init /\ [][Next]_vars

Take(e) == \E p \in Passes : IsNext(p, e) /\ ClaimEvent(p)
Work(e) == \E p \in Passes : e \in hand[p] /\ Apply(p)
Close(e) == \E p \in Passes : e \in hand[p] /\ (Finish(p) \/ (e \in Poison /\ Fail(p)))

\* Time passes, the job is started every minute, and a pass that is left alone
\* goes on.  Processes may die and writes may fail as often as they like, but not
\* at the same point of the same event each time.
Fairness ==
  /\ \A e \in Events : WF_vars(Due(e)) /\ WF_vars(Stale(e))
  /\ WF_vars(\E p \in Passes : BeginPass(p))
  /\ \A p \in Passes :
       WF_vars(ClaimEvent(p) \/ Apply(p) \/ Finish(p) \/ Fail(p) \/ EndPass(p))
  /\ \A e \in Events : SF_vars(Take(e)) /\ SF_vars(Work(e)) /\ SF_vars(Close(e))

FairSpec == Spec /\ Fairness

-----------------------------------------------------------------------------
(* Properties.                                                              *)

\* An event that counts as processed has been applied, whoever wrote the row.
ProcessedWasApplied == \A e \in Events : row[e].status = "PROCESSED" => applied[e] > 0

\* Two passes have one event in hand only when one of them outlived its lock.
HeldByOne ==
  \A p, q \in Passes : p # q => hand[p] \cap hand[q] \subseteq late

\* A processed event is neither applied again nor reopened, however often Stripe
\* sends it, unless a pass outlived its lock while it had it.
ProcessedIsFinal ==
  [][ \A e \in Events \ late :
        row[e].status = "PROCESSED" =>
          row'[e].status = "PROCESSED" /\ applied'[e] = applied[e] ]_vars

\* Every event that can be applied is processed in the end, whatever crashes or
\* outlives its lock, and although events that always fail stay in the inbox.
EventsSettle ==
  \A e \in Events \ Poison : row[e].status # "none" ~> row[e].status = "PROCESSED"
=============================================================================

--------------------------- MODULE OperatorPayout ---------------------------
(***************************************************************************)
(* The hourly job that pays operators their share: it claims ledger        *)
(* entries that can be settled, one payout row each, and asks Stripe for a *)
(* transfer per pending payout under a key of the entry.                   *)
(*                                                                         *)
(* A job runs under an advisory lock that it loses after ten minutes while *)
(* it goes on, decides on what it read at the start, and may die or miss   *)
(* Stripe's answer.  Stripe remembers a key for a day.                     *)
(***************************************************************************)
EXTENDS Naturals, FiniteSets

CONSTANTS Entries,   \* the ledger entries of a booking, in order of creation
          Deposits,  \* those for a down payment
          Unpayable, \* those that leave the operator nothing, or have no account to go to
          Jobs,      \* the processes that may run the job
          NoJob

ASSUME EntriesAreOrdered == Entries \subseteq Nat
ASSUME DepositsAmongEntries == Deposits \subseteq Entries
ASSUME UnpayableAmongEntries == Unpayable \subseteq Entries
ASSUME NoJobIsNone == NoJob \notin Jobs

VARIABLES
  state,      \* state[e]: "open", "settleable", or "void" once the money went back
  payout,     \* payout[e]: the status of the payout row of e, or "none"
  money,      \* money[e]: the transfers Stripe made for e, 2 for more than one
  keyed,      \* entries whose key Stripe remembers, with the transfer made for it
  lock,       \* the job that holds the advisory lock, or NoJob
  stage,      \* stage[j]: "idle", "claiming" entries or "paying" payouts
  listed,     \* listed[j]: what j has read and not come to yet
  paid,       \* paid[j]: the set of at most one entry whose transfer j was told of
  forgotten,  \* history: entries whose key Stripe forgot
  doubtful    \* history: entries whose transfer was not recorded by who made it, or
              \* that a job without the lock transferred, cancelled or recorded

vars == << state, payout, money, keyed, lock, stage, listed, paid, forgotten, doubtful >>

\* An entry as it was read, and whether it could be settled then.
Copies == [ entry : Entries, ok : BOOLEAN ]

TypeOK ==
  /\ state \in [ Entries -> {"open", "settleable", "void"} ]
  /\ payout \in [ Entries -> {"none", "PENDING", "TRANSFERRED", "CANCELLED"} ]
  /\ money \in [ Entries -> 0 .. 2 ]
  /\ keyed \subseteq Entries
  /\ lock \in Jobs \cup {NoJob}
  /\ stage \in [ Jobs -> {"idle", "claiming", "paying"} ]
  /\ listed \in [ Jobs -> SUBSET Copies ]
  /\ paid \in [ Jobs -> SUBSET Entries ]
  /\ forgotten \subseteq Entries
  /\ doubtful \subseteq Entries

Init ==
  /\ state = [ e \in Entries |-> "open" ]
  /\ payout = [ e \in Entries |-> "none" ]
  /\ money = [ e \in Entries |-> 0 ]
  /\ keyed = {}
  /\ lock = NoJob
  /\ stage = [ j \in Jobs |-> "idle" ]
  /\ listed = [ j \in Jobs |-> {} ]
  /\ paid = [ j \in Jobs |-> {} ]
  /\ forgotten = {} /\ doubtful = {}

-----------------------------------------------------------------------------
(* What happens outside the job.                                            *)

\* The booking of the entries is resolved, the appeal window is over, and the
\* operator has an account; isSettleableLedgerEntry holds from now on.
Resolve ==
  /\ \E e \in Entries : state[e] = "open"
  /\ state' = [ e \in Entries |-> IF state[e] = "open" THEN "settleable" ELSE state[e] ]
  /\ UNCHANGED << payout, money, keyed, lock, stage, listed, paid, forgotten, doubtful >>

\* Stripe returns the whole charge: the payment counts as FAILED, which is asked
\* for every entry but one for a deposit.
ReturnCharge(e) ==
  /\ e \notin Deposits
  /\ state[e] # "void"
  /\ state' = [ state EXCEPT ![e] = "void" ]
  /\ UNCHANGED << payout, money, keyed, lock, stage, listed, paid, forgotten, doubtful >>

\* A day after the call.  Only a payout that is still pending calls again.
ForgetKey(e) ==
  /\ e \in keyed /\ payout[e] = "PENDING"
  /\ keyed' = keyed \ {e}
  /\ forgotten' = forgotten \cup {e}
  /\ UNCHANGED << state, payout, money, lock, stage, listed, paid, doubtful >>

\* The job has lasted ten minutes and goes on without the lock.
LoseLock(j) ==
  /\ lock = j
  /\ lock' = NoJob
  /\ doubtful' = doubtful \cup paid[j]
  /\ UNCHANGED << state, payout, money, keyed, stage, listed, paid, forgotten >>

-----------------------------------------------------------------------------
(* The job.                                                                 *)

\* The entry or payout that is next on the list of j.
IsNext(j, c) == c \in listed[j] /\ \A d \in listed[j] : c.entry <= d.entry

Payable(e) == payout[e] = "none" /\ state[e] = "settleable"

ReadEntry(e) == [ entry |-> e, ok |-> TRUE ]

BeginJob(j) ==
  /\ stage[j] = "idle" /\ lock = NoJob
  /\ lock' = j
  /\ stage' = [ stage EXCEPT ![j] = "claiming" ]
  /\ LET payable == { e \in Entries : Payable(e) } IN
       listed' = [ listed EXCEPT ![j] = { ReadEntry(e) : e \in payable } ]
  /\ UNCHANGED << state, payout, money, keyed, paid, forgotten, doubtful >>

\* createPendingPayout: an entry without an amount or an account is passed over,
\* each time again; else the row, whose key is unique, and the claim of the entry
\* commit together.  The claim asks for either part of the payment to be paid, so
\* an entry whose money went back may be claimed or not.
ClaimEntry(j) ==
  /\ stage[j] = "claiming"
  /\ \E c \in listed[j] :
       /\ IsNext(j, c)
       /\ IF c.entry \in Unpayable \/ payout[c.entry] # "none" THEN UNCHANGED payout
          ELSE \/ payout' = [ payout EXCEPT ![c.entry] = "PENDING" ]
               \/ state[c.entry] = "void" /\ UNCHANGED payout
       /\ listed' = [ listed EXCEPT ![j] = @ \ {c} ]
  /\ UNCHANGED << state, money, keyed, lock, stage, paid, forgotten, doubtful >>

ReadPayout(e) == [ entry |-> e, ok |-> state[e] = "settleable" ]

\* All pending payouts are read at once, with what decides on them.
ListPayouts(j) ==
  /\ stage[j] = "claiming" /\ listed[j] = {}
  /\ stage' = [ stage EXCEPT ![j] = "paying" ]
  /\ LET pending == { e \in Entries : payout[e] = "PENDING" } IN
       listed' = [ listed EXCEPT ![j] = { ReadPayout(e) : e \in pending } ]
  /\ UNCHANGED << state, payout, money, keyed, lock, paid, forgotten, doubtful >>

Turn(j, e, ok) ==
  /\ stage[j] = "paying" /\ paid[j] = {}
  /\ IsNext(j, [ entry |-> e, ok |-> ok ])

\* History: what j does to e without the lock may cross with the job that has it.
Handles(j, e) == doubtful' = IF lock = j THEN doubtful ELSE doubtful \cup {e}

Without(j, e) == [ listed EXCEPT ![j] = { c \in @ : c.entry # e } ]

\* What became of a payout is written by its id, whatever its status is.
CancelPayout(j, e) ==
  /\ Turn(j, e, FALSE)
  /\ payout' = [ payout EXCEPT ![e] = "CANCELLED" ]
  /\ listed' = Without(j, e)
  /\ Handles(j, e)
  /\ UNCHANGED << state, money, keyed, lock, stage, paid, forgotten >>

\* A slip: each call makes a transfer.
UnkeyedTransfer(e) ==
  /\ money' = [ money EXCEPT ![e] = IF @ < 2 THEN @ + 1 ELSE @ ]
  /\ keyed' = keyed \cup {e}

\* Stripe makes one transfer per key it remembers, and answers with it again.
KeyedTransfer(e) ==
  /\ keyed' = keyed \cup {e}
  /\ money' = IF e \in keyed THEN money
              ELSE [ money EXCEPT ![e] = IF @ < 2 THEN @ + 1 ELSE @ ]

Transfer(j, e) ==
  /\ Turn(j, e, TRUE)
  /\ KeyedTransfer(e)
  /\ listed' = Without(j, e)
  /\ paid' = [ paid EXCEPT ![j] = {e} ]
  /\ Handles(j, e)
  /\ UNCHANGED << state, payout, lock, stage, forgotten >>

Record(j, e) ==
  /\ e \in paid[j]
  /\ payout' = [ payout EXCEPT ![e] = "TRANSFERRED" ]
  /\ paid' = [ paid EXCEPT ![j] = {} ]
  /\ UNCHANGED << state, money, keyed, lock, stage, listed, forgotten, doubtful >>

\* A slip: the payout gets a status that the column does not have.
TransferFailed(j, e) ==
  /\ Turn(j, e, TRUE)
  /\ payout' = [ payout EXCEPT ![e] = "FAILED" ]
  /\ listed' = Without(j, e)
  /\ UNCHANGED << state, money, keyed, lock, stage, paid, forgotten, doubtful >>

\* Stripe refuses the transfer: the error is noted and the payout stays pending.
TransferFails(j, e) ==
  /\ Turn(j, e, TRUE)
  /\ listed' = Without(j, e)
  /\ UNCHANGED << state, payout, money, keyed, lock, stage, paid, forgotten, doubtful >>

\* A slip: an answer that is lost is taken for a refusal, for good.
TakeForRefused(j, e) ==
  /\ e \in paid[j]
  /\ payout' = [ payout EXCEPT ![e] = "CANCELLED" ]
  /\ paid' = [ paid EXCEPT ![j] = {} ]
  /\ UNCHANGED << state, money, keyed, lock, stage, listed, forgotten, doubtful >>

\* The transfer is made, but the answer is lost or recording it fails.
LoseAnswer(j, e) ==
  /\ e \in paid[j]
  /\ paid' = [ paid EXCEPT ![j] = {} ]
  /\ doubtful' = doubtful \cup {e}
  /\ UNCHANGED << state, payout, money, keyed, lock, stage, listed, forgotten >>

\* A slip: the lock is a row that the job leaves behind.
StopLocked(j) ==
  /\ stage' = [ stage EXCEPT ![j] = "idle" ]
  /\ listed' = [ listed EXCEPT ![j] = {} ]
  /\ paid' = [ paid EXCEPT ![j] = {} ]
  /\ UNCHANGED << state, payout, money, keyed, lock, forgotten >>

Stop(j) ==
  /\ stage' = [ stage EXCEPT ![j] = "idle" ]
  /\ listed' = [ listed EXCEPT ![j] = {} ]
  /\ paid' = [ paid EXCEPT ![j] = {} ]
  /\ lock' = IF lock = j THEN NoJob ELSE lock
  /\ UNCHANGED << state, payout, money, keyed, forgotten >>

EndJob(j) ==
  /\ stage[j] = "paying" /\ listed[j] = {} /\ paid[j] = {}
  /\ Stop(j)
  /\ UNCHANGED doubtful

\* The process dies, or a statement outside a payout's own handler fails.
Crash(j) ==
  /\ stage[j] # "idle"
  /\ Stop(j)
  /\ doubtful' = doubtful \cup paid[j]

-----------------------------------------------------------------------------
Pay(j, e) ==
  \/ CancelPayout(j, e) \/ Transfer(j, e) \/ Record(j, e)
  \/ TransferFails(j, e) \/ LoseAnswer(j, e)

Next ==
  \/ Resolve
  \/ \E e \in Entries : ReturnCharge(e) \/ ForgetKey(e)
  \/ \E j \in Jobs :
       \/ LoseLock(j)
       \/ BeginJob(j) \/ ClaimEntry(j) \/ ListPayouts(j)
       \/ \E e \in Entries : Pay(j, e)
       \/ EndJob(j) \/ Crash(j)

Spec == Init /\ [][Next]_vars

\* What brings e forward: it is claimed, then read as a pending payout, then
\* transferred or cancelled, then recorded.
Listing(e) ==
  \/ \E j \in Jobs : (\E c \in listed[j] : c.entry = e /\ IsNext(j, c)) /\ ClaimEntry(j)
  \/ \E j \in Jobs : payout[e] = "PENDING" /\ ListPayouts(j)
Deciding == \E j \in Jobs, e \in Entries : Transfer(j, e) \/ CancelPayout(j, e)
Recording == \E j \in Jobs, e \in Entries : Record(j, e)

\* The job starts every hour and goes on when nothing stops it.  Transfers may
\* fail and processes die as often as they like, but not each time at the claim
\* of the same entry, and not at every transfer or at every record of one.
Fairness ==
  /\ WF_vars(\E j \in Jobs : BeginJob(j))
  /\ \A j \in Jobs : WF_vars(ClaimEntry(j) \/ ListPayouts(j) \/ EndJob(j)
                               \/ \E e \in Entries : Pay(j, e))
  /\ \A e \in Entries : SF_vars(Listing(e))
  /\ SF_vars(Deciding) /\ SF_vars(Recording)

FairSpec == Spec /\ Fairness

-----------------------------------------------------------------------------
(* Properties.                                                              *)

\* An operator is paid once for an entry, although calls are repeated, jobs
\* overlap and answers are lost, as long as Stripe remembers the key.
PaidOnce == \A e \in Entries \ forgotten : money[e] <= 1

\* The payout row agrees with Stripe: TRANSFERRED says that money moved, and
\* CANCELLED that none did, with two exceptions.  The transfer was made and who
\* made it did not record it; or a job that had lost its lock transferred or
\* cancelled the entry, or recorded its transfer: then what two jobs decided on
\* different readings is written by id, one over the other.
RowAgreesWithStripe ==
  \A e \in Entries :
    /\ payout[e] = "TRANSFERRED" => money[e] > 0
    /\ payout[e] = "CANCELLED" /\ e \notin doubtful => money[e] = 0

\* Every entry with something to pay that can be settled is transferred in the
\* end, or its payout is cancelled, or the charge went back first.
EntriesSettle ==
  \A e \in Entries \ Unpayable :
    state[e] = "settleable" ~>
      (payout[e] \in {"TRANSFERRED", "CANCELLED"} \/ state[e] = "void")
=============================================================================

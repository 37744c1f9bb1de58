------------------------------ MODULE JobQueue ------------------------------
(***************************************************************************)
(* The database-backed job queue: rows that are claimed in batches under a *)
(* lease, run by handlers that must be safe to repeat, and completed,      *)
(* rescheduled or given up.  Several server processes drain the queue, any *)
(* of them may die at any moment, and a slow one may outlive its lease.    *)
(*                                                                         *)
(* The clock is abstract: Due and Expire are the moments at which a row's  *)
(* retry time and its lease pass.                                          *)
(***************************************************************************)
EXTENDS Naturals, FiniteSets

CONSTANTS Jobs,          \* the rows that may be enqueued, in order of creation
          Kind,          \* Kind[j]: "event", "mail" or "unknown"
          Recipients,    \* Recipients[j]: whom a job of kind "mail" writes to
          Workers,       \* the server processes
          MaxAttempts,   \* MAX_ATTEMPTS
          BatchSize      \* BATCH_SIZE

ASSUME JobsAreOrdered == Jobs \subseteq Nat
ASSUME JobKinds == Kind \in [ Jobs -> {"event", "mail", "unknown"} ]
ASSUME Limits == MaxAttempts \in Nat \ {0} /\ BatchSize \in Nat \ {0}

VARIABLES
  row,       \* row[j]: status, retryCount, due (nextRetryAt has passed), leased
  batch,     \* batch[w]: the claimed rows w has still to run, as they were claimed
  task,      \* task[w]: the job w is running and how far its handler is, or Idle
  recorded,  \* event jobs whose row is in analytics_events
  logged,    \* mail jobs with a row in the e-mail log, which marks them as sent
  settled,   \* mail jobs whose handler found nothing to say, or nobody to say it to
  mailed,    \* mailed[j][r]: how often r was written to
  runs,      \* history: how often the handler of j was started
  overrun    \* history: jobs whose lease ran out in the hands of a live worker

vars == << row, batch, task, recorded, logged, settled, mailed, runs, overrun >>
effects == << recorded, logged, settled, mailed >>

Statuses == {"none", "PENDING", "PROCESSING", "COMPLETED", "FAILED"}
Rows == [ status : Statuses, retryCount : 0 .. MaxAttempts,
          due : BOOLEAN, leased : BOOLEAN ]

Idle == [ step |-> "idle" ]
People == UNION { Recipients[j] : j \in Jobs }

\* A worker's copies of the rows it claimed: they are not read again.
Copies == [ id : Jobs, retryCount : 0 .. MaxAttempts ]

\* Counts that are large enough to make no more difference stay as they are:
\* a row with MaxAttempts is only given up, and a third mail is no news.
Bump(n) == IF n < MaxAttempts THEN n + 1 ELSE n
Again(n) == IF n < 2 THEN n + 1 ELSE n

Tasks ==
  {Idle} \cup
  [ step : {"start", "write", "sent", "done"}, job : Copies,
    todo : SUBSET People, to : SUBSET People ]

TypeOK ==
  /\ row \in [ Jobs -> Rows ]
  /\ batch \in [ Workers -> SUBSET Copies ]
  /\ task \in [ Workers -> Tasks ]
  /\ recorded \subseteq Jobs
  /\ logged \subseteq Jobs
  /\ settled \subseteq Jobs
  /\ mailed \in [ Jobs -> [ People -> 0 .. 2 ] ]
  /\ runs \in [ Jobs -> 0 .. MaxAttempts + 1 ]
  /\ overrun \subseteq Jobs

Init ==
  /\ row = [ j \in Jobs |-> [ status |-> "none", retryCount |-> 0,
                              due |-> FALSE, leased |-> FALSE ] ]
  /\ batch = [ w \in Workers |-> {} ]
  /\ task = [ w \in Workers |-> Idle ]
  /\ recorded = {} /\ logged = {} /\ settled = {}
  /\ mailed = [ j \in Jobs |-> [ p \in People |-> 0 ] ]
  /\ runs = [ j \in Jobs |-> 0 ]
  /\ overrun = {}

-----------------------------------------------------------------------------
(* The request that enqueues, and the passing of time.                      *)

Enqueue(j) ==
  /\ row[j].status = "none"
  /\ \A i \in Jobs : i < j => row[i].status # "none"
  /\ row' = [ row EXCEPT ![j].status = "PENDING", ![j].due = TRUE ]
  /\ UNCHANGED << batch, task, effects, runs, overrun >>

Due(j) ==
  /\ row[j].status = "PENDING" /\ ~row[j].due
  /\ row' = [ row EXCEPT ![j].due = TRUE ]
  /\ UNCHANGED << batch, task, effects, runs, overrun >>

\* The jobs that are in the hands of a living worker.
Held(w) ==
  { c.id : c \in batch[w] } \cup
  (IF task[w] = Idle THEN {} ELSE {task[w].job.id})

Expire(j) ==
  /\ row[j].status = "PROCESSING" /\ row[j].leased
  /\ row' = [ row EXCEPT ![j].leased = FALSE ]
  /\ IF \E w \in Workers : j \in Held(w)
     THEN /\ overrun' = overrun \cup {j}
          /\ runs' = [ runs EXCEPT ![j] = 0 ]
          /\ mailed' = [ mailed EXCEPT ![j] = [ p \in People |-> 0 ] ]
     ELSE UNCHANGED << overrun, runs, mailed >>
  /\ UNCHANGED << batch, task, recorded, logged, settled >>

-----------------------------------------------------------------------------
(* A pass of a worker: claim, run one job after the other.                  *)

\* A slip: a row is taken while its lease still runs.
ClaimableAnyTime(j) ==
  \/ row[j].status = "PENDING" /\ row[j].due
  \/ row[j].status = "PROCESSING"

\* A slip: a row whose worker died is not taken over.
ClaimablePending(j) == row[j].status = "PENDING" /\ row[j].due

Claimable(j) ==
  \/ row[j].status = "PENDING" /\ row[j].due
  \/ row[j].status = "PROCESSING" /\ ~row[j].leased

\* The oldest rows that can be had, as many as a batch holds.
Oldest ==
  { j \in Jobs : Claimable(j)
      /\ Cardinality({ i \in Jobs : i < j /\ Claimable(i) }) < BatchSize }

\* A slip: taking a row over does not count as an attempt.
UncountedTakeOver(j) ==
  [ status |-> "PROCESSING", retryCount |-> row[j].retryCount, due |-> TRUE, leased |-> TRUE ]

Claimed(j) ==
  [ status |-> "PROCESSING",
    retryCount |-> IF row[j].status = "PROCESSING" THEN Bump(row[j].retryCount)
                   ELSE row[j].retryCount,
    due |-> TRUE, leased |-> TRUE ]

Claim(w) ==
  /\ batch[w] = {} /\ task[w] = Idle
  /\ Oldest # {}
  /\ row' = [ j \in Jobs |-> IF j \in Oldest THEN Claimed(j) ELSE row[j] ]
  /\ batch' = [ batch EXCEPT ![w] =
                  { [ id |-> j, retryCount |-> row'[j].retryCount ] : j \in Oldest } ]
  /\ UNCHANGED << task, effects, runs, overrun >>

\* Every write of a worker asks that the row is PROCESSING, not that the worker
\* still owns it.
Written(j, status, count) ==
  IF row[j].status = "PROCESSING"
  THEN [ row EXCEPT ![j] = [ status |-> status, retryCount |-> count,
                             due |-> FALSE, leased |-> FALSE ] ]
  ELSE row

\* A job that has used up its attempts, or that has no handler.
Hopeless(c) == c.retryCount >= MaxAttempts \/ Kind[c.id] = "unknown"

GiveUp(w, c) ==
  /\ task[w] = Idle /\ c \in batch[w]
  /\ Hopeless(c)
  /\ batch' = [ batch EXCEPT ![w] = @ \ {c} ]
  /\ row' = Written(c.id, "FAILED", c.retryCount)
  /\ UNCHANGED << task, effects, runs, overrun >>

Start(w, c) ==
  /\ task[w] = Idle /\ c \in batch[w]
  /\ ~Hopeless(c)
  /\ batch' = [ batch EXCEPT ![w] = @ \ {c} ]
  /\ task' = [ task EXCEPT ![w] = [ step |-> "start", job |-> c, todo |-> {}, to |-> {} ] ]
  /\ runs' = [ runs EXCEPT ![c.id] =
                IF c.id \in overrun \/ @ > MaxAttempts THEN @ ELSE @ + 1 ]
  /\ UNCHANGED << row, effects, overrun >>

\* What w is running, when it is at this step of a job of this kind.
Running(w, kind, step) ==
  /\ task[w] # Idle
  /\ task[w].step = step
  /\ Kind[task[w].job.id] = kind

\* The next step of what w is running, and whom it has still to write to.
GoesOn(w, step, todo, to) ==
  task' = [ task EXCEPT ![w] = [ step |-> step, job |-> @.job, todo |-> todo, to |-> to ] ]

\* A slip: the worker goes on before the row of the event is written.
ForgetEvent(w) ==
  /\ Running(w, "event", "start")
  /\ GoesOn(w, "done", {}, {})
  /\ UNCHANGED << row, batch, effects, runs, overrun >>

RecordEvent(w) ==
  /\ Running(w, "event", "start")
  /\ recorded' = recorded \cup {task[w].job.id}
  /\ GoesOn(w, "done", {}, {})
  /\ UNCHANGED << row, batch, logged, settled, mailed, runs, overrun >>

\* A slip: the e-mail log is not asked.
NeverSent(j) == FALSE

AlreadySent(j) == j \in logged

\* Has the mail been sent before, has its ticket been resolved, or is there nobody
\* to write to?  A resolved ticket stays resolved.
LookUp(w) ==
  /\ Running(w, "mail", "start")
  /\ \E moot \in BOOLEAN :
       LET j == task[w].job.id
       IN /\ j \in settled \/ Recipients[j] = {} => moot
          /\ settled' = IF moot THEN settled \cup {j} ELSE settled
          /\ IF AlreadySent(j) \/ moot THEN GoesOn(w, "done", {}, {})
             ELSE GoesOn(w, "write", Recipients[j], {})
  /\ UNCHANGED << row, batch, recorded, logged, mailed, runs, overrun >>

\* The log's row is written before the mail is handed to the provider.
WriteLog(w, r) ==
  /\ Running(w, "mail", "write")
  /\ r \in task[w].todo
  /\ logged' = logged \cup {task[w].job.id}
  /\ GoesOn(w, "sent", task[w].todo \ {r}, {r})
  /\ UNCHANGED << row, batch, recorded, settled, mailed, runs, overrun >>

\* The provider takes the mail or refuses it; sendEmail reports neither as an
\* error, so the handler goes on.
Deliver(w) ==
  /\ Running(w, "mail", "sent")
  /\ LET j == task[w].job.id IN
       \/ UNCHANGED mailed
       \/ /\ j \notin overrun
          /\ mailed' = [ mailed EXCEPT ![j] =
               [ r \in People |-> IF r \in task[w].to THEN Again(@[r]) ELSE @[r] ] ]
  /\ GoesOn(w, IF task[w].todo = {} THEN "done" ELSE "write", task[w].todo, {})
  /\ UNCHANGED << row, batch, recorded, logged, settled, runs, overrun >>

Complete(w) ==
  /\ task[w] # Idle /\ task[w].step = "done"
  /\ row' = Written(task[w].job.id, "COMPLETED", row[task[w].job.id].retryCount)
  /\ task' = [ task EXCEPT ![w] = Idle ]
  /\ UNCHANGED << batch, effects, runs, overrun >>

\* A slip: a failure is written with a status the column does not have.
RescheduledAsRetry(j, failures) == Written(j, "RETRYING", failures)

Rescheduled(j, failures) ==
  IF failures >= MaxAttempts THEN Written(j, "FAILED", MaxAttempts)
  ELSE Written(j, "PENDING", failures)

\* The handler, or the write that completes the job, throws.
Fail(w) ==
  /\ task[w] # Idle
  /\ row' = Rescheduled(task[w].job.id, task[w].job.retryCount + 1)
  /\ task' = [ task EXCEPT ![w] = Idle ]
  /\ UNCHANGED << batch, effects, runs, overrun >>

\* The process dies, or the write of a result throws and the batch is dropped.
Crash(w) ==
  /\ task[w] # Idle \/ batch[w] # {}
  /\ task' = [ task EXCEPT ![w] = Idle ]
  /\ batch' = [ batch EXCEPT ![w] = {} ]
  /\ UNCHANGED << row, effects, runs, overrun >>

-----------------------------------------------------------------------------
GiveUpJob(w, j) == \E c \in batch[w] : c.id = j /\ GiveUp(w, c)
StartJob(w, j) == \E c \in batch[w] : c.id = j /\ Start(w, c)

Handle(w) ==
  \/ RecordEvent(w)
  \/ LookUp(w)
  \/ \E r \in People : WriteLog(w, r)
  \/ Deliver(w)
  \/ Complete(w)
  \/ Fail(w)

Next ==
  \/ \E j \in Jobs : Enqueue(j) \/ Due(j) \/ Expire(j)
  \/ \E w \in Workers :
       \/ Claim(w)
       \/ \E j \in Jobs : GiveUpJob(w, j) \/ StartJob(w, j)
       \/ Handle(w)
       \/ Crash(w)

Spec == Init /\ [][Next]_vars

\* Time passes, the worker polls, and a handler that is not interrupted comes
\* to an end.  Processes may die as often as they like, but not each time
\* before they write that a hopeless job has failed.
Fairness ==
  /\ \A j \in Jobs : /\ WF_vars(Due(j))
                     /\ WF_vars(Expire(j))
                     /\ SF_vars(\E w \in Workers : GiveUpJob(w, j))
  /\ WF_vars(\E w \in Workers : Claim(w))
  /\ \A w \in Workers : WF_vars(Handle(w) \/ \E j \in Jobs : StartJob(w, j))

FairSpec == Spec /\ Fairness

-----------------------------------------------------------------------------
(* Properties.                                                              *)

Ended(j) == row[j].status \in {"COMPLETED", "FAILED"}

\* The effect of a job: its event is recorded, its mail is logged or moot.
Effective == recorded \cup logged \cup settled

\* What became of a job, for the code that enqueued it.
Stage(j) == CASE row[j].status = "none" -> "none"
              [] row[j].status = "COMPLETED" -> "done"
              [] row[j].status = "FAILED" -> "given_up"
              [] OTHER -> "owed"

\* The queue implements the promise of JobPromise, with processes that die and
\* leases that run out in live hands: whoever completes a row has seen its
\* effect, and no late write takes a finished job back.
Promise == INSTANCE JobPromise WITH
  state <- [ j \in Jobs |-> Stage(j) ],
  applied <- Effective

KeepsPromise == Promise!Spec

\* Two workers have one job at the same time only if its lease ran out.
HeldByOne ==
  \A v, w \in Workers : v # w => Held(v) \cap Held(w) \subseteq overrun

\* Crashes and failures together start a handler no more than MaxAttempts times,
\* unless the job's lease ran out in the hands of a live worker.
RunsAreLimited == \A j \in Jobs \ overrun : runs[j] <= MaxAttempts

\* Nobody gets one mail twice, whatever crashes and however often it is retried,
\* unless the job's lease ran out in the hands of a live worker.
MailedOnce == \A j \in Jobs \ overrun : \A p \in People : mailed[j][p] <= 1

\* A job does not stay in the queue: it ends even if each of its runs kills the
\* process that runs it.  Jobs whose lease ran out in the hands of a live worker are
\* excepted: a late write of the older run may set their attempts back.
JobsEnd == \A j \in Jobs : row[j].status # "none" ~> (Ended(j) \/ j \in overrun)
=============================================================================

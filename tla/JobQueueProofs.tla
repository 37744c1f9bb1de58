--------------------------- MODULE JobQueueProofs ---------------------------
(***************************************************************************)
(* Theorems about JobQueue, for any jobs, workers, recipients and limits:  *)
(* a job is run by one worker at a time, no more often than it may, mails  *)
(* go out once, and the queue implements the promise of JobPromise.        *)
(***************************************************************************)
EXTENDS JobQueue, TLAPS

\* A worker has a job once: as one copy in its batch, or as its task.
Once ==
  \A w \in Workers :
    /\ \A c, d \in batch[w] : c.id = d.id => c = d
    /\ task[w] # Idle => \A c \in batch[w] : c.id # task[w].job.id

\* The jobs in the hands of a living worker are leased to it, and its copies of
\* their rows are true.  Of jobs whose lease ran out in live hands only that
\* they were enqueued is certain.
Leased ==
  /\ \A w \in Workers : \A c \in batch[w] :
       /\ row[c.id].status # "none"
       /\ c.id \notin overrun =>
            /\ row[c.id].status = "PROCESSING" /\ row[c.id].leased
            /\ row[c.id].retryCount = c.retryCount
  /\ \A w \in Workers : task[w] # Idle =>
       /\ row[task[w].job.id].status # "none"
       /\ task[w].job.id \notin overrun =>
            /\ row[task[w].job.id].status = "PROCESSING" /\ row[task[w].job.id].leased
            /\ row[task[w].job.id].retryCount = task[w].job.retryCount

\* Each run is paid for with an attempt, when it ends or when it is taken over.
RunsArePaid ==
  \A j \in Jobs \ overrun :
    /\ runs[j] <= MaxAttempts
    /\ row[j].status = "none" => runs[j] = 0
    /\ row[j].status = "PENDING" => runs[j] <= row[j].retryCount
    /\ row[j].status = "PROCESSING" => runs[j] <= row[j].retryCount + 1
    /\ \A w \in Workers : \A c \in batch[w] : c.id = j => runs[j] <= c.retryCount

\* A mail that went out is in the log.
MailsAreLogged ==
  \A j \in Jobs \ overrun : \A p \in People :
    mailed[j][p] <= 1 /\ (mailed[j][p] # 0 => j \in logged)

\* How far a handler is says what it has done: whoever writes mails has not written
\* to those that are left, and whoever is done has left the effect.
Sound(t) ==
  /\ t.step = "sent" => t.job.id \in logged
  /\ t.step = "done" => t.job.id \in Effective
  /\ t.todo \cap t.to = {}
  /\ t.job.id \notin overrun => \A p \in t.todo \cup t.to : mailed[t.job.id][p] = 0

Handled == \A w \in Workers : task[w] # Idle => Sound(task[w])

\* A job is in one pair of hands unless its lease ran out in them.
Hands == HeldByOne /\ Once /\ Leased

\* The inductive invariant.
IInv == TypeOK /\ Hands /\ RunsArePaid /\ MailsAreLogged /\ Handled

-----------------------------------------------------------------------------
LEMMA InitIInv == Init => IInv
<1> SUFFICES ASSUME Init PROVE IInv
  OBVIOUS
<1>1. TypeOK
  BY Limits DEF Init, TypeOK, Rows, Statuses, Tasks
<1>2. \A w \in Workers : batch[w] = {} /\ task[w] = Idle
  BY DEF Init
<1>3. Hands /\ Handled
  BY <1>2 DEF Hands, HeldByOne, Held, Once, Leased, Handled
<1>4. RunsArePaid
  BY <1>2, Limits DEF Init, RunsArePaid
<1>5. MailsAreLogged
  BY <1>2 DEF Init, MailsAreLogged
<1> QED
  BY <1>1, <1>3, <1>4, <1>5 DEF IInv

\* What a write of a worker leaves of a row.
LEMMA WrittenRow ==
  ASSUME TypeOK, NEW j \in Jobs, NEW s \in Statuses \ {"none"}, NEW n \in 0 .. MaxAttempts
  PROVE  /\ Written(j, s, n) \in [ Jobs -> Rows ]
         /\ \A i \in Jobs \ {j} : Written(j, s, n)[i] = row[i]
         /\ row[j].status # "PROCESSING" => Written(j, s, n)[j] = row[j]
         /\ row[j].status = "PROCESSING" =>
              Written(j, s, n)[j].status = s /\ Written(j, s, n)[j].retryCount = n
  BY DEF Written, TypeOK, Rows

LEMMA GoesOnType ==
  ASSUME TypeOK, NEW w \in Workers, task[w] # Idle,
         NEW step, step \in {"write", "sent", "done"},
         NEW todo, todo \subseteq People, NEW to, to \subseteq People,
         GoesOn(w, step, todo, to)
  PROVE  task' \in [ Workers -> Tasks ]
<1>1. task[w].job \in Copies
  BY DEF TypeOK, Tasks
<1>2. [ step |-> step, job |-> task[w].job, todo |-> todo, to |-> to ] \in Tasks
  BY <1>1 DEF Tasks
<1> QED
  BY <1>2 DEF GoesOn, TypeOK

LEMMA TypeStep == TypeOK /\ [Next]_vars => TypeOK'
<1> SUFFICES ASSUME TypeOK, [Next]_vars PROVE TypeOK'
  OBVIOUS
<1>1. CASE UNCHANGED vars
  BY <1>1 DEF vars, effects, TypeOK
<1>2. ASSUME NEW j \in Jobs, Enqueue(j) PROVE TypeOK'
  BY <1>2 DEF Enqueue, effects, TypeOK, Rows, Statuses
<1>3. ASSUME NEW j \in Jobs, Due(j) PROVE TypeOK'
  BY <1>3 DEF Due, effects, TypeOK, Rows
<1>4. ASSUME NEW j \in Jobs, Expire(j) PROVE TypeOK'
  <2>1. row' \in [ Jobs -> Rows ]
    BY <1>4 DEF Expire, TypeOK, Rows
  <2>2. overrun' \subseteq Jobs /\ runs' \in [ Jobs -> 0 .. MaxAttempts + 1 ]
    BY <1>4, Limits DEF Expire, TypeOK
  <2>3. mailed' \in [ Jobs -> [ People -> 0 .. 2 ] ]
    BY <1>4 DEF Expire, TypeOK
  <2> QED
    BY <1>4, <2>1, <2>2, <2>3 DEF Expire, TypeOK
<1>5. ASSUME NEW w \in Workers, Claim(w) PROVE TypeOK'
  <2>1. ASSUME NEW j \in Jobs PROVE Claimed(j) \in Rows
    BY Limits DEF Claimed, Bump, TypeOK, Rows, Statuses
  <2>2. row' \in [ Jobs -> Rows ]
    BY <1>5, <2>1 DEF Claim, TypeOK
  <2>3. ASSUME NEW j \in Oldest PROVE [ id |-> j, retryCount |-> row'[j].retryCount ] \in Copies
    BY <2>2 DEF Oldest, Copies, Rows
  <2>4. batch' \in [ Workers -> SUBSET Copies ]
    BY <1>5, <2>3 DEF Claim, TypeOK
  <2> QED
    BY <1>5, <2>2, <2>4 DEF Claim, effects, TypeOK
<1>6. ASSUME NEW w \in Workers, NEW c \in batch[w], GiveUp(w, c) PROVE TypeOK'
  <2>1. c.id \in Jobs /\ c.retryCount \in 0 .. MaxAttempts
    BY DEF TypeOK, Copies
  <2>2. row' \in [ Jobs -> Rows ]
    BY <1>6, <2>1, WrittenRow DEF GiveUp, Statuses
  <2> QED
    BY <1>6, <2>2 DEF GiveUp, effects, TypeOK
<1>7. ASSUME NEW w \in Workers, NEW c \in batch[w], Start(w, c) PROVE TypeOK'
  <2>1. c \in Copies /\ c.id \in Jobs
    BY DEF TypeOK, Copies
  <2>2. task' \in [ Workers -> Tasks ]
    BY <1>7, <2>1 DEF Start, TypeOK, Tasks
  <2>3. runs' \in [ Jobs -> 0 .. MaxAttempts + 1 ]
    BY <1>7, <2>1, Limits DEF Start, TypeOK
  <2> QED
    BY <1>7, <2>2, <2>3 DEF Start, effects, TypeOK
<1>8. ASSUME NEW w \in Workers, RecordEvent(w) PROVE TypeOK'
  <2>1. task[w] # Idle /\ task[w].job.id \in Jobs
    BY <1>8 DEF RecordEvent, Running, TypeOK, Tasks, Copies
  <2>2. task' \in [ Workers -> Tasks ]
    BY <1>8, <2>1, GoesOnType DEF RecordEvent
  <2> QED
    BY <1>8, <2>1, <2>2 DEF RecordEvent, TypeOK
<1>9. ASSUME NEW w \in Workers, LookUp(w) PROVE TypeOK'
  <2>1. task[w] # Idle /\ task[w].job \in Copies /\ task[w].job.id \in Jobs
    BY <1>9 DEF LookUp, Running, TypeOK, Tasks, Copies
  <2>2. Recipients[task[w].job.id] \subseteq People
    BY <2>1 DEF People
  <2>3. settled' \subseteq Jobs
    BY <1>9, <2>1 DEF LookUp, TypeOK
  <2>4. task' \in [ Workers -> Tasks ]
    BY <1>9, <2>1, <2>2, GoesOnType DEF LookUp
  <2> QED
    BY <1>9, <2>3, <2>4 DEF LookUp, TypeOK
<1>10. ASSUME NEW w \in Workers, NEW r \in People, WriteLog(w, r) PROVE TypeOK'
  <2>1. task[w] # Idle /\ task[w].job.id \in Jobs /\ task[w].todo \subseteq People
    BY <1>10 DEF WriteLog, Running, TypeOK, Tasks, Copies
  <2>2. task' \in [ Workers -> Tasks ]
    BY <1>10, <2>1, GoesOnType DEF WriteLog
  <2> QED
    BY <1>10, <2>1, <2>2 DEF WriteLog, TypeOK
<1>11. ASSUME NEW w \in Workers, Deliver(w) PROVE TypeOK'
  <2>1. task[w] # Idle /\ task[w].todo \subseteq People /\ task[w].job.id \in Jobs
    BY <1>11 DEF Deliver, Running, TypeOK, Tasks, Copies
  <2>2. task' \in [ Workers -> Tasks ]
    BY <1>11, <2>1, GoesOnType DEF Deliver
  <2>3. mailed' \in [ Jobs -> [ People -> 0 .. 2 ] ]
    <3> DEFINE j == task[w].job.id
               M == [ r \in People |-> IF r \in task[w].to THEN Again(mailed[j][r])
                                       ELSE mailed[j][r] ]
    <3>1. mailed' = mailed \/ mailed' = [ mailed EXCEPT ![j] = M ]
      BY <1>11 DEF Deliver
    <3>2. ASSUME NEW r \in People PROVE mailed[j][r] \in 0 .. 2 /\ Again(mailed[j][r]) \in 0 .. 2
      BY <2>1 DEF Again, TypeOK
    <3>3. M \in [ People -> 0 .. 2 ]
      BY <3>2
    <3> QED
      BY <2>1, <3>1, <3>3 DEF TypeOK
  <2> QED
    BY <1>11, <2>2, <2>3 DEF Deliver, TypeOK
<1>12. ASSUME NEW w \in Workers, Complete(w) PROVE TypeOK'
  <2>1. task[w].job.id \in Jobs
    BY <1>12 DEF Complete, TypeOK, Tasks, Copies
  <2>2. row[task[w].job.id].retryCount \in 0 .. MaxAttempts
    BY <2>1 DEF TypeOK, Rows
  <2>3. row' \in [ Jobs -> Rows ]
    BY <1>12, <2>1, <2>2, WrittenRow DEF Complete, Statuses
  <2> QED
    BY <1>12, <2>3 DEF Complete, effects, TypeOK, Tasks
<1>13. ASSUME NEW w \in Workers, Fail(w) PROVE TypeOK'
  <2>1. task[w].job.id \in Jobs /\ task[w].job.retryCount \in 0 .. MaxAttempts
    BY <1>13 DEF Fail, TypeOK, Tasks, Copies
  <2>2. row' \in [ Jobs -> Rows ]
    <3> DEFINE n == task[w].job.retryCount + 1
    <3>1. row' = IF n >= MaxAttempts THEN Written(task[w].job.id, "FAILED", MaxAttempts)
                 ELSE Written(task[w].job.id, "PENDING", n)
      BY <1>13 DEF Fail, Rescheduled
    <3>2. CASE n >= MaxAttempts
      <4>1. row' = Written(task[w].job.id, "FAILED", MaxAttempts)
        BY <3>1, <3>2
      <4>2. MaxAttempts \in 0 .. MaxAttempts /\ "FAILED" \in Statuses \ {"none"}
        BY Limits DEF Statuses
      <4> QED
        BY <2>1, <4>1, <4>2, WrittenRow
    <3>3. CASE ~(n >= MaxAttempts)
      <4>1. row' = Written(task[w].job.id, "PENDING", n)
        BY <3>1, <3>3
      <4>2. n \in 0 .. MaxAttempts /\ "PENDING" \in Statuses \ {"none"}
        BY <2>1, <3>3, Limits DEF Statuses
      <4> HIDE DEF n
      <4> QED
        BY <2>1, <4>1, <4>2, WrittenRow
    <3> QED
      BY <3>2, <3>3
  <2> QED
    BY <1>13, <2>2 DEF Fail, effects, TypeOK, Tasks
<1>14. ASSUME NEW w \in Workers, Crash(w) PROVE TypeOK'
  BY <1>14 DEF Crash, effects, TypeOK, Tasks
<1> QED
  BY <1>1, <1>2, <1>3, <1>4, <1>5, <1>6, <1>7, <1>8, <1>9, <1>10, <1>11, <1>12, <1>13, <1>14
     DEF Next, Handle, GiveUpJob, StartJob
-----------------------------------------------------------------------------
(* Who holds which job.                                                     *)

\* What a worker holds, spelled out.
LEMMA HeldIs ==
  ASSUME NEW w \in Workers, NEW j
  PROVE  j \in Held(w) <=> \/ \E c \in batch[w] : c.id = j
                           \/ task[w] # Idle /\ task[w].job.id = j
  BY DEF Held

\* The task after a step that goes on.
LEMMA GoesOnTask ==
  ASSUME TypeOK, NEW w \in Workers, task[w] # Idle,
         NEW step, step \in {"write", "sent", "done"}, NEW todo, NEW to,
         GoesOn(w, step, todo, to)
  PROVE  /\ task'[w] # Idle
         /\ task'[w].job = task[w].job /\ task'[w].step = step
         /\ task'[w].todo = todo /\ task'[w].to = to
         /\ \A v \in Workers \ {w} : task'[v] = task[v]
<1>1. task'[w] = [ step |-> step, job |-> task[w].job, todo |-> todo, to |-> to ]
  BY DEF GoesOn, TypeOK
<1>2. task'[w].step # "idle"
  BY <1>1
<1>3. task'[w] # Idle
  BY <1>2 DEF Idle
<1> QED
  BY <1>1, <1>3 DEF GoesOn, TypeOK

\* A step that leaves rows, batches and overruns alone, and every worker at the job
\* it has, leaves everything in the same hands.
LEMMA SameHands ==
  ASSUME TypeOK, Hands, UNCHANGED << row, batch, overrun >>,
         \A w \in Workers : /\ task'[w] = Idle <=> task[w] = Idle
                            /\ task[w] # Idle => task'[w].job = task[w].job
  PROVE  Hands'
<1>1. ASSUME NEW w \in Workers PROVE Held(w)' = Held(w)
  BY DEF Held
<1>2. HeldByOne'
  BY <1>1 DEF Hands, HeldByOne
<1>3. Once'
  BY DEF Hands, Once
<1>4. Leased'
  BY DEF Hands, Leased
<1> QED
  BY <1>2, <1>3, <1>4 DEF Hands

\* A job that is not in a worker's hands any more may have any row; the rows of the
\* other jobs in hands stay.
LEMMA LetGo ==
  ASSUME TypeOK, Hands, NEW w \in Workers, NEW j \in Jobs, j \in Held(w),
         UNCHANGED overrun,
         \A i \in Jobs \ {j} : row'[i] = row[i],
         row'[j].status # "none",
         \A v \in Workers \ {w} : batch'[v] = batch[v] /\ task'[v] = task[v],
         batch'[w] \subseteq batch[w],
         task'[w] = Idle \/ task'[w] = task[w],
         \A c \in batch'[w] : c.id # j,
         task'[w] # Idle => task[w].job.id # j
  PROVE  Hands'
<1>1. ASSUME NEW v \in Workers PROVE Held(v)' \subseteq Held(v)
  BY DEF Held
<1>2. HeldByOne'
  BY <1>1 DEF Hands, HeldByOne
<1>3. Once'
  BY DEF Hands, Once
<1>4. j \notin overrun => \A v \in Workers \ {w} : j \notin Held(v)
  BY DEF Hands, HeldByOne
<1>5. \A v \in Workers \ {w} : j \notin overrun =>
        /\ \A c \in batch[v] : c.id # j
        /\ task[v] # Idle => task[v].job.id # j
  BY <1>4, HeldIs
<1>6. \A v \in Workers : \A c \in batch[v] : c.id \in Jobs
  BY DEF TypeOK, Copies
<1>7. \A v \in Workers : task[v] # Idle => task[v].job.id \in Jobs
  BY DEF TypeOK, Tasks, Copies
<1>8. ASSUME NEW v \in Workers, NEW c \in batch'[v]
      PROVE  /\ row'[c.id].status # "none"
             /\ c.id \notin overrun =>
                  /\ row'[c.id].status = "PROCESSING" /\ row'[c.id].leased
                  /\ row'[c.id].retryCount = c.retryCount
  <2>1. c \in batch[v] /\ c.id \in Jobs
    BY <1>6
  <2>2. CASE c.id # j
    BY <2>1, <2>2 DEF Hands, Leased
  <2>3. CASE c.id = j
    BY <2>1, <2>3, <1>5
  <2> QED
    BY <2>2, <2>3
<1>9. ASSUME NEW v \in Workers, task'[v] # Idle
      PROVE  LET k == task'[v].job IN
             /\ row'[k.id].status # "none"
             /\ k.id \notin overrun =>
                  /\ row'[k.id].status = "PROCESSING" /\ row'[k.id].leased
                  /\ row'[k.id].retryCount = k.retryCount
  <2>1. task'[v] = task[v] /\ task[v] # Idle /\ task[v].job.id \in Jobs
    BY <1>9, <1>7
  <2>2. CASE task[v].job.id # j
    BY <2>1, <2>2 DEF Hands, Leased
  <2>3. CASE task[v].job.id = j
    BY <2>1, <2>3, <1>5, <1>9
  <2> QED
    BY <2>2, <2>3
<1>10. Leased'
  BY <1>8, <1>9 DEF Leased
<1> QED
  BY <1>2, <1>3, <1>10 DEF Hands
LEMMA TakenOver ==
  ASSUME TypeOK, Hands, NEW w \in Workers, Claim(w) PROVE Hands'
<1>1. \A j \in Jobs : /\ j \in Oldest => Claimable(j) /\ row'[j] = Claimed(j)
                      /\ j \notin Oldest => row'[j] = row[j]
  BY DEF Claim, Oldest
<1>2. \A j \in Oldest : /\ row'[j].status = "PROCESSING" /\ row'[j].leased
                        /\ row[j].status # "none"
  <2> SUFFICES ASSUME NEW j \in Oldest
               PROVE  /\ row'[j].status = "PROCESSING" /\ row'[j].leased
                      /\ row[j].status # "none"
    OBVIOUS
  <2>1. row'[j] = Claimed(j) /\ Claimable(j)
    BY <1>1 DEF Oldest
  <2>2. Claimed(j).status = "PROCESSING" /\ Claimed(j).leased = TRUE
    BY DEF Claimed
  <2>3. row[j].status # "none"
    BY <2>1 DEF Claimable
  <2> QED
    BY <2>1, <2>2, <2>3, Zenon
<1>3. /\ \A v \in Workers : task'[v] = task[v]
      /\ \A v \in Workers \ {w} : batch'[v] = batch[v]
      /\ batch'[w] = { [ id |-> j, retryCount |-> row'[j].retryCount ] : j \in Oldest }
      /\ batch[w] = {} /\ task[w] = Idle /\ overrun' = overrun
  BY DEF Claim, TypeOK
<1>4. Oldest \subseteq Jobs
  BY DEF Oldest
<1>5. \A c \in batch'[w] : c.id \in Oldest /\ c.retryCount = row'[c.id].retryCount
  BY <1>3
<1>6. ASSUME NEW v \in Workers, NEW j \in Jobs, j \in Held(v), j \notin overrun
      PROVE j \notin Oldest
  <2>1. row[j].status = "PROCESSING" /\ row[j].leased
    BY <1>6, HeldIs DEF Hands, Leased
  <2> QED
    BY <2>1 DEF Oldest, Claimable
<1>7. ASSUME NEW v \in Workers PROVE Held(v) \subseteq Jobs
  BY HeldIs DEF TypeOK, Tasks, Copies
<1>8. Held(w)' = Oldest
  <2>1. task'[w] = Idle
    BY <1>3
  <2>2. ASSUME NEW j \in Oldest PROVE \E c \in batch'[w] : c.id = j
    <3> DEFINE c == [ id |-> j, retryCount |-> row'[j].retryCount ]
    <3>1. c \in batch'[w] /\ c.id = j
      BY <1>3
    <3> HIDE DEF c
    <3> QED
      BY <3>1
  <2>3. \A j : j \in Held(w)' <=> \E c \in batch'[w] : c.id = j
    BY <2>1 DEF Held
  <2>4. \A j : j \in Held(w)' <=> j \in Oldest
    BY <1>5, <2>2, <2>3
  <2> QED
    BY <2>4
<1>9. \A v \in Workers \ {w} : Held(v)' = Held(v)
  BY <1>3 DEF Held
<1>10. HeldByOne'
  <2> SUFFICES ASSUME NEW u \in Workers, NEW v \in Workers, u # v,
                      NEW j, j \in Held(u)', j \in Held(v)', j \notin overrun
               PROVE  FALSE
    BY <1>3 DEF HeldByOne
  <2>1. CASE u = w
    BY <2>1, <1>6, <1>7, <1>8, <1>9
  <2>2. CASE v = w
    BY <2>2, <1>6, <1>7, <1>8, <1>9
  <2>3. CASE u # w /\ v # w
    BY <2>3, <1>9 DEF Hands, HeldByOne
  <2> QED
    BY <2>1, <2>2, <2>3
<1>11. Once'
  <2>1. \A c, d \in batch'[w] : c.id = d.id => c = d
    BY <1>3
  <2> QED
    BY <2>1, <1>3 DEF Hands, Once
<1>12. ASSUME NEW v \in Workers, NEW c \in batch'[v]
       PROVE  /\ row'[c.id].status # "none"
              /\ c.id \notin overrun =>
                   /\ row'[c.id].status = "PROCESSING" /\ row'[c.id].leased
                   /\ row'[c.id].retryCount = c.retryCount
  <2>1. CASE v = w
    BY <2>1, <1>2, <1>5
  <2>2. CASE v # w
    <3>1. c \in batch[v] /\ c.id \in Jobs /\ c.id \in Held(v)
      BY <2>2, <1>3 DEF TypeOK, Copies, Held
    <3>2. CASE c.id \in Oldest
      BY <3>1, <3>2, <1>2, <1>6
    <3>3. CASE c.id \notin Oldest
      BY <3>1, <3>3, <1>1 DEF Hands, Leased
    <3> QED
      BY <3>2, <3>3
  <2> QED
    BY <2>1, <2>2
<1>13. ASSUME NEW v \in Workers, task[v] # Idle
       PROVE  LET k == task[v].job IN
              /\ row'[k.id].status # "none"
              /\ k.id \notin overrun =>
                   /\ row'[k.id].status = "PROCESSING" /\ row'[k.id].leased
                   /\ row'[k.id].retryCount = k.retryCount
  <2>1. task[v].job.id \in Jobs /\ task[v].job.id \in Held(v)
    BY <1>13 DEF TypeOK, Tasks, Copies, Held
  <2>2. CASE task[v].job.id \in Oldest
    BY <2>1, <2>2, <1>2, <1>6
  <2>3. CASE task[v].job.id \notin Oldest
    BY <2>1, <2>3, <1>1, <1>13 DEF Hands, Leased
  <2> QED
    BY <2>2, <2>3
<1>14. Leased'
  BY <1>3, <1>12, <1>13 DEF Leased
<1> QED
  BY <1>10, <1>11, <1>14 DEF Hands

\* The row of a job that was enqueued is never taken back.
LEMMA WrittenEnqueued ==
  ASSUME TypeOK, NEW j \in Jobs, NEW s \in Statuses \ {"none"}, NEW n \in 0 .. MaxAttempts,
         row[j].status # "none"
  PROVE  Written(j, s, n)[j].status # "none"
  BY WrittenRow

\* What a failure writes.
LEMMA RescheduledRow ==
  ASSUME TypeOK, NEW j \in Jobs, NEW n \in 1 .. MaxAttempts + 1
  PROVE  /\ \A i \in Jobs \ {j} : Rescheduled(j, n)[i] = row[i]
         /\ row[j].status # "none" => Rescheduled(j, n)[j].status # "none"
         /\ row[j].status # "PROCESSING" => Rescheduled(j, n)[j] = row[j]
         /\ row[j].status = "PROCESSING" =>
              \/ n >= MaxAttempts /\ Rescheduled(j, n)[j].status = "FAILED"
              \/ /\ n < MaxAttempts /\ Rescheduled(j, n)[j].status = "PENDING"
                 /\ Rescheduled(j, n)[j].retryCount = n
<1>1. CASE n >= MaxAttempts
  BY <1>1, WrittenRow, WrittenEnqueued, Limits DEF Rescheduled, Statuses
<1>2. CASE n < MaxAttempts
  BY <1>2, WrittenRow, WrittenEnqueued, Limits DEF Rescheduled, Statuses
<1> QED
  BY <1>1, <1>2, Limits

LEMMA HandsStep == TypeOK /\ Hands /\ [Next]_vars => Hands'
<1> SUFFICES ASSUME TypeOK, Hands, [Next]_vars PROVE Hands'
  OBVIOUS
<1>1. CASE UNCHANGED vars
  BY <1>1, SameHands DEF vars
<1>2. ASSUME NEW j \in Jobs, Enqueue(j) PROVE Hands'
  <2>1. \A w \in Workers : Held(w)' = Held(w)
    BY <1>2 DEF Enqueue, Held
  <2>2. HeldByOne' /\ Once'
    BY <1>2, <2>1 DEF Enqueue, Hands, HeldByOne, Once
  <2>3. \A i \in Jobs : row[i].status # "none" => row'[i] = row[i]
    BY <1>2 DEF Enqueue, TypeOK, Rows
  <2>4. \A w \in Workers : \A c \in batch[w] : c.id \in Jobs
    BY DEF TypeOK, Copies
  <2>5. \A w \in Workers : task[w] # Idle => task[w].job.id \in Jobs
    BY DEF TypeOK, Tasks, Copies
  <2>6. UNCHANGED << batch, task, overrun >>
    BY <1>2 DEF Enqueue
  <2>7. \A w \in Workers : \A c \in batch[w] : row'[c.id] = row[c.id]
    BY <2>3, <2>4 DEF Hands, Leased
  <2>8. \A w \in Workers : task[w] # Idle => row'[task[w].job.id] = row[task[w].job.id]
    BY <2>3, <2>5 DEF Hands, Leased
  <2>9. Leased'
    BY <2>6, <2>7, <2>8 DEF Hands, Leased
  <2> QED
    BY <2>2, <2>9 DEF Hands
<1>3. ASSUME NEW j \in Jobs, Due(j) PROVE Hands'
  <2>1. \A w \in Workers : Held(w)' = Held(w)
    BY <1>3 DEF Due, Held
  <2>2. HeldByOne' /\ Once'
    BY <1>3, <2>1 DEF Due, Hands, HeldByOne, Once
  <2>3. \A i \in Jobs : /\ row'[i].status = row[i].status
                        /\ row[i].status = "PROCESSING" => row'[i] = row[i]
    BY <1>3 DEF Due, TypeOK, Rows
  <2>4. \A w \in Workers : \A c \in batch[w] : c.id \in Jobs
    BY DEF TypeOK, Copies
  <2>5. \A w \in Workers : task[w] # Idle => task[w].job.id \in Jobs
    BY DEF TypeOK, Tasks, Copies
  <2>6. Leased'
    BY <1>3, <2>3, <2>4, <2>5 DEF Due, Hands, Leased
  <2> QED
    BY <2>2, <2>6 DEF Hands
<1>4. ASSUME NEW j \in Jobs, Expire(j) PROVE Hands'
  <2>1. /\ \A w \in Workers : Held(w)' = Held(w)
        /\ UNCHANGED << batch, task >> /\ overrun \subseteq overrun'
        /\ (\E w \in Workers : j \in Held(w)) => j \in overrun'
    BY <1>4 DEF Expire, Held
  <2>2. HeldByOne' /\ Once'
    BY <2>1 DEF Hands, HeldByOne, Once
  <2>3. /\ \A i \in Jobs \ {j} : row'[i] = row[i]
        /\ row'[j].status = "PROCESSING"
    BY <1>4 DEF Expire, TypeOK, Rows
  <2>4. \A w \in Workers : \A c \in batch[w] : c.id \in Jobs /\ c.id \in Held(w)
    BY DEF TypeOK, Copies, Held
  <2>5. \A w \in Workers : task[w] # Idle => task[w].job.id \in Jobs /\ task[w].job.id \in Held(w)
    BY DEF TypeOK, Tasks, Copies, Held
  <2>6. ASSUME NEW w \in Workers, NEW c \in batch[w]
        PROVE  /\ row'[c.id].status # "none"
               /\ c.id \notin overrun' =>
                    /\ row'[c.id].status = "PROCESSING" /\ row'[c.id].leased
                    /\ row'[c.id].retryCount = c.retryCount
    <3>1. CASE c.id = j
      BY <3>1, <2>1, <2>3, <2>4
    <3>2. CASE c.id # j
      BY <3>2, <2>1, <2>3, <2>4 DEF Hands, Leased
    <3> QED
      BY <3>1, <3>2
  <2>7. ASSUME NEW w \in Workers, task[w] # Idle
        PROVE  LET k == task[w].job IN
               /\ row'[k.id].status # "none"
               /\ k.id \notin overrun' =>
                    /\ row'[k.id].status = "PROCESSING" /\ row'[k.id].leased
                    /\ row'[k.id].retryCount = k.retryCount
    <3>1. CASE task[w].job.id = j
      BY <3>1, <2>1, <2>3, <2>5, <2>7
    <3>2. CASE task[w].job.id # j
      BY <3>2, <2>1, <2>3, <2>5, <2>7 DEF Hands, Leased
    <3> QED
      BY <3>1, <3>2
  <2>8. Leased'
    BY <2>1, <2>6, <2>7 DEF Leased
  <2> QED
    BY <2>2, <2>8 DEF Hands
<1>5. ASSUME NEW w \in Workers, Claim(w) PROVE Hands'
  BY <1>5, TakenOver
<1>6. ASSUME NEW w \in Workers, NEW c \in batch[w], GiveUp(w, c) PROVE Hands'
  <2>1. c.id \in Jobs /\ c.retryCount \in 0 .. MaxAttempts /\ c.id \in Held(w)
    BY DEF TypeOK, Copies, Held
  <2>2. row[c.id].status # "none"
    BY DEF Hands, Leased
  <2>3. /\ \A i \in Jobs \ {c.id} : row'[i] = row[i]
        /\ row'[c.id].status # "none"
    BY <1>6, <2>1, <2>2, WrittenRow, WrittenEnqueued DEF GiveUp, Statuses
  <2>4. /\ batch'[w] = batch[w] \ {c} /\ task' = task /\ overrun' = overrun
        /\ \A v \in Workers \ {w} : batch'[v] = batch[v]
        /\ task[w] = Idle
    BY <1>6 DEF GiveUp, TypeOK
  <2>5. \A d \in batch'[w] : d.id # c.id
    BY <2>4 DEF Hands, Once
  <2> QED
    BY <2>1, <2>3, <2>4, <2>5, LetGo
<1>7. ASSUME NEW w \in Workers, NEW c \in batch[w], Start(w, c) PROVE Hands'
  <2>1. /\ batch'[w] = batch[w] \ {c} /\ UNCHANGED << row, overrun >>
        /\ \A v \in Workers \ {w} : batch'[v] = batch[v] /\ task'[v] = task[v]
        /\ task[w] = Idle /\ task'[w].job = c /\ task'[w].step = "start"
    BY <1>7 DEF Start, TypeOK
  <2>2. \A d \in batch'[w] : d.id # c.id
    BY <2>1 DEF Hands, Once
  <2>3. task'[w] # Idle
    BY <2>1 DEF Idle
  <2>4. Held(w)' = Held(w)
    BY <2>1, <2>3 DEF Held
  <2>5. \A v \in Workers : Held(v)' = Held(v)
    BY <2>1, <2>4 DEF Held
  <2>6. HeldByOne'
    BY <2>1, <2>5 DEF Hands, HeldByOne
  <2>7. Once'
    BY <2>1, <2>2 DEF Hands, Once
  <2>8. Leased'
    BY <2>1 DEF Hands, Leased
  <2> QED
    BY <2>6, <2>7, <2>8 DEF Hands
<1>8. ASSUME NEW w \in Workers, RecordEvent(w) PROVE Hands'
  BY <1>8, GoesOnTask, SameHands DEF RecordEvent, Running
<1>9. ASSUME NEW w \in Workers, LookUp(w) PROVE Hands'
  BY <1>9, GoesOnTask, SameHands DEF LookUp, Running
<1>10. ASSUME NEW w \in Workers, NEW r \in People, WriteLog(w, r) PROVE Hands'
  BY <1>10, GoesOnTask, SameHands DEF WriteLog, Running
<1>11. ASSUME NEW w \in Workers, Deliver(w) PROVE Hands'
  BY <1>11, GoesOnTask, SameHands DEF Deliver, Running
<1>12. ASSUME NEW w \in Workers, Complete(w) PROVE Hands'
  <2>1. /\ task[w] # Idle /\ task[w].job.id \in Jobs /\ task[w].job.id \in Held(w)
    BY <1>12 DEF Complete, TypeOK, Tasks, Copies, Held
  <2>2. /\ row[task[w].job.id].status # "none"
        /\ row[task[w].job.id].retryCount \in 0 .. MaxAttempts
    BY <2>1 DEF Hands, Leased, TypeOK, Rows
  <2>3. /\ \A i \in Jobs \ {task[w].job.id} : row'[i] = row[i]
        /\ row'[task[w].job.id].status # "none"
    BY <1>12, <2>1, <2>2, WrittenRow, WrittenEnqueued DEF Complete, Statuses
  <2>4. /\ task'[w] = Idle /\ batch' = batch /\ overrun' = overrun
        /\ \A v \in Workers \ {w} : task'[v] = task[v]
    BY <1>12 DEF Complete, TypeOK
  <2>5. \A d \in batch'[w] : d.id # task[w].job.id
    BY <2>1, <2>4 DEF Hands, Once
  <2> QED
    BY <2>1, <2>3, <2>4, <2>5, LetGo
<1>13. ASSUME NEW w \in Workers, Fail(w) PROVE Hands'
  <2>1. /\ task[w] # Idle /\ task[w].job.id \in Jobs /\ task[w].job.id \in Held(w)
        /\ task[w].job.retryCount + 1 \in 1 .. MaxAttempts + 1
    BY <1>13, Limits DEF Fail, TypeOK, Tasks, Copies, Held
  <2>2. row[task[w].job.id].status # "none"
    BY <2>1 DEF Hands, Leased
  <2>3. /\ \A i \in Jobs \ {task[w].job.id} : row'[i] = row[i]
        /\ row'[task[w].job.id].status # "none"
    BY <1>13, <2>1, <2>2, RescheduledRow DEF Fail
  <2>4. /\ task'[w] = Idle /\ batch' = batch /\ overrun' = overrun
        /\ \A v \in Workers \ {w} : task'[v] = task[v]
    BY <1>13 DEF Fail, TypeOK
  <2>5. \A d \in batch'[w] : d.id # task[w].job.id
    BY <2>1, <2>4 DEF Hands, Once
  <2> QED
    BY <2>1, <2>3, <2>4, <2>5, LetGo
<1>14. ASSUME NEW w \in Workers, Crash(w) PROVE Hands'
  <2>1. /\ \A v \in Workers : task'[v] = task[v] \/ task'[v] = Idle
        /\ \A v \in Workers : batch'[v] = batch[v] \/ batch'[v] = {}
        /\ UNCHANGED << row, overrun >>
    BY <1>14 DEF Crash, TypeOK
  <2>2. \A v \in Workers : Held(v)' \subseteq Held(v)
    BY <2>1 DEF Held
  <2>3. HeldByOne' /\ Once'
    BY <2>1, <2>2 DEF Hands, HeldByOne, Once
  <2>4. Leased'
    BY <2>1 DEF Hands, Leased
  <2> QED
    BY <2>3, <2>4 DEF Hands
<1> QED
  BY <1>1, <1>2, <1>3, <1>4, <1>5, <1>6, <1>7, <1>8, <1>9, <1>10, <1>11, <1>12, <1>13, <1>14
     DEF Next, Handle, GiveUpJob, StartJob
-----------------------------------------------------------------------------
(* Attempts.                                                                *)

\* Steps that start nothing and whose rows keep their attempts.
LEMMA PaidKept ==
  ASSUME RunsArePaid, UNCHANGED << runs, overrun >>,
         \A w \in Workers : batch'[w] \subseteq batch[w],
         \A j \in Jobs \ overrun :
           \/ row'[j].status = row[j].status /\ row'[j].retryCount = row[j].retryCount
           \/ row'[j].status \in {"COMPLETED", "FAILED"}
           \/ row'[j].status = "PENDING" /\ runs[j] <= row'[j].retryCount
  PROVE  RunsArePaid'
  BY DEF RunsArePaid

LEMMA RunsStep == TypeOK /\ Hands /\ RunsArePaid /\ [Next]_vars => RunsArePaid'
<1> SUFFICES ASSUME TypeOK, Hands, RunsArePaid, [Next]_vars PROVE RunsArePaid'
  OBVIOUS
<1>1. CASE UNCHANGED vars
  BY <1>1, PaidKept DEF vars
<1>2. ASSUME NEW j \in Jobs, Enqueue(j) PROVE RunsArePaid'
  <2>1. /\ \A i \in Jobs \ {j} : row'[i] = row[i]
        /\ row[j].status = "none" /\ row'[j].status = "PENDING"
        /\ row'[j].retryCount \in Nat
        /\ UNCHANGED << batch, runs, overrun >>
    BY <1>2 DEF Enqueue, TypeOK, Rows
  <2>2. j \notin overrun => runs[j] = 0
    BY <2>1 DEF RunsArePaid
  <2> QED
    BY <2>1, <2>2, PaidKept
<1>3. ASSUME NEW j \in Jobs, Due(j) PROVE RunsArePaid'
  <2>1. /\ \A i \in Jobs : row'[i].status = row[i].status /\ row'[i].retryCount = row[i].retryCount
        /\ UNCHANGED << batch, runs, overrun >>
    BY <1>3 DEF Due, TypeOK, Rows
  <2> QED
    BY <2>1, PaidKept
<1>4. ASSUME NEW j \in Jobs, Expire(j) PROVE RunsArePaid'
  <2>1. /\ \A i \in Jobs : row'[i].status = row[i].status /\ row'[i].retryCount = row[i].retryCount
        /\ batch' = batch
    BY <1>4 DEF Expire, TypeOK, Rows
  <2>2. overrun \subseteq overrun' /\ \A i \in Jobs \ overrun' : runs'[i] = runs[i]
    BY <1>4 DEF Expire, TypeOK
  <2> QED
    BY <2>1, <2>2 DEF RunsArePaid
<1>5. ASSUME NEW w \in Workers, Claim(w) PROVE RunsArePaid'
  <2>1. /\ \A j \in Jobs : /\ j \in Oldest => Claimable(j) /\ row'[j] = Claimed(j)
                           /\ j \notin Oldest => row'[j] = row[j]
        /\ UNCHANGED << runs, overrun >>
        /\ \A v \in Workers \ {w} : batch'[v] = batch[v]
        /\ batch'[w] = { [ id |-> j, retryCount |-> row'[j].retryCount ] : j \in Oldest }
    BY <1>5 DEF Claim, Oldest, TypeOK
  <2>2. \A c \in batch'[w] : c.id \in Oldest /\ c.retryCount = row'[c.id].retryCount
    BY <2>1
  <2>3. ASSUME NEW j \in Oldest, j \notin overrun
        PROVE  /\ row'[j].status = "PROCESSING"
               /\ row'[j].retryCount \in Nat /\ runs[j] \in Nat
               /\ runs[j] <= row'[j].retryCount
    <3>1. j \in Jobs /\ row'[j] = Claimed(j) /\ Claimable(j)
      BY <2>1 DEF Oldest
    <3>2. row[j].retryCount \in 0 .. MaxAttempts /\ runs[j] \in 0 .. MaxAttempts + 1
      BY <3>1 DEF TypeOK, Rows
    <3>3. CASE row[j].status = "PENDING"
      BY <3>1, <3>2, <3>3, <2>3 DEF Claimed, RunsArePaid
    <3>4. CASE row[j].status = "PROCESSING"
      <4>1. row'[j].retryCount = Bump(row[j].retryCount) /\ row'[j].status = "PROCESSING"
        BY <3>1, <3>4 DEF Claimed
      <4>2. runs[j] <= MaxAttempts /\ runs[j] <= row[j].retryCount + 1
        BY <3>1, <3>4, <2>3 DEF RunsArePaid
      <4> QED
        BY <4>1, <4>2, <3>2, Limits DEF Bump
    <3> QED
      BY <3>1, <3>3, <3>4 DEF Claimable
  <2>4. ASSUME NEW j \in Jobs \ overrun'
        PROVE  /\ runs'[j] <= MaxAttempts
               /\ row'[j].status = "none" => runs'[j] = 0
               /\ row'[j].status = "PENDING" => runs'[j] <= row'[j].retryCount
               /\ row'[j].status = "PROCESSING" => runs'[j] <= row'[j].retryCount + 1
    <3>1. CASE j \in Oldest
      BY <3>1, <2>1, <2>3 DEF RunsArePaid
    <3>2. CASE j \notin Oldest
      BY <3>2, <2>1 DEF RunsArePaid
    <3> QED
      BY <3>1, <3>2
  <2>5. ASSUME NEW j \in Jobs \ overrun', NEW v \in Workers, NEW c \in batch'[v], c.id = j
        PROVE  runs'[j] <= c.retryCount
    <3>1. CASE v = w
      BY <3>1, <2>1, <2>2, <2>3, <2>5
    <3>2. CASE v # w
      BY <3>2, <2>1, <2>5 DEF RunsArePaid
    <3> QED
      BY <3>1, <3>2
  <2> QED
    BY <2>4, <2>5 DEF RunsArePaid
<1>6. ASSUME NEW w \in Workers, NEW c \in batch[w], GiveUp(w, c) PROVE RunsArePaid'
  <2>1. c.id \in Jobs /\ c.retryCount \in 0 .. MaxAttempts
    BY DEF TypeOK, Copies
  <2>2. \A j \in Jobs : row'[j] = row[j] \/ row'[j].status = "FAILED"
    BY <1>6, <2>1, WrittenRow DEF GiveUp, Statuses
  <2>3. UNCHANGED << runs, overrun >> /\ \A v \in Workers : batch'[v] \subseteq batch[v]
    BY <1>6 DEF GiveUp, TypeOK
  <2> QED
    BY <2>2, <2>3, PaidKept
<1>7. ASSUME NEW w \in Workers, NEW c \in batch[w], Start(w, c) PROVE RunsArePaid'
  <2>1. /\ c.id \in Jobs /\ c.retryCount \in Nat /\ c.retryCount < MaxAttempts
        /\ runs \in [ Jobs -> 0 .. MaxAttempts + 1 ]
    BY <1>7, Limits DEF Start, Hopeless, TypeOK, Copies
  <2>2. /\ \A v \in Workers \ {w} : batch'[v] = batch[v]
        /\ batch'[w] = batch[w] \ {c} /\ UNCHANGED << row, overrun >>
        /\ \A j \in Jobs \ {c.id} : runs'[j] = runs[j]
    BY <1>7, <2>1 DEF Start, TypeOK
  <2>3. CASE c.id \in overrun
    BY <2>2, <2>3 DEF RunsArePaid
  <2>4. CASE c.id \notin overrun
    <3>1. runs[c.id] <= c.retryCount /\ row[c.id].status = "PROCESSING"
          /\ row[c.id].retryCount = c.retryCount
      BY <2>1, <2>4 DEF RunsArePaid, Hands, Leased
    <3>2. runs'[c.id] = runs[c.id] + 1
      BY <1>7, <2>1, <2>4, <3>1, Limits DEF Start
    <3>3. \A v \in Workers : \A d \in batch'[v] : d.id # c.id
      <4>1. \A v \in Workers \ {w} : c.id \notin Held(v)
        BY <2>4, HeldIs DEF Hands, HeldByOne
      <4> QED
        BY <2>2, <4>1, HeldIs DEF Hands, Once
    <3>4. /\ runs'[c.id] <= MaxAttempts
          /\ runs'[c.id] <= row[c.id].retryCount + 1
      BY <2>1, <3>1, <3>2, Limits
    <3>5. \A j \in Jobs \ overrun :
            /\ runs'[j] <= MaxAttempts
            /\ row'[j].status = "none" => runs'[j] = 0
            /\ row'[j].status = "PENDING" => runs'[j] <= row'[j].retryCount
            /\ row'[j].status = "PROCESSING" => runs'[j] <= row'[j].retryCount + 1
      BY <2>2, <3>1, <3>4 DEF RunsArePaid
    <3>6. \A j \in Jobs \ overrun : \A v \in Workers : \A d \in batch'[v] :
            d.id = j => runs'[j] <= d.retryCount
      BY <2>2, <3>3 DEF RunsArePaid
    <3> QED
      BY <2>2, <3>5, <3>6 DEF RunsArePaid
  <2> QED
    BY <2>3, <2>4
<1>8. ASSUME NEW w \in Workers, RecordEvent(w) \/ LookUp(w) \/ (\E r \in People : WriteLog(w, r)) \/ Deliver(w)
      PROVE RunsArePaid'
  <2>1. UNCHANGED << row, batch, runs, overrun >>
    BY <1>8 DEF RecordEvent, LookUp, WriteLog, Deliver
  <2> QED
    BY <2>1, PaidKept
<1>9. ASSUME NEW w \in Workers, Complete(w) PROVE RunsArePaid'
  <2>1. task[w].job.id \in Jobs
    BY <1>9 DEF Complete, TypeOK, Tasks, Copies
  <2>2. row[task[w].job.id].retryCount \in 0 .. MaxAttempts
    BY <2>1 DEF TypeOK, Rows
  <2> DEFINE k == task[w].job.id
  <2>3. row'[k] = row[k] \/ row'[k].status = "COMPLETED"
    BY <1>9, <2>1, <2>2, WrittenRow DEF Complete, Statuses
  <2>4. UNCHANGED << batch, runs, overrun >>
    BY <1>9 DEF Complete
  <2>5. \A j \in Jobs \ {k} : row'[j] = row[j]
    BY <1>9, <2>1, <2>2, WrittenRow DEF Complete, Statuses
  <2> QED
    BY <2>3, <2>4, <2>5, PaidKept
<1>10. ASSUME NEW w \in Workers, Fail(w) PROVE RunsArePaid'
  <2>1. /\ task[w] # Idle /\ task[w].job.id \in Jobs
        /\ task[w].job.retryCount + 1 \in 1 .. MaxAttempts + 1
    BY <1>10, Limits DEF Fail, TypeOK, Tasks, Copies
  <2>2. \A i \in Jobs \ {task[w].job.id} : row'[i] = row[i]
    BY <1>10, <2>1, RescheduledRow DEF Fail
  <2>3. task[w].job.id \notin overrun =>
          \/ row'[task[w].job.id].status = "FAILED"
          \/ /\ row'[task[w].job.id].status = "PENDING"
             /\ runs[task[w].job.id] <= row'[task[w].job.id].retryCount
    BY <1>10, <2>1, RescheduledRow DEF Fail, Hands, Leased, RunsArePaid
  <2>4. UNCHANGED << batch, runs, overrun >>
    BY <1>10 DEF Fail
  <2> QED
    BY <2>2, <2>3, <2>4, PaidKept
<1>11. ASSUME NEW w \in Workers, Crash(w) PROVE RunsArePaid'
  <2>1. UNCHANGED << row, runs, overrun >> /\ \A v \in Workers : batch'[v] \subseteq batch[v]
    BY <1>11 DEF Crash, TypeOK
  <2> QED
    BY <2>1, PaidKept
<1> QED
  BY <1>1, <1>2, <1>3, <1>4, <1>5, <1>6, <1>7, <1>8, <1>9, <1>10, <1>11
     DEF Next, Handle, GiveUpJob, StartJob

-----------------------------------------------------------------------------
(* Mails and effects.                                                       *)

\* Steps that deliver nothing and lose no effect.
LEMMA MailsKept ==
  ASSUME TypeOK, MailsAreLogged, Handled,
         overrun \subseteq overrun', logged \subseteq logged',
         recorded \subseteq recorded', settled \subseteq settled',
         \A j \in Jobs \ overrun' : mailed'[j] = mailed[j],
         \A w \in Workers : task'[w] # Idle => task'[w] = task[w] \/ Sound(task[w])'
  PROVE  MailsAreLogged' /\ Handled'
<1>1. MailsAreLogged'
  BY DEF MailsAreLogged
<1>2. Effective \subseteq Effective'
  BY DEF Effective
<1>3. ASSUME NEW w \in Workers, task'[w] # Idle, task'[w] = task[w]
      PROVE  Sound(task[w])'
  <2>1. Sound(task[w]) /\ task[w].job.id \in Jobs
    BY <1>3 DEF Handled, TypeOK, Tasks, Copies
  <2> QED
    BY <1>2, <1>3, <2>1 DEF Sound
<1>4. Handled'
  BY <1>3 DEF Handled
<1> QED
  BY <1>1, <1>4

LEMMA DeliverMails ==
  ASSUME TypeOK, MailsAreLogged, Handled, Hands, NEW w \in Workers, Deliver(w)
  PROVE  MailsAreLogged' /\ Handled'
<1> DEFINE j == task[w].job.id
           k == IF task[w].todo = {} THEN "done" ELSE "write"
<1>1. /\ task[w] # Idle /\ task[w] \in Tasks /\ task[w].step = "sent" /\ j \in Jobs
      /\ Sound(task[w])
  BY DEF Deliver, Running, TypeOK, Tasks, Copies, Handled
<1>2. GoesOn(w, k, task[w].todo, {}) /\ k \in {"write", "done"}
  BY DEF Deliver
<1>3. /\ task'[w].job = task[w].job /\ task'[w].step = k
      /\ task'[w].todo = task[w].todo /\ task'[w].to = {}
      /\ \A v \in Workers \ {w} : task'[v] = task[v]
  BY <1>1, <1>2, GoesOnTask
<1>4. UNCHANGED << recorded, logged, settled, overrun >> /\ j \in logged
  BY <1>1 DEF Deliver, Sound
<1>5. /\ \A i \in Jobs \ {j} : mailed'[i] = mailed[i]
      /\ j \in overrun => mailed' = mailed
      /\ \A p \in People \ task[w].to : mailed'[j][p] = mailed[j][p]
      /\ \A p \in People : mailed'[j][p] = mailed[j][p] \/ mailed'[j][p] = Again(mailed[j][p])
  BY <1>1 DEF Deliver, TypeOK
<1>6. task[w].to \subseteq People /\ task[w].todo \subseteq People
  BY <1>1 DEF Tasks, Idle
<1>7. j \notin overrun => \A p \in People : mailed'[j][p] <= 1
  <2> SUFFICES ASSUME j \notin overrun, NEW p \in People PROVE mailed'[j][p] <= 1
    OBVIOUS
  <2>1. CASE p \in task[w].to
    <3>1. mailed[j][p] = 0
      BY <1>1, <2>1 DEF Sound
    <3> QED
      BY <1>5, <3>1 DEF Again
  <2>2. CASE p \notin task[w].to
    BY <1>1, <1>5, <2>2 DEF MailsAreLogged
  <2> QED
    BY <2>1, <2>2
<1>8. MailsAreLogged'
  <2> SUFFICES ASSUME NEW i \in Jobs \ overrun, NEW p \in People
               PROVE  mailed'[i][p] <= 1 /\ (mailed'[i][p] # 0 => i \in logged)
    BY <1>4 DEF MailsAreLogged
  <2>1. CASE i = j
    BY <2>1, <1>4, <1>7
  <2>2. CASE i # j
    BY <2>2, <1>5 DEF MailsAreLogged
  <2> QED
    BY <2>1, <2>2
<1>9. Sound(task[w])'
  <2>1. j \notin overrun => \A p \in task[w].todo : mailed'[j][p] = 0
    BY <1>1, <1>5, <1>6 DEF Sound
  <2>2. j \in Effective'
    BY <1>4 DEF Effective
  <2>3. k # "sent"
    BY <1>2
  <2> QED
    BY <1>3, <1>4, <2>1, <2>2, <2>3 DEF Sound
<1>10. ASSUME NEW v \in Workers \ {w}, task[v] # Idle PROVE Sound(task[v])'
  <2>1. Sound(task[v]) /\ task[v].job.id \in Jobs /\ task'[v] = task[v]
    BY <1>3, <1>10 DEF Handled, TypeOK, Tasks, Copies
  <2>2. Effective' = Effective
    BY <1>4 DEF Effective
  <2>3. CASE task[v].job.id = j
    <3>1. j \in Held(w) /\ j \in Held(v)
      BY <1>1, <1>10, <2>3, HeldIs
    <3>2. j \in overrun
      BY <3>1 DEF Hands, HeldByOne
    <3> QED
      BY <1>4, <2>1, <2>2, <2>3, <3>2 DEF Sound
  <2>4. CASE task[v].job.id # j
    <3>1. mailed'[task[v].job.id] = mailed[task[v].job.id]
      BY <1>5, <2>1, <2>4
    <3> QED
      BY <1>4, <2>1, <2>2, <3>1 DEF Sound
  <2> QED
    BY <2>3, <2>4
<1>11. Handled'
  BY <1>3, <1>9, <1>10 DEF Handled
<1> QED
  BY <1>8, <1>11
LEMMA MailsStep ==
  TypeOK /\ Hands /\ MailsAreLogged /\ Handled /\ [Next]_vars => MailsAreLogged' /\ Handled'
<1> SUFFICES ASSUME TypeOK, Hands, MailsAreLogged, Handled, [Next]_vars
             PROVE  MailsAreLogged' /\ Handled'
  OBVIOUS
<1>1. CASE UNCHANGED vars
  BY <1>1, MailsKept DEF vars, effects
<1>2. ASSUME NEW j \in Jobs, Enqueue(j) \/ Due(j) PROVE MailsAreLogged' /\ Handled'
  <2>1. UNCHANGED << task, recorded, logged, settled, mailed, overrun >>
    BY <1>2 DEF Enqueue, Due, effects
  <2> QED
    BY <2>1, MailsKept
<1>3. ASSUME NEW j \in Jobs, Expire(j) PROVE MailsAreLogged' /\ Handled'
  <2>1. /\ UNCHANGED << task, recorded, logged, settled >>
        /\ overrun \subseteq overrun'
        /\ \A i \in Jobs \ overrun' : mailed'[i] = mailed[i]
    BY <1>3 DEF Expire, TypeOK
  <2> QED
    BY <2>1, MailsKept
<1>4. ASSUME NEW w \in Workers,
             \/ Claim(w) \/ Complete(w) \/ Fail(w) \/ Crash(w)
             \/ \E c \in batch[w] : GiveUp(w, c)
      PROVE  MailsAreLogged' /\ Handled'
  <2>1. /\ UNCHANGED << recorded, logged, settled, mailed, overrun >>
        /\ \A v \in Workers : task'[v] = task[v] \/ task'[v] = Idle
    BY <1>4 DEF Claim, Complete, Fail, Crash, GiveUp, effects, TypeOK
  <2> QED
    BY <2>1, MailsKept
<1>5. ASSUME NEW w \in Workers, NEW c \in batch[w], Start(w, c)
      PROVE  MailsAreLogged' /\ Handled'
  <2>1. /\ UNCHANGED << recorded, logged, settled, mailed, overrun >>
        /\ \A v \in Workers \ {w} : task'[v] = task[v]
        /\ task'[w].step = "start" /\ task'[w].todo = {} /\ task'[w].to = {}
    BY <1>5 DEF Start, effects, TypeOK
  <2>2. Sound(task[w])'
    BY <2>1 DEF Sound
  <2> QED
    BY <2>1, <2>2, MailsKept
<1>6. ASSUME NEW w \in Workers, RecordEvent(w) PROVE MailsAreLogged' /\ Handled'
  <2>1. /\ task'[w].job = task[w].job /\ task'[w].step = "done"
        /\ task'[w].todo = {} /\ task'[w].to = {}
        /\ \A v \in Workers \ {w} : task'[v] = task[v]
    BY <1>6, GoesOnTask DEF RecordEvent, Running
  <2>2. /\ recorded' = recorded \cup {task[w].job.id}
        /\ UNCHANGED << logged, settled, mailed, overrun >>
    BY <1>6 DEF RecordEvent
  <2>3. Sound(task[w])'
    BY <2>1, <2>2 DEF Sound, Effective
  <2> QED
    BY <2>1, <2>2, <2>3, MailsKept
<1>7. ASSUME NEW w \in Workers, LookUp(w) PROVE MailsAreLogged' /\ Handled'
  <2> DEFINE j == task[w].job.id
  <2>1. j \in Jobs /\ task[w] # Idle
    BY <1>7 DEF LookUp, Running, TypeOK, Tasks, Copies
  <2>2. UNCHANGED << recorded, logged, mailed, overrun >> /\ settled \subseteq settled'
    BY <1>7 DEF LookUp
  <2>3. CASE GoesOn(w, "done", {}, {}) /\ (j \in logged \/ j \in settled')
    <3>1. /\ task'[w].job = task[w].job /\ task'[w].step = "done"
          /\ task'[w].todo = {} /\ task'[w].to = {}
          /\ \A v \in Workers \ {w} : task'[v] = task[v]
      BY <2>1, <2>3, GoesOnTask
    <3>2. Sound(task[w])'
      BY <2>2, <2>3, <3>1 DEF Sound, Effective
    <3> QED
      BY <2>2, <3>1, <3>2, MailsKept
  <2>4. CASE GoesOn(w, "write", Recipients[j], {}) /\ j \notin logged
    <3>1. /\ task'[w].job = task[w].job /\ task'[w].step = "write"
          /\ task'[w].todo = Recipients[j] /\ task'[w].to = {}
          /\ \A v \in Workers \ {w} : task'[v] = task[v]
      BY <2>1, <2>4, GoesOnTask
    <3>2. Recipients[j] \subseteq People
      BY <2>1 DEF People
    <3>3. j \notin overrun => \A p \in Recipients[j] : mailed[j][p] = 0
      BY <2>1, <2>4, <3>2 DEF MailsAreLogged
    <3>4. Sound(task[w])'
      BY <2>2, <3>1, <3>3 DEF Sound
    <3> QED
      BY <2>2, <3>1, <3>4, MailsKept
  <2> QED
    BY <1>7, <2>3, <2>4 DEF LookUp, AlreadySent
<1>8. ASSUME NEW w \in Workers, NEW r \in People, WriteLog(w, r)
      PROVE  MailsAreLogged' /\ Handled'
  <2>1. /\ task[w] # Idle /\ r \in task[w].todo /\ Sound(task[w])
        /\ GoesOn(w, "sent", task[w].todo \ {r}, {r})
        /\ logged' = logged \cup {task[w].job.id}
        /\ UNCHANGED << recorded, settled, mailed, overrun >>
    BY <1>8 DEF WriteLog, Running, Handled
  <2>2. /\ task'[w].job = task[w].job /\ task'[w].step = "sent"
        /\ task'[w].todo = task[w].todo \ {r} /\ task'[w].to = {r}
        /\ \A v \in Workers \ {w} : task'[v] = task[v]
    BY <2>1, GoesOnTask
  <2>3. Sound(task[w])'
    BY <2>1, <2>2 DEF Sound
  <2> QED
    BY <2>1, <2>2, <2>3, MailsKept
<1>9. ASSUME NEW w \in Workers, Deliver(w) PROVE MailsAreLogged' /\ Handled'
  BY <1>9, DeliverMails
<1> QED
  BY <1>1, <1>2, <1>3, <1>4, <1>5, <1>6, <1>7, <1>8, <1>9
     DEF Next, Handle, GiveUpJob, StartJob

-----------------------------------------------------------------------------
(* The invariant, and what follows from it.                                 *)

LEMMA Invariant == Spec => []IInv
<1>1. IInv /\ [Next]_vars => IInv'
  BY TypeStep, HandsStep, RunsStep, MailsStep DEF IInv
<1> QED
  BY InitIInv, <1>1, PTL DEF Spec

\* Every reachable queue is well typed: a row keeps within its attempts, and a
\* worker has in hand only jobs of the queue, whatever crashes or is taken over.
THEOREM QueueTypesHold == Spec => []TypeOK
<1>1. IInv => TypeOK
  BY DEF IInv
<1> QED
  BY Invariant, <1>1, PTL

\* Two workers never run one job at the same time, unless its lease ran out in the
\* hands of the first: the claim of job_queue_service.js skips what is leased.
THEOREM JobsAreHeldByOne == Spec => []HeldByOne
<1>1. IInv => HeldByOne
  BY DEF IInv, Hands
<1> QED
  BY Invariant, <1>1, PTL

\* Whatever crashes and however often it is taken over, no job is started more
\* often than MAX_ATTEMPTS.
THEOREM RunsStayLimited == Spec => []RunsAreLimited
<1>1. IInv => RunsAreLimited
  BY DEF IInv, RunsArePaid, RunsAreLimited
<1> QED
  BY Invariant, <1>1, PTL

\* Nobody gets the mail of one alert twice: the log that the handler asks is written
\* before the mail goes out.
THEOREM MailsGoOutOnce == Spec => []MailedOnce
<1>1. IInv => MailedOnce
  BY DEF IInv, MailsAreLogged, MailedOnce
<1> QED
  BY Invariant, <1>1, PTL

-----------------------------------------------------------------------------
(* The promise.                                                             *)

LEMMA StageIs ==
  ASSUME NEW j
  PROVE  /\ row[j].status = "none" => Stage(j) = "none"
         /\ row[j].status \in {"PENDING", "PROCESSING"} => Stage(j) = "owed"
         /\ row[j].status = "COMPLETED" => Stage(j) = "done"
         /\ row[j].status = "FAILED" => Stage(j) = "given_up"
  BY DEF Stage

\* A step that moves no job, and may leave the effect of one that was enqueued.
LEMMA Applied ==
  ASSUME \A i \in Jobs : Stage(i)' = Stage(i),
         \/ Effective' = Effective
         \/ \E j \in Jobs : Stage(j) # "none" /\ Effective' = Effective \cup {j}
  PROVE  [Promise!Next]_(Promise!vars)
  BY DEF Promise!Next, Promise!Apply, Promise!vars

\* A step that moves one job.
LEMMA Moved ==
  ASSUME NEW j \in Jobs, \A i \in Jobs \ {j} : Stage(i)' = Stage(i), Effective' = Effective,
         \/ Stage(j)' = Stage(j)
         \/ Stage(j) = "none" /\ Stage(j)' = "owed"
         \/ Stage(j) = "owed" /\ Stage(j)' = "done" /\ j \in Effective
         \/ Stage(j) = "owed" /\ Stage(j)' = "given_up"
  PROVE  [Promise!Next]_(Promise!vars)
<1> DEFINE state == [ i \in Jobs |-> Stage(i) ]
<1>1. ASSUME NEW s, Stage(j)' = s PROVE state' = [ state EXCEPT ![j] = s ]
  BY <1>1
<1>2. CASE Stage(j)' = Stage(j)
  BY <1>2, Applied
<1>3. CASE Stage(j) = "none" /\ Stage(j)' = "owed"
  BY <1>1, <1>3 DEF Promise!Next, Promise!Accept
<1>4. CASE Stage(j) = "owed" /\ Stage(j)' = "done" /\ j \in Effective
  BY <1>1, <1>4 DEF Promise!Next, Promise!Finish
<1>5. CASE Stage(j) = "owed" /\ Stage(j)' = "given_up"
  BY <1>1, <1>5 DEF Promise!Next, Promise!GiveUp
<1> QED
  BY <1>2, <1>3, <1>4, <1>5
LEMMA PromiseStep == IInv /\ [Next]_vars => [Promise!Next]_(Promise!vars)
<1> SUFFICES ASSUME IInv, [Next]_vars PROVE [Promise!Next]_(Promise!vars)
  OBVIOUS
<1> USE DEF IInv
<1>1. CASE UNCHANGED vars
  BY <1>1, Applied DEF vars, effects, Stage, Effective
<1>2. ASSUME NEW j \in Jobs, Enqueue(j) PROVE [Promise!Next]_(Promise!vars)
  <2>1. /\ \A i \in Jobs \ {j} : row'[i] = row[i]
        /\ row[j].status = "none" /\ row'[j].status = "PENDING"
    BY <1>2 DEF Enqueue, TypeOK, Rows
  <2>2. Effective' = Effective
    BY <1>2 DEF Enqueue, effects, Effective
  <2>3. \A i \in Jobs \ {j} : Stage(i)' = Stage(i)
    BY <2>1 DEF Stage
  <2>4. Stage(j) = "none" /\ Stage(j)' = "owed"
    BY <2>1 DEF Stage
  <2> QED
    BY <2>2, <2>3, <2>4, Moved
<1>3. ASSUME NEW j \in Jobs, Due(j) \/ Expire(j) PROVE [Promise!Next]_(Promise!vars)
  <2>1. \A i \in Jobs : row'[i].status = row[i].status
    BY <1>3 DEF Due, Expire, TypeOK, Rows
  <2>2. Effective' = Effective
    BY <1>3 DEF Due, Expire, effects, Effective
  <2>3. \A i \in Jobs : Stage(i)' = Stage(i)
    BY <2>1 DEF Stage
  <2> QED
    BY <2>2, <2>3, Applied
<1>4. ASSUME NEW w \in Workers, Claim(w) PROVE [Promise!Next]_(Promise!vars)
  <2>1. \A j \in Jobs : \/ row'[j] = row[j]
                        \/ Claimable(j) /\ row'[j].status = "PROCESSING"
    BY <1>4 DEF Claim, Oldest, Claimed
  <2>2. Effective' = Effective
    BY <1>4 DEF Claim, effects, Effective
  <2>3. \A j \in Jobs : Stage(j)' = Stage(j)
    BY <2>1 DEF Stage, Claimable
  <2> QED
    BY <2>2, <2>3, Applied
<1>5. ASSUME NEW w \in Workers, NEW c \in batch[w], GiveUp(w, c)
      PROVE  [Promise!Next]_(Promise!vars)
  <2>1. c.id \in Jobs /\ c.retryCount \in 0 .. MaxAttempts
    BY DEF TypeOK, Copies
  <2>2. /\ \A i \in Jobs \ {c.id} : row'[i] = row[i]
        /\ \/ row'[c.id] = row[c.id]
           \/ row[c.id].status = "PROCESSING" /\ row'[c.id].status = "FAILED"
    BY <1>5, <2>1, WrittenRow DEF GiveUp, Statuses
  <2>3. Effective' = Effective
    BY <1>5 DEF GiveUp, effects, Effective
  <2>4. \A i \in Jobs \ {c.id} : Stage(i)' = Stage(i)
    BY <2>2 DEF Stage
  <2>5. Stage(c.id)' = Stage(c.id) \/ (Stage(c.id) = "owed" /\ Stage(c.id)' = "given_up")
    BY <2>2 DEF Stage
  <2> QED
    BY <2>1, <2>3, <2>4, <2>5, Moved
<1>6. ASSUME NEW w \in Workers, Crash(w) \/ \E c \in batch[w] : Start(w, c)
      PROVE  [Promise!Next]_(Promise!vars)
  <2>1. UNCHANGED << row, effects >>
    BY <1>6 DEF Crash, Start
  <2> QED
    BY <2>1, Applied DEF effects, Stage, Effective
<1>7. ASSUME NEW w \in Workers, task[w] # Idle, UNCHANGED row,
             Effective' = Effective \/ Effective' = Effective \cup {task[w].job.id}
      PROVE  [Promise!Next]_(Promise!vars)
  <2>1. task[w].job.id \in Jobs /\ row[task[w].job.id].status # "none"
    BY <1>7 DEF TypeOK, Tasks, Copies, Hands, Leased
  <2>2. Stage(task[w].job.id) # "none"
    BY <2>1 DEF Stage
  <2>3. \A i \in Jobs : Stage(i)' = Stage(i)
    BY <1>7 DEF Stage
  <2> QED
    BY <1>7, <2>1, <2>2, <2>3, Applied
<1>8. ASSUME NEW w \in Workers,
             RecordEvent(w) \/ LookUp(w) \/ (\E r \in People : WriteLog(w, r)) \/ Deliver(w)
      PROVE  [Promise!Next]_(Promise!vars)
  <2>1. task[w] # Idle /\ UNCHANGED row
    BY <1>8 DEF RecordEvent, LookUp, WriteLog, Deliver, Running
  <2>2. Effective' = Effective \/ Effective' = Effective \cup {task[w].job.id}
    BY <1>8 DEF RecordEvent, LookUp, WriteLog, Deliver, Effective
  <2> QED
    BY <1>7, <2>1, <2>2
<1>9. ASSUME NEW w \in Workers, Complete(w) PROVE [Promise!Next]_(Promise!vars)
  <2>1. PICK j \in Jobs : /\ j = task[w].job.id /\ j \in Effective
                         /\ row[j].retryCount \in 0 .. MaxAttempts
    <3>1. task[w].job.id \in Jobs /\ task[w].job.id \in Effective
      BY <1>9 DEF Complete, TypeOK, Tasks, Copies, Handled, Sound
    <3> QED
      BY <3>1 DEF TypeOK, Rows
  <2>2. /\ \A i \in Jobs \ {j} : row'[i] = row[i]
        /\ \/ row'[j] = row[j]
           \/ row[j].status = "PROCESSING" /\ row'[j].status = "COMPLETED"
    BY <1>9, <2>1, WrittenRow DEF Complete, Statuses
  <2>3. Effective' = Effective
    BY <1>9 DEF Complete, effects, Effective
  <2>4. \A i \in Jobs \ {j} : Stage(i)' = Stage(i)
    BY <2>2 DEF Stage
  <2>5. Stage(j)' = Stage(j) \/ (Stage(j) = "owed" /\ Stage(j)' = "done")
    BY <2>2 DEF Stage
  <2> QED
    BY <2>1, <2>3, <2>4, <2>5, Moved
<1>10. ASSUME NEW w \in Workers, Fail(w) PROVE [Promise!Next]_(Promise!vars)
  <2>1. PICK j \in Jobs : /\ j = task[w].job.id
                         /\ task[w].job.retryCount + 1 \in 1 .. MaxAttempts + 1
    BY <1>10, Limits DEF Fail, TypeOK, Tasks, Copies
  <2>2. /\ \A i \in Jobs \ {j} : row'[i] = row[i]
        /\ \/ row'[j] = row[j]
           \/ row[j].status = "PROCESSING" /\ row'[j].status \in {"PENDING", "FAILED"}
    BY <1>10, <2>1, RescheduledRow DEF Fail
  <2>3. Effective' = Effective
    BY <1>10 DEF Fail, effects, Effective
  <2>4. \A i \in Jobs \ {j} : Stage(i)' = Stage(i)
    BY <2>2 DEF Stage
  <2>5. Stage(j)' = Stage(j) \/ (Stage(j) = "owed" /\ Stage(j)' = "given_up")
    BY <2>2 DEF Stage
  <2> QED
    BY <2>1, <2>3, <2>4, <2>5, Moved
<1> QED
  BY <1>1, <1>2, <1>3, <1>4, <1>5, <1>6, <1>8, <1>9, <1>10
     DEF Next, Handle, GiveUpJob, StartJob

\* The queue implements JobPromise: a row is COMPLETED only after the effect of its
\* job is there, and no late worker takes a finished row back.
THEOREM QueueKeepsPromise == Spec => KeepsPromise
<1>1. Init => Promise!Init
  BY DEF Init, Promise!Init, Stage, Effective
<1>2. IInv /\ [Next]_vars => [Promise!Next]_(Promise!vars)
  BY PromiseStep
<1> QED
  BY <1>1, <1>2, Invariant, PTL DEF Spec, KeepsPromise, Promise!Spec
=============================================================================

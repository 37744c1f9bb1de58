----------------------------- MODULE JobPromise -----------------------------
(***************************************************************************)
(* What the job queue promises to the code that enqueues: a job that was   *)
(* accepted is worked on any number of times and is then, for good, either *)
(* done, which it can only be once its effect is there, or given up.       *)
(***************************************************************************)
CONSTANT Jobs

VARIABLES state,    \* state[j]: "none", "owed", "done" or "given_up"
          applied   \* the jobs whose effect is there

vars == << state, applied >>

Init == /\ state = [ j \in Jobs |-> "none" ]
        /\ applied = {}

Accept(j) == /\ state[j] = "none"
             /\ state' = [ state EXCEPT ![j] = "owed" ]
             /\ UNCHANGED applied

\* A worker that is slow may apply a job after it was given up.
Apply(j) == /\ state[j] # "none"
            /\ applied' = applied \cup {j}
            /\ UNCHANGED state

Finish(j) == /\ state[j] = "owed"
             /\ j \in applied
             /\ state' = [ state EXCEPT ![j] = "done" ]
             /\ UNCHANGED applied

GiveUp(j) == /\ state[j] = "owed"
             /\ state' = [ state EXCEPT ![j] = "given_up" ]
             /\ UNCHANGED applied

Next == \E j \in Jobs : Accept(j) \/ Apply(j) \/ Finish(j) \/ GiveUp(j)

Spec == Init /\ [][Next]_vars
=============================================================================

--------------------------- MODULE BookingRequest ---------------------------
(***************************************************************************)
(* A customer's request for a car, from the idempotency key to the answer: *)
(* the key is claimed before the booking is made and the answer is stored  *)
(* after it, each in a statement of its own around the transaction of      *)
(* CarStock.  Requests are repeated by clients that got no answer, run at  *)
(* the same time as their repetitions, and die at any point.               *)
(*                                                                         *)
(* Request r would make booking r, and is its own worker in CarStock.      *)
(***************************************************************************)
EXTENDS CarStock

CONSTANTS Requests,   \* requests that may arrive
          Keys,       \* a key stands for the customer, the endpoint and the header
          KeyOf,      \* KeyOf[r]: the key r carries
          Bodies      \* what a request may ask for, as the hash of its body

ASSUME RequestsServeThemselves == Requests \subseteq Workers \cap Bookings
ASSUME RequestsHaveKeys == KeyOf \in [ Requests -> Keys ]
ASSUME KeysHaveOneCustomer ==
  \A q, r \in Requests : KeyOf[q] = KeyOf[r] => CustomerOf[q] = CustomerOf[r]

VARIABLES
  body,     \* body[r]: the hash of what r asks for
  record,   \* record[k]: the requests (at most one) whose row is stored under k
  stored,   \* requests whose row has the stored answer
  phase,    \* phase[r]: how far the handler of r is
  answer,   \* answer[r]: the set of at most one booking r was told about with 201
  lapsed    \* history: keys whose row lapsed, or whose answer was not stored

requestVars == << body, record, stored, phase, answer, lapsed >>
vars == << stockVars, requestVars >>

Phases == { "new", "missed", "claimed", "made", "failing", "answered", "refused", "dead" }

TypeOK ==
  /\ StockTypeOK
  /\ body \in [ Requests -> Bodies ]
  /\ record \in [ Keys -> SUBSET Requests ]
  /\ stored \subseteq Requests
  /\ phase \in [ Requests -> Phases ]
  /\ answer \in [ Requests -> SUBSET Bookings ]
  /\ lapsed \subseteq Keys

Init ==
  /\ StockInit
  /\ body \in [ Requests -> Bodies ]
  /\ record = [ k \in Keys |-> {} ]
  /\ stored = {}
  /\ phase = [ r \in Requests |-> "new" ]
  /\ answer = [ r \in Requests |-> {} ]
  /\ lapsed = {}

Goes(r, from, to) == phase[r] = from /\ phase' = [ phase EXCEPT ![r] = to ]

-----------------------------------------------------------------------------
(* claimIdempotencyKey.                                                     *)

\* A slip: the body is not compared.
AnyBody(q, r) == TRUE

SameBody(q, r) == body[q] = body[r]

\* The key is unknown: the request goes on to claim it.
Miss(r) ==
  /\ record[KeyOf[r]] = {}
  /\ Goes(r, "new", "missed")
  /\ UNCHANGED << stockVars, body, record, stored, answer, lapsed >>

\* The key is known: the stored answer is repeated, or the request is refused
\* with 409 while there is none and with 422 when its body is another one.
Hit(r) ==
  /\ \E q \in record[KeyOf[r]] :
       IF q \in stored /\ SameBody(q, r)
       THEN /\ Goes(r, "new", "answered")
            /\ answer' = [ answer EXCEPT ![r] = {q} ]
       ELSE /\ Goes(r, "new", "refused")
            /\ UNCHANGED answer
  /\ UNCHANGED << stockVars, body, record, stored, lapsed >>

\* A slip: the row is written whether or not the key has one.
InsertAnyway(r) ==
  /\ Goes(r, "missed", "claimed")
  /\ record' = [ record EXCEPT ![KeyOf[r]] = {r} ]
  /\ UNCHANGED << stockVars, body, stored, answer, lapsed >>

\* The row is inserted; the key is unique, so the loser of a race is refused.
Insert(r) ==
  /\ IF record[KeyOf[r]] = {}
     THEN /\ Goes(r, "missed", "claimed")
          /\ record' = [ record EXCEPT ![KeyOf[r]] = {r} ]
     ELSE /\ Goes(r, "missed", "refused")
          /\ UNCHANGED record
  /\ UNCHANGED << stockVars, body, stored, answer, lapsed >>

\* A key that is a day old is deleted, by the next claim or by the hourly job.
Lapse(k) ==
  /\ record[k] # {}
  /\ record' = [ record EXCEPT ![k] = {} ]
  /\ stored' = stored \ record[k]
  /\ lapsed' = lapsed \cup {k}
  /\ UNCHANGED << stockVars, body, phase, answer >>

-----------------------------------------------------------------------------
(* The operation, and what becomes of the key.                              *)

Begin(r) ==
  /\ phase[r] = "claimed"
  /\ \E c \in Cars : BeginCreate(r, r, c)
  /\ UNCHANGED requestVars

CountFor(r) == Count(r) /\ UNCHANGED requestVars

Commit(r) ==
  /\ Goes(r, "claimed", "made")
  /\ CommitCreate(r)
  /\ UNCHANGED << body, record, stored, answer, lapsed >>

\* The selection is refused, the limit is reached, or no car is left.
Refuse(r) ==
  /\ Goes(r, "claimed", "failing")
  /\ IF task[r] = Idle THEN UNCHANGED stockVars ELSE Rollback(r)
  /\ UNCHANGED << body, record, stored, answer, lapsed >>

\* completeIdempotencyKey updates the row by its own id; when it is gone or the
\* update fails the handler answers with an error, although the booking is made.
Complete(r) ==
  \/ /\ r \in record[KeyOf[r]]
     /\ Goes(r, "made", "answered")
     /\ stored' = stored \cup {r}
     /\ answer' = [ answer EXCEPT ![r] = {r} ]
     /\ UNCHANGED << stockVars, body, record, lapsed >>
  \/ /\ Goes(r, "made", "failing")
     /\ lapsed' = lapsed \cup {KeyOf[r]}
     /\ UNCHANGED << stockVars, body, record, stored, answer >>

\* releaseIdempotencyKey deletes the row by its own id and ignores every error.
Release(r) ==
  /\ Goes(r, "failing", "refused")
  /\ record' \in { record, [ record EXCEPT ![KeyOf[r]] = @ \ {r} ] }
  /\ UNCHANGED << stockVars, body, stored, answer, lapsed >>

\* The process dies.  The row stays until it lapses.
Crash(r) ==
  /\ phase[r] \in {"missed", "claimed", "made", "failing"}
  /\ phase' = [ phase EXCEPT ![r] = "dead" ]
  /\ IF task[r] = Idle THEN UNCHANGED stockVars ELSE Rollback(r)
  /\ UNCHANGED << body, record, stored, answer, lapsed >>

-----------------------------------------------------------------------------
Staff == Workers \ Requests

\* Everything else that happens to the bookings meanwhile.
Elsewhere ==
  /\ \/ \E w \in Staff : Negotiate(w) \/ Serve(w)
     \/ \E b \in Existing, to \in MoveTo : Move(b, to)
  /\ UNCHANGED requestVars

Next ==
  \/ \E r \in Requests :
       \/ Miss(r) \/ Hit(r) \/ Insert(r)
       \/ Begin(r) \/ CountFor(r) \/ Commit(r) \/ Refuse(r)
       \/ Complete(r) \/ Release(r) \/ Crash(r)
  \/ \E k \in Keys : Lapse(k)
  \/ Elsewhere

Spec == Init /\ [][Next]_vars

-----------------------------------------------------------------------------
(* Properties.                                                              *)

\* However often a request is repeated, and whatever dies meanwhile, one key makes
\* one booking, unless its claim lapsed or the answer could not be stored.
OneBookingPerKey ==
  \A q, r \in Requests :
    q # r /\ KeyOf[q] = KeyOf[r] /\ KeyOf[q] \notin lapsed =>
      status[q] = "none" \/ status[r] = "none"

\* Everybody who was answered with 201 under one key was told of one booking, which
\* is there and was made by a request with the same body.
AnswersAgree ==
  \A q, r \in Requests :
    \A b \in answer[q] :
      /\ status[b] # "none" /\ body[b] = body[q]
      /\ (KeyOf[q] = KeyOf[r] /\ KeyOf[q] \notin lapsed => answer[r] \subseteq {b})
=============================================================================

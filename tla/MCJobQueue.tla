----------------------------- MODULE MCJobQueue -----------------------------
(* An instance of JobQueue: an event and a mail that may share a batch. *)
EXTENDS JobQueue

EventAndMail == << "event", "mail" >>
NobodyAndAnn == << {}, {"ann"} >>
=============================================================================

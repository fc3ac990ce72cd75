------------------------------ MODULE MCServer ------------------------------
(* Instances of App, with the server it runs, for TLC.                     *)
EXTENDS App, TLC

CONSTANTS c1, c2, c3, w1

OneWorker    == {w1}
ThreeClients == {c1, c2, c3}
Nobody       == {}
OutOfThreads == {"system_error"}

\* One of each class accept_retry_for knows, and one of a client that it does
\* not know.
SomeHiccups  == {"ENOMEM", "ECONNABORTED", "ENONET"}
UnlistedOnly == {"ENONET"}

\* Each limit and deadline is one or is none; one worker, a queue of one.
OneOrNone == [workers : {0, 1}, queued : {0, 1}, queue_wait : {0, 1}, idle : {0, 1}, request : {0, 1}]
=============================================================================

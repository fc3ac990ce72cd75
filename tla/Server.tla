------------------------------- MODULE Server -------------------------------
(***************************************************************************)
(* serve_forever (src/src/server/serve.cpp:180-201): the accept loop that  *)
(* owns the connection pool, composed with the pool of ConnectionPool.tla  *)
(* and with the kernel's side of the listening socket.                     *)
(*                                                                         *)
(* The accept thread is the owner of the pool.  It accepts while the pool  *)
(* is idle in its hands, submits what it accepted, classifies each failed  *)
(* accept by its errno, and destroys the pool when the listener itself has *)
(* failed.  Every accepted connection holds a descriptor until the pool    *)
(* closes it, and the process has a limited number of them.                *)
(*                                                                         *)
(* What accept may report is written down apart from what the code makes   *)
(* of it: the sets below follow accept(2) and the three kinds of           *)
(* docs/design/08-serving-many-clients.md:69-76, AcceptRetryFor follows    *)
(* the switch of serve.cpp.                                                *)
(***************************************************************************)
EXTENDS ConnectionPool

CONSTANTS
    DescriptorLimit,  \* descriptors available to clients
    Hiccups           \* what accept may report of the system or of a client

VARIABLES
    loop,     \* "accept", or "pause" while sleep_for(accept_retry_pause) lasts
    arrived,  \* the clients whose connection was ever established
    pending,  \* those still in the listener's backlog
    broken,   \* the listening socket itself has failed
    ended_by  \* the errno the accept loop returned on, "none" until it does

listenerVars == <<loop, arrived, pending, broken, ended_by>>
serverVars   == <<vars, listenerVars>>

-----------------------------------------------------------------------------
(* What accept(2) may report.                                              *)

ErrorsOfTheListener == {"EBADF", "EINVAL", "ENOTSOCK"}
ErrorsOfTheMoment   == {"EMFILE", "ENFILE", "ENOMEM", "ENOBUFS"}

\* A refused or vanished connection, and "already-pending network errors on the
\* new socket".
ErrorsOfOneClient ==
    {"ECONNABORTED", "EPERM", "EPROTO", "ETIMEDOUT", "ENOPROTOOPT", "EOPNOTSUPP", "ENONET",
     "ENETDOWN", "ENETUNREACH", "EHOSTDOWN", "EHOSTUNREACH"}

\* EMFILE follows from the descriptors in use, so it is not for the
\* environment to choose.
ASSUME ServerAssumption ==
    /\ DescriptorLimit \in Nat \ {0}
    /\ Hiccups \subseteq (ErrorsOfTheMoment \cup ErrorsOfOneClient) \ {"EMFILE"}

-----------------------------------------------------------------------------
(* What the code makes of it.                                              *)

Exhaustion == {"EMFILE", "ENFILE", "ENOMEM", "ENOBUFS"}
OneClients == {"ECONNABORTED", "EPERM", "EPROTO", "ETIMEDOUT",
               "ENETDOWN", "ENETUNREACH", "EHOSTDOWN", "EHOSTUNREACH"}

\* Mutants: running out of descriptors ends the server; a listener that has
\* failed is asked for ever.
GiveUpWhenExhausted(os_error) ==
    CASE os_error \in Exhaustion \ {"EMFILE"} -> "AfterAPause"
      [] os_error \in OneClients              -> "Immediately"
      [] OTHER                                -> "Never"
AlwaysRetry(os_error) ==
    IF os_error \in OneClients THEN "Immediately" ELSE "AfterAPause"

AcceptRetryFor(os_error) ==
    CASE os_error \in Exhaustion -> "AfterAPause"
      [] os_error \in OneClients -> "Immediately"
      [] OTHER                   -> "Never"

OpenSockets == {c \in Clients : fate[c] = "open"}

\* The accept loop before its first accept, and a backlog nobody is in.
NobodyCame ==
    /\ loop = "accept"
    /\ arrived = {}
    /\ pending = {}
    /\ broken = FALSE
    /\ ended_by = "none"

ServerInit == Init /\ NobodyCame

-----------------------------------------------------------------------------
(* The kernel.                                                             *)

Connect(c) ==
    /\ c \notin arrived
    /\ arrived' = arrived \cup {c}
    /\ pending' = pending \cup {c}
    /\ UNCHANGED <<vars, loop, broken, ended_by>>

ListenerBreaks ==
    /\ ~broken
    /\ broken' = TRUE
    /\ UNCHANGED <<vars, loop, arrived, pending, ended_by>>

\* What accept4 may return instead of a connection.  A failure of a client's
\* own takes that client out of the backlog; the others take nobody.
AcceptErrors ==
    IF broken THEN ErrorsOfTheListener
    ELSE (IF Cardinality(OpenSockets) >= DescriptorLimit THEN {"EMFILE"} ELSE {})
         \cup (Hiccups \cap ErrorsOfTheMoment)
         \cup (IF pending = {} THEN {} ELSE Hiccups \cap ErrorsOfOneClient)

-----------------------------------------------------------------------------
(* The accept loop.                                                        *)

Accepting == loop = "accept" /\ owner = "ready"

AcceptOne(c) ==
    /\ Accepting
    /\ ~broken
    /\ Cardinality(OpenSockets) < DescriptorLimit
    /\ c \in pending
    /\ pending' = pending \ {c}
    /\ Submit(c)
    /\ UNCHANGED <<loop, arrived, broken, ended_by>>

AcceptFails(os_error) ==
    /\ Accepting
    /\ os_error \in AcceptErrors
    /\ IF os_error \in ErrorsOfOneClient
       THEN \E c \in pending : pending' = pending \ {c}
       ELSE UNCHANGED pending
    /\ \/ /\ AcceptRetryFor(os_error) = "Never"
          /\ StopBegins
          /\ ended_by' = os_error
          /\ UNCHANGED loop
       \/ /\ AcceptRetryFor(os_error) = "AfterAPause"
          /\ loop' = "pause"
          /\ UNCHANGED <<vars, ended_by>>
       \/ /\ AcceptRetryFor(os_error) = "Immediately"
          /\ UNCHANGED <<loop, vars, ended_by>>
    /\ UNCHANGED <<arrived, broken>>

PauseEnds ==
    /\ loop = "pause"
    /\ loop' = "accept"
    /\ UNCHANGED <<vars, arrived, pending, broken, ended_by>>

AcceptLoop == \/ \E c \in Clients : AcceptOne(c)
              \/ \E e \in Hiccups \cup {"EMFILE"} \cup ErrorsOfTheListener : AcceptFails(e)
              \/ PauseEnds

\* The pool's own steps, on any thread.
PoolStep ==
    /\ Construction \/ Submission \/ Stopping \/ Tick \/ Over
          \/ \E w \in Workers : Work(w)
    /\ UNCHANGED listenerVars

ServerNext == (\E c \in Clients : Connect(c)) \/ ListenerBreaks \/ AcceptLoop \/ PoolStep

ServerSpec == ServerInit /\ [][ServerNext]_serverVars

(***************************************************************************)
(* The accept thread runs: a pause ends, a failure is noticed, and a       *)
(* client that accept could keep taking is taken in the end, hiccups or    *)
(* not.  Clients need not come and the listener need not break.            *)
(***************************************************************************)
ServerFairness ==
    /\ Fairness
    /\ WF_serverVars(PauseEnds)
    /\ WF_serverVars(\E e \in ErrorsOfTheListener : AcceptFails(e))
    /\ \A c \in Clients : SF_serverVars(AcceptOne(c))

-----------------------------------------------------------------------------
ServerTypeOK ==
    /\ TypeOK
    /\ loop \in {"accept", "pause"}
    /\ pending \subseteq arrived
    /\ arrived \subseteq Clients
    /\ broken \in BOOLEAN
    /\ ended_by \in {"none"} \cup ErrorsOfTheListener \cup ErrorsOfTheMoment \cup ErrorsOfOneClient

\* The owner has begun to destroy the pool, or is done.
Ending == owner \in {"stop", "notify", "join", "destroy", "gone"}

(***************************************************************************)
(* "Only the listener failing may end the server" (serve.cpp:31-32): no    *)
(* exhaustion, however it came about, and no failure of one client's       *)
(* connection makes the accept loop return.  This does not hold: the list  *)
(* of serve.cpp:47-55 lacks three of the errors of a new socket.           *)
(***************************************************************************)
OnlyTheListenerEndsTheServer == Ending => broken

\* Errors of a new socket that the list does not name.
Unlisted == {"ENOPROTOOPT", "EOPNOTSUPP", "ENONET"}

(***************************************************************************)
(* What does hold: whatever accept reports, the loop returns for a broken  *)
(* listener or for one of the three errors the list lacks, and for no      *)
(* exhaustion and no other failure of a client (serve.cpp:36-60).          *)
(***************************************************************************)
NoListedErrorEndsTheServer == Ending => broken \/ ended_by \in Unlisted

(***************************************************************************)
(* A client that reached the backlog is dealt with while the server lasts, *)
(* also when it arrived with every descriptor in use: the pause after      *)
(* EMFILE ends, workers that nobody keeps give descriptors back, and the   *)
(* loop asks again (serve.cpp:23-25, 38-43).                               *)
(***************************************************************************)
EveryArrivalIsDealtWith ==
    NobodyKeepsAWorker =>
        \A c \in Clients : (c \in pending /\ Started # {}) ~>
            Ending \/ (c \notin pending /\ fate[c] # "open")
=============================================================================

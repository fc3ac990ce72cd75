------------------------------ MODULE Dispatch ------------------------------
(***************************************************************************)
(* What a connection pool promises, with no thread, mutex or condition     *)
(* variable in sight: a bounded line served in order of arrival by a       *)
(* bounded number of servers, closed once and for all.  The promises are   *)
(* those of src/src/server/pool.hpp:21-24, 29 and 39-41 and of             *)
(* src/include/carafe/config.hpp:10-11.                                    *)
(*                                                                         *)
(* ConnectionPool.tla implements this specification.                       *)
(***************************************************************************)
EXTENDS Naturals, Sequences, FiniteSets

CONSTANTS
    Clients,      \* who may come
    Servers,      \* how many are served at once
    Capacity,     \* how many wait in line
    Unlucky       \* for whom a line below its capacity may still lack room

VARIABLES
    line,     \* who waits, first come first
    status,   \* where each client is
    closed    \* no more dispatching

dispatchVars == <<line, status, closed>>

InHand == {c \in Clients : status[c] = "in hand"}

DInit ==
    /\ line = <<>>
    /\ status = [c \in Clients |-> "outside"]
    /\ closed = FALSE

Admit(c) ==
    /\ status[c] = "outside"
    /\ ~closed
    /\ Len(line) < Capacity
    /\ line' = Append(line, c)
    /\ status' = [status EXCEPT ![c] = "in line"]
    /\ UNCHANGED closed

\* Only for want of room.
TurnAwayClient(c) ==
    /\ status[c] = "outside"
    /\ closed \/ Len(line) >= Capacity \/ c \in Unlucky
    /\ status' = [status EXCEPT ![c] = "refused"]
    /\ UNCHANGED <<line, closed>>

\* Strictly in order of arrival, and never beyond the number of servers.
TakeFirst ==
    /\ ~closed
    /\ line # <<>>
    /\ Cardinality(InHand) < Servers
    /\ line' = Tail(line)
    /\ status' = [status EXCEPT ![Head(line)] = "in hand"]
    /\ UNCHANGED closed

LetGo(c) ==
    /\ status[c] = "in hand"
    /\ \E how \in {"served", "dropped", "expired"} :
          status' = [status EXCEPT ![c] = how]
    /\ UNCHANGED <<line, closed>>

Close ==
    /\ ~closed
    /\ closed' = TRUE
    /\ UNCHANGED <<line, status>>

\* The line is dissolved after the last client in hand has been let go.
Dissolve ==
    /\ closed
    /\ InHand = {}
    /\ line' = <<>>
    /\ status' = [c \in Clients |-> IF status[c] = "in line" THEN "abandoned"
                                                            ELSE status[c]]
    /\ UNCHANGED closed

DNext ==
    \/ \E c \in Clients : Admit(c) \/ TurnAwayClient(c) \/ LetGo(c)
    \/ TakeFirst
    \/ Close
    \/ Dissolve

DSpec == DInit /\ [][DNext]_dispatchVars
=============================================================================

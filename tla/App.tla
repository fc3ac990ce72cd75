-------------------------------- MODULE App --------------------------------
(***************************************************************************)
(* App::run (src/src/app.cpp:90-110) around the accept loop: the limits    *)
(* and deadlines it refuses, the socket it listens on, and its return.     *)
(* The pool does not exist before serve_forever builds it, and the backlog *)
(* does not before listen_on has returned.                                 *)
(***************************************************************************)
EXTENDS Server

CONSTANT
    Calls  \* what run may be called with: limits and deadlines, 0 for none

ValidPoolLimits(limits) == limits.workers > 0 /\ limits.queued > 0 /\ limits.queue_wait > 0
ValidDeadlines(limits)  == limits.idle > 0 /\ limits.request > 0

\* The call that is served is the one the pool's constants stand for.
ASSUME AppAssumption ==
    /\ Calls \subseteq [workers : Nat, queued : Nat, queue_wait : Nat, idle : Nat, request : Nat]
    /\ \A limits \in Calls : ValidPoolLimits(limits) /\ ValidDeadlines(limits) =>
           limits.workers = Cardinality(Workers) /\ limits.queued = Queued

VARIABLES
    limits,     \* the arguments of run
    listening,  \* the listening socket is open
    run         \* where run is, or what it returned

appVars == <<serverVars, limits, listening, run>>

RunErrors == {"InvalidLimits", "InvalidDeadlines", "BindFailed", "AcceptFailed"}

AppInit ==
    /\ Unused
    /\ owner = "unbuilt"
    /\ NobodyCame
    /\ limits \in Calls
    /\ listening = FALSE
    /\ run = "called"

Refuses ==
    /\ run = "called"
    /\ ~(ValidPoolLimits(limits) /\ ValidDeadlines(limits))
    /\ run' = IF ValidPoolLimits(limits) THEN "InvalidDeadlines" ELSE "InvalidLimits"
    /\ UNCHANGED <<serverVars, limits, listening>>

\* listen_on: whichever call of it fails, the descriptor is closed.
ListenFails ==
    /\ run = "called"
    /\ ValidPoolLimits(limits) /\ ValidDeadlines(limits)
    /\ run' = "BindFailed"
    /\ UNCHANGED <<serverVars, limits, listening>>

\* listen_on succeeds and serve_forever begins with the pool's constructor.
Listens ==
    /\ run = "called"
    /\ ValidPoolLimits(limits) /\ ValidDeadlines(limits)
    /\ listening' = TRUE
    /\ run' = "serving"
    /\ owner' = "construct"
    /\ UNCHANGED <<mutex, queue, stopping, held, pc, job, age, fate, listenerVars, limits>>

Serves ==
    /\ run = "serving"
    /\ ServerNext
    /\ UNCHANGED <<limits, listening, run>>

\* serve_forever returned, or the pool's constructor threw; the listener goes
\* out of scope and the kernel drops its backlog.
Returns ==
    /\ run = "serving"
    /\ owner \in {"gone", "unbuilt"}
    /\ run' = IF owner = "gone" THEN "AcceptFailed" ELSE "threw"
    /\ listening' = FALSE
    /\ pending' = {}
    /\ UNCHANGED <<vars, loop, arrived, broken, ended_by, limits>>

Returned == run \in RunErrors \cup {"threw"} /\ UNCHANGED appVars

AppNext == Refuses \/ ListenFails \/ Listens \/ Serves \/ Returns \/ Returned

AppSpec == AppInit /\ [][AppNext]_appVars

\* A pool that is gone is returned from; the rest is the server's.
FairAppSpec == AppSpec /\ ServerFairness /\ WF_appVars(Returns)

-----------------------------------------------------------------------------
AppTypeOK ==
    /\ ServerTypeOK
    /\ limits \in Calls
    /\ listening \in BOOLEAN
    /\ run \in RunErrors \cup {"called", "serving", "threw"}

(***************************************************************************)
(* run "returns only on failure" (carafe/app.hpp:61), and then nothing of  *)
(* it is left: no thread runs, no descriptor of a client or of its own is  *)
(* open, whatever was queued or being served when the listener failed.     *)
(***************************************************************************)
RunLeavesNothingBehind ==
    run \in RunErrors \cup {"threw"} =>
        /\ ~listening
        /\ OpenSockets = {}
        /\ \A w \in Workers : pc[w] \in {"unborn", "exited"}

(***************************************************************************)
(* A dead listener is not retried for ever ("a server that spins",         *)
(* serve.cpp:34-35): the pool behind it shuts down completely and run      *)
(* returns, unless a client keeps the worker that stop joins.              *)
(***************************************************************************)
BrokenListenerEndsTheServer ==
    NobodyKeepsAWorker => (broken ~> run = "AcceptFailed")
=============================================================================

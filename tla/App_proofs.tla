----------------------------- MODULE App_proofs -----------------------------
(***************************************************************************)
(* Proofs about App::run and the accept loop, for every pool, every set of *)
(* clients and every limit on descriptors.                                 *)
(*                                                                         *)
(* The accept loop takes no step inside the pool that the pool's own       *)
(* specification does not allow, so what is proved of ConnectionPool and   *)
(* of Dispatch holds of the server.  AppInv then ties where run is to what *)
(* has become of the pool.                                                 *)
(***************************************************************************)
EXTENDS App, ConnectionPool_proofs

-----------------------------------------------------------------------------
(* The server and its pool.                                                *)

\* What the accept loop does to the pool is a step of the pool.
LEMMA ServerStepsThePool == ServerNext => [Next]_vars
BY DEF ServerNext, Connect, ListenerBreaks, AcceptLoop, AcceptOne, AcceptFails,
       PauseEnds, PoolStep, Next

\* The server implements the pool: the accept loop is one of the owners the pool
\* was specified for, and with it go OneOwner, NoLostWakeup, PoolDispatches and
\* every other theorem about the pool (serve.cpp:180-201, pool.hpp:15-31).
THEOREM ServerUsesThePool == ServerSpec => Spec
<1>1. ServerInit => Init
    BY DEF ServerInit
<1>2. [ServerNext]_serverVars => [Next]_vars
    BY ServerStepsThePool DEF serverVars
<1>3. QED
    BY <1>1, <1>2, PTL DEF ServerSpec, Spec

\* There is one way into the destructor.
LEMMA EndsByStopping ==
    ASSUME [Next]_vars, Ending'
    PROVE  Ending \/ StopBegins
<1> USE DEF Ending
<1>1. CASE Construction \/ Submission \/ \E c \in Clients : Submit(c)
    BY <1>1 DEF Construction, SpawnWorker, Constructed, ConstructorThrows, Submit,
                Submission, SubmitLocks, Enqueue, PushFails, TurnAway, Refuse
<1>2. CASE Stopping
    BY <1>2 DEF Stopping, SetStopping, NotifyAll, Join, Destroy
<1>3. ASSUME NEW w \in Workers, Work(w)
      PROVE  owner' = owner
    BY <1>3 DEF Work, Acquire, FindsNothing, Sleep, WakesSpuriously, Exit, TakeJob,
                Expire, Begin, Finish, Throw, CloseJob
<1>4. CASE Tick \/ Over \/ UNCHANGED vars
    BY <1>4 DEF Tick, Over, vars
<1>5. QED
    BY <1>1, <1>2, <1>3, <1>4 DEF Next

\* Of what accept reports while the listener works, the code retries all but
\* three errors.
LEMMA FailuresAreRetried ==
    ASSUME NEW os_error \in AcceptErrors, ~broken, os_error \notin Unlisted
    PROVE  AcceptRetryFor(os_error) # "Never"
BY ServerAssumption
   DEF ServerAssumption, AcceptErrors, AcceptRetryFor, Exhaustion, OneClients, Unlisted,
       ErrorsOfTheListener, ErrorsOfTheMoment, ErrorsOfOneClient

\* What the loop ended by is not forgotten: only a step out of "ready" sets it.
LEMMA EndIsRemembered ==
    ASSUME ServerNext
    PROVE  /\ broken => broken'
           /\ Ending => ended_by' = ended_by
BY DEF ServerNext, Connect, ListenerBreaks, AcceptLoop, AcceptOne, AcceptFails, Accepting,
       PauseEnds, PoolStep, listenerVars, Ending

\* The accept loop begins the destructor only with the listener broken, or on
\* an error that its list lacks.
LEMMA StopsForAReason ==
    ASSUME TypeOK, NoListedErrorEndsTheServer, ServerNext
    PROVE  NoListedErrorEndsTheServer'
<1>1. (broken => broken') /\ (Ending => ended_by' = ended_by)
    BY EndIsRemembered
<1>2. ASSUME StopBegins PROVE broken \/ ended_by' \in Unlisted
    <2>1. owner = "ready" /\ owner' = "stop"
        BY <1>2 DEF StopBegins
    <2>2. PICK e \in Hiccups \cup {"EMFILE"} \cup ErrorsOfTheListener : AcceptFails(e)
        <3>1. ~PoolStep
            BY <2>1 DEF PoolStep, Construction, SpawnWorker, Constructed, ConstructorThrows,
                Submission, SubmitLocks, Enqueue, PushFails, TurnAway, Refuse,
                Stopping, SetStopping, NotifyAll, Join, Destroy, Tick, Over,
                Work, Acquire, FindsNothing, Sleep, WakesSpuriously, Exit, TakeJob,
                Expire, Begin, Finish, Throw, CloseJob
        <3>2. QED
            BY <2>1, <3>1 DEF ServerNext, Connect, ListenerBreaks, AcceptLoop, AcceptOne,
                              Submit, PauseEnds, vars
    <2>3. e \in AcceptErrors /\ AcceptRetryFor(e) = "Never" /\ ended_by' = e
        BY <2>1, <2>2 DEF AcceptFails, vars
    <2>4. QED
        BY <2>3, FailuresAreRetried
<1>3. QED
    BY <1>1, <1>2, EndsByStopping, ServerStepsThePool
       DEF NoListedErrorEndsTheServer

-----------------------------------------------------------------------------
(* The invariant of run.                                                   *)

\* A pool whose constructor threw has no thread: had one been started, the
\* process would have ended.
NoThreadUnbuilt == owner = "unbuilt" => \A w \in Workers : pc[w] = "unborn"

\* The pool exists only inside serve_forever, and the listener is open only
\* around it.
RunMatchesPool ==
    /\ listening <=> run = "serving"
    /\ run \in {"called", "InvalidLimits", "InvalidDeadlines", "BindFailed"} =>
           Unused /\ owner = "unbuilt"
    /\ run = "AcceptFailed" => owner = "gone"
    /\ run = "threw" => owner = "unbuilt"

AppInv ==
    /\ AppTypeOK
    /\ PoolInv
    /\ SocketHasOneOwner
    /\ AbandonedAtTheEnd
    /\ NoListedErrorEndsTheServer
    /\ NoThreadUnbuilt
    /\ RunMatchesPool

\* Members nobody has used are as good before the constructor as in it.
LEMMA UnusedPool ==
    ASSUME Unused, owner \in {"construct", "unbuilt"}
    PROVE  /\ PoolInv /\ SocketHasOneOwner /\ AbandonedAtTheEnd /\ NoThreadUnbuilt
           /\ NoListedErrorEndsTheServer
<1> USE PoolAssumption DEF PoolAssumption, Unused
<1>1. TypeOK
    <2>1. queue \in Seq(Clients)
        BY EmptySeq
    <2>2. age \in [Clients -> 0..(QueueWait + 1)]
        OBVIOUS
    <2>3. QED
        BY <2>1, <2>2 DEF TypeOK, OwnerStates, WorkerStates, Fates
<1>2. PoolInv
    BY <1>1 DEF PoolInv, LockDiscipline, HandsMatchControl, FlagMatchesControl,
                SleepsOnNothing, EmptyUntilBuilt, JoinedWorkersAreAwake, NoWorkerOutlivesPool
<1>3. SocketHasOneOwner
    BY DEF SocketHasOneOwner, InQueue, InWorker
<1>4. AbandonedAtTheEnd /\ NoThreadUnbuilt /\ NoListedErrorEndsTheServer
    BY DEF AbandonedAtTheEnd, NoThreadUnbuilt, NoListedErrorEndsTheServer, Ending
<1>5. QED
    BY <1>2, <1>3, <1>4

LEMMA ConstructionBegins ==
    Init' => /\ PoolInv' /\ SocketHasOneOwner' /\ AbandonedAtTheEnd' /\ NoThreadUnbuilt'
             /\ NoListedErrorEndsTheServer'
<1>1. Init => /\ PoolInv /\ SocketHasOneOwner /\ AbandonedAtTheEnd /\ NoThreadUnbuilt
              /\ NoListedErrorEndsTheServer
    BY UnusedPool DEF Init
<1>2. QED
    BY <1>1, PTL

LEMMA InitAppInv == AppInit => AppInv
<1> SUFFICES ASSUME AppInit PROVE AppInv
    OBVIOUS
<1>1. /\ PoolInv /\ SocketHasOneOwner /\ AbandonedAtTheEnd /\ NoThreadUnbuilt
      /\ NoListedErrorEndsTheServer
    BY UnusedPool DEF AppInit
<1>2. AppTypeOK
    BY <1>1 DEF AppInit, AppTypeOK, ServerTypeOK, NobodyCame, PoolInv, RunErrors
<1>3. RunMatchesPool
    BY DEF AppInit, RunMatchesPool
<1>4. QED
    BY <1>1, <1>2, <1>3 DEF AppInv

\* A thread appears only in a constructor that is running.
LEMMA NextNoThreadUnbuilt ==
    ASSUME PoolInv, NoThreadUnbuilt, [Next]_vars
    PROVE  NoThreadUnbuilt'
<1> USE DEF NoThreadUnbuilt
<1>1. CASE Construction
    BY <1>1 DEF Construction, SpawnWorker, Constructed, ConstructorThrows, Started, Unborn
<1>2. CASE Submission \/ Stopping \/ StopBegins \/ \E c \in Clients : Submit(c)
    BY <1>2 DEF Submission, SubmitLocks, Enqueue, PushFails, TurnAway, Refuse, Submit,
                Stopping, SetStopping, NotifyAll, Join, Destroy, StopBegins
<1>3. ASSUME NEW w \in Workers, Work(w)
      PROVE  owner' = owner /\ pc[w] # "unborn"
    BY <1>3 DEF Work, Acquire, FindsNothing, Sleep, WakesSpuriously, Exit, TakeJob,
                Expire, Begin, Finish, Throw, CloseJob
<1>4. CASE Tick \/ Over \/ UNCHANGED vars
    BY <1>4 DEF Tick, Over, vars
<1>5. QED
    BY <1>1, <1>2, <1>3, <1>4 DEF Next

LEMMA NextServerType ==
    ASSUME ServerTypeOK, PoolInv', ServerNext
    PROVE  ServerTypeOK'
<1> DEFINE Errnos == {"none"} \cup ErrorsOfTheListener \cup ErrorsOfTheMoment \cup ErrorsOfOneClient
<1>1. ended_by' \in Errnos
    <2>1. ASSUME NEW e, AcceptFails(e)
          PROVE  ended_by' \in Errnos
        <3>1. e \in ErrorsOfTheListener \cup ErrorsOfTheMoment \cup ErrorsOfOneClient
            BY <2>1 DEF AcceptFails, AcceptErrors, ErrorsOfTheMoment
        <3>2. ended_by' \in {e, ended_by}
            BY <2>1 DEF AcceptFails
        <3>3. QED
            BY <3>1, <3>2 DEF ServerTypeOK
    <2>2. QED
        BY <2>1 DEF ServerTypeOK, ServerNext, Connect, ListenerBreaks, AcceptLoop, AcceptOne,
                    PauseEnds, PoolStep, listenerVars
<1>2. /\ loop' \in {"accept", "pause"} /\ broken' \in BOOLEAN
      /\ pending' \subseteq arrived' /\ arrived' \subseteq Clients
    BY DEF ServerTypeOK, ServerNext, Connect, ListenerBreaks, AcceptLoop, AcceptOne,
           AcceptFails, PauseEnds, PoolStep, listenerVars
<1>3. QED
    BY <1>1, <1>2 DEF ServerTypeOK, PoolInv

\* No step of run, of the accept loop or of any thread leaves the invariant.
LEMMA NextAppInv == AppInv /\ [AppNext]_appVars => AppInv'
<1> SUFFICES ASSUME AppInv, [AppNext]_appVars
             PROVE  AppInv'
    OBVIOUS
<1>0. /\ AppTypeOK /\ PoolInv /\ SocketHasOneOwner /\ AbandonedAtTheEnd
      /\ NoListedErrorEndsTheServer /\ NoThreadUnbuilt /\ RunMatchesPool
    BY DEF AppInv
<1>1. ASSUME UNCHANGED vars, UNCHANGED <<broken, ended_by>>
      PROVE  /\ PoolInv' /\ SocketHasOneOwner' /\ AbandonedAtTheEnd'
             /\ NoListedErrorEndsTheServer' /\ NoThreadUnbuilt'
    <2>1. PoolInv'
        BY <1>0, <1>1, NextPoolInv
    <2>2. SocketHasOneOwner'
        BY <1>0, <1>1, OwnersKept DEF vars
    <2>3. QED
        BY <1>0, <1>1, <2>1, <2>2 DEF vars, AbandonedAtTheEnd, NoThreadUnbuilt,
                                     NoListedErrorEndsTheServer, Ending
<1>2. CASE Refuses \/ ListenFails
    <2>1. UNCHANGED <<vars, loop, arrived, pending, broken, ended_by, limits, listening>> /\ run = "called"
        BY <1>2 DEF Refuses, ListenFails, serverVars, listenerVars
    <2>2. run' \in {"InvalidLimits", "InvalidDeadlines", "BindFailed"}
        BY <1>2 DEF Refuses, ListenFails
    <2>3. AppTypeOK'
        BY <1>0, <1>1, <2>1, <2>2 DEF AppTypeOK, ServerTypeOK, PoolInv, RunErrors
    <2>4. RunMatchesPool'
        BY <1>0, <2>1, <2>2 DEF RunMatchesPool, Unused, vars
    <2>5. QED
        BY <1>1, <2>1, <2>3, <2>4 DEF AppInv
<1>3. CASE Listens
    <2>1. /\ Unused' /\ owner' = "construct" /\ run' = "serving" /\ listening'
          /\ UNCHANGED <<loop, arrived, pending, broken, ended_by, limits>>
        BY <1>0, <1>3 DEF Listens, RunMatchesPool, Unused, listenerVars
    <2>2. /\ PoolInv' /\ SocketHasOneOwner' /\ AbandonedAtTheEnd' /\ NoThreadUnbuilt'
          /\ NoListedErrorEndsTheServer'
        <3>1. Init'
            BY <2>1 DEF Init
        <3>2. QED
            BY <3>1, ConstructionBegins
    <2>3. AppTypeOK' /\ RunMatchesPool'
        BY <1>0, <2>1, <2>2 DEF AppTypeOK, ServerTypeOK, PoolInv, RunMatchesPool, RunErrors
    <2>4. QED
        BY <2>2, <2>3 DEF AppInv
<1>4. CASE Serves
    <2>1. /\ ServerNext /\ [Next]_vars /\ run = "serving"
          /\ UNCHANGED <<limits, listening, run>>
        BY <1>4, ServerStepsThePool DEF Serves
    <2>2. PoolInv' /\ SocketHasOneOwner'
        BY <1>0, <2>1, NextPoolInv, NextOneOwner
    <2>3. AbandonedAtTheEnd' /\ NoThreadUnbuilt'
        BY <1>0, <2>1, NextAbandonedAtTheEnd, NextNoThreadUnbuilt
    <2>4. NoListedErrorEndsTheServer'
        BY <1>0, <2>1, StopsForAReason DEF PoolInv
    <2>5. AppTypeOK'
        BY <1>0, <2>1, <2>2, NextServerType DEF AppTypeOK
    <2>6. RunMatchesPool'
        BY <1>0, <2>1 DEF RunMatchesPool
    <2>7. QED
        BY <2>2, <2>3, <2>4, <2>5, <2>6 DEF AppInv
<1>5. CASE Returns
    <2>1. /\ UNCHANGED <<vars, loop, arrived, broken, ended_by, limits>>
          /\ ~listening' /\ pending' = {}
          /\ \/ run' = "AcceptFailed" /\ owner = "gone"
             \/ run' = "threw" /\ owner = "unbuilt"
        BY <1>5 DEF Returns
    <2>2. AppTypeOK'
        BY <1>0, <1>1, <1>5, <2>1 DEF Returns, AppTypeOK, ServerTypeOK, PoolInv, RunErrors
    <2>3. RunMatchesPool'
        BY <1>0, <2>1 DEF RunMatchesPool, vars
    <2>4. QED
        BY <1>1, <2>1, <2>2, <2>3 DEF AppInv
<1>6. CASE Returned \/ UNCHANGED appVars
    <2>1. UNCHANGED <<vars, loop, arrived, pending, broken, ended_by, limits, listening, run>>
        BY <1>6 DEF Returned, appVars, serverVars, listenerVars
    <2>2. AppTypeOK' /\ RunMatchesPool'
        BY <1>0, <1>1, <2>1 DEF AppTypeOK, ServerTypeOK, PoolInv, RunMatchesPool, Unused, vars
    <2>3. QED
        BY <1>1, <2>1, <2>2 DEF AppInv
<1>7. QED
    BY <1>2, <1>3, <1>4, <1>5, <1>6 DEF AppNext

LEMMA AppInvariant == AppSpec => []AppInv
BY InitAppInv, NextAppInv, PTL DEF AppSpec

-----------------------------------------------------------------------------
(* What the invariant says.                                                *)

\* Every variable of run, of the accept loop and of the pool stays in its type
\* (app.cpp:90-110, serve.cpp:180-201).
THEOREM AppTypeCorrect == AppSpec => []AppTypeOK
<1>1. AppInv => AppTypeOK
    BY DEF AppInv
<1>2. QED
    BY <1>1, AppInvariant, PTL

\* The pool is destroyed only after the listening socket itself has failed, or
\* on one of the three errors of a new socket that the code's list lacks: of
\* everything else that accept(2) may report, with every descriptor in use or
\* not, nothing ends the server (serve.cpp:31-60).
THEOREM ServerOutlivesClients == AppSpec => []NoListedErrorEndsTheServer
<1>1. AppInv => NoListedErrorEndsTheServer
    BY DEF AppInv
<1>2. QED
    BY <1>1, AppInvariant, PTL

\* The pool inside App::run owns every descriptor once, as it does alone: being
\* built late, or never, changes nothing of it (app.cpp:104-110).
THEOREM OneOwnerUnderRun == AppSpec => []SocketHasOneOwner
<1>1. AppInv => SocketHasOneOwner
    BY DEF AppInv
<1>2. QED
    BY <1>1, AppInvariant, PTL

\* The pool inside App::run serves in the order of Dispatch too: no limit that is
\* refused, no failed bind, no constructor that throws and no listener that fails
\* is a step of it (app.cpp:90-110, serve.cpp:180-201).
THEOREM RunDispatches == AppSpec => ImplementsDispatch
<1>1. AppInit => Abstract!DInit
    BY PoolAssumption
       DEF PoolAssumption, AppInit, Unused, Abstract!DInit, DispatchStatus
<1>2. AppInv => Known
    BY StatusIsWhatBecameOfIt DEF AppInv, Known
<1>3. ASSUME AppInv, Known, Known', [AppNext]_appVars
      PROVE  [Abstract!DNext]_(Abstract!dispatchVars)
    <2>1. CASE Serves
        BY <1>3, <2>1, ServerStepsThePool, EveryStepDispatches DEF Serves
    <2>2. CASE Listens
        <3>1. held = None /\ UNCHANGED <<queue, stopping, held, job, fate>>
            BY <1>3, <2>2 DEF Listens, AppInv, RunMatchesPool, Unused
        <3>2. QED
            BY <1>3, <3>1, StandingStill DEF Known
    <2>3. CASE UNCHANGED vars
        BY <1>3, <2>3, EveryStepDispatches
    <2>4. QED
        BY <1>3, <2>1, <2>2, <2>3
           DEF AppNext, Refuses, ListenFails, Returns, Returned, appVars, serverVars
<1>4. QED
    BY <1>1, <1>2, <1>3, AppInvariant, PTL DEF AppSpec, ImplementsDispatch, Abstract!DSpec

\* A pool that is gone, or was not built, owns no descriptor.
LEMMA NothingIsOwned ==
    ASSUME PoolInv, SocketHasOneOwner, AbandonedAtTheEnd, NoThreadUnbuilt,
           owner \in {"gone", "unbuilt"}
    PROVE  OpenSockets = {} /\ \A w \in Workers : pc[w] \in {"unborn", "exited"}
<1>1. queue = <<>>
    BY DEF PoolInv, EmptyUntilBuilt, AbandonedAtTheEnd
<1>2. \A w \in Workers : pc[w] \in {"unborn", "exited"}
    BY DEF PoolInv, NoWorkerOutlivesPool, NoThreadUnbuilt
<1>3. held = None /\ \A w \in Workers : job[w] = None
    BY <1>2 DEF PoolInv, HandsMatchControl
<1>4. ASSUME NEW c \in Clients
      PROVE  fate[c] # "open"
    <2>1. c # None
        BY PoolAssumption DEF PoolAssumption
    <2>2. ~InQueue(c) /\ ~InWorker(c) /\ held # c
        BY <1>1, <1>3, <2>1 DEF InQueue, InWorker
    <2>3. QED
        BY <2>2 DEF SocketHasOneOwner
<1>5. QED
    BY <1>2, <1>4 DEF OpenSockets

\* When run has returned, however it did, nothing of it is left: no thread, no
\* descriptor of a client, no listening socket (app.hpp:61, app.cpp:90-110).
THEOREM NothingIsLeftBehind == AppSpec => []RunLeavesNothingBehind
<1>1. AppInv => RunLeavesNothingBehind
    <2> SUFFICES ASSUME AppInv, run \in RunErrors \cup {"threw"}
                 PROVE  /\ ~listening
                        /\ OpenSockets = {}
                        /\ \A w \in Workers : pc[w] \in {"unborn", "exited"}
        BY DEF RunLeavesNothingBehind
    <2>1. owner \in {"gone", "unbuilt"} /\ ~listening
        BY DEF AppInv, RunMatchesPool, RunErrors
    <2>2. OpenSockets = {} /\ \A w \in Workers : pc[w] \in {"unborn", "exited"}
        BY <2>1, NothingIsOwned DEF AppInv
    <2>3. QED
        BY <2>1, <2>2
<1>2. QED
    BY <1>1, AppInvariant, PTL
=============================================================================

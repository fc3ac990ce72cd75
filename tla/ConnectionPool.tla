--------------------------- MODULE ConnectionPool ---------------------------
(***************************************************************************)
(* The connection pool of src/src/server/pool.cpp: a fixed set of worker   *)
(* threads and a bounded queue of accepted connections, guarded by one     *)
(* mutex and one condition variable.                                       *)
(*                                                                         *)
(* Two kinds of thread act here.  The owner is the one thread that         *)
(* constructs the pool, submits to it and destroys it (in the program: the *)
(* accept thread, see Server.tla).  A worker runs ConnectionPool::work.    *)
(* Every interleaving point of the code is a step: taking the mutex, the   *)
(* predicate test of ready_.wait, going to sleep, each critical section,   *)
(* the sends made outside it, the three stages of stop().                  *)
(*                                                                         *)
(* Abstracted: what is said on a connection (serve_connection is the pair  *)
(* Finish / Throw; Connection.tla has the detail), whether the best-effort *)
(* 503 reached the client, and the clock, which is an age per waiting      *)
(* connection counted in ticks.                                            *)
(***************************************************************************)
EXTENDS Naturals, Sequences, FiniteSets

CONSTANTS
    Clients,      \* the connections that may be submitted, each once
    Workers,      \* the threads asked for: limits.workers of them
    Queued,       \* limits.queued
    QueueWait,    \* limits.queue_wait, in ticks
    Unlucky,      \* the clients for whom the queue's allocation may throw
    SpawnFaults,  \* what starting a thread may throw
    Owner,        \* the thread that owns the pool
    None          \* no client, no thread

ASSUME PoolAssumption ==
    /\ IsFiniteSet(Workers)
    /\ Queued \in Nat
    /\ QueueWait \in Nat
    /\ Unlucky \subseteq Clients
    /\ SpawnFaults \subseteq {"system_error", "bad_alloc"}
    /\ Owner \notin Workers
    /\ None \notin Workers \cup Clients \cup {Owner}

VARIABLES
    mutex,     \* the thread holding mutex_, or None
    queue,     \* queue_, oldest first
    stopping,  \* stopping_
    owner,     \* where the owner is
    held,      \* the connection in submit's parameter, or None
    pc,        \* where each worker is
    job,       \* the connection a worker has taken out of the queue, or None
    age,       \* ticks since a connection was queued, while that is read
    fate       \* what has become of each connection

vars == <<mutex, queue, stopping, owner, held, pc, job, age, fate>>

\* The owner: building the pool, idle between calls, inside submit, inside
\* stop and the member destructors, and the three ways it ends.
OwnerStates ==
    {"construct", "ready", "submit", "decide", "refuse",
     "stop", "notify", "join", "destroy", "gone", "unbuilt", "terminated"}

\* A worker: no thread yet, wanting the mutex, testing the predicate with it,
\* about to sleep with it, asleep in ready_.wait, out with a job, serving it,
\* returned.
WorkerStates ==
    {"unborn", "lock", "check", "sleep", "asleep", "popped", "serving", "exited"}

\* "new": not submitted.  "open": the descriptor is open in this program.
\* The rest say why it was closed.
Fates == {"new", "open", "served", "dropped", "refused", "expired", "abandoned"}

Asleep  == {w \in Workers : pc[w] = "asleep"}
Unborn  == {w \in Workers : pc[w] = "unborn"}
Started == Workers \ Unborn

\* The connections whose waiting time the code still measures.
Waiting == {c \in Clients : \/ \E i \in 1..Len(queue) : queue[i] = c
                            \/ \E w \in Workers : job[w] = c /\ pc[w] = "popped"}

\* The members before anything has used them.
Unused ==
    /\ mutex = None
    /\ queue = <<>>
    /\ stopping = FALSE
    /\ held = None
    /\ pc = [w \in Workers |-> "unborn"]
    /\ job = [w \in Workers |-> None]
    /\ age = [c \in Clients |-> 0]
    /\ fate = [c \in Clients |-> "new"]

Init == owner = "construct" /\ Unused

-----------------------------------------------------------------------------
(* The constructor.                                                        *)

SpawnWorker(w) ==
    /\ owner = "construct"
    /\ pc[w] = "unborn"
    /\ pc' = [pc EXCEPT ![w] = "lock"]
    /\ UNCHANGED <<mutex, queue, stopping, owner, held, job, age, fate>>

\* The loop has run its count, or std::system_error broke out of it.
Constructed ==
    /\ owner = "construct"
    /\ Unborn = {} \/ "system_error" \in SpawnFaults
    /\ owner' = "ready"
    /\ UNCHANGED <<mutex, queue, stopping, held, pc, job, age, fate>>

\* Anything else thrown leaves the constructor.  The vector's destructor ends
\* the process if a thread in it still runs.
ConstructorThrows ==
    /\ owner = "construct"
    /\ Unborn # {}
    /\ "bad_alloc" \in SpawnFaults
    /\ owner' = IF Started = {} THEN "unbuilt" ELSE "terminated"
    /\ pc' = [w \in Workers |-> IF w \in Started THEN "exited" ELSE "unborn"]
    /\ mutex' = None
    /\ UNCHANGED <<queue, stopping, held, job, age, fate>>

-----------------------------------------------------------------------------
(* submit                                                                  *)

Submit(c) ==
    /\ owner = "ready"
    /\ fate[c] = "new"
    /\ owner' = "submit"
    /\ held' = c
    /\ fate' = [fate EXCEPT ![c] = "open"]
    /\ UNCHANGED <<mutex, queue, stopping, pc, job, age>>

SubmitLocks ==
    /\ owner = "submit"
    /\ mutex = None
    /\ mutex' = Owner
    /\ owner' = "decide"
    /\ UNCHANGED <<queue, stopping, held, pc, job, age, fate>>

HasRoom == ~stopping /\ Len(queue) < Queued

\* Mutants: notified only when the queue was empty, or never.
NotifyOneIfFirst ==
    IF Asleep = {} \/ queue # <<>> THEN pc' = pc
    ELSE \E w \in Asleep : pc' = [pc EXCEPT ![w] = "lock"]
NotifyNobody == pc' = pc

\* notify_one: one sleeper, whichever the system picks, is sent for the mutex.
NotifyOne ==
    IF Asleep = {} THEN pc' = pc
    ELSE \E w \in Asleep : pc' = [pc EXCEPT ![w] = "lock"]

\* Mutant: the empty node is pushed and the connection never moved into it.
EnqueueEmptyNode ==
    /\ owner = "decide"
    /\ HasRoom
    /\ queue' = Append(queue, None)
    /\ NotifyOne
    /\ mutex' = None
    /\ owner' = "ready"
    /\ UNCHANGED <<stopping, held, job, age, fate>>

Enqueue ==
    /\ owner = "decide"
    /\ HasRoom
    /\ queue' = Append(queue, held)
    /\ age' = [age EXCEPT ![held] = 0]
    /\ held' = None
    /\ NotifyOne
    /\ mutex' = None
    /\ owner' = "ready"
    /\ UNCHANGED <<stopping, job, fate>>

\* Mutant: the connection had already moved into the node that failed.
PushFailsAfterMove ==
    /\ held \in Unlucky
    /\ owner = "decide"
    /\ HasRoom
    /\ mutex' = None
    /\ held' = None
    /\ owner' = "ready"
    /\ UNCHANGED <<queue, stopping, pc, job, age, fate>>

\* The empty node could not be made: the socket has not moved into it.
PushFails ==
    /\ held \in Unlucky
    /\ owner = "decide"
    /\ HasRoom
    /\ mutex' = None
    /\ owner' = "refuse"
    /\ UNCHANGED <<queue, stopping, held, pc, job, age, fate>>

\* Mutant: the refusal is sent with the mutex held.
TurnAwayUnderLock ==
    /\ owner = "decide"
    /\ ~HasRoom
    /\ owner' = "refuse"
    /\ UNCHANGED <<mutex, queue, stopping, held, pc, job, age, fate>>

TurnAway ==
    /\ owner = "decide"
    /\ ~HasRoom
    /\ mutex' = None
    /\ owner' = "refuse"
    /\ UNCHANGED <<queue, stopping, held, pc, job, age, fate>>

\* write_now of the 503, then the parameter's destructor closes the socket.
Refuse ==
    /\ owner = "refuse"
    /\ fate' = [fate EXCEPT ![held] = "refused"]
    /\ held' = None
    /\ owner' = "ready"
    /\ UNCHANGED <<mutex, queue, stopping, pc, job, age>>

-----------------------------------------------------------------------------
(* work                                                                    *)

\* At the top of the loop, and again inside ready_.wait after a wake.
Acquire(w) ==
    /\ pc[w] = "lock"
    /\ mutex = None
    /\ mutex' = w
    /\ pc' = [pc EXCEPT ![w] = "check"]
    /\ UNCHANGED <<queue, stopping, owner, held, job, age, fate>>

\* The wait predicate is false.
FindsNothing(w) ==
    /\ pc[w] = "check"
    /\ ~stopping
    /\ queue = <<>>
    /\ pc' = [pc EXCEPT ![w] = "sleep"]
    /\ UNCHANGED <<mutex, queue, stopping, owner, held, job, age, fate>>

\* The mutex is given up and the thread queued on ready_ in one step.
Sleep(w) ==
    /\ pc[w] = "sleep"
    /\ pc' = [pc EXCEPT ![w] = "asleep"]
    /\ mutex' = None
    /\ UNCHANGED <<queue, stopping, owner, held, job, age, fate>>

WakesSpuriously(w) ==
    /\ pc[w] = "asleep"
    /\ pc' = [pc EXCEPT ![w] = "lock"]
    /\ UNCHANGED <<mutex, queue, stopping, owner, held, job, age, fate>>

Exit(w) ==
    /\ pc[w] = "check"
    /\ stopping
    /\ pc' = [pc EXCEPT ![w] = "exited"]
    /\ mutex' = None
    /\ UNCHANGED <<queue, stopping, owner, held, job, age, fate>>

MayTake == ~stopping /\ queue # <<>>

\* Mutant: the newest connection first.
TakeNewest(w) ==
    /\ pc[w] = "check"
    /\ MayTake
    /\ job' = [job EXCEPT ![w] = queue[Len(queue)]]
    /\ queue' = SubSeq(queue, 1, Len(queue) - 1)
    /\ pc' = [pc EXCEPT ![w] = "popped"]
    /\ mutex' = None
    /\ UNCHANGED <<stopping, owner, held, age, fate>>

TakeJob(w) ==
    /\ pc[w] = "check"
    /\ MayTake
    /\ job' = [job EXCEPT ![w] = Head(queue)]
    /\ queue' = Tail(queue)
    /\ pc' = [pc EXCEPT ![w] = "popped"]
    /\ mutex' = None
    /\ UNCHANGED <<stopping, owner, held, age, fate>>

\* Mutant: the descriptor is not closed with the job.
LeakJob(w, why) ==
    /\ job' = [job EXCEPT ![w] = None]
    /\ pc' = [pc EXCEPT ![w] = "lock"]
    /\ UNCHANGED <<mutex, queue, stopping, owner, held, age, fate>>

\* A worker lets go of its connection, which closes it, and looks for another.
CloseJob(w, why) ==
    /\ fate' = [fate EXCEPT ![job[w]] = why]
    /\ job' = [job EXCEPT ![w] = None]
    /\ pc' = [pc EXCEPT ![w] = "lock"]
    /\ UNCHANGED <<mutex, queue, stopping, owner, held, age>>

\* Waited past queue_wait: refused as a full queue refuses.
Expire(w) ==
    /\ pc[w] = "popped"
    /\ age[job[w]] > QueueWait
    /\ CloseJob(w, "expired")

Begin(w) ==
    /\ pc[w] = "popped"
    /\ age[job[w]] <= QueueWait
    /\ pc' = [pc EXCEPT ![w] = "serving"]
    /\ UNCHANGED <<mutex, queue, stopping, owner, held, job, age, fate>>

\* serve_connection returns, or something in it threw and was swallowed.
Finish(w) == pc[w] = "serving" /\ CloseJob(w, "served")
Throw(w)  == pc[w] = "serving" /\ CloseJob(w, "dropped")

-----------------------------------------------------------------------------
(* The destructor: stop(), then the members.                               *)

StopBegins ==
    /\ owner = "ready"
    /\ owner' = "stop"
    /\ UNCHANGED <<mutex, queue, stopping, held, pc, job, age, fate>>

\* Mutant: the flag is set without the mutex.
SetStoppingUnlocked ==
    /\ owner = "stop"
    /\ stopping' = TRUE
    /\ owner' = "notify"
    /\ UNCHANGED <<mutex, queue, held, pc, job, age, fate>>

\* The flag is set under the mutex, which is released at once.
SetStopping ==
    /\ owner = "stop"
    /\ mutex = None
    /\ stopping' = TRUE
    /\ owner' = "notify"
    /\ UNCHANGED <<mutex, queue, held, pc, job, age, fate>>

NotifyAll ==
    /\ owner = "notify"
    /\ pc' = [w \in Workers |-> IF pc[w] = "asleep" THEN "lock" ELSE pc[w]]
    /\ owner' = "join"
    /\ UNCHANGED <<mutex, queue, stopping, held, job, age, fate>>

\* Mutant: the threads are not joined.
JoinNobody ==
    /\ owner = "join"
    /\ owner' = "destroy"
    /\ UNCHANGED <<mutex, queue, stopping, held, pc, job, age, fate>>

\* The joins, in order, are over when every started thread has returned.
Join ==
    /\ owner = "join"
    /\ \A w \in Started : pc[w] = "exited"
    /\ owner' = "destroy"
    /\ UNCHANGED <<mutex, queue, stopping, held, pc, job, age, fate>>

\* queue_'s destructor closes what is left in it.
Destroy ==
    /\ owner = "destroy"
    /\ fate' = [c \in Clients |-> IF \E i \in 1..Len(queue) : queue[i] = c
                                  THEN "abandoned" ELSE fate[c]]
    /\ queue' = <<>>
    /\ owner' = "gone"
    /\ UNCHANGED <<mutex, stopping, held, pc, job, age>>

-----------------------------------------------------------------------------
\* Time passes for whoever waits.  Ages past QueueWait are all alike.
Tick ==
    /\ \E c \in Waiting : age[c] <= QueueWait
    /\ age' = [c \in Clients |-> IF c \in Waiting /\ age[c] <= QueueWait
                                 THEN age[c] + 1 ELSE age[c]]
    /\ UNCHANGED <<mutex, queue, stopping, owner, held, pc, job, fate>>

\* The pool is no more: nothing is left to happen.
Over ==
    /\ owner \in {"gone", "unbuilt", "terminated"}
    /\ UNCHANGED vars

Construction == (\E w \in Workers : SpawnWorker(w)) \/ Constructed \/ ConstructorThrows
Submission   == SubmitLocks \/ Enqueue \/ PushFails \/ TurnAway \/ Refuse
Stopping     == SetStopping \/ NotifyAll \/ Join \/ Destroy

Work(w) == \/ Acquire(w) \/ FindsNothing(w) \/ Sleep(w) \/ WakesSpuriously(w)
           \/ Exit(w) \/ TakeJob(w) \/ Expire(w) \/ Begin(w) \/ Finish(w) \/ Throw(w)

Next ==
    \/ Construction
    \/ \E c \in Clients : Submit(c)
    \/ Submission
    \/ StopBegins
    \/ Stopping
    \/ \E w \in Workers : Work(w)
    \/ Tick
    \/ Over

Spec == Init /\ [][Next]_vars

(***************************************************************************)
(* Fairness.  A runnable thread runs, and a thread that wants the mutex    *)
(* gets it if it keeps being released (the others may pass first, hence    *)
(* SF).  No fairness for submitting, for stopping, for failing or for      *)
(* spurious wakes; and none for the end of serve_connection, which goes on *)
(* for as long as its client keeps asking (serve.cpp:141).                 *)
(***************************************************************************)
Fairness ==
    /\ WF_vars(Construction)
    /\ SF_vars(SubmitLocks)
    /\ WF_vars(Enqueue \/ PushFails \/ TurnAway \/ Refuse)
    /\ SF_vars(SetStopping)
    /\ WF_vars(NotifyAll \/ Join \/ Destroy)
    /\ \A w \in Workers :
        /\ SF_vars(Acquire(w))
        /\ WF_vars(FindsNothing(w) \/ Sleep(w) \/ Exit(w) \/ TakeJob(w))
        /\ WF_vars(Expire(w) \/ Begin(w))

FairSpec == Spec /\ Fairness

-----------------------------------------------------------------------------
(* Safety.                                                                 *)

TypeOK ==
    /\ mutex \in Workers \cup {Owner, None}
    /\ queue \in Seq(Clients)
    /\ stopping \in BOOLEAN
    /\ owner \in OwnerStates
    /\ held \in Clients \cup {None}
    /\ pc \in [Workers -> WorkerStates]
    /\ job \in [Workers -> Clients \cup {None}]
    /\ age \in [Clients -> 0..(QueueWait + 1)]
    /\ fate \in [Clients -> Fates]

InQueue(c)   == \E i \in 1..Len(queue) : queue[i] = c
InWorker(c)  == \E w \in Workers : job[w] = c

(***************************************************************************)
(* A descriptor is open exactly while one place owns it: submit's          *)
(* parameter, one position of the queue or one worker.  Violated by any    *)
(* path that forgets a connection (a leak) or keeps one it handed over     *)
(* (served twice, closed twice): the failed push of submit is the one that *)
(* invites it (pool.cpp:57-70).                                            *)
(***************************************************************************)
SocketHasOneOwner ==
    /\ \A c \in Clients : (fate[c] = "open") <=> (held = c \/ InQueue(c) \/ InWorker(c))
    /\ \A c \in Clients : /\ held = c => ~InQueue(c) /\ ~InWorker(c)
                          /\ InQueue(c) => ~InWorker(c)
    /\ \A i, j \in 1..Len(queue) : queue[i] = queue[j] => i = j
    /\ \A v, w \in Workers : job[v] = job[w] /\ job[v] # None => v = w

Awake == {w \in Workers : pc[w] \in {"lock", "check", "sleep"}}

(***************************************************************************)
(* No lost wakeup: as long as a worker sleeps, every queued connection has *)
(* a worker of its own already on the way to the queue (pool.cpp:57-62 and *)
(* 81).  Several submits may pass before one woken worker has the mutex,   *)
(* and a worker that never slept may take the job meant for a woken one.   *)
(***************************************************************************)
NobodySleepsOnWork ==
    ~stopping /\ Asleep # {} => Len(queue) <= Cardinality(Awake)

(***************************************************************************)
(* The pool holds a bounded number of descriptors: one per worker, one per *)
(* place in the queue and the one being submitted (config.hpp:10-11).      *)
(***************************************************************************)
DescriptorsBounded ==
    Cardinality({c \in Clients : fate[c] = "open"}) <= Cardinality(Workers) + Queued + 1

(***************************************************************************)
(* Once stop() has notified, no worker sleeps or will go to sleep: the     *)
(* joins that follow cannot wait for a thread nobody will wake             *)
(* (pool.cpp:112-121).                                                     *)
(***************************************************************************)
JoinedWorkersAreAwake ==
    owner \in {"join", "destroy", "gone"} =>
        \A w \in Workers : pc[w] \notin {"sleep", "asleep"}

(***************************************************************************)
(* The mutex is never held across a send, across serving or across a join: *)
(* what the comments at pool.cpp:54-55 and 110-111 promise.                *)
(***************************************************************************)
NoBlockingUnderLock ==
    /\ mutex = Owner => owner = "decide"
    /\ \A w \in Workers : mutex = w => pc[w] \in {"check", "sleep"}

\* The pool's members outlive its threads: when they are destroyed, no worker
\* is left that could touch them (pool.hpp:64-65).
NoWorkerOutlivesPool ==
    owner \in {"destroy", "gone", "terminated"} =>
        \A w \in Workers : pc[w] \in {"unborn", "exited"}

-----------------------------------------------------------------------------
(* Action properties.                                                      *)

(***************************************************************************)
(* Stopping is the end of dispatch: once the flag is set no connection     *)
(* enters or leaves the queue except to be closed unserved by the          *)
(* destructor, even though workers still run and still have jobs           *)
(* (pool.hpp:29, "Queued connections are closed unserved, and ones being   *)
(* served are finished").                                                  *)
(***************************************************************************)
NothingDispatchedAfterStop ==
    [][stopping => \A c \in Clients :
          /\ InQueue(c) => InQueue(c)' \/ fate'[c] = "abandoned"
          /\ ~InQueue(c) => ~InQueue(c)' /\ fate'[c] # "abandoned"]_vars

-----------------------------------------------------------------------------
(* Liveness.                                                               *)

\* What the pool cannot promise and its liveness needs: each worker is between
\* two connections again and again.  A keep-alive client that never falls
\* silent keeps its worker for ever, since nothing counts its requests.
NobodyKeepsAWorker == \A w \in Workers : []<>(pc[w] # "serving")

(***************************************************************************)
(* Whatever the pool accepts it lets go of: with at least one worker, and  *)
(* none of them kept for ever, every submitted connection is eventually    *)
(* served, refused or closed; none is forgotten in the queue or in hand.   *)
(***************************************************************************)
EveryClientIsReleased ==
    NobodyKeepsAWorker =>
        \A c \in Clients : (fate[c] = "open" /\ Started # {}) ~> (fate[c] # "open")

\* "A smaller pool than asked for still serves" (pool.cpp:41), with no bound
\* on how much smaller.
SmallerPoolStillServes ==
    NobodyKeepsAWorker => \A c \in Clients : fate[c] = "open" ~> fate[c] # "open"

-----------------------------------------------------------------------------
(* Refinement.                                                             *)

\* The refusal is decided when the mutex is released, before the 503 is sent.
DispatchStatus(c) ==
    CASE fate[c] = "new" \/ (held = c /\ owner # "refuse") -> "outside"
      [] held = c /\ owner = "refuse"                      -> "refused"
      [] fate[c] = "open" /\ InQueue(c)                    -> "in line"
      [] fate[c] = "open" /\ InWorker(c)                   -> "in hand"
      [] OTHER                                             -> fate[c]

Abstract == INSTANCE Dispatch WITH
    Servers  <- Cardinality(Workers),
    Capacity <- Queued,
    line     <- queue,
    status   <- [c \in Clients |-> DispatchStatus(c)],
    closed   <- stopping

(***************************************************************************)
(* The threads, the mutex and the condition variable together keep the     *)
(* promise of Dispatch: first come first served, no more than limits.workers *)
(* in hand and limits.queued in line, nobody turned away while there is    *)
(* room, the line dissolved only after the last connection in hand.        *)
(***************************************************************************)
ImplementsDispatch == Abstract!DSpec
=============================================================================

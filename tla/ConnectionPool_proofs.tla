------------------------ MODULE ConnectionPool_proofs ------------------------
(***************************************************************************)
(* Proofs about the connection pool, for every number of workers, clients  *)
(* and places in the queue.                                                *)
(*                                                                         *)
(* PoolInv is the inductive invariant: the type invariant, who holds the   *)
(* mutex and the connections, what the flag says of the owner, and what    *)
(* each stage of construction and destruction leaves behind.  The facts    *)
(* about ownership of the descriptors and about sleepers are then proved   *)
(* on top of it, each inductive relative to PoolInv, and from the one      *)
(* owner a descriptor has, that the pool implements Dispatch.              *)
(***************************************************************************)
EXTENDS ConnectionPool, FiniteSetTheorems, SequenceTheorems, TLAPS

-----------------------------------------------------------------------------
(* The parts of the invariant.                                             *)

\* The mutex is held exactly in the critical sections.
LockDiscipline ==
    /\ mutex = Owner <=> owner = "decide"
    /\ \A w \in Workers : mutex = w <=> pc[w] \in {"check", "sleep"}

\* A connection is in a hand exactly where the code has one in scope.
HandsMatchControl ==
    /\ held # None <=> owner \in {"submit", "decide", "refuse"}
    /\ \A w \in Workers : job[w] # None <=> pc[w] \in {"popped", "serving"}

\* stopping_ is set by stop() and never cleared.
FlagMatchesControl == stopping <=> owner \in {"notify", "join", "destroy", "gone"}

\* Between its predicate test and its sleep a worker has the mutex, so what it
\* saw still holds.
SleepsOnNothing == \A w \in Workers : pc[w] = "sleep" => queue = <<>> /\ ~stopping

\* Nothing is submitted to a pool that is being built or was never built.
EmptyUntilBuilt ==
    owner \in {"construct", "unbuilt", "terminated"} =>
        queue = <<>> /\ \A w \in Workers : job[w] = None

PoolInv ==
    /\ TypeOK
    /\ LockDiscipline
    /\ HandsMatchControl
    /\ FlagMatchesControl
    /\ SleepsOnNothing
    /\ EmptyUntilBuilt
    /\ JoinedWorkersAreAwake
    /\ NoWorkerOutlivesPool

-----------------------------------------------------------------------------
\* The pool starts in the invariant.
LEMMA InitPoolInv == Init => PoolInv
<1> SUFFICES ASSUME Init PROVE PoolInv
    OBVIOUS
<1> USE PoolAssumption DEF PoolAssumption, Init, Unused
<1>1. TypeOK
    <2>1. queue \in Seq(Clients)
        BY EmptySeq
    <2>2. age \in [Clients -> 0..(QueueWait + 1)]
        OBVIOUS
    <2>3. QED
        BY <2>1, <2>2 DEF TypeOK, OwnerStates, WorkerStates, Fates
<1>2. LockDiscipline
    BY DEF LockDiscipline
<1>3. HandsMatchControl /\ FlagMatchesControl
    BY DEF HandsMatchControl, FlagMatchesControl
<1>4. SleepsOnNothing /\ EmptyUntilBuilt
    BY DEF SleepsOnNothing, EmptyUntilBuilt
<1>5. JoinedWorkersAreAwake /\ NoWorkerOutlivesPool
    BY DEF JoinedWorkersAreAwake, NoWorkerOutlivesPool
<1>6. QED
    BY <1>1, <1>2, <1>3, <1>4, <1>5 DEF PoolInv

\* No step of any thread leaves the invariant.
LEMMA NextPoolInv == PoolInv /\ [Next]_vars => PoolInv'
<1> SUFFICES ASSUME PoolInv, [Next]_vars
             PROVE  PoolInv'
    OBVIOUS
<1> USE PoolAssumption
    DEF PoolAssumption, PoolInv, TypeOK, LockDiscipline, HandsMatchControl,
        FlagMatchesControl, SleepsOnNothing, EmptyUntilBuilt,
        JoinedWorkersAreAwake, NoWorkerOutlivesPool,
        OwnerStates, WorkerStates, Fates
<1>1. ASSUME NEW w \in Workers, SpawnWorker(w)
      PROVE  PoolInv'
    BY <1>1 DEF SpawnWorker
<1>2. CASE Constructed
    BY <1>2 DEF Constructed
<1>3. CASE ConstructorThrows
    BY <1>3 DEF ConstructorThrows, Started, Unborn
<1>4. ASSUME NEW c \in Clients, Submit(c)
      PROVE  PoolInv'
    BY <1>4 DEF Submit
<1>5. CASE SubmitLocks
    BY <1>5 DEF SubmitLocks
<1>6. CASE Enqueue
    <2>1. held \in Clients /\ queue' = Append(queue, held) /\ queue' \in Seq(Clients)
        BY <1>6, AppendProperties DEF Enqueue
    <2>2. \/ pc' = pc
          \/ \E w \in Workers : pc[w] = "asleep" /\ pc' = [pc EXCEPT ![w] = "lock"]
        BY <1>6 DEF Enqueue, NotifyOne, Asleep
    <2>3. \A w \in Workers : pc[w] # "sleep"
        BY <1>6 DEF Enqueue
    <2>4. /\ mutex' = None /\ owner' = "ready" /\ held' = None
          /\ UNCHANGED <<stopping, job, fate>>
          /\ owner = "decide" /\ ~stopping
          /\ age' = [age EXCEPT ![held] = 0]
        BY <1>6 DEF Enqueue, HasRoom
    <2>5. TypeOK'
        BY <2>1, <2>2, <2>4
    <2>6. (LockDiscipline /\ SleepsOnNothing)'
        BY <2>2, <2>3, <2>4
    <2>7. (HandsMatchControl /\ FlagMatchesControl)'
        BY <2>2, <2>4
    <2>8. (EmptyUntilBuilt /\ JoinedWorkersAreAwake /\ NoWorkerOutlivesPool)'
        BY <2>4
    <2>9. QED
        BY <2>5, <2>6, <2>7, <2>8
<1>7. CASE PushFails
    BY <1>7 DEF PushFails
<1>8. CASE TurnAway
    BY <1>8 DEF TurnAway
<1>9. CASE Refuse
    BY <1>9 DEF Refuse
<1>10. CASE StopBegins
    BY <1>10 DEF StopBegins
<1>11. CASE SetStopping
    BY <1>11 DEF SetStopping
<1>12. CASE NotifyAll
    BY <1>12 DEF NotifyAll
<1>13. CASE Join
    BY <1>13 DEF Join, Started, Unborn
<1>14. CASE Destroy
    BY <1>14 DEF Destroy
<1>15. ASSUME NEW w \in Workers, Acquire(w)
       PROVE  PoolInv'
    BY <1>15 DEF Acquire
<1>16. ASSUME NEW w \in Workers, FindsNothing(w)
       PROVE  PoolInv'
    BY <1>16 DEF FindsNothing
<1>17. ASSUME NEW w \in Workers, Sleep(w)
       PROVE  PoolInv'
    BY <1>17 DEF Sleep
<1>18. ASSUME NEW w \in Workers, WakesSpuriously(w)
       PROVE  PoolInv'
    BY <1>18 DEF WakesSpuriously
<1>19. ASSUME NEW w \in Workers, Exit(w)
       PROVE  PoolInv'
    BY <1>19 DEF Exit
<1>20. ASSUME NEW w \in Workers, TakeJob(w)
       PROVE  PoolInv'
    <2>1. Head(queue) \in Clients /\ Tail(queue) \in Seq(Clients)
        BY <1>20, HeadTailProperties DEF TakeJob, MayTake
    <2>2. TypeOK'
        BY <1>20, <2>1 DEF TakeJob, MayTake
    <2>3. (LockDiscipline /\ HandsMatchControl /\ FlagMatchesControl)'
        BY <1>20, <2>1 DEF TakeJob, MayTake
    <2>4. (SleepsOnNothing /\ EmptyUntilBuilt)'
        BY <1>20 DEF TakeJob, MayTake
    <2>5. (JoinedWorkersAreAwake /\ NoWorkerOutlivesPool)'
        BY <1>20 DEF TakeJob, MayTake
    <2>6. QED
        BY <2>2, <2>3, <2>4, <2>5
<1>21. ASSUME NEW w \in Workers, Expire(w) \/ Finish(w) \/ Throw(w)
       PROVE  PoolInv'
    <2>1. PICK why \in Fates : pc[w] \in {"popped", "serving"} /\ CloseJob(w, why)
        BY <1>21 DEF Expire, Finish, Throw
    <2>2. TypeOK'
        BY <2>1 DEF CloseJob
    <2>3. (LockDiscipline /\ HandsMatchControl /\ FlagMatchesControl)'
        BY <2>1 DEF CloseJob
    <2>4. (SleepsOnNothing /\ EmptyUntilBuilt /\ JoinedWorkersAreAwake)'
        BY <2>1 DEF CloseJob
    <2>5. NoWorkerOutlivesPool'
        BY <2>1 DEF CloseJob
    <2>6. QED
        BY <2>2, <2>3, <2>4, <2>5
<1>22. ASSUME NEW w \in Workers, Begin(w)
       PROVE  PoolInv'
    BY <1>22 DEF Begin
<1>23. CASE Tick
    BY <1>23 DEF Tick, Waiting
<1>24. CASE UNCHANGED vars
    BY <1>24 DEF vars
<1>25. QED
    BY <1>1, <1>2, <1>3, <1>4, <1>5, <1>6, <1>7, <1>8, <1>9, <1>10, <1>11,
       <1>12, <1>13, <1>14, <1>15, <1>16, <1>17, <1>18, <1>19, <1>20, <1>21,
       <1>22, <1>23, <1>24
       DEF Next, Construction, Submission, Stopping, Work, Over

\* The pool's invariant holds of every behaviour.
THEOREM PoolInvariant == Spec => []PoolInv
<1>1. QED
    BY InitPoolInv, NextPoolInv, PTL DEF Spec

\* Every variable stays in its type (pool.hpp:52-65).
THEOREM TypeCorrect == Spec => []TypeOK
<1>1. PoolInv => TypeOK
    BY DEF PoolInv
<1>2. QED
    BY <1>1, PoolInvariant, PTL

\* Once stop() has notified, no worker is asleep or about to be, so every join
\* waits for a thread that is on its way out (pool.cpp:112-121).
THEOREM JoinsFindNobodyAsleep == Spec => []JoinedWorkersAreAwake
<1>1. PoolInv => JoinedWorkersAreAwake
    BY DEF PoolInv
<1>2. QED
    BY <1>1, PoolInvariant, PTL

\* No send, no serving and no join happens with the mutex held
\* (pool.cpp:54-55, 110-111).
THEOREM LockIsBrief == Spec => []NoBlockingUnderLock
<1>1. PoolInv => NoBlockingUnderLock
    BY DEF PoolInv, LockDiscipline, NoBlockingUnderLock
<1>2. QED
    BY <1>1, PoolInvariant, PTL

\* The queue, the mutex and the condition variable are destroyed only after
\* the last thread that uses them has returned (pool.hpp:64-65).
THEOREM MembersOutliveThreads == Spec => []NoWorkerOutlivesPool
<1>1. PoolInv => NoWorkerOutlivesPool
    BY DEF PoolInv
<1>2. QED
    BY <1>1, PoolInvariant, PTL

-----------------------------------------------------------------------------
(* Who owns a descriptor.                                                  *)

\* A pool that has just started owns none.
LEMMA InitOneOwner == Init => SocketHasOneOwner
BY PoolAssumption DEF PoolAssumption, Init, Unused, SocketHasOneOwner, InQueue, InWorker

\* A step that moves no connection keeps the owners.
LEMMA OwnersKept ==
    ASSUME SocketHasOneOwner, UNCHANGED <<queue, held, job, fate>>
    PROVE  SocketHasOneOwner'
BY DEF SocketHasOneOwner, InQueue, InWorker

\* Ownership moves, and never splits or is lost, on every step that hands a
\* connection on: from the accept thread to submit's parameter, to the queue,
\* to a worker, and from each of them to closed.
LEMMA NextOneOwner == PoolInv /\ SocketHasOneOwner /\ [Next]_vars => SocketHasOneOwner'
<1> SUFFICES ASSUME PoolInv, SocketHasOneOwner, [Next]_vars
             PROVE  SocketHasOneOwner'
    OBVIOUS
<1> USE PoolAssumption DEF PoolAssumption
<1>0. /\ TypeOK /\ HandsMatchControl
      /\ queue \in Seq(Clients) /\ Len(queue) \in Nat
      /\ held \in Clients \cup {None}
      /\ job \in [Workers -> Clients \cup {None}]
      /\ fate \in [Clients -> Fates]
      /\ \A i \in 1..Len(queue) : queue[i] \in Clients
    BY LenProperties, ElementOfSeq DEF PoolInv, TypeOK
<1>1. ASSUME NEW c \in Clients, Submit(c)
      PROVE  SocketHasOneOwner'
    <2>1. held = None
        BY <1>0, <1>1 DEF Submit, HandsMatchControl
    <2>2. ~InQueue(c) /\ ~InWorker(c)
        BY <1>1 DEF Submit, SocketHasOneOwner
    <2>3. QED
        BY <1>0, <1>1, <2>1, <2>2 DEF Submit, SocketHasOneOwner, InQueue, InWorker
<1>2. CASE Enqueue
    <2>1. held \in Clients /\ held' = None /\ UNCHANGED <<job, fate>>
        BY <1>0, <1>2 DEF Enqueue, HandsMatchControl
    <2>2. /\ Len(queue') = Len(queue) + 1
          /\ \A i \in 1..Len(queue) : queue'[i] = queue[i]
          /\ queue'[Len(queue) + 1] = held
        BY <1>0, <1>2, <2>1, AppendProperties DEF Enqueue
    <2>3. \A i \in 1..Len(queue) : queue[i] # held
        BY <2>1 DEF SocketHasOneOwner, InQueue
    <2>4. \A c \in Clients : InQueue(c)' <=> InQueue(c) \/ c = held
        BY <1>0, <2>2 DEF InQueue
    <2>5. \A c \in Clients : InWorker(c)' <=> InWorker(c)
        BY <2>1 DEF InWorker
    <2>6. \A i, j \in 1..Len(queue') : queue'[i] = queue'[j] => i = j
        BY <1>0, <2>2, <2>3 DEF SocketHasOneOwner
    <2>7. QED
        BY <2>1, <2>4, <2>5, <2>6 DEF SocketHasOneOwner
<1>3. CASE Refuse
    <2>1. held \in Clients /\ held' = None /\ UNCHANGED <<queue, job>>
        BY <1>0, <1>3 DEF Refuse, HandsMatchControl
    <2>2. fate' = [fate EXCEPT ![held] = "refused"]
        BY <1>3 DEF Refuse
    <2>3. QED
        BY <1>0, <2>1, <2>2 DEF SocketHasOneOwner, InQueue, InWorker
<1>4. ASSUME NEW w \in Workers, TakeJob(w)
      PROVE  SocketHasOneOwner'
    <2>1. /\ job[w] = None /\ queue # <<>>
          /\ job' = [job EXCEPT ![w] = Head(queue)]
          /\ UNCHANGED <<held, fate>>
        BY <1>0, <1>4 DEF TakeJob, MayTake, HandsMatchControl
    <2>2. PICK h \in Clients : h = Head(queue)
        BY <1>0, <2>1, HeadTailProperties
    <2>3. /\ Len(queue) > 0 /\ h = queue[1]
          /\ Len(queue') = Len(queue) - 1
          /\ \A i \in 1..Len(queue') : queue'[i] = queue[i + 1]
        BY <1>0, <1>4, <2>1, <2>2, HeadTailProperties, EmptySeq DEF TakeJob
    <2>4. \A i, j \in 1..Len(queue) : queue[i] = queue[j] => i = j
        BY DEF SocketHasOneOwner
    <2>5. \A c \in Clients : InQueue(c) <=> InQueue(c)' \/ c = h
        <3>1. ASSUME NEW c \in Clients, InQueue(c), c # h
              PROVE  InQueue(c)'
            <4>1. PICK i \in 1..Len(queue) : queue[i] = c
                BY <3>1 DEF InQueue
            <4>2. i # 1 /\ i - 1 \in 1..Len(queue')
                BY <1>0, <2>3, <3>1, <4>1
            <4>3. queue'[i - 1] = c
                BY <1>0, <2>3, <4>1, <4>2
            <4>4. QED
                BY <4>2, <4>3 DEF InQueue
        <3>2. ASSUME NEW c \in Clients, InQueue(c)'
              PROVE  InQueue(c)
            BY <1>0, <2>3, <3>2 DEF InQueue
        <3>3. InQueue(h)
            BY <1>0, <2>3 DEF InQueue
        <3>4. QED
            BY <3>1, <3>2, <3>3
    <2>6. ~InQueue(h)'
        <3>1. ASSUME NEW i \in 1..Len(queue') PROVE queue'[i] # h
            <4>1. i + 1 \in 1..Len(queue) /\ 1 \in 1..Len(queue) /\ i + 1 # 1
                BY <1>0, <2>3
            <4>2. QED
                BY <2>3, <2>4, <4>1
        <3>2. QED
            BY <3>1 DEF InQueue
    <2>7. \A c \in Clients : InWorker(c)' <=> InWorker(c) \/ c = h
        BY <1>0, <2>1, <2>2 DEF InWorker
    <2>8. InQueue(h) /\ ~InWorker(h) /\ held # h
        BY <2>5 DEF SocketHasOneOwner
    <2>9. \A i, j \in 1..Len(queue') : queue'[i] = queue'[j] => i = j
        BY <1>0, <2>3, <2>4
    <2>10. \A u, v \in Workers : job'[u] = job'[v] /\ job'[u] # None => u = v
        BY <1>0, <2>1, <2>2, <2>8 DEF SocketHasOneOwner, InWorker
    <2>11. \A c \in Clients :
               (fate'[c] = "open") <=> (held' = c \/ InQueue(c)' \/ InWorker(c)')
        BY <2>1, <2>5, <2>7 DEF SocketHasOneOwner
    <2>12. \A c \in Clients : /\ held' = c => ~InQueue(c)' /\ ~InWorker(c)'
                              /\ InQueue(c)' => ~InWorker(c)'
        BY <2>1, <2>5, <2>6, <2>7, <2>8 DEF SocketHasOneOwner
    <2>13. QED
        BY <2>9, <2>10, <2>11, <2>12 DEF SocketHasOneOwner
<1>5. ASSUME NEW w \in Workers, Expire(w) \/ Finish(w) \/ Throw(w)
      PROVE  SocketHasOneOwner'
    <2>1. PICK why \in Fates \ {"open"} :
              pc[w] \in {"popped", "serving"} /\ CloseJob(w, why)
        BY <1>5 DEF Expire, Finish, Throw, Fates
    <2>2. job[w] \in Clients
        BY <1>0, <2>1 DEF HandsMatchControl
    <2>3. ~InQueue(job[w]) /\ held # job[w]
        BY <2>2 DEF SocketHasOneOwner, InWorker
    <2>4. \A c \in Clients : InQueue(c)' <=> InQueue(c)
        BY <2>1 DEF CloseJob, InQueue
    <2>5. \A c \in Clients : InWorker(c)' <=> InWorker(c) /\ c # job[w]
        <3>1. job' = [job EXCEPT ![w] = None]
            BY <2>1 DEF CloseJob
        <3>2. \A u \in Workers : job[u] = job[w] => u = w
            BY <2>2 DEF SocketHasOneOwner
        <3>3. QED
            BY <1>0, <2>2, <3>1, <3>2 DEF InWorker
    <2>6. \A u, v \in Workers : job'[u] = job'[v] /\ job'[u] # None => u = v
        BY <1>0, <2>1 DEF CloseJob, SocketHasOneOwner
    <2>7. \A c \in Clients : fate'[c] = IF c = job[w] THEN why ELSE fate[c]
        BY <1>0, <2>1, <2>2 DEF CloseJob
    <2>8. UNCHANGED <<held, queue>>
        BY <2>1 DEF CloseJob
    <2>9. QED
        <3>1. \A c \in Clients : fate'[c] = "open" <=> fate[c] = "open" /\ c # job[w]
            BY <2>1, <2>7
        <3>2. \A c \in Clients :
                  (fate'[c] = "open") <=> (held' = c \/ InQueue(c)' \/ InWorker(c)')
            BY <2>3, <2>4, <2>5, <2>8, <3>1 DEF SocketHasOneOwner
        <3>3. QED
            BY <2>4, <2>5, <2>6, <2>8, <3>2 DEF SocketHasOneOwner
<1>6. CASE Destroy
    <2>1. queue' = <<>> /\ Len(queue') = 0 /\ UNCHANGED <<held, job>>
        BY <1>6 DEF Destroy
    <2>2. \A c \in Clients : fate'[c] = IF InQueue(c) THEN "abandoned" ELSE fate[c]
        BY <1>6 DEF Destroy, InQueue
    <2>3. \A c \in Clients : ~InQueue(c)' /\ (InWorker(c)' <=> InWorker(c))
        BY <2>1 DEF InQueue, InWorker
    <2>4. QED
        BY <2>1, <2>2, <2>3 DEF SocketHasOneOwner
<1>7. CASE UNCHANGED <<queue, held, job, fate>>
    BY <1>7, OwnersKept
<1>8. QED
    BY <1>1, <1>2, <1>3, <1>4, <1>5, <1>6, <1>7
       DEF Next, vars, Construction, Submission, Stopping, Work, Over,
           SpawnWorker, Constructed, ConstructorThrows, SubmitLocks, PushFails,
           TurnAway, StopBegins, SetStopping, NotifyAll, Join, Acquire,
           FindsNothing, Sleep, WakesSpuriously, Exit, Begin, Tick

\* Every open descriptor has exactly one owner, and no closed one has any, on
\* every path through submit, work and the destructor (pool.cpp:57-70, 81-103).
THEOREM OneOwner == Spec => []SocketHasOneOwner
<1>1. Init => SocketHasOneOwner
    BY InitOneOwner
<1>2. PoolInv /\ SocketHasOneOwner /\ [Next]_vars => SocketHasOneOwner'
    BY NextOneOwner
<1>3. QED
    BY <1>1, <1>2, PoolInvariant, PTL DEF Spec

-----------------------------------------------------------------------------
(* Sleepers.                                                               *)

\* Sets of workers are finite, and one more or one fewer counts as one.
LEMMA WorkersCount ==
    ASSUME NEW S \in SUBSET Workers
    PROVE  /\ IsFiniteSet(S)
           /\ Cardinality(S) \in Nat
           /\ \A T \in SUBSET S : Cardinality(T) <= Cardinality(S)
           /\ \A w \in Workers \ S : Cardinality(S \cup {w}) = Cardinality(S) + 1
           /\ \A w \in S : Cardinality(S \ {w}) = Cardinality(S) - 1
<1>1. IsFiniteSet(S)
    BY PoolAssumption, FS_Subset DEF PoolAssumption
<1>2. QED
    BY <1>1, FS_Subset, FS_CardinalityType, FS_AddElement, FS_RemoveElement

\* While nothing is queued nobody sleeps on work.
LEMMA NobodySleepsOnEmptyQueue ==
    ASSUME queue' = <<>>
    PROVE  NobodySleepsOnWork'
<1>1. Awake' \in SUBSET Workers /\ Len(queue') = 0
    BY DEF Awake
<1>2. Cardinality(Awake') \in Nat
    BY <1>1, WorkersCount
<1>3. QED
    BY <1>1, <1>2 DEF NobodySleepsOnWork

\* Nor when the queue does not grow, nobody goes to sleep and nobody who was
\* on the way to the queue gives up.
LEMMA MoreAwakeKeepsIt ==
    ASSUME PoolInv, NobodySleepsOnWork,
           UNCHANGED queue, ~stopping' => ~stopping,
           Asleep' \subseteq Asleep, Awake \subseteq Awake'
    PROVE  NobodySleepsOnWork'
<1>1. Awake \in SUBSET Workers /\ Awake' \in SUBSET Workers
    BY DEF Awake
<1>2. /\ Cardinality(Awake) \in Nat /\ Cardinality(Awake') \in Nat
      /\ Cardinality(Awake) <= Cardinality(Awake')
    BY <1>1, WorkersCount
<1>3. Len(queue) \in Nat
    BY LenProperties DEF PoolInv, TypeOK
<1>4. QED
    BY <1>2, <1>3 DEF NobodySleepsOnWork

\* The count survives the three steps that matter: a push that wakes a sleeper,
\* a worker that goes to sleep and a worker that takes a job.
LEMMA NextNobodySleeps == PoolInv /\ NobodySleepsOnWork /\ [Next]_vars => NobodySleepsOnWork'
<1> SUFFICES ASSUME PoolInv, NobodySleepsOnWork, [Next]_vars
             PROVE  NobodySleepsOnWork'
    OBVIOUS
<1>0. /\ queue \in Seq(Clients) /\ Len(queue) \in Nat
      /\ pc \in [Workers -> WorkerStates]
      /\ Awake \in SUBSET Workers /\ Cardinality(Awake) \in Nat
    BY LenProperties, WorkersCount DEF PoolInv, TypeOK, Awake
<1>1. CASE Enqueue
    <2>1. ~stopping /\ held \in Clients /\ queue' = Append(queue, held)
        BY <1>1 DEF Enqueue, HasRoom, PoolInv, TypeOK, HandsMatchControl
    <2>2. Len(queue') = Len(queue) + 1
        BY <1>0, <2>1, AppendProperties
    <2>3. CASE Asleep = {}
        BY <1>1, <2>3 DEF Enqueue, NotifyOne, Asleep, NobodySleepsOnWork
    <2>4. CASE Asleep # {}
        <3>1. PICK w \in Workers : pc[w] = "asleep" /\ pc' = [pc EXCEPT ![w] = "lock"]
            BY <1>1, <2>4 DEF Enqueue, NotifyOne, Asleep
        <3>2. w \notin Awake /\ Awake' = Awake \cup {w}
            BY <1>0, <3>1 DEF Awake
        <3>3. Cardinality(Awake') = Cardinality(Awake) + 1
            BY <1>0, <3>2, WorkersCount
        <3>4. QED
            BY <1>0, <2>1, <2>2, <2>4, <3>3 DEF NobodySleepsOnWork
    <2>5. QED
        BY <2>3, <2>4
<1>2. ASSUME NEW w \in Workers, Sleep(w)
      PROVE  NobodySleepsOnWork'
    <2>1. queue' = <<>>
        BY <1>2 DEF Sleep, PoolInv, SleepsOnNothing
    <2>2. QED
        BY <2>1, NobodySleepsOnEmptyQueue
<1>3. ASSUME NEW w \in Workers, TakeJob(w)
      PROVE  NobodySleepsOnWork'
    <2>1. Len(queue') = Len(queue) - 1
        BY <1>0, <1>3, HeadTailProperties DEF TakeJob, MayTake
    <2>2. w \in Awake /\ Awake' = Awake \ {w} /\ Asleep' = Asleep /\ ~stopping
        BY <1>0, <1>3 DEF TakeJob, MayTake, Awake, Asleep
    <2>3. Cardinality(Awake') = Cardinality(Awake) - 1
        BY <1>0, <2>2, WorkersCount
    <2>4. QED
        BY <1>0, <2>1, <2>2, <2>3 DEF NobodySleepsOnWork
<1>4. ASSUME NEW w \in Workers, Exit(w)
      PROVE  NobodySleepsOnWork'
    BY <1>4 DEF Exit, NobodySleepsOnWork
<1>5. CASE ConstructorThrows
    <2>1. queue' = <<>>
        BY <1>5 DEF ConstructorThrows, PoolInv, EmptyUntilBuilt
    <2>2. QED
        BY <2>1, NobodySleepsOnEmptyQueue
<1>6. CASE NotifyAll
    BY <1>0, <1>6 DEF NotifyAll, NobodySleepsOnWork, Asleep
<1>7. CASE Destroy
    BY <1>7, NobodySleepsOnEmptyQueue DEF Destroy
<1>8. ASSUME NEW w \in Workers,
             \/ SpawnWorker(w) \/ Acquire(w) \/ FindsNothing(w) \/ WakesSpuriously(w)
             \/ Expire(w) \/ Begin(w) \/ Finish(w) \/ Throw(w)
      PROVE  NobodySleepsOnWork'
    <2>1. UNCHANGED <<queue, stopping>>
        BY <1>8 DEF SpawnWorker, Acquire, FindsNothing, WakesSpuriously,
                    Expire, Begin, Finish, Throw, CloseJob
    <2>2. \E to \in {"lock", "check", "sleep", "serving"} :
              /\ pc' = [pc EXCEPT ![w] = to]
              /\ pc[w] \in {"lock", "check", "sleep"} => to \in {"lock", "check", "sleep"}
        BY <1>8 DEF SpawnWorker, Acquire, FindsNothing, WakesSpuriously,
                    Expire, Begin, Finish, Throw, CloseJob
    <2>3. Asleep' \subseteq Asleep /\ Awake \subseteq Awake'
        BY <1>0, <2>2 DEF Asleep, Awake
    <2>4. QED
        BY <2>1, <2>3, MoreAwakeKeepsIt
<1>9. CASE SetStopping
    BY <1>9 DEF SetStopping, NobodySleepsOnWork
<1>10. CASE UNCHANGED <<queue, stopping, pc>>
    BY <1>10, MoreAwakeKeepsIt DEF Asleep, Awake
<1>11. QED
    BY <1>1, <1>2, <1>3, <1>4, <1>5, <1>6, <1>7, <1>8, <1>9, <1>10
       DEF Next, vars, Construction, Submission, Stopping, Work, Over,
           Constructed, Submit, SubmitLocks, PushFails, TurnAway, Refuse,
           StopBegins, Join, Tick

\* No wakeup is lost, however many workers sleep, however the notified ones,
\* the spuriously woken ones and those that never slept race for the mutex
\* (pool.cpp:57-62, 81).
THEOREM NoLostWakeup == Spec => []NobodySleepsOnWork
<1>1. Init => NobodySleepsOnWork
    BY DEF Init, Unused, NobodySleepsOnWork, Asleep
<1>2. PoolInv /\ NobodySleepsOnWork /\ [Next]_vars => NobodySleepsOnWork'
    BY NextNobodySleeps
<1>3. QED
    BY <1>1, <1>2, PoolInvariant, PTL DEF Spec

-----------------------------------------------------------------------------
(* How many descriptors the pool can hold.                                 *)

QueueBounded == Len(queue) <= Queued

\* A connection is queued only while there is room.
LEMMA NextQueueBounded == PoolInv /\ QueueBounded /\ [Next]_vars => QueueBounded'
<1> SUFFICES ASSUME PoolInv, QueueBounded, [Next]_vars
             PROVE  QueueBounded'
    OBVIOUS
<1>0. queue \in Seq(Clients) /\ Len(queue) \in Nat /\ Queued \in Nat
    BY PoolAssumption, LenProperties DEF PoolAssumption, PoolInv, TypeOK
<1>1. CASE Enqueue
    <2>1. held \in Clients /\ Len(queue) < Queued /\ queue' = Append(queue, held)
        BY <1>1 DEF Enqueue, HasRoom, PoolInv, TypeOK, HandsMatchControl
    <2>2. QED
        BY <1>0, <2>1, AppendProperties DEF QueueBounded
<1>2. ASSUME NEW w \in Workers, TakeJob(w)
      PROVE  QueueBounded'
    BY <1>0, <1>2, HeadTailProperties DEF TakeJob, MayTake, QueueBounded
<1>3. CASE Destroy
    BY <1>0, <1>3 DEF Destroy, QueueBounded
<1>4. CASE UNCHANGED queue
    BY <1>4 DEF QueueBounded
<1>5. QED
    BY <1>1, <1>2, <1>3, <1>4
       DEF Next, vars, Construction, Submission, Stopping, Work, Over,
           SpawnWorker, Constructed, ConstructorThrows, Submit, SubmitLocks,
           PushFails, TurnAway, Refuse, StopBegins, SetStopping, NotifyAll, Join,
           Acquire, FindsNothing, Sleep, WakesSpuriously, Exit, Expire, Begin,
           Finish, Throw, CloseJob, Tick

\* The places that own a descriptor are the queue, the workers and the hand.
LEMMA OwnersBoundDescriptors ==
    ASSUME PoolInv, SocketHasOneOwner, QueueBounded
    PROVE  DescriptorsBounded
<1> DEFINE OpenNow  == {c \in Clients : fate[c] = "open"}
           Queuing  == {queue[i] : i \in 1..Len(queue)}
           Working  == {job[w] : w \in Workers}
<1>0. /\ queue \in [1..Len(queue) -> Clients] /\ Len(queue) \in Nat
      /\ job \in [Workers -> Clients \cup {None}]
      /\ IsFiniteSet(Workers) /\ Queued \in Nat
    BY PoolAssumption, LenProperties DEF PoolAssumption, PoolInv, TypeOK
<1>1. IsFiniteSet(Queuing) /\ Cardinality(Queuing) <= Len(queue)
    <2>1. queue \in Surjection(1..Len(queue), Queuing)
        <3>1. queue \in [1..Len(queue) -> Queuing]
            BY <1>0
        <3>2. \A c \in Queuing : \E i \in 1..Len(queue) : queue[i] = c
            OBVIOUS
        <3> HIDE DEF Queuing
        <3>3. QED
            BY <3>1, <3>2 DEF Surjection
    <2>2. IsFiniteSet(1..Len(queue)) /\ Cardinality(1..Len(queue)) = Len(queue)
        <3>1. PICK n \in Nat : n = Len(queue)
            BY <1>0
        <3>2. IsFiniteSet(1..n) /\ Cardinality(1..n) = IF 1 > n THEN 0 ELSE n - 1 + 1
            BY FS_Interval
        <3>3. QED
            BY <3>1, <3>2
    <2> HIDE DEF Queuing
    <2>3. QED
        BY <2>1, <2>2, FS_Surjection
<1>2. IsFiniteSet(Working) /\ Cardinality(Working) <= Cardinality(Workers)
    <2>1. job \in Surjection(Workers, Working)
        BY <1>0 DEF Surjection
    <2>2. QED
        BY <1>0, <2>1, FS_Surjection
<1>3. /\ IsFiniteSet(Queuing \cup Working)
      /\ Cardinality(Queuing \cup Working) <= Cardinality(Queuing) + Cardinality(Working)
    <2>1. IsFiniteSet(Queuing \cap Working) /\ Cardinality(Queuing \cap Working) \in Nat
        BY <1>1, FS_Subset, FS_CardinalityType
    <2>2. Cardinality(Queuing) \in Nat /\ Cardinality(Working) \in Nat
        BY <1>1, <1>2, FS_CardinalityType
    <2> HIDE DEF Queuing, Working
    <2>3. /\ IsFiniteSet(Queuing \cup Working)
          /\ Cardinality(Queuing \cup Working) =
                 Cardinality(Queuing) + Cardinality(Working) - Cardinality(Queuing \cap Working)
        BY <1>1, <1>2, FS_Union, Zenon
    <2>4. QED
        BY <2>1, <2>2, <2>3
<1>4. /\ IsFiniteSet(Queuing \cup Working \cup {held})
      /\ Cardinality(Queuing \cup Working \cup {held}) <= Cardinality(Queuing \cup Working) + 1
    <2>1. Cardinality(Queuing \cup Working) \in Nat
        BY <1>3, FS_CardinalityType
    <2> HIDE DEF Queuing, Working
    <2>2. QED
        BY <1>3, <2>1, FS_AddElement
<1>5. OpenNow \subseteq Queuing \cup Working \cup {held}
    BY DEF SocketHasOneOwner, InQueue, InWorker
<1>6. Cardinality(OpenNow) <= Cardinality(Queuing \cup Working \cup {held})
    BY <1>4, <1>5, FS_Subset
<1>7. /\ Cardinality(OpenNow) \in Nat
      /\ Cardinality(Queuing) \in Nat
      /\ Cardinality(Working) \in Nat
      /\ Cardinality(Queuing \cup Working) \in Nat
      /\ Cardinality(Queuing \cup Working \cup {held}) \in Nat
      /\ Cardinality(Workers) \in Nat
    BY <1>0, <1>1, <1>2, <1>3, <1>4, <1>5, FS_Subset, FS_CardinalityType
<1> HIDE DEF OpenNow, Queuing, Working
<1>8. Cardinality(OpenNow) <= Cardinality(Workers) + Queued + 1
    BY <1>0, <1>1, <1>2, <1>3, <1>4, <1>6, <1>7 DEF QueueBounded
<1>9. QED
    BY <1>8 DEF DescriptorsBounded, OpenNow

\* The pool never holds more than limits.workers + limits.queued + 1 open
\* descriptors, so a process limit above that is never reached by the pool
\* (config.hpp:10-11, pool.cpp:57).
THEOREM BoundedDescriptors == Spec => []DescriptorsBounded
<1>1. Init => QueueBounded
    BY PoolAssumption DEF PoolAssumption, Init, Unused, QueueBounded
<1>2. PoolInv /\ QueueBounded /\ [Next]_vars => QueueBounded'
    BY NextQueueBounded
<1>3. PoolInv /\ SocketHasOneOwner /\ QueueBounded => DescriptorsBounded
    BY OwnersBoundDescriptors
<1>4. QED
    BY <1>1, <1>2, <1>3, PoolInvariant, OneOwner, PTL DEF Spec

-----------------------------------------------------------------------------
(* The pool implements Dispatch: a step of the pool is a step of Dispatch   *)
(* exactly where a connection changes hands under the mutex or is closed,  *)
(* and where the flag is set.  Every other step moves no connection, and   *)
(* stutters.                                                               *)

(* The refinement mapping, read off the one owner a descriptor has.        *)

StatusesAgree ==
    \A c \in Clients :
        /\ fate[c] = "new" => DispatchStatus(c) = "outside"
        /\ held = c => DispatchStatus(c) = IF owner = "refuse" THEN "refused" ELSE "outside"
        /\ InQueue(c) => DispatchStatus(c) = "in line"
        /\ InWorker(c) => DispatchStatus(c) = "in hand"
        /\ fate[c] \notin {"new", "open"} => DispatchStatus(c) = fate[c]

\* A connection's status in Dispatch is its place, or why it was closed.
LEMMA StatusIsWhatBecameOfIt == PoolInv /\ SocketHasOneOwner => StatusesAgree
BY DEF PoolInv, TypeOK, Fates, SocketHasOneOwner, StatusesAgree, DispatchStatus

\* Nobody has any of the statuses without having the place.
LEMMA InHandIsWithAWorker ==
    ASSUME PoolInv, SocketHasOneOwner
    PROVE  \A c \in Clients : DispatchStatus(c) = "in hand" <=> InWorker(c)
BY DEF PoolInv, TypeOK, Fates, SocketHasOneOwner, DispatchStatus

\* A step that moves no connection and neither begins nor ends a refusal.
LEMMA StandingStill ==
    ASSUME PoolInv, UNCHANGED <<queue, stopping, held, job, fate>>,
           held = None \/ (owner = "refuse" <=> owner' = "refuse")
    PROVE  UNCHANGED <<Abstract!dispatchVars>>
<1>1. \A c \in Clients : DispatchStatus(c)' = DispatchStatus(c)
    BY PoolAssumption DEF PoolAssumption, DispatchStatus, InQueue, InWorker
<1>2. QED
    BY <1>1 DEF Abstract!dispatchVars

\* Dispatch counts as FiniteSets does.
LEMMA SameCount == \A S : Abstract!Cardinality(S) = Cardinality(S)
BY DEF Abstract!Cardinality, Cardinality

\* While one worker has no connection, fewer are in hand than there are workers.
LEMMA AServerIsFree ==
    ASSUME PoolInv, SocketHasOneOwner, NEW w \in Workers, job[w] = None
    PROVE  Cardinality(Abstract!InHand) < Cardinality(Workers)
<1> DEFINE Others == Workers \ {w}
           Held   == {job[v] : v \in Others}
<1>1. IsFiniteSet(Others) /\ Cardinality(Others) = Cardinality(Workers) - 1
    BY PoolAssumption, FS_RemoveElement DEF PoolAssumption
<1>2. Cardinality(Workers) \in Nat
    BY PoolAssumption, FS_CardinalityType DEF PoolAssumption
<1>3. IsFiniteSet(Held) /\ Cardinality(Held) <= Cardinality(Others)
    <2>1. [v \in Others |-> job[v]] \in Surjection(Others, Held)
        BY DEF Surjection
    <2>2. QED
        BY <1>1, <2>1, FS_Surjection
<1>4. Abstract!InHand \subseteq Held
    <2>1. ASSUME NEW c \in Clients, DispatchStatus(c) = "in hand"
          PROVE  c \in Held
        <3>1. PICK v \in Workers : job[v] = c
            BY <2>1, InHandIsWithAWorker DEF InWorker
        <3>2. v # w
            BY <3>1, PoolAssumption DEF PoolAssumption
        <3>3. QED
            BY <3>1, <3>2
    <2>2. QED
        BY <2>1 DEF Abstract!InHand
<1>5. /\ Cardinality(Abstract!InHand) \in Nat
      /\ Cardinality(Held) \in Nat
      /\ Cardinality(Abstract!InHand) <= Cardinality(Held)
    BY <1>3, <1>4, FS_Subset, FS_CardinalityType
<1> HIDE DEF Others, Held
<1>6. QED
    BY <1>1, <1>2, <1>3, <1>5

-----------------------------------------------------------------------------
(* Step by step.  What is known before and after each.                     *)

Known == PoolInv /\ SocketHasOneOwner /\ StatusesAgree

\* A push under the mutex admits the connection submit was called with.
LEMMA EnqueueAdmits ==
    ASSUME Known, Known', Enqueue
    PROVE  \E c \in Clients : Abstract!Admit(c)
<1>1. PICK c \in Clients : c = held
    BY DEF Known, PoolInv, TypeOK, HandsMatchControl, Enqueue
<1>2. /\ owner = "decide" /\ ~stopping /\ Len(queue) < Queued
      /\ queue' = Append(queue, c) /\ held' = None
      /\ UNCHANGED <<stopping, job, fate>>
    BY <1>1 DEF Enqueue, HasRoom
<1>3. /\ Len(queue') = Len(queue) + 1 /\ Len(queue) \in Nat
      /\ \A i \in 1..Len(queue) : queue'[i] = queue[i]
      /\ queue'[Len(queue) + 1] = c
    BY <1>2, AppendProperties, LenProperties DEF Known, PoolInv, TypeOK
<1>4. \A d \in Clients : InQueue(d)' <=> InQueue(d) \/ d = c
    BY <1>3 DEF InQueue
<1>5. \A d \in Clients : InWorker(d)' <=> InWorker(d)
    BY <1>2 DEF InWorker
<1>6. DispatchStatus(c) = "outside" /\ DispatchStatus(c)' = "in line"
    BY <1>1, <1>2, <1>4 DEF Known, StatusesAgree
<1>7. \A d \in Clients \ {c} : DispatchStatus(d)' = DispatchStatus(d)
    BY <1>1, <1>2, <1>4, <1>5, PoolAssumption DEF PoolAssumption, DispatchStatus
<1>8. Abstract!Admit(c)
    BY <1>2, <1>6, <1>7 DEF Abstract!Admit
<1>9. QED
    BY <1>8

\* Only a stopping pool, a full queue or a queue that cannot allocate refuses.
LEMMA TurningAwayIsForWantOfRoom ==
    ASSUME Known, Known', TurnAway \/ PushFails
    PROVE  held \in Clients /\ Abstract!TurnAwayClient(held)
<1>1. /\ held \in Clients /\ owner = "decide" /\ owner' = "refuse"
      /\ UNCHANGED <<queue, stopping, held, job, fate>>
    BY DEF Known, PoolInv, TypeOK, HandsMatchControl, TurnAway, PushFails
<1>2. stopping \/ Len(queue) >= Queued \/ held \in Unlucky
    BY PoolAssumption, LenProperties
       DEF PoolAssumption, Known, PoolInv, TypeOK, TurnAway, PushFails, HasRoom
<1>3. DispatchStatus(held) = "outside" /\ DispatchStatus(held)' = "refused"
    BY <1>1 DEF Known, StatusesAgree
<1>4. \A c \in Clients \ {held} : DispatchStatus(c)' = DispatchStatus(c)
    BY <1>1 DEF DispatchStatus, InQueue, InWorker
<1>5. QED
    BY <1>1, <1>2, <1>3, <1>4 DEF Abstract!TurnAwayClient

\* A worker takes the oldest connection and has a hand free for it.
LEMMA TakeJobTakesFirst ==
    ASSUME Known, Known', NEW w \in Workers, TakeJob(w)
    PROVE  Abstract!TakeFirst
<1>1. /\ job[w] = None /\ queue # <<>> /\ ~stopping
      /\ job' = [job EXCEPT ![w] = Head(queue)] /\ queue' = Tail(queue)
      /\ UNCHANGED <<stopping, owner, held, fate>>
    BY DEF Known, PoolInv, TypeOK, HandsMatchControl, TakeJob, MayTake
<1>2. PICK h \in Clients : h = Head(queue)
    BY <1>1, HeadTailProperties DEF Known, PoolInv, TypeOK
<1>3. /\ Len(queue) \in Nat /\ Len(queue) > 0 /\ h = queue[1]
      /\ Len(queue') = Len(queue) - 1
      /\ \A i \in 1..Len(queue') : queue'[i] = queue[i + 1]
    BY <1>1, <1>2, HeadTailProperties, EmptySeq, LenProperties DEF Known, PoolInv, TypeOK
<1>4. \A c \in Clients \ {h} : InQueue(c)' <=> InQueue(c)
    <2>1. ASSUME NEW c \in Clients \ {h}, InQueue(c)
          PROVE  InQueue(c)'
        <3>1. PICK i \in 1..Len(queue) : queue[i] = c
            BY <2>1 DEF InQueue
        <3>2. i - 1 \in 1..Len(queue') /\ queue'[i - 1] = c
            BY <1>3, <3>1
        <3>3. QED
            BY <3>2 DEF InQueue
    <2>2. ASSUME NEW c \in Clients, InQueue(c)'
          PROVE  InQueue(c)
        <3>1. PICK i \in 1..Len(queue') : queue'[i] = c
            BY <2>2 DEF InQueue
        <3>2. i + 1 \in 1..Len(queue) /\ queue[i + 1] = c
            BY <1>3, <3>1
        <3>3. QED
            BY <3>2 DEF InQueue
    <2>3. QED
        BY <2>1, <2>2
<1>5. \A c \in Clients \ {h} : InWorker(c)' <=> InWorker(c)
    BY <1>1, <1>2, PoolAssumption DEF PoolAssumption, InWorker, Known, PoolInv, TypeOK
<1>6. InWorker(h)'
    BY <1>1, <1>2 DEF InWorker, Known, PoolInv, TypeOK
<1>7. DispatchStatus(h)' = "in hand"
    BY <1>6 DEF Known, StatusesAgree
<1>8. \A c \in Clients \ {h} : DispatchStatus(c)' = DispatchStatus(c)
    BY <1>1, <1>4, <1>5 DEF DispatchStatus
<1>9. Cardinality(Abstract!InHand) < Cardinality(Workers)
    BY <1>1, AServerIsFree DEF Known
<1>10. [c \in Clients |-> DispatchStatus(c)]' =
           [[c \in Clients |-> DispatchStatus(c)] EXCEPT ![Head(queue)] = "in hand"]
    BY <1>2, <1>7, <1>8
<1>11. QED
    BY <1>1, <1>9, <1>10, SameCount DEF Abstract!TakeFirst

\* Closing a worker's connection lets it go, for one of the three reasons.
LEMMA ClosingLetsGo ==
    ASSUME Known, Known', NEW w \in Workers, Expire(w) \/ Finish(w) \/ Throw(w)
    PROVE  job[w] \in Clients /\ Abstract!LetGo(job[w])
<1>1. PICK why \in {"served", "dropped", "expired"} :
          pc[w] \in {"popped", "serving"} /\ CloseJob(w, why)
    BY DEF Expire, Finish, Throw
<1>2. PICK c \in Clients : c = job[w]
    BY <1>1 DEF Known, PoolInv, TypeOK, HandsMatchControl
<1>3. /\ fate' = [fate EXCEPT ![c] = why] /\ job' = [job EXCEPT ![w] = None]
      /\ UNCHANGED <<queue, stopping, owner, held>>
    BY <1>1, <1>2 DEF CloseJob
<1>4. DispatchStatus(c) = "in hand"
    BY <1>2 DEF Known, StatusesAgree, InWorker
<1>5. DispatchStatus(c)' = why
    BY <1>1, <1>3 DEF Known, StatusesAgree, PoolInv, TypeOK
<1>6. \A d \in Clients \ {c} : InWorker(d)' <=> InWorker(d)
    BY <1>2, <1>3, PoolAssumption DEF PoolAssumption, InWorker, Known, PoolInv, TypeOK
<1>7. \A d \in Clients \ {c} : DispatchStatus(d)' = DispatchStatus(d)
    BY <1>3, <1>6 DEF DispatchStatus, InQueue, Known, PoolInv, TypeOK
<1>8. QED
    BY <1>1, <1>2, <1>3, <1>4, <1>5, <1>7 DEF Abstract!LetGo

\* The queue's destructor dissolves the line, with nobody left in hand.
LEMMA DestroyDissolves ==
    ASSUME Known, Known', Destroy
    PROVE  Abstract!Dissolve
<1>1. /\ owner = "destroy" /\ queue' = <<>> /\ UNCHANGED <<stopping, held, job>>
      /\ stopping /\ held = None
      /\ \A w \in Workers : job[w] = None
    BY DEF Known, PoolInv, TypeOK, FlagMatchesControl, HandsMatchControl,
           NoWorkerOutlivesPool, Destroy
<1>2. \A c \in Clients : fate'[c] = IF InQueue(c) THEN "abandoned" ELSE fate[c]
    BY DEF Destroy, InQueue
<1>3. \A c \in Clients : ~InWorker(c)
    BY <1>1, PoolAssumption DEF PoolAssumption, InWorker
<1>4. \A c \in Clients : DispatchStatus(c) # "in hand"
    BY <1>3, InHandIsWithAWorker DEF Known
<1>5. \A c \in Clients : fate[c] = "open" <=> InQueue(c)
    BY <1>1, <1>3, PoolAssumption DEF PoolAssumption, Known, SocketHasOneOwner
<1>6. \A c \in Clients :
          DispatchStatus(c)' = IF DispatchStatus(c) = "in line" THEN "abandoned"
                                                                ELSE DispatchStatus(c)
    <2>1. ASSUME NEW c \in Clients, InQueue(c)
          PROVE  DispatchStatus(c) = "in line" /\ DispatchStatus(c)' = "abandoned"
        BY <1>2, <2>1 DEF Known, StatusesAgree
    <2>2. ASSUME NEW c \in Clients, ~InQueue(c)
          PROVE  DispatchStatus(c) # "in line" /\ DispatchStatus(c)' = DispatchStatus(c)
        <3>1. fate[c] # "open" /\ fate'[c] = fate[c] /\ fate[c] \in Fates
            BY <1>2, <1>5, <2>2 DEF Known, PoolInv, TypeOK
        <3>2. CASE fate[c] = "new"
            BY <3>1, <3>2 DEF Known, StatusesAgree
        <3>3. CASE fate[c] # "new"
            <4>1. DispatchStatus(c) = fate[c] /\ DispatchStatus(c)' = fate[c]
                BY <3>1, <3>3 DEF Known, StatusesAgree
            <4>2. QED
                BY <3>1, <3>3, <4>1 DEF Fates
        <3>4. QED
            BY <3>2, <3>3
    <2>3. QED
        BY <2>1, <2>2
<1>7. QED
    BY <1>1, <1>4, <1>6 DEF Abstract!Dissolve, Abstract!InHand

\* Submitting and having sent the refusal change places, not statuses.
LEMMA OnTheWayInOrOut ==
    ASSUME Known, Known', Refuse \/ \E c \in Clients : Submit(c)
    PROVE  UNCHANGED Abstract!dispatchVars
<1>1. CASE Refuse
    <2>1. PICK c \in Clients : c = held
        BY <1>1 DEF Known, PoolInv, TypeOK, HandsMatchControl, Refuse
    <2>2. /\ fate' = [fate EXCEPT ![c] = "refused"] /\ owner = "refuse" /\ held' = None
          /\ UNCHANGED <<queue, stopping, job>>
        BY <1>1, <2>1 DEF Refuse
    <2>3. DispatchStatus(c) = "refused" /\ DispatchStatus(c)' = "refused"
        BY <2>1, <2>2 DEF Known, StatusesAgree, PoolInv, TypeOK
    <2>4. \A d \in Clients \ {c} : DispatchStatus(d)' = DispatchStatus(d)
        BY <2>1, <2>2, PoolAssumption
           DEF PoolAssumption, DispatchStatus, InQueue, InWorker, Known, PoolInv, TypeOK
    <2>5. QED
        BY <2>2, <2>3, <2>4 DEF Abstract!dispatchVars
<1>2. ASSUME NEW c \in Clients, Submit(c)
      PROVE  UNCHANGED Abstract!dispatchVars
    <2>1. /\ held = None /\ held' = c /\ owner' = "submit" /\ fate[c] = "new"
          /\ fate' = [fate EXCEPT ![c] = "open"]
          /\ UNCHANGED <<queue, stopping, job>>
        BY <1>2 DEF Known, PoolInv, TypeOK, HandsMatchControl, Submit
    <2>2. DispatchStatus(c) = "outside" /\ DispatchStatus(c)' = "outside"
        BY <2>1 DEF Known, StatusesAgree
    <2>3. \A d \in Clients \ {c} : DispatchStatus(d)' = DispatchStatus(d)
        BY <2>1, PoolAssumption
           DEF PoolAssumption, DispatchStatus, InQueue, InWorker, Known, PoolInv, TypeOK
    <2>4. QED
        BY <2>1, <2>2, <2>3 DEF Abstract!dispatchVars
<1>3. QED
    BY <1>1, <1>2

\* Every step of the pool is one of Dispatch or none.
LEMMA EveryStepDispatches ==
    Known /\ Known' /\ [Next]_vars => [Abstract!DNext]_(Abstract!dispatchVars)
<1> SUFFICES ASSUME Known, Known', [Next]_vars
             PROVE  Abstract!DNext \/ UNCHANGED Abstract!dispatchVars
    OBVIOUS
<1>1. CASE Enqueue
    BY <1>1, EnqueueAdmits DEF Abstract!DNext
<1>2. CASE TurnAway \/ PushFails
    BY <1>2, TurningAwayIsForWantOfRoom DEF Abstract!DNext
<1>3. ASSUME NEW w \in Workers, TakeJob(w)
      PROVE  Abstract!DNext
    BY <1>3, TakeJobTakesFirst DEF Abstract!DNext
<1>4. ASSUME NEW w \in Workers, Expire(w) \/ Finish(w) \/ Throw(w)
      PROVE  Abstract!DNext
    BY <1>4, ClosingLetsGo DEF Abstract!DNext
<1>5. CASE Destroy
    BY <1>5, DestroyDissolves DEF Abstract!DNext
<1>6. CASE SetStopping
    <2>1. \A c \in Clients : DispatchStatus(c)' = DispatchStatus(c)
        BY <1>6 DEF Known, PoolInv, HandsMatchControl, SetStopping, DispatchStatus, InQueue, InWorker
    <2>2. Abstract!Close
        BY <1>6, <2>1 DEF Known, PoolInv, FlagMatchesControl, SetStopping, Abstract!Close
    <2>3. QED
        BY <2>2 DEF Abstract!DNext
<1>7. CASE Refuse \/ \E c \in Clients : Submit(c)
    BY <1>7, OnTheWayInOrOut
<1>8. CASE /\ UNCHANGED <<queue, stopping, held, job, fate>>
           /\ held = None \/ (owner = "refuse" <=> owner' = "refuse")
    BY <1>8, StandingStill DEF Known
<1>9. CASE \/ Construction \/ SubmitLocks \/ StopBegins \/ NotifyAll \/ Join \/ Tick \/ Over
           \/ \E w \in Workers : \/ Acquire(w) \/ FindsNothing(w) \/ Sleep(w)
                                 \/ WakesSpuriously(w) \/ Exit(w) \/ Begin(w)
           \/ UNCHANGED vars
    <2>1. UNCHANGED <<queue, stopping, held, job, fate>>
        BY <1>9 DEF Construction, SpawnWorker, Constructed, ConstructorThrows, SubmitLocks,
                    StopBegins, NotifyAll, Join, Tick, Over, Acquire, FindsNothing, Sleep,
                    WakesSpuriously, Exit, Begin, vars
    <2>2. owner = "refuse" <=> owner' = "refuse"
        BY <1>9 DEF Construction, SpawnWorker, Constructed, ConstructorThrows, SubmitLocks,
                    StopBegins, NotifyAll, Join, Tick, Over, Acquire, FindsNothing, Sleep,
                    WakesSpuriously, Exit, Begin, vars
    <2>3. QED
        BY <1>8, <2>1, <2>2
<1>10. QED
    BY <1>1, <1>2, <1>3, <1>4, <1>5, <1>6, <1>7, <1>9
       DEF Next, Submission, Stopping, Work

(* The threads, the mutex and the condition variable together serve the    *)
(* connections as Dispatch does: strictly in order of arrival, at most one *)
(* per worker in hand, none turned away while there is room, the queue     *)
(* closed unserved only after the last job (pool.hpp:21-29, pool.cpp:49-121). *)
THEOREM PoolDispatches == Spec => ImplementsDispatch
<1>1. Init => Abstract!DInit
    BY PoolAssumption DEF PoolAssumption, Init, Unused, Abstract!DInit, DispatchStatus
<1>2. PoolInv /\ SocketHasOneOwner => Known
    BY StatusIsWhatBecameOfIt DEF Known
<1>3. Known /\ Known' /\ [Next]_vars => [Abstract!DNext]_(Abstract!dispatchVars)
    BY EveryStepDispatches
<1>4. QED
    BY <1>1, <1>2, <1>3, PoolInvariant, OneOwner, PTL
       DEF Spec, ImplementsDispatch, Abstract!DSpec

-----------------------------------------------------------------------------
(* After stopping.                                                         *)

\* Only the queue's destructor abandons, and it leaves nothing to abandon.
AbandonedAtTheEnd ==
    /\ owner # "gone" => \A c \in Clients : fate[c] # "abandoned"
    /\ owner = "gone" => queue = <<>>

\* The end of the pool is the end of its steps.
LEMMA NothingAfterTheEnd ==
    ASSUME PoolInv, AbandonedAtTheEnd, [Next]_vars, owner = "gone"
    PROVE  UNCHANGED vars
<1>1. /\ \A w \in Workers : pc[w] \in {"unborn", "exited"} /\ job[w] = None
      /\ queue = <<>> /\ Waiting = {}
    BY PoolAssumption
       DEF PoolAssumption, PoolInv, NoWorkerOutlivesPool, HandsMatchControl,
           AbandonedAtTheEnd, Waiting
<1>2. ~Construction /\ ~Submission /\ ~StopBegins /\ ~Stopping
    BY DEF Construction, SpawnWorker, Constructed, ConstructorThrows, Submission,
           SubmitLocks, Enqueue, PushFails, TurnAway, Refuse, StopBegins, Stopping,
           SetStopping, NotifyAll, Join, Destroy
<1>3. ~(\E c \in Clients : Submit(c)) /\ ~Tick
    BY <1>1 DEF Submit, Tick
<1>4. ASSUME NEW w \in Workers
      PROVE  ~Work(w)
    BY <1>1 DEF Work, Acquire, FindsNothing, Sleep, WakesSpuriously, Exit, TakeJob,
                Expire, Begin, Finish, Throw
<1>5. QED
    BY <1>2, <1>3, <1>4 DEF Next, Over

LEMMA NextAbandonedAtTheEnd ==
    PoolInv /\ AbandonedAtTheEnd /\ [Next]_vars => AbandonedAtTheEnd'
<1> SUFFICES ASSUME PoolInv, AbandonedAtTheEnd, [Next]_vars
             PROVE  AbandonedAtTheEnd'
    OBVIOUS
<1> USE DEF AbandonedAtTheEnd
<1>1. CASE owner = "gone"
    BY <1>1, NothingAfterTheEnd DEF vars
<1>2. CASE Destroy
    BY <1>2 DEF Destroy
<1>3. CASE Refuse \/ \E c \in Clients : Submit(c)
    BY <1>3 DEF Refuse, Submit, PoolInv, TypeOK
<1>4. ASSUME NEW w \in Workers, Expire(w) \/ Finish(w) \/ Throw(w)
      PROVE  AbandonedAtTheEnd'
    BY <1>4 DEF Expire, Finish, Throw, CloseJob, PoolInv, TypeOK
<1>5. CASE owner # "gone" /\ owner' # "gone" /\ UNCHANGED fate
    BY <1>5
<1>6. CASE UNCHANGED <<queue, owner, fate>>
    BY <1>6
<1>7. QED
    BY <1>1, <1>2, <1>3, <1>4, <1>5, <1>6
       DEF Next, vars, Construction, Submission, Stopping, Work, Over,
           SpawnWorker, Constructed, ConstructorThrows, SubmitLocks, Enqueue,
           PushFails, TurnAway, StopBegins, SetStopping, NotifyAll, Join, Acquire,
           FindsNothing, Sleep, WakesSpuriously, Exit, TakeJob, Begin, Tick

\* One step of a pool that is stopping.
LEMMA StoppedQueueOnlyDissolves ==
    ASSUME PoolInv, AbandonedAtTheEnd, [Next]_vars, stopping, NEW c \in Clients
    PROVE  \/ UNCHANGED vars
           \/ /\ InQueue(c) => InQueue(c)' \/ fate'[c] = "abandoned"
              /\ ~InQueue(c) => ~InQueue(c)' /\ fate'[c] # "abandoned"
<1> USE DEF InQueue
<1>1. CASE owner = "gone"
    BY <1>1, NothingAfterTheEnd
<1>2. CASE owner # "gone" /\ Destroy
    BY <1>2 DEF Destroy, AbandonedAtTheEnd
<1>3. ASSUME owner # "gone",
             NEW w \in Workers, Expire(w) \/ Finish(w) \/ Throw(w)
      PROVE  UNCHANGED queue /\ fate'[c] # "abandoned"
    BY <1>3 DEF Expire, Finish, Throw, CloseJob, PoolInv, TypeOK, AbandonedAtTheEnd
<1>4. CASE owner # "gone" /\ UNCHANGED <<queue, fate>>
    BY <1>4 DEF AbandonedAtTheEnd
<1>5. ~Enqueue /\ ~Refuse /\ ~\E d \in Clients : Submit(d)
    BY DEF Enqueue, HasRoom, Refuse, Submit, PoolInv, FlagMatchesControl
<1>6. ~\E w \in Workers : TakeJob(w)
    BY DEF TakeJob, MayTake
<1>7. QED
    BY <1>1, <1>2, <1>3, <1>4, <1>5, <1>6
       DEF Next, vars, Construction, Submission, Stopping, Work, Over,
           SpawnWorker, Constructed, ConstructorThrows, SubmitLocks, PushFails,
           TurnAway, StopBegins, SetStopping, NotifyAll, Join, Acquire,
           FindsNothing, Sleep, WakesSpuriously, Exit, Begin, Tick

(* Once the flag is set no connection enters or leaves the queue except to *)
(* be closed unserved by its destructor, though workers still run and      *)
(* still have jobs; and nobody is closed that way but those who were       *)
(* queued (pool.hpp:29, pool.cpp:57, 83-84).                               *)
THEOREM StoppingEndsDispatch == Spec => NothingDispatchedAfterStop
<1>1. Init => AbandonedAtTheEnd
    BY DEF Init, Unused, AbandonedAtTheEnd
<1>2. PoolInv /\ AbandonedAtTheEnd /\ [Next]_vars => AbandonedAtTheEnd'
    BY NextAbandonedAtTheEnd
<1>3. ASSUME PoolInv, AbandonedAtTheEnd, [Next]_vars
      PROVE  [stopping => \A c \in Clients :
                  /\ InQueue(c) => InQueue(c)' \/ fate'[c] = "abandoned"
                  /\ ~InQueue(c) => ~InQueue(c)' /\ fate'[c] # "abandoned"]_vars
    BY <1>3, StoppedQueueOnlyDissolves
<1>4. QED
    BY <1>1, <1>2, <1>3, PoolInvariant, PTL DEF Spec, NothingDispatchedAfterStop
=============================================================================

-------------------------- MODULE ThreadPoolProofs --------------------------
(***************************************************************************)
(* Proofs about ThreadPool, for every set of threads and of clients and     *)
(* every length of the listen queue.                                        *)
(***************************************************************************)
EXTENDS ThreadPool, TLAPS

\* The parts of IInv that tie the threads to the main thread's place.
Core == LocksInv /\ SetupInv /\ AcceptInv /\ HandOverInv /\ DispatchInv
Running == mainPc # "died"

\* The safety properties of a running server follow from what holds at the
\* main thread's place.
LEMMA CoreSafe == TypeOK /\ Core /\ Running => Safety
<1> SUFFICES ASSUME TypeOK, Core, Running PROVE Safety
  OBVIOUS
<1> USE WorkersAssumption, ConnsAssumption
<1> USE DEF TypeOK, Core, Running, MainPcs, WorkerPcs
<1>1. HandlersExclusive
  BY DEF HandlersExclusive, LocksInv, SetupInv, AcceptInv, HandOverInv,
         DispatchInv, Dispatching, OthersIdle, Idle, NotPosted
<1>2. SignalFindsWaiter
  BY DEF SignalFindsWaiter, LocksInv, HandOverInv, Idle
<1>3. JobIntact
  BY DEF JobIntact, SetupInv, AcceptInv, HandOverInv, DispatchInv,
         Dispatching, OthersIdle, Idle, Pending
<1>4. SemaphoreAlive
  BY DEF SemaphoreAlive, SetupInv, AcceptInv, HandOverInv, DispatchInv,
         Dispatching, OthersIdle, Idle
<1>5. PoolNeverExhausted
  BY DEF PoolNeverExhausted, AcceptInv
<1>6. QED
  BY <1>1, <1>2, <1>3, <1>4, <1>5 DEF Safety

-----------------------------------------------------------------------------
(* The main thread and the clients. *)

\* A client that connects while the server runs only lengthens the queue.
LEMMA StepConnect ==
  ASSUME NEW c \in Conns, TypeOK, Core, Connect(c)
  PROVE  TypeOK' /\ Core'
<1>1. TypeOK'
  BY DEF Connect, TypeOK, workerVars, semVars
<1>2. LocksInv'
  BY DEF Connect, workerVars, semVars, Core, LocksInv
<1>3. AcceptInv'
  BY DEF Connect, workerVars, Core, AcceptInv, Idle
<1>4. HandOverInv'
  BY DEF Connect, workerVars, semVars, Core, HandOverInv, Idle
<1>5. DispatchInv'
  BY DEF Connect, workerVars, semVars, Core, DispatchInv, Dispatching,
     OthersIdle, Idle, NotPosted, Pending, Returned
<1>6. SetupInv'
  BY DEF Connect, SetupInv
<1>7. QED
  BY <1>1, <1>2, <1>3, <1>4, <1>5, <1>6 DEF Core

\* setup_thread_pool fills the list before any thread is created.
LEMMA StepThreadPoolInsert ==
  ASSUME NEW w \in Workers, TypeOK, Core, thread_pool_insert(w)
  PROVE  TypeOK' /\ Core'
<1>1. TypeOK'
  BY DEF thread_pool_insert, InsertFirst, TypeOK, semVars
<1>2. LocksInv'
  BY DEF thread_pool_insert, InsertFirst, semVars, Core, LocksInv
<1>3. SetupInv'
  BY DEF thread_pool_insert, InsertFirst, Core, SetupInv
<1>4. AcceptInv' /\ HandOverInv' /\ DispatchInv'
  BY DEF thread_pool_insert, InsertFirst, AcceptInv, HandOverInv,
     DispatchInv, Dispatching
<1>5. QED
  BY <1>1, <1>2, <1>3, <1>4 DEF Core

\* The accept loop starts with a list of at least one thread, none created.
LEMMA StepStartPolling ==
  ASSUME TypeOK, Core, StartPolling
  PROVE  TypeOK' /\ Core'
<1>1. TypeOK'
  BY DEF StartPolling, TypeOK, MainPcs, workerVars, semVars
<1>2. LocksInv'
  BY DEF StartPolling, workerVars, semVars, Core, LocksInv
<1>3. AcceptInv'
  BY WorkersAssumption DEF StartPolling, workerVars, Core, Range, LocksInv,
     SetupInv, AcceptInv, Idle
<1>4. SetupInv' /\ HandOverInv' /\ DispatchInv'
  BY DEF StartPolling, SetupInv, HandOverInv, DispatchInv, Dispatching
<1>5. QED
  BY <1>1, <1>2, <1>3, <1>4 DEF Core

\* accept() hands the main thread a connection while every thread is idle or
\* about to suspend.
LEMMA StepAccept ==
  ASSUME TypeOK, Core, Accept
  PROVE  TypeOK' /\ Core'
<1>1. TypeOK'
  BY DEF Accept, TypeOK, MainPcs, workerVars, semVars
<1>2. LocksInv'
  BY DEF Accept, workerVars, semVars, Core, LocksInv
<1>3. AcceptInv'
  BY ConnsAssumption DEF Accept, TypeOK, workerVars, Core, AcceptInv, Idle
<1>4. SetupInv' /\ HandOverInv' /\ DispatchInv'
  BY DEF Accept, SetupInv, HandOverInv, DispatchInv, Dispatching
<1>5. QED
  BY <1>1, <1>2, <1>3, <1>4 DEF Core

\* A failed accept() leaves the main thread in the loop.
LEMMA StepAcceptFail ==
  ASSUME TypeOK, Core, AcceptFail
  PROVE  TypeOK' /\ Core'
<1>1. TypeOK'
  BY DEF AcceptFail, TypeOK, workerVars, semVars
<1>2. LocksInv'
  BY DEF AcceptFail, workerVars, semVars, Core, LocksInv
<1>3. AcceptInv'
  BY DEF AcceptFail, workerVars, Core, AcceptInv, Idle
<1>4. SetupInv' /\ HandOverInv' /\ DispatchInv'
  BY DEF AcceptFail, SetupInv, HandOverInv, DispatchInv, Dispatching
<1>5. QED
  BY <1>1, <1>2, <1>3, <1>4 DEF Core

\* After the handshake the connection has its context and no thread yet.
LEMMA StepSslAccept ==
  ASSUME TypeOK, Core, SslAccept
  PROVE  TypeOK' /\ Core'
<1>1. TypeOK'
  BY DEF SslAccept, TypeOK, MainPcs, workerVars, semVars, Core, AcceptInv
<1>2. LocksInv'
  BY DEF SslAccept, workerVars, semVars, Core, LocksInv
<1>3. AcceptInv'
  BY DEF SslAccept, workerVars, Core, AcceptInv, Idle
<1>4. SetupInv' /\ HandOverInv' /\ DispatchInv'
  BY DEF SslAccept, SetupInv, HandOverInv, DispatchInv, Dispatching
<1>5. QED
  BY <1>1, <1>2, <1>3, <1>4 DEF Core

\* After a failed handshake the main thread is back in the loop, with
\* nothing allocated.
LEMMA StepSslAcceptFail ==
  ASSUME TypeOK, Core, SslAcceptFail
  PROVE  TypeOK' /\ Core'
<1>1. TypeOK'
  BY DEF SslAcceptFail, TypeOK, MainPcs, workerVars, semVars
<1>2. LocksInv'
  BY DEF SslAcceptFail, workerVars, semVars, Core, LocksInv
<1>3. AcceptInv'
  BY DEF SslAcceptFail, workerVars, Core, AcceptInv, Idle
<1>4. SetupInv' /\ HandOverInv' /\ DispatchInv'
  BY DEF SslAcceptFail, SetupInv, HandOverInv, DispatchInv, Dispatching
<1>5. QED
  BY <1>1, <1>2, <1>3, <1>4 DEF Core

\* thread_pool_get finds a thread; taking the mutex it knows that the last
\* one has suspended, so that every thread is idle.
LEMMA StepThreadPoolGet ==
  ASSUME TypeOK, Core, thread_pool_get
  PROVE  TypeOK' /\ Core'
<1>1. pool # <<>>
  BY DEF thread_pool_get, Core, AcceptInv
<1>2. Head(pool) \in Workers /\ Tail(pool) \in Seq(Workers)
  BY <1>1 DEF TypeOK
<1>3. TypeOK'
  BY <1>1, <1>2 DEF thread_pool_get, TypeOK, MainPcs, semVars
<1>4. LocksInv'
  BY DEF thread_pool_get, semVars, Core, LocksInv
<1>5. HandOverInv'
  BY WorkersAssumption DEF thread_pool_get, TypeOK, Core, LocksInv,
     AcceptInv, HandOverInv, Idle
<1>6. SetupInv' /\ AcceptInv' /\ DispatchInv'
  BY DEF thread_pool_get, SetupInv, AcceptInv, DispatchInv, Dispatching
<1>7. QED
  BY <1>3, <1>4, <1>5, <1>6 DEF Core

\* The dispatch gives the thread its semaphore, with no permit, and its job.
LEMMA StepPrepareJob ==
  ASSUME TypeOK, Core, PrepareJob
  PROVE  TypeOK' /\ Core'
<1>1. TypeOK'
  BY DEF PrepareJob, Prepare, TypeOK, MainPcs, Core, HandOverInv
<1>2. LocksInv'
  BY DEF PrepareJob, Prepare, Core, LocksInv, HandOverInv, Idle
<1>3. HandOverInv'
  BY DEF PrepareJob, Prepare, TypeOK, Core, HandOverInv, Idle
<1>4. SetupInv' /\ AcceptInv' /\ DispatchInv'
  BY DEF PrepareJob, Prepare, SetupInv, AcceptInv, DispatchInv, Dispatching
<1>5. QED
  BY <1>1, <1>2, <1>3, <1>4 DEF Core

\* thread_pool_exec creates the thread, or wakes it out of its suspension.
LEMMA StepThreadPoolExec ==
  ASSUME TypeOK, Core, thread_pool_exec
  PROVE  TypeOK' /\ Core'
<1>1. mine \in Workers
  BY DEF thread_pool_exec, Core, HandOverInv
<1>2. wpc' \in [Workers -> WorkerPcs]
  BY <1>1 DEF thread_pool_exec, TypeOK, WorkerPcs
<1>3. created' \in [Workers -> BOOLEAN]
  BY <1>1 DEF thread_pool_exec, TypeOK
<1>4. TypeOK'
  BY <1>2, <1>3 DEF thread_pool_exec, TypeOK, MainPcs, semVars
<1>5. LocksInv'
  BY DEF thread_pool_exec, TypeOK, semVars, Core, LocksInv
<1>6. DispatchInv'
  BY DEF thread_pool_exec, TypeOK, semVars, Core, LocksInv, HandOverInv,
     DispatchInv, OthersIdle, Idle, NotPosted, Pending, Returned
<1>7. SetupInv' /\ AcceptInv' /\ HandOverInv'
  BY DEF thread_pool_exec, SetupInv, AcceptInv, HandOverInv
<1>8. QED
  BY <1>4, <1>5, <1>6, <1>7 DEF Core

\* semaphore_wait blocks before the post and passes after it.
LEMMA StepSemaphoreWait ==
  ASSUME TypeOK, Core, semaphore_wait
  PROVE  TypeOK' /\ Core'
<1>1. TypeOK'
  BY DEF semaphore_wait, TypeOK, MainPcs, workerVars, Core, DispatchInv,
     Dispatching
<1>2. LocksInv'
  BY DEF semaphore_wait, workerVars, Core, LocksInv
<1>3. DispatchInv'
  BY WorkersAssumption DEF semaphore_wait, TypeOK, workerVars, Core,
     LocksInv, DispatchInv, Dispatching, OthersIdle, Idle, NotPosted,
     Pending, Returned
<1>4. SetupInv' /\ AcceptInv' /\ HandOverInv'
  BY DEF semaphore_wait, SetupInv, AcceptInv, HandOverInv
<1>5. QED
  BY <1>1, <1>2, <1>3, <1>4 DEF Core

\* The woken main thread leaves semaphore_wait once the poster has left.
LEMMA StepSemaphoreWaitReturns ==
  ASSUME TypeOK, Core, SemaphoreWaitReturns
  PROVE  TypeOK' /\ Core'
<1>1. TypeOK'
  BY DEF SemaphoreWaitReturns, TypeOK, MainPcs, workerVars, semVars
<1>2. LocksInv'
  BY DEF SemaphoreWaitReturns, workerVars, semVars, Core, LocksInv
<1>3. DispatchInv'
  BY WorkersAssumption DEF SemaphoreWaitReturns, workerVars, semVars, Core,
     LocksInv, DispatchInv, Dispatching, OthersIdle, Idle, NotPosted,
     Pending, Returned
<1>4. SetupInv' /\ AcceptInv' /\ HandOverInv'
  BY DEF SemaphoreWaitReturns, SetupInv, AcceptInv, HandOverInv
<1>5. QED
  BY <1>1, <1>2, <1>3, <1>4 DEF Core

\* The semaphore is destroyed when its thread is done with it and is the
\* first of the list again.
LEMMA StepSemaphoreDestroy ==
  ASSUME TypeOK, Core, semaphore_destroy
  PROVE  TypeOK' /\ Core'
<1>1. TypeOK'
  BY DEF semaphore_destroy, TypeOK, MainPcs, workerVars, Core, DispatchInv,
     Dispatching
<1>2. LocksInv'
  BY DEF semaphore_destroy, workerVars, Core, LocksInv, DispatchInv,
     Dispatching
<1>3. AcceptInv'
  BY DEF semaphore_destroy, TypeOK, WorkerPcs, workerVars, Core, AcceptInv,
     DispatchInv, Dispatching, OthersIdle, Idle, NotPosted, Pending,
     Returned
<1>4. SetupInv' /\ HandOverInv' /\ DispatchInv'
  BY DEF semaphore_destroy, SetupInv, HandOverInv, DispatchInv, Dispatching
<1>5. QED
  BY <1>1, <1>2, <1>3, <1>4 DEF Core

-----------------------------------------------------------------------------
(* The workers. *)

\* The handler starts on the job that was handed over.
LEMMA StepHandlerStart ==
  ASSUME NEW w \in Workers, TypeOK, Core, HandlerStart(w)
  PROVE  TypeOK' /\ Core'
<1>1. TypeOK'
  BY DEF HandlerStart, Goto, TypeOK, WorkerPcs, semVars
<1>2. LocksInv'
  BY DEF HandlerStart, Goto, semVars, Core, LocksInv
<1>3. DispatchInv'
  BY DEF HandlerStart, Goto, semVars, Core, DispatchInv, Dispatching,
     OthersIdle, Idle, NotPosted, Pending, Returned
<1>4. SetupInv' /\ AcceptInv' /\ HandOverInv'
  BY DEF HandlerStart, Goto, Core, Idle, SetupInv, AcceptInv, HandOverInv
<1>5. QED
  BY <1>1, <1>2, <1>3, <1>4 DEF Core

\* The handler frees the context it was given.
LEMMA StepHandlerReturn ==
  ASSUME NEW w \in Workers, TypeOK, Core, HandlerReturn(w)
  PROVE  TypeOK' /\ Core'
<1>1. TypeOK'
  BY DEF HandlerReturn, Goto, TypeOK, WorkerPcs, semVars
<1>2. LocksInv'
  BY DEF HandlerReturn, Goto, semVars, Core, LocksInv
<1>3. DispatchInv'
  BY DEF HandlerReturn, Goto, TypeOK, semVars, Core, DispatchInv,
     Dispatching, OthersIdle, Idle, NotPosted, Pending, Returned
<1>4. SetupInv' /\ AcceptInv' /\ HandOverInv'
  BY DEF HandlerReturn, Goto, Core, Idle, SetupInv, AcceptInv, HandOverInv
<1>5. QED
  BY <1>1, <1>2, <1>3, <1>4 DEF Core

\* A thread that is done locks the pool and becomes the first of its list.
LEMMA StepThreadPoolResuspend ==
  ASSUME NEW w \in Workers, TypeOK, Core, thread_pool_resuspend(w)
  PROVE  TypeOK' /\ Core'
<1>1. TypeOK'
  BY DEF thread_pool_resuspend, Goto, Resuspend, InsertFirst, TypeOK,
     WorkerPcs, semVars
<1>2. LocksInv'
  BY WorkersAssumption DEF thread_pool_resuspend, Goto, Resuspend,
     InsertFirst, TypeOK, semVars, Core, LocksInv
<1>3. AcceptInv'
  BY DEF thread_pool_resuspend, Goto, Resuspend, InsertFirst, Core,
     LocksInv, AcceptInv, Idle
<1>4. DispatchInv'
  BY DEF thread_pool_resuspend, Goto, Resuspend, InsertFirst, semVars, Core,
     DispatchInv, Dispatching, OthersIdle, Idle, NotPosted, Pending
<1>5. SetupInv' /\ HandOverInv'
  BY DEF thread_pool_resuspend, Resuspend, Goto, InsertFirst, Core, Idle,
     SetupInv, HandOverInv
<1>6. QED
  BY <1>1, <1>2, <1>3, <1>4, <1>5 DEF Core

\* semaphore_post wakes the main thread exactly when it waits.
LEMMA StepSemaphorePost ==
  ASSUME NEW w \in Workers, TypeOK, Core, semaphore_post(w)
  PROVE  TypeOK' /\ Core'
<1>1. TypeOK'
  BY DEF semaphore_post, Goto, Post, TypeOK, MainPcs, WorkerPcs, Core,
     SetupInv, AcceptInv, HandOverInv, DispatchInv, Dispatching, OthersIdle,
     Idle, NotPosted
<1>2. LocksInv'
  BY DEF semaphore_post, Goto, Post, TypeOK, Core, LocksInv
<1>3. DispatchInv'
  BY DEF semaphore_post, Goto, Post, TypeOK, Core, DispatchInv, Dispatching,
     OthersIdle, Idle, NotPosted, Pending, Returned
<1>4. SetupInv' /\ AcceptInv' /\ HandOverInv'
  BY DEF semaphore_post, Post, Goto, Core, Idle, SetupInv, AcceptInv,
     HandOverInv
<1>5. QED
  BY <1>1, <1>2, <1>3, <1>4 DEF Core

\* The poster leaves the semaphore.
LEMMA StepSemaphorePostReturns ==
  ASSUME NEW w \in Workers, TypeOK, Core, SemaphorePostReturns(w)
  PROVE  TypeOK' /\ Core'
<1>1. TypeOK'
  BY DEF SemaphorePostReturns, Goto, SemaphoreUnlock, TypeOK, WorkerPcs
<1>2. LocksInv'
  BY DEF SemaphorePostReturns, Goto, SemaphoreUnlock, TypeOK, Core, LocksInv
<1>3. DispatchInv'
  BY DEF SemaphorePostReturns, Goto, SemaphoreUnlock, Core, DispatchInv,
     Dispatching, OthersIdle, Idle, NotPosted, Pending, Returned
<1>4. SetupInv' /\ AcceptInv' /\ HandOverInv'
  BY DEF SemaphorePostReturns, SemaphoreUnlock, Goto, Core, Idle, SetupInv,
     AcceptInv, HandOverInv
<1>5. QED
  BY <1>1, <1>2, <1>3, <1>4 DEF Core

\* Suspending releases the pool.
LEMMA StepPark ==
  ASSUME NEW w \in Workers, TypeOK, Core, Park(w)
  PROVE  TypeOK' /\ Core'
<1>1. TypeOK'
  BY DEF Park, Goto, TypeOK, WorkerPcs, semVars
<1>2. LocksInv'
  BY WorkersAssumption DEF Park, Goto, TypeOK, semVars, Core, LocksInv
<1>3. DispatchInv'
  BY DEF Park, Goto, semVars, Core, DispatchInv, Dispatching, OthersIdle,
     Idle, NotPosted, Pending, Returned
<1>4. SetupInv' /\ AcceptInv' /\ HandOverInv'
  BY DEF Park, Goto, Core, Idle, SetupInv, AcceptInv, HandOverInv
<1>5. QED
  BY <1>1, <1>2, <1>3, <1>4 DEF Core

\* A signalled thread runs the job it was handed.
LEMMA StepResume ==
  ASSUME NEW w \in Workers, TypeOK, Core, Resume(w)
  PROVE  TypeOK' /\ Core'
<1>1. TypeOK'
  BY DEF Resume, Goto, TypeOK, WorkerPcs, semVars
<1>2. LocksInv'
  BY DEF Resume, Goto, semVars, Core, LocksInv
<1>3. DispatchInv'
  BY DEF Resume, Goto, semVars, Core, DispatchInv, Dispatching, OthersIdle,
     Idle, NotPosted, Pending, Returned
<1>4. SetupInv' /\ AcceptInv' /\ HandOverInv'
  BY DEF Resume, Goto, Core, Idle, SetupInv, AcceptInv, HandOverInv
<1>5. QED
  BY <1>1, <1>2, <1>3, <1>4 DEF Core

-----------------------------------------------------------------------------
(* The invariant. *)

\* The process may end at any point (SIGINT, SIGSEGV, DIE): nothing moves any
\* more, so the safety properties stay as they are.
LEMMA StepDie ==
  ASSUME TypeOK, Safety, CreateFail \/ Signal
  PROVE  TypeOK' /\ Safety' /\ mainPc' = "died"
<1> USE DEF CreateFail, Signal, workerVars, semVars
<1>1. TypeOK'
  BY DEF TypeOK, MainPcs
<1>2. HandlersExclusive' /\ JobIntact'
  BY DEF Safety, HandlersExclusive, JobIntact
<1>3. SemaphoreAlive'
  BY DEF Safety, SemaphoreAlive
<1>4. SignalFindsWaiter' /\ PoolNeverExhausted' /\ mainPc' = "died"
  BY DEF SignalFindsWaiter, PoolNeverExhausted
<1>5. QED
  BY <1>1, <1>2, <1>3, <1>4 DEF Safety

\* A step of the running server keeps the type and what holds at the main
\* thread's place, unless it ends the process.
LEMMA StepRunning ==
  ASSUME TypeOK, Core, Next, mainPc # "died", ~CreateFail, ~Signal
  PROVE  TypeOK' /\ Core'
<1>1. CASE \E c \in Conns : Connect(c)
  BY <1>1, StepConnect
<1>2. CASE \E w \in Workers : thread_pool_insert(w)
  BY <1>2, StepThreadPoolInsert
<1>3. CASE StartPolling \/ Accept \/ AcceptFail
  BY <1>3, StepStartPolling, StepAccept, StepAcceptFail
<1>4. CASE SslAccept \/ SslAcceptFail
  BY <1>4, StepSslAccept, StepSslAcceptFail
<1>5. CASE thread_pool_get \/ PrepareJob \/ thread_pool_exec
  BY <1>5, StepThreadPoolGet, StepPrepareJob, StepThreadPoolExec
<1>6. CASE semaphore_wait \/ SemaphoreWaitReturns \/ semaphore_destroy
  BY <1>6, StepSemaphoreWait, StepSemaphoreWaitReturns, StepSemaphoreDestroy
<1>7. ASSUME NEW w \in Workers, WorkerStep(w)
      PROVE  TypeOK' /\ Core'
  BY <1>7, StepHandlerStart, StepHandlerReturn, StepThreadPoolResuspend,
     StepSemaphorePost, StepSemaphorePostReturns, StepPark, StepResume
     DEF WorkerStep
<1>8. QED
  BY <1>1, <1>2, <1>3, <1>4, <1>5, <1>6, <1>7 DEF Next, MainStep, Ended

\* The server starts with no connection, no thread created and no lock held.
LEMMA InitIInv == Init => IInv
<1> SUFFICES ASSUME Init PROVE IInv
  OBVIOUS
<1>1. TypeOK
  BY DEF Init, TypeOK, MainPcs, WorkerPcs
<1>2. Core
  BY WorkersAssumption DEF Init, Core, LocksInv, SetupInv, AcceptInv,
     HandOverInv, DispatchInv, Dispatching
<1>3. Safety
  BY <1>1, <1>2, CoreSafe DEF Init, Running
<1>4. QED
  BY <1>1, <1>2, <1>3 DEF IInv, Core

\* IInv is inductive.
LEMMA NextIInv == IInv /\ [Next]_vars => IInv'
<1> SUFFICES ASSUME IInv, [Next]_vars PROVE IInv'
  OBVIOUS
<1>1. TypeOK /\ Safety /\ (mainPc # "died" => Core)
  BY DEF IInv, Core
<1>2. CASE UNCHANGED vars
  <2>1. TypeOK'
    BY <1>1, <1>2 DEF vars, workerVars, semVars, TypeOK
  <2>2. Safety'
    BY <1>1, <1>2 DEF vars, workerVars, semVars, Safety, HandlersExclusive,
       SignalFindsWaiter, JobIntact, SemaphoreAlive, PoolNeverExhausted
  <2>3. mainPc' # "died" => Core'
    BY <1>1, <1>2 DEF vars, workerVars, semVars, Core, LocksInv, SetupInv,
       AcceptInv, HandOverInv, DispatchInv, Dispatching, OthersIdle, Idle,
       NotPosted, Pending, Returned
  <2>4. QED
    BY <2>1, <2>2, <2>3 DEF IInv, Core
<1>3. CASE Next /\ ~UNCHANGED vars
  <2>1. mainPc # "died"
    BY <1>3 DEF Next, MainStep, WorkerStep, Ended, Connect, Signal,
       thread_pool_insert, StartPolling, Accept, AcceptFail, SslAccept,
       SslAcceptFail, thread_pool_get, PrepareJob, Prepare, thread_pool_exec,
       CreateFail, semaphore_wait, SemaphoreWaitReturns, semaphore_destroy,
       HandlerStart, HandlerReturn, thread_pool_resuspend, Resuspend,
       semaphore_post, Post, SemaphorePostReturns, SemaphoreUnlock, Park,
       Resume, Goto
  <2>2. CASE CreateFail \/ Signal
    BY <1>1, <2>2, StepDie DEF IInv
  <2>3. CASE ~CreateFail /\ ~Signal
    <3>1. TypeOK' /\ Core'
      BY <1>1, <1>3, <2>1, <2>3, StepRunning
    <3>2. Running'
      BY <1>1, <1>3, <2>1, <2>3 DEF Running, Core, AcceptInv, Next, MainStep,
         WorkerStep, Ended, Connect, thread_pool_insert, StartPolling, Accept,
         AcceptFail, SslAccept, SslAcceptFail, thread_pool_get, PrepareJob,
         Prepare, thread_pool_exec, semaphore_wait, SemaphoreWaitReturns,
         semaphore_destroy, HandlerStart, HandlerReturn, thread_pool_resuspend,
         Resuspend, semaphore_post, Post, SemaphorePostReturns,
         SemaphoreUnlock, Park, Resume
    <3>3. Safety'
      BY <3>1, <3>2, CoreSafe, PTL
    <3>4. QED
      BY <3>1, <3>3 DEF IInv, Core
  <2>4. QED
    BY <2>2, <2>3
<1>4. QED
  BY <1>2, <1>3

\* IInv holds in every reachable state of the server.
THEOREM Invariance == Spec => []IInv
<1>1. QED
  BY InitIInv, NextIInv, PTL DEF Spec

\* The state stays within its type: in particular a semaphore's counter never
\* leaves -1..1.
THEOREM TypeCorrect == Spec => []TypeOK
<1>1. IInv => TypeOK
  BY DEF IInv
<1>2. QED
  BY <1>1, Invariance, PTL

\* At most one request handler runs at a time, and the main thread waits for
\* it, whatever the number of threads.
THEOREM Exclusion == Spec => []HandlersExclusive
<1>1. IInv => HandlersExclusive
  BY DEF IInv, Safety
<1>2. QED
  BY <1>1, Invariance, PTL

\* The signal of thread_pool_exec is never lost.
THEOREM NoLostSignal == Spec => []SignalFindsWaiter
<1>1. IInv => SignalFindsWaiter
  BY DEF IInv, Safety
<1>2. QED
  BY <1>1, Invariance, PTL

\* A handler works on the connection just accepted, whose context is allocated.
THEOREM JobsIntact == Spec => []JobIntact
<1>1. IInv => JobIntact
  BY DEF IInv, Safety
<1>2. QED
  BY <1>1, Invariance, PTL

\* No thread posts a semaphore that the dispatch has freed.
THEOREM NoPostAfterFree == Spec => []SemaphoreAlive
<1>1. IInv => SemaphoreAlive
  BY DEF IInv, Safety
<1>2. QED
  BY <1>1, Invariance, PTL

\* The dispatch never finds the pool empty.
THEOREM NeverExhausted == Spec => []PoolNeverExhausted
<1>1. IInv => PoolNeverExhausted
  BY DEF IInv, Safety
<1>2. QED
  BY <1>1, Invariance, PTL

-----------------------------------------------------------------------------
(* Refinement of SerialServer: the handshake, the hand-over, the semaphore   *)
(* and the suspension are invisible; Accept is Take, a failed accept() is    *)
(* Abort, a failed handshake is Reject, the handler's entry and return are   *)
(* Start and Finish.                                                         *)

USE DEF Cur, Phase, Serving

\* What a connection sees is unchanged.
Invisible == backlog' = backlog /\ Cur' = Cur /\ Phase' = Phase

\* A client that connects.
LEMMA MapConnect ==
  ASSUME NEW c \in Conns, TypeOK, Connect(c)
  PROVE  Phase # "down" /\ Serial!Connect(c)
<1>1. Phase # "down" /\ c # Cur
  BY ConnsAssumption DEF Connect
<1>2. Cur' = Cur /\ Phase' = Phase
  BY DEF Connect, workerVars
<1>3. QED
  BY <1>1, <1>2 DEF Connect, Waiting, Serial!Connect, Serial!Waiting

\* The setup of the pool is invisible.
LEMMA MapSetup ==
  ASSUME TypeOK, Core,
         (\E w \in Workers : thread_pool_insert(w)) \/ StartPolling
  PROVE  Invisible
BY DEF Invisible, thread_pool_insert, StartPolling, workerVars

\* accept() takes the first connection of the queue, when none is served.
LEMMA MapAccept ==
  ASSUME TypeOK, Core, Accept
  PROVE  Phase # "down" /\ Serial!Take
<1>1. Head(backlog) \in Conns
  BY DEF Accept, TypeOK
<1>2. Cur = NULL /\ Cur' = Head(backlog)
  BY <1>1, ConnsAssumption DEF Accept, Core, AcceptInv
<1>3. Phase # "down" /\ Phase' = Phase
  BY DEF Accept, workerVars
<1>4. QED
  BY <1>2, <1>3 DEF Accept, Serial!Take

\* A failed accept() drops the first connection of the queue.
LEMMA MapAcceptFail ==
  ASSUME TypeOK, Core, AcceptFail
  PROVE  Phase # "down" /\ Serial!Abort
BY DEF AcceptFail, workerVars, Serial!Abort

\* A failed handshake rejects the connection before any handler runs.
LEMMA MapSslAcceptFail ==
  ASSUME TypeOK, Core, SslAcceptFail
  PROVE  Phase # "down" /\ Serial!Reject
<1>1. Cur # NULL /\ Cur' = NULL
  BY DEF SslAcceptFail, Core, AcceptInv
<1>2. Phase = "up" /\ Phase' = "up"
  BY DEF SslAcceptFail, workerVars, Core, AcceptInv, Idle
<1>3. QED
  BY <1>1, <1>2 DEF SslAcceptFail, Serial!Reject

\* The hand-over to the thread is invisible: the connection keeps its context.
LEMMA MapHandOver ==
  ASSUME TypeOK, Core,
         SslAccept \/ thread_pool_get \/ PrepareJob \/ thread_pool_exec
  PROVE  Invisible
<1>1. CASE SslAccept
  BY <1>1 DEF Invisible, SslAccept, workerVars, Core, AcceptInv
<1>2. CASE thread_pool_get
  BY <1>2, ConnsAssumption DEF Invisible, thread_pool_get, Core, AcceptInv
<1>3. CASE PrepareJob
  BY <1>3 DEF Invisible, PrepareJob, Prepare
<1>4. CASE thread_pool_exec
  BY <1>4 DEF Invisible, thread_pool_exec, TypeOK, Core, HandOverInv, Idle
<1>5. QED
  BY <1>1, <1>2, <1>3, <1>4

\* The semaphore is invisible: it is destroyed after the connection is closed.
LEMMA MapSemaphore ==
  ASSUME TypeOK, Core,
         semaphore_wait \/ SemaphoreWaitReturns \/ semaphore_destroy
  PROVE  Invisible
<1>1. CASE semaphore_wait
  BY <1>1 DEF Invisible, semaphore_wait, workerVars
<1>2. CASE SemaphoreWaitReturns
  BY <1>2 DEF Invisible, SemaphoreWaitReturns, workerVars
<1>3. CASE semaphore_destroy
  BY <1>3, WorkersAssumption DEF Invisible, semaphore_destroy, workerVars,
     Core, DispatchInv, Dispatching, NotPosted, Pending
<1>4. QED
  BY <1>1, <1>2, <1>3

\* The end of the process stops the server.
LEMMA MapDie ==
  ASSUME CreateFail \/ Signal
  PROVE  Phase # "down" /\ Serial!Stop
BY DEF CreateFail, Signal, workerVars, Serial!Stop

\* The handler starts on the connection that was taken.
LEMMA MapHandlerStart ==
  ASSUME NEW w \in Workers, TypeOK, Core, HandlerStart(w)
  PROVE  Phase # "down" /\ Serial!Start
<1>1. Dispatching /\ w = mine
  BY DEF TypeOK, MainPcs, HandlerStart, Goto, Core, SetupInv, AcceptInv,
     HandOverInv, DispatchInv, Dispatching, OthersIdle, Idle
<1>2. Cur # NULL /\ Cur' = Cur
  BY <1>1, ConnsAssumption DEF HandlerStart, Goto, Core, DispatchInv, Pending
<1>3. Phase = "up"
  BY <1>1 DEF HandlerStart, Goto, Core, DispatchInv, OthersIdle, Idle
<1>4. Phase' = "handling"
  BY DEF HandlerStart, Goto, TypeOK
<1>5. QED
  BY <1>2, <1>3, <1>4 DEF HandlerStart, Serial!Start

\* The handler's return closes the connection.
LEMMA MapHandlerReturn ==
  ASSUME NEW w \in Workers, TypeOK, Core, HandlerReturn(w)
  PROVE  Phase # "down" /\ Serial!Finish
<1>1. Dispatching /\ w = mine
  BY DEF TypeOK, MainPcs, HandlerReturn, Goto, Core, SetupInv, AcceptInv,
     HandOverInv, DispatchInv, Dispatching, OthersIdle, Idle
<1>2. Cur' = NULL
  BY <1>1, WorkersAssumption DEF HandlerReturn, Goto, Core, DispatchInv, Pending
<1>3. Phase = "handling"
  BY DEF HandlerReturn, Goto
<1>4. Phase' = "up"
  BY <1>1 DEF HandlerReturn, Goto, TypeOK, Core, DispatchInv, OthersIdle, Idle
<1>5. QED
  BY <1>2, <1>3, <1>4 DEF HandlerReturn, Serial!Finish

\* A thread's way back into the pool is invisible.
LEMMA MapSuspend ==
  ASSUME NEW w \in Workers, TypeOK, Core,
         \/ thread_pool_resuspend(w) \/ semaphore_post(w)
         \/ SemaphorePostReturns(w) \/ Park(w) \/ Resume(w)
  PROVE  Invisible
<1>1. /\ backlog' = backlog /\ conn' = conn /\ mine' = mine /\ ctx' = ctx
      /\ mainPc # "died" /\ mainPc' # "died"
  BY DEF thread_pool_resuspend, Resuspend, semaphore_post, Post,
     SemaphorePostReturns, SemaphoreUnlock, Park, Resume, Goto
<1>2. \A v \in Workers : wpc[v] = "handling" <=> wpc'[v] = "handling"
  BY DEF TypeOK, thread_pool_resuspend, Resuspend, semaphore_post, Post,
     SemaphorePostReturns, SemaphoreUnlock, Park, Resume, Goto
<1>3. QED
  BY <1>1, <1>2 DEF Invisible

\* Every step of the server is a step of the serial server, or invisible.
LEMMA MapNext ==
  IInv /\ [Next]_vars => [Serial!Next]_(Serial!vars)
<1> SUFFICES ASSUME IInv, [Next]_vars
             PROVE  Serial!Next \/ Invisible
  BY DEF Invisible, Serial!vars
<1>1. TypeOK /\ (Running => Core)
  BY DEF IInv, Core, Running
<1>2. CASE UNCHANGED vars \/ ~Running
  <2>1. CASE UNCHANGED vars
    BY <2>1 DEF vars, workerVars, Invisible
  <2>2. CASE ~Running /\ ~UNCHANGED vars
    BY <2>2 DEF Running, Next, MainStep, WorkerStep, Ended, Connect, Signal,
       thread_pool_insert, StartPolling, Accept, AcceptFail, SslAccept,
       SslAcceptFail, thread_pool_get, PrepareJob, Prepare, thread_pool_exec,
       CreateFail, semaphore_wait, SemaphoreWaitReturns, semaphore_destroy,
       HandlerStart, HandlerReturn, thread_pool_resuspend, Resuspend,
       semaphore_post, Post, SemaphorePostReturns, SemaphoreUnlock, Park,
       Resume, Goto
  <2>3. QED
    BY <1>2, <2>1, <2>2
<1>3. CASE Running /\ Next
  <2> USE <1>1, <1>3
  <2>1. CASE \E c \in Conns : Connect(c)
    BY <2>1, MapConnect DEF Serial!Next
  <2>2. CASE (\E w \in Workers : thread_pool_insert(w)) \/ StartPolling
    BY <2>2, MapSetup
  <2>3. CASE Accept \/ AcceptFail \/ SslAcceptFail
    BY <2>3, MapAccept, MapAcceptFail, MapSslAcceptFail DEF Serial!Next
  <2>4. CASE SslAccept \/ thread_pool_get \/ PrepareJob \/ thread_pool_exec
    BY <2>4, MapHandOver
  <2>5. CASE semaphore_wait \/ SemaphoreWaitReturns \/ semaphore_destroy
    BY <2>5, MapSemaphore
  <2>6. CASE CreateFail \/ Signal
    BY <2>6, MapDie DEF Serial!Next
  <2>7. CASE \E w \in Workers : HandlerStart(w) \/ HandlerReturn(w)
    BY <2>7, MapHandlerStart, MapHandlerReturn DEF Serial!Next
  <2>8. CASE \E w \in Workers :
               \/ thread_pool_resuspend(w) \/ semaphore_post(w)
               \/ SemaphorePostReturns(w) \/ Park(w) \/ Resume(w)
    BY <2>8, MapSuspend
  <2>9. QED
    BY <2>1, <2>2, <2>3, <2>4, <2>5, <2>6, <2>7, <2>8
       DEF Running, Next, MainStep, WorkerStep, Ended
<1>4. QED
  BY <1>2, <1>3

\* The accept loop with its pool implements the serial, first-come first-served
\* server.
THEOREM Refinement == Spec => ImplementsSerialServer
<1>1. Init => Serial!Init
  BY DEF Init, Serial!Init
<1>2. QED
  BY <1>1, MapNext, Invariance, PTL DEF Spec, ImplementsSerialServer, Serial!Spec
=============================================================================

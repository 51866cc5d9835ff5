----------------------------- MODULE ThreadPool -----------------------------
(***************************************************************************)
(* The accept loop of ys (poll_client_connections) and the thread pool it   *)
(* dispatches to, at the granularity of the critical sections of the pool   *)
(* mutex and of the semaphore that a blocking dispatch allocates.           *)
(*                                                                         *)
(* The main thread accepts a connection, takes the first thread of the     *)
(* pool's list, hands it the connection and blocks on a fresh semaphore;   *)
(* the thread runs the handler, puts itself back at the front of the list,  *)
(* posts the semaphore and suspends on its condition variable, all three   *)
(* under the pool mutex.  Every dispatch of ys passes block_caller = true. *)
(*                                                                         *)
(* A section that takes and releases a mutex without blocking in between   *)
(* is one step, enabled when the mutex is free.  Condition variables wake  *)
(* only waiters that were signalled; the wakeups that POSIX allows without *)
(* a signal are left out, since thread_pool_resuspend has no loop for them. *)
(***************************************************************************)
EXTENDS Naturals, Integers, Sequences, FiniteSets, Functions, Pointers

CONSTANTS Workers,  \* the thread_t objects of the pool
          Conns,    \* the clients, each with at most one connection at a time
          Backlog   \* MAX_QUEUED_CONNECTIONS

ASSUME WorkersAssumption == Workers # {} /\ NULL \notin Workers
ASSUME ConnsAssumption == NULL \notin Conns
ASSUME BacklogAssumption == Backlog \in Nat

VARIABLES
  sslctx,     \* does the server have a TLS context
  backlog,    \* the listen queue: connections accept() has not returned yet
  mainPc,     \* where the main thread is
  conn,       \* client_sockfd of the current iteration of the accept loop
  mine,       \* the local `thread` of thread_pool_dispatch
  pool,       \* the list at pool->head, first thread first
  poolMutex,  \* the thread that holds pool->mutex across steps
  wpc,        \* where each worker thread is
  created,    \* thread->thread_created
  execArg,    \* thread_data->exec_arg: the connection the thread is to handle
  ctx,        \* the connections whose thread_context is allocated
  semLive,    \* thread->semaphore # NULL
  permits,    \* thread->semaphore->permit_counter
  semMutex    \* the thread that holds thread->semaphore->mutex across steps

semVars    == <<semLive, permits, semMutex>>
workerVars == <<pool, poolMutex, wpc, created, execArg>>
vars == <<sslctx, backlog, mainPc, conn, mine, workerVars, ctx, semVars>>

MainPcs == {"setup", "select", "handshake", "get", "prepare", "exec",
            "sem_wait", "sem_blocked", "sem_woken", "destroy", "died"}
WorkerPcs == {"new", "run", "handling", "resuspend", "post", "post_unlock",
              "park", "suspended", "resumed"}

Waiting == {backlog[i] : i \in DOMAIN backlog}

\* c's socket is open: it was accepted, and neither rejected nor handled yet.
Serving(c) == c = conn /\ (mine = NULL \/ c \in ctx)

Init ==
  /\ sslctx \in BOOLEAN
  /\ backlog = <<>>
  /\ mainPc = "setup" /\ conn = NULL /\ mine = NULL
  /\ pool = <<>> /\ poolMutex = NULL
  /\ wpc = [w \in Workers |-> "new"]
  /\ created = [w \in Workers |-> FALSE]
  /\ execArg = [w \in Workers |-> NULL]
  /\ ctx = {}
  /\ semLive = [w \in Workers |-> FALSE]
  /\ permits = [w \in Workers |-> 0]
  /\ semMutex = [w \in Workers |-> NULL]

-----------------------------------------------------------------------------
(* Clients. *)

Connect(c) ==
  /\ mainPc \notin {"setup", "died"}
  /\ c \notin Waiting /\ ~Serving(c)
  /\ Len(backlog) < Backlog
  /\ backlog' = Append(backlog, c)
  /\ UNCHANGED <<sslctx, mainPc, conn, mine, workerVars, ctx, semVars>>

-----------------------------------------------------------------------------
(* The main thread: setup_thread_pool and poll_client_connections. *)

\* Mutant: the node becomes the last of the list.
InsertLast(w) == pool' = Append(pool, w)

\* glthread_insert_after(&pool->head, ...): the new node becomes the first.
InsertFirst(w) == pool' = <<w>> \o pool

thread_pool_insert(w) ==
  /\ mainPc = "setup" /\ w \notin Range(pool) /\ poolMutex = NULL
  /\ InsertFirst(w)
  /\ UNCHANGED <<sslctx, backlog, mainPc, conn, mine, poolMutex, wpc, created,
                 execArg, ctx, semVars>>

StartPolling ==
  /\ mainPc = "setup" /\ Workers \subseteq Range(pool)
  /\ mainPc' = "select"
  /\ UNCHANGED <<sslctx, backlog, conn, mine, workerVars, ctx, semVars>>

\* accept() returns a connection; without TLS its contexts are allocated and
\* the dispatch begins, with TLS the handshake comes first.
Accept ==
  /\ mainPc = "select" /\ backlog # <<>>
  /\ backlog' = Tail(backlog)
  /\ conn' = Head(backlog)
  /\ IF sslctx THEN mainPc' = "handshake" /\ ctx' = ctx
               ELSE mainPc' = "get" /\ ctx' = ctx \cup {conn'}
  /\ UNCHANGED <<sslctx, mine, workerVars, semVars>>

\* accept() fails on a connection that is gone: log and continue.
AcceptFail ==
  /\ mainPc = "select" /\ backlog # <<>>
  /\ backlog' = Tail(backlog)
  /\ UNCHANGED <<sslctx, mainPc, conn, mine, workerVars, ctx, semVars>>

SslAccept ==
  /\ mainPc = "handshake"
  /\ mainPc' = "get"
  /\ ctx' = ctx \cup {conn}
  /\ UNCHANGED <<sslctx, backlog, conn, mine, workerVars, semVars>>

\* SSL_accept fails: response_send_protocol_error answers and closes.
SslAcceptFail ==
  /\ mainPc = "handshake"
  /\ mainPc' = "select" /\ conn' = NULL
  /\ UNCHANGED <<sslctx, backlog, mine, workerVars, ctx, semVars>>

\* thread_pool_get: no thread means dispatch returns false and main DIEs.
thread_pool_get ==
  /\ mainPc = "get" /\ poolMutex = NULL
  /\ IF pool = <<>> THEN mainPc' = "died" /\ UNCHANGED <<mine, pool>>
     ELSE /\ mainPc' = "prepare"
          /\ mine' = Head(pool)
          /\ pool' = Tail(pool)
  /\ UNCHANGED <<sslctx, backlog, conn, poolMutex, wpc, created, execArg, ctx,
                 semVars>>

\* thread_pool_dispatch up to thread_pool_exec: a fresh semaphore, the job.
Prepare(count) ==
  /\ mainPc = "prepare"
  /\ semLive' = [semLive EXCEPT ![mine] = TRUE]
  /\ permits' = [permits EXCEPT ![mine] = count]
  /\ semMutex' = [semMutex EXCEPT ![mine] = NULL]
  /\ execArg' = [execArg EXCEPT ![mine] = conn]
  /\ mainPc' = "exec"
  /\ UNCHANGED <<sslctx, backlog, conn, mine, pool, poolMutex, wpc, created,
                 ctx>>

\* Mutant: the semaphore starts with a permit.
PrepareJobOnePermit == Prepare(1)

PrepareJob == Prepare(0)

\* thread_pool_exec: create the thread, or signal its condition variable.
\* The signal is sent without pool->mutex and is lost on a thread that is not
\* waiting.
thread_pool_exec ==
  /\ mainPc = "exec"
  /\ IF created[mine]
     THEN /\ wpc' = IF wpc[mine] = "suspended"
                    THEN [wpc EXCEPT ![mine] = "resumed"] ELSE wpc
          /\ created' = created
     ELSE /\ wpc' = [wpc EXCEPT ![mine] = "run"]
          /\ created' = [created EXCEPT ![mine] = TRUE]
  /\ mainPc' = "sem_wait"
  /\ UNCHANGED <<sslctx, backlog, conn, mine, pool, poolMutex, execArg, ctx,
                 semVars>>

\* pthread_create fails: dispatch returns false and main DIEs.
CreateFail ==
  /\ mainPc = "exec" /\ ~created[mine]
  /\ mainPc' = "died"
  /\ UNCHANGED <<sslctx, backlog, conn, mine, workerVars, ctx, semVars>>

\* semaphore_wait: one decrement and one `if', no loop around the wait.
semaphore_wait ==
  /\ mainPc = "sem_wait" /\ semMutex[mine] = NULL
  /\ permits' = [permits EXCEPT ![mine] = @ - 1]
  /\ mainPc' = IF permits[mine] - 1 < 0 THEN "sem_blocked" ELSE "destroy"
  /\ UNCHANGED <<sslctx, backlog, conn, mine, workerVars, ctx, semLive,
                 semMutex>>

\* Mutant: the woken main thread does not wait for the semaphore's mutex.
WaitReturnsUnlocked ==
  /\ mainPc = "sem_woken"
  /\ mainPc' = "destroy"
  /\ UNCHANGED <<sslctx, backlog, conn, mine, workerVars, ctx, semVars>>

\* The signalled main thread takes the semaphore's mutex again, leaves.
SemaphoreWaitReturns ==
  /\ mainPc = "sem_woken" /\ semMutex[mine] = NULL
  /\ mainPc' = "destroy"
  /\ UNCHANGED <<sslctx, backlog, conn, mine, workerVars, ctx, semVars>>

\* semaphore_destroy, free, thread->semaphore = NULL; back to select().
semaphore_destroy ==
  /\ mainPc = "destroy"
  /\ permits' = [permits EXCEPT ![mine] = 0]
  /\ semMutex' = [semMutex EXCEPT ![mine] = NULL]
  /\ semLive' = [semLive EXCEPT ![mine] = FALSE]
  /\ mainPc' = "select" /\ mine' = NULL /\ conn' = NULL
  /\ UNCHANGED <<sslctx, backlog, workerVars, ctx>>

\* SIGINT and SIGSEGV end the process.
Signal ==
  /\ mainPc # "died"
  /\ mainPc' = "died"
  /\ UNCHANGED <<sslctx, backlog, conn, mine, workerVars, ctx, semVars>>

-----------------------------------------------------------------------------
(* A worker: thread_pool_exec_and_resuspend. *)

Goto(w, from, to) ==
  /\ mainPc # "died"
  /\ wpc[w] = from
  /\ wpc' = [wpc EXCEPT ![w] = to]

\* exec_routine(exec_arg) is entered: client_thread_handler.
HandlerStart(w) ==
  /\ Goto(w, "run", "handling")
  /\ UNCHANGED <<sslctx, backlog, mainPc, conn, mine, pool, poolMutex, created,
                 execArg, ctx, semVars>>

\* The handler has answered, closed the socket, and frees its context.
HandlerReturn(w) ==
  /\ Goto(w, "handling", "resuspend")
  /\ ctx' = ctx \ {execArg[w]}
  /\ UNCHANGED <<sslctx, backlog, mainPc, conn, mine, pool, poolMutex, created,
                 execArg, semVars>>

\* thread_pool_resuspend takes pool->mutex and keeps it until Park.
Resuspend(w, owner) ==
  /\ poolMutex = NULL
  /\ Goto(w, "resuspend", IF semLive[w] THEN "post" ELSE "park")
  /\ poolMutex' = owner
  /\ UNCHANGED <<sslctx, backlog, mainPc, conn, mine, created, execArg, ctx,
                 semVars>>

\* Mutant: the mutex is released before the thread suspends.
ResuspendUnlocked(w) == Resuspend(w, NULL) /\ InsertFirst(w)

\* Mutant: the thread is not put back into the list.
ResuspendOutside(w) == Resuspend(w, w) /\ UNCHANGED pool

thread_pool_resuspend(w) == Resuspend(w, w) /\ InsertFirst(w)

\* semaphore_post under the semaphore's mutex: signal only a waiter.
Post(w, has_waiting_thread) ==
  /\ semMutex[w] = NULL
  /\ Goto(w, "post", "post_unlock")
  /\ semMutex' = [semMutex EXCEPT ![w] = w]
  /\ permits' = [permits EXCEPT ![w] = @ + 1]
  /\ mainPc' = IF has_waiting_thread /\ mainPc = "sem_blocked" /\ mine = w
               THEN "sem_woken" ELSE mainPc
  /\ UNCHANGED <<sslctx, backlog, conn, mine, pool, poolMutex, created, execArg,
                 ctx, semLive>>

\* Mutant: the counter is read after the increment.
PostReadsLate(w) == Post(w, permits[w] + 1 < 0)

semaphore_post(w) == Post(w, permits[w] < 0)

SemaphoreUnlock(w, next) ==
  /\ Goto(w, "post_unlock", next)
  /\ semMutex' = [semMutex EXCEPT ![w] = NULL]
  /\ UNCHANGED <<sslctx, backlog, mainPc, conn, mine, pool, poolMutex, created,
                 execArg, ctx, semLive, permits>>

\* Mutant: the thread does not suspend after the post.
PostReturnsRunning(w) == SemaphoreUnlock(w, "run")

SemaphorePostReturns(w) == SemaphoreUnlock(w, "park")

\* pthread_cond_wait(&thread->cv, &pool->mutex) releases the mutex...
Park(w) ==
  /\ Goto(w, "park", "suspended")
  /\ poolMutex' = NULL
  /\ UNCHANGED <<sslctx, backlog, mainPc, conn, mine, pool, created, execArg,
                 ctx, semVars>>

\* ... and returns once signalled, with the mutex, which is then unlocked.
\* There is no loop around the wait: the routine runs again.
Resume(w) ==
  /\ poolMutex = NULL
  /\ Goto(w, "resumed", "run")
  /\ UNCHANGED <<sslctx, backlog, mainPc, conn, mine, pool, poolMutex, created,
                 execArg, ctx, semVars>>

-----------------------------------------------------------------------------

MainStep ==
  \/ \E w \in Workers : thread_pool_insert(w)
  \/ StartPolling \/ Accept \/ AcceptFail \/ SslAccept \/ SslAcceptFail
  \/ thread_pool_get \/ PrepareJob \/ thread_pool_exec \/ CreateFail
  \/ semaphore_wait \/ SemaphoreWaitReturns \/ semaphore_destroy

WorkerStep(w) ==
  \/ HandlerStart(w) \/ HandlerReturn(w) \/ thread_pool_resuspend(w)
  \/ semaphore_post(w) \/ SemaphorePostReturns(w) \/ Park(w) \/ Resume(w)

\* The process is gone.
Ended == mainPc = "died" /\ UNCHANGED vars

Next ==
  \/ \E c \in Conns : Connect(c)
  \/ MainStep
  \/ \E w \in Workers : WorkerStep(w)
  \/ Signal
  \/ Ended

Spec == Init /\ [][Next]_vars
-----------------------------------------------------------------------------
(* Fairness: the scheduler runs every thread that can take a step, and the  *)
(* kernel completes accept().  The handler and the TLS handshake wait for   *)
(* the client without a timeout, so their progress is an assumption about   *)
(* the clients.                                                             *)

MainProgress ==
  \/ \E w \in Workers : thread_pool_insert(w)
  \/ StartPolling \/ Accept \/ thread_pool_get \/ PrepareJob
  \/ thread_pool_exec \/ semaphore_wait \/ SemaphoreWaitReturns
  \/ semaphore_destroy

WorkerProgress(w) ==
  \/ HandlerStart(w) \/ thread_pool_resuspend(w) \/ semaphore_post(w)
  \/ SemaphorePostReturns(w) \/ Park(w) \/ Resume(w)

SchedulerFairness ==
  /\ WF_vars(MainProgress)
  /\ \A w \in Workers : WF_vars(WorkerProgress(w))

HandshakeFairness == WF_vars(SslAccept \/ SslAcceptFail)

ClientFairness == HandshakeFairness /\ \A w \in Workers : WF_vars(HandlerReturn(w))

FairSpec == Spec /\ SchedulerFairness /\ ClientFairness

\* A client may keep its handler for ever, none its handshake.
SlowClientSpec == Spec /\ SchedulerFairness /\ HandshakeFairness

-----------------------------------------------------------------------------
(* Properties. *)

\* The state of accept loop, pool and semaphores; a semaphore's counter only
\* ever says "main waits", "neither" or "posted" (semaphore.c counts by one).
TypeOK ==
  /\ sslctx \in BOOLEAN
  /\ backlog \in Seq(Conns)
  /\ mainPc \in MainPcs
  /\ conn \in Conns \cup {NULL}
  /\ mine \in Workers \cup {NULL}
  /\ pool \in Seq(Workers)
  /\ poolMutex \in Workers \cup {NULL}
  /\ wpc \in [Workers -> WorkerPcs]
  /\ created \in [Workers -> BOOLEAN]
  /\ execArg \in [Workers -> Conns \cup {NULL}]
  /\ ctx \subseteq Conns
  /\ semLive \in [Workers -> BOOLEAN]
  /\ permits \in [Workers -> -1..1]
  /\ semMutex \in [Workers -> Workers \cup {NULL}]

\* While a handler runs, no other handler runs and the main thread is blocked
\* in, or on its way into, semaphore_wait.  The state the request path shares
\* without a lock (the trie's regex cache, the static buffers of the
\* timestamp and of strtok, the CORS configuration) depends on it.
HandlersExclusive ==
  \A w \in Workers : wpc[w] = "handling" =>
    /\ mainPc \in {"sem_wait", "sem_blocked", "died"}
    /\ \A v \in Workers \ {w} : wpc[v] \in {"new", "suspended"}

\* "if the thread is already created, it is in a blocked state - thus, we
\* resume it" (thread_pool_exec): the unlocked pthread_cond_signal always finds
\* its thread waiting and is never lost.
SignalFindsWaiter ==
  mainPc = "exec" /\ created[mine] => wpc[mine] = "suspended"

\* The handler works on the connection that was just accepted, and on a context
\* that client_thread_handler has not freed: no job runs twice, none is
\* overwritten by the next dispatch.
JobIntact ==
  \A w \in Workers : wpc[w] \in {"run", "handling"} =>
    execArg[w] = conn /\ execArg[w] \in ctx

\* semaphore_post never touches a semaphore that thread_pool_dispatch has
\* destroyed and freed.
SemaphoreAlive ==
  \A w \in Workers : wpc[w] \in {"post", "post_unlock"} => semLive[w]

\* When the accept loop reaches thread_pool_get there is a thread to take, so
\* "failed to dispatch thread from pool" never ends a server that could create
\* its threads.
PoolNeverExhausted ==
  mainPc = "get" /\ poolMutex = NULL => pool # <<>>

\* The connection whose socket is open, and whether its handler runs.
Cur   == IF conn # NULL /\ Serving(conn) THEN conn ELSE NULL
Phase == IF mainPc = "died" THEN "down"
         ELSE IF \E w \in Workers : wpc[w] = "handling" THEN "handling"
         ELSE "up"

\* The accept loop and its pool implement the serial, first-come first-served
\* server: in spite of the threads, poll_client_connections takes a connection
\* only when the previous one is closed.
Serial == INSTANCE SerialServer WITH cur <- Cur, phase <- Phase
ImplementsSerialServer == Serial!Spec

\* Every queued connection leaves the queue and is closed again, in spite of
\* mutex, two condition variables and a semaphore in between.
EveryConnectionServed ==
  \A c \in Conns :
    c \in Waiting ~> (c \notin Waiting /\ ~Serving(c)) \/ mainPc = "died"

\* "Threads are used to handle client connections" (docs/reference/config.md),
\* NUM_THREADS of them: no connection is kept waiting while a thread of the pool
\* has nothing to do.
IdleThreadsServe ==
  \A c \in Conns :
    c \in Waiting ~> \/ c \notin Waiting \/ mainPc = "died"
                     \/ \A w \in Workers : wpc[w] \notin {"new", "suspended"}
-----------------------------------------------------------------------------
(* The inductive invariant: what holds at each point of the main thread.    *)

Idle(w) == wpc[w] \in {"new", "suspended"}
OthersIdle == \A w \in Workers : w # mine => Idle(w)

\* Between Resume and semaphore_post; the job is pending until HandlerReturn.
NotPosted(w) == wpc[w] \in {"resumed", "run", "handling", "resuspend", "post"}
Pending(w)   == wpc[w] \in {"resumed", "run", "handling"}
Returned(w)  == wpc[w] \in {"post", "post_unlock", "park", "suspended"}

Dispatching == mainPc \in {"sem_wait", "sem_blocked", "sem_woken", "destroy"}

LocksInv == \A w \in Workers :
  /\ poolMutex = w <=> wpc[w] \in {"post", "post_unlock", "park"}
  /\ semMutex[w] = IF wpc[w] = "post_unlock" THEN w ELSE NULL
  /\ created[w] <=> wpc[w] # "new"

SetupInv == mainPc = "setup" =>
  /\ conn = NULL /\ mine = NULL /\ ctx = {}
  /\ \A w \in Workers : wpc[w] = "new"

AcceptInv == mainPc \in {"select", "handshake", "get"} =>
  /\ mine = NULL /\ pool # <<>>
  /\ conn = NULL <=> mainPc = "select"
  /\ ctx = IF mainPc = "get" THEN {conn} ELSE {}
  /\ \A w \in Workers : Idle(w) \/ wpc[w] = "park"
  /\ \A w \in Workers : created[w] => w = Head(pool)

HandOverInv == mainPc \in {"prepare", "exec"} =>
  /\ mine \in Workers /\ conn \in Conns /\ ctx = {conn}
  /\ \A w \in Workers : Idle(w)
  /\ \A w \in Workers : created[w] => w = mine
  /\ mainPc = "exec" => semLive[mine] /\ permits[mine] = 0
                        /\ execArg[mine] = conn

DispatchInv == Dispatching =>
  /\ mine \in Workers /\ conn \in Conns /\ OthersIdle
  /\ semLive[mine] /\ execArg[mine] = conn
  /\ \A w \in Workers : created[w] => w = mine
  /\ wpc[mine] # "new"
  /\ ctx = IF Pending(mine) THEN {conn} ELSE {}
  /\ Returned(mine) => pool # <<>> /\ Head(pool) = mine
  /\ mainPc = "sem_wait" => permits[mine] = IF NotPosted(mine) THEN 0 ELSE 1
  /\ mainPc = "sem_blocked" => NotPosted(mine) /\ permits[mine] = -1
  /\ mainPc \in {"sem_woken", "destroy"} => ~NotPosted(mine) /\ permits[mine] = 0
  /\ mainPc = "destroy" => wpc[mine] # "post_unlock"

Safety == /\ HandlersExclusive /\ SignalFindsWaiter /\ JobIntact
          /\ SemaphoreAlive /\ PoolNeverExhausted

\* What links the main thread's place to the state of every thread, semaphore
\* and list; Safety is carried along because a process that DIEs keeps it.
IInv == /\ TypeOK /\ Safety
        /\ mainPc # "died" => /\ LocksInv /\ SetupInv /\ AcceptInv
                              /\ HandOverInv /\ DispatchInv
=============================================================================

----------------------------- MODULE WorkerPool -----------------------------
(***************************************************************************)
(* WorkerPool (src/src/server.cpp): the threads that run synchronous       *)
(* handlers and compression.  The loop thread enqueues; it signals only    *)
(* when the counter sleeping_ is not zero, after leaving the mutex.  The   *)
(* destructor stops and joins the workers.                                 *)
(***************************************************************************)
EXTENDS Naturals, Sequences, FiniteSets

CONSTANTS
  Workers,   \* ServerOptions::worker_threads threads
  Jobs,      \* closures DispatchAwaiter enqueues
  NoJob, NoWorker

ASSUME WorkerAssumption ==
  /\ IsFiniteSet(Workers) /\ Workers # {} /\ IsFiniteSet(Jobs)
  /\ NoJob \notin Jobs /\ NoWorker \notin Workers

VARIABLES
  worker,     \* where each worker stands
  job,        \* the closure each worker has taken
  pool_mutex, \* the worker that holds mutex_ across steps
  pool_queue, \* queue_
  sleeping,   \* sleeping_
  stopping,   \* stopping_
  producer,   \* the loop thread: idle, or about to signal
  destructor, \* where the destroying thread stands
  done        \* jobs whose continuation has been posted to the loop

poolVars == <<worker, job, pool_mutex, pool_queue, sleeping, stopping, producer, destructor, done>>

(* sleeping_ never exceeds the number of workers, nor wraps below zero.     *)
PoolTypeOK ==
  /\ worker \in [Workers -> {"lock", "check", "enter", "asleep", "woken", "run", "exit"}]
  /\ job \in [Workers -> Jobs \cup {NoJob}] /\ pool_mutex \in Workers \cup {NoWorker}
  /\ pool_queue \in Seq(Jobs) /\ sleeping \in 0..Cardinality(Workers)
  /\ stopping \in BOOLEAN /\ producer \in {"idle", "signal"}
  /\ destructor \in {"none", "notify", "join", "gone"} /\ done \subseteq Jobs

PoolInit ==
  /\ worker = [w \in Workers |-> "lock"] /\ job = [w \in Workers |-> NoJob]
  /\ pool_mutex = NoWorker /\ pool_queue = <<>> /\ sleeping = 0 /\ stopping = FALSE
  /\ producer = "idle" /\ destructor = "none" /\ done = {}

-----------------------------------------------------------------------------
Enqueued(j) == \/ j \in done \/ \E i \in DOMAIN pool_queue : pool_queue[i] = j
               \/ \E w \in Workers : job[w] = j

(* Mutant: signals only when every worker sleeps.                           *)
WakeIfAllSleep == sleeping = Cardinality(Workers)

(* enqueue's decision to signal.                                            *)
MustWake == sleeping # 0

(* enqueue: push under the mutex, and decide whether to signal.             *)
Enqueue(j) ==
  /\ producer = "idle" /\ destructor = "none" /\ pool_mutex = NoWorker /\ ~Enqueued(j)
  /\ pool_queue' = Append(pool_queue, j)
  /\ producer' = IF MustWake THEN "signal" ELSE "idle"
  /\ UNCHANGED <<worker, job, pool_mutex, sleeping, stopping, destructor, done>>

Asleep == {w \in Workers : worker[w] = "asleep"}

(* ready_.notify_one, after the mutex has been left.                        *)
Signal ==
  /\ producer = "signal" /\ producer' = "idle"
  /\ \/ \E w \in Asleep : worker' = [worker EXCEPT ![w] = "woken"]
     \/ Asleep = {} /\ UNCHANGED worker
  /\ UNCHANGED <<job, pool_mutex, pool_queue, sleeping, stopping, destructor, done>>

(* worker(): take the mutex.                                                *)
Lock(w) ==
  /\ worker[w] = "lock" /\ pool_mutex = NoWorker
  /\ pool_mutex' = w /\ worker' = [worker EXCEPT ![w] = "check"]
  /\ UNCHANGED <<job, pool_queue, sleeping, stopping, producer, destructor, done>>

(* Mutant: looks at stopping_ before the queue.                             *)
CheckStopFirst(w) ==
  /\ worker[w] = "check"
  /\ IF stopping \/ pool_queue = <<>>
     THEN /\ worker' = [worker EXCEPT ![w] = IF stopping THEN "exit" ELSE "enter"]
          /\ pool_mutex' = IF stopping THEN NoWorker ELSE pool_mutex
          /\ UNCHANGED <<job, pool_queue>>
     ELSE /\ job' = [job EXCEPT ![w] = Head(pool_queue)] /\ pool_queue' = Tail(pool_queue)
          /\ worker' = [worker EXCEPT ![w] = "run"] /\ pool_mutex' = NoWorker
  /\ UNCHANGED <<sleeping, stopping, producer, destructor, done>>

(* Take a job; without one return when stopping, else prepare to sleep.     *)
Check(w) ==
  /\ worker[w] = "check"
  /\ \/ /\ pool_queue # <<>>
        /\ job' = [job EXCEPT ![w] = Head(pool_queue)] /\ pool_queue' = Tail(pool_queue)
        /\ worker' = [worker EXCEPT ![w] = "run"] /\ pool_mutex' = NoWorker
     \/ /\ pool_queue = <<>> /\ stopping
        /\ worker' = [worker EXCEPT ![w] = "exit"] /\ pool_mutex' = NoWorker
        /\ UNCHANGED <<job, pool_queue>>
     \/ /\ pool_queue = <<>> /\ ~stopping
        /\ worker' = [worker EXCEPT ![w] = "enter"] /\ UNCHANGED <<job, pool_queue, pool_mutex>>
  /\ UNCHANGED <<sleeping, stopping, producer, destructor, done>>

(* ++sleeping_ and ready_.wait, which leaves the mutex as it falls asleep.  *)
Sleep(w) ==
  /\ worker[w] = "enter"
  /\ worker' = [worker EXCEPT ![w] = "asleep"] /\ pool_mutex' = NoWorker
  /\ sleeping' = sleeping + 1
  /\ UNCHANGED <<job, pool_queue, stopping, producer, destructor, done>>

SpuriousReady(w) ==
  /\ worker[w] = "asleep" /\ worker' = [worker EXCEPT ![w] = "woken"]
  /\ UNCHANGED <<job, pool_mutex, pool_queue, sleeping, stopping, producer, destructor, done>>

(* wait returns with the mutex; --sleeping_, and look again.                *)
Relock(w) ==
  /\ worker[w] = "woken" /\ pool_mutex = NoWorker
  /\ pool_mutex' = w /\ worker' = [worker EXCEPT ![w] = "check"]
  /\ sleeping' = sleeping - 1
  /\ UNCHANGED <<job, pool_queue, stopping, producer, destructor, done>>

(* The closure: the handler, then the continuation is posted to the loop.   *)
Run(w) ==
  /\ worker[w] = "run"
  /\ done' = done \cup {job[w]} /\ job' = [job EXCEPT ![w] = NoJob]
  /\ worker' = [worker EXCEPT ![w] = "lock"]
  /\ UNCHANGED <<pool_mutex, pool_queue, sleeping, stopping, producer, destructor>>

(* ~WorkerPool: stopping_ under the mutex ...                               *)
Destroy ==
  /\ destructor = "none" /\ producer = "idle" /\ pool_mutex = NoWorker
  /\ stopping' = TRUE /\ destructor' = "notify"
  /\ UNCHANGED <<worker, job, pool_mutex, pool_queue, sleeping, producer, done>>

(* ... notify_all without it ...                                            *)
DestroyNotify ==
  /\ destructor = "notify" /\ destructor' = "join"
  /\ worker' = [w \in Workers |-> IF w \in Asleep THEN "woken" ELSE worker[w]]
  /\ UNCHANGED <<job, pool_mutex, pool_queue, sleeping, stopping, producer, done>>

(* ... and join every thread.                                               *)
Join ==
  /\ destructor = "join" /\ \A w \in Workers : worker[w] = "exit"
  /\ destructor' = "gone"
  /\ UNCHANGED <<worker, job, pool_mutex, pool_queue, sleeping, stopping, producer, done>>

Gone == destructor = "gone" /\ UNCHANGED poolVars

-----------------------------------------------------------------------------
WorkerStep(w) == Lock(w) \/ Check(w) \/ Sleep(w) \/ Relock(w) \/ Run(w)

PoolNext == \/ \E j \in Jobs : Enqueue(j)
        \/ \E w \in Workers : WorkerStep(w) \/ SpuriousReady(w)
        \/ Signal \/ Destroy \/ DestroyNotify \/ Join \/ Gone

PoolSpec == PoolInit /\ [][PoolNext]_poolVars

(* Handlers return and threads are scheduled; strong fairness because       *)
(* spurious wakeups of others may take the mutex again and again.           *)
PoolFairness == /\ WF_poolVars(Signal) /\ WF_poolVars(DestroyNotify) /\ WF_poolVars(Join)
                /\ \A w \in Workers : SF_poolVars(WorkerStep(w))

-----------------------------------------------------------------------------
(* Workers that will look at the queue before they sleep again.             *)
Coming == {w \in Workers : worker[w] \in {"lock", "check", "woken"}}

(* No job waits behind running handlers while a worker sleeps: each job in  *)
(* the queue has a worker on its way to it, or a signal to come, although   *)
(* enqueue() skips the signal whenever sleeping_ is zero and counts workers *)
(* that are already waking.                                                 *)
NoIdleWorker ==
  Asleep # {} /\ ~stopping =>
    Len(pool_queue) <= Cardinality(Coming) + (IF producer = "signal" THEN 1 ELSE 0)

(* Every job runs, also one still queued when the destructor begins, so no  *)
(* session waits for a continuation that never comes, and its join ends.    *)
EveryJobRuns ==
  /\ \A j \in Jobs : Enqueued(j) ~> j \in done
  /\ (destructor # "none") ~> (destructor = "gone")
=============================================================================

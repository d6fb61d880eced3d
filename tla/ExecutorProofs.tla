--------------------------- MODULE ExecutorProofs ---------------------------
(***************************************************************************)
(* Proofs about the two ways the program runs its code.  WorkerPool, for   *)
(* any number of workers and of jobs: its types, that enqueue() may skip   *)
(* the signal when sleeping_ is zero, and that no closure is run twice.    *)
(* TaskChain, for a chain of any length: its types, that a coroutine frame *)
(* lives exactly as long as somebody may touch it, and that no coroutine   *)
(* is resumed twice.                                                       *)
(***************************************************************************)
EXTENDS WorkerPool, TaskChain, TLAPS, FiniteSetTheorems, SequenceTheorems

-----------------------------------------------------------------------------
(* The pool of worker threads.                                              *)

(* Workers inside ready_.wait, woken or not: the ones sleeping_ counts.     *)
Sleepers == {w \in Workers : worker[w] \in {"asleep", "woken"}}

(* mutex_ is held exactly between Lock or Relock and what follows Check.    *)
MutexHeld == \A w \in Workers : worker[w] \in {"check", "enter"} <=> pool_mutex = w
SleepExact == sleeping = Cardinality(Sleepers)
JobHeld == \A w \in Workers : worker[w] = "run" <=> job[w] # NoJob
(* The queue is still empty when the worker that found it so falls asleep.  *)
EntersEmpty == \A w \in Workers : worker[w] = "enter" => pool_queue = <<>>

(* A job is in the queue, with a worker or done, and there once.            *)
JobOnce ==
  /\ \A i, k \in DOMAIN pool_queue : pool_queue[i] = pool_queue[k] => i = k
  /\ \A i \in DOMAIN pool_queue : /\ pool_queue[i] \notin done
                                  /\ \A w \in Workers : job[w] # pool_queue[i]
  /\ \A w \in Workers : job[w] \notin done
  /\ \A v, w \in Workers : job[v] = job[w] /\ job[v] # NoJob => v = w

Held == PoolTypeOK /\ MutexHeld /\ JobHeld /\ EntersEmpty

(* The inductive invariant.  NoIdleWorker needs SleepExact, because enqueue *)
(* looks at the counter and not at the workers, and EntersEmpty, because a  *)
(* worker falls asleep one step after it has looked at the queue.           *)
PoolInv == Held /\ SleepExact /\ NoIdleWorker /\ JobOnce

USE DEF poolVars

-----------------------------------------------------------------------------
(* Counting workers.                                                        *)

(* A set of workers has a size between zero and the number of workers.      *)
LEMMA SizeOfSome ==
  ASSUME NEW S \in SUBSET Workers
  PROVE  /\ IsFiniteSet(S) /\ Cardinality(S) \in Nat /\ Cardinality(Workers) \in Nat
         /\ Cardinality(S) <= Cardinality(Workers) /\ (Cardinality(S) = 0 <=> S = {})
<1>1. IsFiniteSet(S) /\ Cardinality(S) <= Cardinality(Workers)
  BY WorkerAssumption, FS_Subset
<1>2. Cardinality(S) = 0 <=> S = {} BY <1>1, FS_EmptySet
<1>. QED BY <1>1, <1>2, WorkerAssumption, FS_CardinalityType

(* One worker more.                                                         *)
LEMMA OneMore ==
  ASSUME NEW S \in SUBSET Workers, NEW w \in Workers, w \notin S
  PROVE  Cardinality(S \cup {w}) = Cardinality(S) + 1
  BY SizeOfSome, FS_AddElement

(* One worker less.                                                         *)
LEMMA OneLess ==
  ASSUME NEW S \in SUBSET Workers, NEW w \in S
  PROVE  Cardinality(S \ {w}) = Cardinality(S) - 1
  BY SizeOfSome, FS_RemoveElement

(* The queue without its first element.                                     *)
LEMMA TailOfQueue ==
  ASSUME NEW q \in Seq(Jobs), q # <<>>
  PROVE  /\ Head(q) \in Jobs /\ Tail(q) \in Seq(Jobs) /\ Len(Tail(q)) = Len(q) - 1
         /\ Len(q) \in Nat /\ 1 \in DOMAIN q /\ Head(q) = q[1]
         /\ \A i \in DOMAIN Tail(q) : i \in Nat /\ i + 1 \in DOMAIN q /\ Tail(q)[i] = q[i + 1]
  BY HeadTailProperties

-----------------------------------------------------------------------------
(* sleeping_ is the number of workers inside ready_.wait.                   *)
LEMMA SleepStep ==
  ASSUME PoolTypeOK, SleepExact, [PoolNext]_poolVars
  PROVE  SleepExact'
<1> USE DEF PoolTypeOK, SleepExact, Sleepers
<1>0. Sleepers \in SUBSET Workers OBVIOUS
<1>1. ASSUME NEW w \in Workers, Sleep(w) PROVE SleepExact'
  <2>1. w \notin Sleepers /\ Sleepers' = Sleepers \cup {w} BY <1>1 DEF Sleep
  <2>2. Cardinality(Sleepers') = Cardinality(Sleepers) + 1
    BY <1>0, <2>1, OneMore
  <2>. QED BY <1>1, <2>2 DEF Sleep
<1>2. ASSUME NEW w \in Workers, Relock(w) PROVE SleepExact'
  <2>1. w \in Sleepers /\ Sleepers' = Sleepers \ {w} BY <1>2 DEF Relock
  <2>2. Cardinality(Sleepers') = Cardinality(Sleepers) - 1
    BY <1>0, <2>1, OneLess
  <2>. QED BY <1>2, <2>2 DEF Relock
<1>3. ASSUME Sleepers' = Sleepers, UNCHANGED sleeping PROVE SleepExact'
  BY <1>3
<1>4. ASSUME NEW j \in Jobs, Enqueue(j) PROVE SleepExact' BY <1>4 DEF Enqueue
<1>5. ASSUME Signal PROVE Sleepers' = Sleepers /\ UNCHANGED sleeping
  BY <1>5 DEF Signal, Asleep
<1>6. ASSUME NEW w \in Workers, Lock(w) \/ Check(w) \/ Run(w) \/ SpuriousReady(w)
      PROVE  Sleepers' = Sleepers /\ UNCHANGED sleeping
  BY <1>6 DEF Lock, Check, Run, SpuriousReady
<1>7. ASSUME Destroy \/ DestroyNotify \/ Join \/ Gone \/ UNCHANGED poolVars
      PROVE  Sleepers' = Sleepers /\ UNCHANGED sleeping
  BY <1>7 DEF Destroy, DestroyNotify, Join, Gone, Asleep
<1> HIDE DEF SleepExact, Sleepers, PoolTypeOK
<1>. QED BY <1>1, <1>2, <1>3, <1>4, <1>5, <1>6, <1>7 DEF PoolNext, WorkerStep

(* Every step keeps the types, the mutex and the jobs in hand in order.     *)
LEMMA HeldStep ==
  ASSUME Held, SleepExact, [PoolNext]_poolVars
  PROVE  Held'
<1>0. sleeping' \in 0..Cardinality(Workers)
  <2>1. SleepExact' BY SleepStep DEF Held
  <2>2. Sleepers' \in SUBSET Workers BY DEF Sleepers
  <2>. QED BY <2>1, <2>2, SizeOfSome DEF SleepExact
<1> USE <1>0, WorkerAssumption DEF Held, PoolTypeOK, MutexHeld, JobHeld, EntersEmpty
<1>1. ASSUME NEW j \in Jobs, Enqueue(j) PROVE Held' BY <1>1 DEF Enqueue
<1>2. ASSUME Signal PROVE Held' BY <1>2 DEF Signal, Asleep
<1>3. ASSUME NEW w \in Workers, Lock(w) PROVE Held' BY <1>3 DEF Lock
<1>4. ASSUME NEW w \in Workers, Check(w) PROVE Held'
  <2>1. CASE pool_queue # <<>>
    <3>1. Head(pool_queue) \in Jobs /\ Tail(pool_queue) \in Seq(Jobs) BY <2>1, TailOfQueue
    <3>. QED BY <1>4, <2>1, <3>1 DEF Check
  <2>2. CASE pool_queue = <<>> BY <1>4, <2>2 DEF Check
  <2>. QED BY <2>1, <2>2
<1>5. ASSUME NEW w \in Workers, Sleep(w) PROVE Held' BY <1>5 DEF Sleep
<1>6. ASSUME NEW w \in Workers, SpuriousReady(w) PROVE Held' BY <1>6 DEF SpuriousReady
<1>7. ASSUME NEW w \in Workers, Relock(w) PROVE Held' BY <1>7 DEF Relock
<1>8. ASSUME NEW w \in Workers, Run(w) PROVE Held' BY <1>8 DEF Run
<1>9. ASSUME Destroy PROVE Held' BY <1>9 DEF Destroy
<1>10. ASSUME DestroyNotify PROVE Held' BY <1>10 DEF DestroyNotify, Asleep
<1>11. ASSUME Join PROVE Held' BY <1>11 DEF Join
<1>12. ASSUME UNCHANGED poolVars PROVE Held' BY <1>12
<1> HIDE DEF Held
<1>. QED BY <1>1, <1>2, <1>3, <1>4, <1>5, <1>6, <1>7, <1>8, <1>9, <1>10, <1>11, <1>12
         DEF PoolNext, WorkerStep, Gone

-----------------------------------------------------------------------------
(* A sleeping worker and a queued job with nobody coming for it never meet. *)
LEMMA NoIdleStep ==
  ASSUME Held, SleepExact, NoIdleWorker, [PoolNext]_poolVars
  PROVE  NoIdleWorker'
<1> USE DEF Held, PoolTypeOK, NoIdleWorker, Asleep, Coming
<1>0. /\ Coming \in SUBSET Workers /\ Coming' \in SUBSET Workers
      /\ Cardinality(Coming) \in Nat /\ Cardinality(Coming') \in Nat
      /\ Len(pool_queue) \in Nat
  <2>1. Coming \in SUBSET Workers /\ Coming' \in SUBSET Workers OBVIOUS
  <2>. QED BY <2>1, SizeOfSome, LenProperties
<1>1. ASSUME NEW j \in Jobs, Enqueue(j) PROVE NoIdleWorker'
  <2>1. Len(pool_queue') = Len(pool_queue) + 1 /\ Coming' = Coming
    BY <1>1, AppendProperties DEF Enqueue
  <2>2. CASE sleeping = 0
    <3>1. Sleepers \in SUBSET Workers BY DEF Sleepers
    <3>2. Sleepers = {} BY <2>2, <3>1, SizeOfSome DEF SleepExact
    <3>3. Asleep' = {} BY <1>1, <3>2 DEF Sleepers, Enqueue
    <3>. QED BY <3>3
  <2>3. CASE sleeping # 0
    <3>1. producer = "idle" /\ producer' = "signal" BY <1>1, <2>3 DEF Enqueue, MustWake
    <3>. QED BY <1>0, <1>1, <2>1, <3>1 DEF Enqueue
  <2>. QED BY <2>2, <2>3
<1>2. ASSUME Signal PROVE NoIdleWorker'
  <2>1. CASE Asleep = {} BY <1>2, <2>1 DEF Signal
  <2>2. ASSUME NEW w \in Asleep, worker' = [worker EXCEPT ![w] = "woken"]
        PROVE  NoIdleWorker'
    <3>1. w \in Workers /\ w \notin Coming /\ Coming' = Coming \cup {w} BY <2>2
    <3>2. Cardinality(Coming') = Cardinality(Coming) + 1 BY <1>0, <3>1, OneMore
    <3>3. Asleep # {} BY <2>2
    <3>. QED BY <1>0, <1>2, <3>2, <3>3 DEF Signal
  <2>. QED BY <1>2, <2>1, <2>2 DEF Signal
<1>3. ASSUME NEW w \in Workers, Lock(w) \/ Relock(w) PROVE NoIdleWorker'
  <2>1. Coming' = Coming /\ Asleep' = Asleep BY <1>3 DEF Lock, Relock
  <2>. QED BY <1>3, <2>1 DEF Lock, Relock
<1>4. ASSUME NEW w \in Workers, Check(w) PROVE NoIdleWorker'
  <2>1. Asleep' = Asleep BY <1>4 DEF Check
  <2>2. CASE pool_queue # <<>>
    <3>1. Len(pool_queue') = Len(pool_queue) - 1 BY <1>4, <2>2, TailOfQueue DEF Check
    <3>2. w \in Coming /\ Coming' = Coming \ {w} BY <1>4, <2>2 DEF Check
    <3>3. Cardinality(Coming') = Cardinality(Coming) - 1 BY <1>0, <3>2, OneLess
    <3>. QED BY <1>0, <1>4, <2>1, <3>1, <3>3 DEF Check
  <2>3. CASE pool_queue = <<>>
    <3>1. pool_queue' = <<>> BY <1>4, <2>3 DEF Check
    <3>. QED BY <1>0, <3>1
  <2>. QED BY <2>2, <2>3
<1>5. ASSUME NEW w \in Workers, Sleep(w) PROVE NoIdleWorker'
  <2>1. pool_queue' = <<>> BY <1>5 DEF Sleep, EntersEmpty
  <2>. QED BY <1>0, <2>1
<1>6. ASSUME NEW w \in Workers, SpuriousReady(w) \/ Run(w) PROVE NoIdleWorker'
  <2>1. w \notin Coming /\ Coming' = Coming \cup {w} BY <1>6 DEF SpuriousReady, Run
  <2>2. Cardinality(Coming') = Cardinality(Coming) + 1 BY <1>0, <2>1, OneMore
  <2>3. Asleep' # {} => Asleep # {} BY <1>6 DEF SpuriousReady, Run
  <2>. QED BY <1>0, <1>6, <2>2, <2>3 DEF SpuriousReady, Run
<1>7. ASSUME Destroy PROVE NoIdleWorker' BY <1>7 DEF Destroy
<1>8. ASSUME DestroyNotify PROVE NoIdleWorker'
  <2>1. Asleep' = {} BY <1>8 DEF DestroyNotify
  <2>. QED BY <2>1
<1>9. ASSUME Join \/ UNCHANGED poolVars PROVE NoIdleWorker' BY <1>9 DEF Join
<1> HIDE DEF Held, NoIdleWorker
<1>. QED BY <1>1, <1>2, <1>3, <1>4, <1>5, <1>6, <1>7, <1>8, <1>9
         DEF PoolNext, WorkerStep, Gone

(* A closure is never in two places.                                        *)
LEMMA JobOnceStep ==
  ASSUME Held, JobOnce, [PoolNext]_poolVars
  PROVE  JobOnce'
<1> USE WorkerAssumption DEF Held, PoolTypeOK, JobHeld, JobOnce
<1>1. ASSUME NEW j \in Jobs, Enqueue(j) PROVE JobOnce'
  <2>1. /\ pool_queue' = Append(pool_queue, j) /\ UNCHANGED <<job, done>>
        /\ j \notin done /\ (\A w \in Workers : job[w] # j)
        /\ \A i \in DOMAIN pool_queue : pool_queue[i] # j
    BY <1>1 DEF Enqueue, Enqueued
  <2>2. \A i \in DOMAIN pool_queue' :
          \/ i \in DOMAIN pool_queue /\ pool_queue'[i] = pool_queue[i]
          \/ i = Len(pool_queue) + 1 /\ pool_queue'[i] = j
    BY <2>1, AppendProperties
  <2>. QED BY <2>1, <2>2
<1>2. ASSUME NEW w \in Workers, Check(w), pool_queue # <<>> PROVE JobOnce'
  <2>1. /\ pool_queue' = Tail(pool_queue) /\ job' = [job EXCEPT ![w] = pool_queue[1]]
        /\ 1 \in DOMAIN pool_queue /\ UNCHANGED done
    BY <1>2, TailOfQueue DEF Check
  <2>2. \A i \in DOMAIN pool_queue' :
          i \in Nat /\ i + 1 \in DOMAIN pool_queue /\ pool_queue'[i] = pool_queue[i + 1]
    BY <1>2, <2>1, TailOfQueue
  <2>3. \A i \in DOMAIN pool_queue' : i + 1 # 1 /\ pool_queue'[i] # pool_queue[1]
    BY <2>1, <2>2, LenProperties
  <2>4. pool_queue[1] \notin done /\ \A v \in Workers : job[v] # pool_queue[1]
    BY <2>1
  <2>5. \A i, k \in DOMAIN pool_queue' : pool_queue'[i] = pool_queue'[k] => i = k
    BY <2>2
  <2>6. \A i \in DOMAIN pool_queue' : /\ pool_queue'[i] \notin done
                                      /\ \A v \in Workers : job'[v] # pool_queue'[i]
    BY <2>1, <2>2, <2>3
  <2>7. \A v \in Workers : job'[v] \notin done BY <2>1, <2>4
  <2>8. \A u, v \in Workers : job'[u] = job'[v] /\ job'[u] # NoJob => u = v
    BY <2>1, <2>4
  <2>. QED BY <2>1, <2>5, <2>6, <2>7, <2>8
<1>3. ASSUME NEW w \in Workers, Run(w) PROVE JobOnce'
  <2>1. /\ done' = done \cup {job[w]} /\ job' = [job EXCEPT ![w] = NoJob]
        /\ job[w] \in Jobs /\ UNCHANGED pool_queue
    BY <1>3 DEF Run
  <2>. QED BY <2>1
<1>4. ASSUME UNCHANGED <<job, pool_queue, done>> PROVE JobOnce' BY <1>4
<1>5. ASSUME NEW w \in Workers,
             Lock(w) \/ Sleep(w) \/ Relock(w) \/ SpuriousReady(w) \/ (Check(w) /\ pool_queue = <<>>)
      PROVE  UNCHANGED <<job, pool_queue, done>>
  BY <1>5 DEF Lock, Sleep, Relock, SpuriousReady, Check
<1>6. ASSUME Signal \/ Destroy \/ DestroyNotify \/ Join \/ Gone \/ UNCHANGED poolVars
      PROVE  UNCHANGED <<job, pool_queue, done>>
  BY <1>6 DEF Signal, Destroy, DestroyNotify, Join, Gone
<1> HIDE DEF Held, JobOnce
<1>. QED BY <1>1, <1>2, <1>3, <1>4, <1>5, <1>6 DEF PoolNext, WorkerStep

-----------------------------------------------------------------------------
(* All of it holds in every state the pool reaches.                         *)
THEOREM WorkerInvariant == PoolSpec => []PoolInv
<1>1. PoolInit => PoolInv
  <2> SUFFICES ASSUME PoolInit PROVE PoolInv OBVIOUS
  <2> USE WorkerAssumption DEF PoolInit
  <2>1. Sleepers = {} /\ Asleep = {} BY DEF Sleepers, Asleep
  <2>2. SleepExact BY <2>1, FS_EmptySet DEF SleepExact
  <2>3. Cardinality(Workers) \in Nat BY FS_CardinalityType
  <2>4. stopping \in BOOLEAN OBVIOUS
  <2>5. PoolTypeOK BY <2>3, <2>4 DEF PoolTypeOK
  <2>6. MutexHeld /\ JobHeld /\ EntersEmpty BY DEF MutexHeld, JobHeld, EntersEmpty
  <2>7. NoIdleWorker BY <2>1 DEF NoIdleWorker
  <2>8. JobOnce BY DEF JobOnce
  <2>. QED BY <2>2, <2>5, <2>6, <2>7, <2>8 DEF PoolInv, Held
<1>2. PoolInv /\ [PoolNext]_poolVars => PoolInv'
  <2>1. Held /\ SleepExact /\ [PoolNext]_poolVars => SleepExact' BY SleepStep DEF Held
  <2>. QED BY <2>1, HeldStep, NoIdleStep, JobOnceStep DEF PoolInv
<1>. QED BY <1>1, <1>2, PTL DEF PoolSpec

(* sleeping_ stays between zero and the number of workers: the decrement    *)
(* after ready_.wait never wraps, also after spurious wakeups.              *)
THEOREM WorkerTypeCorrect == PoolSpec => []PoolTypeOK
  BY WorkerInvariant, PTL DEF PoolInv, Held

(* Skipping the signal when sleeping_ is zero, and signalling outside the   *)
(* mutex, leave no job behind running handlers while a worker sleeps.       *)
THEOREM NoWorkerIdles == PoolSpec => []NoIdleWorker
  BY WorkerInvariant, PTL DEF PoolInv

(* No closure is run twice: its session is not resumed twice.               *)
RunsOnce == [][\A w \in Workers : Run(w) => job[w] \notin done]_poolVars

(* Whatever a worker runs has not been run before.                          *)
THEOREM ClosuresRunOnce == PoolSpec => RunsOnce
<1>1. PoolInv /\ [PoolNext]_poolVars =>
        [\A w \in Workers : Run(w) => job[w] \notin done]_poolVars
  BY DEF PoolInv, JobOnce
<1>. QED BY <1>1, WorkerInvariant, PTL DEF PoolSpec, RunsOnce

-----------------------------------------------------------------------------
(* The chain of tasks.                                                      *)

(* Nobody's turn: where an actor stands on no call stack.                   *)
Away == {"unborn", "posted", "suspended", "final", "end"}
(* Where a coroutine has published its result.                              *)
Published == {"notify", "release", "final"}

(* The consumer of task 1 is not a coroutine of the chain, and the others   *)
(* never block in get().                                                    *)
Roles ==
  /\ at[0] \in Main \cup {"awaitReady", "awaitSuspend", "suspended", "consume", "releaseChild"}
  /\ \A k \in Tasks : at[k] \in Body

(* A task is called once; its consumer has nothing to consume before that.  *)
Birth ==
  /\ \A k \in Tasks : frame[k] = "unborn" <=> at[k] = "unborn"
  /\ frame[1] = "unborn" <=> at[0] = "start"

(* The word says where the two parties stand.                               *)
Word ==
  \A k \in Tasks :
    /\ handoff[k] = "registered" <=> at[k - 1] = "suspended"
    /\ at[k] \in Published => Done(k)
    /\ at[k - 1] \in {"consume", "releaseChild"} => Done(k)

(* An actor stands at most once on a stack, and only when it has its turn;  *)
(* at most once in the queue, and only when it was posted.                  *)
Turns ==
  /\ \A t \in Threads : \A i, j \in DOMAIN stack[t] : stack[t][i] = stack[t][j] => i = j
  /\ \A t \in Threads : \A i \in DOMAIN stack[t] : at[stack[t][i]] \notin Away
  /\ \A i \in DOMAIN stack[User], j \in DOMAIN stack[Loop] : stack[User][i] # stack[Loop][j]
  /\ \A i, j \in DOMAIN queue : queue[i] = queue[j] => i = j
  /\ \A i \in DOMAIN queue : at[queue[i]] = "posted"

(* The inductive invariant.  FrameLifetime needs Word, because only who     *)
(* lets go of a completed task destroys its frame, and ResumedOnce needs it *)
(* because publish() resumes whoever the word names; Turns needs Birth,     *)
(* because a coroutine that is called stands nowhere yet.                   *)
Parties == ChainTypeOK /\ Roles /\ Birth /\ Word /\ FrameLifetime
ChainInv == Parties /\ Turns

USE DEF chainVars

-----------------------------------------------------------------------------
(* How the call stacks move.                                                *)

(* What a sequence of actors holds, longer by one ...                       *)
LEMMA Longer ==
  ASSUME NEW S, NEW s \in Seq(S), NEW x \in S, NEW r, r = Append(s, x)
  PROVE  /\ r \in Seq(S) /\ DOMAIN r = 1..(Len(s) + 1) /\ DOMAIN s = 1..Len(s)
         /\ r[Len(s) + 1] = x /\ Len(s) \in Nat
         /\ \A i \in 1..Len(s) : r[i] = s[i] /\ s[i] \in S
OBVIOUS

(* ... and shorter by one.                                                  *)
LEMMA Shorter ==
  ASSUME NEW S, NEW s \in Seq(S), s # <<>>, NEW r, r = SubSeq(s, 1, Len(s) - 1)
  PROVE  /\ r \in Seq(S) /\ DOMAIN r = 1..(Len(s) - 1) /\ DOMAIN s = 1..Len(s)
         /\ Len(s) \in Nat \ {0}
         /\ \A i \in 1..(Len(s) - 1) : r[i] = s[i]
         /\ \A i \in 1..Len(s) : s[i] \in S
OBVIOUS

(* Actor k keeps its turn, and its place in the queue.                      *)
Keeps(k) == /\ at[k] \notin Away => at'[k] \notin Away
            /\ at[k] = "posted" => at'[k] = "posted"

(* Nobody is called, resumed or suspended.                                  *)
LEMMA TurnsStay ==
  ASSUME ChainTypeOK, Turns, UNCHANGED <<stack, queue>>, \A k \in Actors : Keeps(k)
  PROVE  Turns'
BY DEF ChainTypeOK, Turns, Keeps

(* An actor that stood nowhere is called or resumed.                        *)
LEMMA TurnsPush ==
  ASSUME ChainTypeOK, Turns, NEW t \in Threads, NEW k \in Actors, Push(t, k),
         at[k] \in {"unborn", "suspended"}, at'[k] \notin Away,
         \A j \in Actors \ {k} : Keeps(j), UNCHANGED queue
  PROVE  Turns' /\ stack' \in [Threads -> Seq(Actors)]
<1>1. stack'[t] = Append(stack[t], k) /\ \A u \in Threads \ {t} : stack'[u] = stack[u]
  BY DEF ChainTypeOK, Push
<1>2. stack' \in [Threads -> Seq(Actors)] BY DEF ChainTypeOK, Push
<1>3. \A u \in Threads : \A i \in DOMAIN stack[u] : stack[u][i] # k /\ stack[u][i] \in Actors
  BY DEF ChainTypeOK, Turns, Away
<1>4. \A i \in DOMAIN queue : queue[i] # k /\ queue[i] \in Actors
  BY DEF ChainTypeOK, Turns
<1>l. /\ DOMAIN stack'[t] = 1..(Len(stack[t]) + 1) /\ DOMAIN stack[t] = 1..Len(stack[t])
      /\ stack'[t][Len(stack[t]) + 1] = k /\ Len(stack[t]) \in Nat
      /\ \A i \in 1..Len(stack[t]) : stack'[t][i] = stack[t][i]
  <2>1. stack[t] \in Seq(Actors) BY DEF ChainTypeOK
  <2> QED BY <1>1, <2>1, Longer
<1>5. /\ \A u \in Threads : \A i, j \in DOMAIN stack'[u] : stack'[u][i] = stack'[u][j] => i = j
      /\ \A u \in Threads : \A i \in DOMAIN stack'[u] :
           stack'[u][i] = k \/ \E j \in DOMAIN stack[u] : stack'[u][i] = stack[u][j]
  <2>1. \A i \in 1..(Len(stack[t]) + 1) : i = Len(stack[t]) + 1 \/ i \in 1..Len(stack[t])
    BY <1>l
  <2>2. \A i, j \in DOMAIN stack'[t] : stack'[t][i] = stack'[t][j] => i = j
    <3> TAKE i, j \in DOMAIN stack'[t]
    <3> HAVE stack'[t][i] = stack'[t][j]
    <3>1. \A m \in 1..Len(stack[t]) : stack'[t][m] # k BY <1>3, <1>l
    <3>2. CASE i \in 1..Len(stack[t]) /\ j \in 1..Len(stack[t]) BY <3>2, <1>l DEF Turns
    <3>3. CASE i = Len(stack[t]) + 1 /\ j = Len(stack[t]) + 1 BY <3>3
    <3>4. CASE i = Len(stack[t]) + 1 /\ j \in 1..Len(stack[t])
      <4>1. stack'[t][i] = k /\ stack'[t][j] # k BY <3>1, <3>4, <1>l
      <4> QED BY <4>1
    <3>5. CASE i \in 1..Len(stack[t]) /\ j = Len(stack[t]) + 1
      <4>1. stack'[t][j] = k /\ stack'[t][i] # k BY <3>1, <3>5, <1>l
      <4> QED BY <4>1
    <3>6. /\ i = Len(stack[t]) + 1 \/ i \in 1..Len(stack[t])
          /\ j = Len(stack[t]) + 1 \/ j \in 1..Len(stack[t])
      BY <2>1, <1>l
    <3> QED BY <3>2, <3>3, <3>4, <3>5, <3>6
  <2>3. \A i \in DOMAIN stack'[t] :
          stack'[t][i] = k \/ \E j \in DOMAIN stack[t] : stack'[t][i] = stack[t][j]
    BY <2>1, <1>l
  <2>4. ASSUME NEW u \in Threads \ {t}
        PROVE  /\ \A i, j \in DOMAIN stack'[u] : stack'[u][i] = stack'[u][j] => i = j
               /\ \A i \in DOMAIN stack'[u] : \E j \in DOMAIN stack[u] : stack'[u][i] = stack[u][j]
    <3>1. stack'[u] = stack[u] /\ u \in Threads BY <1>1
    <3>2. \A i, j \in DOMAIN stack[u] : stack[u][i] = stack[u][j] => i = j BY <3>1 DEF Turns
    <3> QED BY <3>1, <3>2
  <2>5. \A u \in Threads : u = t \/ u \in Threads \ {t} OBVIOUS
  <2>6. \A u \in Threads : \A i, j \in DOMAIN stack'[u] : stack'[u][i] = stack'[u][j] => i = j
    BY <2>2, <2>4, <2>5
  <2>7. \A u \in Threads : \A i \in DOMAIN stack'[u] :
          stack'[u][i] = k \/ \E j \in DOMAIN stack[u] : stack'[u][i] = stack[u][j]
    BY <2>3, <2>4, <2>5
  <2> QED BY <2>6, <2>7
<1>6. \A u \in Threads : \A i \in DOMAIN stack'[u] : at'[stack'[u][i]] \notin Away
  BY <1>3, <1>5 DEF Turns, Keeps
<1>7. \A i \in DOMAIN stack'[User], j \in DOMAIN stack'[Loop] : stack'[User][i] # stack'[Loop][j]
  <2>1. CASE t = User
    BY <1>1, <1>3, <1>5, <2>1, ChainAssumption DEF Turns, Threads
  <2>2. CASE t = Loop
    BY <1>1, <1>3, <1>5, <2>2, ChainAssumption DEF Turns, Threads
  <2> QED BY <2>1, <2>2 DEF Threads
<1>8. \A i \in DOMAIN queue' : at'[queue'[i]] = "posted"
  BY <1>4 DEF Turns, Keeps
<1> QED BY <1>2, <1>5, <1>6, <1>7, <1>8 DEF Turns

(* The actor that runs on a thread leaves its stack.                        *)
LEMMA TurnsPop ==
  ASSUME ChainTypeOK, Turns, NEW t \in Threads, NEW k \in Actors, Runs(t, k), Pop(t),
         \A j \in Actors \ {k} : Keeps(j)
  PROVE  /\ stack' \in [Threads -> Seq(Actors)]
         /\ \A u \in Threads : \A i, j \in DOMAIN stack'[u] : stack'[u][i] = stack'[u][j] => i = j
         /\ \A u \in Threads : \A i \in DOMAIN stack'[u] : at'[stack'[u][i]] \notin Away
         /\ \A i \in DOMAIN stack'[User], j \in DOMAIN stack'[Loop] :
              stack'[User][i] # stack'[Loop][j]
<1>1. /\ stack'[t] = SubSeq(stack[t], 1, Len(stack[t]) - 1)
      /\ \A u \in Threads \ {t} : stack'[u] = stack[u]
  BY DEF ChainTypeOK, Pop
<1>2. stack' \in [Threads -> Seq(Actors)] BY DEF ChainTypeOK, Pop, Runs
<1>3. \A u \in Threads : \A i \in DOMAIN stack'[u] :
        i \in DOMAIN stack[u] /\ stack'[u][i] = stack[u][i] /\ stack[u][i] \in Actors
  <2>1. stack[t] \in Seq(Actors) /\ stack[t] # <<>> BY DEF ChainTypeOK, Runs
  <2>2. \A i \in DOMAIN stack'[t] :
          i \in DOMAIN stack[t] /\ stack'[t][i] = stack[t][i] /\ stack[t][i] \in Actors
    BY <1>1, <2>1, Shorter
  <2>3. \A u \in Threads : \A i \in DOMAIN stack[u] : stack[u][i] \in Actors
    BY DEF ChainTypeOK
  <2> QED BY <1>1, <2>2, <2>3
<1>4. \A u \in Threads : \A i \in DOMAIN stack'[u] : stack'[u][i] # k
  <2>1. stack[t] \in Seq(Actors) /\ Len(stack[t]) \in DOMAIN stack[t]
        /\ stack[t][Len(stack[t])] = k
    BY DEF ChainTypeOK, Runs
  <2>2. \A i \in DOMAIN stack'[t] : i # Len(stack[t])
    BY <1>1, <2>1
  <2>3. \A i \in DOMAIN stack'[t] : stack'[t][i] # k
    BY <1>3, <2>1, <2>2 DEF Turns
  <2>4. \A u \in Threads \ {t} : \A i \in DOMAIN stack[u] : stack[u][i] # k
    <3>1. CASE t = User BY <2>1, <3>1 DEF Turns, Threads
    <3>2. CASE t = Loop BY <2>1, <3>2 DEF Turns, Threads
    <3> QED BY <3>1, <3>2 DEF Threads
  <2> QED BY <1>1, <2>3, <2>4
<1>5. \A u \in Threads : \A i, j \in DOMAIN stack'[u] : stack'[u][i] = stack'[u][j] => i = j
  BY <1>3 DEF Turns
<1>6. \A u \in Threads : \A i \in DOMAIN stack'[u] : at'[stack'[u][i]] \notin Away
  BY <1>3, <1>4 DEF Turns, Keeps
<1>7. \A i \in DOMAIN stack'[User], j \in DOMAIN stack'[Loop] : stack'[User][i] # stack'[Loop][j]
  BY <1>3 DEF Turns, Threads
<1> QED BY <1>2, <1>5, <1>6, <1>7

(* ... and is neither queued nor resumed by that.                           *)
LEMMA TurnsLeave ==
  ASSUME ChainTypeOK, Turns, NEW t \in Threads, NEW k \in Actors, Runs(t, k), Pop(t),
         \A j \in Actors \ {k} : Keeps(j), at[k] # "posted", UNCHANGED queue
  PROVE  Turns' /\ stack' \in [Threads -> Seq(Actors)]
<1>1. \A i \in DOMAIN queue : queue[i] \in Actors \ {k}
  BY DEF ChainTypeOK, Turns
<1> QED BY <1>1, TurnsPop DEF Turns, Keeps
(* The loop takes a posted coroutine out of the queue.                      *)
LEMMA TurnsDrain ==
  ASSUME ChainTypeOK, Turns, Drain
  PROVE  Turns' /\ stack' \in [Threads -> Seq(Actors)] /\ queue' \in Seq(Actors)
<1> DEFINE k == Head(queue)
<1>1. /\ queue \in Seq(Actors) /\ queue # <<>> /\ k = queue[1] /\ 1 \in DOMAIN queue
      /\ Loop \in Threads
  BY DEF ChainTypeOK, Drain, Threads
<1>2. k \in Actors /\ at[k] = "posted" BY <1>1 DEF Turns
<1>3. /\ queue' \in Seq(Actors)
      /\ \A i \in DOMAIN queue' : i + 1 \in DOMAIN queue /\ queue'[i] = queue[i + 1] /\ i # 0
  BY <1>1 DEF Drain
<1>4. \A i \in DOMAIN queue' : queue'[i] \in Actors \ {k} /\ at[queue'[i]] = "posted"
  BY <1>1, <1>3 DEF Turns
<1>5. \A i, j \in DOMAIN queue' : queue'[i] = queue'[j] => i = j
  BY <1>3 DEF Turns
<1>6. at' = [at EXCEPT ![k] = "run"] /\ Push(Loop, k) BY DEF Drain, Goto
<1>7. /\ stack'[Loop] = <<k>> /\ stack[Loop] = <<>>
      /\ stack'[User] = stack[User] /\ stack' \in [Threads -> Seq(Actors)]
  BY <1>1, <1>2, <1>6, ChainAssumption DEF ChainTypeOK, Push, Drain, Threads
<1> HIDE DEF k
<1>8. \A i \in DOMAIN stack[User] : stack[User][i] \in Actors \ {k}
  BY <1>2 DEF ChainTypeOK, Turns, Threads, Away
<1>9. at'[k] = "run" /\ \A j \in Actors \ {k} : at'[j] = at[j] BY <1>2, <1>6 DEF ChainTypeOK
<1>10. DOMAIN <<k>> = {1} /\ <<k>>[1] = k OBVIOUS
<1>11. \A t \in Threads : t = User \/ t = Loop BY DEF Threads
<1> QED
  <2>1. \A t \in Threads : \A i, j \in DOMAIN stack'[t] : stack'[t][i] = stack'[t][j] => i = j
    BY <1>7, <1>10, <1>11 DEF Turns
  <2>2. \A t \in Threads : \A i \in DOMAIN stack'[t] : at'[stack'[t][i]] \notin Away
    BY <1>7, <1>8, <1>9, <1>10, <1>11 DEF Turns, Away
  <2>3. \A i \in DOMAIN stack'[User], j \in DOMAIN stack'[Loop] : stack'[User][i] # stack'[Loop][j]
    BY <1>7, <1>8, <1>10
  <2>4. \A i \in DOMAIN queue' : at'[queue'[i]] = "posted" BY <1>4, <1>9
  <2> QED BY <1>3, <1>5, <1>7, <2>1, <2>2, <2>3, <2>4 DEF Turns

(* resume_on: the running coroutine leaves its stack for the queue.         *)
LEMMA TurnsHop ==
  ASSUME ChainTypeOK, Turns, NEW t \in Threads, NEW k \in Tasks, Hop(t, k)
  PROVE  Turns' /\ stack' \in [Threads -> Seq(Actors)] /\ queue' \in Seq(Actors)
<1>1. k \in Actors /\ at[k] = "run" /\ Runs(t, k) /\ Pop(t) /\ queue' = Append(queue, k)
  BY ChainAssumption DEF Hop, Tasks, Actors
<1>2. at'[k] = "posted" /\ \A j \in Actors \ {k} : at'[j] = at[j]
  BY <1>1 DEF ChainTypeOK, Hop, Goto
<1>3. \A j \in Actors \ {k} : Keeps(j) BY <1>2 DEF Keeps
<1>4. /\ stack' \in [Threads -> Seq(Actors)]
      /\ \A u \in Threads : \A i, j \in DOMAIN stack'[u] : stack'[u][i] = stack'[u][j] => i = j
      /\ \A u \in Threads : \A i \in DOMAIN stack'[u] : at'[stack'[u][i]] \notin Away
      /\ \A i \in DOMAIN stack'[User], j \in DOMAIN stack'[Loop] :
           stack'[User][i] # stack'[Loop][j]
  BY <1>1, <1>3, TurnsPop
<1>5. /\ queue \in Seq(Actors) /\ queue' \in Seq(Actors)
      /\ DOMAIN queue = 1..Len(queue) /\ DOMAIN queue' = 1..(Len(queue) + 1)
      /\ queue'[Len(queue) + 1] = k /\ Len(queue) \in Nat
      /\ \A i \in 1..Len(queue) : queue'[i] = queue[i] /\ queue[i] \in Actors
  <2>1. queue \in Seq(Actors) BY DEF ChainTypeOK
  <2> QED BY <1>1, <2>1, Longer
<1>6. \A i \in 1..Len(queue) : queue[i] \in Actors \ {k} BY <1>1, <1>5 DEF Turns
<1>7. \A i \in DOMAIN queue' : i \in 1..Len(queue) \/ i = Len(queue) + 1 BY <1>5
<1>8. \A i, j \in DOMAIN queue' : queue'[i] = queue'[j] => i = j
  BY <1>5, <1>6, <1>7 DEF Turns
<1>9. \A i \in DOMAIN queue' : at'[queue'[i]] = "posted"
  BY <1>2, <1>5, <1>6, <1>7 DEF Turns
<1> QED BY <1>4, <1>5, <1>8, <1>9 DEF Turns

-----------------------------------------------------------------------------
(* The parties of a task.                                                   *)

(* What Parties says, without the stacks and the queue.                     *)
Plain ==
  /\ at \in [Actors -> Body \cup Main]
  /\ handoff \in [Tasks -> Words] /\ refs \in [Tasks -> 0..2]
  /\ frame \in [Tasks -> {"unborn", "live", "freed"}] /\ drops \in [Tasks -> 0..2]

(* All that is said of one task, given where its consumer c and its         *)
(* coroutine p stand.                                                       *)
Consumers(k) ==
  IF k = 1 THEN {"have", "awaitReady", "awaitSuspend", "suspended", "consume", "releaseChild",
                 "load", "alloc", "cas", "lock", "check", "enter", "cvwait"}
  ELSE {"awaitReady", "awaitSuspend", "suspended", "consume", "releaseChild"}
Pair(k, c, p, word, count, host, gone) ==
  /\ p \in Body
  /\ host = "unborn" <=> p = "unborn"
  /\ k = 1 => (host = "unborn" <=> c = "start")
  /\ word = "registered" <=> c = "suspended"
  /\ p \in Published => word = "completed"
  /\ c \in {"consume", "releaseChild"} => word = "completed"
  /\ p \notin {"unborn", "final"} \/ c \in Consumers(k) => host = "live"
  /\ host # "unborn" =>
       count = (IF p \notin {"unborn", "final"} THEN 1 ELSE 0) + (IF c \in Consumers(k) THEN 1 ELSE 0)
  /\ gone = IF host # "unborn" /\ count = 0 THEN 1 ELSE 0
PairOf(k) == Pair(k, at[k - 1], at[k], handoff[k], refs[k], frame[k], drops[k])
Caller == at[0] \in Main \cup {"awaitReady", "awaitSuspend", "suspended", "consume", "releaseChild"}

(* The invariant speaks of each task by itself.                             *)
LEMMA TaskByTask ==
  Caller /\ (\A k \in Tasks : PairOf(k)) <=> Roles /\ Birth /\ Word /\ FrameLifetime
<1>1. 1 \in Tasks BY ChainAssumption DEF Tasks
<1>2. \A k \in Tasks : ProducerLive(k) <=> at[k] \notin {"unborn", "final"}
  BY DEF ProducerLive
<1>3. \A k \in Tasks : ConsumerLive(k) <=> at[k - 1] \in Consumers(k)
  BY DEF ConsumerLive, Consumers
<1>4. ASSUME Caller, \A k \in Tasks : PairOf(k) PROVE Roles /\ Birth /\ Word /\ FrameLifetime
  <2>1. Roles BY <1>4 DEF Caller, Roles, PairOf, Pair
  <2>2. Birth BY <1>1, <1>4 DEF Birth, PairOf, Pair
  <2>3. Word BY <1>4 DEF Word, Done, PairOf, Pair
  <2>4. FrameLifetime BY <1>2, <1>3, <1>4 DEF FrameLifetime, PairOf, Pair
  <2> QED BY <2>1, <2>2, <2>3, <2>4
<1>5. ASSUME Roles, Birth, Word, FrameLifetime PROVE Caller /\ \A k \in Tasks : PairOf(k)
  <2>1. Caller BY <1>5 DEF Caller, Roles
  <2>2. ASSUME NEW k \in Tasks PROVE PairOf(k)
    BY <1>1, <1>2, <1>3, <1>5 DEF Roles, Birth, Word, Done, FrameLifetime, PairOf, Pair
  <2> QED BY <2>1, <2>2
<1> QED BY <1>4, <1>5

(* A task is left alone: only others may have changed their place.          *)
Alone(j) ==
  handoff'[j] = handoff[j] /\ refs'[j] = refs[j] /\ frame'[j] = frame[j] /\ drops'[j] = drops[j]

(* A coroutine is called.                                                   *)
LEMMA CallPairs ==
  ASSUME Plain, Caller, \A j \in Tasks : PairOf(j), NEW t \in Threads, NEW k \in Tasks, Call(t, k)
  PROVE  Plain' /\ Caller' /\ \A j \in Tasks : PairOf(j)'
<1> USE ChainAssumption DEF Plain, Actors, Tasks
<1>1. Plain' BY DEF Call, InitialReferences, Body, Main
<1>2. /\ PairOf(k) /\ at[k] = "unborn" /\ at'[k] = "run"
      /\ at[k - 1] \in {"start", "run"} /\ at'[k - 1] \in {"have", "awaitReady"}
      /\ k = 1 => at'[0] = "have"
      /\ k # 1 => at'[k - 1] = "awaitReady"
      /\ \A j \in Actors \ {k - 1, k} : at'[j] = at[j]
  BY DEF Call, PairOf, Pair
<1>3. Caller' BY <1>2 DEF Caller, Main
<1>a. \A j \in Tasks \ {k} : Alone(j) BY DEF Alone, Call
<1>4. ASSUME NEW j \in Tasks PROVE PairOf(j)'
  <2>1. PairOf(j) OBVIOUS
  <2>2. CASE j = k
    BY <1>1, <1>2, <2>1, <2>2
    DEF Call, PairOf, Pair, Consumers, InitialReferences, Body, Published
  <2>3. CASE j = k + 1
    <3>1. at[j - 1] = "unborn" /\ at'[j - 1] = "run" /\ at'[j] = at[j] /\ Alone(j)
      BY <1>2, <1>a, <2>3
    <3> QED BY <2>1, <2>3, <3>1 DEF PairOf, Pair, Consumers, Alone
  <2>4. CASE j \notin {k, k + 1}
    <3>1. at'[j] = at[j] \/ j = k - 1 BY <1>2, <2>4
    <3>2. at'[j - 1] = at[j - 1] /\ Alone(j) BY <1>2, <1>a, <2>4
    <3>3. j = k - 1 => at[j] = "run" /\ at'[j] = "awaitReady"
      BY <1>2, <2>1 DEF PairOf, Pair, Body
    <3> QED BY <2>1, <3>1, <3>2, <3>3 DEF PairOf, Pair, Alone, Body, Published
  <2> QED BY <2>2, <2>3, <2>4
<1> QED BY <1>1, <1>3, <1>4
(* The tasks that actor a neither runs nor consumes are as they were.       *)
LEMMA Others ==
  ASSUME Plain, \A j \in Tasks : PairOf(j), NEW a \in Actors,
         \A j \in Actors \ {a} : at'[j] = at[j],
         \A j \in Tasks \ {a, a + 1} : Alone(j),
         a \in Tasks => PairOf(a)', a + 1 \in Tasks => PairOf(a + 1)'
  PROVE  \A j \in Tasks : PairOf(j)'
<1> USE ChainAssumption DEF Actors, Tasks
<1>1. ASSUME NEW j \in Tasks PROVE PairOf(j)'
  <2>1. CASE j \in {a, a + 1} BY <2>1
  <2>2. CASE j \notin {a, a + 1}
    <3>1. at'[j] = at[j] /\ at'[j - 1] = at[j - 1] /\ Alone(j) BY <2>2
    <3>2. PairOf(j) OBVIOUS
    <3> QED BY <3>1, <3>2 DEF PairOf, Alone
  <2> QED BY <2>1, <2>2
<1> QED BY <1>1

(* Actor a goes on by itself: no word, no reference and no frame changes.   *)
LEMMA GoesOn ==
  ASSUME Plain, Caller, \A j \in Tasks : PairOf(j), NEW a \in Actors, NEW q,
         at' = [at EXCEPT ![a] = q], UNCHANGED <<handoff, refs, frame, drops>>,
         a = 0 => q \in Main \cup {"awaitReady", "awaitSuspend", "consume", "releaseChild"},
         a # 0 => /\ q \in Body \ {"unborn", "final"} /\ at[a] \notin {"unborn", "final"}
                  /\ q \in Published => handoff[a] = "completed",
         at[a] \notin {"start", "suspended"} /\ q \notin {"start", "suspended"},
         a + 1 \in Tasks => /\ at[a] \in Consumers(a + 1) <=> q \in Consumers(a + 1)
                            /\ q \in {"consume", "releaseChild"} => handoff[a + 1] = "completed"
  PROVE  Plain' /\ Caller' /\ \A j \in Tasks : PairOf(j)'
<1> USE ChainAssumption DEF Actors, Tasks
<1>1. /\ at'[a] = q /\ \A j \in Actors \ {a} : at'[j] = at[j]
      /\ \A j \in Tasks : Alone(j)
  BY DEF Plain, Alone
<1>2. q \in Body \cup Main BY DEF Body, Main
<1>3. Plain' /\ Caller' BY <1>1, <1>2 DEF Plain, Caller
<1>4. a \in Tasks => PairOf(a)'
  <2> HAVE a \in Tasks
  <2>1. PairOf(a) /\ Alone(a) /\ at'[a - 1] = at[a - 1] BY <1>1
  <2> QED BY <1>1, <2>1 DEF PairOf, Pair, Alone
<1>5. a + 1 \in Tasks => PairOf(a + 1)'
  <2> HAVE a + 1 \in Tasks
  <2>1. PairOf(a + 1) /\ Alone(a + 1) /\ at'[a + 1] = at[a + 1] /\ (a + 1) - 1 = a BY <1>1
  <2> QED BY <1>1, <2>1 DEF PairOf, Pair, Alone
<1> QED BY <1>1, <1>3, <1>4, <1>5, Others
(* One of the two parties of task k drops its reference: actor a leaves, as *)
(* the coroutine or as the consumer.                                        *)
LEMMA LetsGo ==
  ASSUME Plain, Caller, \A j \in Tasks : PairOf(j), NEW k \in Tasks, NEW a \in {k - 1, k}, NEW q,
         at' = [at EXCEPT ![a] = q], Release(k), UNCHANGED handoff,
         a = k => at[k] = "release" /\ q = "final",
         a = k - 1 => \/ at[a] = "releaseChild" /\ q = (IF a = 0 THEN "end" ELSE "run")
                      \/ a = 0 /\ at[a] = "have" /\ q = "end"
  PROVE  Plain' /\ Caller' /\ \A j \in Tasks : PairOf(j)'
<1> USE ChainAssumption DEF Actors, Tasks
<1>1. /\ a \in Actors /\ at'[a] = q /\ \A j \in Actors \ {a} : at'[j] = at[j]
      /\ \A j \in Tasks \ {k} : Alone(j) /\ handoff'[j] = handoff[j]
  BY DEF Plain, Alone, Release
<1>2. PairOf(k) OBVIOUS
<1>3. /\ refs[k] \in {1, 2} /\ frame[k] = "live" /\ drops[k] = 0
      /\ refs'[k] = refs[k] - 1 /\ handoff'[k] = handoff[k]
      /\ refs[k] = 1 => frame'[k] = "freed" /\ drops'[k] = 1
      /\ refs[k] = 2 => frame'[k] = "live" /\ drops'[k] = 0
  <2>1. refs[k] \in {1, 2} /\ frame[k] = "live" /\ drops[k] = 0
    BY <1>2 DEF PairOf, Pair, Consumers
  <2>2. refs[k] = 1 => handoff[k] = "completed"
    BY <1>2 DEF PairOf, Pair, Consumers, Published, Body
  <2> QED BY <2>1, <2>2 DEF Plain, Release, LastReference, Done
<1>4. Plain'
  <2>1. q \in Body \cup Main BY DEF Body, Main
  <2>2. at' \in [Actors -> Body \cup Main] /\ handoff' \in [Tasks -> Words] BY <2>1 DEF Plain
  <2>3. refs' \in [Tasks -> 0..2]
    <3>1. refs[k] - 1 \in 0..2 BY <1>3
    <3> QED BY <3>1 DEF Plain, Release
  <2>4. frame' \in [Tasks -> {"unborn", "live", "freed"}] BY DEF Plain, Release
  <2>5. drops' \in [Tasks -> 0..2]
    <3>1. drops[k] + 1 \in 0..2 /\ drops[k] \in 0..2 BY <1>3
    <3> QED BY <3>1 DEF Plain, Release
  <2> QED BY <2>2, <2>3, <2>4, <2>5 DEF Plain
<1>5. Caller' BY <1>1 DEF Caller, Main
<1>6. PairOf(k)'
  <2>1. CASE a = k
    <3>1. at'[k - 1] = at[k - 1] /\ at'[k] = "final" BY <1>1, <2>1
    <3>2. at[k] = "release" BY <2>1
    <3> QED BY <1>2, <1>3, <3>1, <3>2 DEF PairOf, Pair, Published, Body
  <2>2. CASE a = k - 1
    <3>1. at'[k] = at[k] BY <1>1, <2>2
    <3> QED BY <1>1, <1>2, <1>3, <2>2, <3>1 DEF PairOf, Pair, Consumers, Published, Body
  <2> QED BY <2>1, <2>2
<1>7. a = k /\ k + 1 \in Tasks => PairOf(k + 1)'
  <2> HAVE a = k /\ k + 1 \in Tasks
  <2>1. PairOf(k + 1) /\ Alone(k + 1) /\ at'[k + 1] = at[k + 1] /\ (k + 1) - 1 = k BY <1>1
  <2>2. at[k] = "release" /\ at'[k] = "final" /\ k + 1 # 1 BY <1>1
  <2> QED BY <2>1, <2>2 DEF PairOf, Pair, Alone, Consumers
<1>8. a = k - 1 /\ k - 1 \in Tasks => PairOf(k - 1)'
  <2> HAVE a = k - 1 /\ k - 1 \in Tasks
  <2>1. PairOf(k - 1) /\ Alone(k - 1) /\ at'[(k - 1) - 1] = at[(k - 1) - 1] BY <1>1
  <2> QED BY <1>1, <2>1 DEF PairOf, Pair, Alone, Published, Body
<1> QED BY <1>1, <1>4, <1>5, <1>6, <1>7, <1>8, Others

(* The consumer of task k writes itself into the word.                      *)
LEMMA Registers ==
  ASSUME Plain, Caller, \A j \in Tasks : PairOf(j), NEW k \in Tasks, NEW w, NEW q,
         at' = [at EXCEPT ![k - 1] = q], handoff' = [handoff EXCEPT ![k] = w],
         handoff[k] = "unclaimed", UNCHANGED <<refs, frame, drops>>,
         \/ at[k - 1] = "awaitSuspend" /\ q = "suspended" /\ w = "registered"
         \/ k = 1 /\ at[0] = "cas" /\ q = "cas" /\ w = "parked"
  PROVE  Plain' /\ Caller' /\ \A j \in Tasks : PairOf(j)'
<1> USE ChainAssumption DEF Actors, Tasks
<1>1. /\ k - 1 \in Actors /\ at'[k - 1] = q /\ \A j \in Actors \ {k - 1} : at'[j] = at[j]
      /\ handoff'[k] = w /\ \A j \in Tasks \ {k} : Alone(j)
  BY DEF Plain, Alone
<1>2. q \in Body \cup Main /\ w \in Words BY DEF Body, Main, Words
<1>3. Plain' BY <1>2 DEF Plain
<1>4. Caller' BY <1>1 DEF Caller, Main
<1>5. PairOf(k)'
  <2>1. PairOf(k) /\ at'[k] = at[k] BY <1>1
  <2> QED BY <1>1, <2>1 DEF PairOf, Pair, Consumers, Published, Body
<1>6. k - 1 \in Tasks => PairOf(k - 1)'
  <2> HAVE k - 1 \in Tasks
  <2>1. PairOf(k - 1) /\ Alone(k - 1) /\ at'[(k - 1) - 1] = at[(k - 1) - 1] BY <1>1
  <2> QED BY <1>1, <2>1 DEF PairOf, Pair, Alone, Published, Body
<1> QED BY <1>1, <1>3, <1>4, <1>5, <1>6, Others

(* publish(): the word is completed, and a registered consumer goes on.     *)
LEMMA PublishPairs ==
  ASSUME Plain, Caller, \A j \in Tasks : PairOf(j), NEW t \in Threads, NEW k \in Tasks,
         Publish(t, k)
  PROVE  Plain' /\ Caller' /\ \A j \in Tasks : PairOf(j)'
<1> USE ChainAssumption DEF Actors, Tasks
<1>1. /\ at[k] = "publish" /\ at'[k] \in {"notify", "release"} /\ handoff'[k] = "completed"
      /\ \A j \in Tasks \ {k} : Alone(j)
      /\ \A j \in Actors \ {k - 1, k} : at'[j] = at[j]
      /\ \/ at[k - 1] = "suspended" /\ at'[k - 1] = "consume"
         \/ at[k - 1] # "suspended" /\ at'[k - 1] = at[k - 1]
      /\ refs'[k] = refs[k] /\ frame'[k] = frame[k] /\ drops'[k] = drops[k]
  <2>1. handoff[k] = "registered" <=> at[k - 1] = "suspended" BY DEF PairOf, Pair
  <2> QED BY <2>1 DEF Plain, Publish, Goto, Alone
<1>2. Plain' BY DEF Plain, Publish, Goto, Body, Main, Words
<1>3. Caller' BY <1>1 DEF Caller, Main
<1>4. ASSUME NEW j \in Tasks PROVE PairOf(j)'
  <2>1. PairOf(j) OBVIOUS
  <2>2. CASE j = k
    BY <1>1, <2>1, <2>2 DEF PairOf, Pair, Consumers, Body, Published
  <2>3. CASE j = k + 1
    <3>1. /\ at[j - 1] = "publish" /\ at'[j - 1] \in {"notify", "release"}
          /\ at'[j] = at[j] /\ Alone(j)
      BY <1>1, <2>3
    <3> QED BY <2>1, <2>3, <3>1 DEF PairOf, Pair, Consumers, Alone
  <2>4. CASE j = k - 1
    <3>1. /\ (at[j] = "suspended" /\ at'[j] = "consume") \/ at'[j] = at[j]
          /\ at'[j - 1] = at[j - 1] /\ Alone(j)
      BY <1>1, <2>4
    <3> QED BY <2>1, <3>1 DEF PairOf, Pair, Alone, Body, Published
  <2>5. CASE j \notin {k - 1, k, k + 1}
    <3>1. at'[j] = at[j] /\ at'[j - 1] = at[j - 1] /\ Alone(j) BY <1>1, <2>5
    <3> QED BY <2>1, <3>1 DEF PairOf, Alone
  <2> QED BY <2>2, <2>3, <2>4, <2>5
<1> QED BY <1>2, <1>3, <1>4

(* publish() wakes the thread that waits.                                   *)
LEMMA NotifyPairs ==
  ASSUME Plain, Caller, \A j \in Tasks : PairOf(j), NEW t \in Threads, NEW k \in Tasks,
         Notify(t, k)
  PROVE  Plain' /\ Caller' /\ \A j \in Tasks : PairOf(j)'
<1> USE ChainAssumption DEF Actors, Tasks
<1>1. /\ at[k] = "notify" /\ at'[k] = "release" /\ \A j \in Tasks : Alone(j)
      /\ (at[0] = "cvwait" /\ at'[0] = "lock") \/ at'[0] = at[0]
      /\ \A j \in Actors \ {0, k} : at'[j] = at[j]
  BY DEF Plain, Notify, Alone
<1>2. Plain' BY DEF Plain, Notify, Body, Main
<1>3. Caller' BY <1>1 DEF Caller, Main
<1>4. ASSUME NEW j \in Tasks PROVE PairOf(j)'
  <2>1. PairOf(j) /\ Alone(j) BY <1>1
  <2>2. \/ at[j] = "notify" /\ at'[j] = "release"
        \/ at'[j] = at[j]
    BY <1>1
  <2>3. \/ j = 1 /\ at[j - 1] = "cvwait" /\ at'[j - 1] = "lock"
        \/ j # 1 /\ at[j - 1] = "notify" /\ at'[j - 1] = "release"
        \/ at'[j - 1] = at[j - 1]
    BY <1>1
  <2> QED BY <2>1, <2>2, <2>3 DEF PairOf, Pair, Consumers, Alone, Body, Published
<1> QED BY <1>2, <1>3, <1>4
-----------------------------------------------------------------------------
(* Every step keeps the invariant.                                          *)

(* The flags of a task hold what flags hold.                                *)
Flags == value \in [Tasks -> BOOLEAN] /\ block \in [Tasks -> BOOLEAN] /\ mutex \in BOOLEAN

(* The flags stay flags.                                                    *)
LEMMA FlagsStep ==
  ASSUME Flags, ChainNext PROVE Flags'
<1>1. ASSUME UNCHANGED <<value, block, mutex>> PROVE Flags' BY <1>1 DEF Flags
<1>2. ASSUME NEW t \in Threads, NEW k \in Tasks,
             Call(t, k) \/ Hop(t, k) \/ Publish(t, k) \/ Notify(t, k) \/ FinalSuspend(t, k)
      PROVE  Flags'
  <2>1. UNCHANGED <<value, block, mutex>>
    BY <1>2 DEF Call, Hop, Publish, Notify, FinalSuspend
  <2> QED BY <1>1, <2>1
<1>3. ASSUME NEW t \in Threads, NEW k \in Tasks, Return(t, k) PROVE Flags'
  <2>1. value' = [value EXCEPT ![k] = TRUE] /\ UNCHANGED <<block, mutex>> BY <1>3 DEF Return
  <2> QED BY <2>1 DEF Flags
<1>4. ASSUME NEW t \in Threads, NEW k \in 0..(Depth - 1),
             AwaitReady(t, k) \/ AwaitSuspend(t, k) \/ ReleaseChild(t, k)
      PROVE  Flags'
  <2>1. UNCHANGED <<value, block, mutex>> BY <1>4 DEF AwaitReady, AwaitSuspend, ReleaseChild
  <2> QED BY <1>1, <2>1
<1>5. ASSUME NEW t \in Threads, NEW k \in 0..(Depth - 1), Consume(t, k) PROVE Flags'
  <2>1. value' = [value EXCEPT ![k + 1] = FALSE] /\ UNCHANGED <<block, mutex>>
    BY <1>5 DEF Consume
  <2> QED BY <2>1 DEF Flags
<1>6. CASE Drain \/ Get \/ Detach \/ Abandon \/ WaitLoad \/ WaitCas \/ SpuriousWake \/ Over
  <2>1. UNCHANGED <<value, block, mutex>>
    BY <1>6 DEF Drain, Get, Detach, Abandon, WaitLoad, WaitCas, SpuriousWake, Over
  <2> QED BY <1>1, <2>1
<1>7. CASE WaitAlloc
  <2>1. block' = [block EXCEPT ![1] = TRUE] /\ UNCHANGED <<value, mutex>> BY <1>7 DEF WaitAlloc
  <2> QED BY <2>1 DEF Flags
<1>8. CASE WaitLock \/ WaitCheck \/ WaitEnter
  <2>1. UNCHANGED <<value, block>> /\ (mutex' = TRUE \/ mutex' = FALSE \/ mutex' = mutex)
    BY <1>8 DEF WaitLock, WaitCheck, WaitEnter
  <2>2. mutex' \in BOOLEAN BY <2>1 DEF Flags
  <2> QED BY <2>1, <2>2 DEF Flags
<1>9. CASE \E t \in Threads : ThreadStep(t) BY <1>2, <1>3, <1>4, <1>5, <1>9 DEF ThreadStep
<1> QED BY <1>6, <1>7, <1>8, <1>9 DEF ChainNext, UserStep, WaitStep

(* A step of actor a that calls, resumes and suspends nobody.               *)
LEMMA StaysOn ==
  ASSUME ChainTypeOK, Turns, NEW a \in Actors, NEW q, at' = [at EXCEPT ![a] = q],
         at[a] # "posted", at[a] \in Away \/ q \notin Away, UNCHANGED <<stack, queue>>
  PROVE  Turns' /\ stack' \in [Threads -> Seq(Actors)] /\ queue' \in Seq(Actors)
<1>1. \A k \in Actors : Keeps(k) BY DEF Keeps, ChainTypeOK
<1> QED BY <1>1, TurnsStay DEF ChainTypeOK

(* What is said of the tasks, and of the stacks.                            *)
Now == Plain /\ Caller /\ \A j \in Tasks : PairOf(j)
Stacks == Turns /\ stack \in [Threads -> Seq(Actors)] /\ queue \in Seq(Actors)

(* A coroutine that goes on inside its body: awaiting its child or not.     *)
LEMMA Onward ==
  ASSUME ChainTypeOK, Turns, Now, NEW a \in Actors, NEW p, NEW q, at[a] = p,
         at' = [at EXCEPT ![a] = q], UNCHANGED <<handoff, refs, frame, drops>>,
         \/ /\ p \in {"awaitReady", "awaitSuspend", "consume"}
            /\ q \in {"awaitSuspend", "consume", "releaseChild"}
            /\ q # "awaitSuspend" => handoff[a + 1] = "completed"
         \/ a # 0 /\ p \in {"run", "posted"} /\ q \in {"run", "posted", "publish"}
  PROVE  Now'
<1>1. CASE /\ p \in {"awaitReady", "awaitSuspend", "consume"}
           /\ q \in {"awaitSuspend", "consume", "releaseChild"}
           /\ q # "awaitSuspend" => handoff[a + 1] = "completed"
  <2>1. p \in Consumers(a + 1) /\ q \in Consumers(a + 1) BY <1>1 DEF Consumers
  <2>2. q \in Body \ {"unborn", "final"} /\ q \notin Published BY <1>1 DEF Body, Published
  <2>3. /\ p \notin {"unborn", "final", "start", "suspended"} /\ q \notin {"start", "suspended"}
        /\ q \in {"consume", "releaseChild"} => handoff[a + 1] = "completed"
    BY <1>1
  <2> QED BY <1>1, <2>1, <2>2, <2>3, GoesOn DEF Now
<1>2. CASE a # 0 /\ p \in {"run", "posted"} /\ q \in {"run", "posted", "publish"}
  <2>0. a + 1 # 1 BY <1>2 DEF Actors
  <2>1. p \notin Consumers(a + 1) /\ q \notin Consumers(a + 1) BY <1>2, <2>0 DEF Consumers
  <2>2. q \in Body \ {"unborn", "final"} /\ q \notin Published BY <1>2 DEF Body, Published
  <2>3. /\ p \notin {"unborn", "final", "start", "suspended"}
        /\ q \notin {"start", "suspended", "consume", "releaseChild"}
    BY <1>2
  <2> QED BY <1>2, <2>1, <2>2, <2>3, GoesOn DEF Now
<1> QED BY <1>1, <1>2

(* A step of a coroutine on its own task.                                   *)
LEMMA TaskStep ==
  ASSUME ChainTypeOK, Turns, Now, NEW t \in Threads, NEW k \in Tasks,
         Call(t, k) \/ Hop(t, k) \/ Return(t, k) \/ Publish(t, k) \/ Notify(t, k)
         \/ FinalSuspend(t, k)
  PROVE  Now' /\ Stacks'
<1>0. /\ k \in Actors /\ k - 1 \in Actors /\ k # 0 /\ k # k - 1 /\ 0 \in Actors /\ k \in Nat
      /\ PairOf(k) /\ at \in [Actors -> Body \cup Main] /\ k + 1 # 1
  BY ChainAssumption DEF Now, Plain, Tasks, Actors
<1>1. CASE Call(t, k)
  <2>1. Now' BY <1>1, CallPairs DEF Now
  <2>2. /\ at[k] = "unborn" /\ at'[k] = "run" /\ \A j \in Actors \ {k} : Keeps(j)
    <3>1. at[k] = "unborn" BY <1>1, <1>0 DEF Call, PairOf, Pair
    <3>2. at'[k] = "run" BY <1>1, <1>0 DEF Call
    <3>3. \A j \in Actors \ {k} : Keeps(j) BY <1>1, <1>0 DEF Call, Keeps, Away
    <3> QED BY <3>1, <3>2, <3>3
  <2>3. Push(t, k) /\ UNCHANGED queue BY <1>1 DEF Call
  <2>t. at[k] \in {"unborn", "suspended"} /\ at'[k] \notin Away BY <2>2 DEF Away
  <2>4. Turns' /\ stack' \in [Threads -> Seq(Actors)]
    BY <1>0, <2>2, <2>t, <2>3, TurnsPush
  <2> QED BY <2>1, <2>3, <2>4 DEF Stacks, ChainTypeOK
<1>2. CASE Hop(t, k)
  <2>f. /\ at[k] = "run" /\ at' = [at EXCEPT ![k] = "posted"]
        /\ UNCHANGED <<handoff, refs, frame, drops>>
    BY <1>2 DEF Hop, Goto
  <2>1. Now' BY <1>0, <2>f, Onward
  <2> QED BY <1>2, <2>1, TurnsHop DEF Stacks
<1>3. CASE Return(t, k)
  <2>f. /\ at[k] = "run" /\ at' = [at EXCEPT ![k] = "publish"]
        /\ UNCHANGED <<handoff, refs, frame, drops, stack, queue>>
    BY <1>3 DEF Return, Goto
  <2>1. Now' BY <1>0, <2>f, Onward
  <2>2. Stacks' BY <1>0, <2>f, StaysOn DEF Away, Stacks
  <2> QED BY <2>1, <2>2
<1>4. CASE Publish(t, k)
  <2>1. Now' BY <1>4, PublishPairs DEF Now
  <2>2. CASE handoff[k] = "registered"
    <3>1. at[k - 1] = "suspended" BY <1>0, <2>2 DEF PairOf, Pair
    <3>2. at'[k - 1] = "consume" /\ \A j \in Actors \ {k - 1} : Keeps(j)
      BY <1>0, <1>4, <2>2 DEF Publish, Keeps, Away
    <3>3. Push(t, k - 1) /\ UNCHANGED queue BY <1>4, <2>2 DEF Publish
    <3>4. Turns' /\ stack' \in [Threads -> Seq(Actors)]
      BY <1>0, <3>1, <3>2, <3>3, TurnsPush DEF Away
    <3> QED BY <2>1, <3>3, <3>4 DEF Stacks, ChainTypeOK
  <2>3. CASE handoff[k] # "registered"
    <3>1. Stacks' BY <1>0, <1>4, <2>3, StaysOn DEF Publish, Goto, Away, Stacks
    <3> QED BY <2>1, <3>1
  <2> QED BY <2>2, <2>3
<1>5. CASE Notify(t, k)
  <2>1. Now' BY <1>5, NotifyPairs DEF Now
  <2>2. \A j \in Actors : Keeps(j) BY <1>0, <1>5 DEF Notify, Keeps, Away
  <2>3. UNCHANGED <<stack, queue>> BY <1>5 DEF Notify
  <2>4. Turns' BY <2>2, <2>3, TurnsStay
  <2> QED BY <2>1, <2>3, <2>4 DEF Stacks, ChainTypeOK
<1>6. CASE FinalSuspend(t, k)
  <2>1. Now'
    BY <1>0, <1>6, LetsGo DEF Now, FinalSuspend, Goto
  <2>2. /\ Runs(t, k) /\ Pop(t) /\ at[k] # "posted" /\ UNCHANGED queue
        /\ \A j \in Actors \ {k} : Keeps(j)
    BY <1>0, <1>6 DEF FinalSuspend, Goto, Keeps
  <2>3. Turns' /\ stack' \in [Threads -> Seq(Actors)] BY <1>0, <2>2, TurnsLeave
  <2> QED BY <2>1, <2>2, <2>3 DEF Stacks, ChainTypeOK
<1> QED BY <1>1, <1>2, <1>3, <1>4, <1>5, <1>6
(* A step of a consumer on the task it awaits.                              *)
LEMMA ConsumerStep ==
  ASSUME ChainTypeOK, Turns, Now, NEW t \in Threads, NEW a \in 0..(Depth - 1),
         AwaitReady(t, a) \/ AwaitSuspend(t, a) \/ Consume(t, a) \/ ReleaseChild(t, a)
  PROVE  Now' /\ Stacks'
<1>0. /\ a \in Actors /\ a + 1 \in Tasks /\ (a + 1) - 1 = a /\ a + 1 # a
      /\ PairOf(a + 1) /\ at \in [Actors -> Body \cup Main]
  BY ChainAssumption DEF Now, Plain, Tasks, Actors
<1>c. a + 1 # 1 <=> a # 0 BY ChainAssumption
<1>f. AwaitReady(t, a) => /\ at[a] = "awaitReady"
                          /\ UNCHANGED <<handoff, refs, frame, drops, stack, queue>>
  BY DEF AwaitReady
<1>1. CASE AwaitReady(t, a)
  <2>1. CASE Done(a + 1)
    <3>1. at' = [at EXCEPT ![a] = "consume"] BY <1>1, <2>1 DEF AwaitReady, Goto
    <3>2. handoff[a + 1] = "completed" BY <2>1 DEF Done
    <3>3. Now' BY <1>0, <1>1, <1>f, <3>1, <3>2, Onward
    <3>4. Stacks' BY <1>0, <1>1, <1>f, <3>1, StaysOn DEF Stacks, Away
    <3> QED BY <3>3, <3>4
  <2>2. CASE ~Done(a + 1)
    <3>1. at' = [at EXCEPT ![a] = "awaitSuspend"] BY <1>1, <2>2 DEF AwaitReady, Goto
    <3>2. Now' BY <1>0, <1>1, <1>f, <3>1, Onward
    <3>3. Stacks' BY <1>0, <1>1, <1>f, <3>1, StaysOn DEF Stacks, Away
    <3> QED BY <3>2, <3>3
  <2> QED BY <2>1, <2>2
<1>2. CASE AwaitSuspend(t, a)
  <2>1. CASE handoff[a + 1] = "unclaimed"
    <3>1. Now' BY <1>0, <1>2, <2>1, Registers DEF Now, AwaitSuspend, Goto
    <3>2. /\ Runs(t, a) /\ Pop(t) /\ at[a] # "posted" /\ UNCHANGED queue
          /\ \A j \in Actors \ {a} : Keeps(j)
      BY <1>0, <1>2, <2>1 DEF AwaitSuspend, Goto, Keeps
    <3>3. Turns' /\ stack' \in [Threads -> Seq(Actors)] BY <1>0, <3>2, TurnsLeave
    <3> QED BY <3>1, <3>2, <3>3 DEF Stacks, ChainTypeOK
  <2>2. CASE handoff[a + 1] = "completed"
    <3>1. /\ at[a] = "awaitSuspend" /\ at' = [at EXCEPT ![a] = "consume"]
          /\ UNCHANGED <<handoff, refs, frame, drops, stack, queue>>
      BY <1>2, <2>2 DEF AwaitSuspend, Goto
    <3>2. Now' BY <1>0, <2>2, <3>1, Onward
    <3>3. Stacks' BY <1>0, <3>1, StaysOn DEF Away, Stacks
    <3> QED BY <3>2, <3>3
  <2> QED BY <1>2, <2>1, <2>2 DEF AwaitSuspend
<1>3. CASE Consume(t, a)
  <2>1. handoff[a + 1] = "completed" BY <1>0, <1>3 DEF Consume, PairOf, Pair
  <2>2. /\ at[a] = "consume" /\ at' = [at EXCEPT ![a] = "releaseChild"]
        /\ UNCHANGED <<handoff, refs, frame, drops, stack, queue>>
    BY <1>3 DEF Consume, Goto
  <2>3. Now' BY <1>0, <2>1, <2>2, Onward
  <2>4. Stacks' BY <1>0, <2>2, StaysOn DEF Away, Stacks
  <2> QED BY <2>3, <2>4
<1>4. CASE ReleaseChild(t, a)
  <2>1. CASE a # 0
    <3>1. Now' BY <1>0, <1>4, <2>1, LetsGo DEF Now, ReleaseChild, Goto
    <3>2. Stacks' BY <1>0, <1>4, <2>1, StaysOn DEF ReleaseChild, Goto, Away, Stacks
    <3> QED BY <3>1, <3>2
  <2>2. CASE a = 0
    <3>1. Now' BY <1>0, <1>4, <2>2, LetsGo DEF Now, ReleaseChild, Goto
    <3>2. /\ Runs(t, a) /\ Pop(t) /\ at[a] # "posted" /\ UNCHANGED queue
          /\ \A j \in Actors \ {a} : Keeps(j)
      BY <1>0, <1>4, <2>2 DEF ReleaseChild, Goto, Keeps
    <3>3. Turns' /\ stack' \in [Threads -> Seq(Actors)] BY <1>0, <3>2, TurnsLeave
    <3> QED BY <3>1, <3>2, <3>3 DEF Stacks, ChainTypeOK
  <2> QED BY <2>1, <2>2
<1> QED BY <1>1, <1>2, <1>3, <1>4

(* A step of the consumer of task 1, in get() or before.                    *)
LEMMA CallerStep ==
  ASSUME ChainTypeOK, Turns, Now, UserStep \/ SpuriousWake
  PROVE  Now' /\ Stacks'
<1>0. /\ 0 \in Actors /\ 1 \in Tasks /\ 0 + 1 = 1 /\ 1 - 1 = 0 /\ User \in Threads
      /\ PairOf(1) /\ at \in [Actors -> Body \cup Main] /\ 0 \notin Tasks
  BY ChainAssumption DEF Now, Plain, Tasks, Actors, Threads
<1>1. ASSUME NEW q \in Main \cup {"awaitReady", "consume"},
             at' = [at EXCEPT ![0] = q], UNCHANGED <<handoff, refs, frame, drops, stack, queue>>,
             at[0] \in {"have", "load", "alloc", "cas", "lock", "check", "enter", "cvwait"},
             q \notin {"start", "end"}, q = "consume" => handoff[1] = "completed"
      PROVE  Now' /\ Stacks'
  <2>1. Now' BY <1>0, <1>1, GoesOn DEF Now, Consumers, Main
  <2>2. Stacks' BY <1>0, <1>1, StaysOn DEF Away, Main, Stacks
  <2> QED BY <2>1, <2>2
<1>2. CASE Get BY <1>1, <1>2 DEF Get, Goto, Main
<1>3. CASE Detach BY <1>1, <1>3 DEF Detach, Goto, Main
<1>4. CASE Abandon
  <2>1. Now' BY <1>0, <1>4, LetsGo DEF Now, Abandon, Goto
  <2>2. /\ Runs(User, 0) /\ Pop(User) /\ at[0] # "posted" /\ UNCHANGED queue
        /\ \A j \in Actors \ {0} : Keeps(j)
    BY <1>0, <1>4 DEF Abandon, Goto, Keeps
  <2>3. Turns' /\ stack' \in [Threads -> Seq(Actors)] BY <1>0, <2>2, TurnsLeave
  <2> QED BY <2>1, <2>2, <2>3 DEF Stacks, ChainTypeOK
<1>5. CASE WaitLoad
  <2>1. CASE Done(1) BY <1>1, <1>5, <2>1 DEF WaitLoad, Goto, Main, Done
  <2>2. CASE ~Done(1) BY <1>1, <1>5, <2>2 DEF WaitLoad, Goto, Main
  <2> QED BY <2>1, <2>2
<1>6. CASE WaitAlloc BY <1>1, <1>6 DEF WaitAlloc, Goto, Main
<1>7. CASE WaitCas
  <2>1. CASE handoff[1] = "unclaimed"
    <3>1. at[0] = "cas" /\ at' = at /\ handoff' = [handoff EXCEPT ![1] = "parked"]
          /\ UNCHANGED <<refs, frame, drops, stack, queue>>
      BY <1>7, <2>1 DEF WaitCas
    <3>2. at' = [at EXCEPT ![0] = "cas"] BY <1>0, <3>1
    <3>3. Now' BY <1>0, <2>1, <3>1, <3>2, Registers DEF Now
    <3>4. Stacks' BY <1>0, <3>1, <3>2, StaysOn DEF Away, Stacks
    <3> QED BY <3>3, <3>4
  <2>2. CASE handoff[1] # "unclaimed" BY <1>1, <1>7, <2>2 DEF WaitCas, Goto, Main
  <2> QED BY <2>1, <2>2
<1>8. CASE WaitLock BY <1>1, <1>8 DEF WaitLock, Goto, Main
<1>9. CASE WaitCheck BY <1>1, <1>9 DEF WaitCheck, Goto, Main, Done
<1>10. CASE WaitEnter BY <1>1, <1>10 DEF WaitEnter, Goto, Main
<1>11. CASE SpuriousWake BY <1>1, <1>11 DEF SpuriousWake, Goto, Main
<1> QED BY <1>2, <1>3, <1>4, <1>5, <1>6, <1>7, <1>8, <1>9, <1>10, <1>11 DEF UserStep, WaitStep

(* The loop runs what was posted to it.                                     *)
LEMMA DrainStep ==
  ASSUME ChainTypeOK, Turns, Now, Drain
  PROVE  Now' /\ Stacks'
<1>1. /\ Head(queue) \in Actors /\ at[Head(queue)] = "posted"
  <2>1. queue \in Seq(Actors) /\ queue # <<>> BY DEF ChainTypeOK, Drain
  <2>2. Head(queue) = queue[1] /\ 1 \in DOMAIN queue /\ Head(queue) \in Actors BY <2>1
  <2> QED BY <2>2 DEF Turns
<1>2. PICK a \in Actors : a = Head(queue) BY <1>1
<1>3. a # 0 BY <1>1, <1>2 DEF Now, Caller, Main
<1>4. at' = [at EXCEPT ![a] = "run"] /\ UNCHANGED <<handoff, refs, frame, drops>>
  BY <1>2 DEF Drain, Goto
<1>5. at[a] = "posted" BY <1>1, <1>2
<1>6. Now' BY <1>2, <1>3, <1>4, <1>5, Onward
<1> QED BY <1>6, TurnsDrain DEF Stacks

(* The invariant is inductive.                                              *)
LEMMA ChainStep == ChainInv /\ [ChainNext]_chainVars => ChainInv'
<1> SUFFICES ASSUME ChainInv, [ChainNext]_chainVars PROVE ChainInv'
  OBVIOUS
<1>1. ChainTypeOK /\ Turns /\ Now /\ Flags
  BY TaskByTask DEF ChainInv, Parties, Now, Plain, ChainTypeOK, Flags
<1>2. Now' /\ Stacks' /\ Flags' => ChainInv'
  <2> HAVE Now' /\ Stacks' /\ Flags'
  <2>1. (Caller /\ \A k \in Tasks : PairOf(k))' => (Roles /\ Birth /\ Word /\ FrameLifetime)'
    BY TaskByTask, PTL
  <2>2. ChainTypeOK' BY DEF Now, Plain, Stacks, Flags, ChainTypeOK
  <2> QED BY <2>1, <2>2 DEF Now, Stacks, ChainInv, Parties
<1>3. CASE UNCHANGED chainVars
  BY <1>3 DEF ChainInv, Parties, ChainTypeOK, Roles, Birth, Word, FrameLifetime, Turns, Done,
              ProducerLive, ConsumerLive
<1>4. CASE ChainNext
  <2>1. Flags' BY <1>1, <1>4, FlagsStep
  <2>2. CASE \E t \in Threads : ThreadStep(t)
    BY <1>1, <1>2, <2>1, <2>2, TaskStep, ConsumerStep DEF ThreadStep
  <2>3. CASE Drain BY <1>1, <1>2, <2>1, <2>3, DrainStep
  <2>4. CASE UserStep \/ SpuriousWake BY <1>1, <1>2, <2>1, <2>4, CallerStep
  <2>5. CASE Over BY <1>3, <2>5 DEF Over
  <2> QED BY <1>4, <2>2, <2>3, <2>4, <2>5 DEF ChainNext
<1> QED BY <1>3, <1>4

(* It holds at the start, before anything is called.                        *)
LEMMA ChainStart == ChainInit => ChainInv
<1> SUFFICES ASSUME ChainInit PROVE ChainInv
  OBVIOUS
<1> USE ChainAssumption DEF ChainInit
<1>0. /\ \A k \in Tasks : k \in Actors /\ k - 1 \in Actors /\ k # 0
      /\ 0 \in Actors /\ 1 \in Tasks
  BY DEF Actors, Tasks
<1>1. ChainTypeOK
  <2>1. stack \in [Threads -> Seq(Actors)] /\ queue \in Seq(Actors) BY <1>0
  <2>2. at \in [Actors -> Body \cup Main] BY DEF Body, Main
  <2>3. /\ handoff \in [Tasks -> Words] /\ refs \in [Tasks -> 0..2]
        /\ frame \in [Tasks -> {"unborn", "live", "freed"}] /\ drops \in [Tasks -> 0..2]
    BY DEF Words
  <2>4. value \in [Tasks -> BOOLEAN] /\ block \in [Tasks -> BOOLEAN] /\ mutex \in BOOLEAN
    OBVIOUS
  <2> QED BY <2>1, <2>2, <2>3, <2>4 DEF ChainTypeOK
<1>s. /\ \A k \in Tasks : /\ at[k] = "unborn" /\ at[k - 1] \in {"start", "unborn"}
                          /\ k = 1 => at[k - 1] = "start"
                          /\ k # 1 => at[k - 1] = "unborn"
      /\ at[0] = "start"
  BY <1>0 DEF Tasks
<1>2. Roles /\ Birth /\ Word
  BY <1>0, <1>s DEF Roles, Birth, Word, Body, Main, Done, Published
<1>3. FrameLifetime BY <1>s DEF FrameLifetime, ProducerLive, ConsumerLive
<1>4. Turns
  <2>1. /\ stack[User] = <<0>> /\ stack[Loop] = <<>> /\ queue = <<>> /\ at[0] = "start"
        /\ \A t \in Threads : t = User \/ t = Loop
    BY DEF Threads, Actors
  <2>2. DOMAIN <<0>> = {1} /\ <<0>>[1] = 0 OBVIOUS
  <2> QED BY <2>1, <2>2 DEF Turns, Away
<1> QED BY <1>1, <1>2, <1>3, <1>4 DEF ChainInv, Parties

-----------------------------------------------------------------------------
(* The theorems                                                             *)

(* The inductive invariant holds in every state of every behaviour.         *)
THEOREM ChainInvariant == ChainSpec => []ChainInv
BY ChainStart, ChainStep, PTL DEF ChainSpec

(* The word, the counters, the flags and the call stacks of TaskState stay  *)
(* well formed; references is never more than two or less than zero.        *)
THEOREM ChainTypeCorrect == ChainSpec => []ChainTypeOK
<1>1. ChainInv => ChainTypeOK BY DEF ChainInv, Parties
<1> QED BY <1>1, ChainInvariant, PTL

(* In a chain of any length a coroutine frame is live while the coroutine   *)
(* or its consumer can touch it, references counts exactly those two, and   *)
(* the frame is destroyed once, with the last of them: release_task_state   *)
(* neither frees too early nor twice, whoever comes last.                   *)
THEOREM FramesOutliveUse == ChainSpec => []FrameLifetime
<1>1. ChainInv => FrameLifetime BY DEF ChainInv, Parties
<1> QED BY <1>1, ChainInvariant, PTL

(* No coroutine stands in two places: publish(), resume_on and the call of  *)
(* a coroutine never resume one that is running, queued or resumed already. *)
THEOREM NeverResumedTwice == ChainSpec => []ResumedOnce
<1>1. ASSUME ChainInv PROVE ResumedOnce
  <2>1. ASSUME NEW k \in Actors, NEW p \in Places(k), NEW q \in Places(k) PROVE p = q
    <3>1. \A x \in Places(k) :
            \/ \E i \in DOMAIN queue : x = <<"queue", i>> /\ queue[i] = k
            \/ \E t \in Threads : \E i \in DOMAIN stack[t] : x = <<t, i>> /\ stack[t][i] = k
      BY DEF Places
    <3>2. \A t \in Threads : t = User \/ t = Loop BY DEF Threads
    <3>3. CASE at[k] = "posted"
      <4>1. \A x \in Places(k) : \E i \in DOMAIN queue : x = <<"queue", i>> /\ queue[i] = k
        BY <1>1, <3>1, <3>3 DEF ChainInv, Turns, Away
      <4>2. PICK i \in DOMAIN queue : p = <<"queue", i>> /\ queue[i] = k BY <4>1
      <4>3. PICK j \in DOMAIN queue : q = <<"queue", j>> /\ queue[j] = k BY <4>1
      <4> QED BY <1>1, <4>2, <4>3 DEF ChainInv, Turns
    <3>4. CASE at[k] # "posted"
      <4>1. \A x \in Places(k) :
              \E t \in Threads : \E i \in DOMAIN stack[t] : x = <<t, i>> /\ stack[t][i] = k
        BY <1>1, <3>1, <3>4 DEF ChainInv, Turns
      <4>2. PICK t \in Threads : \E i \in DOMAIN stack[t] : p = <<t, i>> /\ stack[t][i] = k
        BY <4>1
      <4>3. PICK u \in Threads : \E i \in DOMAIN stack[u] : q = <<u, i>> /\ stack[u][i] = k
        BY <4>1
      <4>4. t = u BY <1>1, <3>2, <4>2, <4>3 DEF ChainInv, Turns
      <4> QED BY <1>1, <4>2, <4>3, <4>4 DEF ChainInv, Turns
    <3> QED BY <3>3, <3>4
  <2> QED BY <2>1 DEF ResumedOnce
<1> QED BY <1>1, ChainInvariant, PTL
=============================================================================

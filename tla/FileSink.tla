------------------------------ MODULE FileSink ------------------------------
(* AsyncFileSink with the FileIoPool behind it, and run_file_io             *)
(* (src/src/streaming_body.cpp).                                            *)
(*                                                                          *)
(* Coroutines share one sink.  An action is queued with the sink, which has *)
(* process() at work in the pool while its queue is not empty.  An action   *)
(* started on a loop completes on that loop through a uv_async_t and its    *)
(* close callback; one started elsewhere resumes its coroutine on the pool  *)
(* thread, inside process().                                                *)
EXTENDS Naturals, Sequences, SequencesExt

CONSTANTS
  PoolThreads,  \* the workers_ of FileIoPool
  LoopUsers,    \* coroutines on the loop of one Runtime
  PlainUsers,   \* coroutines on threads of their own
  MaxActions,   \* operations of one coroutine
  MaxIoFaults   \* failures of the disk, of libuv and of an allocation

Users == LoopUsers \cup PlainUsers

ASSUME SinkAssumption ==
  /\ LoopUsers \cap PlainUsers = {} /\ PoolThreads # {}
  /\ {"none", "process"} \cap Users = {} /\ "own" \notin PoolThreads
  /\ {MaxActions, MaxIoFaults} \subseteq Nat

VARIABLES
  user,            \* where each coroutine stands
  on,              \* the thread that runs it: its own (or the loop's), or one of the pool
  action,          \* its current operation, how many it has made
  pending,         \* Impl::pending
  worker_running,  \* Impl::worker_running
  good,            \* the state of Impl::output
  file,            \* the writes the stream has taken
  wrote,           \* history: the writes that were queued, in order
  io_jobs,         \* FileIoPool::jobs_
  thread,          \* what each thread of the pool does, for whom, and what follows
  loop,            \* the Runtime: running, stopping, gone
  exiting,         \* ~FileIoPool has asked the threads to stop
  io_faults

sinkVars == <<user, on, action, pending, worker_running, good, file, wrote, io_jobs, thread,
              loop, exiting, io_faults>>

(* "flush" stands for flush(), sync() and a write of nothing.               *)
SinkOps == {"write", "flush"}

Waits == [at |-> "wait", for |-> "none", then |-> "wait"]
Process == [Waits EXCEPT !.at = "process"]

(* What open() leaves.                                                      *)
SinkInit ==
  /\ user = [u \in Users |-> "run"] /\ on = [u \in Users |-> "own"]
  /\ action = [u \in Users |-> [op |-> "none", made |-> 0]]
  /\ pending = <<>> /\ worker_running = FALSE /\ good = TRUE /\ file = <<>> /\ wrote = <<>>
  /\ io_jobs = <<>> /\ thread = [t \in PoolThreads |-> Waits]
  /\ loop = "running" /\ exiting = FALSE /\ io_faults = 0

IoFault == io_faults < MaxIoFaults /\ io_faults' = io_faults + 1

-----------------------------------------------------------------------------
(* The coroutine: it has the thread, and gives it back when it suspends.    *)

Running(u) == user[u] = "run" /\ (u \in LoopUsers => loop # "gone")

GoesOn(u) == UNCHANGED <<on, thread>>
Suspends(u) ==
  /\ on' = [on EXCEPT ![u] = "own"]
  /\ thread' = [t \in PoolThreads |->
                  IF t = on[u] THEN [Waits EXCEPT !.at = thread[t].then] ELSE thread[t]]

(* A new operation, except what becomes of it.                              *)
Starts(u, op) ==
  /\ Running(u) /\ action[u].made < MaxActions
  /\ action' = [action EXCEPT ![u] = [op |-> op, made |-> @.made + 1]]
  /\ UNCHANGED <<good, file, loop, exiting>>

(* Mutant: starts process() for every action.                               *)
AlwaysNeeded == TRUE

WorkerNeeded == ~worker_running

(* submit() queues the action, and process() when it is not at work ...     *)
Submit(u, op) ==
  /\ Starts(u, op) /\ Suspends(u) /\ user' = [user EXCEPT ![u] = "wait"]
  /\ pending' = Append(pending, u) /\ worker_running' = TRUE
  /\ wrote' = IF op = "write" THEN Append(wrote, <<u, action[u].made + 1>>) ELSE wrote
  /\ io_jobs' = IF WorkerNeeded THEN Append(io_jobs, "process") ELSE io_jobs
  /\ UNCHANGED io_faults

(* ... or the pool cannot take it, and the action is taken back: without a  *)
(* loop the coroutine goes on, with one it is completed as any other.       *)
SubmitThrows(u, op) ==
  /\ Starts(u, op) /\ WorkerNeeded /\ IoFault
  /\ IF u \in LoopUsers THEN user' = [user EXCEPT ![u] = "sent"] /\ Suspends(u)
                        ELSE UNCHANGED user /\ GoesOn(u)
  /\ UNCHANGED <<pending, worker_running, wrote, io_jobs>>

(* uv_async_init or uv_queue_work fails, or the pool cannot take the job of *)
(* run_file_io: the coroutine goes on.                                      *)
NoHandle(u, op) ==
  /\ u \in LoopUsers \/ op = "io"
  /\ Starts(u, op) /\ IoFault /\ GoesOn(u)
  /\ UNCHANGED <<user, pending, worker_running, wrote, io_jobs>>

(* run_file_io: work for libuv's threads, or a job of the pool.             *)
RunFileIo(u) ==
  /\ Starts(u, "io") /\ Suspends(u)
  /\ user' = [user EXCEPT ![u] = IF u \in LoopUsers THEN "uvwork" ELSE "wait"]
  /\ io_jobs' = IF u \in LoopUsers THEN io_jobs ELSE Append(io_jobs, u)
  /\ UNCHANGED <<pending, worker_running, wrote, io_faults>>

(* The coroutine returns, or waits for something that is not of this module.*)
Finishes(u) ==
  /\ Running(u) /\ Suspends(u) /\ user' = [user EXCEPT ![u] = "over"]
  /\ action' = [action EXCEPT ![u] = [op |-> "none", made |-> 0]]
  /\ UNCHANGED <<pending, worker_running, good, file, wrote, io_jobs, loop, exiting, io_faults>>

-----------------------------------------------------------------------------
(* The pool                                                                 *)

(* A thread takes the first job: process() of the sink, or run_file_io's.   *)
TakeJob(t) ==
  /\ thread[t].at = "wait" /\ io_jobs # <<>>
  /\ io_jobs' = Tail(io_jobs)
  /\ thread' = [thread EXCEPT ![t] = IF Head(io_jobs) = "process" THEN Process
                                     ELSE [at |-> "io", for |-> Head(io_jobs), then |-> "wait"]]
  /\ UNCHANGED <<user, on, action, pending, worker_running, good, file, wrote, loop, exiting,
                 io_faults>>

(* The coroutine u is resumed on thread t, and then comes next.             *)
ResumesHere(t, u, next) ==
  /\ user' = [user EXCEPT ![u] = "run"] /\ on' = [on EXCEPT ![u] = t]
  /\ thread' = [thread EXCEPT ![t] = [at |-> "host", for |-> u, then |-> next]]

(* The operation of run_file_io, which may throw, and the continuation.     *)
ExecuteIo(t) ==
  /\ thread[t].at = "io" /\ ResumesHere(t, thread[t].for, "wait")
  /\ UNCHANGED <<action, pending, worker_running, good, file, wrote, io_jobs, loop, exiting,
                 io_faults>>

(* Mutant: gives up on an empty queue and still counts as running.          *)
QuitKeepsRunning == worker_running' = TRUE

Quit == worker_running' = FALSE

(* process() takes the next action, or gives up under the same mutex.       *)
TakeAction(t) ==
  /\ thread[t].at = "process"
  /\ \/ /\ pending = <<>> /\ Quit /\ thread' = [thread EXCEPT ![t] = Waits]
        /\ UNCHANGED pending
     \/ /\ pending # <<>> /\ pending' = Tail(pending) /\ UNCHANGED worker_running
        /\ thread' = [thread EXCEPT ![t] = [at |-> "act", for |-> Head(pending), then |-> "wait"]]
  /\ UNCHANGED <<user, on, action, good, file, wrote, io_jobs, loop, exiting, io_faults>>

(* What an action does to the file: a stream that has failed stays so and   *)
(* takes no more writes; sync() may fail beside it, which changes nothing.  *)
Applies(u) ==
  LET op == action[u].op
  IN  \/ op = "write" /\ good /\ file' = Append(file, <<u, action[u].made>>)
         /\ UNCHANGED <<good, io_faults>>
      \/ (op # "write" \/ ~good) /\ UNCHANGED <<good, file, io_faults>>
      \/ good /\ IoFault /\ good' = FALSE /\ UNCHANGED file

(* The action and complete().                                               *)
Act(t) ==
  LET u == thread[t].for
  IN  /\ thread[t].at = "act" /\ Applies(u)
      /\ \/ u \in PlainUsers /\ ResumesHere(t, u, "process")
         \/ /\ u \in LoopUsers /\ user' = [user EXCEPT ![u] = "sent"]
            /\ thread' = [thread EXCEPT ![t] = Process] /\ UNCHANGED on
      /\ UNCHANGED <<action, pending, worker_running, wrote, io_jobs, loop, exiting>>

(* ~FileIoPool at the end of the process: its threads leave when there is   *)
(* nothing left to do.                                                      *)
StopPool ==
  /\ ~exiting /\ exiting' = TRUE
  /\ \A u \in Users : user[u] = "over" \/ (u \in PlainUsers /\ (user[u] = "wait" \/ on[u] # "own"))
                                       \/ (u \in LoopUsers /\ loop = "gone")
  /\ UNCHANGED <<user, on, action, pending, worker_running, good, file, wrote, io_jobs, thread,
                 loop, io_faults>>

MayExit == exiting /\ io_jobs = <<>>

ThreadExits(t) ==
  /\ thread[t].at = "wait" /\ MayExit
  /\ thread' = [thread EXCEPT ![t].at = "exit"]
  /\ UNCHANGED <<user, on, action, pending, worker_running, good, file, wrote, io_jobs, loop,
                 exiting, io_faults>>

-----------------------------------------------------------------------------
(* The loop                                                                 *)

Held == UNCHANGED <<on, action, pending, worker_running, good, file, wrote, io_jobs, thread,
                    exiting, io_faults>>

(* The async callback closes its handle, and the close callback resumes.    *)
AsyncCallback(u) ==
  user[u] = "sent" /\ user' = [user EXCEPT ![u] = "closing"] /\ Held /\ UNCHANGED loop
AsyncClosed(u) ==
  user[u] = "closing" /\ user' = [user EXCEPT ![u] = "run"] /\ Held /\ UNCHANGED loop

(* libuv: the work is done, also if the operation threw.                    *)
UvWorkDone(u) ==
  user[u] = "uvwork" /\ user' = [user EXCEPT ![u] = "run"] /\ Held /\ UNCHANGED loop

(* Runtime::stop, and the end of uv_run: a referenced handle or request     *)
(* keeps the loop going.                                                    *)
StopLoop == loop = "running" /\ loop' = "stopping" /\ Held /\ UNCHANGED user

HoldsLoop == {"wait", "sent", "closing", "uvwork"}
LoopEnds ==
  /\ loop = "stopping" /\ \A u \in LoopUsers : user[u] \notin HoldsLoop
  /\ loop' = "gone" /\ Held /\ UNCHANGED user

-----------------------------------------------------------------------------
Operates(u) == \/ \E op \in SinkOps : Submit(u, op) \/ SubmitThrows(u, op)
               \/ \E op \in SinkOps \cup {"io"} : NoHandle(u, op)
               \/ RunFileIo(u)
ThreadWorks(t) == TakeJob(t) \/ ExecuteIo(t) \/ TakeAction(t) \/ Act(t) \/ ThreadExits(t)
LoopTurns(u) == loop # "gone" /\ (AsyncCallback(u) \/ AsyncClosed(u) \/ UvWorkDone(u))

SinkNext == \/ \E u \in Users : Operates(u) \/ Finishes(u) \/ LoopTurns(u)
            \/ \E t \in PoolThreads : ThreadWorks(t)
            \/ StopPool \/ StopLoop \/ LoopEnds

SinkSpec == SinkInit /\ [][SinkNext]_sinkVars

(* The threads of the pool are scheduled, the loop turns, and a coroutine   *)
(* that runs on either does not keep it for ever.                           *)
SinkFairness == /\ \A t \in PoolThreads : WF_sinkVars(ThreadWorks(t))
                /\ \A u \in Users : WF_sinkVars(LoopTurns(u)) /\ WF_sinkVars(Finishes(u))

-----------------------------------------------------------------------------
InSink(t) ==
  thread[t].at \in {"process", "act"} \/ (thread[t].at = "host" /\ thread[t].then = "process")

(* One thread at a time is in process(), and the writes the file has are    *)
(* the first of those queued, in the order in which they were, whoever      *)
(* queued them: a write that failed is not followed by one that succeeds.   *)
FileInOrder ==
  /\ IsPrefix(file, wrote)
  /\ \A s, t \in PoolThreads : InSink(s) /\ InSink(t) => s = t

(* A coroutine that waits for the disk is resumed: an action queued while   *)
(* process() gives up is not left behind, one that completes while the      *)
(* Runtime stops or the process ends still finds its loop and its thread.   *)
ActionsEnd ==
  \A u \in Users : user[u] \notin {"run", "over"} ~> user[u] \in {"run", "over"}
=============================================================================

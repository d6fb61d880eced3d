------------------------------ MODULE TaskChain ------------------------------
(***************************************************************************)
(* Task<T> and its TaskState (src/include/chhttp/chhttp.hpp): the result   *)
(* of a coroutine handed to its one consumer through the atomic word       *)
(* "handoff", with the state inside the coroutine frame and the frame kept *)
(* alive by two references.                                                *)
(*                                                                         *)
(* A chain of coroutines 1..Depth, each awaiting the next, is started by   *)
(* the consumer 0 on the user thread, which then blocks in Task::get(),    *)
(* drops the Task, or co_awaits it from a detached coroutine.  Any         *)
(* coroutine may move to the loop thread (resume_on), so a task completes  *)
(* on one thread while its consumer registers on the other.  Only the      *)
(* coroutine on top of a thread's call stack runs.                         *)
(***************************************************************************)
EXTENDS Naturals, Sequences

CONSTANTS
  Depth,      \* length of the chain of tasks
  User, Loop  \* the two threads

ASSUME ChainAssumption == Depth \in Nat \ {0} /\ User # Loop

Threads == {User, Loop}
Tasks   == 1..Depth
Actors  == 0..Depth

VARIABLES
  stack,    \* each thread's call stack of actors, the running one last
  queue,    \* coroutines posted to the loop by resume_on
  at,       \* where each actor stands
  handoff,  \* TaskState::handoff
  refs,     \* TaskState::references
  frame,    \* the coroutine frame that hosts the state
  value,    \* TaskState::value or exception is set
  block,    \* TaskState::block is allocated
  mutex,    \* the blocking waiter holds Block::mutex
  drops     \* history: how often each task's frame has been destroyed

chainVars == <<stack, queue, at, handoff, refs, frame, value, block, mutex, drops>>

Words == {"unclaimed", "completed", "parked", "registered"}
Body  == {"unborn", "run", "posted", "awaitReady", "awaitSuspend", "suspended",
          "consume", "releaseChild", "publish", "notify", "release", "final"}
Main  == {"start", "have", "load", "alloc", "cas", "lock", "check", "enter",
          "cvwait", "end"}

(* The word, the counter, the flags and the call stacks are well formed.    *)
ChainTypeOK ==
  /\ stack \in [Threads -> Seq(Actors)] /\ queue \in Seq(Actors)
  /\ at \in [Actors -> Body \cup Main]
  /\ handoff \in [Tasks -> Words] /\ refs \in [Tasks -> 0..2]
  /\ frame \in [Tasks -> {"unborn", "live", "freed"}]
  /\ value \in [Tasks -> BOOLEAN] /\ block \in [Tasks -> BOOLEAN]
  /\ mutex \in BOOLEAN /\ drops \in [Tasks -> 0..2]

ChainInit ==
  /\ stack = [t \in Threads |-> IF t = User THEN <<0>> ELSE <<>>]
  /\ queue = <<>>
  /\ at = [k \in Actors |-> IF k = 0 THEN "start" ELSE "unborn"]
  /\ handoff = [k \in Tasks |-> "unclaimed"]
  /\ refs = [k \in Tasks |-> 0]
  /\ frame = [k \in Tasks |-> "unborn"]
  /\ value = [k \in Tasks |-> FALSE]
  /\ block = [k \in Tasks |-> FALSE]
  /\ mutex = FALSE
  /\ drops = [k \in Tasks |-> 0]

-----------------------------------------------------------------------------
(* Actor k is the one running on thread t.                                  *)
Runs(t, k) == stack[t] # <<>> /\ stack[t][Len(stack[t])] = k

Push(t, k) == stack' = [stack EXCEPT ![t] = Append(@, k)]
Pop(t)     == stack' = [stack EXCEPT ![t] = SubSeq(@, 1, Len(@) - 1)]
Goto(k, p) == at' = [at EXCEPT ![k] = p]

(* TaskState::done.                                                         *)
Done(k) == handoff[k] = "completed"

(* Mutant: the value before the decrement is taken for the one after it.    *)
AfterDecrement(k) == refs[k] = 0 /\ Done(k)

(* release_task_state: this was the last reference of a completed task.     *)
LastReference(k) == refs[k] = 1 /\ Done(k)

(* Drop a reference; with the last one the frame goes, by destroy() or by   *)
(* returning from the final suspend point.                                  *)
Release(k) ==
  /\ refs' = [refs EXCEPT ![k] = @ - 1]
  /\ IF LastReference(k)
     THEN /\ frame' = [frame EXCEPT ![k] = "freed"]
          /\ drops' = [drops EXCEPT ![k] = @ + 1]
     ELSE UNCHANGED <<frame, drops>>

(* TaskState::references: the Task and the running coroutine.               *)
InitialReferences == 2

(* Calling a coroutine: a frame with two references that runs at once       *)
(* (initial_suspend never suspends) on the caller's thread.                 *)
Call(t, k) ==
  /\ Runs(t, k - 1)
  /\ \/ k = 1 /\ at[0] = "start" /\ at' = [at EXCEPT ![0] = "have", ![k] = "run"]
     \/ /\ k > 1 /\ at[k - 1] = "run" /\ frame[k] = "unborn"
        /\ at' = [at EXCEPT ![k - 1] = "awaitReady", ![k] = "run"]
  /\ frame' = [frame EXCEPT ![k] = "live"]
  /\ refs' = [refs EXCEPT ![k] = InitialReferences]
  /\ Push(t, k)
  /\ UNCHANGED <<queue, handoff, value, block, mutex, drops>>

(* Mutant: posts the coroutine and lets it go on running.                   *)
HopKeepsRunning(t, k) ==
  /\ Runs(t, k) /\ at[k] = "run" /\ t # Loop
  /\ queue' = Append(queue, k)
  /\ UNCHANGED <<stack, at, handoff, refs, frame, value, block, mutex, drops>>

(* co_await resume_on(runtime): off the loop the coroutine is posted.       *)
Hop(t, k) ==
  /\ Runs(t, k) /\ at[k] = "run" /\ t # Loop
  /\ queue' = Append(queue, k)
  /\ Goto(k, "posted") /\ Pop(t)
  /\ UNCHANGED <<handoff, refs, frame, value, block, mutex, drops>>

(* The loop runs the next posted callback.                                  *)
Drain ==
  /\ stack[Loop] = <<>> /\ queue # <<>>
  /\ queue' = Tail(queue)
  /\ Goto(Head(queue), "run") /\ Push(Loop, Head(queue))
  /\ UNCHANGED <<handoff, refs, frame, value, block, mutex, drops>>

(* return_value or unhandled_exception: the result is in the frame.         *)
Return(t, k) ==
  /\ Runs(t, k) /\ at[k] = "run"
  /\ value' = [value EXCEPT ![k] = TRUE]
  /\ Goto(k, "publish")
  /\ UNCHANGED <<stack, queue, handoff, refs, frame, block, mutex, drops>>

(* Awaiter::await_ready on task k + 1.                                      *)
AwaitReady(t, k) ==
  /\ Runs(t, k) /\ at[k] = "awaitReady"
  /\ Goto(k, IF Done(k + 1) THEN "consume" ELSE "awaitSuspend")
  /\ UNCHANGED <<stack, queue, handoff, refs, frame, value, block, mutex, drops>>

(* TaskState::suspend: compare-exchange the continuation into the word; a   *)
(* task completed meanwhile is consumed without suspending.                 *)
AwaitSuspend(t, k) ==
  /\ Runs(t, k) /\ at[k] = "awaitSuspend"
  /\ \/ /\ handoff[k + 1] = "unclaimed"
        /\ handoff' = [handoff EXCEPT ![k + 1] = "registered"]
        /\ Goto(k, "suspended") /\ Pop(t)
     \/ /\ handoff[k + 1] = "completed" /\ Goto(k, "consume")
        /\ UNCHANGED <<handoff, stack>>
  /\ UNCHANGED <<queue, refs, frame, value, block, mutex, drops>>

(* await_resume or get(): the result moves out of the state ...             *)
Consume(t, k) ==
  /\ Runs(t, k) /\ at[k] = "consume"
  /\ value' = [value EXCEPT ![k + 1] = FALSE]
  /\ Goto(k, "releaseChild")
  /\ UNCHANGED <<stack, queue, handoff, refs, frame, block, mutex, drops>>

(* ... and then the consumer's reference is dropped.                        *)
ReleaseChild(t, k) ==
  /\ Runs(t, k) /\ at[k] = "releaseChild"
  /\ Release(k + 1)
  /\ \/ k # 0 /\ Goto(k, "run") /\ UNCHANGED stack
     \/ k = 0 /\ Goto(k, "end") /\ Pop(t)
  /\ UNCHANGED <<queue, handoff, value, block, mutex>>

(* TaskState::publish: exchange the word, and resume a registered consumer  *)
(* inside this call.                                                        *)
Publish(t, k) ==
  /\ Runs(t, k) /\ at[k] = "publish"
  /\ handoff' = [handoff EXCEPT ![k] = "completed"]
  /\ \/ /\ handoff[k] = "registered" /\ Push(t, k - 1)
        /\ at' = [at EXCEPT ![k] = "release", ![k - 1] = "consume"]
     \/ handoff[k] = "parked" /\ Goto(k, "notify") /\ UNCHANGED stack
     \/ handoff[k] = "unclaimed" /\ Goto(k, "release") /\ UNCHANGED stack
  /\ UNCHANGED <<queue, refs, frame, value, block, mutex, drops>>

(* Mutant: notifies without taking Block::mutex.                            *)
NotifyUnlocked(t, k) ==
  /\ Runs(t, k) /\ at[k] = "notify"
  /\ at' = [at EXCEPT ![k] = "release", ![0] = IF @ = "cvwait" THEN "lock" ELSE @]
  /\ UNCHANGED <<stack, queue, handoff, refs, frame, value, block, mutex, drops>>

(* publish() takes Block::mutex and notifies the parked thread.             *)
Notify(t, k) ==
  /\ Runs(t, k) /\ at[k] = "notify" /\ ~mutex
  /\ at' = [at EXCEPT ![k] = "release", ![0] = IF @ = "cvwait" THEN "lock" ELSE @]
  /\ UNCHANGED <<stack, queue, handoff, refs, frame, value, block, mutex, drops>>

(* TaskFinalAwaiter: the coroutine drops its own reference.                 *)
FinalSuspend(t, k) ==
  /\ Runs(t, k) /\ at[k] = "release"
  /\ Release(k)
  /\ Goto(k, "final") /\ Pop(t)
  /\ UNCHANGED <<queue, handoff, value, block, mutex>>

-----------------------------------------------------------------------------
(* The consumer of task 1: get(), ~Task, or detach_task.                    *)

Get == /\ Runs(User, 0) /\ at[0] = "have" /\ Goto(0, "load")
       /\ UNCHANGED <<stack, queue, handoff, refs, frame, value, block, mutex, drops>>

Detach == /\ Runs(User, 0) /\ at[0] = "have" /\ Goto(0, "awaitReady")
          /\ UNCHANGED <<stack, queue, handoff, refs, frame, value, block, mutex, drops>>

(* ~Task of a task nobody waits for.                                        *)
Abandon ==
  /\ Runs(User, 0) /\ at[0] = "have"
  /\ Release(1)
  /\ Goto(0, "end") /\ Pop(User)
  /\ UNCHANGED <<queue, handoff, value, block, mutex>>

(* TaskState::wait, step by step.  Load the word.                           *)
WaitLoad ==
  /\ at[0] = "load"
  /\ Goto(0, IF Done(1) THEN "consume" ELSE "alloc")
  /\ UNCHANGED <<stack, queue, handoff, refs, frame, value, block, mutex, drops>>

(* Create the block before "parked" can be seen.                            *)
WaitAlloc ==
  /\ at[0] = "alloc"
  /\ block' = [block EXCEPT ![1] = TRUE]
  /\ Goto(0, "cas")
  /\ UNCHANGED <<stack, queue, handoff, refs, frame, value, mutex, drops>>

(* Compare-exchange "parked" into the word.  A success leaves the expected  *)
(* value in current, so the exchange is tried again and then fails.         *)
WaitCas ==
  /\ at[0] = "cas"
  /\ \/ /\ handoff[1] = "unclaimed"
        /\ handoff' = [handoff EXCEPT ![1] = "parked"] /\ UNCHANGED at
     \/ handoff[1] = "parked" /\ Goto(0, "lock") /\ UNCHANGED handoff
     \/ handoff[1] = "completed" /\ Goto(0, "consume") /\ UNCHANGED handoff
  /\ UNCHANGED <<stack, queue, refs, frame, value, block, mutex, drops>>

WaitLock ==
  /\ at[0] = "lock" /\ ~mutex
  /\ mutex' = TRUE /\ Goto(0, "check")
  /\ UNCHANGED <<stack, queue, handoff, refs, frame, value, block, drops>>

(* The predicate of cv.wait, under the mutex.                               *)
WaitCheck ==
  /\ at[0] = "check"
  /\ \/ Done(1) /\ Goto(0, "consume") /\ mutex' = FALSE
     \/ ~Done(1) /\ Goto(0, "enter") /\ UNCHANGED mutex
  /\ UNCHANGED <<stack, queue, handoff, refs, frame, value, block, drops>>

(* cv.wait releases the mutex and sleeps, in one step.                      *)
WaitEnter ==
  /\ at[0] = "enter"
  /\ mutex' = FALSE /\ Goto(0, "cvwait")
  /\ UNCHANGED <<stack, queue, handoff, refs, frame, value, block, drops>>

(* A condition variable may wake spuriously.                                *)
SpuriousWake ==
  /\ at[0] = "cvwait" /\ Goto(0, "lock")
  /\ UNCHANGED <<stack, queue, handoff, refs, frame, value, block, mutex, drops>>

Over == /\ stack = [t \in Threads |-> <<>>] /\ queue = <<>>
        /\ at[0] = "end" /\ UNCHANGED chainVars

-----------------------------------------------------------------------------
WaitStep == WaitLoad \/ WaitAlloc \/ WaitCas \/ WaitLock \/ WaitCheck \/ WaitEnter

ThreadStep(t) ==
  \/ \E k \in Tasks : \/ Call(t, k) \/ Hop(t, k) \/ Return(t, k) \/ Publish(t, k)
                      \/ Notify(t, k) \/ FinalSuspend(t, k)
  \/ \E k \in 0..(Depth - 1) : \/ AwaitReady(t, k) \/ AwaitSuspend(t, k)
                               \/ Consume(t, k) \/ ReleaseChild(t, k)

UserStep == Get \/ Detach \/ Abandon \/ WaitStep

ChainNext == \/ \E t \in Threads : ThreadStep(t)
        \/ Drain \/ UserStep \/ SpuriousWake \/ Over

ChainSpec == ChainInit /\ [][ChainNext]_chainVars

(* Both threads are scheduled; spurious wakeups are not counted on.         *)
ChainFairness == /\ WF_chainVars(Drain) /\ WF_chainVars(UserStep)
                 /\ \A t \in Threads : WF_chainVars(ThreadStep(t))

-----------------------------------------------------------------------------
(* Who may still touch the state of task k: the coroutine itself until its  *)
(* final suspend, and its consumer until it drops its reference.            *)
ProducerLive(k) == at[k] \notin {"unborn", "final"}
ConsumerLive(k) ==
  at[k - 1] \in IF k = 1
                THEN {"have", "awaitReady", "awaitSuspend", "suspended", "consume",
                      "releaseChild", "load", "alloc", "cas", "lock", "check",
                      "enter", "cvwait"}
                ELSE {"awaitReady", "awaitSuspend", "suspended", "consume", "releaseChild"}

(* The frame outlives every access: it is not destroyed while the coroutine *)
(* or its consumer can touch it, although publish() resumes or wakes the    *)
(* consumer before the coroutine has dropped its own reference.  References *)
(* are exactly the parties left, and the frame goes with the last one,      *)
(* once, also when both let go at the same time.                            *)
FrameLifetime ==
  \A k \in Tasks :
    /\ ProducerLive(k) \/ ConsumerLive(k) => frame[k] = "live"
    /\ frame[k] # "unborn" =>
         refs[k] = (IF ProducerLive(k) THEN 1 ELSE 0) + (IF ConsumerLive(k) THEN 1 ELSE 0)
    /\ drops[k] = IF frame[k] # "unborn" /\ refs[k] = 0 THEN 1 ELSE 0

(* A coroutine is resumed at most once per suspension: it never runs on two *)
(* stacks, twice on one, or while it is still queued for the loop.          *)
Places(k) == {<<"queue", i>> : i \in {j \in DOMAIN queue : queue[j] = k}} \cup
             UNION {{<<t, i>> : i \in {j \in DOMAIN stack[t] : stack[t][j] = k}} : t \in Threads}
ResumedOnce ==
  \A k \in Actors : \A p, q \in Places(k) : p = q

(* get(), an awaiting coroutine and an abandoned task all come to an end    *)
(* with every frame destroyed: no wakeup is lost between the predicate and  *)
(* the sleep, nor between await_ready and await_suspend.                    *)
ChainEnds == <>[](at[0] = "end" /\ \A k \in Tasks : frame[k] \in {"unborn", "freed"})
=============================================================================

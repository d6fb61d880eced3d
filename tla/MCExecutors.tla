----------------------------- MODULE MCExecutors -----------------------------
(* The three places where the library hands work from thread to thread.     *)
(* They share no state: in a behaviour one of them has work to do and the   *)
(* other two have come to an end.                                           *)
EXTENDS TaskChain, WorkerPool, FileSink

ChainIdle ==
  /\ stack = [t \in Threads |-> <<>>] /\ queue = <<>>
  /\ at = [k \in Actors |-> IF k = 0 THEN "end" ELSE "unborn"]
  /\ handoff = [k \in Tasks |-> "unclaimed"] /\ refs = [k \in Tasks |-> 0]
  /\ frame = [k \in Tasks |-> "unborn"] /\ value = [k \in Tasks |-> FALSE]
  /\ block = [k \in Tasks |-> FALSE] /\ mutex = FALSE /\ drops = [k \in Tasks |-> 0]

PoolIdle ==
  /\ worker = [w \in Workers |-> "exit"] /\ job = [w \in Workers |-> NoJob]
  /\ pool_mutex = NoWorker /\ pool_queue = <<>> /\ sleeping = 0 /\ stopping = TRUE
  /\ producer = "idle" /\ destructor = "gone" /\ done = {}

SinkIdle ==
  /\ user = [u \in Users |-> "over"] /\ on = [u \in Users |-> "own"]
  /\ action = [u \in Users |-> [op |-> "none", made |-> 0]]
  /\ pending = <<>> /\ worker_running = FALSE /\ good = TRUE /\ file = <<>> /\ wrote = <<>>
  /\ io_jobs = <<>> /\ thread = [t \in PoolThreads |-> [Waits EXCEPT !.at = "exit"]]
  /\ loop = "gone" /\ exiting = TRUE /\ io_faults = 0

Init == \/ ChainInit /\ PoolIdle /\ SinkIdle
        \/ ChainIdle /\ PoolInit /\ SinkIdle
        \/ ChainIdle /\ PoolIdle /\ SinkInit

Next == \/ ChainNext /\ UNCHANGED <<poolVars, sinkVars>>
        \/ PoolNext /\ UNCHANGED <<chainVars, sinkVars>>
        \/ SinkNext /\ UNCHANGED <<chainVars, poolVars>>

Spec == /\ Init /\ [][Next]_<<chainVars, poolVars, sinkVars>>
        /\ ChainFairness /\ PoolFairness /\ SinkFairness
=============================================================================

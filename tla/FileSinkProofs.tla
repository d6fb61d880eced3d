--------------------------- MODULE FileSinkProofs ---------------------------
(***************************************************************************)
(* Proofs about FileSink, for any number of pool threads, coroutines and   *)
(* operations: one thread at a time is inside process(), and the file is a *)
(* prefix of what was queued, in that order.                               *)
(***************************************************************************)
EXTENDS FileSink, TLAPS, SequenceTheorems

Stations == {"wait", "process", "io", "act", "host", "exit"}

Station == [at : Stations, for : Users \cup {"none"}, then : {"wait", "process"}]

ThreadTypes ==
  /\ thread \in [PoolThreads -> Station]
  /\ \A t \in PoolThreads : thread[t].at \in {"io", "act", "host"} => thread[t].for \in Users

SinkTypes ==
  /\ user \in [Users -> {"run", "wait", "sent", "closing", "uvwork", "over"}]
  /\ on \in [Users -> PoolThreads \cup {"own"}]
  /\ action \in [Users -> [op : SinkOps \cup {"io", "none"}, made : Nat]]
  /\ pending \in Seq(Users) /\ io_jobs \in Seq(Users \cup {"process"})
  /\ file \in Seq(Users \X Nat) /\ wrote \in Seq(Users \X Nat)
  /\ ThreadTypes

(* A coroutine that runs on a thread of the pool has that thread.           *)
Hosted == \A u \in Users : on[u] # "own" =>
            user[u] = "run" /\ thread[on[u]].at = "host" /\ thread[on[u]].for = u

(* process() is queued or at work at most once, and worker_running says so. *)
OneProcess ==
  /\ \A s, t \in PoolThreads : InSink(s) /\ InSink(t) => s = t
  /\ \A i \in DOMAIN io_jobs : io_jobs[i] = "process" =>
       worker_running /\ \A t \in PoolThreads : ~InSink(t)
  /\ \A t \in PoolThreads : InSink(t) => worker_running

(* A job of run_file_io is in the pool once, and its coroutine waits.       *)
IoOnce ==
  /\ \A i, k \in DOMAIN io_jobs : io_jobs[i] = io_jobs[k] => i = k
  /\ \A i \in DOMAIN io_jobs : io_jobs[i] \in Users =>
       user[io_jobs[i]] = "wait" /\ action[io_jobs[i]].op = "io"
  /\ \A t \in PoolThreads : thread[t].at = "io" =>
       /\ user[thread[t].for] = "wait" /\ action[thread[t].for].op = "io"
       /\ \A i \in DOMAIN io_jobs : io_jobs[i] # thread[t].for
       /\ \A s \in PoolThreads : thread[s].at = "io" /\ thread[s].for = thread[t].for => s = t

(* The line of actions: the one process() works on, then the queued ones.   *)
Acting(u) == \E t \in PoolThreads : thread[t].at = "act" /\ thread[t].for = u
Queued(u) == \E i \in DOMAIN pending : pending[i] = u
InLine(u) == Acting(u) \/ Queued(u)
Ahead(u, v) == \/ Acting(u) /\ Queued(v)
               \/ \E i, k \in DOMAIN pending : i < k /\ pending[i] = u /\ pending[k] = v

(* A coroutine is in it once, and waits.                                    *)
LineOnce ==
  /\ \A t \in PoolThreads : thread[t].at = "act" =>
       /\ user[thread[t].for] = "wait" /\ action[thread[t].for].op \in SinkOps
       /\ \A i \in DOMAIN pending : pending[i] # thread[t].for
  /\ \A i \in DOMAIN pending : user[pending[i]] = "wait" /\ action[pending[i]].op \in SinkOps
  /\ \A i, k \in DOMAIN pending : pending[i] = pending[k] => i = k

Stationed == SinkTypes /\ Hosted /\ OneProcess /\ IoOnce /\ LineOnce

(* A write in the line, and the entry the file is to have for it.           *)
Writing(u) == InLine(u) /\ action[u].op = "write"
Entry(u) == <<u, action[u].made>>

(* What was queued is old, and was queued once.                             *)
Known ==
  /\ \A k \in DOMAIN wrote : \A u \in Users, n \in Nat : wrote[k] = <<u, n>> =>
       user[u] = "over" \/ n <= action[u].made
  /\ \A k, l \in DOMAIN wrote : wrote[k] = wrote[l] => k = l

(* The file is a prefix of what was queued ...                              *)
Taken == Len(file) <= Len(wrote) /\ \A k \in 1..Len(file) : file[k] = wrote[k]

(* ... and, while the stream is good, the rest is the line: every write in  *)
(* it is owed, nothing else is, and the writes are owed in its order.       *)
Entries == \A u \in Users : Writing(u) =>
             \E k \in DOMAIN wrote : k > Len(file) /\ wrote[k] = Entry(u)
Cover == \A k \in DOMAIN wrote : k > Len(file) =>
           \E u \in Users : Writing(u) /\ wrote[k] = Entry(u)
InOrder == \A u, v \in Users : Writing(u) /\ Writing(v) /\ Ahead(u, v) =>
             \A k, l \in DOMAIN wrote : wrote[k] = Entry(u) /\ wrote[l] = Entry(v) => k < l
Owed == Entries /\ Cover /\ InOrder

Due == Known /\ Taken /\ (good => Owed)

SinkInv == Stationed /\ Due

USE DEF SinkOps, Stations, sinkVars

-----------------------------------------------------------------------------
(* A sequence that grew at its end, and one that lost its head.             *)
LEMMA Grown ==
  ASSUME NEW S, NEW q \in Seq(S), NEW e \in S
  PROVE  /\ Append(q, e) \in Seq(S) /\ Len(q) \in Nat /\ Len(Append(q, e)) = Len(q) + 1
         /\ DOMAIN q = 1..Len(q) /\ DOMAIN Append(q, e) = 1..(Len(q) + 1)
         /\ \A i \in 1..Len(q) : Append(q, e)[i] = q[i]
         /\ Append(q, e)[Len(q) + 1] = e
  BY AppendProperties, LenProperties

(* A sequence without its head.                                             *)
LEMMA Shrunk ==
  ASSUME NEW S, NEW q \in Seq(S), q # <<>>
  PROVE  /\ Head(q) \in S /\ Tail(q) \in Seq(S) /\ Len(q) \in Nat \ {0}
         /\ DOMAIN q = 1..Len(q) /\ DOMAIN Tail(q) = 1..(Len(q) - 1)
         /\ Head(q) = q[1] /\ 1 \in DOMAIN q
         /\ \A i \in DOMAIN Tail(q) :
              i \in Nat /\ i + 1 # 1 /\ i + 1 \in DOMAIN q /\ Tail(q)[i] = q[i + 1]
  BY HeadTailProperties, LenProperties

-----------------------------------------------------------------------------
(* A write as the file records it.                                          *)
LEMMA EntryType == ASSUME NEW u \in Users, NEW n \in Nat PROVE <<u, n>> \in Users \X Nat
  OBVIOUS

(* The records process() and the pool store for a thread.                   *)
LEMMA ThreadRecords ==
  /\ Waits = [at |-> "wait", for |-> "none", then |-> "wait"]
  /\ Process = [at |-> "process", for |-> "none", then |-> "wait"]
  /\ \A p : [Waits EXCEPT !.at = p] = [at |-> p, for |-> "none", then |-> "wait"]
<1>1. Waits = [at |-> "wait", for |-> "none", then |-> "wait"] BY DEF Waits
<1>2. \A p : [Waits EXCEPT !.at = p] = [at |-> p, for |-> "none", then |-> "wait"]
  BY <1>1
<1>. QED BY <1>1, <1>2 DEF Process

(* A thread of the pool that goes to another station.                       *)
LEMMA StationEffect ==
  ASSUME ThreadTypes, NEW t \in PoolThreads, NEW r \in Station,
         r.at \in {"io", "act", "host"} => r.for \in Users,
         thread' = [thread EXCEPT ![t] = r]
  PROVE  /\ ThreadTypes' /\ thread'[t] = r
         /\ \A s \in PoolThreads : s # t => thread'[s] = thread[s]
         /\ \A s \in PoolThreads : s # t => (InSink(s)' <=> InSink(s))
         /\ InSink(t)' <=> r.at \in {"process", "act"} \/ (r.at = "host" /\ r.then = "process")
<1>1. thread'[t] = r BY DEF ThreadTypes
<1>2. \A s \in PoolThreads : s # t => thread'[s] = thread[s] BY DEF ThreadTypes
<1>3. ThreadTypes' BY <1>1, <1>2 DEF ThreadTypes
<1>. QED BY <1>1, <1>2, <1>3 DEF InSink

(* What a step that gives thread and on new values may do to process() and  *)
(* to the jobs at work: nobody enters or leaves, and u runs elsewhere.      *)
Leaves(u) ==
  /\ on' = [on EXCEPT ![u] = "own"] /\ ThreadTypes'
  /\ \A t \in PoolThreads : t # on[u] => thread'[t] = thread[t]
  /\ \A t \in PoolThreads : InSink(t)' <=> InSink(t)
  /\ \A t \in PoolThreads : \A p \in {"io", "act"} :
       thread[t].at = p \/ thread'[t].at = p => thread'[t] = thread[t]

(* A coroutine that suspends gives its thread back to process() or to the   *)
(* pool.                                                                    *)
LEMMA SuspendEffect ==
  ASSUME SinkTypes, Hosted, NEW u \in Users, Suspends(u)
  PROVE  Leaves(u)
<1>0. on' = [on EXCEPT ![u] = "own"] /\ ThreadTypes /\ on[u] \in PoolThreads \cup {"own"}
  BY DEF SinkTypes, Suspends
<1>1. CASE on[u] = "own"
  <2>1. thread' = thread BY <1>1, SinkAssumption DEF SinkTypes, ThreadTypes, Suspends
  <2>. QED BY <1>0, <2>1 DEF Leaves, ThreadTypes, InSink
<1>2. CASE on[u] # "own"
  <2>1. PICK h \in PoolThreads : h = on[u] BY <1>0, <1>2
  <2> DEFINE p == thread[h].then
             r == [Waits EXCEPT !.at = p]
  <2>2. thread[h].at = "host" /\ p \in {"wait", "process"}
    BY <1>0, <1>2, <2>1 DEF Hosted, ThreadTypes, Station
  <2>3. thread' = [thread EXCEPT ![h] = r]
    BY <2>1 DEF SinkTypes, ThreadTypes, Suspends
  <2>4. r \in Station /\ r.at = p BY <2>2, ThreadRecords DEF Station
  <2> HIDE DEF r
  <2>5. /\ ThreadTypes' /\ \A t \in PoolThreads : t # h => thread'[t] = thread[t]
        /\ thread'[h].at = p
        /\ \A t \in PoolThreads : t # h => (InSink(t)' <=> InSink(t))
        /\ InSink(h)' <=> p = "process"
    BY <1>0, <2>2, <2>3, <2>4, StationEffect
  <2>6. InSink(h) <=> p = "process" BY <2>2 DEF InSink
  <2>7. \A t \in PoolThreads : InSink(t)' <=> InSink(t) BY <2>5, <2>6
  <2>8. \A t \in PoolThreads : \A q \in {"io", "act"} :
          thread[t].at = q \/ thread'[t].at = q => thread'[t] = thread[t]
    BY <2>2, <2>5
  <2>. QED BY <1>0, <2>1, <2>5, <2>7, <2>8 DEF Leaves
<1>. QED BY <1>1, <1>2

(* The other coroutines keep their threads.                                 *)
LEMMA LeavingHosts ==
  ASSUME SinkTypes, Hosted, NEW u \in Users, user[u] = "run", Leaves(u),
         \A v \in Users : v # u => user'[v] = user[v]
  PROVE  Hosted'
<1>1. SUFFICES ASSUME NEW v \in Users, on'[v] # "own"
               PROVE  /\ user'[v] = "run" /\ thread'[on'[v]].at = "host"
                      /\ thread'[on'[v]].for = v
  BY DEF Hosted
<1>2. v # u /\ on'[v] = on[v] /\ on[v] \in PoolThreads BY <1>1 DEF SinkTypes, Leaves
<1>3. on[v] # on[u] BY <1>1, <1>2 DEF Hosted
<1>4. thread'[on[v]] = thread[on[v]] BY <1>2, <1>3 DEF Leaves
<1>. QED BY <1>1, <1>2, <1>4 DEF Hosted

(* A thread that hosts nobody changes its station.                          *)
LEMMA StayHosted ==
  ASSUME SinkTypes, Hosted, NEW t \in PoolThreads, thread[t].at # "host",
         \A s \in PoolThreads : s # t => thread'[s] = thread[s],
         on' = on, \A u \in Users : user[u] = "run" => user'[u] = "run"
  PROVE  Hosted'
<1>1. SUFFICES ASSUME NEW v \in Users, on[v] # "own"
               PROVE  /\ user'[v] = "run" /\ thread'[on[v]].at = "host"
                      /\ thread'[on[v]].for = v
  BY DEF Hosted
<1>2. on[v] \in PoolThreads /\ on[v] # t BY <1>1 DEF SinkTypes, Hosted
<1>3. thread'[on[v]] = thread[on[v]] BY <1>2
<1>. QED BY <1>1, <1>3 DEF Hosted

(* A coroutine that waited for thread t is resumed on it.                   *)
LEMMA ResumeEffect ==
  ASSUME SinkTypes, Hosted, NEW t \in PoolThreads, NEW u \in Users,
         NEW n \in {"wait", "process"}, thread[t].at # "host", user[u] = "wait",
         ResumesHere(t, u, n)
  PROVE  /\ Hosted' /\ ThreadTypes' /\ user' = [user EXCEPT ![u] = "run"]
         /\ on' \in [Users -> PoolThreads \cup {"own"}]
         /\ thread'[t].at = "host" /\ \A s \in PoolThreads : s # t => thread'[s] = thread[s]
         /\ \A s \in PoolThreads : s # t => (InSink(s)' <=> InSink(s))
         /\ InSink(t)' <=> n = "process"
<1> DEFINE r == [at |-> "host", for |-> u, then |-> n]
<1>1. /\ user' = [user EXCEPT ![u] = "run"] /\ on' = [on EXCEPT ![u] = t]
      /\ thread' = [thread EXCEPT ![t] = r]
  BY DEF ResumesHere
<1>2. r \in Station /\ r.at = "host" /\ r.for = u /\ r.then = n BY DEF Station
<1> HIDE DEF r
<1>3. ThreadTypes BY DEF SinkTypes
<1>4. /\ ThreadTypes' /\ thread'[t] = r
      /\ \A s \in PoolThreads : s # t => thread'[s] = thread[s]
      /\ \A s \in PoolThreads : s # t => (InSink(s)' <=> InSink(s))
      /\ InSink(t)' <=> n = "process"
  BY <1>1, <1>2, <1>3, StationEffect
<1>5. ASSUME NEW v \in Users, on'[v] # "own"
      PROVE  user'[v] = "run" /\ thread'[on'[v]].at = "host" /\ thread'[on'[v]].for = v
  <2>1. CASE v = u
    <3>1. on'[v] = t /\ user'[v] = "run" BY <1>1, <2>1 DEF SinkTypes
    <3>. QED BY <1>2, <1>4, <2>1, <3>1
  <2>2. CASE v # u
    <3>1. on'[v] = on[v] /\ user'[v] = user[v] BY <1>1, <2>2 DEF SinkTypes
    <3>2. on[v] \in PoolThreads /\ on[v] # t BY <1>5, <3>1 DEF SinkTypes, Hosted
    <3>. QED BY <1>4, <1>5, <3>1, <3>2 DEF Hosted
  <2>. QED BY <2>1, <2>2
<1>6. Hosted' BY <1>5 DEF Hosted
<1>7. on' \in [Users -> PoolThreads \cup {"own"}] BY <1>1 DEF SinkTypes
<1>. QED BY <1>1, <1>2, <1>4, <1>6, <1>7

(* The jobs of run_file_io stay what they are, but for one more job e.      *)
LEMMA LeavingIo ==
  ASSUME ThreadTypes, IoOnce, NEW u \in Users, user[u] = "run", Leaves(u),
         \A v \in Users : v # u => user'[v] = user[v] /\ action'[v] = action[v], NEW e,
         \A i \in DOMAIN io_jobs' : \/ i \in DOMAIN io_jobs /\ io_jobs'[i] = io_jobs[i]
                                    \/ i = Len(io_jobs) + 1 /\ io_jobs'[i] = e,
         \A k \in DOMAIN io_jobs : io_jobs[k] # e,
         e \in Users => e = u /\ user'[u] = "wait" /\ action'[u].op = "io"
  PROVE  IoOnce'
<1>1. \A v \in Users : action[v].op = "io" /\ user[v] = "wait" =>
        v # u /\ action'[v] = action[v] /\ user'[v] = "wait"
  OBVIOUS
<1>2. \A i, k \in DOMAIN io_jobs' : io_jobs'[i] = io_jobs'[k] => i = k
  BY DEF IoOnce
<1>3. \A i \in DOMAIN io_jobs' : io_jobs'[i] \in Users =>
        user'[io_jobs'[i]] = "wait" /\ action'[io_jobs'[i]].op = "io"
  BY <1>1 DEF IoOnce
<1>4. ASSUME NEW t \in PoolThreads, thread'[t].at = "io"
      PROVE  /\ user'[thread'[t].for] = "wait" /\ action'[thread'[t].for].op = "io"
             /\ \A i \in DOMAIN io_jobs' : io_jobs'[i] # thread'[t].for
             /\ \A s \in PoolThreads :
                  thread'[s].at = "io" /\ thread'[s].for = thread'[t].for => s = t
  <2>1. thread'[t] = thread[t] /\ thread[t].at = "io" BY <1>4 DEF Leaves
  <2>2. thread[t].for \in Users BY <2>1 DEF ThreadTypes
  <2>3. \A s \in PoolThreads : thread'[s].at = "io" => thread'[s] = thread[s] BY DEF Leaves
  <2>4. thread[t].for # u BY <2>1 DEF IoOnce
  <2>. QED BY <1>1, <2>1, <2>2, <2>3, <2>4 DEF IoOnce
<1>. QED BY <1>2, <1>3, <1>4 DEF IoOnce

(* So does the line of actions, but for an action of u at its end.          *)
LEMMA LeavingLine ==
  ASSUME SinkTypes, ThreadTypes, LineOnce, NEW u \in Users, user[u] = "run", Leaves(u),
         \A v \in Users : v # u => user'[v] = user[v] /\ action'[v] = action[v],
         \/ pending' = pending
         \/ pending' = Append(pending, u) /\ user'[u] = "wait" /\ action'[u].op \in SinkOps
  PROVE  LineOnce'
<1>0. pending \in Seq(Users) BY DEF SinkTypes
<1>1. \A i \in DOMAIN pending : pending[i] \in Users /\ pending[i] # u
  BY <1>0 DEF LineOnce
<1>2. \A i \in DOMAIN pending' :
        \/ i \in DOMAIN pending /\ pending'[i] = pending[i]
        \/ i = Len(pending) + 1 /\ pending'[i] = u /\ user'[u] = "wait" /\ action'[u].op \in SinkOps
  BY <1>0, Grown
<1>3. ASSUME NEW t \in PoolThreads, thread'[t].at = "act"
      PROVE  /\ user'[thread'[t].for] = "wait" /\ action'[thread'[t].for].op \in SinkOps
             /\ \A i \in DOMAIN pending' : pending'[i] # thread'[t].for
  <2>1. thread'[t] = thread[t] /\ thread[t].at = "act" BY <1>3 DEF Leaves
  <2>2. thread[t].for \in Users /\ thread[t].for # u BY <2>1 DEF ThreadTypes, LineOnce
  <2>. QED BY <1>2, <2>1, <2>2 DEF LineOnce
<1>4. \A i \in DOMAIN pending' : user'[pending'[i]] = "wait" /\ action'[pending'[i]].op \in SinkOps
  BY <1>1, <1>2 DEF LineOnce
<1>5. \A i, k \in DOMAIN pending' : pending'[i] = pending'[k] => i = k
  BY <1>1, <1>2 DEF LineOnce
<1>. QED BY <1>3, <1>4, <1>5 DEF LineOnce

-----------------------------------------------------------------------------
(* Every step keeps one process() and every coroutine in one place.         *)
LEMMA StationedStep ==
  ASSUME Stationed, [SinkNext]_sinkVars
  PROVE  Stationed'
<1>0. SinkTypes /\ ThreadTypes /\ Hosted /\ OneProcess /\ IoOnce /\ LineOnce
  BY DEF Stationed, SinkTypes
<1>1. /\ pending \in Seq(Users) /\ io_jobs \in Seq(Users \cup {"process"})
      /\ wrote \in Seq(Users \X Nat) /\ file \in Seq(Users \X Nat)
      /\ \A u \in Users : action[u].made \in Nat
      /\ user \in [Users -> {"run", "wait", "sent", "closing", "uvwork", "over"}]
      /\ \A k \in DOMAIN io_jobs : io_jobs[k] # "none"
  <2>1. "none" \notin Users /\ io_jobs \in Seq(Users \cup {"process"})
    BY <1>0, SinkAssumption DEF SinkTypes
  <2>2. \A k \in DOMAIN io_jobs : io_jobs[k] # "none" BY <2>1
  <2>. QED BY <1>0, <2>2 DEF SinkTypes
<1> USE <1>0, SinkAssumption
<1>2. ASSUME NEW u \in Users, NEW op \in SinkOps, Submit(u, op) PROVE Stationed'
  <2>1. /\ user[u] = "run" /\ user' = [user EXCEPT ![u] = "wait"]
        /\ action' = [action EXCEPT ![u] = [op |-> op, made |-> action[u].made + 1]]
        /\ pending' = Append(pending, u) /\ worker_running' = TRUE
        /\ UNCHANGED <<good, file>>
    BY <1>2 DEF Submit, Starts, Running
  <2>2. \/ ~worker_running /\ io_jobs' = Append(io_jobs, "process")
        \/ worker_running /\ io_jobs' = io_jobs
    BY <1>2 DEF Submit, WorkerNeeded
  <2>3. \/ wrote' = wrote \/ wrote' = Append(wrote, <<u, action[u].made + 1>>)
    BY <1>2 DEF Submit
  <2>4. Leaves(u) BY <1>2, SuspendEffect DEF Submit
  <2>5. SinkTypes'
    <3>1. action[u].made + 1 \in Nat BY <1>1
    <3>2. <<u, action[u].made + 1>> \in Users \X Nat BY <3>1, EntryType
    <3>3. Append(wrote, <<u, action[u].made + 1>>) \in Seq(Users \X Nat)
      BY <1>1, <3>2, Grown
    <3>4. Append(io_jobs, "process") \in Seq(Users \cup {"process"}) BY <1>1
    <3>5. pending' \in Seq(Users) BY <1>1, <2>1
    <3>6. action' \in [Users -> [op : SinkOps \cup {"io", "none"}, made : Nat]]
      BY <2>1, <3>1 DEF SinkTypes
    <3>7. wrote' \in Seq(Users \X Nat) BY <1>1, <2>3, <3>3
    <3>8. io_jobs' \in Seq(Users \cup {"process"}) BY <1>1, <2>2, <3>4
    <3>. QED BY <2>1, <2>4, <3>5, <3>6, <3>7, <3>8 DEF SinkTypes, Leaves
  <2>6. \A v \in Users : v # u => user'[v] = user[v] /\ action'[v] = action[v]
    BY <2>1 DEF SinkTypes
  <2>7. user'[u] = "wait" /\ action'[u].op = op BY <2>1 DEF SinkTypes
  <2>8. Hosted' BY <2>1, <2>4, <2>6, LeavingHosts
  <2>9. LineOnce' BY <2>1, <2>4, <2>6, <2>7, LeavingLine
  <2>10. CASE ~worker_running /\ io_jobs' = Append(io_jobs, "process")
    <3>1. \A i \in DOMAIN io_jobs' : \/ i \in DOMAIN io_jobs /\ io_jobs'[i] = io_jobs[i]
                                     \/ i = Len(io_jobs) + 1 /\ io_jobs'[i] = "process"
      BY <1>1, <2>10
    <3>2. /\ \A t \in PoolThreads : ~InSink(t)'
          /\ \A k \in DOMAIN io_jobs : io_jobs[k] # "process"
      BY <2>4, <2>10 DEF OneProcess, Leaves
    <3>3. OneProcess' BY <2>1, <3>2 DEF OneProcess
    <3>4. IoOnce' BY <2>1, <2>4, <2>6, <3>1, <3>2, LeavingIo
    <3>. QED BY <2>5, <2>8, <2>9, <3>3, <3>4 DEF Stationed
  <2>11. CASE worker_running /\ io_jobs' = io_jobs
    <3>1. OneProcess' BY <2>1, <2>4, <2>11 DEF OneProcess, Leaves
    <3>2. \A k \in DOMAIN io_jobs : io_jobs[k] # "none" BY <1>1
    <3>3. IoOnce' BY <2>1, <2>4, <2>6, <2>11, <3>2, LeavingIo
    <3>. QED BY <2>5, <2>8, <2>9, <3>1, <3>3 DEF Stationed
  <2>. QED BY <2>2, <2>10, <2>11
<1>3. ASSUME NEW u \in Users, user[u] = "run", NEW op \in SinkOps \cup {"io", "none"},
             NEW n \in Nat, NEW p \in {"sent", "uvwork", "over"}, Suspends(u),
             user' = [user EXCEPT ![u] = p],
             action' = [action EXCEPT ![u] = [op |-> op, made |-> n]],
             UNCHANGED <<pending, worker_running, file, wrote, io_jobs>>
      PROVE  Stationed'
  <2>1. Leaves(u) BY <1>3, SuspendEffect
  <2>2. action' \in [Users -> [op : SinkOps \cup {"io", "none"}, made : Nat]]
    BY <1>3 DEF SinkTypes
  <2>3. SinkTypes' BY <1>3, <2>1, <2>2 DEF SinkTypes, Leaves
  <2>4. \A v \in Users : v # u => user'[v] = user[v] /\ action'[v] = action[v]
    BY <1>3 DEF SinkTypes
  <2>5. Hosted' BY <1>3, <2>1, <2>4, LeavingHosts
  <2>6. OneProcess' BY <1>3, <2>1 DEF OneProcess, Leaves
  <2>7. \A k \in DOMAIN io_jobs : io_jobs[k] # "none" BY <1>1
  <2>8. IoOnce' BY <1>3, <2>1, <2>4, <2>7, LeavingIo
  <2>9. LineOnce' BY <1>3, <2>1, <2>4, LeavingLine
  <2>. QED BY <2>3, <2>5, <2>6, <2>8, <2>9 DEF Stationed
<1>4. ASSUME NEW u \in Users, user[u] = "run", NEW op \in SinkOps \cup {"io"},
             action' = [action EXCEPT ![u] = [op |-> op, made |-> action[u].made + 1]],
             UNCHANGED <<user, on, thread, pending, worker_running, file, wrote, io_jobs>>
      PROVE  Stationed'
  <2>1. action[u].made + 1 \in Nat BY <1>1
  <2>2. action' \in [Users -> [op : SinkOps \cup {"io", "none"}, made : Nat]]
    BY <1>4, <2>1 DEF SinkTypes
  <2>3. SinkTypes' /\ ThreadTypes' BY <1>4, <2>2 DEF SinkTypes, ThreadTypes
  <2>4. \A v \in Users : user[v] = "wait" => action'[v] = action[v] BY <1>4 DEF SinkTypes
  <2>5. Hosted' /\ OneProcess' BY <1>4 DEF Hosted, OneProcess, InSink
  <2>6. IoOnce' BY <1>4, <2>4 DEF IoOnce, ThreadTypes
  <2>7. \A i \in DOMAIN pending : pending[i] \in Users BY <1>1
  <2>8. LineOnce' BY <1>4, <2>4, <2>7 DEF LineOnce, ThreadTypes
  <2>. QED BY <2>3, <2>5, <2>6, <2>8 DEF Stationed
<1>5. ASSUME NEW u \in Users, NEW op \in SinkOps, SubmitThrows(u, op) PROVE Stationed'
  <2>1. /\ user[u] = "run" /\ action[u].made + 1 \in Nat
        /\ action' = [action EXCEPT ![u] = [op |-> op, made |-> action[u].made + 1]]
        /\ UNCHANGED <<pending, worker_running, file, wrote, io_jobs>>
    BY <1>1, <1>5 DEF SubmitThrows, Starts, Running
  <2>2. CASE u \in LoopUsers
    <3>1. user' = [user EXCEPT ![u] = "sent"] /\ Suspends(u) BY <1>5, <2>2 DEF SubmitThrows
    <3>. QED BY <1>3, <2>1, <3>1
  <2>3. CASE u \notin LoopUsers
    <3>1. UNCHANGED <<user, on, thread>> BY <1>5, <2>3 DEF SubmitThrows, GoesOn
    <3>. QED BY <1>4, <2>1, <3>1
  <2>. QED BY <2>2, <2>3
<1>6. ASSUME NEW u \in Users, NEW op \in SinkOps \cup {"io"}, NoHandle(u, op) PROVE Stationed'
  <2>1. /\ user[u] = "run"
        /\ action' = [action EXCEPT ![u] = [op |-> op, made |-> action[u].made + 1]]
        /\ UNCHANGED <<user, on, thread, pending, worker_running, file, wrote, io_jobs>>
    BY <1>6 DEF NoHandle, GoesOn, Starts, Running
  <2>. QED BY <1>4, <2>1
<1>7. ASSUME NEW u \in Users, RunFileIo(u) PROVE Stationed'
  <2>1. /\ user[u] = "run" /\ action[u].made + 1 \in Nat /\ Suspends(u)
        /\ action' = [action EXCEPT ![u] = [op |-> "io", made |-> action[u].made + 1]]
        /\ UNCHANGED <<pending, worker_running, file, wrote>>
    BY <1>1, <1>7 DEF RunFileIo, Starts, Running
  <2>2. CASE u \in LoopUsers
    <3>1. user' = [user EXCEPT ![u] = "uvwork"] /\ UNCHANGED io_jobs BY <1>7, <2>2 DEF RunFileIo
    <3>. QED BY <1>3, <2>1, <3>1
  <2>3. CASE u \notin LoopUsers
    <3>1. user' = [user EXCEPT ![u] = "wait"] /\ io_jobs' = Append(io_jobs, u)
      BY <1>7, <2>3 DEF RunFileIo
    <3>2. Leaves(u) BY <2>1, SuspendEffect
    <3>3. action' \in [Users -> [op : SinkOps \cup {"io", "none"}, made : Nat]]
      BY <2>1 DEF SinkTypes
    <3>4. io_jobs' \in Seq(Users \cup {"process"}) BY <1>1, <3>1
    <3>5. SinkTypes' BY <2>1, <3>1, <3>2, <3>3, <3>4 DEF SinkTypes, Leaves
    <3>6. \A v \in Users : v # u => user'[v] = user[v] /\ action'[v] = action[v]
      BY <2>1, <3>1 DEF SinkTypes
    <3>7. user'[u] = "wait" /\ action'[u].op = "io" BY <2>1, <3>1 DEF SinkTypes
    <3>8. /\ \A i \in DOMAIN io_jobs' : \/ i \in DOMAIN io_jobs /\ io_jobs'[i] = io_jobs[i]
                                        \/ i = Len(io_jobs) + 1 /\ io_jobs'[i] = u
          /\ u # "process"
      BY <1>1, <3>1
    <3>9. \A k \in DOMAIN io_jobs : io_jobs[k] # u BY <2>1 DEF IoOnce
    <3>10. Hosted' BY <2>1, <3>2, <3>6, LeavingHosts
    <3>11. OneProcess' BY <2>1, <3>2, <3>8 DEF OneProcess, Leaves
    <3>12. IoOnce' BY <2>1, <3>2, <3>6, <3>7, <3>8, <3>9, LeavingIo
    <3>13. LineOnce' BY <2>1, <3>2, <3>6, LeavingLine
    <3>. QED BY <3>5, <3>10, <3>11, <3>12, <3>13 DEF Stationed
  <2>. QED BY <2>2, <2>3
<1>8. ASSUME NEW u \in Users, Finishes(u) PROVE Stationed'
  <2>1. /\ user[u] = "run" /\ user' = [user EXCEPT ![u] = "over"] /\ Suspends(u)
        /\ action' = [action EXCEPT ![u] = [op |-> "none", made |-> 0]]
        /\ UNCHANGED <<pending, worker_running, file, wrote, io_jobs>>
    BY <1>8 DEF Finishes, Running
  <2>. QED BY <1>3, <2>1
<1>9. ASSUME NEW t \in PoolThreads, TakeJob(t) PROVE Stationed'
  <2>1. /\ thread[t].at = "wait" /\ io_jobs # <<>> /\ io_jobs' = Tail(io_jobs)
        /\ UNCHANGED <<user, on, action, pending, worker_running, file, wrote>>
    BY <1>9 DEF TakeJob
  <2>2. /\ io_jobs' \in Seq(Users \cup {"process"}) /\ Len(io_jobs) \in Nat \ {0}
        /\ Head(io_jobs) = io_jobs[1] /\ 1 \in DOMAIN io_jobs
        /\ \A i \in DOMAIN io_jobs' :
             /\ i \in Nat /\ i + 1 # 1 /\ i + 1 \in DOMAIN io_jobs
             /\ io_jobs'[i] = io_jobs[i + 1]
    BY <1>1, <2>1, Shrunk
  <2>3. \A i, k \in DOMAIN io_jobs' : io_jobs'[i] = io_jobs'[k] => i = k
    BY <2>2 DEF IoOnce
  <2>4. \A i \in DOMAIN io_jobs' : io_jobs'[i] # io_jobs[1]
    BY <2>2 DEF IoOnce
  <2>5. \A i \in DOMAIN io_jobs' : \E k \in DOMAIN io_jobs : io_jobs'[i] = io_jobs[k]
    BY <2>2
  <2>6. ASSUME NEW r \in Station, r.at \in {"process", "io"}, thread' = [thread EXCEPT ![t] = r],
               r.at = "io" => r.for \in Users /\ r.for = io_jobs[1],
               r.at = "process" => io_jobs[1] = "process"
        PROVE  Stationed'
    <3>1. /\ ThreadTypes' /\ thread'[t] = r
          /\ \A s \in PoolThreads : s # t => thread'[s] = thread[s]
          /\ \A s \in PoolThreads : s # t => (InSink(s)' <=> InSink(s))
          /\ InSink(t)' <=> r.at = "process"
      BY <2>6, StationEffect
    <3>2. SinkTypes' BY <2>1, <2>2, <3>1 DEF SinkTypes
    <3>3. Hosted' BY <2>1, <3>1, StayHosted
    <3>4. OneProcess'
      <4>1. CASE r.at = "process"
        <5>1. worker_running /\ \A s \in PoolThreads : ~InSink(s)
          BY <2>2, <2>6, <4>1 DEF OneProcess
        <5>2. \A i \in DOMAIN io_jobs' : io_jobs'[i] # "process" BY <2>4, <2>6, <4>1
        <5>. QED BY <2>1, <3>1, <5>1, <5>2 DEF OneProcess
      <4>2. CASE r.at = "io"
        <5>1. \A s \in PoolThreads : InSink(s)' => InSink(s) BY <3>1, <4>2
        <5>. QED BY <2>1, <2>5, <5>1 DEF OneProcess
      <4>. QED BY <2>6, <4>1, <4>2
    <3>5. IoOnce'
      <4>1. \A i \in DOMAIN io_jobs' : io_jobs'[i] \in Users =>
              user[io_jobs'[i]] = "wait" /\ action[io_jobs'[i]].op = "io"
        BY <2>5 DEF IoOnce
      <4>2. \A s \in PoolThreads : s # t /\ thread[s].at = "io" =>
              /\ \A i \in DOMAIN io_jobs' : io_jobs'[i] # thread[s].for
              /\ thread[s].for # io_jobs[1]
        <5>1. \A s \in PoolThreads : thread[s].at = "io" =>
                \A k \in DOMAIN io_jobs : io_jobs[k] # thread[s].for
          BY DEF IoOnce
        <5>. QED BY <2>2, <2>5, <5>1
      <4>3. r.at = "io" => user[r.for] = "wait" /\ action[r.for].op = "io"
        BY <2>2, <2>6 DEF IoOnce
      <4>. QED BY <2>1, <2>3, <2>4, <2>6, <3>1, <4>1, <4>2, <4>3 DEF IoOnce
    <3>6. LineOnce' BY <2>1, <2>6, <3>1 DEF LineOnce
    <3>. QED BY <3>2, <3>3, <3>4, <3>5, <3>6 DEF Stationed
  <2>7. CASE io_jobs[1] = "process"
    <3>1. thread' = [thread EXCEPT ![t] = Process] BY <1>9, <2>2, <2>7 DEF TakeJob
    <3>2. Process \in Station /\ Process.at = "process" BY ThreadRecords DEF Station
    <3>. QED BY <2>6, <2>7, <3>1, <3>2
  <2>8. CASE io_jobs[1] # "process"
    <3> DEFINE r == [at |-> "io", for |-> io_jobs[1], then |-> "wait"]
    <3>1. thread' = [thread EXCEPT ![t] = r] BY <1>9, <2>2, <2>8 DEF TakeJob
    <3>2. io_jobs[1] \in Users BY <1>1, <2>2, <2>8
    <3>3. r \in Station /\ r.at = "io" /\ r.for = io_jobs[1] BY <3>2 DEF Station
    <3> HIDE DEF r
    <3>. QED BY <2>6, <3>1, <3>2, <3>3
  <2>. QED BY <2>7, <2>8
<1>10. ASSUME NEW t \in PoolThreads, ExecuteIo(t) PROVE Stationed'
  <2>1. /\ thread[t].at = "io" /\ ResumesHere(t, thread[t].for, "wait")
        /\ UNCHANGED <<action, pending, worker_running, file, wrote, io_jobs>>
    BY <1>10 DEF ExecuteIo
  <2>2. PICK u \in Users : u = thread[t].for BY <2>1 DEF ThreadTypes
  <2>3. user[u] = "wait" /\ action[u].op = "io" BY <2>1, <2>2 DEF IoOnce
  <2>4. /\ Hosted' /\ ThreadTypes' /\ user' = [user EXCEPT ![u] = "run"]
        /\ on' \in [Users -> PoolThreads \cup {"own"}]
        /\ thread'[t].at = "host" /\ \A s \in PoolThreads : s # t => thread'[s] = thread[s]
        /\ \A s \in PoolThreads : s # t => (InSink(s)' <=> InSink(s))
        /\ ~InSink(t)'
    BY <2>1, <2>2, <2>3, ResumeEffect
  <2>5. SinkTypes' BY <2>1, <2>4 DEF SinkTypes
  <2>6. OneProcess' BY <2>1, <2>4 DEF OneProcess
  <2>7. \A v \in Users : v # u => user'[v] = user[v] BY <2>4 DEF SinkTypes
  <2>8. IoOnce'
    <3>1. \A i \in DOMAIN io_jobs : io_jobs[i] # u BY <2>1, <2>2 DEF IoOnce
    <3>2. \A s \in PoolThreads : s # t /\ thread[s].at = "io" =>
            thread[s].for # u /\ thread[s].for \in Users
      BY <2>1, <2>2 DEF IoOnce, ThreadTypes
    <3>. QED BY <2>1, <2>4, <2>7, <3>1, <3>2 DEF IoOnce
  <2>9. LineOnce'
    <3>0. \A i \in DOMAIN pending : pending[i] # u BY <2>3 DEF LineOnce
    <3>1. \A i \in DOMAIN pending : pending[i] # u /\ pending[i] \in Users BY <1>1, <3>0
    <3>2. \A s \in PoolThreads : thread[s].at = "act" =>
            thread[s].for # u /\ thread[s].for \in Users
      BY <2>3 DEF LineOnce, ThreadTypes
    <3>. QED BY <2>1, <2>4, <2>7, <3>1, <3>2 DEF LineOnce
  <2>. QED BY <2>4, <2>5, <2>6, <2>8, <2>9 DEF Stationed
<1>11. ASSUME NEW t \in PoolThreads, TakeAction(t) PROVE Stationed'
  <2>1. /\ thread[t].at = "process" /\ UNCHANGED <<user, on, action, file, wrote, io_jobs>>
    BY <1>11 DEF TakeAction
  <2>2. InSink(t) BY <2>1 DEF InSink
  <2>3. CASE pending = <<>>
    <3>1. worker_running' = FALSE /\ thread' = [thread EXCEPT ![t] = Waits] /\ UNCHANGED pending
      BY <1>11, <2>3 DEF TakeAction, Quit
    <3>2. Waits \in Station /\ Waits.at = "wait" BY ThreadRecords DEF Station
    <3>3. /\ ThreadTypes' /\ thread'[t] = Waits
          /\ \A s \in PoolThreads : s # t => thread'[s] = thread[s]
          /\ \A s \in PoolThreads : s # t => (InSink(s)' <=> InSink(s))
          /\ ~InSink(t)'
      BY <3>1, <3>2, StationEffect
    <3>4. SinkTypes' BY <2>1, <3>1, <3>3 DEF SinkTypes
    <3>5. Hosted' BY <2>1, <3>3, StayHosted
    <3>6. /\ \A s \in PoolThreads : ~InSink(s)'
          /\ \A i \in DOMAIN io_jobs : io_jobs[i] # "process"
      BY <2>2, <3>3 DEF OneProcess
    <3>7. OneProcess' BY <2>1, <3>6 DEF OneProcess
    <3>8. IoOnce' BY <2>1, <3>2, <3>3 DEF IoOnce
    <3>9. LineOnce' BY <2>1, <3>1, <3>2, <3>3 DEF LineOnce
    <3>. QED BY <3>4, <3>5, <3>7, <3>8, <3>9 DEF Stationed
  <2>4. CASE pending # <<>>
    <3>0. pending' = Tail(pending) BY <1>11, <2>4 DEF TakeAction
    <3>1. /\ pending' \in Seq(Users) /\ Head(pending) = pending[1] /\ pending[1] \in Users
          /\ 1 \in DOMAIN pending /\ \A i \in DOMAIN pending' :
               /\ i \in Nat /\ i + 1 # 1 /\ i + 1 \in DOMAIN pending
               /\ pending'[i] = pending[i + 1]
      BY <1>1, <2>4, <3>0, Shrunk
    <3> DEFINE r == [at |-> "act", for |-> pending[1], then |-> "wait"]
    <3>2. thread' = [thread EXCEPT ![t] = r] /\ UNCHANGED worker_running
      BY <1>11, <2>4, <3>1 DEF TakeAction
    <3>3. r \in Station /\ r.at = "act" /\ r.for = pending[1] BY <3>1 DEF Station
    <3> HIDE DEF r
    <3>4. /\ ThreadTypes' /\ thread'[t] = r
          /\ \A s \in PoolThreads : s # t => thread'[s] = thread[s]
          /\ \A s \in PoolThreads : s # t => (InSink(s)' <=> InSink(s))
          /\ InSink(t)'
      BY <3>1, <3>2, <3>3, StationEffect
    <3>5. SinkTypes' BY <2>1, <3>1, <3>4 DEF SinkTypes
    <3>6. Hosted' BY <2>1, <3>4, StayHosted
    <3>7. \A s \in PoolThreads : InSink(s)' <=> InSink(s) BY <2>2, <3>4
    <3>8. OneProcess' BY <2>1, <3>2, <3>7 DEF OneProcess
    <3>9. IoOnce' BY <2>1, <3>3, <3>4 DEF IoOnce
    <3>10. LineOnce'
      <4>1. \A i, k \in DOMAIN pending' : pending'[i] = pending'[k] => i = k
        BY <3>1 DEF LineOnce
      <4>2. \A i \in DOMAIN pending' : pending'[i] # pending[1] BY <3>1 DEF LineOnce
      <4>3. \A s \in PoolThreads : s # t => thread[s].at # "act"
        BY <2>2 DEF OneProcess, InSink
      <4>4. user[pending[1]] = "wait" /\ action[pending[1]].op \in SinkOps
        BY <3>1 DEF LineOnce
      <4>5. \A i \in DOMAIN pending' :
              user[pending'[i]] = "wait" /\ action[pending'[i]].op \in SinkOps
        BY <3>1 DEF LineOnce
      <4>. QED BY <2>1, <3>3, <3>4, <4>1, <4>2, <4>3, <4>4, <4>5 DEF LineOnce
    <3>. QED BY <3>5, <3>6, <3>8, <3>9, <3>10 DEF Stationed
  <2>. QED BY <2>3, <2>4
<1>12. ASSUME NEW t \in PoolThreads, Act(t) PROVE Stationed'
  <2>1. /\ thread[t].at = "act"
        /\ UNCHANGED <<action, pending, worker_running, wrote, io_jobs>>
    BY <1>12 DEF Act
  <2>2. PICK u \in Users : u = thread[t].for BY <2>1 DEF ThreadTypes
  <2>3. /\ InSink(t) /\ user[u] = "wait" /\ action[u].op \in SinkOps
        /\ \A i \in DOMAIN pending : pending[i] # u
    BY <2>1, <2>2 DEF InSink, LineOnce
  <2>4. file' \in Seq(Users \X Nat)
    <3>1. file' = file \/ file' = Append(file, <<u, action[u].made>>)
      BY <1>12, <2>2 DEF Act, Applies
    <3>2. <<u, action[u].made>> \in Users \X Nat BY <1>1, EntryType
    <3>3. Append(file, <<u, action[u].made>>) \in Seq(Users \X Nat) BY <1>1, <3>2, Grown
    <3>. QED BY <1>1, <3>1, <3>3
  <2>5. \A s \in PoolThreads : s # t => thread[s].at # "act" BY <2>3 DEF OneProcess, InSink
  <2>6. ASSUME NEW p \in {"run", "sent"}, user' = [user EXCEPT ![u] = p],
               on' \in [Users -> PoolThreads \cup {"own"}], Hosted', ThreadTypes',
               thread'[t].at \notin {"io", "act"}, InSink(t)',
               \A s \in PoolThreads : s # t => thread'[s] = thread[s],
               \A s \in PoolThreads : s # t => (InSink(s)' <=> InSink(s))
        PROVE  Stationed'
    <3>1. SinkTypes' BY <2>1, <2>4, <2>6 DEF SinkTypes
    <3>2. OneProcess' BY <2>1, <2>3, <2>6 DEF OneProcess
    <3>3. \A v \in Users : v # u => user'[v] = user[v] BY <2>6 DEF SinkTypes
    <3>4. IoOnce'
      <4>1. \A i \in DOMAIN io_jobs : io_jobs[i] # u BY <2>3 DEF IoOnce
      <4>2. \A s \in PoolThreads : thread[s].at = "io" =>
              thread[s].for # u /\ thread[s].for \in Users
        BY <2>3 DEF IoOnce, ThreadTypes
      <4>. QED BY <2>1, <2>6, <3>3, <4>1, <4>2 DEF IoOnce
    <3>5. LineOnce'
      <4>1. \A i \in DOMAIN pending : pending[i] \in Users BY <1>1
      <4>. QED BY <2>1, <2>3, <2>5, <2>6, <3>3, <4>1 DEF LineOnce
    <3>. QED BY <2>6, <3>1, <3>2, <3>4, <3>5 DEF Stationed
  <2>7. CASE u \in PlainUsers /\ ResumesHere(t, u, "process")
    <3>1. /\ Hosted' /\ ThreadTypes' /\ user' = [user EXCEPT ![u] = "run"]
          /\ on' \in [Users -> PoolThreads \cup {"own"}]
          /\ thread'[t].at = "host" /\ \A s \in PoolThreads : s # t => thread'[s] = thread[s]
          /\ \A s \in PoolThreads : s # t => (InSink(s)' <=> InSink(s))
          /\ InSink(t)'
      BY <2>1, <2>3, <2>7, ResumeEffect
    <3>. QED BY <2>6, <3>1
  <2>8. CASE /\ user' = [user EXCEPT ![u] = "sent"] /\ UNCHANGED on
             /\ thread' = [thread EXCEPT ![t] = Process]
    <3>1. Process \in Station /\ Process.at = "process" BY ThreadRecords DEF Station
    <3>2. /\ ThreadTypes' /\ thread'[t] = Process
          /\ \A s \in PoolThreads : s # t => thread'[s] = thread[s]
          /\ \A s \in PoolThreads : s # t => (InSink(s)' <=> InSink(s))
          /\ InSink(t)'
      BY <2>8, <3>1, StationEffect
    <3>3. \A v \in Users : user[v] = "run" => user'[v] = "run" BY <2>3, <2>8 DEF SinkTypes
    <3>4. Hosted' BY <2>1, <2>8, <3>2, <3>3, StayHosted
    <3>5. on' \in [Users -> PoolThreads \cup {"own"}] BY <2>8 DEF SinkTypes
    <3>. QED BY <2>6, <2>8, <3>1, <3>2, <3>4, <3>5
  <2>. QED BY <1>12, <2>2, <2>7, <2>8 DEF Act
<1>13. ASSUME NEW t \in PoolThreads, ThreadExits(t) PROVE Stationed'
  <2>1. /\ thread[t].at = "wait" /\ thread' = [thread EXCEPT ![t].at = "exit"]
        /\ UNCHANGED <<user, on, action, pending, worker_running, file, wrote, io_jobs>>
    BY <1>13 DEF ThreadExits
  <2> DEFINE r == [thread[t] EXCEPT !.at = "exit"]
  <2>2. thread' = [thread EXCEPT ![t] = r] BY <2>1 DEF ThreadTypes
  <2>3. r \in Station /\ r.at = "exit" BY DEF ThreadTypes, Station
  <2> HIDE DEF r
  <2>4. /\ ThreadTypes' /\ thread'[t] = r
        /\ \A s \in PoolThreads : s # t => thread'[s] = thread[s]
        /\ \A s \in PoolThreads : s # t => (InSink(s)' <=> InSink(s))
        /\ ~InSink(t)'
    BY <2>2, <2>3, StationEffect
  <2>5. SinkTypes' BY <2>1, <2>4 DEF SinkTypes
  <2>6. Hosted' BY <2>1, <2>4, StayHosted
  <2>7. OneProcess' BY <2>1, <2>4 DEF OneProcess
  <2>8. IoOnce' BY <2>1, <2>3, <2>4 DEF IoOnce
  <2>9. LineOnce' BY <2>1, <2>3, <2>4 DEF LineOnce
  <2>. QED BY <2>5, <2>6, <2>7, <2>8, <2>9 DEF Stationed
<1>14. ASSUME NEW u \in Users, LoopTurns(u) PROVE Stationed'
  <2>1. PICK p \in {"closing", "run"} :
          user[u] \in {"sent", "closing", "uvwork"} /\ user' = [user EXCEPT ![u] = p]
    BY <1>14 DEF LoopTurns, AsyncCallback, AsyncClosed, UvWorkDone
  <2>2. UNCHANGED <<on, action, pending, worker_running, file, wrote, io_jobs, thread>>
    BY <1>14 DEF LoopTurns, AsyncCallback, AsyncClosed, UvWorkDone, Held
  <2>3. SinkTypes' BY <2>1, <2>2 DEF SinkTypes, ThreadTypes
  <2>4. \A v \in Users : user[v] \in {"run", "wait"} => user'[v] = user[v]
    BY <2>1 DEF SinkTypes
  <2>5. Hosted' BY <2>2, <2>4 DEF Hosted
  <2>6. OneProcess' BY <2>2 DEF OneProcess, InSink
  <2>7. IoOnce' BY <2>2, <2>4 DEF IoOnce, ThreadTypes
  <2>8. \A i \in DOMAIN pending : pending[i] \in Users BY <1>1
  <2>9. LineOnce' BY <2>2, <2>4, <2>8 DEF LineOnce, ThreadTypes
  <2>. QED BY <2>3, <2>5, <2>6, <2>7, <2>9 DEF Stationed
<1>15. ASSUME UNCHANGED <<user, on, action, pending, worker_running, file, wrote, io_jobs, thread>>
       PROVE  Stationed'
  BY <1>15 DEF Stationed, SinkTypes, ThreadTypes, Hosted, OneProcess, InSink, IoOnce, LineOnce
<1>16. CASE StopPool \/ StopLoop \/ LoopEnds \/ UNCHANGED sinkVars
  BY <1>15, <1>16 DEF StopPool, StopLoop, LoopEnds, Held
<1>17. CASE \E u \in Users : Operates(u) \/ Finishes(u) \/ LoopTurns(u)
  BY <1>2, <1>5, <1>6, <1>7, <1>8, <1>14, <1>17 DEF Operates
<1>18. CASE \E t \in PoolThreads : ThreadWorks(t)
  BY <1>9, <1>10, <1>11, <1>12, <1>13, <1>18 DEF ThreadWorks
<1>. QED BY <1>16, <1>17, <1>18 DEF SinkNext

-----------------------------------------------------------------------------
(* The same writes are in the line, in the same order.                      *)
LEMMA LineFrame ==
  ASSUME SinkTypes, SinkTypes', Due, UNCHANGED <<wrote, file>>, good' => good,
         \A v \in Users : user[v] = "over" => user'[v] = "over",
         \A v \in Users : user'[v] = "over" \/ action'[v].made >= action[v].made,
         \A v \in Users : Writing(v)' <=> Writing(v),
         \A v \in Users : Writing(v) => action'[v] = action[v],
         \A v, w \in Users : Writing(v) /\ Writing(w) /\ Ahead(v, w)' => Ahead(v, w)
  PROVE  Due'
<1>1. \A v \in Users : action[v].made \in Nat /\ action'[v].made \in Nat BY DEF SinkTypes
<1>2. Known'
  <2>1. ASSUME NEW k \in DOMAIN wrote, NEW u \in Users, NEW n \in Nat, wrote[k] = <<u, n>>
        PROVE  user'[u] = "over" \/ n <= action'[u].made
    <3>1. user[u] = "over" \/ n <= action[u].made BY <2>1 DEF Due, Known
    <3>. QED BY <1>1, <3>1
  <2>. QED BY <2>1 DEF Due, Known
<1>3. Taken' BY DEF Due, Taken
<1>4. ASSUME good' PROVE Owed'
  <2>1. Entries /\ Cover /\ InOrder BY <1>4 DEF Due, Owed
  <2>2. \A v \in Users : Writing(v) => Entry(v)' = Entry(v) BY DEF Entry
  <2>3. Entries' BY <2>1, <2>2 DEF Entries
  <2>4. Cover' BY <2>1, <2>2 DEF Cover
  <2>5. InOrder' BY <2>1, <2>2 DEF InOrder
  <2>. QED BY <2>3, <2>4, <2>5 DEF Owed
<1>. QED BY <1>2, <1>3, <1>4 DEF Due

(* A step beside the line.                                                  *)
LEMMA BesideLine ==
  ASSUME Stationed, Stationed', Due, UNCHANGED <<pending, wrote, file, good>>,
         \A t \in PoolThreads :
           thread[t].at = "act" \/ thread'[t].at = "act" => thread'[t] = thread[t],
         \A v \in Users : user[v] = "wait" => action'[v] = action[v],
         \A v \in Users : user[v] = "over" => user'[v] = "over",
         \A v \in Users : user'[v] = "over" \/ action'[v].made >= action[v].made
  PROVE  Due'
<1>1. \A v \in Users : Acting(v)' <=> Acting(v) BY DEF Acting
<1>2. \A v \in Users : Queued(v)' <=> Queued(v) BY DEF Queued
<1>3. \A v \in Users : InLine(v) => user[v] = "wait"
  BY DEF InLine, Acting, Queued, Stationed, LineOnce
<1>4. \A v \in Users : InLine(v)' <=> InLine(v) BY <1>1, <1>2 DEF InLine
<1>5. \A v \in Users : Writing(v)' <=> Writing(v) BY <1>3, <1>4 DEF Writing
<1>6. \A v \in Users : Writing(v) => action'[v] = action[v] BY <1>3 DEF Writing
<1>7. \A v, w \in Users : Ahead(v, w)' => Ahead(v, w) BY <1>1, <1>2 DEF Ahead
<1>8. SinkTypes /\ SinkTypes' BY DEF Stationed
<1>. QED BY <1>5, <1>6, <1>7, <1>8, LineFrame

(* A coroutine that was not in the line comes last in it.                   *)
LEMMA LineGrows ==
  ASSUME Stationed, NEW u \in Users, user[u] = "run", Leaves(u), pending' = Append(pending, u)
  PROVE  /\ ~InLine(u) /\ InLine(u)'
         /\ \A v \in Users : v # u => (InLine(v)' <=> InLine(v))
         /\ \A v, w \in Users : Ahead(v, w)' => v # u /\ (w # u => Ahead(v, w))
<1>1. pending \in Seq(Users) BY DEF Stationed, SinkTypes
<1>2. /\ Len(pending) \in Nat /\ DOMAIN pending = 1..Len(pending)
      /\ DOMAIN pending' = 1..(Len(pending) + 1)
      /\ \A i \in DOMAIN pending : pending'[i] = pending[i]
      /\ pending'[Len(pending) + 1] = u
  BY <1>1, Grown
<1>3. ~InLine(u) BY DEF InLine, Acting, Queued, Stationed, LineOnce
<1>4. \A v \in Users : Acting(v)' <=> Acting(v) BY DEF Acting, Leaves
<1>5. \A v \in Users : Queued(v)' <=> Queued(v) \/ v = u BY <1>2 DEF Queued
<1>6. /\ InLine(u)' /\ \A v \in Users : v # u => (InLine(v)' <=> InLine(v))
  BY <1>4, <1>5 DEF InLine
<1>7. ASSUME NEW v \in Users, NEW w \in Users, Ahead(v, w)'
      PROVE  v # u /\ (w # u => Ahead(v, w))
  <2>1. CASE Acting(v)' /\ Queued(w)' BY <1>3, <1>4, <1>5, <2>1 DEF Ahead, InLine
  <2>2. CASE \E i, k \in DOMAIN pending' : i < k /\ pending'[i] = v /\ pending'[k] = w
    <3>1. PICK i \in DOMAIN pending', k \in DOMAIN pending' :
            i < k /\ pending'[i] = v /\ pending'[k] = w
      BY <2>2
    <3>2. i \in DOMAIN pending /\ pending[i] = v BY <1>2, <3>1
    <3>3. v # u BY <1>3, <3>2 DEF InLine, Queued
    <3>4. ASSUME w # u PROVE k \in DOMAIN pending /\ pending[k] = w BY <1>2, <3>1, <3>4
    <3>. QED BY <3>1, <3>2, <3>3, <3>4 DEF Ahead
  <2>. QED BY <1>7, <2>1, <2>2 DEF Ahead
<1>. QED BY <1>3, <1>6, <1>7

(* submit() of a write: it is owed last.                                    *)
LEMMA WriteQueued ==
  ASSUME Stationed, Stationed', Due, NEW u \in Users, Submit(u, "write")
  PROVE  Due'
<1> DEFINE n == action[u].made + 1
           e == <<u, n>>
<1>1. /\ user[u] = "run" /\ user' = [user EXCEPT ![u] = "wait"] /\ Suspends(u)
      /\ action' = [action EXCEPT ![u] = [op |-> "write", made |-> n]]
      /\ pending' = Append(pending, u) /\ wrote' = Append(wrote, e)
      /\ UNCHANGED <<good, file>>
  BY DEF Submit, Starts, Running
<1>2. Leaves(u) BY <1>1, SuspendEffect DEF Stationed
<1>3. action[u].made \in Nat /\ n \in Nat BY DEF Stationed, SinkTypes
<1>4. /\ action'[u].op = "write" /\ action'[u].made = n /\ user'[u] = "wait"
      /\ \A v \in Users : v # u => action'[v] = action[v] /\ user'[v] = user[v]
  BY <1>1 DEF Stationed, SinkTypes
<1>5. e \in Users \X Nat /\ wrote \in Seq(Users \X Nat)
  BY <1>3, EntryType DEF Stationed, SinkTypes
<1>6. Entry(u)' = e /\ \A v \in Users : v # u => Entry(v)' = Entry(v) BY <1>4 DEF Entry
<1>7. \A k \in DOMAIN wrote : wrote[k] # e
  <2>1. SUFFICES ASSUME NEW k \in DOMAIN wrote, wrote[k] = e PROVE FALSE OBVIOUS
  <2>2. user[u] = "over" \/ n <= action[u].made BY <1>3, <2>1 DEF Due, Known
  <2>. QED BY <1>1, <1>3, <2>2
<1>8. \A v \in Users, m \in Nat : e = <<v, m>> => v = u /\ m = n OBVIOUS
<1>9. \A v \in Users : v # u => Entry(v) # e BY <1>3 DEF Entry
<1> HIDE DEF e
<1>10. /\ Len(wrote) \in Nat /\ DOMAIN wrote = 1..Len(wrote)
       /\ DOMAIN wrote' = 1..(Len(wrote) + 1) /\ Len(wrote') = Len(wrote) + 1
       /\ \A k \in DOMAIN wrote : wrote'[k] = wrote[k]
       /\ wrote'[Len(wrote) + 1] = e
  BY <1>1, <1>5, Grown
<1>11. Len(file) \in Nat /\ Len(file) <= Len(wrote)
  BY DEF Stationed, SinkTypes, Due, Taken
<1>12. Known'
  <2>1. ASSUME NEW k \in DOMAIN wrote', NEW v \in Users, NEW m \in Nat, wrote'[k] = <<v, m>>
        PROVE  user'[v] = "over" \/ m <= action'[v].made
    <3>1. CASE k \in DOMAIN wrote
      <4>1. user[v] = "over" \/ m <= action[v].made BY <1>10, <2>1, <3>1 DEF Due, Known
      <4>. QED BY <1>1, <1>3, <1>4, <4>1
    <3>2. CASE k = Len(wrote) + 1
      <4>1. v = u /\ m = n BY <1>8, <1>10, <2>1, <3>2
      <4>. QED BY <1>3, <1>4, <4>1
    <3>. QED BY <1>10, <3>1, <3>2
  <2>2. \A k, l \in DOMAIN wrote' : wrote'[k] = wrote'[l] => k = l
    BY <1>7, <1>10 DEF Due, Known
  <2>. QED BY <2>1, <2>2 DEF Known
<1>13. Taken' BY <1>1, <1>10, <1>11 DEF Due, Taken
<1>14. ASSUME good' PROVE Owed'
  <2>1. Entries /\ Cover /\ InOrder BY <1>1, <1>14 DEF Due, Owed
  <2>2. /\ ~InLine(u) /\ InLine(u)'
        /\ \A v \in Users : v # u => (InLine(v)' <=> InLine(v))
        /\ \A v, w \in Users : Ahead(v, w)' => v # u /\ (w # u => Ahead(v, w))
    BY <1>1, <1>2, LineGrows
  <2>3. /\ Writing(u)' /\ ~Writing(u)
        /\ \A v \in Users : v # u => (Writing(v)' <=> Writing(v))
    BY <1>4, <2>2 DEF Writing
  <2>4. Entries' BY <1>1, <1>6, <1>10, <1>11, <2>1, <2>3 DEF Entries
  <2>5. ASSUME NEW k \in DOMAIN wrote', k > Len(file')
        PROVE  \E v \in Users : Writing(v)' /\ wrote'[k] = Entry(v)'
    <3>1. CASE k \in DOMAIN wrote
      <4>1. k > Len(file) /\ wrote'[k] = wrote[k] BY <1>1, <1>10, <2>5, <3>1
      <4>2. PICK v \in Users : Writing(v) /\ wrote[k] = Entry(v) BY <2>1, <3>1, <4>1 DEF Cover
      <4>3. v # u BY <2>3, <4>2
      <4>4. Writing(v)' /\ Entry(v)' = Entry(v) BY <1>6, <2>3, <4>2, <4>3
      <4>. QED BY <4>1, <4>2, <4>4
    <3>2. CASE k = Len(wrote) + 1
      <4>1. wrote'[k] = e BY <1>10, <3>2
      <4>. QED BY <1>6, <2>3, <4>1
    <3>3. k \in DOMAIN wrote \/ k = Len(wrote) + 1 BY <1>10
    <3>. QED BY <3>1, <3>2, <3>3
  <2>6. ASSUME NEW v \in Users, NEW w \in Users, Writing(v)', Writing(w)', Ahead(v, w)',
               NEW k \in DOMAIN wrote', NEW l \in DOMAIN wrote',
               wrote'[k] = Entry(v)', wrote'[l] = Entry(w)'
        PROVE  k < l
    <3>1. v # u /\ Writing(v) /\ Entry(v)' = Entry(v) BY <1>6, <2>2, <2>3, <2>6
    <3>2. k \in DOMAIN wrote /\ wrote[k] = Entry(v) BY <1>9, <1>10, <2>6, <3>1
    <3>3. CASE w = u
      <4>1. l = Len(wrote) + 1 BY <1>6, <1>7, <1>10, <2>6, <3>3
      <4>. QED BY <1>10, <3>2, <4>1
    <3>4. CASE w # u
      <4>1. Writing(w) /\ Entry(w)' = Entry(w) /\ Ahead(v, w) BY <1>6, <2>2, <2>3, <2>6, <3>4
      <4>2. l \in DOMAIN wrote /\ wrote[l] = Entry(w) BY <1>9, <1>10, <2>6, <3>4, <4>1
      <4>. QED BY <2>1, <3>1, <3>2, <4>1, <4>2 DEF InOrder
    <3>. QED BY <3>3, <3>4
  <2>7. InOrder' BY <2>6 DEF InOrder
  <2>8. Cover' BY <2>5 DEF Cover
  <2>. QED BY <2>4, <2>7, <2>8 DEF Owed
<1>. QED BY <1>12, <1>13, <1>14 DEF Due

(* submit() of anything else: the same writes are owed.                     *)
LEMMA FlushQueued ==
  ASSUME Stationed, Stationed', Due, NEW u \in Users, Submit(u, "flush")
  PROVE  Due'
<1>1. /\ user[u] = "run" /\ user' = [user EXCEPT ![u] = "wait"] /\ Suspends(u)
      /\ action' = [action EXCEPT ![u] = [op |-> "flush", made |-> action[u].made + 1]]
      /\ pending' = Append(pending, u) /\ wrote' = wrote
      /\ UNCHANGED <<good, file>>
  BY DEF Submit, Starts, Running
<1>2. Leaves(u) BY <1>1, SuspendEffect DEF Stationed
<1>3. \A v \in Users : action[v].made \in Nat BY DEF Stationed, SinkTypes
<1>4. /\ action'[u].op = "flush" /\ action'[u].made = action[u].made + 1
      /\ \A v \in Users : v # u => action'[v] = action[v] /\ user'[v] = user[v]
  BY <1>1 DEF Stationed, SinkTypes
<1>5. /\ ~InLine(u) /\ \A v \in Users : v # u => (InLine(v)' <=> InLine(v))
      /\ \A v, w \in Users : Ahead(v, w)' => v # u /\ (w # u => Ahead(v, w))
  BY <1>1, <1>2, LineGrows
<1>6. ~Writing(u)' /\ ~Writing(u) BY <1>4, <1>5 DEF Writing
<1>7. \A v \in Users : v # u => (Writing(v)' <=> Writing(v)) BY <1>4, <1>5 DEF Writing
<1>8. SinkTypes /\ SinkTypes' BY DEF Stationed
<1>9. /\ \A v \in Users : user[v] = "over" => user'[v] = "over"
      /\ \A v \in Users : action'[v].made >= action[v].made
  BY <1>1, <1>3, <1>4
<1>. QED BY <1>1, <1>4, <1>5, <1>6, <1>7, <1>8, <1>9, LineFrame

(* process() takes the head of the line: it stays ahead of the others.      *)
LEMMA HeadTaken ==
  ASSUME Stationed, Stationed', Due, NEW t \in PoolThreads, TakeAction(t)
  PROVE  Due'
<1>1. /\ thread[t].at = "process" /\ UNCHANGED <<user, action, wrote, file, good>>
  BY DEF TakeAction
<1>2. \A v \in Users : ~Acting(v)
  BY <1>1 DEF Acting, Stationed, OneProcess, InSink
<1>3. thread \in [PoolThreads -> Station] /\ pending \in Seq(Users) /\ SinkTypes /\ SinkTypes'
      /\ \A v \in Users : action[v].made \in Nat
  BY DEF Stationed, SinkTypes, ThreadTypes
<1>4. CASE pending = <<>>
  <2>1. thread' = [thread EXCEPT ![t] = Waits] /\ UNCHANGED pending BY <1>4 DEF TakeAction
  <2>2. Waits.at = "wait" BY ThreadRecords
  <2>3. \A s \in PoolThreads :
          thread[s].at = "act" \/ thread'[s].at = "act" => thread'[s] = thread[s]
    BY <1>1, <1>3, <2>1, <2>2
  <2>. QED BY <1>1, <1>3, <2>1, <2>3, BesideLine
<1>5. CASE pending # <<>>
  <2>0. pending' = Tail(pending) BY <1>5 DEF TakeAction
  <2>1. /\ Head(pending) = pending[1] /\ pending[1] \in Users /\ 1 \in DOMAIN pending
        /\ DOMAIN pending = 1..Len(pending) /\ DOMAIN pending' = 1..(Len(pending) - 1)
        /\ Len(pending) \in Nat \ {0}
        /\ \A i \in DOMAIN pending' : i + 1 \in DOMAIN pending /\ pending'[i] = pending[i + 1]
    BY <1>3, <1>5, <2>0, Shrunk
  <2> DEFINE r == [at |-> "act", for |-> pending[1], then |-> "wait"]
  <2>2. thread' = [thread EXCEPT ![t] = r] BY <1>5, <2>1 DEF TakeAction
  <2>3. r.at = "act" /\ r.for = pending[1] OBVIOUS
  <2> HIDE DEF r
  <2>4. thread'[t] = r /\ \A s \in PoolThreads : s # t => thread'[s] = thread[s]
    BY <1>3, <2>2
  <2>5. \A v \in Users : Acting(v)' <=> v = pending[1]
    BY <1>2, <2>3, <2>4, <2>1 DEF Acting
  <2>6. \A v \in Users : Queued(v)' => \E k \in DOMAIN pending : 1 < k /\ pending[k] = v
    BY <2>1 DEF Queued
  <2>7. \A v \in Users : Queued(v) /\ v # pending[1] => Queued(v)'
    <3>1. SUFFICES ASSUME NEW v \in Users, NEW k \in DOMAIN pending, pending[k] = v,
                          v # pending[1]
                   PROVE  \E i \in DOMAIN pending' : pending'[i] = v
      BY DEF Queued
    <3>2. k - 1 \in DOMAIN pending' /\ k = (k - 1) + 1 BY <2>1, <3>1
    <3>. QED BY <2>1, <3>1, <3>2
  <2>8. \A v \in Users : InLine(v)' <=> InLine(v)
    BY <1>2, <2>1, <2>5, <2>6, <2>7 DEF InLine, Queued
  <2>9. \A v \in Users : Writing(v)' <=> Writing(v) BY <1>1, <2>8 DEF Writing
  <2>10. ASSUME NEW v \in Users, NEW w \in Users, Ahead(v, w)' PROVE Ahead(v, w)
    <3>1. CASE Acting(v)' /\ Queued(w)' BY <2>1, <2>5, <2>6, <3>1 DEF Ahead
    <3>2. CASE \E i, k \in DOMAIN pending' : i < k /\ pending'[i] = v /\ pending'[k] = w
      <4>1. PICK i \in DOMAIN pending', k \in DOMAIN pending' :
              i < k /\ pending'[i] = v /\ pending'[k] = w
        BY <3>2
      <4>2. /\ i + 1 \in DOMAIN pending /\ k + 1 \in DOMAIN pending /\ i + 1 < k + 1
            /\ pending[i + 1] = v /\ pending[k + 1] = w
        BY <2>1, <4>1
      <4>. QED BY <4>2 DEF Ahead
    <3>. QED BY <2>10, <3>1, <3>2 DEF Ahead
  <2>. QED BY <1>1, <1>3, <2>9, <2>10, LineFrame
<1>. QED BY <1>4, <1>5

(* The action process() works on: a write it does is the first that is      *)
(* owed, because nothing is owed but the line, and in its order.            *)
LEMMA ActionDone ==
  ASSUME Stationed, Stationed', Due, NEW t \in PoolThreads, Act(t)
  PROVE  Due'
<1>1. /\ thread[t].at = "act" /\ UNCHANGED <<action, pending, wrote>>
  BY DEF Act
<1>2. PICK u \in Users : u = thread[t].for BY <1>1 DEF Stationed, SinkTypes, ThreadTypes
<1>3. /\ SinkTypes /\ SinkTypes' /\ thread \in [PoolThreads -> Station]
      /\ wrote \in Seq(Users \X Nat) /\ file \in Seq(Users \X Nat)
      /\ \A v \in Users : action[v].made \in Nat
  BY DEF Stationed, SinkTypes, ThreadTypes
<1>4. user[u] = "wait" /\ ~Queued(u) BY <1>1, <1>2 DEF Stationed, LineOnce, Queued
<1>5. \A v \in Users : Acting(v) <=> v = u
  BY <1>1, <1>2 DEF Acting, Stationed, OneProcess, InSink
<1>6. \A v \in Users : ~Acting(v)'
  <2>1. thread'[t].at # "act" /\ \A s \in PoolThreads : s # t => thread'[s] = thread[s]
    <3>1. CASE ResumesHere(t, u, "process") BY <1>3, <3>1 DEF ResumesHere
    <3>2. CASE thread' = [thread EXCEPT ![t] = Process] BY <1>3, <3>2, ThreadRecords
    <3>. QED BY <1>2, <3>1, <3>2 DEF Act
  <2>. QED BY <1>1, <2>1 DEF Acting, Stationed, OneProcess, InSink
<1>7. \A v \in Users : user[v] = "over" => user'[v] = "over"
  BY <1>2, <1>3, <1>4 DEF Act, ResumesHere, SinkTypes
<1>8. \A v \in Users : Queued(v)' <=> Queued(v) BY <1>1 DEF Queued
<1>9. /\ InLine(u) /\ ~InLine(u)' /\ \A v \in Users : v # u => (InLine(v)' <=> InLine(v))
  BY <1>4, <1>5, <1>6, <1>8 DEF InLine
<1>10. \A v, w \in Users : Ahead(v, w)' => Ahead(v, w) BY <1>1, <1>6, <1>8 DEF Ahead
<1>11. \A v \in Users : v # u => (Writing(v)' <=> Writing(v)) BY <1>1, <1>9 DEF Writing
<1>12. ~Writing(u)' BY <1>9 DEF Writing
<1>13. \/ action[u].op = "write" /\ good /\ file' = Append(file, Entry(u)) /\ good' = good
       \/ (action[u].op # "write" \/ ~good) /\ file' = file /\ good' = good
       \/ good' = FALSE /\ file' = file
  BY <1>2 DEF Act, Applies, Entry
<1>14. Known' BY <1>1, <1>7 DEF Due, Known
<1>15. CASE action[u].op # "write" /\ file' = file /\ good' = good
  <2>1. ~Writing(u) BY <1>15 DEF Writing
  <2>2. \A v \in Users : Writing(v)' <=> Writing(v) BY <1>11, <1>12, <2>1
  <2>. QED BY <1>1, <1>3, <1>7, <1>10, <1>15, <2>2, LineFrame
<1>16. CASE ~good' /\ file' = file
  <2>1. Taken' BY <1>1, <1>16 DEF Due, Taken
  <2>. QED BY <1>14, <1>16, <2>1 DEF Due
<1>17. CASE action[u].op = "write" /\ good /\ file' = Append(file, Entry(u)) /\ good' = good
  <2> DEFINE n == Len(file) + 1
  <2>1. Entries /\ Cover /\ InOrder /\ Taken BY <1>17 DEF Due, Owed
  <2>2. Writing(u) BY <1>9, <1>17 DEF Writing
  <2>3. PICK k \in DOMAIN wrote : k > Len(file) /\ wrote[k] = Entry(u)
    BY <2>1, <2>2 DEF Entries
  <2>4. DOMAIN wrote = 1..Len(wrote) /\ Len(wrote) \in Nat /\ Len(file) \in Nat
    BY <1>3, LenProperties
  <2>5. n \in DOMAIN wrote /\ k >= n BY <2>3, <2>4
  <2>6. wrote[n] = Entry(u)
    <3>1. PICK v \in Users : Writing(v) /\ wrote[n] = Entry(v) BY <2>1, <2>4, <2>5 DEF Cover
    <3>2. CASE v # u
      <4>1. Ahead(u, v) BY <1>5, <3>1, <3>2 DEF Writing, InLine, Ahead
      <4>2. k < n BY <2>1, <2>2, <2>3, <2>5, <3>1, <4>1 DEF InOrder
      <4>. QED BY <2>4, <2>5, <4>2
    <3>. QED BY <3>1, <3>2
  <2>7. Entry(u) \in Users \X Nat BY <1>3, EntryType DEF Entry
  <2>8. /\ Len(file') = n /\ file'[n] = Entry(u)
        /\ \A i \in 1..Len(file) : file'[i] = file[i]
    BY <1>3, <1>17, <2>7, Grown
  <2>9. Taken'
    <3>1. Len(file') <= Len(wrote') BY <1>1, <2>4, <2>5, <2>8
    <3>2. ASSUME NEW i \in 1..Len(file') PROVE file'[i] = wrote'[i]
      <4>1. i \in 1..Len(file) \/ i = n BY <2>4, <2>8
      <4>. QED BY <1>1, <2>1, <2>6, <2>8, <4>1 DEF Taken
    <3>. QED BY <3>1, <3>2 DEF Taken
  <2>10. \A v \in Users : v # u => Entry(v) # Entry(u) BY <1>3 DEF Entry
  <2>11. \A v \in Users : Entry(v)' = Entry(v) BY <1>1 DEF Entry
  <2>12. Entries'
    <3>1. SUFFICES ASSUME NEW v \in Users, Writing(v)'
                   PROVE  \E l \in DOMAIN wrote : l > n /\ wrote[l] = Entry(v)
      BY <1>1, <2>8, <2>11 DEF Entries
    <3>2. v # u /\ Writing(v) BY <1>11, <1>12, <3>1
    <3>3. PICK l \in DOMAIN wrote : l > Len(file) /\ wrote[l] = Entry(v)
      BY <2>1, <3>2 DEF Entries
    <3>4. l # n BY <2>6, <2>10, <3>2, <3>3
    <3>. QED BY <2>4, <3>3, <3>4
  <2>13. Cover'
    <3>1. SUFFICES ASSUME NEW l \in DOMAIN wrote, l > n
                   PROVE  \E v \in Users : Writing(v)' /\ wrote[l] = Entry(v)
      BY <1>1, <2>8, <2>11 DEF Cover
    <3>2. PICK v \in Users : Writing(v) /\ wrote[l] = Entry(v) BY <2>1, <2>4, <3>1 DEF Cover
    <3>3. l # n BY <2>4, <3>1
    <3>4. wrote[l] # wrote[n] BY <2>5, <3>1, <3>3 DEF Due, Known
    <3>5. v # u BY <2>6, <3>2, <3>4
    <3>. QED BY <1>11, <3>2, <3>5
  <2>14. InOrder'
    <3>1. \A v \in Users : Writing(v)' => Writing(v) BY <1>11, <1>12
    <3>. QED BY <1>1, <1>10, <2>1, <2>11, <3>1 DEF InOrder
  <2>. QED BY <1>14, <2>9, <2>12, <2>13, <2>14 DEF Due, Owed
<1>. QED BY <1>13, <1>15, <1>16, <1>17

(* Every step keeps what is owed the line.                                  *)
LEMMA DueStep ==
  ASSUME Stationed, Stationed', Due, [SinkNext]_sinkVars
  PROVE  Due'
<1>1. /\ SinkTypes /\ Hosted /\ ThreadTypes /\ thread \in [PoolThreads -> Station]
      /\ \A v \in Users : action[v].made \in Nat
  BY DEF Stationed, SinkTypes, ThreadTypes
<1>2. ASSUME NEW u \in Users, user[u] = "run", NEW op, NEW n \in Nat, NEW p,
             user' = [user EXCEPT ![u] = p],
             action' = [action EXCEPT ![u] = [op |-> op, made |-> n]],
             p = "over" \/ n >= action[u].made,
             Suspends(u) \/ UNCHANGED thread,
             UNCHANGED <<pending, wrote, file, good>>
      PROVE  Due'
  <2>1. \A t \in PoolThreads :
          thread[t].at = "act" \/ thread'[t].at = "act" => thread'[t] = thread[t]
    <3>1. CASE Suspends(u)
      <4>1. Leaves(u) BY <1>1, <3>1, SuspendEffect
      <4>. QED BY <4>1 DEF Leaves
    <3>. QED BY <1>2, <3>1
  <2>2. /\ user'[u] = p /\ action'[u].made = n
        /\ \A v \in Users : v # u => user'[v] = user[v] /\ action'[v] = action[v]
    BY <1>1, <1>2 DEF SinkTypes
  <2>3. /\ \A v \in Users : user[v] = "wait" => action'[v] = action[v]
        /\ \A v \in Users : user[v] = "over" => user'[v] = "over"
        /\ \A v \in Users : user'[v] = "over" \/ action'[v].made >= action[v].made
    BY <1>1, <1>2, <2>2
  <2>. QED BY <1>2, <2>1, <2>3, BesideLine
<1>3. ASSUME NEW t \in PoolThreads, thread[t].at # "act", thread'[t].at # "act",
             \A s \in PoolThreads : s # t => thread'[s] = thread[s],
             \A v \in Users : user[v] = "over" => user'[v] = "over",
             UNCHANGED <<action, pending, wrote, file, good>>
      PROVE  Due'
  <2>1. \A v \in Users : action'[v].made >= action[v].made BY <1>1, <1>3
  <2>. QED BY <1>3, <2>1, BesideLine
<1>4. ASSUME UNCHANGED <<action, pending, wrote, file, good, thread>>,
             \A v \in Users : user[v] = "over" => user'[v] = "over"
      PROVE  Due'
  <2>1. \A v \in Users : action'[v].made >= action[v].made BY <1>1, <1>4
  <2>. QED BY <1>4, <2>1, BesideLine
<1>5. ASSUME NEW u \in Users, NEW op \in SinkOps, Submit(u, op) PROVE Due'
  BY <1>5, WriteQueued, FlushQueued
<1>6. ASSUME NEW u \in Users, NEW op, SubmitThrows(u, op) PROVE Due'
  <2>1. /\ user[u] = "run" /\ action[u].made + 1 \in Nat /\ action[u].made + 1 >= action[u].made
        /\ action' = [action EXCEPT ![u] = [op |-> op, made |-> action[u].made + 1]]
        /\ UNCHANGED <<pending, wrote, file, good>>
    BY <1>1, <1>6 DEF SubmitThrows, Starts, Running
  <2>2. CASE u \in LoopUsers
    <3>1. user' = [user EXCEPT ![u] = "sent"] /\ Suspends(u) BY <1>6, <2>2 DEF SubmitThrows
    <3>. QED BY <1>2, <2>1, <3>1
  <2>3. CASE u \notin LoopUsers
    <3>1. user' = [user EXCEPT ![u] = "run"] /\ UNCHANGED thread
      BY <1>1, <1>6, <2>1, <2>3 DEF SubmitThrows, GoesOn, SinkTypes
    <3>. QED BY <1>2, <2>1, <3>1
  <2>. QED BY <2>2, <2>3
<1>7. ASSUME NEW u \in Users, NEW op, NoHandle(u, op) PROVE Due'
  <2>1. /\ user[u] = "run" /\ action[u].made + 1 \in Nat /\ action[u].made + 1 >= action[u].made
        /\ action' = [action EXCEPT ![u] = [op |-> op, made |-> action[u].made + 1]]
        /\ UNCHANGED <<user, thread, pending, wrote, file, good>>
    BY <1>1, <1>7 DEF NoHandle, Starts, Running, GoesOn
  <2>2. user' = [user EXCEPT ![u] = "run"] BY <1>1, <2>1 DEF SinkTypes
  <2>. QED BY <1>2, <2>1, <2>2
<1>8. ASSUME NEW u \in Users, RunFileIo(u) PROVE Due'
  <2>1. /\ user[u] = "run" /\ action[u].made + 1 \in Nat /\ action[u].made + 1 >= action[u].made
        /\ action' = [action EXCEPT ![u] = [op |-> "io", made |-> action[u].made + 1]]
        /\ Suspends(u) /\ UNCHANGED <<pending, wrote, file, good>>
    BY <1>1, <1>8 DEF RunFileIo, Starts, Running
  <2>2. PICK p : user' = [user EXCEPT ![u] = p] BY <1>8 DEF RunFileIo
  <2>. QED BY <1>2, <2>1, <2>2
<1>9. ASSUME NEW u \in Users, Finishes(u) PROVE Due'
  <2>1. /\ user[u] = "run" /\ user' = [user EXCEPT ![u] = "over"] /\ Suspends(u)
        /\ action' = [action EXCEPT ![u] = [op |-> "none", made |-> 0]]
        /\ UNCHANGED <<pending, wrote, file, good>>
    BY <1>9 DEF Finishes, Running
  <2>. QED BY <1>2, <2>1
<1>10. ASSUME NEW t \in PoolThreads, TakeJob(t) PROVE Due'
  <2> DEFINE r == IF Head(io_jobs) = "process" THEN Process
                  ELSE [at |-> "io", for |-> Head(io_jobs), then |-> "wait"]
  <2>1. /\ thread[t].at = "wait" /\ thread' = [thread EXCEPT ![t] = r]
        /\ UNCHANGED <<user, action, pending, wrote, file, good>>
    BY <1>10 DEF TakeJob
  <2>2. r.at # "act" BY ThreadRecords
  <2> HIDE DEF r
  <2>. QED BY <1>1, <1>3, <2>1, <2>2
<1>11. ASSUME NEW t \in PoolThreads, ExecuteIo(t) PROVE Due'
  <2>1. /\ thread[t].at = "io" /\ UNCHANGED <<action, pending, wrote, file, good>>
    BY <1>11 DEF ExecuteIo
  <2>2. PICK u \in Users : u = thread[t].for BY <1>1, <2>1 DEF ThreadTypes
  <2> DEFINE r == [at |-> "host", for |-> u, then |-> "wait"]
  <2>3. user[u] = "wait" BY <2>1, <2>2 DEF Stationed, IoOnce
  <2>4. user' = [user EXCEPT ![u] = "run"] /\ thread' = [thread EXCEPT ![t] = r]
    BY <1>11, <2>2 DEF ExecuteIo, ResumesHere
  <2>5. r.at = "host" OBVIOUS
  <2> HIDE DEF r
  <2>6. \A v \in Users : user[v] = "over" => user'[v] = "over" BY <1>1, <2>3, <2>4 DEF SinkTypes
  <2>. QED BY <1>1, <1>3, <2>1, <2>4, <2>5, <2>6
<1>12. ASSUME NEW t \in PoolThreads, ThreadExits(t) PROVE Due'
  <2>1. /\ thread[t].at = "wait" /\ thread' = [thread EXCEPT ![t].at = "exit"]
        /\ UNCHANGED <<user, action, pending, wrote, file, good>>
    BY <1>12 DEF ThreadExits
  <2>2. thread'[t].at = "exit" /\ \A s \in PoolThreads : s # t => thread'[s] = thread[s]
    BY <1>1, <2>1 DEF Station
  <2>. QED BY <1>3, <2>1, <2>2
<1>13. ASSUME NEW u \in Users, LoopTurns(u) PROVE Due'
  <2>1. PICK p : user[u] # "over" /\ user' = [user EXCEPT ![u] = p]
    BY <1>13 DEF LoopTurns, AsyncCallback, AsyncClosed, UvWorkDone
  <2>2. \A v \in Users : user[v] = "over" => user'[v] = "over" BY <1>1, <2>1 DEF SinkTypes
  <2>3. UNCHANGED <<action, pending, wrote, file, good, thread>>
    BY <1>13 DEF LoopTurns, AsyncCallback, AsyncClosed, UvWorkDone, Held
  <2>. QED BY <1>4, <2>2, <2>3
<1>14. CASE StopPool \/ StopLoop \/ LoopEnds \/ UNCHANGED sinkVars
  BY <1>4, <1>14 DEF StopPool, StopLoop, LoopEnds, Held
<1>15. CASE \E u \in Users : Operates(u) \/ Finishes(u) \/ LoopTurns(u)
  BY <1>5, <1>6, <1>7, <1>8, <1>9, <1>13, <1>15 DEF Operates
<1>16. CASE \E t \in PoolThreads : ThreadWorks(t)
  BY <1>10, <1>11, <1>12, <1>16, HeadTaken, ActionDone DEF ThreadWorks
<1>. QED BY <1>14, <1>15, <1>16 DEF SinkNext

-----------------------------------------------------------------------------
(* Whatever the threads of the pool, the coroutines and the loop do: one    *)
(* process() of the sink, every coroutine in one place, and the file owed   *)
(* exactly the writes of the line, in its order.                            *)
THEOREM SinkInvariant == SinkSpec => []SinkInv
<1>1. SinkInit => SinkInv
  <2> SUFFICES ASSUME SinkInit PROVE SinkInv OBVIOUS
  <2>1. /\ user = [u \in Users |-> "run"] /\ on = [u \in Users |-> "own"]
        /\ action = [u \in Users |-> [op |-> "none", made |-> 0]]
        /\ pending = <<>> /\ file = <<>> /\ wrote = <<>> /\ io_jobs = <<>>
        /\ thread = [t \in PoolThreads |-> Waits]
    BY DEF SinkInit
  <2>2. Waits \in Station /\ Waits.at = "wait" BY ThreadRecords DEF Station
  <2>3. \A t \in PoolThreads : thread[t] = Waits BY <2>1
  <2>4. SinkTypes BY <2>1, <2>2 DEF SinkTypes, ThreadTypes
  <2>5. \A t \in PoolThreads : ~InSink(t) BY <2>2, <2>3 DEF InSink
  <2>6. Stationed
    BY <2>1, <2>2, <2>3, <2>4, <2>5 DEF Stationed, Hosted, OneProcess, IoOnce, LineOnce
  <2>7. Known /\ Taken BY <2>1 DEF Known, Taken
  <2>8. \A u \in Users : ~Writing(u)
    BY <2>1 DEF Writing
  <2>9. Owed BY <2>1, <2>8 DEF Owed, Entries, Cover, InOrder
  <2>. QED BY <2>6, <2>7, <2>9 DEF SinkInv, Due
<1>2. SinkInv /\ [SinkNext]_sinkVars => SinkInv'
  <2> SUFFICES ASSUME SinkInv, [SinkNext]_sinkVars PROVE SinkInv' OBVIOUS
  <2>1. Stationed /\ Due BY DEF SinkInv
  <2>2. Stationed' BY <2>1, StationedStep
  <2>3. Due' BY <2>1, <2>2, DueStep
  <2>. QED BY <2>2, <2>3 DEF SinkInv
<1>. QED BY <1>1, <1>2, PTL DEF SinkSpec

(* The writes the file has are the first of those queued, in the order in   *)
(* which they were, and one thread at a time is inside process().           *)
THEOREM FileKeepsOrder == SinkSpec => []FileInOrder
<1>1. SinkInv => FileInOrder
  <2> SUFFICES ASSUME SinkInv PROVE FileInOrder OBVIOUS
  <2>1. \A s, t \in PoolThreads : InSink(s) /\ InSink(t) => s = t
    BY DEF SinkInv, Stationed, OneProcess
  <2>2. /\ file \in Seq(Users \X Nat) /\ wrote \in Seq(Users \X Nat)
        /\ Len(file) <= Len(wrote) /\ \A k \in 1..Len(file) : file[k] = wrote[k]
    BY DEF SinkInv, Stationed, SinkTypes, Due, Taken
  <2>3. SubSeq(file, 1, Len(file)) = SubSeq(wrote, 1, Len(file))
    BY <2>2
  <2>4. IsPrefix(file, wrote) BY <2>2, <2>3 DEF IsPrefix
  <2>. QED BY <2>1, <2>4 DEF FileInOrder
<1>. QED BY <1>1, SinkInvariant, PTL
=============================================================================

----------------------- MODULE ConnectionUseProofs ------------------------
(***************************************************************************)
(* Proofs about the use of the connections of ConnectionPool, for any      *)
(* number of requests, origins and connections: a connection has one user  *)
(* at a time, a cancellation reaches the connection of its request and no  *)
(* other, and the pool implements SlotAllocator; and no wakeup is lost: a  *)
(* slot that comes free while requests are queued is announced to one of   *)
(* them, and the announcement is used, kept or handed on, whatever         *)
(* cancellations and deadlines do.                                         *)
(***************************************************************************)
EXTENDS ConnectionPoolProofs, SequenceTheorems

(* bind() follows acquire() and unbind() precedes release() and discard().  *)
Paired == bound = conn

(* A request has its result exactly when its coroutine returns.             *)
Answered == \A r \in Requests : result[r] # "none" <=> pc[r] \in {"exit", "exitOff", "done"}

(* A thread inside cancel() has set cancelled_, a stop callback its own.    *)
StopperCancels ==
  \A a \in Agents : stopper[a].phase \in {"marked", "closing", "waking"} =>
    cancelled[stopper[a].req] /\ (a # All => stopper[a].req = a)

(* The connection it has copied is the one still bound, or bind() has found *)
(* the request cancelled since and closed the new one.                      *)
SnapshotFresh ==
  \A a \in Agents : stopper[a].phase = "closing" /\ bound[stopper[a].req] # NoConn =>
    \/ stopper[a].conn = bound[stopper[a].req]
    \/ link[bound[stopper[a].req]] = "closed"

(* Nobody else has the connection a stop callback is about to close: its    *)
(* request may have pooled it meanwhile, but keeps the loop until the       *)
(* callback is over.                                                        *)
ClosesOwn ==
  \A r \in Requests : stopper[r].phase = "closing" /\ stopper[r].conn # NoConn =>
    /\ \A s \in Requests : s # r => conn[s] # stopper[r].conn
    /\ \A o \in Origins : \A i \in DOMAIN pool[o] :
         pool[o][i] = stopper[r].conn => loop = r /\ pc[r] \in {"acquire", "exit"}

(* While AsyncClient::cancel runs, every request alive is one it may hit.   *)
AllOverlaps ==
  controls # {} \/ closing # {} \/ stopper[All].phase # "idle" => Live \subseteq overlap

(* A connection closed under a request: it is cancelled, or was hit.        *)
ClosedUnder ==
  \A r \in Requests : pc[r] \in Holding /\ link[conn[r]] = "closed" =>
    cancelled[r] \/ r \in overlap

Leases == ExclusiveLease /\ Paired
Reach == StopperCancels /\ SnapshotFresh /\ CancelReachesConnection
Aim == ClosesOwn /\ ClosedUnder

(* Holds beside Inv: with ExclusiveLease, the conjuncts above are what the  *)
(* other two properties need to be inductive.                               *)
LeaseInv == Leases /\ Reach /\ Aim /\ AllOverlaps /\ Answered /\ ExactCancellation

USE DEF Positions, Waiting, Running, Holding, Results, Links, Phases, Agents, Idle

-----------------------------------------------------------------------------
(* Effects of the actions on connections.                                   *)

(* The idle lists only lose entries, at their ends.                         *)
PoolKept ==
  \A o \in Origins : \A i \in DOMAIN pool'[o] : i \in DOMAIN pool[o] /\ pool'[o][i] = pool[o][i]

(* r gives its connection up, closed or to the pool.                        *)
GivesUp(r) ==
  /\ pc[r] \in Holding /\ pc'[r] \notin Holding
  /\ conn' = [conn EXCEPT ![r] = NoConn] /\ bound' = [bound EXCEPT ![r] = NoConn]
  /\ \/ pool' = pool /\ link' = [link EXCEPT ![conn[r]] = "closed"]
     \/ /\ pool' = [pool EXCEPT ![origin[r]] = Append(pool[origin[r]], conn[r])] /\ link' = link
        /\ loop' = r /\ pc'[r] \in {"acquire", "exit"}

(* r gets c, idle before or new.                                            *)
GetsConn(r, c) ==
  /\ loop = r /\ pc[r] = "take" /\ pc'[r] \in Holding /\ PoolKept
  /\ \A s \in Requests : conn[s] # c
  /\ \A o \in Origins : \A i \in DOMAIN pool'[o] : pool'[o][i] # c
  /\ \A s \in Requests : s # r /\ stopper[s].phase = "closing" => stopper[s].conn # c
  /\ conn' = [conn EXCEPT ![r] = c] /\ bound' = [bound EXCEPT ![r] = c]
  /\ \E p \in {"open", "connecting"} :
       link' = [link EXCEPT ![c] = IF cancelled[r] THEN "closed" ELSE p]

(* The other requests stay where they are, and nobody else cancels.         *)
OnlyMoves(r) ==
  /\ \A s \in Requests : s # r => pc'[s] = pc[s]
  /\ \A s \in Requests : s # r => cancelled'[s] = cancelled[s]
  /\ cancelled[r] => cancelled'[r]
  /\ cancelled'[r] => cancelled[r] \/ bound'[r] = NoConn
  /\ loop # NoReq => loop = r \/ loop' = loop
  /\ UNCHANGED <<stopper, overlap>>

(* Discarding a connection ends its lease.                                  *)
LEMMA DiscardGivesUp ==
  ASSUME PoolAssumption, Inv, NEW r \in Requests, pc[r] \in Holding, Discard(r),
         pc'[r] \notin Holding
  PROVE  GivesUp(r)
BY DiscardEffect DEF Discard, GivesUp

(* So does releasing it.                                                    *)
LEMMA ReleaseGivesUp ==
  ASSUME PoolAssumption, Inv, NEW r \in Requests, pc[r] \in Holding, Release(r),
         loop' = r, pc'[r] \in {"acquire", "exit"}
  PROVE  GivesUp(r)
<1>1. conn' = [conn EXCEPT ![r] = NoConn] /\ bound' = [bound EXCEPT ![r] = NoConn]
  BY DEF Release
<1>2. CASE pool' = [pool EXCEPT ![origin[r]] = Append(pool[origin[r]], conn[r])] /\ link' = link
  BY <1>1, <1>2 DEF GivesUp
<1>3. CASE link' = [link EXCEPT ![conn[r]] = "closed"] /\ ReleaseSlot(origin[r])
  <2>1. pool' = pool
    BY <1>3, HolderCounted, ReleaseSlotEffect DEF Inv, TypeOK, RequestTypes
  <2>. QED BY <1>1, <1>3, <2>1 DEF GivesUp
<1>. QED BY <1>2, <1>3 DEF Release

(* Taking an idle connection, or a new one.                                 *)
LEMMA TakeGets ==
  ASSUME PoolAssumption, Inv, LeaseInv, NEW r \in Requests,
         TakeIdle(r) \/ TakeSlot(r)
  PROVE  \/ \E c \in Conns : GetsConn(r, c)
         \/ PoolKept /\ pc'[r] = "parkAcquire" /\ UNCHANGED <<conn, bound, link>>
<1> DEFINE o == origin[r]
<1>1. /\ o \in Origins /\ pool[o] \in Seq(Conns) /\ pc \in [Requests -> Positions]
      /\ pool \in [Origins -> Seq(Conns)] /\ loop = r /\ pc[r] = "take"
  BY DEF Inv, TypeOK, RequestTypes, PoolTypes, TakeIdle, TakeSlot
<1>2. CASE TakeIdle(r)
  <2>1. PICK k \in DOMAIN pool[o] :
          /\ conn' = [conn EXCEPT ![r] = pool[o][k]]
          /\ pool' = [pool EXCEPT ![o] = Popped(pool[o], k)]
          /\ Bind(r, pool[o][k], "open")
    BY <1>2 DEF TakeIdle
  <2>2. k \in 1..Len(pool[o]) /\ pool[o][k] \in Conns /\ Len(pool[o]) \in Nat BY <1>1, <2>1
  <2>3. /\ DOMAIN Popped(pool[o], k) = 1..(k - 1)
        /\ \A i \in 1..(k - 1) : Popped(pool[o], k)[i] = pool[o][i]
    BY <1>1, <2>2 DEF Popped
  <2>4. PoolKept
    <3>1. pool'[o] = Popped(pool[o], k) BY <1>1, <2>1
    <3>2. \A i \in DOMAIN pool'[o] : i \in DOMAIN pool[o] /\ pool'[o][i] = pool[o][i]
      <4>1. DOMAIN pool[o] = 1..Len(pool[o]) BY <1>1
      <4>2. \A i \in 1..(k - 1) : i \in 1..Len(pool[o]) BY <2>2
      <4>. QED BY <2>3, <3>1, <4>1, <4>2
    <3>3. \A p \in Origins : p # o => pool'[p] = pool[p] BY <1>1, <2>1
    <3>. QED BY <3>2, <3>3 DEF PoolKept
  <2>5. \A p \in Origins : \A i \in DOMAIN pool'[p] : pool'[p][i] # pool[o][k]
    <3>1. SUFFICES ASSUME NEW p \in Origins, NEW i \in DOMAIN pool'[p],
                          pool'[p][i] = pool[o][k]
                   PROVE  FALSE
      OBVIOUS
    <3>2. i \in DOMAIN pool[p] /\ pool[p][i] = pool[o][k] BY <2>4, <3>1 DEF PoolKept
    <3>3. p = o /\ i = k BY <1>1, <2>1, <3>2 DEF LeaseInv, Leases, ExclusiveLease
    <3>4. DOMAIN pool'[o] = 1..(k - 1) BY <1>1, <2>1, <2>3
    <3>. QED BY <2>2, <3>1, <3>3, <3>4
  <2>6. \A s \in Requests : conn[s] # pool[o][k]
    BY <1>1, <2>1 DEF LeaseInv, Leases, ExclusiveLease
  <2>7. \A s \in Requests : s # r /\ stopper[s].phase = "closing" => stopper[s].conn # pool[o][k]
    BY <1>1, <2>1, <2>2, PoolAssumption DEF PoolAssumption, LeaseInv, Aim, ClosesOwn
  <2>8. pc'[r] \in Holding BY <1>1, <1>2 DEF TakeIdle, Continue
  <2>9. /\ bound' = [bound EXCEPT ![r] = pool[o][k]]
        /\ link' = [link EXCEPT ![pool[o][k]] = IF cancelled[r] THEN "closed" ELSE "open"]
    BY <2>1 DEF Bind
  <2>10. GetsConn(r, pool[o][k])
    BY <1>1, <2>1, <2>4, <2>5, <2>6, <2>7, <2>8, <2>9 DEF GetsConn
  <2>. QED BY <2>2, <2>10
<1>3. CASE TakeSlot(r)
  <2>1. pool' = [pool EXCEPT ![o] = <<>>] BY <1>3 DEF TakeSlot
  <2>2. PoolKept BY <1>1, <2>1 DEF PoolKept
  <2>3. CASE Continue(r, "parkAcquire") /\ UNCHANGED <<conn, bound, link>>
    BY <1>1, <2>2, <2>3 DEF Continue
  <2>4. CASE \E c \in Conns : /\ Unreferenced(c) /\ conn' = [conn EXCEPT ![r] = c]
                              /\ Bind(r, c, "connecting") /\ Suspend(r, "connecting")
    <3>1. PICK c \in Conns : /\ Unreferenced(c) /\ conn' = [conn EXCEPT ![r] = c]
                             /\ Bind(r, c, "connecting") /\ Suspend(r, "connecting")
      BY <2>4
    <3>2. \A s \in Requests : conn[s] # c /\ stopper[s].conn # c BY <3>1 DEF Unreferenced
    <3>3. \A p \in Origins : \A i \in DOMAIN pool'[p] : pool'[p][i] # c
      BY <2>2, <3>1 DEF Unreferenced, PoolKept
    <3>4. pc'[r] \in Holding BY <1>1, <3>1 DEF Suspend
    <3>5. GetsConn(r, c) BY <1>1, <2>2, <3>1, <3>2, <3>3, <3>4 DEF GetsConn, Bind
    <3>. QED BY <3>5
  <2>. QED BY <1>3, <2>3, <2>4 DEF TakeSlot
<1>. QED BY <1>2, <1>3

-----------------------------------------------------------------------------
(* A connection has one user, whatever becomes of connections.              *)
LEMMA LeasesKept ==
  ASSUME Leases, PoolKept, UNCHANGED <<conn, bound>>
  PROVE  Leases'
BY DEF Leases, ExclusiveLease, Paired, PoolKept

(* A request that gives up its connection leaves it to one place at most.   *)
LEMMA LeasesGiven ==
  ASSUME PoolAssumption, Inv, Leases, NEW r \in Requests, GivesUp(r)
  PROVE  Leases'
<1>1. /\ conn \in [Requests -> Conns \cup {NoConn}] /\ conn[r] \in Conns
      /\ NoConn \notin Conns /\ origin[r] \in Origins /\ pool \in [Origins -> Seq(Conns)]
  BY PoolAssumption DEF PoolAssumption, GivesUp, Inv, TypeOK, RequestTypes, PoolTypes, HoldersHaveConn
<1>2. Paired' BY DEF Leases, Paired, GivesUp
<1>3. /\ conn'[r] = NoConn /\ \A s \in Requests : s # r => conn'[s] = conn[s] /\ conn[s] # conn[r]
  BY <1>1 DEF GivesUp, Leases, ExclusiveLease
<1>4. \A q, s \in Requests : q # s /\ conn'[q] # NoConn => conn'[q] # conn'[s]
  BY <1>3 DEF Leases, ExclusiveLease
<1>5. \A o \in Origins : \A i \in DOMAIN pool[o] : pool[o][i] \in Conns BY <1>1
<1>6. CASE pool' = pool
  <2>1. \A o \in Origins : \A i \in DOMAIN pool[o] : \A s \in Requests : conn'[s] # pool[o][i]
    BY <1>1, <1>3, <1>5 DEF Leases, ExclusiveLease
  <2>. QED BY <1>2, <1>4, <1>6, <2>1 DEF Leases, ExclusiveLease
<1>7. CASE pool' = [pool EXCEPT ![origin[r]] = Append(pool[origin[r]], conn[r])]
  <2>1. PICK p \in Origins : p = origin[r] BY <1>1
  <2>2. /\ Len(pool[p]) \in Nat /\ DOMAIN pool[p] = 1..Len(pool[p])
        /\ DOMAIN pool'[p] = 1..(Len(pool[p]) + 1) /\ pool'[p][Len(pool[p]) + 1] = conn[r]
        /\ \A i \in DOMAIN pool[p] : pool'[p][i] = pool[p][i]
    BY <1>1, <1>7, <2>1
  <2>3. \A o \in Origins : o # p => pool'[o] = pool[o] BY <1>1, <1>7, <2>1
  <2>4. \A o \in Origins : \A i \in DOMAIN pool'[o] :
          \/ i \in DOMAIN pool[o] /\ pool'[o][i] = pool[o][i]
          \/ o = p /\ i = Len(pool[p]) + 1 /\ pool'[o][i] = conn[r]
    BY <2>2, <2>3
  <2>5. \A o \in Origins : \A i \in DOMAIN pool[o] : pool[o][i] # conn[r]
    BY DEF Leases, ExclusiveLease
  <2>6. \A o \in Origins : \A i \in DOMAIN pool'[o] : \A s \in Requests : conn'[s] # pool'[o][i]
    BY <1>1, <1>3, <1>5, <2>4 DEF Leases, ExclusiveLease
  <2>7. \A o, q \in Origins : \A i \in DOMAIN pool'[o], j \in DOMAIN pool'[q] :
          pool'[o][i] = pool'[q][j] => o = q /\ i = j
    BY <2>4, <2>5 DEF Leases, ExclusiveLease
  <2>. QED BY <1>2, <1>4, <2>6, <2>7 DEF Leases, ExclusiveLease
<1>. QED BY <1>6, <1>7 DEF GivesUp

(* A request that gets a connection is its only user.                       *)
LEMMA LeasesTaken ==
  ASSUME Inv, Leases, NEW r \in Requests, NEW c \in Conns, GetsConn(r, c)
  PROVE  Leases'
<1>1. conn \in [Requests -> Conns \cup {NoConn}] BY DEF Inv, TypeOK, RequestTypes
<1>2. Paired' BY DEF Leases, Paired, GetsConn
<1>3. conn'[r] = c /\ \A s \in Requests : s # r => conn'[s] = conn[s] BY <1>1 DEF GetsConn
<1>4. \A q, s \in Requests : q # s /\ conn'[q] # NoConn => conn'[q] # conn'[s]
  BY <1>3 DEF Leases, ExclusiveLease, GetsConn
<1>5. \A o \in Origins : \A i \in DOMAIN pool'[o] : \A s \in Requests : conn'[s] # pool'[o][i]
  BY <1>3 DEF Leases, ExclusiveLease, GetsConn, PoolKept
<1>6. \A o, q \in Origins : \A i \in DOMAIN pool'[o], j \in DOMAIN pool'[q] :
        pool'[o][i] = pool'[q][j] => o = q /\ i = j
  BY DEF Leases, ExclusiveLease, GetsConn, PoolKept
<1>. QED BY <1>2, <1>4, <1>5, <1>6 DEF Leases, ExclusiveLease

-----------------------------------------------------------------------------
(* Cancellation reaches its connection and no other.                        *)

(* Types of what the arguments below take apart.                            *)
LEMMA LinkTypes ==
  ASSUME Inv
  PROVE  /\ pc \in [Requests -> Positions] /\ link \in [Conns -> Links]
         /\ conn \in [Requests -> Conns \cup {NoConn}] /\ bound \in [Requests -> Conns \cup {NoConn}]
         /\ cancelled \in [Requests -> BOOLEAN] /\ pool \in [Origins -> Seq(Conns)]
         /\ \A r \in Requests : pc[r] \in Holding => conn[r] \in Conns
         /\ \A r \in Requests : pc[r] \notin Holding => conn[r] = NoConn
         /\ \A a \in Agents : stopper[a].phase \in {"marked", "closing", "waking"}
                               => stopper[a].req \in Requests
         /\ \A a \in Agents : stopper[a].conn \in Conns \cup {NoConn}
BY DEF Inv, TypeOK, RequestTypes, ControlTypes, PoolTypes, StopTypes, HoldersHaveConn,
       StoppersHaveReq

(* Steps that give no connection to anyone and close none.                  *)
LEMMA QuietReach ==
  ASSUME PoolAssumption, Inv, LeaseInv, PoolKept, UNCHANGED <<conn, bound, link>>,
         \A a \in Agents : /\ stopper'[a].phase = stopper[a].phase
                           /\ stopper'[a].req = stopper[a].req /\ stopper'[a].conn = stopper[a].conn,
         \A s \in Requests : /\ cancelled[s] => cancelled'[s]
                             /\ cancelled'[s] => cancelled[s] \/ bound[s] = NoConn,
         \A s \in Requests : pc'[s] \in Holding => pc[s] \in Holding,
         \A s \in Requests : loop = s /\ pc[s] \in {"acquire", "exit"}
                               /\ stopper[s].phase = "closing" /\ cancelled[s]
                             => loop' = s /\ pc'[s] \in {"acquire", "exit"},
         overlap \subseteq overlap'
  PROVE  Reach' /\ Aim'
<1> USE LinkTypes DEF LeaseInv, Leases, Reach, Aim
<1>1. StopperCancels' BY DEF StopperCancels
<1>2. SnapshotFresh' BY DEF SnapshotFresh
<1>3. CancelReachesConnection' BY DEF CancelReachesConnection
<1>4. ClosesOwn'
  <2>1. ASSUME NEW r \in Requests, stopper[r].phase = "closing", stopper[r].conn # NoConn,
               NEW o \in Origins, NEW i \in DOMAIN pool'[o], pool'[o][i] = stopper[r].conn
        PROVE  loop' = r /\ pc'[r] \in {"acquire", "exit"}
    <3>1. i \in DOMAIN pool[o] /\ pool[o][i] = stopper[r].conn BY <2>1 DEF PoolKept
    <3>2. loop = r /\ pc[r] \in {"acquire", "exit"} BY <2>1, <3>1 DEF ClosesOwn
    <3>3. cancelled[r] BY <2>1, PoolAssumption DEF StopperCancels, PoolAssumption
    <3>. QED BY <2>1, <3>2, <3>3
  <2>. QED BY <2>1 DEF ClosesOwn
<1>5. ClosedUnder' BY DEF ClosedUnder
<1>. QED BY <1>1, <1>2, <1>3, <1>4, <1>5

(* discard() and release().                                                 *)
LEMMA GivenReach ==
  ASSUME PoolAssumption, Inv, LeaseInv, NEW r \in Requests, GivesUp(r), OnlyMoves(r)
  PROVE  Reach' /\ Aim'
<1> USE LinkTypes DEF LeaseInv, Leases, Reach, Aim
<1>1. /\ conn'[r] = NoConn /\ bound'[r] = NoConn
      /\ \A s \in Requests : s # r => conn'[s] = conn[s] /\ bound'[s] = bound[s]
      /\ \A d \in Conns : link[d] = "closed" => link'[d] = "closed"
      /\ \A d \in Conns : d # conn[r] => link'[d] = link[d]
  BY DEF GivesUp
<1>2. \A s \in Requests : cancelled[s] => cancelled'[s] BY DEF OnlyMoves
<1>3. StopperCancels' BY <1>2 DEF StopperCancels, OnlyMoves
<1>4. SnapshotFresh' BY <1>1 DEF SnapshotFresh, OnlyMoves
<1>5. CancelReachesConnection' BY <1>1 DEF CancelReachesConnection, OnlyMoves
<1>6. ASSUME NEW q \in Requests, stopper[q].phase = "closing", stopper[q].conn # NoConn
      PROVE  /\ \A s \in Requests : s # q => conn'[s] # stopper[q].conn
             /\ \A o \in Origins : \A i \in DOMAIN pool'[o] :
                  pool'[o][i] = stopper[q].conn => loop' = q /\ pc'[q] \in {"acquire", "exit"}
  <2>1. /\ \A s \in Requests : s # q => conn[s] # stopper[q].conn
        /\ \A o \in Origins : \A i \in DOMAIN pool[o] :
             pool[o][i] = stopper[q].conn => loop = q /\ pc[q] \in {"acquire", "exit"}
    BY <1>6 DEF ClosesOwn
  <2>2. ASSUME NEW o \in Origins, NEW i \in DOMAIN pool'[o], pool'[o][i] = stopper[q].conn
        PROVE  loop' = q /\ pc'[q] \in {"acquire", "exit"}
    <3>1. CASE i \in DOMAIN pool[o] /\ pool[o][i] = stopper[q].conn
      <4>1. loop = q /\ pc[q] \in {"acquire", "exit"} BY <2>1, <3>1
      <4>2. q # r /\ q # NoReq BY <4>1, PoolAssumption DEF GivesUp, PoolAssumption
      <4>. QED BY <4>1, <4>2 DEF OnlyMoves
    <3>2. CASE ~(i \in DOMAIN pool[o] /\ pool[o][i] = stopper[q].conn)
      <4>1. /\ pool' = [pool EXCEPT ![origin[r]] = Append(pool[origin[r]], conn[r])]
            /\ loop' = r /\ pc'[r] \in {"acquire", "exit"}
        BY <2>2, <3>2 DEF GivesUp
      <4>2. o = origin[r] BY <2>2, <3>2, <4>1
      <4>3. pool[o] \in Seq(Conns) /\ conn[r] \in Conns BY DEF GivesUp
      <4>4. pool'[o] = Append(pool[o], conn[r]) BY <4>1, <4>2
      <4>5. pool'[o][i] = conn[r] BY <2>2, <3>2, <4>3, <4>4
      <4>. QED BY <2>1, <2>2, <4>1, <4>5
    <3>. QED BY <3>1, <3>2
  <2>. QED BY <1>1, <1>6, <2>1, <2>2
<1>7. ClosesOwn' BY <1>6 DEF ClosesOwn, OnlyMoves
<1>8. ClosedUnder'
  <2>1. \A s \in Requests : pc'[s] \in Holding => s # r /\ pc[s] \in Holding /\ conn[s] # conn[r]
    BY DEF GivesUp, OnlyMoves, ExclusiveLease
  <2>. QED BY <1>1, <1>2, <2>1 DEF ClosedUnder, OnlyMoves
<1>. QED BY <1>3, <1>4, <1>5, <1>7, <1>8

(* bind() after acquire().                                                  *)
LEMMA TakenReach ==
  ASSUME PoolAssumption, Inv, LeaseInv, NEW r \in Requests, NEW c \in Conns, GetsConn(r, c),
         OnlyMoves(r)
  PROVE  Reach' /\ Aim'
<1> USE LinkTypes DEF LeaseInv, Leases, Reach, Aim
<1>1. /\ conn'[r] = c /\ bound'[r] = c /\ conn[r] = NoConn /\ bound[r] = NoConn
      /\ \A s \in Requests : s # r => conn'[s] = conn[s] /\ bound'[s] = bound[s] /\ bound[s] # c
      /\ \A d \in Conns : d # c => link'[d] = link[d]
      /\ cancelled[r] => link'[c] = "closed"
      /\ link'[c] = "closed" => cancelled[r]
  BY DEF GetsConn, Paired
<1>2. \A s \in Requests : cancelled[s] => cancelled'[s] BY DEF OnlyMoves
<1>3. cancelled'[r] => cancelled[r] BY <1>1, PoolAssumption DEF OnlyMoves, PoolAssumption
<1>4. StopperCancels' BY <1>2 DEF StopperCancels, OnlyMoves
<1>5. SnapshotFresh' BY <1>1 DEF SnapshotFresh, StopperCancels, OnlyMoves
<1>6. CancelReachesConnection' BY <1>1, <1>3 DEF CancelReachesConnection, OnlyMoves
<1>7. ASSUME NEW q \in Requests, stopper[q].phase = "closing", stopper[q].conn # NoConn
      PROVE  /\ \A s \in Requests : s # q => conn'[s] # stopper[q].conn
             /\ \A o \in Origins : \A i \in DOMAIN pool'[o] : pool'[o][i] # stopper[q].conn
  <2>1. /\ \A s \in Requests : s # q => conn[s] # stopper[q].conn
        /\ \A o \in Origins : \A i \in DOMAIN pool[o] : pool[o][i] # stopper[q].conn
    BY <1>7 DEF ClosesOwn, GetsConn
  <2>2. q # r => stopper[q].conn # c BY <1>7 DEF GetsConn
  <2>. QED BY <1>1, <2>1, <2>2 DEF GetsConn, PoolKept
<1>8. ClosesOwn' BY <1>7 DEF ClosesOwn, OnlyMoves
<1>9. ClosedUnder'
  <2>1. \A s \in Requests : s # r /\ pc'[s] \in Holding =>
          pc[s] \in Holding /\ conn[s] \in Conns /\ conn[s] # c
    BY DEF OnlyMoves, GetsConn
  <2>. QED BY <1>1, <1>2, <2>1 DEF ClosedUnder, OnlyMoves
<1>. QED BY <1>4, <1>5, <1>6, <1>8, <1>9

(* What a thread inside cancel() does to its own entry.                     *)
LEMMA StopperEffect ==
  ASSUME Inv, NEW a \in Agents
  PROVE  /\ \A b \in Agents : b # a /\ StopStep(a) => stopper'[b] = stopper[b]
         /\ StopSnapshot(a) => /\ stopper'[a].phase = "closing" /\ stopper'[a].req = stopper[a].req
                               /\ stopper'[a].conn = bound[stopper[a].req]
         /\ StopClose(a) => /\ stopper'[a].phase = "waking" /\ stopper'[a].req = stopper[a].req
         /\ StopWake(a) => stopper'[a].phase \in {"idle", "ended"}
BY DEF StopStep, StopSnapshot, StopClose, StopWake, Inv, TypeOK, StopTypes

(* A thread sets cancelled_: from now on bind() and the thread itself see   *)
(* to the connection.                                                       *)
LEMMA MarkReach ==
  ASSUME PoolAssumption, Inv, LeaseInv, NEW r \in Requests, StopMark(r) \/ AllMark(r)
  PROVE  Leases' /\ Reach' /\ Aim'
<1> DEFINE mark == [Idle EXCEPT !.phase = "marked", !.req = r]
<1>1. /\ UNCHANGED <<pc, loop, conn, bound, pool, link, overlap>>
      /\ cancelled' = [cancelled EXCEPT ![r] = TRUE]
  BY DEF StopMark, AllMark, StopUnchanged, poolVars
<1>2. PICK a \in Agents :
        stopper' = [stopper EXCEPT ![a] = mark] /\ a \in {r, All} /\ stopper[a].phase = "idle"
  BY DEF StopMark, AllMark
<1>3. mark.phase = "marked" /\ mark.req = r OBVIOUS
<1> HIDE DEF mark
<1>4. /\ stopper'[a].phase = "marked" /\ stopper'[a].req = r
      /\ \A b \in Agents : b # a => stopper'[b] = stopper[b]
  BY <1>2, <1>3 DEF Inv, TypeOK, StopTypes
<1> USE LinkTypes DEF LeaseInv, Reach, Aim
<1>5. \A s \in Requests : cancelled'[s] <=> cancelled[s] \/ s = r BY <1>1
<1>6. Leases' BY <1>1, LeasesKept DEF PoolKept
<1>7. StopperCancels' BY <1>2, <1>4, <1>5 DEF StopperCancels
<1>8. SnapshotFresh' BY <1>1, <1>4 DEF SnapshotFresh
<1>9. CancelReachesConnection'
  <2>1. ASSUME NEW s \in Requests, cancelled'[s], bound[s] # NoConn, link[bound[s]] # "closed"
        PROVE  \E b \in Agents : stopper'[b].req = s /\ stopper'[b].phase \in {"marked", "closing"}
    <3>1. CASE s = r BY <1>4, <3>1
    <3>2. CASE s # r
      <4>1. PICK b \in Agents : stopper[b].req = s /\ stopper[b].phase \in {"marked", "closing"}
        BY <1>5, <2>1, <3>2 DEF CancelReachesConnection
      <4>. QED BY <1>2, <1>4, <4>1
    <3>. QED BY <3>1, <3>2
  <2>. QED BY <1>1, <2>1 DEF CancelReachesConnection
<1>10. ClosesOwn' BY <1>1, <1>4 DEF ClosesOwn
<1>11. ClosedUnder' BY <1>1, <1>5 DEF ClosedUnder
<1>. QED BY <1>6, <1>7, <1>8, <1>9, <1>10, <1>11

(* It copies the connection, closes it and wakes the waiter.                *)
LEMMA StopReach ==
  ASSUME PoolAssumption, Inv, LeaseInv, NEW a \in Agents, StopStep(a)
  PROVE  Leases' /\ Reach' /\ Aim'
<1> USE LinkTypes DEF LeaseInv, Reach, Aim
<1>1. /\ UNCHANGED <<pc, loop, conn, bound, pool, overlap, cancelled>>
      /\ \A b \in Agents : b # a => stopper'[b] = stopper[b]
  BY StopperEffect DEF StopStep, StopSnapshot, StopClose, StopWake, StopUnchanged, poolVars
<1>2. Leases' BY <1>1, LeasesKept DEF PoolKept
<1>3. CASE StopSnapshot(a)
  <2>1. /\ stopper'[a].phase = "closing" /\ stopper'[a].req = stopper[a].req
        /\ stopper'[a].conn = bound[stopper[a].req] /\ stopper[a].phase = "marked" /\ link' = link
    BY <1>3, StopperEffect DEF StopSnapshot
  <2>2. StopperCancels' BY <1>1, <2>1 DEF StopperCancels
  <2>3. SnapshotFresh' BY <1>1, <2>1 DEF SnapshotFresh
  <2>4. CancelReachesConnection'
    <3>1. \A b \in Agents : stopper[b].phase \in {"marked", "closing"} =>
            stopper'[b].phase \in {"marked", "closing"} /\ stopper'[b].req = stopper[b].req
      BY <1>1, <2>1
    <3>. QED BY <1>1, <2>1, <3>1 DEF CancelReachesConnection
  <2>5. a # All => stopper[a].req = a BY <2>1 DEF StopperCancels
  <2>6. ClosesOwn'
    <3>1. ASSUME NEW r \in Requests, r = a, stopper'[r].conn # NoConn
          PROVE  /\ stopper'[r].conn = conn[r]
                 /\ \A s \in Requests : s # r => conn[s] # conn[r]
                 /\ \A o \in Origins : \A i \in DOMAIN pool[o] : pool[o][i] # conn[r]
      BY <2>1, <2>5, <3>1, PoolAssumption DEF PoolAssumption, Leases, Paired, ExclusiveLease
    <3>. QED BY <1>1, <3>1 DEF ClosesOwn
  <2>7. ClosedUnder' BY <1>1, <2>1 DEF ClosedUnder
  <2>. QED BY <1>2, <2>2, <2>3, <2>4, <2>6, <2>7
<1>4. CASE StopClose(a)
  <2>1. /\ stopper'[a].phase = "waking" /\ stopper'[a].req = stopper[a].req
        /\ stopper[a].phase = "closing"
    BY <1>4, StopperEffect DEF StopClose
  <2>2. /\ \A d \in Conns : link[d] = "closed" => link'[d] = "closed"
        /\ \A d \in Conns : d # stopper[a].conn => link'[d] = link[d]
        /\ stopper[a].conn # NoConn => link'[stopper[a].conn] = "closed"
    BY <1>4 DEF StopClose
  <2>3. StopperCancels' BY <1>1, <2>1 DEF StopperCancels
  <2>4. SnapshotFresh' BY <1>1, <2>1, <2>2 DEF SnapshotFresh
  <2>5. CancelReachesConnection'
    <3>1. ASSUME NEW s \in Requests, cancelled[s], bound[s] # NoConn, link'[bound[s]] # "closed"
          PROVE  \E b \in Agents : stopper'[b].req = s /\ stopper'[b].phase \in {"marked", "closing"}
      <4>1. link[bound[s]] # "closed" BY <2>2, <3>1
      <4>2. PICK b \in Agents : stopper[b].req = s /\ stopper[b].phase \in {"marked", "closing"}
        BY <3>1, <4>1 DEF CancelReachesConnection
      <4>3. b # a BY <2>1, <2>2, <3>1, <4>1, <4>2 DEF SnapshotFresh
      <4>. QED BY <1>1, <4>2, <4>3
    <3>. QED BY <1>1, <3>1 DEF CancelReachesConnection
  <2>6. ClosesOwn' BY <1>1, <2>1 DEF ClosesOwn
  <2>7. ClosedUnder'
    <3>1. ASSUME NEW s \in Requests, pc[s] \in Holding, conn[s] = stopper[a].conn
          PROVE  cancelled[s] \/ s \in overlap
      <4>1. CASE a = All
        <5>1. s \in Live BY <3>1 DEF Live
        <5>. QED BY <2>1, <4>1, <5>1 DEF AllOverlaps
      <4>2. CASE a # All
        <5>1. a \in Requests /\ stopper[a].req = a /\ cancelled[a]
          BY <2>1, <4>2 DEF StopperCancels
        <5>2. conn[s] # NoConn BY <3>1, PoolAssumption DEF PoolAssumption
        <5>3. s = a BY <2>1, <3>1, <5>1, <5>2 DEF ClosesOwn
        <5>. QED BY <5>1, <5>3
      <4>. QED BY <4>1, <4>2
    <3>. QED BY <1>1, <2>2, <3>1 DEF ClosedUnder
  <2>. QED BY <1>2, <2>3, <2>4, <2>5, <2>6, <2>7
<1>5. CASE StopWake(a)
  <2>1. /\ stopper'[a].phase \in {"idle", "ended"} /\ stopper[a].phase = "waking" /\ link' = link
    BY <1>5, StopperEffect DEF StopWake
  <2>2. StopperCancels' BY <1>1, <2>1 DEF StopperCancels
  <2>3. SnapshotFresh' BY <1>1, <2>1 DEF SnapshotFresh
  <2>4. CancelReachesConnection'
    <3>1. \A b \in Agents : stopper[b].phase \in {"marked", "closing"} => stopper'[b] = stopper[b]
      BY <1>1, <2>1
    <3>. QED BY <1>1, <2>1, <3>1 DEF CancelReachesConnection
  <2>5. ClosesOwn' BY <1>1, <2>1 DEF ClosesOwn
  <2>6. ClosedUnder' BY <1>1, <2>1 DEF ClosedUnder
  <2>. QED BY <1>2, <2>2, <2>3, <2>4, <2>5, <2>6
<1>. QED BY <1>3, <1>4, <1>5 DEF StopStep

(* AsyncClient::cancel closes a connection it found active.                 *)
LEMMA CloseActiveReach ==
  ASSUME PoolAssumption, Inv, LeaseInv, NEW c \in Conns, CloseActive(c)
  PROVE  Leases' /\ Reach' /\ Aim'
<1> USE LinkTypes DEF LeaseInv, Reach, Aim
<1>1. /\ UNCHANGED <<pc, loop, conn, bound, pool, overlap, cancelled, stopper>>
      /\ link' = [link EXCEPT ![c] = "closed"] /\ c \in closing
  BY DEF CloseActive, StopUnchanged, poolVars
<1>2. Leases' BY <1>1, LeasesKept DEF PoolKept
<1>3. StopperCancels' BY <1>1 DEF StopperCancels
<1>4. SnapshotFresh' BY <1>1 DEF SnapshotFresh
<1>5. CancelReachesConnection' BY <1>1 DEF CancelReachesConnection
<1>6. ClosesOwn' BY <1>1 DEF ClosesOwn
<1>7. \A s \in Requests : pc[s] \in Holding => s \in overlap
  BY <1>1 DEF AllOverlaps, Live
<1>8. ClosedUnder' BY <1>1, <1>7 DEF ClosedUnder
<1>. QED BY <1>2, <1>3, <1>4, <1>5, <1>6, <1>8

(* The transport opens a connection that was not closed.                    *)
LEMMA ConnectOkReach ==
  ASSUME PoolAssumption, Inv, LeaseInv, NEW r \in Requests, ConnectOk(r)
  PROVE  Leases' /\ Reach' /\ Aim'
<1> USE LinkTypes DEF LeaseInv, Reach, Aim
<1>1. /\ UNCHANGED <<conn, bound, pool, overlap, cancelled, stopper>>
      /\ link' = [link EXCEPT ![conn[r]] = "open"] /\ link[conn[r]] = "connecting"
      /\ loop = NoReq /\ pc[r] = "connecting" /\ pc' = [pc EXCEPT ![r] = "connected"]
  BY DEF ConnectOk, Continue, poolVars, userVars
<1>2. Leases' BY <1>1, LeasesKept DEF PoolKept
<1>3. \A d \in Conns : link'[d] = "closed" <=> link[d] = "closed" BY <1>1
<1>4. StopperCancels' BY <1>1 DEF StopperCancels
<1>5. SnapshotFresh' BY <1>1, <1>3 DEF SnapshotFresh
<1>6. CancelReachesConnection' BY <1>1, <1>3 DEF CancelReachesConnection
<1>7. ClosesOwn' BY <1>1, PoolAssumption DEF ClosesOwn, PoolAssumption
<1>8. ClosedUnder' BY <1>1, <1>3 DEF ClosedUnder
<1>. QED BY <1>2, <1>4, <1>5, <1>6, <1>7, <1>8

-----------------------------------------------------------------------------
(* Every step keeps connections exclusive and cancellations on target.      *)
LEMMA ConnectionsStep ==
  ASSUME PoolAssumption, Inv, LeaseInv, [Next]_vars
  PROVE  Leases' /\ Reach' /\ Aim'
<1> DEFINE Goal == Leases' /\ Reach' /\ Aim'
<1> USE DEF reqVars, ctlVars, waitVars, poolVars, userVars
<1>0. /\ pc \in [Requests -> Positions] /\ loop \in Requests \cup {NoReq}
      /\ cancelled \in [Requests -> BOOLEAN] /\ flag \in [Requests -> BOOLEAN]
      /\ NoReq \notin Requests /\ Leases
      /\ \A r \in Requests : pc[r] \notin Holding => bound[r] = NoConn
  BY LinkTypes, PoolAssumption
  DEF Inv, TypeOK, RequestTypes, ControlTypes, PoolAssumption, LeaseInv, Leases, Paired
<1>1. ASSUME NEW r \in Requests, pc' = [pc EXCEPT ![r] = pc'[r]], PoolKept,
             UNCHANGED <<conn, bound, link, stopper>>, overlap \subseteq overlap',
             pc'[r] \in Holding => pc[r] \in Holding,
             cancelled' = cancelled
               \/ (SeenStop(r) /\ (pc[r] \notin Holding \/ ~Stopped(r))),
             loop' = loop \/ loop = NoReq \/ loop = r,
             pc[r] \in {"acquire", "exit"} /\ loop = r
               /\ stopper[r].phase = "closing" /\ cancelled[r] =>
               loop' = r /\ pc'[r] \in {"acquire", "exit"}
      PROVE  Goal
  <2>1. Leases' BY <1>0, <1>1, LeasesKept
  <2>2. \A t \in Requests : t # r => pc'[t] = pc[t] BY <1>0, <1>1
  <2>3. \A t \in Requests : /\ cancelled[t] => cancelled'[t]
                            /\ cancelled'[t] => cancelled[t] \/ bound[t] = NoConn
    BY <1>0, <1>1 DEF SeenStop, Stopped
  <2>4. \A t \in Requests : pc'[t] \in Holding => pc[t] \in Holding BY <1>1, <2>2
  <2>5. \A t \in Requests : loop = t /\ pc[t] \in {"acquire", "exit"}
                              /\ stopper[t].phase = "closing" /\ cancelled[t] =>
          loop' = t /\ pc'[t] \in {"acquire", "exit"}
    BY <1>0, <1>1, <2>2
  <2>. QED BY <1>1, <2>1, <2>3, <2>4, <2>5, QuietReach
<1>2. ASSUME NEW r \in Requests, GivesUp(r), OnlyMoves(r) PROVE Goal
  BY <1>0, <1>2, LeasesGiven, GivenReach
<1>3. ASSUME NEW r \in Requests, Start(r) \/ Precheck(r) \/ Resume(r) \/ Admit(r) \/ Park(r)
      PROVE  Goal
  BY <1>0, <1>1, <1>3
  DEF PoolKept, Start, Precheck, Resume, Admit, Park, Continue, Return, Suspend
<1>4. ASSUME NEW r \in Requests, Notify(r) \/ SetFlag(r) \/ Expire(r) PROVE Goal
  BY <1>0, <1>1, <1>4 DEF PoolKept, Notify, SetFlag, Expire
<1>5. ASSUME NEW r \in Requests, Acquire(r) \/ Leave(r) PROVE Goal
  BY <1>0, <1>1, <1>5
  DEF PoolKept, Acquire, Leave, Continue, Return, Stopped, CallbackOver
<1>6. ASSUME NEW r \in Requests, Ready(r) PROVE Goal
  <2>1. /\ UNCHANGED <<conn, bound, link, pool, cancelled, overlap>> /\ loop = NoReq
        /\ \A t \in Requests : pc'[t] \in Holding => pc[t] \in Holding
    BY <1>0, <1>6 DEF Ready, Continue
  <2>2. \A a \in Agents : /\ stopper'[a].phase = stopper[a].phase
                          /\ stopper'[a].req = stopper[a].req /\ stopper'[a].conn = stopper[a].conn
    BY <1>6 DEF Ready, Inv, TypeOK, StopTypes
  <2>3. PoolKept BY <2>1 DEF PoolKept
  <2>4. Leases' BY <1>0, <2>1, <2>3, LeasesKept
  <2>. QED BY <1>0, <2>1, <2>2, <2>3, <2>4, QuietReach
<1>7. ASSUME NEW r \in Requests, TakeIdle(r) \/ TakeSlot(r) PROVE Goal
  <2>1. /\ loop = r /\ pc[r] = "take" /\ pc' = [pc EXCEPT ![r] = pc'[r]]
        /\ UNCHANGED <<stopper, overlap, cancelled>>
    BY <1>0, <1>7 DEF TakeIdle, TakeSlot, Continue, Suspend
  <2>2. OnlyMoves(r) BY <1>0, <2>1 DEF OnlyMoves
  <2>3. CASE \E c \in Conns : GetsConn(r, c) BY <1>0, <2>2, <2>3, LeasesTaken, TakenReach
  <2>4. CASE PoolKept /\ pc'[r] = "parkAcquire" /\ UNCHANGED <<conn, bound, link>>
    BY <1>0, <1>1, <2>1, <2>4
  <2>. QED BY <1>7, <2>3, <2>4, TakeGets
<1>8. ASSUME NEW r \in Requests, pc[r] \in Holding, Discard(r),
             Continue(r, "acquire") \/ \E res \in Results : Return(r, res),
             loop \in {NoReq, r}, cancelled' = cancelled \/ SeenStop(r),
             UNCHANGED <<stopper, overlap>>
      PROVE  Goal
  <2>1. GivesUp(r) BY <1>0, <1>8, DiscardGivesUp DEF Continue, Return
  <2>2. bound'[r] = NoConn BY <1>8 DEF Discard, Inv, TypeOK, ControlTypes
  <2>3. OnlyMoves(r)
    BY <1>0, <1>8, <2>2 DEF OnlyMoves, SeenStop, Stopped, Continue, Return
  <2>. QED BY <1>2, <2>1, <2>3
<1>9. ASSUME NEW r \in Requests, ConnectFail(r) PROVE Goal
  BY <1>8, <1>9 DEF ConnectFail
<1>10. ASSUME NEW r \in Requests, Connected(r) PROVE Goal
  <2>1. CASE Stopped(r) BY <1>8, <1>10, <2>1 DEF Connected
  <2>2. CASE ~Stopped(r)
    BY <1>0, <1>1, <1>10, <2>2 DEF PoolKept, Connected, Continue, Suspend
  <2>. QED BY <2>1, <2>2
<1>11. ASSUME NEW r \in Requests, HandshakeOk(r) PROVE Goal
  BY <1>0, <1>1, <1>11 DEF PoolKept, HandshakeOk, Continue
<1>12. ASSUME NEW r \in Requests, Leased(r) PROVE Goal
  <2>1. CASE Stopped(r) \/ expired[r] BY <1>8, <1>12, <2>1 DEF Leased
  <2>2. CASE ~(Stopped(r) \/ expired[r])
    BY <1>0, <1>1, <1>12, <2>2 DEF PoolKept, Leased, Suspend
  <2>. QED BY <2>1, <2>2
<1>13. ASSUME NEW r \in Requests, IoFail(r) PROVE Goal
  BY <1>8, <1>13 DEF IoFail
<1>14. ASSUME NEW r \in Requests, IoOk(r) PROVE Goal
  <2>1. CASE Stopped(r) BY <1>8, <1>14, <2>1 DEF IoOk
  <2>2. CASE ~Stopped(r)
    BY <1>0, <1>1, <1>14, <2>2 DEF PoolKept, IoOk, Continue
  <2>. QED BY <2>1, <2>2
<1>15. ASSUME NEW r \in Requests, Finish(r) PROVE Goal
  <2>1. /\ pc[r] = "finish" /\ Release(r) /\ UNCHANGED <<stopper, overlap, cancelled>> /\ loop = r
        /\ Continue(r, "acquire") \/ \E res \in Results : Return(r, res)
    BY <1>15 DEF Finish
  <2>2. /\ loop' = r /\ pc'[r] \in {"acquire", "exit"}
        /\ \A t \in Requests : t # r => pc'[t] = pc[t]
    BY <1>0, <2>1 DEF Continue, Return
  <2>3. GivesUp(r) BY <2>1, <2>2, ReleaseGivesUp
  <2>4. OnlyMoves(r) BY <2>1, <2>2 DEF OnlyMoves
  <2>. QED BY <1>2, <2>3, <2>4
<1>16. ASSUME CancelAll \/ Quiescent \/ UNCHANGED vars PROVE Goal
  <2>1. /\ UNCHANGED <<pc, loop, conn, bound, link, pool, cancelled, stopper>>
        /\ overlap \subseteq overlap'
    BY <1>16 DEF CancelAll, Quiescent, vars
  <2>2. PoolKept BY <2>1 DEF PoolKept
  <2>3. Leases' BY <1>0, <2>1, <2>2, LeasesKept
  <2>. QED BY <2>1, <2>2, <2>3, QuietReach
<1> HIDE DEF Goal
<1>17. ASSUME NEW r \in Requests, StopMark(r) \/ AllMark(r) \/ ConnectOk(r) PROVE Goal
  BY <1>17, MarkReach, ConnectOkReach DEF Goal
<1>18. ASSUME NEW a \in Agents, StopStep(a) PROVE Goal BY <1>18, StopReach DEF Goal
<1>19. ASSUME NEW c \in Conns, CloseActive(c) PROVE Goal BY <1>19, CloseActiveReach DEF Goal
<1>20. Goal
  BY <1>3, <1>4, <1>5, <1>6, <1>7, <1>9, <1>10, <1>11, <1>12, <1>13, <1>14, <1>15, <1>16,
     <1>17, <1>18, <1>19
  DEF Next, LoopStep, IoStep, UserStep
<1>. QED BY <1>20 DEF Goal

(* Requests that start while AsyncClient::cancel runs are counted in, and   *)
(* so are all that are alive when it begins.                                *)
LEMMA OverlapStep ==
  ASSUME PoolAssumption, Inv, LeaseInv, [Next]_vars
  PROVE  AllOverlaps'
<1> USE DEF reqVars, waitVars, poolVars, userVars
<1>0. /\ pc \in [Requests -> Positions] /\ AllOverlaps /\ All \notin Requests /\ All \in Agents
      /\ controls \subseteq Requests
  BY PoolAssumption DEF Inv, TypeOK, RequestTypes, StopTypes, LeaseInv, PoolAssumption
<1>1. ASSUME UNCHANGED <<controls, closing, overlap>>,
             stopper'[All].phase = stopper[All].phase, Live' \subseteq Live
      PROVE  AllOverlaps'
  BY <1>0, <1>1 DEF AllOverlaps
<1>2. ASSUME NEW r \in Requests, LoopStep(r) \/ IoStep(r) \/ SetFlag(r) \/ Expire(r)
      PROVE  AllOverlaps'
  <2>1. UNCHANGED <<controls, closing, overlap>>
    BY <1>2 DEF LoopStep, IoStep, Precheck, Resume, Admit, Park, Notify, Ready, Acquire,
       TakeIdle, TakeSlot, Connected, Leased, Finish, Leave, ConnectOk, ConnectFail,
       HandshakeOk, IoFail, IoOk, SetFlag, Expire
  <2>2. Live' \subseteq Live
    BY <1>0, <1>2 DEF Live, LoopStep, IoStep, Precheck, Resume, Admit, Park, Notify, Ready,
       Acquire, TakeIdle, TakeSlot, Connected, Leased, Finish, Leave, ConnectOk, ConnectFail,
       HandshakeOk, IoFail, IoOk, SetFlag, Expire, Continue, Return, Suspend
  <2>3. stopper'[All].phase = stopper[All].phase
    <3>1. CASE Ready(r) BY <1>0, <3>1 DEF Ready, Inv, TypeOK, StopTypes
    <3>2. CASE ~Ready(r)
      BY <1>2, <3>2 DEF LoopStep, IoStep, Precheck, Resume, Admit, Park, Notify, Acquire,
         TakeIdle, TakeSlot, Connected, Leased, Finish, Leave, ConnectOk, ConnectFail,
         HandshakeOk, IoFail, IoOk, SetFlag, Expire
    <3>. QED BY <3>1, <3>2
  <2>. QED BY <1>1, <2>1, <2>2, <2>3
<1>3. ASSUME NEW r \in Requests, Start(r) PROVE AllOverlaps'
  <2>1. Live' = Live \cup {r} BY <1>0, <1>3 DEF Start, Live
  <2>. QED BY <1>0, <1>3, <2>1 DEF Start, AllOverlaps
<1>4. ASSUME NEW r \in Requests, StopMark(r) PROVE AllOverlaps'
  <2>1. UNCHANGED <<controls, closing, overlap, pc>> BY <1>4 DEF StopMark, StopUnchanged
  <2>2. stopper'[All] = stopper[All] BY <1>0, <1>4 DEF StopMark, Inv, TypeOK, StopTypes
  <2>. QED BY <1>1, <2>1, <2>2 DEF Live
<1>5. ASSUME NEW r \in Requests, AllMark(r) PROVE AllOverlaps'
  BY <1>0, <1>5 DEF AllMark, StopUnchanged, AllOverlaps, Live
<1>6. ASSUME NEW a \in Agents, StopStep(a) PROVE AllOverlaps'
  <2>1. UNCHANGED <<controls, closing, overlap, pc>>
    BY <1>6 DEF StopStep, StopSnapshot, StopClose, StopWake, StopUnchanged
  <2>2. CASE a = All
    <3>1. stopper[All].phase # "idle"
      BY <1>6, <2>2 DEF StopStep, StopSnapshot, StopClose, StopWake
    <3>. QED BY <1>0, <2>1, <3>1 DEF AllOverlaps, Live
  <2>3. CASE a # All
    <3>1. stopper'[All] = stopper[All] BY <1>0, <1>6, <2>3, StopperEffect
    <3>. QED BY <1>1, <2>1, <3>1 DEF Live
  <2>. QED BY <2>2, <2>3
<1>7. ASSUME CancelAll PROVE AllOverlaps'
  BY <1>0, <1>7 DEF CancelAll, AllOverlaps, Live
<1>8. ASSUME NEW c \in Conns, CloseActive(c) PROVE AllOverlaps'
  BY <1>0, <1>8 DEF CloseActive, StopUnchanged, AllOverlaps, Live
<1>9. ASSUME Quiescent \/ UNCHANGED vars PROVE AllOverlaps'
  BY <1>1, <1>9 DEF Quiescent, vars, Live
<1>. QED BY <1>2, <1>3, <1>4, <1>5, <1>6, <1>7, <1>8, <1>9 DEF Next, UserStep

(* A request answers once, when it returns.                                 *)
LEMMA AnsweredStep ==
  ASSUME PoolAssumption, Inv, LeaseInv, [Next]_vars
  PROVE  Answered'
<1> USE DEF reqVars, waitVars, poolVars, userVars
<1>0. /\ pc \in [Requests -> Positions] /\ result \in [Requests -> Results] /\ Answered
  BY DEF Inv, TypeOK, RequestTypes, LeaseInv
<1>1. ASSUME NEW r \in Requests,
             Start(r) \/ Precheck(r) \/ Resume(r) \/ Admit(r) \/ Park(r) \/ Notify(r) \/ Ready(r)
      PROVE  Answered'
  BY <1>0, <1>1 DEF Answered, Start, Precheck, Resume, Admit, Park, Notify, Ready,
     Continue, Return, Suspend
<1>2. ASSUME NEW r \in Requests,
             Acquire(r) \/ TakeIdle(r) \/ TakeSlot(r) \/ Connected(r) \/ Leased(r) \/ Leave(r)
      PROVE  Answered'
  BY <1>0, <1>2 DEF Answered, Acquire, TakeIdle, TakeSlot, Connected, Leased, Leave,
     Continue, Return, Suspend
<1>3. ASSUME NEW r \in Requests, Finish(r) \/ IoStep(r) PROVE Answered'
  BY <1>0, <1>3 DEF Answered, Finish, IoStep, ConnectOk, ConnectFail, HandshakeOk, IoFail,
     IoOk, Continue, Return
<1>4. ASSUME UNCHANGED <<pc, result>> PROVE Answered' BY <1>0, <1>4 DEF Answered
<1>5. ASSUME NEW r \in Requests, SetFlag(r) \/ Expire(r) \/ StopMark(r) \/ AllMark(r)
      PROVE  Answered'
  BY <1>4, <1>5 DEF SetFlag, Expire, StopMark, AllMark, StopUnchanged
<1>6. ASSUME NEW a \in Agents, StopStep(a) PROVE Answered'
  BY <1>4, <1>6 DEF StopStep, StopSnapshot, StopClose, StopWake, StopUnchanged
<1>7. ASSUME CancelAll \/ Quiescent \/ UNCHANGED vars \/ \E c \in Conns : CloseActive(c)
      PROVE  Answered'
  BY <1>4, <1>7 DEF CancelAll, Quiescent, vars, CloseActive, StopUnchanged
<1>. QED BY <1>1, <1>2, <1>3, <1>5, <1>6, <1>7 DEF Next, LoopStep, UserStep

(* A request that ends aborted lost its connection to AsyncClient::cancel.  *)
LEMMA ExactStep ==
  ASSUME PoolAssumption, Inv, LeaseInv, [Next]_vars
  PROVE  ExactCancellation'
<1> USE DEF reqVars, waitVars, poolVars, userVars
<1>0. /\ result \in [Requests -> Results] /\ ExactCancellation
      /\ ClosedUnder /\ cancelled \in [Requests -> BOOLEAN]
  BY DEF Inv, TypeOK, RequestTypes, ControlTypes, LeaseInv, Aim
<1>1. ASSUME NEW r \in Requests, overlap \subseteq overlap',
             result' = result \/ \E res \in Results :
               result' = [result EXCEPT ![r] = res] /\ (res = "aborted" => r \in overlap)
      PROVE  ExactCancellation'
  BY <1>0, <1>1 DEF ExactCancellation
<1>2. ASSUME NEW r \in Requests, ConnectFail(r) \/ IoFail(r) PROVE ExactCancellation'
  <2>1. pc[r] \in Holding /\ overlap' = overlap BY <1>2 DEF ConnectFail, IoFail
  <2>2. \/ result' = result
        \/ \E res \in Results :
             /\ result' = [result EXCEPT ![r] = res]
             /\ res = "aborted" => ~cancelled[r] /\ link[conn[r]] = "closed"
    BY <1>2 DEF ConnectFail, IoFail, Return, Continue, Stopped
  <2>3. ~cancelled[r] /\ link[conn[r]] = "closed" => r \in overlap
    BY <1>0, <2>1 DEF ClosedUnder
  <2>4. CASE result' = result BY <1>0, <2>1, <2>4 DEF ExactCancellation
  <2>5. CASE result' # result
    <3>1. PICK res \in Results :
            /\ result' = [result EXCEPT ![r] = res]
            /\ res = "aborted" => ~cancelled[r] /\ link[conn[r]] = "closed"
      BY <2>2, <2>5
    <3>2. res = "aborted" => r \in overlap BY <2>3, <3>1
    <3>. QED BY <1>1, <2>1, <3>1, <3>2
  <2>. QED BY <2>4, <2>5
<1>3. ASSUME NEW r \in Requests, LoopStep(r) \/ ConnectOk(r) \/ HandshakeOk(r) \/ IoOk(r)
      PROVE  ExactCancellation'
  <2>1. UNCHANGED overlap
    BY <1>3 DEF LoopStep, Precheck, Resume, Admit, Park, Notify, Ready, Acquire, TakeIdle,
       TakeSlot, Connected, Leased, Finish, Leave, ConnectOk, HandshakeOk, IoOk
  <2>2. CASE Precheck(r)
    <3>1. PICK res : result' = [result EXCEPT ![r] = res] /\ res \in {"cancelled", "timeout", result[r]}
      BY <2>2 DEF Precheck
    <3>. QED BY <1>0, <2>1, <3>1 DEF ExactCancellation
  <2>3. CASE ~Precheck(r)
    <3>1. result' = result \/ \E res \in Results \ {"aborted"} : result' = [result EXCEPT ![r] = res]
      BY <1>3, <2>3 DEF LoopStep, Resume, Admit, Park, Notify, Ready, Acquire, TakeIdle,
         TakeSlot, Connected, Leased, Finish, Leave, ConnectOk, HandshakeOk, IoOk,
         Continue, Return, Suspend
    <3>. QED BY <1>1, <2>1, <3>1
  <2>. QED BY <2>2, <2>3
<1>4. ASSUME UNCHANGED result, overlap \subseteq overlap' PROVE ExactCancellation'
  BY <1>0, <1>4 DEF ExactCancellation
<1>5. ASSUME NEW r \in Requests, UserStep(r) \/ AllMark(r) PROVE ExactCancellation'
  BY <1>4, <1>5 DEF UserStep, Start, SetFlag, Expire, StopMark, AllMark, StopUnchanged
<1>6. ASSUME NEW a \in Agents, StopStep(a) PROVE ExactCancellation'
  BY <1>4, <1>6 DEF StopStep, StopSnapshot, StopClose, StopWake, StopUnchanged
<1>7. ASSUME CancelAll \/ Quiescent \/ UNCHANGED vars \/ \E c \in Conns : CloseActive(c)
      PROVE  ExactCancellation'
  BY <1>4, <1>7 DEF CancelAll, Quiescent, vars, CloseActive, StopUnchanged
<1>. QED BY <1>2, <1>3, <1>5, <1>6, <1>7 DEF Next, IoStep

-----------------------------------------------------------------------------
(* Connections are exclusive and cancellations exact throughout.            *)
THEOREM LeaseInvariant == Spec => [](Inv /\ LeaseInv)
<1>1. Init => Inv /\ LeaseInv
  <2> SUFFICES ASSUME Init PROVE Inv /\ LeaseInv OBVIOUS
  <2>1. Inv BY PoolAssumption, InvInit
  <2>2. Leases BY DEF Init, Leases, ExclusiveLease, Paired
  <2>3. Reach /\ Aim
    BY DEF Init, Reach, Aim, StopperCancels, SnapshotFresh, CancelReachesConnection,
           ClosesOwn, ClosedUnder
  <2>4. AllOverlaps /\ Answered /\ ExactCancellation
    BY PoolAssumption DEF Init, AllOverlaps, Answered, ExactCancellation, PoolAssumption
  <2>. QED BY <2>1, <2>2, <2>3, <2>4 DEF LeaseInv
<1>2. Inv /\ LeaseInv /\ [Next]_vars => (Inv /\ LeaseInv)'
  BY PoolAssumption, InvStep, ConnectionsStep, OverlapStep, AnsweredStep, ExactStep DEF LeaseInv
<1>. QED BY <1>1, <1>2, PTL DEF Spec

(* A connection is leased to one request or idle in the pool, once.         *)
THEOREM LeasesExclusive == Spec => []ExclusiveLease
<1>1. LeaseInv => ExclusiveLease BY DEF LeaseInv, Leases
<1>. QED BY <1>1, LeaseInvariant, PTL

(* Whatever the order of bind() and cancel(), the connection of a cancelled *)
(* request is closed or the thread that cancels it has still to close it.   *)
THEOREM CancelReaches == Spec => []CancelReachesConnection
<1>1. LeaseInv => CancelReachesConnection BY DEF LeaseInv, Reach
<1>. QED BY <1>1, LeaseInvariant, PTL

(* A stop closes no connection but its own request's, though it closes it   *)
(* after the control's mutex is free and the pool may have it again.        *)
THEOREM CancellationExact == Spec => []ExactCancellation
<1>1. LeaseInv => ExactCancellation BY DEF LeaseInv
<1>. QED BY <1>1, LeaseInvariant, PTL

-----------------------------------------------------------------------------
(* The pool implements SlotAllocator.                                       *)

(* The slot each request holds, and the slots in use, as the allocator sees *)
(* them.                                                                    *)
SlotHeld == [r \in Requests |-> IF pc[r] \in Holding THEN origin[r] ELSE NoOrigin]
SlotsUsed == [o \in Origins |-> count[o] - Len(pool[o])]
HolderCount == [o \in Origins |-> Cardinality(Holders(o))]

(* The other requests keep their positions and origins.                     *)
OthersStay(r) ==
  \A s \in Requests \ {r} : pc'[s] = pc[s] /\ origin'[s] = origin[s]

(* Whatever is counted and not idle has a holder.                           *)
LEMMA UsedIsHeld ==
  ASSUME PoolAssumption, Inv
  PROVE  SlotsUsed = HolderCount
<1>1. ASSUME NEW o \in Origins PROVE count[o] - Len(pool[o]) = Cardinality(Holders(o))
  <2>1. pool[o] \in Seq(Conns) BY DEF Inv, TypeOK, PoolTypes
  <2>2. count[o] = Len(pool[o]) + Cardinality(Holders(o)) /\ Len(pool[o]) \in Nat
    BY <2>1 DEF Inv, SlotAccounting
  <2>. QED BY <2>2, HoldersFinite
<1>. QED BY <1>1 DEF SlotsUsed, HolderCount

LEMMA UsedStaysHeld ==
  ASSUME PoolAssumption, Inv'
  PROVE  SlotsUsed' = HolderCount'
<1>1. ASSUME NEW o \in Origins PROVE count'[o] - Len(pool'[o]) = Cardinality(Holders(o)')
  <2>1. pool'[o] \in Seq(Conns) BY DEF Inv, TypeOK, PoolTypes
  <2>2. count'[o] = Len(pool'[o]) + Cardinality(Holders(o)') /\ Len(pool'[o]) \in Nat
    BY <2>1 DEF Inv, SlotAccounting
  <2>3. Cardinality(Holders(o)') \in Nat
    <3>1. Holders(o)' \subseteq Requests BY DEF Holders
    <3>2. IsFiniteSet(Holders(o)') BY <3>1, FS_Subset DEF PoolAssumption
    <3>. QED BY <3>2, FS_CardinalityType
  <2>. QED BY <2>2, <2>3
<1>. QED BY <1>1 DEF SlotsUsed, HolderCount

(* Steps the allocator does not see.                                        *)
LEMMA SlotStutter ==
  ASSUME PoolAssumption, Inv, Inv',
         \A s \in Requests : /\ pc'[s] \in Holding <=> pc[s] \in Holding
                             /\ pc[s] \in Holding => origin'[s] = origin[s],
         UNCHANGED result
  PROVE  UNCHANGED <<SlotHeld, SlotsUsed, result>>
<1>1. \A s \in Requests : SlotHeld'[s] = SlotHeld[s] BY DEF SlotHeld
<1>2. SlotHeld' = SlotHeld BY <1>1 DEF SlotHeld
<1>3. \A o \in Origins : Holders(o)' = Holders(o) BY DEF Holders
<1>4. HolderCount' = HolderCount BY <1>3 DEF HolderCount
<1>. QED BY <1>2, <1>4, UsedIsHeld, UsedStaysHeld

(* What becomes of the slots when r gives up its own, if it has one.        *)
LEMMA SlotDropped ==
  ASSUME PoolAssumption, Inv, Inv', NEW r \in Requests, pc'[r] \notin Holding, OthersStay(r)
  PROVE  Slots!GivenBack(r)
<1>1. SlotHeld' = [SlotHeld EXCEPT ![r] = NoOrigin]
  <2>1. \A s \in Requests : s # r => SlotHeld'[s] = SlotHeld[s] BY DEF SlotHeld, OthersStay
  <2>2. SlotHeld'[r] = NoOrigin BY DEF SlotHeld
  <2>. QED BY <2>1, <2>2 DEF SlotHeld
<1>2. ASSUME NEW o \in Origins
      PROVE  HolderCount'[o] = IF SlotHeld[r] = o THEN HolderCount[o] - 1 ELSE HolderCount[o]
  <2>1. o # NoOrigin BY PoolAssumption DEF PoolAssumption
  <2>2. SlotHeld[r] = o <=> r \in Holders(o) BY <2>1 DEF SlotHeld, Holders
  <2>3. Holders(o)' = Holders(o) \ {r} BY DEF Holders, OthersStay
  <2>4. Cardinality(Holders(o) \ {r})
          = IF r \in Holders(o) THEN Cardinality(Holders(o)) - 1 ELSE Cardinality(Holders(o))
    BY HoldersFinite, FS_RemoveElement
  <2>. QED BY <2>2, <2>3, <2>4 DEF HolderCount
<1>3. SlotsUsed' = [o \in Origins |-> IF SlotHeld[r] = o THEN SlotsUsed[o] - 1 ELSE SlotsUsed[o]]
  <2>1. SlotsUsed = HolderCount /\ SlotsUsed' = HolderCount' BY UsedIsHeld, UsedStaysHeld
  <2>2. HolderCount' = [o \in Origins |-> HolderCount'[o]] BY DEF HolderCount
  <2>. QED BY <1>2, <2>1, <2>2
<1>. QED BY <1>1, <1>3 DEF SlotHeld, SlotsUsed, Slots!GivenBack

(* A retry or a redirect gives the slot back.                               *)
LEMMA SlotGives ==
  ASSUME PoolAssumption, Inv, Inv', NEW r \in Requests, pc[r] \in Holding,
         pc'[r] \notin Holding, OthersStay(r), UNCHANGED result
  PROVE  Slots!Give(r)
<1>1. SlotHeld[r] # NoOrigin
  BY PoolAssumption DEF SlotHeld, Inv, TypeOK, RequestTypes, PoolAssumption
<1>2. Slots!GivenBack(r) BY SlotDropped
<1>. QED BY <1>1, <1>2 DEF SlotHeld, Slots!Give

(* A request answers with its slot given back.                              *)
LEMMA SlotAnswers ==
  ASSUME PoolAssumption, Inv, Inv', NEW r \in Requests, pc'[r] \notin Holding, OthersStay(r),
         result[r] = "none", NEW res \in Results \ {"none"},
         result' = [result EXCEPT ![r] = res]
  PROVE  Slots!Answer(r, res)
<1>1. Slots!GivenBack(r) BY SlotDropped
<1>. QED BY <1>1 DEF Slots!Answer

(* acquire() checks a connection out while fewer than the limit are held.   *)
LEMMA SlotTakes ==
  ASSUME PoolAssumption, Inv, Inv', NEW r \in Requests, pc[r] \notin Holding,
         pc'[r] \in Holding, OthersStay(r), NEW o \in Origins, o = origin[r], origin'[r] = o,
         result[r] = "none", UNCHANGED result,
         MaxConnections # 0 => Cardinality(Holders(o)) < MaxConnections
  PROVE  Slots!Take(r, o)
<1>1. SlotHeld[r] = NoOrigin BY DEF SlotHeld
<1>2. SlotHeld' = [SlotHeld EXCEPT ![r] = o]
  <2>1. \A s \in Requests : s # r => SlotHeld'[s] = SlotHeld[s] BY DEF SlotHeld, OthersStay
  <2>2. SlotHeld'[r] = o BY DEF SlotHeld
  <2>. QED BY <2>1, <2>2 DEF SlotHeld
<1>3. Cardinality(Holders(o)') = Cardinality(Holders(o)) + 1
  <2>1. r \notin Holders(o) /\ Holders(o)' = Holders(o) \cup {r} BY DEF Holders, OthersStay
  <2>2. Cardinality(Holders(o) \cup {r}) = Cardinality(Holders(o)) + 1
    BY <2>1, HoldersFinite, FS_AddElement
  <2>. QED BY <2>1, <2>2
<1>4. \A k \in Origins \ {o} : Holders(k)' = Holders(k) BY DEF Holders, OthersStay
<1>5. HolderCount' = [HolderCount EXCEPT ![o] = @ + 1] BY <1>3, <1>4 DEF HolderCount
<1>6. SlotsUsed = HolderCount /\ SlotsUsed' = HolderCount' BY UsedIsHeld, UsedStaysHeld
<1>7. SlotsUsed' = [SlotsUsed EXCEPT ![o] = @ + 1] BY <1>5, <1>6
<1>8. MaxConnections # 0 => SlotsUsed[o] < MaxConnections BY <1>6 DEF HolderCount
<1>. QED BY <1>1, <1>2, <1>7, <1>8 DEF SlotHeld, SlotsUsed, Slots!Take

(* An idle connection, or a count below the limit, leaves room for one.     *)
LEMMA RoomToTake ==
  ASSUME PoolAssumption, Inv, NEW r \in Requests, TakeIdle(r) \/ TakeSlot(r),
         pc'[r] \in Holding, MaxConnections # 0
  PROVE  Cardinality(Holders(origin[r])) < MaxConnections
<1> DEFINE o == origin[r]
<1>1. /\ o \in Origins /\ pool[o] \in Seq(Conns) /\ count[o] \in Nat /\ Len(pool[o]) \in Nat
      /\ count[o] <= MaxConnections /\ count[o] = Len(pool[o]) + Cardinality(Holders(o))
      /\ Cardinality(Holders(o)) \in Nat /\ MaxConnections \in Nat
  BY HoldersFinite, PoolAssumption
  DEF Inv, TypeOK, RequestTypes, PoolTypes, SlotAccounting, CountLimits, PoolAssumption
<1>2. CASE TakeIdle(r)
  <2>1. PICK k \in DOMAIN pool[o] : TRUE BY <1>2 DEF TakeIdle
  <2>2. Len(pool[o]) >= 1 BY <1>1, <2>1
  <2>. QED BY <1>1, <2>2
<1>3. CASE TakeSlot(r)
  <2>1. pc'[r] # "parkAcquire" OBVIOUS
  <2>2. SlotFree(count[o] - Len(pool[o]))
    BY <1>3, <2>1 DEF TakeSlot, Continue, Inv, TypeOK, RequestTypes
  <2>. QED BY <1>1, <2>2 DEF SlotFree
<1>. QED BY <1>2, <1>3

(* Every step of the pool is a step of the allocator or invisible to it.    *)
LEMMA AllocatorStep ==
  ASSUME PoolAssumption, Inv, LeaseInv, [Next]_vars
  PROVE  Slots!Next \/ UNCHANGED <<SlotHeld, SlotsUsed, result>>
<1> USE DEF reqVars, waitVars, poolVars, userVars
<1> DEFINE Goal == Slots!Next \/ UNCHANGED <<SlotHeld, SlotsUsed, result>>
<1>inv. Inv' BY InvStep
<1>0. /\ pc \in [Requests -> Positions] /\ result \in [Requests -> Results]
      /\ origin \in [Requests -> Origins]
      /\ \A r \in Requests : pc[r] \notin {"exit", "exitOff", "done"} => result[r] = "none"
  BY DEF Inv, TypeOK, RequestTypes, LeaseInv, Answered
<1>1. ASSUME NEW r \in Requests, OthersStay(r), pc'[r] \notin Holding, result[r] = "none",
             NEW res \in Results \ {"none"}, result' = [result EXCEPT ![r] = res]
      PROVE  Goal
  <2>1. Slots!Answer(r, res) BY <1>inv, <1>1, SlotAnswers
  <2>. QED BY <2>1 DEF Slots!Next
<1>2. ASSUME NEW r \in Requests, OthersStay(r), pc[r] \in Holding, pc'[r] \notin Holding,
             UNCHANGED result
      PROVE  Goal
  <2>1. Slots!Give(r) BY <1>inv, <1>2, SlotGives
  <2>. QED BY <2>1 DEF Slots!Next
<1>3. ASSUME \A s \in Requests : /\ pc'[s] \in Holding <=> pc[s] \in Holding
                                 /\ origin'[s] = origin[s],
             UNCHANGED result
      PROVE  Goal
  BY <1>inv, <1>3, SlotStutter
<1> HIDE DEF Goal
<1>4. ASSUME NEW r \in Requests, OthersStay(r), result[r] = "none",
             Continue(r, "acquire") \/ \E res \in Results \ {"none"} : Return(r, res),
             pc[r] \in Holding
      PROVE  Goal
  <2>1. CASE Continue(r, "acquire") BY <1>0, <1>2, <1>4, <2>1 DEF Continue
  <2>2. CASE \E res \in Results \ {"none"} : Return(r, res) BY <1>0, <1>1, <1>4, <2>2 DEF Return
  <2>. QED BY <1>4, <2>1, <2>2
<1>5. ASSUME NEW r \in Requests, Precheck(r) PROVE Goal
  <2>1. OthersStay(r) /\ pc[r] = "precheck" /\ pc'[r] \in {"exitOff", "postedAdmit", "postedAcquire"}
    BY <1>0, <1>5 DEF Precheck, OthersStay
  <2>2. \/ result' = result
        \/ \E res \in {"cancelled", "timeout"} : result' = [result EXCEPT ![r] = res]
    BY <1>0, <1>5 DEF Precheck
  <2>3. CASE result' = result BY <1>3, <1>5, <2>1, <2>3 DEF Precheck, OthersStay
  <2>. QED BY <1>0, <1>1, <2>1, <2>2, <2>3
<1>6. ASSUME NEW r \in Requests, Admit(r) \/ Acquire(r) PROVE Goal
  <2>1. OthersStay(r) /\ origin' = origin /\ pc[r] \in {"admit", "acquire"} /\ pc'[r] \notin Holding
    BY <1>0, <1>6 DEF Admit, Acquire, OthersStay, Continue, Return
  <2>2. \/ result' = result
        \/ \E res \in {"cancelled", "timeout"} : result' = [result EXCEPT ![r] = res]
    BY <1>6 DEF Admit, Acquire, Continue, Return
  <2>3. CASE result' = result BY <1>3, <2>1, <2>3 DEF OthersStay
  <2>. QED BY <1>0, <1>1, <2>1, <2>2, <2>3
<1>7. ASSUME NEW r \in Requests,
             Start(r) \/ Resume(r) \/ Park(r) \/ Notify(r) \/ Ready(r) \/ Leave(r)
      PROVE  Goal
  BY <1>0, <1>3, <1>7
  DEF Start, Resume, Park, Notify, Ready, Leave, Continue, Suspend
<1>8. ASSUME NEW r \in Requests, TakeIdle(r) \/ TakeSlot(r) PROVE Goal
  <2>1. /\ OthersStay(r) /\ origin' = origin /\ pc[r] = "take" /\ result' = result
        /\ pc'[r] \in Holding \cup {"parkAcquire"}
    BY <1>0, <1>8 DEF TakeIdle, TakeSlot, OthersStay, Continue, Suspend
  <2>2. CASE pc'[r] \in Holding
    <3>1. PICK o \in Origins : o = origin[r] BY <1>0
    <3>2. Slots!Take(r, o) BY <1>inv, <1>0, <1>8, <2>1, <2>2, <3>1, RoomToTake, SlotTakes
    <3>. QED BY <3>2 DEF Slots!Next, Goal
  <2>3. CASE pc'[r] = "parkAcquire" BY <1>3, <2>1, <2>3 DEF OthersStay
  <2>. QED BY <2>1, <2>2, <2>3
<1>9. ASSUME NEW r \in Requests, ConnectOk(r) \/ HandshakeOk(r) PROVE Goal
  BY <1>0, <1>3, <1>9 DEF ConnectOk, HandshakeOk, Continue
<1>10. ASSUME NEW r \in Requests, ConnectFail(r) \/ IoFail(r) PROVE Goal
  BY <1>0, <1>4, <1>10 DEF ConnectFail, IoFail, OthersStay, Continue, Return
<1>11. ASSUME NEW r \in Requests, Connected(r) \/ Leased(r) \/ IoOk(r) PROVE Goal
  <2>1. origin' = origin /\ pc[r] \in Holding /\ OthersStay(r) /\ result[r] = "none"
    BY <1>0, <1>11 DEF Connected, Leased, IoOk, OthersStay, Continue, Return, Suspend
  <2>2. CASE \E res \in {"cancelled", "timeout"} : Return(r, res) BY <1>4, <2>1, <2>2
  <2>3. CASE \E p \in Holding : Continue(r, p) \/ Suspend(r, p)
    BY <1>0, <1>3, <2>1, <2>3 DEF OthersStay, Continue, Suspend
  <2>. QED BY <1>11, <2>2, <2>3 DEF Connected, Leased, IoOk
<1>12. ASSUME NEW r \in Requests, Finish(r) PROVE Goal
  <2>1. /\ pc[r] = "finish"
        /\ Continue(r, "acquire") \/ \E res \in Results \ {"none"} : Return(r, res)
    BY <1>12 DEF Finish
  <2>2. origin' = origin \/ \E o \in Origins : origin' = [origin EXCEPT ![r] = o]
    BY <1>12 DEF Finish
  <2>3. OthersStay(r) BY <1>0, <2>1, <2>2 DEF OthersStay, Continue, Return
  <2>. QED BY <1>0, <1>4, <2>1, <2>3
<1>13. ASSUME UNCHANGED <<pc, origin, result>> PROVE Goal BY <1>3, <1>13
<1>14. ASSUME NEW r \in Requests, SetFlag(r) \/ Expire(r) \/ StopMark(r) \/ AllMark(r) PROVE Goal
  BY <1>13, <1>14 DEF SetFlag, Expire, StopMark, AllMark, StopUnchanged
<1>15. ASSUME NEW a \in Agents, StopStep(a) PROVE Goal
  BY <1>13, <1>15 DEF StopStep, StopSnapshot, StopClose, StopWake, StopUnchanged
<1>16. ASSUME CancelAll \/ Quiescent \/ UNCHANGED vars \/ \E c \in Conns : CloseActive(c)
       PROVE  Goal
  BY <1>13, <1>16 DEF CancelAll, Quiescent, vars, CloseActive, StopUnchanged
<1>17. Goal
  BY <1>5, <1>6, <1>7, <1>8, <1>9, <1>10, <1>11, <1>12, <1>14, <1>15, <1>16
  DEF Next, LoopStep, IoStep, UserStep
<1>. QED BY <1>17 DEF Goal

(* The pool implements the abstract allocator: a request holds at most one  *)
(* slot, an origin never has more holders than its limit, and a request     *)
(* answers once, with its slot given back.                                  *)
THEOREM PoolImplementsAllocator == Spec => ImplementsAllocator
<1>1. Init => Slots!Init
  <2> SUFFICES ASSUME Init PROVE Slots!Init OBVIOUS
  <2>1. Inv BY PoolAssumption, InvInit
  <2>2. SlotsUsed = HolderCount BY PoolAssumption, <2>1, UsedIsHeld
  <2>3. \A o \in Origins : Holders(o) = {} BY DEF Init, Holders
  <2>4. HolderCount = [o \in Origins |-> 0] BY <2>3, FS_EmptySet DEF HolderCount
  <2>5. SlotHeld = [r \in Requests |-> NoOrigin] BY DEF Init, SlotHeld
  <2>. QED BY <2>2, <2>4, <2>5 DEF Init, SlotHeld, SlotsUsed, Slots!Init
<1>2. Inv /\ LeaseInv /\ [Next]_vars => [Slots!Next]_<<SlotHeld, SlotsUsed, result>>
  BY PoolAssumption, AllocatorStep
<1>. QED BY <1>1, <1>2, LeaseInvariant, PTL DEF Spec, ImplementsAllocator, Slots!Spec, SlotHeld, SlotsUsed

(***************************************************************************)
(* No wakeup is lost.                                                      *)
(***************************************************************************)

(* The requests in the queue of an origin.                                  *)
Queued(o) == {waiters[o][i] : i \in DOMAIN waiters[o]}

Distinct(q) == \A i, j \in DOMAIN q : q[i] = q[j] => i = j

(* Requests that hold a slot of o or have been told of one.                 *)
Busy(o) == Holders(o) \cup Tokens(o)

(* A queued request waits for that origin and has been told of no slot.     *)
Queues ==
  \A o \in Origins :
    /\ Distinct(waiters[o])
    /\ \A r \in Queued(o) : pc[r] \in Waiting /\ origin[r] = o /\ ~slotNotified[r]

(* A request carries notified_origin for its own origin, from await_resume  *)
(* until it takes a connection, queues again or ends.                       *)
Carrying == {"admit", "parkAdmit", "acquire", "take", "parkAcquire", "exit"}
TokensHeld ==
  \A r \in Requests :
    /\ notifiedOrigin[r] \in {NoOrigin, origin[r]}
    /\ notifiedOrigin[r] # NoOrigin => pc[r] \in Carrying
    /\ slotNotified[r] => pc[r] \in Waiting

(* A coroutine that runs has the loop.                                      *)
LoopOwner == \A r \in Requests : pc[r] \in Running => loop = r

(* A request about to queue has found every slot held, and keeps the loop   *)
(* until it is queued.                                                      *)
Parking ==
  \A r \in Requests : pc[r] \in {"parkAdmit", "parkAcquire"} =>
    MaxConnections # 0 /\ MaxConnections <= Cardinality(Holders(origin[r]))

Covered(o) ==
  (\E r \in Queued(o) : ~notified[r]) =>
    MaxConnections # 0 /\ MaxConnections <= Cardinality(Busy(o))

(* Inductive beside Inv.  NoLostWakeup is Covered at every origin; the      *)
(* other conjuncts say where an announcement can be, that nobody is told    *)
(* twice, and that nobody queues while a slot is free.                      *)
WakeInv == Queues /\ TokensHeld /\ LoopOwner /\ Parking /\ \A o \in Origins : Covered(o)

USE DEF Positions, Waiting, Running, Holding, Results, Links, Phases, Agents, Idle, Carrying

-----------------------------------------------------------------------------
(* Queues.                                                                  *)

(* What is left behind the k-th entry.                                      *)
LEMMA SuffixQueue ==
  ASSUME NEW S, NEW q \in Seq(S), Distinct(q), NEW k \in DOMAIN q
  PROVE  LET t == SubSeq(q, k + 1, Len(q))
         IN  Distinct(t) /\ \A i \in DOMAIN t : t[i] # q[k] /\ \E j \in DOMAIN q : t[i] = q[j]
<1> DEFINE t == SubSeq(q, k + 1, Len(q))
<1>1. k \in 1..Len(q) /\ Len(q) \in Nat /\ DOMAIN q = 1..Len(q) OBVIOUS
<1>2. DOMAIN t = 1..(Len(q) - k) /\ \A i \in 1..(Len(q) - k) : t[i] = q[k + i]
  BY <1>1
<1> HIDE DEF t
<1>3. Distinct(t) BY <1>1, <1>2 DEF Distinct
<1>4. \A i \in DOMAIN t : t[i] # q[k] /\ \E j \in DOMAIN q : t[i] = q[j]
  BY <1>1, <1>2 DEF Distinct
<1>. QED BY <1>3, <1>4 DEF t

(* What is left when r leaves.                                              *)
LEMMA UnqueuedQueue ==
  ASSUME NEW S, NEW q \in Seq(S), Distinct(q), NEW r
  PROVE  LET u == Unqueued(q, r)
         IN  Distinct(u) /\ \A i \in DOMAIN u : u[i] # r /\ \E j \in DOMAIN q : u[i] = q[j]
<1>1. CASE \E k \in DOMAIN q : q[k] = r
  <2> DEFINE k == CHOOSE k \in DOMAIN q : q[k] = r
  <2>1. k \in 1..Len(q) /\ q[k] = r /\ Len(q) \in Nat /\ DOMAIN q = 1..Len(q) BY <1>1
  <2> HIDE DEF k
  <2> DEFINE a == SubSeq(q, 1, k - 1)
  <2> DEFINE b == SubSeq(q, k + 1, Len(q))
  <2> DEFINE u == a \o b
  <2>2. a \in Seq(S) /\ Len(a) = k - 1 /\ \A i \in 1..(k - 1) : a[i] = q[i] BY <2>1
  <2>3. b \in Seq(S) /\ Len(b) = Len(q) - k /\ \A i \in 1..(Len(q) - k) : b[i] = q[k + i]
    <3>1. b \in Seq(S) BY <2>1
    <3>2. DOMAIN b = 1..(Len(q) - k) /\ \A i \in 1..(Len(q) - k) : b[i] = q[k + i] BY <2>1
    <3>3. Len(b) = Len(q) - k
      <4>1. \A i \in (k + 1)..Len(q) : q[i] \in S BY <2>1
      <4>2. Len(b) = IF k + 1 <= Len(q) THEN Len(q) - (k + 1) + 1 ELSE 0
        BY <2>1, <4>1, SubSeqProperties
      <4>3. PICK n \in Nat : n = Len(q) BY <2>1
      <4>4. \A m \in 1..n : (IF m + 1 <= n THEN n - (m + 1) + 1 ELSE 0) = n - m OBVIOUS
      <4>5. k \in 1..n BY <2>1, <4>3
      <4>6. (IF k + 1 <= n THEN n - (k + 1) + 1 ELSE 0) = n - k BY <4>4, <4>5
      <4> HIDE DEF b
      <4>. QED BY <4>2, <4>3, <4>6
    <3>. QED BY <3>1, <3>2, <3>3
  <2> HIDE DEF a, b
  <2>4. /\ DOMAIN u = 1..(Len(q) - 1)
        /\ \A i \in 1..(Len(q) - 1) : u[i] = IF i <= k - 1 THEN a[i] ELSE b[i - (k - 1)]
    <3>1. Len(a) + Len(b) = Len(q) - 1 BY <2>1, <2>2, <2>3
    <3>2. /\ DOMAIN u = 1..(Len(a) + Len(b))
          /\ \A i \in 1..(Len(a) + Len(b)) : u[i] = IF i <= Len(a) THEN a[i] ELSE b[i - Len(a)]
      <4>1. /\ u \in Seq(S) /\ Len(u) = Len(a) + Len(b)
            /\ \A i \in 1..(Len(a) + Len(b)) : u[i] = IF i <= Len(a) THEN a[i] ELSE b[i - Len(a)]
        BY <2>2, <2>3, ConcatProperties
      <4> HIDE DEF u
      <4>2. DOMAIN u = 1..Len(u) BY <4>1
      <4>. QED BY <4>1, <4>2
    <3>. QED BY <2>2, <3>1, <3>2
  <2> HIDE DEF u
  <2>5. \A i \in 1..(Len(q) - 1) : u[i] = IF i <= k - 1 THEN q[i] ELSE q[i + 1]
    <3> TAKE i \in 1..(Len(q) - 1)
    <3>1. CASE i <= k - 1 BY <2>1, <2>2, <2>4, <3>1
    <3>2. CASE ~(i <= k - 1)
      <4>1. i - (k - 1) \in 1..(Len(q) - k) /\ k + (i - (k - 1)) = i + 1 BY <2>1, <3>2
      <4>. QED BY <2>1, <2>3, <2>4, <3>2, <4>1
    <3>. QED BY <3>1, <3>2
  <2>6. Distinct(u)
    <3>1. \A i, j \in 1..(Len(q) - 1) : u[i] = u[j] => i = j
      <4> TAKE i, j \in 1..(Len(q) - 1)
      <4> HAVE u[i] = u[j]
      <4> DEFINE at(x) == IF x <= k - 1 THEN x ELSE x + 1
      <4>1. at(i) \in 1..Len(q) /\ at(j) \in 1..Len(q) BY <2>1
      <4>2. u[i] = q[at(i)] /\ u[j] = q[at(j)] BY <2>5
      <4>3. at(i) = at(j) BY <2>1, <4>1, <4>2 DEF Distinct
      <4>. QED BY <2>1, <4>3
    <3>. QED BY <2>4, <3>1 DEF Distinct
  <2>7. \A i \in DOMAIN u : u[i] # r /\ \E j \in DOMAIN q : u[i] = q[j]
    <3> TAKE i \in DOMAIN u
    <3>1. i \in 1..(Len(q) - 1) BY <2>4
    <3>2. PICK j \in DOMAIN q : u[i] = q[j] /\ j # k
      <4>1. CASE i <= k - 1 BY <2>1, <2>5, <3>1, <4>1
      <4>2. CASE ~(i <= k - 1) BY <2>1, <2>5, <3>1, <4>2
      <4>. QED BY <4>1, <4>2
    <3>. QED BY <2>1, <3>2 DEF Distinct
  <2>8. Unqueued(q, r) = u BY <1>1 DEF Unqueued, u, a, b, k
  <2>. QED BY <2>6, <2>7, <2>8
<1>2. CASE ~\E k \in DOMAIN q : q[k] = r
  BY <1>2 DEF Unqueued
<1>. QED BY <1>1, <1>2

(* wake_pool_waiter: nobody is left to wake, or one more is told.           *)
LEMMA WakeEffect ==
  ASSUME NEW p \in Origins, WaiterTypes, Queues, WakeWaiter(p)
  PROVE  /\ \A o \in Origins : Distinct(waiters'[o])
         /\ \A o \in Origins : o # p => Queued(o)' = Queued(o)
         /\ \/ Queued(p)' = {} /\ UNCHANGED <<notified, slotNotified>>
            \/ \E w \in Queued(p) :
                 /\ ~notified[w] /\ Queued(p)' \subseteq Queued(p) \ {w}
                 /\ notified' = [notified EXCEPT ![w] = TRUE]
                 /\ slotNotified' = [slotNotified EXCEPT ![w] = TRUE]
<1>1. waiters \in [Origins -> Seq(Requests)] /\ waiters[p] \in Seq(Requests) BY DEF WaiterTypes
<1>2. CASE \A k \in DOMAIN waiters[p] : notified[waiters[p][k]]
  <2>1. /\ waiters' = [waiters EXCEPT ![p] = <<>>] /\ UNCHANGED <<notified, slotNotified>>
    BY <1>2 DEF WakeWaiter
  <2>2. waiters'[p] = <<>> /\ \A o \in Origins : o # p => waiters'[o] = waiters[o] BY <1>1, <2>1
  <2>3. Distinct(<<>>) BY DEF Distinct
  <2>4. Queued(p)' = {} BY <2>2 DEF Queued
  <2>. QED BY <2>1, <2>2, <2>3, <2>4 DEF Queued, Queues
<1>3. CASE ~\A k \in DOMAIN waiters[p] : notified[waiters[p][k]]
  <2>1. PICK k \in DOMAIN waiters[p] :
          /\ ~notified[waiters[p][k]]
          /\ waiters' = [waiters EXCEPT ![p] = SubSeq(waiters[p], k + 1, Len(waiters[p]))]
          /\ notified' = [notified EXCEPT ![waiters[p][k]] = TRUE]
          /\ slotNotified' = [slotNotified EXCEPT ![waiters[p][k]] = TRUE]
    BY <1>3 DEF WakeWaiter
  <2>2. PICK t : t = SubSeq(waiters[p], k + 1, Len(waiters[p])) OBVIOUS
  <2>3. waiters'[p] = t /\ \A o \in Origins : o # p => waiters'[o] = waiters[o] BY <1>1, <2>1, <2>2
  <2>4. Distinct(waiters[p]) BY DEF Queues
  <2>5. /\ Distinct(t)
        /\ \A i \in DOMAIN t : t[i] # waiters[p][k] /\ \E j \in DOMAIN waiters[p] : t[i] = waiters[p][j]
    BY <1>1, <2>1, <2>2, <2>4, SuffixQueue
  <2>6. waiters[p][k] \in Queued(p) /\ Queued(p)' \subseteq Queued(p) \ {waiters[p][k]}
    <3>1. Queued(p)' = {t[i] : i \in DOMAIN t} BY <2>3 DEF Queued
    <3>. QED BY <2>1, <2>5, <3>1 DEF Queued
  <2>7. \A o \in Origins : Distinct(waiters'[o]) BY <2>3, <2>5 DEF Queues
  <2>8. \A o \in Origins : o # p => Queued(o)' = Queued(o) BY <2>3 DEF Queued
  <2>. QED BY <2>1, <2>6, <2>7, <2>8
<1>. QED BY <1>2, <1>3

-----------------------------------------------------------------------------
(* Counting.                                                                *)

(* Requests that hold or are promised a slot can be counted.                *)
LEMMA BusyFinite ==
  ASSUME PoolAssumption, NEW o
  PROVE  IsFiniteSet(Busy(o)) /\ Cardinality(Busy(o)) \in Nat
<1>1. Busy(o) \subseteq Requests BY DEF Busy, Holders, Tokens
<1>2. IsFiniteSet(Busy(o)) BY <1>1, FS_Subset DEF PoolAssumption
<1>. QED BY <1>2, FS_CardinalityType

(* At least as many elements.                                               *)
LEMMA Larger ==
  ASSUME NEW S, NEW T, S \subseteq T, T \subseteq Requests, PoolAssumption,
         MaxConnections <= Cardinality(S)
  PROVE  MaxConnections <= Cardinality(T)
<1>1. IsFiniteSet(T) BY FS_Subset DEF PoolAssumption
<1>2. IsFiniteSet(S) /\ Cardinality(S) <= Cardinality(T) BY <1>1, FS_Subset
<1>3. Cardinality(S) \in Nat /\ Cardinality(T) \in Nat BY <1>1, <1>2, FS_CardinalityType
<1>. QED BY <1>2, <1>3 DEF PoolAssumption

(* One leaves and another joins.                                            *)
LEMMA Exchanged ==
  ASSUME NEW S, NEW T, NEW r \in S, NEW w \in T, w \notin S, S \ {r} \subseteq T,
         S \subseteq Requests, T \subseteq Requests, PoolAssumption,
         MaxConnections <= Cardinality(S)
  PROVE  MaxConnections <= Cardinality(T)
<1> DEFINE U == (S \ {r}) \cup {w}
<1>1. IsFiniteSet(S) BY FS_Subset DEF PoolAssumption
<1>2. IsFiniteSet(S \ {r}) /\ Cardinality(S \ {r}) = Cardinality(S) - 1
  BY <1>1, FS_RemoveElement
<1>3. Cardinality(U) = Cardinality(S)
  <2>1. Cardinality(U) = Cardinality(S \ {r}) + 1 BY <1>2, FS_AddElement
  <2>2. Cardinality(S) \in Nat BY <1>1, FS_CardinalityType
  <2>. QED BY <1>2, <2>1, <2>2
<1>4. U \subseteq T OBVIOUS
<1>. QED BY <1>3, <1>4, Larger

(* No request is both: the two terms of NoLostWakeup add up to Busy.        *)
LEMMA CoverCounts ==
  ASSUME PoolAssumption, TokensHeld, NEW o \in Origins
  PROVE  Cardinality(Busy(o)) = Cardinality(Holders(o)) + Cardinality(Tokens(o))
<1>1. Holders(o) \cap Tokens(o) = {}
  BY PoolAssumption DEF Holders, Tokens, TokensHeld, PoolAssumption
<1>2. IsFiniteSet(Holders(o)) /\ IsFiniteSet(Tokens(o))
  <2>1. Holders(o) \subseteq Requests /\ Tokens(o) \subseteq Requests BY DEF Holders, Tokens
  <2>. QED BY <2>1, FS_Subset DEF PoolAssumption
<1>3. Cardinality(Busy(o)) = Cardinality(Holders(o)) + Cardinality(Tokens(o)) - 0
  BY <1>1, <1>2, FS_Union, FS_EmptySet DEF Busy
<1>. QED BY <1>2, <1>3, FS_CardinalityType

-----------------------------------------------------------------------------
(* The kinds of steps.                                                      *)

(* The other requests keep their positions and announcements, and those     *)
(* that run keep the loop.                                                  *)
OthersKeep(r) ==
  /\ \A s \in Requests : s # r => /\ pc'[s] = pc[s] /\ origin'[s] = origin[s]
                                  /\ notifiedOrigin'[s] = notifiedOrigin[s]
  /\ \A s \in Requests : s # r /\ pc[s] \in Running => loop' = loop
  /\ pc'[r] \in Running => loop' = r

(* r moves without touching the queues: it keeps the slot it holds or has   *)
(* been told of, and what it was told of becomes what it holds.             *)
LEMMA MoveWakes ==
  ASSUME PoolAssumption, Inv, WakeInv, NEW r \in Requests, OthersKeep(r),
         pc[r] \notin Waiting, pc'[r] \notin Waiting, UNCHANGED waitVars,
         origin'[r] = origin[r],
         pc[r] \in Holding => pc'[r] \in Holding,
         \/ notifiedOrigin'[r] = notifiedOrigin[r] /\ (notifiedOrigin[r] = NoOrigin \/ pc'[r] \in Carrying)
         \/ notifiedOrigin'[r] = NoOrigin /\ pc'[r] \in Holding,
         pc'[r] \in {"parkAdmit", "parkAcquire"} =>
           MaxConnections # 0 /\ MaxConnections <= Cardinality(Holders(origin[r]))
  PROVE  WakeInv'
<1> USE DEF waitVars
<1>1. LoopOwner' BY DEF OthersKeep, WakeInv, LoopOwner
<1>2. TokensHeld' BY PoolAssumption DEF OthersKeep, WakeInv, TokensHeld, PoolAssumption
<1>3. \A o \in Origins : Queued(o)' = Queued(o) /\ Queued(o) \subseteq Requests
  BY DEF Queued, Inv, TypeOK, WaiterTypes
<1>4. Queues' BY <1>3 DEF OthersKeep, WakeInv, Queues
<1>5. \A o \in Origins : Holders(o) \subseteq Holders(o)' /\ Holders(o)' \subseteq Requests
  BY DEF OthersKeep, Holders
<1>6. \A o \in Origins : Busy(o) \subseteq Busy(o)' /\ Busy(o)' \subseteq Requests
  BY PoolAssumption DEF OthersKeep, Busy, Holders, Tokens, WakeInv, TokensHeld, PoolAssumption
<1>7. \A o \in Origins : Covered(o)'
  BY <1>3, <1>6, Larger, PoolAssumption DEF WakeInv, Covered
<1>8. Parking'
  <2>1. ASSUME NEW s \in Requests, pc'[s] \in {"parkAdmit", "parkAcquire"}
        PROVE  MaxConnections # 0 /\ MaxConnections <= Cardinality(Holders(origin[s])')
    <3>1. PICK o \in Origins : o = origin[s] BY DEF Inv, TypeOK, RequestTypes
    <3>2. origin'[s] = o BY <3>1 DEF OthersKeep
    <3>3. MaxConnections # 0 /\ MaxConnections <= Cardinality(Holders(o))
      BY <2>1, <3>1 DEF OthersKeep, WakeInv, Parking
    <3>4. MaxConnections <= Cardinality(Holders(o)') BY <1>5, <3>3, Larger
    <3>5. Holders(origin[s])' = Holders(o)' BY <3>2 DEF Holders
    <3>. QED BY <3>3, <3>4, <3>5
  <2>. QED BY <2>1 DEF Parking
<1>. QED BY <1>1, <1>2, <1>4, <1>7, <1>8 DEF WakeInv

(* r gives up the slot of p it holds or was told of, and wakes a waiter.    *)
LEMMA HandOnWakes ==
  ASSUME PoolAssumption, Inv, WakeInv, NEW r \in Requests, OthersKeep(r),
         NEW p \in Origins, p = origin[r], WakeWaiter(p), r \in Busy(p),
         loop \in {NoReq, r}, pc[r] \notin Waiting,
         pc'[r] \notin Waiting \cup Holding \cup {"parkAdmit", "parkAcquire"},
         notifiedOrigin'[r] = NoOrigin
  PROVE  WakeInv'
<1>0. WaiterTypes /\ Queues /\ TokensHeld /\ LoopOwner /\ \A o \in Origins : Covered(o)
  BY DEF Inv, TypeOK, WakeInv
<1>1. LoopOwner' BY <1>0 DEF OthersKeep, LoopOwner
<1>2. /\ \A o \in Origins : Distinct(waiters'[o])
      /\ \A o \in Origins : o # p => Queued(o)' = Queued(o)
      /\ \/ Queued(p)' = {} /\ UNCHANGED <<notified, slotNotified>>
         \/ \E w \in Queued(p) :
              /\ ~notified[w] /\ Queued(p)' \subseteq Queued(p) \ {w}
              /\ notified' = [notified EXCEPT ![w] = TRUE]
              /\ slotNotified' = [slotNotified EXCEPT ![w] = TRUE]
  BY <1>0, WakeEffect
<1>3. \A o \in Origins : Queued(o) \subseteq Requests BY <1>0 DEF Queued, WaiterTypes
<1>4. Parking'
  BY PoolAssumption, <1>0 DEF Parking, LoopOwner, OthersKeep, PoolAssumption
<1>5. CASE Queued(p)' = {} /\ UNCHANGED <<notified, slotNotified>>
  <2>1. TokensHeld' BY <1>0, <1>5, PoolAssumption DEF OthersKeep, TokensHeld, PoolAssumption
  <2>2. Queues' BY <1>0, <1>2, <1>3, <1>5 DEF OthersKeep, Queues
  <2>3. \A o \in Origins : o # p => Busy(o) \subseteq Busy(o)' /\ Busy(o)' \subseteq Requests
    BY <1>0, <1>5, PoolAssumption DEF OthersKeep, Busy, Holders, Tokens, TokensHeld, PoolAssumption
  <2>4. \A o \in Origins : o # p => Covered(o)'
    BY <1>0, <1>2, <1>5, <2>3, Larger, PoolAssumption DEF Covered
  <2>5. Covered(p)' BY <1>5 DEF Covered
  <2>. QED BY <1>1, <1>4, <2>1, <2>2, <2>4, <2>5 DEF WakeInv
<1>6. ASSUME NEW w \in Queued(p), ~notified[w], Queued(p)' \subseteq Queued(p) \ {w},
             notified' = [notified EXCEPT ![w] = TRUE],
             slotNotified' = [slotNotified EXCEPT ![w] = TRUE]
      PROVE  WakeInv'
  <2>1. /\ w \in Requests /\ w # r /\ pc[w] \in Waiting /\ origin[w] = p /\ ~slotNotified[w]
        /\ notifiedOrigin[w] = NoOrigin
    BY <1>0, <1>3, <1>6, PoolAssumption DEF Queues, TokensHeld, PoolAssumption
  <2>2. /\ notified'[w] /\ \A s \in Requests : s # w => notified'[s] = notified[s]
        /\ slotNotified'[w] /\ \A s \in Requests : s # w => slotNotified'[s] = slotNotified[s]
    BY <1>0, <1>6, <2>1 DEF WaiterTypes
  <2>3. pc'[w] \in Waiting /\ origin'[w] = p BY <2>1 DEF OthersKeep
  <2>4. TokensHeld'
    BY <1>0, <2>1, <2>2, <2>3, PoolAssumption DEF OthersKeep, TokensHeld, PoolAssumption
  <2>5. Queues' BY <1>0, <1>2, <1>3, <1>6, <2>1, <2>2 DEF OthersKeep, Queues
  <2>6. \A o \in Origins : o # p => Busy(o) \subseteq Busy(o)'
    BY <1>0, <2>1, <2>2, PoolAssumption DEF OthersKeep, Busy, Holders, Tokens, TokensHeld, PoolAssumption
  <2>7. \A o \in Origins : Busy(o)' \subseteq Requests /\ Busy(o) \subseteq Requests
    BY DEF Busy, Holders, Tokens
  <2>8. /\ w \in Busy(p)' /\ w \notin Busy(p) /\ Busy(p) \ {r} \subseteq Busy(p)'
    <3>1. w \in Busy(p)' BY <2>1, <2>2, <2>3 DEF Busy, Tokens
    <3>2. w \notin Busy(p) BY <2>1, PoolAssumption DEF Busy, Tokens, Holders, PoolAssumption
    <3>3. \A s \in Busy(p) \ {r} : s \in Busy(p)'
      BY <2>2 DEF Busy, Tokens, Holders, OthersKeep
    <3>. QED BY <3>1, <3>2, <3>3
  <2>9. \A o \in Origins : o # p => Covered(o)'
    <3> TAKE o \in Origins
    <3> HAVE o # p
    <3>1. Queued(o)' = Queued(o) BY <1>2
    <3>2. (\E s \in Queued(o)' : ~notified'[s]) => \E s \in Queued(o) : ~notified[s]
      BY <1>3, <2>2, <3>1
    <3>. QED BY <1>0, <2>6, <2>7, <3>2, Larger, PoolAssumption DEF Covered
  <2>10. Covered(p)'
    <3>1. MaxConnections # 0 /\ MaxConnections <= Cardinality(Busy(p)) BY <1>0, <1>6 DEF Covered
    <3>2. MaxConnections <= Cardinality(Busy(p)') BY <2>7, <2>8, <3>1, Exchanged, PoolAssumption
    <3>. QED BY <3>1, <3>2 DEF Covered
  <2>. QED BY <1>1, <1>4, <2>4, <2>5, <2>9, <2>10 DEF WakeInv
<1>. QED BY <1>2, <1>5, <1>6

(* await_suspend: whoever queues has found every slot held.                 *)
LEMMA ParkWakes ==
  ASSUME PoolAssumption, Inv, WakeInv, NEW r \in Requests, Park(r)
  PROVE  WakeInv'
<1> USE DEF reqVars, waitVars, poolVars, userVars
<1>0. /\ Queues /\ TokensHeld /\ LoopOwner /\ Parking /\ \A o \in Origins : Covered(o)
      /\ waiters \in [Origins -> Seq(Requests)] /\ notified \in [Requests -> BOOLEAN]
      /\ slotNotified \in [Requests -> BOOLEAN] /\ pc \in [Requests -> Positions]
      /\ notifiedOrigin \in [Requests -> Origins \cup {NoOrigin}]
  BY DEF WakeInv, Inv, TypeOK, WaiterTypes, RequestTypes, ControlTypes
<1>1. PICK p \in Origins : p = origin[r] BY DEF Inv, TypeOK, RequestTypes
<1>2. /\ loop = r /\ pc[r] \in {"parkAdmit", "parkAcquire"} /\ loop' = NoReq /\ origin' = origin
      /\ pc'[r] \in Waiting /\ \A s \in Requests : s # r => pc'[s] = pc[s]
      /\ notifiedOrigin'[r] = NoOrigin
      /\ \A s \in Requests : s # r => notifiedOrigin'[s] = notifiedOrigin[s]
      /\ \A s \in Requests : s # r => notified'[s] = notified[s] /\ slotNotified'[s] = slotNotified[s]
      /\ slotNotified'[r] = FALSE
  BY <1>0 DEF Park, Suspend, SetWakeup
<1>3. \A o \in Origins : Queued(o) \subseteq Requests /\ r \notin Queued(o)
  BY <1>0, <1>2 DEF Queued, Queues
<1>4. /\ waiters'[p] = Append(waiters[p], r)
      /\ \A o \in Origins : o # p => waiters'[o] = waiters[o]
  BY <1>0, <1>1 DEF Park
<1>5. Queued(p)' \subseteq Queued(p) \cup {r} /\ Distinct(waiters'[p])
  <2>1. PICK q \in Seq(Requests) : q = waiters[p] BY <1>0
  <2>2. PICK t : t = Append(q, r) OBVIOUS
  <2>3. /\ Len(q) \in Nat /\ DOMAIN q = 1..Len(q) /\ DOMAIN t = 1..(Len(q) + 1)
        /\ t[Len(q) + 1] = r /\ \A i \in 1..Len(q) : t[i] = q[i]
    BY <2>2
  <2>4. \A i \in DOMAIN q : q[i] # r BY <1>3, <2>1 DEF Queued
  <2>5. Distinct(q) BY <1>0, <2>1 DEF Queues
  <2>6. Distinct(t) BY <2>3, <2>4, <2>5 DEF Distinct
  <2>7. \A i \in DOMAIN t : t[i] = r \/ \E j \in DOMAIN q : t[i] = q[j] BY <2>3
  <2>8. waiters'[p] = t BY <1>4, <2>1, <2>2
  <2>9. Queued(p)' = {t[i] : i \in DOMAIN t} BY <2>8 DEF Queued
  <2>. QED BY <2>1, <2>6, <2>7, <2>8, <2>9 DEF Queued
<1>6. \A o \in Origins : o # p => Queued(o)' = Queued(o) BY <1>4 DEF Queued
<1>7. LoopOwner' BY <1>0, <1>2 DEF LoopOwner
<1>8. TokensHeld' BY <1>0, <1>2 DEF TokensHeld
<1>9. Queues'
  <2>1. \A o \in Origins : Distinct(waiters'[o]) BY <1>0, <1>4, <1>5 DEF Queues
  <2>2. \A o \in Origins : \A s \in Queued(o)' :
          pc'[s] \in Waiting /\ origin'[s] = o /\ ~slotNotified'[s]
    <3> TAKE o \in Origins
    <3> TAKE s \in Queued(o)'
    <3>1. (s = r /\ o = p) \/ s \in Queued(o) BY <1>5, <1>6
    <3>2. CASE s = r /\ o = p BY <1>1, <1>2, <3>2
    <3>3. CASE s \in Queued(o)
      <4>1. s \in Requests /\ s # r BY <1>3, <3>3
      <4>2. pc[s] \in Waiting /\ origin[s] = o /\ ~slotNotified[s] BY <1>0, <3>3 DEF Queues
      <4>. QED BY <1>2, <4>1, <4>2
    <3>. QED BY <3>1, <3>2, <3>3
  <2>. QED BY <2>1, <2>2 DEF Queues
<1>10. Parking' BY <1>0, <1>2 DEF Parking, LoopOwner
<1>11. \A o \in Origins : Holders(o)' = Holders(o) /\ Holders(o) \subseteq Requests
  BY <1>2 DEF Holders
<1>12. \A o \in Origins : o # p => Busy(o) \subseteq Busy(o)' /\ Busy(o)' \subseteq Requests
  BY <1>0, <1>1, <1>2, PoolAssumption DEF Busy, Holders, Tokens, TokensHeld, PoolAssumption
<1>13. \A o \in Origins : o # p => Covered(o)'
  <2> TAKE o \in Origins
  <2> HAVE o # p
  <2>1. (\E s \in Queued(o)' : ~notified'[s]) => \E s \in Queued(o) : ~notified[s]
    BY <1>2, <1>3, <1>6
  <2>. QED BY <1>0, <1>12, <2>1, Larger, PoolAssumption DEF Covered
<1>14. Covered(p)'
  <2>1. MaxConnections # 0 /\ MaxConnections <= Cardinality(Holders(p))
    BY <1>0, <1>1, <1>2 DEF Parking
  <2>2. Holders(p) \subseteq Busy(p)' /\ Busy(p)' \subseteq Requests
    BY <1>11 DEF Busy, Holders, Tokens
  <2>3. MaxConnections <= Cardinality(Busy(p)') BY <2>1, <2>2, Larger, PoolAssumption
  <2>. QED BY <2>1, <2>3 DEF Covered
<1>. QED BY <1>7, <1>8, <1>9, <1>10, <1>13, <1>14 DEF WakeInv

(* await_resume: a waiter told of a slot takes the news along.              *)
LEMMA ReadyWakes ==
  ASSUME PoolAssumption, Inv, WakeInv, NEW r \in Requests, Ready(r)
  PROVE  WakeInv'
<1> USE DEF reqVars, poolVars, userVars
<1>0. /\ Queues /\ TokensHeld /\ LoopOwner /\ Parking /\ \A o \in Origins : Covered(o)
      /\ waiters \in [Origins -> Seq(Requests)] /\ notified \in [Requests -> BOOLEAN]
      /\ slotNotified \in [Requests -> BOOLEAN] /\ pc \in [Requests -> Positions]
      /\ notifiedOrigin \in [Requests -> Origins \cup {NoOrigin}] /\ NoReq \notin Requests
  BY PoolAssumption DEF WakeInv, Inv, TypeOK, WaiterTypes, RequestTypes, ControlTypes, PoolAssumption
<1>1. PICK p \in Origins : p = origin[r] BY DEF Inv, TypeOK, RequestTypes
<1>2. /\ loop = NoReq /\ pc[r] \in Waiting /\ loop' = r /\ origin' = origin
      /\ pc'[r] \in {"admit", "acquire"} /\ \A s \in Requests : s # r => pc'[s] = pc[s]
      /\ notifiedOrigin'[r] = IF slotNotified[r] THEN p ELSE notifiedOrigin[r]
      /\ \A s \in Requests : s # r => notifiedOrigin'[s] = notifiedOrigin[s]
      /\ \A s \in Requests : s # r => notified'[s] = notified[s] /\ slotNotified'[s] = slotNotified[s]
      /\ slotNotified'[r] = FALSE
  BY <1>0, <1>1 DEF Ready, Continue
<1>3. /\ waiters'[p] = Unqueued(waiters[p], r)
      /\ \A o \in Origins : o # p => waiters'[o] = waiters[o]
  BY <1>0, <1>1 DEF Ready
<1>4. Queued(p)' \subseteq Queued(p) \ {r} /\ Distinct(waiters'[p])
  <2>1. waiters[p] \in Seq(Requests) /\ Distinct(waiters[p]) BY <1>0 DEF Queues
  <2>2. PICK u : u = Unqueued(waiters[p], r) OBVIOUS
  <2>3. Distinct(u) /\ \A i \in DOMAIN u : u[i] # r /\ \E j \in DOMAIN waiters[p] : u[i] = waiters[p][j]
    BY <2>1, <2>2, UnqueuedQueue
  <2>4. Queued(p)' = {u[i] : i \in DOMAIN u} BY <1>3, <2>2 DEF Queued
  <2>. QED BY <1>3, <2>2, <2>3, <2>4 DEF Queued
<1>5. \A o \in Origins : o # p => Queued(o)' = Queued(o) BY <1>3 DEF Queued
<1>6. \A o \in Origins : Queued(o)' \subseteq Queued(o) \ {r} /\ Queued(o) \subseteq Requests
  <2>1. \A o \in Origins : Queued(o) \subseteq Requests BY <1>0 DEF Queued
  <2>2. \A o \in Origins : o # p => r \notin Queued(o) BY <1>0, <1>1 DEF Queues
  <2>. QED BY <1>4, <1>5, <2>1, <2>2
<1>7. LoopOwner' BY <1>0, <1>2 DEF LoopOwner
<1>8. TokensHeld' BY <1>0, <1>1, <1>2 DEF TokensHeld
<1>9. Queues'
  <2>1. \A o \in Origins : Distinct(waiters'[o]) BY <1>0, <1>3, <1>4 DEF Queues
  <2>2. \A o \in Origins : \A s \in Queued(o)' :
          pc'[s] \in Waiting /\ origin'[s] = o /\ ~slotNotified'[s]
    BY <1>0, <1>2, <1>6 DEF Queues
  <2>. QED BY <2>1, <2>2 DEF Queues
<1>10. Parking' BY <1>0, <1>2 DEF Parking, LoopOwner
<1>11. \A o \in Origins : Busy(o) \subseteq Busy(o)' /\ Busy(o)' \subseteq Requests
  BY <1>0, <1>1, <1>2, PoolAssumption DEF Busy, Holders, Tokens, TokensHeld, PoolAssumption
<1>12. \A o \in Origins : Covered(o)'
  <2> TAKE o \in Origins
  <2>1. (\E s \in Queued(o)' : ~notified'[s]) => \E s \in Queued(o) : ~notified[s]
    BY <1>2, <1>6
  <2>. QED BY <1>0, <1>11, <2>1, Larger, PoolAssumption DEF Covered
<1>. QED BY <1>7, <1>8, <1>9, <1>10, <1>12 DEF WakeInv

(* A wakeup for another reason than a slot announces nothing.               *)
LEMMA NotifyWakes ==
  ASSUME PoolAssumption, Inv, WakeInv,
         UNCHANGED <<pc, loop, origin, notifiedOrigin, slotNotified, waiters>>,
         \A s \in Requests : notified[s] => notified'[s]
  PROVE  WakeInv'
<1>1. \A o \in Origins : Queued(o)' = Queued(o) /\ Queued(o) \subseteq Requests
  BY DEF Queued, Inv, TypeOK, WaiterTypes
<1>2. \A o : Holders(o)' = Holders(o) /\ Busy(o)' = Busy(o) BY DEF Busy, Holders, Tokens
<1>3. Queues' /\ TokensHeld' /\ LoopOwner' BY <1>1 DEF WakeInv, Queues, TokensHeld, LoopOwner
<1>4. Parking' BY <1>2 DEF WakeInv, Parking
<1>5. \A o \in Origins : Covered(o)' BY <1>1, <1>2 DEF WakeInv, Covered
<1>. QED BY <1>3, <1>4, <1>5 DEF WakeInv

-----------------------------------------------------------------------------
(* No step loses an announcement or queues a request past a free slot.      *)
LEMMA WakeStep ==
  ASSUME PoolAssumption, Inv, WakeInv, [Next]_vars
  PROVE  WakeInv'
<1> USE DEF reqVars, waitVars, poolVars, userVars
<1>0. /\ pc \in [Requests -> Positions] /\ origin \in [Requests -> Origins]
      /\ notifiedOrigin \in [Requests -> Origins \cup {NoOrigin}]
      /\ NoReq \notin Requests /\ NoOrigin \notin Origins /\ LoopOwner /\ TokensHeld
  BY PoolAssumption DEF Inv, TypeOK, RequestTypes, ControlTypes, WakeInv, PoolAssumption
<1>1. ASSUME NEW r \in Requests, Start(r) \/ Precheck(r) \/ Resume(r) \/ Acquire(r) PROVE WakeInv'
  <2>1. OthersKeep(r)
    BY <1>0, <1>1 DEF OthersKeep, Start, Precheck, Resume, Acquire, Continue, Return, LoopOwner
  <2>2. /\ pc[r] \notin Waiting \cup Holding /\ pc'[r] \notin Waiting \cup {"parkAdmit", "parkAcquire"}
        /\ UNCHANGED waitVars /\ origin' = origin /\ notifiedOrigin' = notifiedOrigin
        /\ notifiedOrigin[r] = NoOrigin \/ pc'[r] \in Carrying
    BY <1>0, <1>1 DEF Start, Precheck, Resume, Acquire, Continue, Return, TokensHeld
  <2>. QED BY <2>1, <2>2, MoveWakes
<1>2. ASSUME NEW r \in Requests, Admit(r) PROVE WakeInv'
  <2>1. OthersKeep(r) BY <1>0, <1>2 DEF OthersKeep, Admit, Continue, Return, LoopOwner
  <2>2. /\ pc[r] = "admit" /\ pc'[r] \in {"acquire", "exit", "parkAdmit"}
        /\ UNCHANGED waitVars /\ origin' = origin /\ notifiedOrigin' = notifiedOrigin
        /\ pc'[r] = "parkAdmit" => Full(origin[r])
    BY <1>0, <1>2 DEF Admit, Continue, Return
  <2>3. Full(origin[r]) => MaxConnections # 0 /\ MaxConnections <= Cardinality(Holders(origin[r]))
    <3>1. origin[r] \in Origins /\ Cardinality(Holders(origin[r])) \in Nat /\ Len(<<>>) = 0
      BY <1>0, HoldersFinite
    <3>2. count[origin[r]] = Len(pool[origin[r]]) + Cardinality(Holders(origin[r]))
      BY <3>1 DEF Inv, SlotAccounting
    <3>. QED BY <3>1, <3>2, PoolAssumption DEF Full, PoolAssumption
  <2>. QED BY <2>1, <2>2, <2>3, MoveWakes
<1>3. ASSUME NEW r \in Requests, TakeIdle(r) \/ TakeSlot(r) PROVE WakeInv'
  <2>1. OthersKeep(r)
    BY <1>0, <1>3 DEF OthersKeep, TakeIdle, TakeSlot, Continue, Suspend, LoopOwner
  <2>2. /\ pc[r] = "take" /\ UNCHANGED waitVars /\ origin' = origin
        /\ \/ pc'[r] \in {"leased", "connecting"} /\ notifiedOrigin'[r] = NoOrigin
           \/ /\ pc'[r] = "parkAcquire" /\ notifiedOrigin' = notifiedOrigin
              /\ ~SlotFree(count[origin[r]] - Len(pool[origin[r]]))
    BY <1>0, <1>3 DEF TakeIdle, TakeSlot, Continue, Suspend
  <2>3. ~SlotFree(count[origin[r]] - Len(pool[origin[r]])) =>
          MaxConnections # 0 /\ MaxConnections <= Cardinality(Holders(origin[r]))
    <3>1. PICK o \in Origins : o = origin[r] BY <1>0
    <3>2. Cardinality(Holders(o)) \in Nat /\ pool[o] \in Seq(Conns) /\ Len(pool[o]) \in Nat
      BY HoldersFinite DEF Inv, TypeOK, PoolTypes
    <3>3. count[o] = Len(pool[o]) + Cardinality(Holders(o)) BY DEF Inv, SlotAccounting
    <3>4. count[o] - Len(pool[o]) = Cardinality(Holders(o)) BY <3>2, <3>3
    <3>. QED BY <3>1, <3>2, <3>4, PoolAssumption DEF SlotFree, PoolAssumption
  <2>. QED BY <2>1, <2>2, <2>3, MoveWakes
<1>4. ASSUME NEW r \in Requests, ConnectOk(r) \/ HandshakeOk(r) PROVE WakeInv'
  <2>1. OthersKeep(r)
    BY <1>0, <1>4 DEF OthersKeep, ConnectOk, HandshakeOk, Continue, LoopOwner
  <2>2. /\ pc[r] \in Holding /\ pc'[r] \in Holding /\ UNCHANGED waitVars /\ origin' = origin
        /\ notifiedOrigin' = notifiedOrigin /\ notifiedOrigin[r] = NoOrigin
    BY <1>0, <1>4 DEF ConnectOk, HandshakeOk, Continue, TokensHeld
  <2>. QED BY <2>1, <2>2, MoveWakes
<1>5. ASSUME NEW r \in Requests, pc[r] \in Holding, loop \in {NoReq, r},
             UNCHANGED <<waitVars, origin, notifiedOrigin>>,
             \/ \E p \in Holding : Continue(r, p)
             \/ \E p \in {"handshake", "io"} : Suspend(r, p)
      PROVE  WakeInv'
  <2>1. OthersKeep(r) BY <1>0, <1>5 DEF OthersKeep, Continue, Suspend, LoopOwner
  <2>2. pc'[r] \in Holding /\ notifiedOrigin[r] = NoOrigin
    BY <1>0, <1>5 DEF Continue, Suspend, TokensHeld
  <2>. QED BY <1>5, <2>1, <2>2, MoveWakes
<1>6. ASSUME NEW r \in Requests, pc[r] \in Holding, loop \in {NoReq, r},
             WakeWaiter(origin[r]), \A s \in Requests : s # r => origin'[s] = origin[s],
             UNCHANGED notifiedOrigin,
             Continue(r, "acquire") \/ \E res \in Results : Return(r, res)
      PROVE  WakeInv'
  <2>1. OthersKeep(r) BY <1>0, <1>6 DEF OthersKeep, Continue, Return, LoopOwner
  <2>2. PICK p \in Origins : p = origin[r] BY <1>0
  <2>3. r \in Busy(p) BY <1>6, <2>2 DEF Busy, Holders
  <2>4. pc'[r] \in {"acquire", "exit"} /\ notifiedOrigin'[r] = NoOrigin
    BY <1>0, <1>6 DEF Continue, Return, TokensHeld
  <2>. QED BY <1>6, <2>1, <2>2, <2>3, <2>4, HandOnWakes
<1>7. ASSUME NEW r \in Requests, ConnectFail(r) \/ IoFail(r) PROVE WakeInv'
  BY <1>6, <1>7 DEF ConnectFail, IoFail, Discard, ReleaseSlot
<1>8. ASSUME NEW r \in Requests, Connected(r) \/ Leased(r) \/ IoOk(r) PROVE WakeInv'
  <2>1. pc[r] \in Holding /\ loop \in {NoReq, r} /\ UNCHANGED <<origin, notifiedOrigin>>
    BY <1>8 DEF Connected, Leased, IoOk
  <2>2. \/ Discard(r) /\ \E res \in Results : Return(r, res)
        \/ /\ UNCHANGED waitVars
           /\ \/ \E p \in Holding : Continue(r, p)
              \/ \E p \in {"handshake", "io"} : Suspend(r, p)
    BY <1>8 DEF Connected, Leased, IoOk
  <2>3. CASE Discard(r) /\ \E res \in Results : Return(r, res)
    BY <1>6, <2>1, <2>3 DEF Discard, ReleaseSlot
  <2>. QED BY <1>5, <2>1, <2>2, <2>3
<1>9. ASSUME NEW r \in Requests, Finish(r) PROVE WakeInv'
  <2>1. /\ pc[r] = "finish" /\ loop = r /\ Release(r) /\ UNCHANGED notifiedOrigin
        /\ Continue(r, "acquire") \/ \E res \in Results : Return(r, res)
    BY <1>9 DEF Finish
  <2>2. origin' = origin \/ \E o \in Origins : origin' = [origin EXCEPT ![r] = o]
    BY <1>9 DEF Finish
  <2>3. WakeWaiter(origin[r]) BY <2>1 DEF Release, ReleaseSlot
  <2>. QED BY <1>0, <1>6, <2>1, <2>2, <2>3
<1>10. ASSUME NEW r \in Requests, Leave(r) PROVE WakeInv'
  <2>1. OthersKeep(r) BY <1>0, <1>10 DEF OthersKeep, Leave, LoopOwner
  <2>2. /\ pc[r] \in {"exit", "exitOff"} /\ pc'[r] = "done" /\ notifiedOrigin'[r] = NoOrigin
        /\ origin' = origin /\ HandOn(r)
    BY <1>0, <1>10 DEF Leave
  <2>3. CASE notifiedOrigin[r] = NoOrigin
    <3>1. UNCHANGED waitVars BY <2>2, <2>3 DEF HandOn
    <3>. QED BY <2>1, <2>2, <2>3, <3>1, MoveWakes
  <2>4. CASE notifiedOrigin[r] # NoOrigin
    <3>1. PICK p \in Origins : p = origin[r] BY <1>0
    <3>2. notifiedOrigin[r] = p /\ pc[r] = "exit" BY <1>0, <2>2, <2>4, <3>1 DEF TokensHeld
    <3>3. loop = r BY <1>10, <3>2 DEF Leave
    <3>4. WakeWaiter(p) BY <2>2, <2>4, <3>2 DEF HandOn
    <3>5. r \in Busy(p) BY <3>2 DEF Busy, Tokens
    <3>. QED BY <2>1, <2>2, <3>1, <3>2, <3>3, <3>4, <3>5, HandOnWakes
  <2>. QED BY <2>3, <2>4
<1>11. ASSUME NEW r \in Requests, Notify(r) PROVE WakeInv'
  BY <1>11, NotifyWakes DEF Notify, Inv, TypeOK, WaiterTypes
<1>12. ASSUME UNCHANGED <<pc, loop, origin, notifiedOrigin, slotNotified, waiters, notified>>
       PROVE  WakeInv'
  BY <1>12, NotifyWakes
<1>13. ASSUME NEW r \in Requests, SetFlag(r) \/ Expire(r) \/ StopMark(r) \/ AllMark(r) PROVE WakeInv'
  BY <1>12, <1>13 DEF SetFlag, Expire, StopMark, AllMark, StopUnchanged
<1>14. ASSUME NEW a \in Agents, StopStep(a) PROVE WakeInv'
  BY <1>12, <1>14 DEF StopStep, StopSnapshot, StopClose, StopWake, StopUnchanged
<1>15. ASSUME CancelAll \/ Quiescent \/ UNCHANGED vars \/ \E c \in Conns : CloseActive(c)
       PROVE  WakeInv'
  BY <1>12, <1>15 DEF CancelAll, Quiescent, vars, CloseActive, StopUnchanged
<1>. QED
  BY <1>1, <1>2, <1>3, <1>4, <1>7, <1>8, <1>9, <1>10, <1>11, <1>13, <1>14, <1>15,
     ParkWakes, ReadyWakes
  DEF Next, LoopStep, IoStep, UserStep

(* The invariant behind the wakeups holds throughout.                       *)
THEOREM WakeInvariant == Spec => [](Inv /\ WakeInv)
<1>1. Init => Inv /\ WakeInv
  <2> SUFFICES ASSUME Init PROVE Inv /\ WakeInv OBVIOUS
  <2>1. Inv BY PoolAssumption, InvInit
  <2>2. \A o \in Origins : Queued(o) = {} /\ Distinct(waiters[o]) BY DEF Init, Queued, Distinct
  <2>3. Queues /\ \A o \in Origins : Covered(o) BY <2>2 DEF Queues, Covered
  <2>4. TokensHeld /\ LoopOwner /\ Parking BY DEF Init, TokensHeld, LoopOwner, Parking
  <2>. QED BY <2>1, <2>3, <2>4 DEF WakeInv
<1>2. Inv /\ WakeInv /\ [Next]_vars => (Inv /\ WakeInv)'
  BY PoolAssumption, InvStep, WakeStep
<1>. QED BY <1>1, <1>2, PTL DEF Spec

(* No lost wakeup, for every number of requests and every interleaving with *)
(* the threads that cancel: while a request is queued and has not been      *)
(* woken, every slot of its origin is held or announced to another request. *)
THEOREM WakeupsKept == Spec => []NoLostWakeup
<1>1. Inv /\ WakeInv => NoLostWakeup
  <2> SUFFICES ASSUME Inv, WakeInv, NEW o \in Origins, NEW i \in DOMAIN waiters[o],
                      ~notified[waiters[o][i]]
               PROVE  /\ MaxConnections # 0
                      /\ MaxConnections <= Cardinality(Holders(o)) + Cardinality(Tokens(o))
    BY DEF NoLostWakeup
  <2>1. waiters[o][i] \in Queued(o) BY DEF Queued
  <2>2. MaxConnections # 0 /\ MaxConnections <= Cardinality(Busy(o))
    BY <2>1 DEF WakeInv, Covered
  <2>3. Cardinality(Busy(o)) = Cardinality(Holders(o)) + Cardinality(Tokens(o))
    BY PoolAssumption, CoverCounts DEF WakeInv
  <2>. QED BY <2>2, <2>3
<1>. QED BY <1>1, WakeInvariant, PTL
=============================================================================

------------------------ MODULE ConnectionPoolProofs ------------------------
(***************************************************************************)
(* Proofs about ConnectionPool, for any number of requests, origins and    *)
(* connections and any limits.                                             *)
(***************************************************************************)
EXTENDS ConnectionPool, TLAPS, FiniteSetTheorems

(* A request refers to a connection exactly while it holds a slot.          *)
HoldersHaveConn ==
  \A r \in Requests : IF pc[r] \in Holding THEN conn[r] \in Conns ELSE conn[r] = NoConn

(* A thread inside RequestControl::cancel cancels some request.             *)
StoppersHaveReq ==
  \A a \in Agents : stopper[a].phase \in {"marked", "closing", "waking"}
                      => stopper[a].req \in Requests

(* connection_counts and the idle lists stay within the configured limits.  *)
CountLimits ==
  \A o \in Origins : /\ MaxConnections # 0 => count[o] <= MaxConnections
                     /\ Len(pool[o]) <= PoolSize

(* The inductive invariant.  TypeOK alone is not: that the count stays a    *)
(* natural number when stale idle connections are dropped rests on          *)
(* SlotAccounting, and that the pool only holds connections rests on        *)
(* HoldersHaveConn.                                                         *)
Inv == /\ TypeOK /\ HoldersHaveConn /\ StoppersHaveReq
       /\ SlotAccounting /\ CountLimits

USE DEF Positions, Waiting, Running, Holding, Results, Links, Phases, Agents, Idle

-----------------------------------------------------------------------------
(* Lemmas about the pieces the actions share.                               *)

(* Taking a waiter off a queue leaves a queue.                              *)
LEMMA UnqueuedType ==
  ASSUME NEW S, NEW q \in Seq(S), NEW r
  PROVE  Unqueued(q, r) \in Seq(S)
<1>1. CASE \E k \in DOMAIN q : q[k] = r
  <2> DEFINE k == CHOOSE k \in DOMAIN q : q[k] = r
  <2>1. k \in 1..Len(q) BY <1>1
  <2> HIDE DEF k
  <2>2. SubSeq(q, 1, k - 1) \in Seq(S) /\ SubSeq(q, k + 1, Len(q)) \in Seq(S)
    BY <2>1
  <2>3. SubSeq(q, 1, k - 1) \o SubSeq(q, k + 1, Len(q)) \in Seq(S) BY <2>2
  <2>. QED BY <1>1, <2>3 DEF Unqueued, k
<1>2. CASE ~\E k \in DOMAIN q : q[k] = r
  BY <1>2 DEF Unqueued
<1>. QED BY <1>1, <1>2

(* wake_pool_waiter leaves well-typed queues and waiters.                   *)
LEMMA WakeWaiterTypes ==
  ASSUME NEW o \in Origins, WaiterTypes, WakeWaiter(o)
  PROVE  /\ waiters' \in [Origins -> Seq(Requests)]
         /\ notified' \in [Requests -> BOOLEAN]
         /\ slotNotified' \in [Requests -> BOOLEAN]
<1>1. CASE \A k \in DOMAIN waiters[o] : notified[waiters[o][k]]
  <2>1. /\ waiters' = [waiters EXCEPT ![o] = <<>>]
        /\ UNCHANGED <<notified, slotNotified>>
    BY <1>1 DEF WakeWaiter
  <2>2. <<>> \in Seq(Requests) OBVIOUS
  <2>. QED BY <2>1, <2>2 DEF WaiterTypes
<1>2. CASE ~\A k \in DOMAIN waiters[o] : notified[waiters[o][k]]
  <2>1. PICK k \in DOMAIN waiters[o] :
          /\ waiters' = [waiters EXCEPT ![o] = SubSeq(waiters[o], k + 1, Len(waiters[o]))]
          /\ notified' = [notified EXCEPT ![waiters[o][k]] = TRUE]
          /\ slotNotified' = [slotNotified EXCEPT ![waiters[o][k]] = TRUE]
    BY <1>2 DEF WakeWaiter
  <2>2. waiters[o] \in Seq(Requests) BY DEF WaiterTypes
  <2>3. SubSeq(waiters[o], k + 1, Len(waiters[o])) \in Seq(Requests) BY <2>1, <2>2
  <2>. QED BY <2>1, <2>2, <2>3 DEF WaiterTypes
<1>. QED BY <1>1, <1>2

(* Where a coroutine may stand, who runs and how a request ended.           *)
MoveTypes == /\ pc \in [Requests -> Positions] /\ loop \in Requests \cup {NoReq}
             /\ result \in [Requests -> Results]

(* Returning keeps these types.                                             *)
LEMMA ReturnTypes ==
  ASSUME MoveTypes, NEW r \in Requests, NEW res \in Results, Return(r, res)
  PROVE  MoveTypes'
BY DEF MoveTypes, Return

(* Going on keeps them.                                                     *)
LEMMA ContinueTypes ==
  ASSUME MoveTypes, NEW r \in Requests, NEW p \in Positions, Continue(r, p)
  PROVE  MoveTypes'
BY DEF MoveTypes, Continue

(* Suspending keeps them.                                                   *)
LEMMA SuspendTypes ==
  ASSUME MoveTypes, NEW r \in Requests, NEW p \in Positions, Suspend(r, p)
  PROVE  MoveTypes'
BY DEF MoveTypes, Suspend

(* release_slot: the count drops by one and the idle list is untouched; it  *)
(* is erased only when it is empty anyway.                                  *)
LEMMA ReleaseSlotEffect ==
  ASSUME NEW o \in Origins, TypeOK, ReleaseSlot(o), count[o] > Len(pool[o])
  PROVE  /\ count' = [count EXCEPT ![o] = count[o] - 1]
         /\ count' \in [Origins -> Nat]
         /\ pool' = pool
<1>1. pool[o] \in Seq(Conns) /\ count[o] \in Nat /\ Len(pool[o]) \in Nat
  BY DEF TypeOK, PoolTypes
<1>2. count' = [count EXCEPT ![o] = count[o] - 1]
  <2>1. count[o] # 0 BY <1>1
  <2>2. count' = [count EXCEPT ![o] = IF count[o] # 0 THEN count[o] - 1 ELSE count[o]]
    BY DEF ReleaseSlot
  <2>. QED BY <2>1, <2>2
<1>3. count' \in [Origins -> Nat]
  BY <1>1, <1>2 DEF TypeOK, PoolTypes
<1>4. ASSUME count'[o] = 0 PROVE pool[o] = <<>>
  <2>1. Len(pool[o]) = 0 BY <1>1, <1>2, <1>4 DEF TypeOK, PoolTypes
  <2>. QED BY <1>1, <2>1
<1>5. pool' = pool
  BY <1>4 DEF ReleaseSlot, TypeOK, PoolTypes
<1>. QED BY <1>2, <1>3, <1>5

(* The holders of an origin are finitely many.                              *)
LEMMA HoldersFinite ==
  ASSUME PoolAssumption, NEW o
  PROVE  IsFiniteSet(Holders(o)) /\ Cardinality(Holders(o)) \in Nat
<1>1. Holders(o) \subseteq Requests BY DEF Holders
<1>2. IsFiniteSet(Holders(o)) BY <1>1, FS_Subset DEF PoolAssumption
<1>. QED BY <1>2, FS_CardinalityType

(* A request that holds a slot is counted beside the idle connections.      *)
LEMMA HolderCounted ==
  ASSUME PoolAssumption, Inv, NEW r \in Requests, pc[r] \in Holding
  PROVE  count[origin[r]] > Len(pool[origin[r]])
<1>1. origin[r] \in Origins BY DEF Inv, TypeOK, RequestTypes
<1>2. Len(pool[origin[r]]) \in Nat
  <2>1. pool[origin[r]] \in Seq(Conns) BY <1>1 DEF Inv, TypeOK, PoolTypes
  <2>. QED BY <2>1
<1>3. r \in Holders(origin[r]) BY DEF Holders
<1>4. Cardinality(Holders(origin[r])) # 0
  BY <1>3, HoldersFinite, FS_EmptySet
<1>. QED BY <1>1, <1>2, <1>4, HoldersFinite DEF Inv, SlotAccounting

(* discard, fail and fail_connection: what giving a slot back changes.      *)
LEMMA DiscardEffect ==
  ASSUME PoolAssumption, Inv, NEW r \in Requests, pc[r] \in Holding, Discard(r)
  PROVE  /\ count' = [count EXCEPT ![origin[r]] = count[origin[r]] - 1]
         /\ pool' = pool
         /\ PoolTypes'
         /\ conn' = [conn EXCEPT ![r] = NoConn]
         /\ bound' \in [Requests -> Conns \cup {NoConn}]
         /\ waiters' \in [Origins -> Seq(Requests)]
         /\ notified' \in [Requests -> BOOLEAN]
         /\ slotNotified' \in [Requests -> BOOLEAN]
<1>1. origin[r] \in Origins /\ conn[r] \in Conns
  BY DEF Inv, TypeOK, RequestTypes, HoldersHaveConn
<1>2. ReleaseSlot(origin[r]) BY DEF Discard
<1>3. /\ count' = [count EXCEPT ![origin[r]] = count[origin[r]] - 1]
      /\ count' \in [Origins -> Nat] /\ pool' = pool
  BY <1>1, <1>2, HolderCounted, ReleaseSlotEffect DEF Inv
<1>4. PoolTypes'
  BY <1>1, <1>3 DEF Discard, Inv, TypeOK, PoolTypes
<1>5. /\ waiters' \in [Origins -> Seq(Requests)]
      /\ notified' \in [Requests -> BOOLEAN]
      /\ slotNotified' \in [Requests -> BOOLEAN]
  <2>1. WakeWaiter(origin[r]) BY <1>2 DEF ReleaseSlot
  <2>. QED BY <1>1, <2>1, WakeWaiterTypes DEF Inv, TypeOK
<1>6. conn' = [conn EXCEPT ![r] = NoConn] /\ bound' \in [Requests -> Conns \cup {NoConn}]
  BY DEF Discard, Inv, TypeOK, ControlTypes
<1>. QED BY <1>3, <1>4, <1>5, <1>6

(* release: either the connection is pooled, or the slot is given back.     *)
LEMMA ReleaseEffect ==
  ASSUME PoolAssumption, Inv, NEW r \in Requests, pc[r] \in Holding, Release(r)
  PROVE  /\ \/ /\ count' = [count EXCEPT ![origin[r]] = count[origin[r]] - 1]
               /\ pool' = pool
            \/ /\ count' = count
               /\ pool' = [pool EXCEPT ![origin[r]] = Append(pool[origin[r]], conn[r])]
               /\ Len(pool[origin[r]]) < PoolSize
         /\ PoolTypes'
         /\ conn' = [conn EXCEPT ![r] = NoConn]
         /\ bound' \in [Requests -> Conns \cup {NoConn}]
         /\ waiters' \in [Origins -> Seq(Requests)]
         /\ notified' \in [Requests -> BOOLEAN]
         /\ slotNotified' \in [Requests -> BOOLEAN]
<1> DEFINE o == origin[r]
<1> DEFINE c == conn[r]
<1>1. o \in Origins /\ c \in Conns
  BY DEF Inv, TypeOK, RequestTypes, HoldersHaveConn
<1>2. /\ conn' = [conn EXCEPT ![r] = NoConn]
      /\ bound' \in [Requests -> Conns \cup {NoConn}]
      /\ active' \subseteq Conns
  BY DEF Release, Inv, TypeOK, ControlTypes, PoolTypes
<1>3. WakeWaiter(o) BY DEF Release, ReleaseSlot
<1>4. /\ waiters' \in [Origins -> Seq(Requests)]
      /\ notified' \in [Requests -> BOOLEAN]
      /\ slotNotified' \in [Requests -> BOOLEAN]
  BY <1>1, <1>3, WakeWaiterTypes DEF Inv, TypeOK
<1>5. CASE /\ pool' = [pool EXCEPT ![o] = Append(@, c)] /\ Len(pool[o]) < PoolSize
           /\ UNCHANGED <<count, link>>
  <2>1. Append(pool[o], c) \in Seq(Conns)
    BY <1>1 DEF Inv, TypeOK, PoolTypes
  <2>2. PoolTypes'
    BY <1>1, <1>2, <1>5, <2>1 DEF Inv, TypeOK, PoolTypes
  <2>. QED BY <1>2, <1>4, <1>5, <2>2
<1>6. CASE link' = [link EXCEPT ![c] = "closed"] /\ ReleaseSlot(o)
  <2>1. /\ count' = [count EXCEPT ![o] = count[o] - 1]
        /\ count' \in [Origins -> Nat] /\ pool' = pool
    BY <1>1, <1>6, HolderCounted, ReleaseSlotEffect DEF Inv
  <2>2. PoolTypes'
    BY <1>1, <1>2, <1>6, <2>1 DEF Inv, TypeOK, PoolTypes
  <2>. QED BY <1>2, <1>4, <2>1, <2>2
<1>. QED BY <1>5, <1>6 DEF Release

-----------------------------------------------------------------------------
(* Type correctness is preserved by every action.                           *)
LEMMA TypeStep ==
  ASSUME PoolAssumption, Inv, [Next]_vars
  PROVE  TypeOK'
<1> USE DEF reqVars, waitVars, poolVars, userVars
<1> USE Inv DEF TypeOK
<1>1. ASSUME NEW r \in Requests, Start(r) PROVE TypeOK'
  <2>1. RequestTypes' /\ ControlTypes' /\ WaiterTypes' /\ PoolTypes'
    BY <1>1 DEF Inv, Start, RequestTypes, ControlTypes, WaiterTypes, PoolTypes
  <2>2. StopTypes' BY <1>1 DEF Inv, Start, StopTypes
  <2>. QED BY <2>1, <2>2
<1>2. ASSUME NEW r \in Requests, Precheck(r) PROVE TypeOK'
  <2>1. RequestTypes' BY <1>2 DEF Inv, Precheck, Stopped, RequestTypes
  <2>2. ControlTypes' BY <1>2 DEF Inv, Precheck, SeenStop, Stopped, ControlTypes
  <2>3. WaiterTypes' /\ PoolTypes' /\ StopTypes'
    BY <1>2 DEF Inv, Precheck, WaiterTypes, PoolTypes, StopTypes
  <2>. QED BY <2>1, <2>2, <2>3
<1>3. ASSUME NEW r \in Requests, Resume(r) PROVE TypeOK'
  <2>1. RequestTypes' BY <1>3 DEF Inv, Resume, Continue, RequestTypes
  <2>2. ControlTypes' /\ WaiterTypes' /\ PoolTypes' /\ StopTypes'
    BY <1>3 DEF Inv, Resume, ControlTypes, WaiterTypes, PoolTypes, StopTypes
  <2>. QED BY <2>1, <2>2
<1>4. ASSUME NEW r \in Requests, Admit(r) PROVE TypeOK'
  <2>1. RequestTypes' BY <1>4 DEF Inv, Admit, Continue, Return, RequestTypes
  <2>2. ControlTypes' BY <1>4 DEF Inv, Admit, SeenStop, Stopped, ControlTypes
  <2>3. WaiterTypes' /\ PoolTypes' /\ StopTypes'
    BY <1>4 DEF Inv, Admit, WaiterTypes, PoolTypes, StopTypes
  <2>. QED BY <2>1, <2>2, <2>3
<1>5. ASSUME NEW r \in Requests, Park(r) PROVE TypeOK'
  <2>1. RequestTypes'
    <3>1. /\ \E p \in {"waitAdmit", "waitAcquire"} : pc' = [pc EXCEPT ![r] = p]
          /\ loop' = NoReq /\ UNCHANGED <<reqVars, conn, result>>
      BY <1>5 DEF Park, Suspend
    <3>2. pc' \in [Requests -> Positions] BY <3>1 DEF Inv, RequestTypes
    <3>. QED BY <3>1, <3>2 DEF Inv, RequestTypes
  <2>2. ControlTypes' BY <1>5 DEF Inv, Park, SetWakeup, ControlTypes
  <2>3. WaiterTypes'
    BY <1>5 DEF Inv, Park, SetWakeup, RequestTypes, ControlTypes, WaiterTypes
  <2>4. PoolTypes' /\ StopTypes' BY <1>5 DEF Inv, Park, PoolTypes, StopTypes
  <2>. QED BY <2>1, <2>2, <2>3, <2>4
<1>6. ASSUME NEW r \in Requests, Notify(r) PROVE TypeOK'
  BY <1>6 DEF Inv, Notify, RequestTypes, ControlTypes, WaiterTypes, PoolTypes, StopTypes
<1>7. ASSUME NEW r \in Requests, Ready(r) PROVE TypeOK'
  <2>1. RequestTypes' BY <1>7 DEF Inv, Ready, Continue, RequestTypes
  <2>2. ControlTypes' BY <1>7 DEF Inv, Ready, RequestTypes, ControlTypes
  <2>3. WaiterTypes'
    <3>1. origin[r] \in Origins BY DEF Inv, RequestTypes
    <3>2. Unqueued(waiters[origin[r]], r) \in Seq(Requests)
      BY <3>1, UnqueuedType DEF Inv, WaiterTypes
    <3>. QED BY <1>7, <3>1, <3>2 DEF Inv, Ready, WaiterTypes
  <2>4. PoolTypes' BY <1>7 DEF Inv, Ready, PoolTypes
  <2>5. StopTypes'
    <3>1. \A a \in Agents : [stopper[a] EXCEPT !.wake = FALSE] \in
            [phase : Phases, req : Requests \cup {NoReq},
             conn : Conns \cup {NoConn}, wake : BOOLEAN]
      <4> TAKE a \in Agents
      <4>1. stopper[a] \in [phase : Phases, req : Requests \cup {NoReq},
                            conn : Conns \cup {NoConn}, wake : BOOLEAN]
        BY DEF Inv, StopTypes
      <4>. QED BY <4>1
    <3>. QED BY <1>7, <3>1 DEF Inv, Ready, StopTypes
  <2>. QED BY <2>1, <2>2, <2>3, <2>4, <2>5
<1>8. ASSUME NEW r \in Requests, Acquire(r) PROVE TypeOK'
  <2>1. RequestTypes' BY <1>8 DEF Inv, Acquire, Continue, Return, RequestTypes
  <2>2. ControlTypes' BY <1>8 DEF Inv, Acquire, SeenStop, Stopped, ControlTypes
  <2>3. WaiterTypes' /\ PoolTypes' /\ StopTypes'
    BY <1>8 DEF Inv, Acquire, WaiterTypes, PoolTypes, StopTypes
  <2>. QED BY <2>1, <2>2, <2>3
<1>9. ASSUME NEW r \in Requests, TakeIdle(r) PROVE TypeOK'
  <2> DEFINE o == origin[r]
  <2>1. o \in Origins /\ pool[o] \in Seq(Conns) /\ count[o] \in Nat
    BY DEF Inv, RequestTypes, PoolTypes
  <2>2. PICK k \in DOMAIN pool[o] :
          /\ conn' = [conn EXCEPT ![r] = pool[o][k]]
          /\ pool' = [pool EXCEPT ![o] = Popped(@, k)]
          /\ count' = [count EXCEPT ![o] = @ - (Len(pool[o]) - k)]
          /\ active' = active \cup {pool[o][k]}
          /\ Bind(r, pool[o][k], "open")
    BY <1>9 DEF TakeIdle
  <2>3. k \in 1..Len(pool[o]) /\ pool[o][k] \in Conns BY <2>1, <2>2
  <2>4. RequestTypes' BY <1>9, <2>2, <2>3 DEF Inv, TakeIdle, Continue, RequestTypes
  <2>5. ControlTypes'
    BY <1>9, <2>2, <2>3 DEF Inv, TakeIdle, Bind, ControlTypes
  <2>6. PoolTypes'
    <3>1. Popped(pool[o], k) \in Seq(Conns) BY <2>1, <2>3 DEF Popped
    <3>2. count[o] - (Len(pool[o]) - k) \in Nat
      BY <2>1, <2>3, HoldersFinite DEF Inv, SlotAccounting
    <3>. QED BY <2>1, <2>2, <2>3, <3>1, <3>2 DEF Inv, Bind, PoolTypes
  <2>7. WaiterTypes' /\ StopTypes' BY <1>9 DEF Inv, TakeIdle, WaiterTypes, StopTypes
  <2>. QED BY <2>4, <2>5, <2>6, <2>7
<1>10. ASSUME NEW r \in Requests, TakeSlot(r) PROVE TypeOK'
  <2> DEFINE o == origin[r]
  <2> DEFINE left == count[o] - Len(pool[o])
  <2>1. o \in Origins /\ pool[o] \in Seq(Conns) /\ left \in Nat
    <3>1. o \in Origins BY DEF Inv, RequestTypes
    <3>2. pool[o] \in Seq(Conns) /\ count[o] \in Nat BY <3>1 DEF Inv, PoolTypes
    <3>. QED BY <3>1, <3>2, HoldersFinite DEF Inv, SlotAccounting
  <2>2. pool' = [pool EXCEPT ![o] = <<>>] BY <1>10 DEF TakeSlot
  <2>3. WaiterTypes' /\ StopTypes' BY <1>10 DEF Inv, TakeSlot, WaiterTypes, StopTypes
  <2>4. CASE ~SlotFree(left)
    <3>1. /\ count' = [count EXCEPT ![o] = left] /\ Continue(r, "parkAcquire")
          /\ UNCHANGED <<notifiedOrigin, conn, bound, link>>
      BY <1>10, <2>4 DEF TakeSlot
    <3>2. PoolTypes' BY <1>10, <2>1, <2>2, <3>1 DEF Inv, TakeSlot, PoolTypes
    <3>3. RequestTypes' BY <1>10, <3>1 DEF Inv, TakeSlot, Continue, RequestTypes
    <3>4. ControlTypes' BY <1>10, <3>1 DEF Inv, TakeSlot, ControlTypes
    <3>. QED BY <2>3, <3>2, <3>3, <3>4
  <2>5. CASE SlotFree(left)
    <3>1. PICK c \in Conns :
            /\ count' = [count EXCEPT ![o] = left + 1]
            /\ notifiedOrigin' = [notifiedOrigin EXCEPT ![r] = NoOrigin]
            /\ conn' = [conn EXCEPT ![r] = c] /\ Bind(r, c, "connecting")
            /\ Suspend(r, "connecting")
      BY <1>10, <2>5 DEF TakeSlot
    <3>2. PoolTypes' BY <1>10, <2>1, <2>2, <3>1 DEF Inv, TakeSlot, Bind, PoolTypes
    <3>3. RequestTypes' BY <1>10, <3>1 DEF Inv, TakeSlot, Suspend, RequestTypes
    <3>4. ControlTypes' BY <1>10, <3>1 DEF Inv, TakeSlot, Bind, ControlTypes
    <3>. QED BY <2>3, <3>2, <3>3, <3>4
  <2>. QED BY <2>4, <2>5
<1>11. ASSUME NEW r \in Requests, ConnectOk(r) PROVE TypeOK'
  <2>1. RequestTypes' BY <1>11 DEF Inv, ConnectOk, Continue, RequestTypes
  <2>2. PoolTypes' BY <1>11 DEF Inv, ConnectOk, PoolTypes
  <2>3. ControlTypes' /\ WaiterTypes' /\ StopTypes'
    BY <1>11 DEF Inv, ConnectOk, ControlTypes, WaiterTypes, StopTypes
  <2>. QED BY <2>1, <2>2, <2>3
<1>12. ASSUME NEW r \in Requests, ConnectFail(r) PROVE TypeOK'
  <2>1. pc[r] \in Holding /\ Discard(r) BY <1>12 DEF ConnectFail
  <2>2. RequestTypes'
    BY <1>12, <2>1, DiscardEffect DEF Inv, ConnectFail, Return, RequestTypes
  <2>3. ControlTypes'
    BY <1>12, <2>1, DiscardEffect DEF Inv, ConnectFail, ControlTypes
  <2>4. WaiterTypes'
    BY <1>12, <2>1, DiscardEffect DEF Inv, ConnectFail, WaiterTypes
  <2>5. PoolTypes' BY <2>1, DiscardEffect
  <2>6. StopTypes' BY <1>12 DEF Inv, ConnectFail, StopTypes
  <2>. QED BY <2>2, <2>3, <2>4, <2>5, <2>6
<1>13. ASSUME NEW r \in Requests, Connected(r) PROVE TypeOK'
  <2>1. pc[r] \in Holding /\ conn[r] \in Conns BY <1>13 DEF Inv, Connected, HoldersHaveConn
  <2>2. cancelled' \in [Requests -> BOOLEAN] /\ StopTypes'
    BY <1>13 DEF Inv, Connected, SeenStop, Stopped, ControlTypes, StopTypes
  <2>3. CASE Stopped(r)
    <3>1. Discard(r) /\ Return(r, "cancelled") /\ UNCHANGED reused
      BY <1>13, <2>3 DEF Connected
    <3>2. RequestTypes'
      BY <1>13, <2>1, <3>1, DiscardEffect DEF Inv, Connected, Return, RequestTypes
    <3>3. ControlTypes' /\ WaiterTypes' /\ PoolTypes'
      BY <1>13, <2>1, <2>2, <3>1, DiscardEffect
      DEF Inv, Connected, ControlTypes, WaiterTypes
    <3>. QED BY <2>2, <3>2, <3>3
  <2>4. CASE ~Stopped(r)
    <3>1. RequestTypes'
      <4>1. Continue(r, "leased") \/ Suspend(r, "handshake") BY <1>13, <2>4 DEF Connected
      <4>2. MoveTypes'
        BY <4>1, ContinueTypes, SuspendTypes DEF Inv, RequestTypes, MoveTypes
      <4>3. reused' \in [Requests -> BOOLEAN] /\ UNCHANGED <<origin, conn, attempt, redirects, digest>>
        BY <1>13, <2>4 DEF Inv, Connected, RequestTypes
      <4>. QED BY <4>2, <4>3 DEF Inv, RequestTypes, MoveTypes
    <3>2. ControlTypes' BY <1>13, <2>2, <2>4 DEF Inv, Connected, ControlTypes
    <3>3. WaiterTypes' BY <1>13, <2>4 DEF Inv, Connected, WaiterTypes
    <3>4. PoolTypes' BY <1>13, <2>1, <2>4 DEF Inv, Connected, PoolTypes
    <3>. QED BY <2>2, <3>1, <3>2, <3>3, <3>4
  <2>. QED BY <2>3, <2>4
<1>14. ASSUME NEW r \in Requests, HandshakeOk(r) PROVE TypeOK'
  <2>1. RequestTypes' BY <1>14 DEF Inv, HandshakeOk, Continue, RequestTypes
  <2>2. conn[r] \in Conns BY <1>14 DEF Inv, HandshakeOk, HoldersHaveConn
  <2>3. PoolTypes' BY <1>14, <2>2 DEF Inv, HandshakeOk, PoolTypes
  <2>4. ControlTypes' /\ WaiterTypes' /\ StopTypes'
    BY <1>14 DEF Inv, HandshakeOk, ControlTypes, WaiterTypes, StopTypes
  <2>. QED BY <2>1, <2>3, <2>4
<1>15. ASSUME NEW r \in Requests, Leased(r) PROVE TypeOK'
  <2>1. pc[r] \in Holding BY <1>15 DEF Leased
  <2>2. cancelled' \in [Requests -> BOOLEAN] /\ StopTypes'
    BY <1>15 DEF Inv, Leased, SeenStop, Stopped, ControlTypes, StopTypes
  <2>3. CASE Stopped(r) \/ expired[r]
    <3>1. Discard(r) /\ (Return(r, "cancelled") \/ Return(r, "timeout"))
      BY <1>15, <2>3 DEF Leased
    <3>2. RequestTypes'
      <4>1. MoveTypes' BY <3>1, ReturnTypes DEF Inv, RequestTypes, MoveTypes
      <4>. QED BY <1>15, <2>1, <3>1, <4>1, DiscardEffect
           DEF Inv, Leased, RequestTypes, MoveTypes
    <3>3. ControlTypes' /\ WaiterTypes' /\ PoolTypes'
      BY <1>15, <2>1, <2>2, <3>1, DiscardEffect
      DEF Inv, Leased, ControlTypes, WaiterTypes
    <3>. QED BY <2>2, <3>2, <3>3
  <2>4. CASE ~(Stopped(r) \/ expired[r])
    <3>1. /\ Suspend(r, "io")
          /\ UNCHANGED <<conn, bound, active, link, pool, count, waitVars>>
      BY <1>15, <2>4 DEF Leased
    <3>2. RequestTypes' BY <1>15, <3>1 DEF Inv, Leased, Suspend, RequestTypes
    <3>3. ControlTypes' BY <1>15, <2>2, <3>1 DEF Inv, Leased, ControlTypes
    <3>4. WaiterTypes' /\ PoolTypes'
      BY <1>15, <3>1 DEF Inv, Leased, WaiterTypes, PoolTypes
    <3>. QED BY <2>2, <3>2, <3>3, <3>4
  <2>. QED BY <2>3, <2>4
<1>16. ASSUME NEW r \in Requests, IoFail(r) PROVE TypeOK'
  <2>1. pc[r] \in Holding /\ Discard(r) BY <1>16 DEF IoFail
  <2>2. RequestTypes'
    <3>1. \E res \in Results : Return(r, res) \/ Continue(r, "acquire")
      BY <1>16 DEF IoFail
    <3>2. MoveTypes'
      BY <3>1, ReturnTypes, ContinueTypes DEF Inv, RequestTypes, MoveTypes
    <3>3. attempt' \in [Requests -> {0, 1}]
      BY <1>16 DEF Inv, IoFail, RequestTypes
    <3>. QED BY <1>16, <2>1, <3>2, <3>3, DiscardEffect
         DEF Inv, IoFail, RequestTypes, MoveTypes
  <2>3. ControlTypes'
    BY <1>16, <2>1, DiscardEffect DEF Inv, IoFail, SeenStop, Stopped, ControlTypes
  <2>4. WaiterTypes'
    BY <1>16, <2>1, DiscardEffect DEF Inv, IoFail, WaiterTypes
  <2>5. PoolTypes' BY <2>1, DiscardEffect
  <2>6. StopTypes' BY <1>16 DEF Inv, IoFail, StopTypes
  <2>. QED BY <2>2, <2>3, <2>4, <2>5, <2>6
<1>17. ASSUME NEW r \in Requests, IoOk(r) PROVE TypeOK'
  <2>1. pc[r] \in Holding BY <1>17 DEF IoOk
  <2>2. cancelled' \in [Requests -> BOOLEAN] /\ StopTypes'
    BY <1>17 DEF Inv, IoOk, SeenStop, Stopped, ControlTypes, StopTypes
  <2>3. CASE Stopped(r)
    <3>1. Discard(r) /\ Return(r, "cancelled") BY <1>17, <2>3 DEF IoOk
    <3>2. RequestTypes'
      BY <1>17, <2>1, <3>1, DiscardEffect DEF Inv, IoOk, Return, RequestTypes
    <3>3. ControlTypes' /\ WaiterTypes' /\ PoolTypes'
      BY <1>17, <2>1, <2>2, <3>1, DiscardEffect
      DEF Inv, IoOk, ControlTypes, WaiterTypes
    <3>. QED BY <2>2, <3>2, <3>3
  <2>4. CASE ~Stopped(r)
    <3>1. /\ Continue(r, "finish")
          /\ UNCHANGED <<conn, bound, active, link, pool, count, waitVars>>
      BY <1>17, <2>4 DEF IoOk
    <3>2. RequestTypes' BY <1>17, <3>1 DEF Inv, IoOk, Continue, RequestTypes
    <3>3. ControlTypes' BY <1>17, <2>2, <3>1 DEF Inv, IoOk, ControlTypes
    <3>4. WaiterTypes' /\ PoolTypes'
      BY <1>17, <3>1 DEF Inv, IoOk, WaiterTypes, PoolTypes
    <3>. QED BY <2>2, <3>2, <3>3, <3>4
  <2>. QED BY <2>3, <2>4
<1>18. ASSUME NEW r \in Requests, Finish(r) PROVE TypeOK'
  <2>1. pc[r] \in Holding /\ Release(r) BY <1>18 DEF Finish
  <2>2. RequestTypes'
    <3>1. conn' \in [Requests -> Conns \cup {NoConn}]
      BY <2>1, ReleaseEffect DEF Inv, RequestTypes
    <3>2. \/ \E res \in Results : Return(r, res)
          \/ Continue(r, "acquire")
      BY <1>18 DEF Finish
    <3>3. MoveTypes'
      BY <3>2, ReturnTypes, ContinueTypes DEF Inv, RequestTypes, MoveTypes
    <3>4. /\ attempt' \in [Requests -> {0, 1}] /\ digest' \in [Requests -> BOOLEAN]
          /\ origin' \in [Requests -> Origins] /\ reused' = reused
      <4>1. /\ attempt' = attempt \/ attempt' = [attempt EXCEPT ![r] = 0]
            /\ \E b \in BOOLEAN : digest' = digest \/ digest' = [digest EXCEPT ![r] = b]
            /\ \/ origin' = origin
               \/ \E o \in Origins : origin' = [origin EXCEPT ![r] = o]
            /\ reused' = reused
        BY <1>18 DEF Finish
      <4>. QED BY <4>1 DEF Inv, RequestTypes
    <3>5. redirects' \in [Requests -> 0..MaxRedirects]
      <4>1. \/ redirects' = redirects
            \/ MayRedirect(r) /\ redirects' = [redirects EXCEPT ![r] = @ + 1]
        BY <1>18 DEF Finish
      <4>. QED BY <4>1, PoolAssumption DEF Inv, MayRedirect, RequestTypes, PoolAssumption
    <3>. QED BY <3>1, <3>3, <3>4, <3>5 DEF Inv, RequestTypes, MoveTypes
  <2>3. ControlTypes'
    BY <1>18, <2>1, ReleaseEffect DEF Inv, Finish, ControlTypes
  <2>4. WaiterTypes'
    BY <1>18, <2>1, ReleaseEffect DEF Inv, Finish, WaiterTypes
  <2>5. PoolTypes' BY <2>1, ReleaseEffect
  <2>6. StopTypes' BY <1>18 DEF Inv, Finish, StopTypes
  <2>. QED BY <2>2, <2>3, <2>4, <2>5, <2>6
<1>19. ASSUME NEW r \in Requests, Leave(r) PROVE TypeOK'
  <2>1. RequestTypes'
    BY <1>19, PoolAssumption DEF Inv, Leave, RequestTypes, PoolAssumption
  <2>2. ControlTypes' BY <1>19 DEF Inv, Leave, ControlTypes
  <2>3. WaiterTypes'
    <3>1. CASE notifiedOrigin[r] = NoOrigin
      BY <1>19, <3>1 DEF Inv, Leave, HandOn, WaiterTypes
    <3>2. CASE notifiedOrigin[r] # NoOrigin
      <4>1. notifiedOrigin[r] \in Origins BY <3>2 DEF Inv, ControlTypes
      <4>2. WakeWaiter(notifiedOrigin[r]) BY <1>19, <3>2 DEF Leave, HandOn
      <4>. QED BY <1>19, <4>1, <4>2, WakeWaiterTypes DEF Inv, Leave, WaiterTypes
    <3>. QED BY <3>1, <3>2
  <2>4. PoolTypes' /\ StopTypes' BY <1>19 DEF Inv, Leave, PoolTypes, StopTypes
  <2>. QED BY <2>1, <2>2, <2>3, <2>4
<1>20. ASSUME NEW r \in Requests, SetFlag(r) \/ Expire(r) PROVE TypeOK'
  <2>1. ControlTypes' BY <1>20 DEF Inv, SetFlag, Expire, ControlTypes
  <2>2. RequestTypes' /\ WaiterTypes'
    BY <1>20 DEF Inv, SetFlag, Expire, RequestTypes, WaiterTypes
  <2>3. PoolTypes' /\ StopTypes' BY <1>20 DEF Inv, SetFlag, Expire, PoolTypes, StopTypes
  <2>. QED BY <2>1, <2>2, <2>3
<1>21. ASSUME NEW r \in Requests, StopMark(r) \/ AllMark(r) PROVE TypeOK'
  <2>1. ControlTypes'
    BY <1>21 DEF Inv, StopMark, AllMark, StopUnchanged, ControlTypes
  <2>2. RequestTypes' /\ WaiterTypes' /\ PoolTypes'
    BY <1>21 DEF Inv, StopMark, AllMark, StopUnchanged, RequestTypes, WaiterTypes, PoolTypes
  <2>3. StopTypes'
    <3> DEFINE mark == [Idle EXCEPT !.phase = "marked", !.req = r]
    <3>1. mark \in [phase : Phases, req : Requests \cup {NoReq},
                    conn : Conns \cup {NoConn}, wake : BOOLEAN]
      OBVIOUS
    <3>2. /\ stopper' = [stopper EXCEPT ![r] = mark] \/ stopper' = [stopper EXCEPT ![All] = mark]
          /\ controls' \subseteq controls /\ UNCHANGED <<closing, cancelAlls, overlap>>
      BY <1>21 DEF StopMark, AllMark, StopUnchanged
    <3> HIDE DEF mark
    <3>. QED BY <3>1, <3>2 DEF Inv, StopTypes
  <2>. QED BY <2>1, <2>2, <2>3
<1>22. ASSUME NEW a \in Agents, StopSnapshot(a) PROVE TypeOK'
  <2>1. RequestTypes' /\ ControlTypes' /\ WaiterTypes' /\ PoolTypes'
    BY <1>22 DEF Inv, StopSnapshot, StopUnchanged, RequestTypes, ControlTypes,
                 WaiterTypes, PoolTypes
  <2>2. StopTypes'
    <3>1. stopper[a].req \in Requests BY <1>22 DEF Inv, StopSnapshot, StoppersHaveReq
    <3>2. bound[stopper[a].req] \in Conns \cup {NoConn} /\ wakeup[stopper[a].req] \in BOOLEAN
      BY <3>1 DEF Inv, ControlTypes
    <3>. QED BY <1>22, <3>2 DEF Inv, StopSnapshot, StopUnchanged, StopTypes
  <2>. QED BY <2>1, <2>2
<1>23. ASSUME NEW a \in Agents, StopClose(a) PROVE TypeOK'
  <2>1. RequestTypes' /\ ControlTypes' /\ WaiterTypes'
    BY <1>23 DEF Inv, StopClose, StopUnchanged, RequestTypes, ControlTypes, WaiterTypes
  <2>2. PoolTypes' BY <1>23 DEF Inv, StopClose, StopUnchanged, PoolTypes, StopTypes
  <2>3. StopTypes' BY <1>23 DEF Inv, StopClose, StopUnchanged, StopTypes
  <2>. QED BY <2>1, <2>2, <2>3
<1>24. ASSUME NEW a \in Agents, StopWake(a) PROVE TypeOK'
  <2>1. RequestTypes' /\ ControlTypes' /\ PoolTypes'
    BY <1>24 DEF Inv, StopWake, StopUnchanged, RequestTypes, ControlTypes, PoolTypes
  <2>2. stopper[a].req \in Requests BY <1>24 DEF Inv, StopWake, StoppersHaveReq
  <2>3. WaiterTypes' BY <1>24, <2>2 DEF Inv, StopWake, StopUnchanged, WaiterTypes
  <2>4. StopTypes' BY <1>24 DEF Inv, StopWake, StopUnchanged, StopTypes
  <2>. QED BY <2>1, <2>3, <2>4
<1>25. ASSUME CancelAll PROVE TypeOK'
  <2>1. RequestTypes' /\ ControlTypes' /\ WaiterTypes' /\ PoolTypes'
    BY <1>25 DEF Inv, CancelAll, RequestTypes, ControlTypes, WaiterTypes, PoolTypes
  <2>2. StopTypes'
    BY <1>25, PoolAssumption DEF Inv, CancelAll, Live, StopTypes, PoolTypes, PoolAssumption
  <2>. QED BY <2>1, <2>2
<1>26. ASSUME NEW c \in Conns, CloseActive(c) PROVE TypeOK'
  <2>1. RequestTypes' /\ ControlTypes' /\ WaiterTypes'
    BY <1>26 DEF Inv, CloseActive, StopUnchanged, RequestTypes, ControlTypes, WaiterTypes
  <2>2. PoolTypes' /\ StopTypes'
    BY <1>26 DEF Inv, CloseActive, StopUnchanged, PoolTypes, StopTypes
  <2>. QED BY <2>1, <2>2
<1>27. ASSUME Quiescent \/ UNCHANGED vars PROVE TypeOK'
  BY <1>27 DEF Inv, Quiescent, vars, RequestTypes, ControlTypes, WaiterTypes,
               PoolTypes, StopTypes
<1>. QED
  BY <1>1, <1>2, <1>3, <1>4, <1>5, <1>6, <1>7, <1>8, <1>9, <1>10, <1>11, <1>12,
     <1>13, <1>14, <1>15, <1>16, <1>17, <1>18, <1>19, <1>20, <1>21, <1>22, <1>23,
     <1>24, <1>25, <1>26, <1>27
  DEF Next, LoopStep, IoStep, UserStep, StopStep

-----------------------------------------------------------------------------
(* The slot accounting is preserved by every action.                        *)
Accounts == SlotAccounting /\ CountLimits /\ HoldersHaveConn

(* Steps that move no slot.                                                 *)
LEMMA SlotsUntouched ==
  ASSUME Inv, UNCHANGED <<pool, count, conn>>,
         \A s \in Requests : /\ (pc'[s] \in Holding) <=> (pc[s] \in Holding)
                             /\ pc[s] \in Holding => origin'[s] = origin[s]
  PROVE  Accounts'
<1>1. \A o \in Origins : Holders(o)' = Holders(o)
  BY DEF Holders
<1>2. SlotAccounting' BY <1>1 DEF Inv, SlotAccounting
<1>3. CountLimits' BY DEF Inv, CountLimits
<1>4. HoldersHaveConn' BY DEF Inv, HoldersHaveConn
<1>. QED BY <1>2, <1>3, <1>4 DEF Accounts

(* r gives its slot back: release(), discard(), fail().                     *)
LEMMA SlotGivenBack ==
  ASSUME PoolAssumption, Inv, TypeOK', NEW r \in Requests,
         pc[r] \in Holding, pc'[r] \notin Holding,
         \A s \in Requests \ {r} : pc'[s] = pc[s] /\ origin'[s] = origin[s],
         conn' = [conn EXCEPT ![r] = NoConn],
         \/ /\ count' = [count EXCEPT ![origin[r]] = count[origin[r]] - 1]
            /\ pool' = pool
         \/ /\ count' = count
            /\ pool' = [pool EXCEPT ![origin[r]] = Append(pool[origin[r]], conn[r])]
            /\ Len(pool[origin[r]]) < PoolSize
  PROVE  Accounts'
<1>1. PICK p \in Origins : p = origin[r]
  BY DEF Inv, TypeOK, RequestTypes
<1>2. ASSUME NEW o \in Origins
      PROVE /\ pool[o] \in Seq(Conns) /\ count[o] \in Nat /\ Len(pool[o]) \in Nat
            /\ count[o] = Len(pool[o]) + Cardinality(Holders(o))
            /\ MaxConnections # 0 => count[o] <= MaxConnections
            /\ Len(pool[o]) <= PoolSize
            /\ Cardinality(Holders(o)) \in Nat
  BY HoldersFinite DEF Inv, TypeOK, PoolTypes, SlotAccounting, CountLimits
<1>3. Holders(p)' = Holders(p) \ {r} /\ r \in Holders(p)
  BY <1>1 DEF Holders
<1>4. \A o \in Origins \ {p} : Holders(o)' = Holders(o)
  BY <1>1 DEF Holders
<1>5. Cardinality(Holders(p)') = Cardinality(Holders(p)) - 1
  <2>1. IsFiniteSet(Holders(p)) BY HoldersFinite
  <2>2. Cardinality(Holders(p) \ {r}) = Cardinality(Holders(p)) - 1 BY <1>3, <2>1, FS_RemoveElement
  <2>. QED BY <1>3, <2>2
<1>6. conn[r] \in Conns BY DEF Inv, HoldersHaveConn
<1>7. ASSUME NEW o \in Origins
      PROVE  /\ count'[o] = Len(pool'[o]) + Cardinality(Holders(o)')
             /\ MaxConnections # 0 => count'[o] <= MaxConnections
             /\ Len(pool'[o]) <= PoolSize
  <2>1. CASE o # p
    <3>1. count'[o] = count[o] /\ pool'[o] = pool[o]
      BY <1>1, <2>1 DEF Inv, TypeOK, PoolTypes
    <3>2. Holders(o)' = Holders(o) BY <1>4, <2>1
    <3>. QED BY <1>2, <3>1, <3>2
  <2>2. CASE o = p
    <3>1. \/ count'[p] = count[p] - 1 /\ pool'[p] = pool[p]
          \/ /\ count'[p] = count[p] /\ pool'[p] = Append(pool[p], conn[r])
             /\ Len(pool[p]) < PoolSize
      BY <1>1 DEF Inv, TypeOK, PoolTypes
    <3>2. Len(Append(pool[p], conn[r])) = Len(pool[p]) + 1
      BY <1>1, <1>2, <1>6
    <3>3. CASE count'[p] = count[p] - 1 /\ pool'[p] = pool[p]
      BY <1>2, <1>5, <2>2, <3>3, PoolAssumption DEF PoolAssumption
    <3>4. CASE /\ count'[p] = count[p] /\ pool'[p] = Append(pool[p], conn[r])
               /\ Len(pool[p]) < PoolSize
      BY <1>2, <1>5, <2>2, <3>2, <3>4, PoolAssumption DEF PoolAssumption
    <3>. QED BY <3>1, <3>3, <3>4
  <2>. QED BY <2>1, <2>2
<1>8. HoldersHaveConn'
  BY DEF Inv, HoldersHaveConn, TypeOK, RequestTypes
<1>. QED BY <1>7, <1>8 DEF Accounts, SlotAccounting, CountLimits

(* r takes a slot: an idle connection or a new one.                         *)
LEMMA SlotTaken ==
  ASSUME PoolAssumption, Inv, TypeOK', NEW r \in Requests, NEW c \in Conns,
         pc[r] \notin Holding, pc'[r] \in Holding, origin' = origin,
         \A s \in Requests \ {r} : pc'[s] = pc[s],
         conn' = [conn EXCEPT ![r] = c],
         \A o \in Origins \ {origin[r]} : count'[o] = count[o] /\ pool'[o] = pool[o],
         count'[origin[r]] - Len(pool'[origin[r]])
           = count[origin[r]] - Len(pool[origin[r]]) + 1,
         Len(pool'[origin[r]]) <= Len(pool[origin[r]]),
         MaxConnections # 0 => count'[origin[r]] <= MaxConnections
  PROVE  Accounts'
<1>1. PICK p \in Origins : p = origin[r]
  BY DEF Inv, TypeOK, RequestTypes
<1>2. ASSUME NEW o \in Origins
      PROVE /\ count[o] \in Nat /\ Len(pool[o]) \in Nat
            /\ count'[o] \in Nat /\ Len(pool'[o]) \in Nat
            /\ count[o] = Len(pool[o]) + Cardinality(Holders(o))
            /\ MaxConnections # 0 => count[o] <= MaxConnections
            /\ Len(pool[o]) <= PoolSize
            /\ Cardinality(Holders(o)) \in Nat
  <2>1. pool[o] \in Seq(Conns) /\ pool'[o] \in Seq(Conns)
    BY DEF Inv, TypeOK, PoolTypes
  <2>2. Len(pool[o]) \in Nat /\ Len(pool'[o]) \in Nat BY <2>1
  <2>3. count[o] \in Nat /\ count'[o] \in Nat BY DEF Inv, TypeOK, PoolTypes
  <2>. QED BY <2>2, <2>3, HoldersFinite DEF Inv, SlotAccounting, CountLimits
<1>3. Holders(p)' = Holders(p) \cup {r} /\ r \notin Holders(p)
  BY <1>1 DEF Holders
<1>4. \A o \in Origins \ {p} : Holders(o)' = Holders(o)
  BY <1>1 DEF Holders
<1>5. Cardinality(Holders(p)') = Cardinality(Holders(p)) + 1
  <2>1. IsFiniteSet(Holders(p)) BY HoldersFinite
  <2>2. Cardinality(Holders(p) \cup {r}) = Cardinality(Holders(p)) + 1 BY <1>3, <2>1, FS_AddElement
  <2>. QED BY <1>3, <2>2
<1>6. ASSUME NEW o \in Origins
      PROVE  /\ count'[o] = Len(pool'[o]) + Cardinality(Holders(o)')
             /\ MaxConnections # 0 => count'[o] <= MaxConnections
             /\ Len(pool'[o]) <= PoolSize
  <2>1. CASE o # p
    <3>1. Holders(o)' = Holders(o) BY <1>4, <2>1
    <3>. QED BY <1>1, <1>2, <2>1, <3>1
  <2>2. CASE o = p
    <3>1. /\ count'[p] - Len(pool'[p]) = count[p] - Len(pool[p]) + 1
          /\ Len(pool'[p]) <= Len(pool[p])
          /\ MaxConnections # 0 => count'[p] <= MaxConnections
      BY <1>1
    <3>. QED BY <1>2, <1>5, <2>2, <3>1, PoolAssumption DEF PoolAssumption
  <2>. QED BY <2>1, <2>2
<1>7. HoldersHaveConn'
  BY DEF Inv, HoldersHaveConn, TypeOK, RequestTypes
<1>. QED BY <1>6, <1>7 DEF Accounts, SlotAccounting, CountLimits

(* Dropping the idle entries above the k-th and leasing it.                 *)
LEMMA PopArithmetic ==
  \A n, len, max \in Nat : \A k \in 1..len :
    /\ (n - (len - k)) - (k - 1) = n - len + 1
    /\ k - 1 <= len
    /\ (max # 0 => n <= max) => (max # 0 => n - (len - k) <= max)
OBVIOUS

(* No path through a request leaks a slot or frees one twice.               *)
LEMMA AccountsStep ==
  ASSUME PoolAssumption, Inv, [Next]_vars
  PROVE  Accounts'
<1> USE DEF reqVars, waitVars, poolVars, userVars
<1>0. TypeOK' BY TypeStep
<1>. /\ pc \in [Requests -> Positions] /\ conn \in [Requests -> Conns \cup {NoConn}]
     /\ origin \in [Requests -> Origins]
  BY DEF Inv, TypeOK, RequestTypes
<1>1. ASSUME NEW r \in Requests, Start(r) PROVE Accounts'
  BY <1>1, SlotsUntouched DEF Start
<1>2. ASSUME NEW r \in Requests, Precheck(r) PROVE Accounts'
  BY <1>2, SlotsUntouched DEF Precheck
<1>3. ASSUME NEW r \in Requests, Resume(r) PROVE Accounts'
  BY <1>3, SlotsUntouched DEF Resume, Continue
<1>4. ASSUME NEW r \in Requests, Admit(r) PROVE Accounts'
  BY <1>4, SlotsUntouched DEF Admit, Continue, Return
<1>5. ASSUME NEW r \in Requests, Park(r) PROVE Accounts'
  BY <1>5, SlotsUntouched DEF Park, Suspend
<1>6. ASSUME NEW r \in Requests, Notify(r) PROVE Accounts'
  BY <1>6, SlotsUntouched DEF Notify
<1>7. ASSUME NEW r \in Requests, Ready(r) PROVE Accounts'
  BY <1>7, SlotsUntouched DEF Ready, Continue
<1>8. ASSUME NEW r \in Requests, Acquire(r) PROVE Accounts'
  BY <1>8, SlotsUntouched DEF Acquire, Continue, Return
<1>9. ASSUME NEW r \in Requests, TakeIdle(r) PROVE Accounts'
  <2> DEFINE o == origin[r]
  <2>1. /\ o \in Origins /\ pool[o] \in Seq(Conns) /\ count[o] \in Nat
        /\ MaxConnections # 0 => count[o] <= MaxConnections
    BY DEF Inv, TypeOK, PoolTypes, CountLimits
  <2>2. PICK k \in DOMAIN pool[o] :
          /\ conn' = [conn EXCEPT ![r] = pool[o][k]]
          /\ pool' = [pool EXCEPT ![o] = Popped(@, k)]
          /\ count' = [count EXCEPT ![o] = @ - (Len(pool[o]) - k)]
    BY <1>9 DEF TakeIdle
  <2>3. k \in 1..Len(pool[o]) /\ pool[o][k] \in Conns /\ Len(pool[o]) \in Nat
    BY <2>1, <2>2
  <2>4. Len(Popped(pool[o], k)) = k - 1
    BY <2>1, <2>3 DEF Popped
  <2>5. pool'[o] = Popped(pool[o], k) /\ count'[o] = count[o] - (Len(pool[o]) - k)
    BY <2>1, <2>2 DEF Inv, TypeOK, PoolTypes
  <2>6. \A p \in Origins \ {o} : count'[p] = count[p] /\ pool'[p] = pool[p]
    BY <2>1, <2>2 DEF Inv, TypeOK, PoolTypes
  <2>7. /\ count'[o] - Len(pool'[o]) = count[o] - Len(pool[o]) + 1
        /\ Len(pool'[o]) <= Len(pool[o])
        /\ MaxConnections # 0 => count'[o] <= MaxConnections
    <3>1. count'[o] = count[o] - (Len(pool[o]) - k) /\ Len(pool'[o]) = k - 1
      BY <2>4, <2>5
    <3>2. PICK n \in Nat : n = count[o] BY <2>1
    <3>3. PICK len \in Nat : len = Len(pool[o]) BY <2>3
    <3>4. k \in 1..len /\ (MaxConnections # 0 => n <= MaxConnections)
      BY <2>1, <2>3, <3>2, <3>3
    <3>5. /\ (n - (len - k)) - (k - 1) = n - len + 1 /\ k - 1 <= len
          /\ MaxConnections # 0 => n - (len - k) <= MaxConnections
      BY <3>4, PopArithmetic, PoolAssumption DEF PoolAssumption
    <3>. QED BY <3>1, <3>2, <3>3, <3>5
  <2>8. /\ pc[r] \notin Holding /\ pc'[r] \in Holding /\ origin' = origin
        /\ \A s \in Requests \ {r} : pc'[s] = pc[s]
    BY <1>9 DEF TakeIdle, Continue
  <2>. QED BY <1>0, <2>2, <2>3, <2>6, <2>7, <2>8, SlotTaken
<1>10. ASSUME NEW r \in Requests, TakeSlot(r) PROVE Accounts'
  <2> DEFINE o == origin[r]
  <2> DEFINE left == count[o] - Len(pool[o])
  <2>1. /\ o \in Origins /\ pool[o] \in Seq(Conns) /\ count[o] \in Nat
        /\ MaxConnections # 0 => count[o] <= MaxConnections
    BY DEF Inv, TypeOK, PoolTypes, CountLimits
  <2>2. Len(pool[o]) \in Nat /\ left \in Nat
    BY <2>1, HoldersFinite DEF Inv, SlotAccounting
  <2>3. pool' = [pool EXCEPT ![o] = <<>>] BY <1>10 DEF TakeSlot
  <2>4. /\ pool'[o] = <<>> /\ Len(pool'[o]) = 0
        /\ \A p \in Origins \ {o} : pool'[p] = pool[p]
    BY <2>1, <2>3 DEF Inv, TypeOK, PoolTypes
  <2>5. CASE ~SlotFree(left)
    <3>1. /\ count' = [count EXCEPT ![o] = left] /\ pc' = [pc EXCEPT ![r] = "parkAcquire"]
          /\ conn' = conn /\ origin' = origin /\ pc[r] = "take"
      BY <1>10, <2>5 DEF TakeSlot, Continue
    <3>2. count'[o] = left /\ \A p \in Origins \ {o} : count'[p] = count[p]
      BY <2>1, <3>1 DEF Inv, TypeOK, PoolTypes
    <3>3. \A p \in Origins : Holders(p)' = Holders(p)
      BY <3>1 DEF Holders
    <3>4. SlotAccounting'
      <4>1. ASSUME NEW p \in Origins
            PROVE  count'[p] = Len(pool'[p]) + Cardinality(Holders(p)')
        <5>1. Cardinality(Holders(p)) \in Nat BY HoldersFinite
        <5>2. count[p] = Len(pool[p]) + Cardinality(Holders(p)) BY DEF Inv, SlotAccounting
        <5>3. Holders(p)' = Holders(p) BY <3>3
        <5>4. CASE p = o BY <2>1, <2>2, <2>4, <3>2, <5>1, <5>2, <5>3, <5>4
        <5>5. CASE p # o BY <2>4, <3>2, <5>2, <5>3, <5>5
        <5>. QED BY <5>4, <5>5
      <4>. QED BY <4>1 DEF SlotAccounting
    <3>5. CountLimits'
      BY <2>1, <2>2, <2>4, <3>2, PoolAssumption DEF Inv, CountLimits, PoolAssumption
    <3>6. HoldersHaveConn' BY <3>1 DEF Inv, HoldersHaveConn
    <3>. QED BY <3>4, <3>5, <3>6 DEF Accounts
  <2>6. CASE SlotFree(left)
    <3>1. PICK c \in Conns :
            /\ count' = [count EXCEPT ![o] = left + 1]
            /\ conn' = [conn EXCEPT ![r] = c]
            /\ pc' = [pc EXCEPT ![r] = "connecting"]
            /\ origin' = origin /\ pc[r] = "take"
      BY <1>10, <2>6 DEF TakeSlot, Suspend
    <3>2. count'[o] = left + 1 /\ \A p \in Origins \ {o} : count'[p] = count[p]
      BY <2>1, <3>1 DEF Inv, TypeOK, PoolTypes
    <3>3. /\ count'[o] - Len(pool'[o]) = count[o] - Len(pool[o]) + 1
          /\ Len(pool'[o]) <= Len(pool[o])
          /\ MaxConnections # 0 => count'[o] <= MaxConnections
      BY <2>1, <2>2, <2>4, <2>6, <3>2, PoolAssumption DEF SlotFree, PoolAssumption
    <3>4. /\ pc[r] \notin Holding /\ pc'[r] \in Holding
          /\ \A s \in Requests \ {r} : pc'[s] = pc[s]
      BY <3>1
    <3>. QED BY <1>0, <2>4, <3>1, <3>2, <3>3, <3>4, SlotTaken
  <2>. QED BY <2>5, <2>6
<1>11. ASSUME NEW r \in Requests, ConnectOk(r) PROVE Accounts'
  BY <1>11, SlotsUntouched DEF ConnectOk, Continue
<1>12. ASSUME NEW r \in Requests, ConnectFail(r) PROVE Accounts'
  <2>1. pc[r] \in Holding /\ Discard(r) BY <1>12 DEF ConnectFail
  <2>2. /\ pc'[r] \notin Holding /\ origin' = origin
        /\ \A s \in Requests \ {r} : pc'[s] = pc[s]
    BY <1>12 DEF ConnectFail, Return
  <2>. QED BY <1>0, <2>1, <2>2, DiscardEffect, SlotGivenBack
<1>13. ASSUME NEW r \in Requests, Connected(r) PROVE Accounts'
  <2>1. pc[r] \in Holding BY <1>13 DEF Connected
  <2>2. CASE Stopped(r)
    <3>1. Discard(r) /\ Return(r, "cancelled") /\ origin' = origin
      BY <1>13, <2>2 DEF Connected
    <3>2. pc'[r] \notin Holding /\ \A s \in Requests \ {r} : pc'[s] = pc[s]
      BY <3>1 DEF Return
    <3>. QED BY <1>0, <2>1, <3>1, <3>2, DiscardEffect, SlotGivenBack
  <2>3. CASE ~Stopped(r)
    BY <1>13, <2>3, SlotsUntouched DEF Connected, Continue, Suspend
  <2>. QED BY <2>2, <2>3
<1>14. ASSUME NEW r \in Requests, HandshakeOk(r) PROVE Accounts'
  BY <1>14, SlotsUntouched DEF HandshakeOk, Continue
<1>15. ASSUME NEW r \in Requests, Leased(r) PROVE Accounts'
  <2>1. pc[r] \in Holding BY <1>15 DEF Leased
  <2>2. CASE Stopped(r) \/ expired[r]
    <3>1. /\ Discard(r) /\ origin' = origin
          /\ Return(r, "cancelled") \/ Return(r, "timeout")
      BY <1>15, <2>2 DEF Leased
    <3>2. pc'[r] \notin Holding /\ \A s \in Requests \ {r} : pc'[s] = pc[s]
      BY <3>1 DEF Return
    <3>. QED BY <1>0, <2>1, <3>1, <3>2, DiscardEffect, SlotGivenBack
  <2>3. CASE ~(Stopped(r) \/ expired[r])
    BY <1>15, <2>3, SlotsUntouched DEF Leased, Suspend
  <2>. QED BY <2>2, <2>3
<1>16. ASSUME NEW r \in Requests, IoFail(r) PROVE Accounts'
  <2>1. pc[r] \in Holding /\ Discard(r) BY <1>16 DEF IoFail
  <2>2. /\ pc'[r] \notin Holding /\ origin' = origin
        /\ \A s \in Requests \ {r} : pc'[s] = pc[s]
    BY <1>16 DEF IoFail, Return, Continue
  <2>. QED BY <1>0, <2>1, <2>2, DiscardEffect, SlotGivenBack
<1>17. ASSUME NEW r \in Requests, IoOk(r) PROVE Accounts'
  <2>1. pc[r] \in Holding BY <1>17 DEF IoOk
  <2>2. CASE Stopped(r)
    <3>1. Discard(r) /\ Return(r, "cancelled") /\ origin' = origin
      BY <1>17, <2>2 DEF IoOk
    <3>2. pc'[r] \notin Holding /\ \A s \in Requests \ {r} : pc'[s] = pc[s]
      BY <3>1 DEF Return
    <3>. QED BY <1>0, <2>1, <3>1, <3>2, DiscardEffect, SlotGivenBack
  <2>3. CASE ~Stopped(r)
    BY <1>17, <2>3, SlotsUntouched DEF IoOk, Continue
  <2>. QED BY <2>2, <2>3
<1>18. ASSUME NEW r \in Requests, Finish(r) PROVE Accounts'
  <2>1. pc[r] \in Holding /\ Release(r) BY <1>18 DEF Finish
  <2>2. \/ \E res \in Results : Return(r, res)
        \/ Continue(r, "acquire")
    BY <1>18 DEF Finish
  <2>3. pc'[r] \notin Holding /\ \A s \in Requests \ {r} : pc'[s] = pc[s]
    BY <2>2 DEF Return, Continue
  <2>4. \/ origin' = origin
        \/ \E o \in Origins : origin' = [origin EXCEPT ![r] = o]
    BY <1>18 DEF Finish
  <2>5. \A s \in Requests \ {r} : pc'[s] = pc[s] /\ origin'[s] = origin[s]
    BY <2>3, <2>4
  <2>. QED BY <1>0, <2>1, <2>3, <2>5, ReleaseEffect, SlotGivenBack
<1>19. ASSUME NEW r \in Requests, Leave(r) PROVE Accounts'
  BY <1>19, SlotsUntouched DEF Leave
<1>20. ASSUME NEW r \in Requests, SetFlag(r) \/ Expire(r) PROVE Accounts'
  BY <1>20, SlotsUntouched DEF SetFlag, Expire
<1>21. ASSUME NEW r \in Requests, StopMark(r) \/ AllMark(r) PROVE Accounts'
  BY <1>21, SlotsUntouched DEF StopMark, AllMark, StopUnchanged
<1>22. ASSUME NEW a \in Agents, StopStep(a) PROVE Accounts'
  BY <1>22, SlotsUntouched DEF StopStep, StopSnapshot, StopClose, StopWake, StopUnchanged
<1>23. ASSUME CancelAll PROVE Accounts'
  BY <1>23, SlotsUntouched DEF CancelAll
<1>24. ASSUME NEW c \in Conns, CloseActive(c) PROVE Accounts'
  BY <1>24, SlotsUntouched DEF CloseActive, StopUnchanged
<1>25. ASSUME Quiescent \/ UNCHANGED vars PROVE Accounts'
  BY <1>25, SlotsUntouched DEF Quiescent, vars
<1>. QED
  BY <1>1, <1>2, <1>3, <1>4, <1>5, <1>6, <1>7, <1>8, <1>9, <1>10, <1>11,
     <1>12, <1>13, <1>14, <1>15, <1>16, <1>17, <1>18, <1>19, <1>20, <1>21,
     <1>22, <1>23, <1>24, <1>25
  DEF Next, LoopStep, IoStep, UserStep

-----------------------------------------------------------------------------
(* A thread that has begun to cancel keeps its request until it is done.    *)
LEMMA StoppersStep ==
  ASSUME Inv, [Next]_vars
  PROVE  StoppersHaveReq'
<1>1. CASE stopper' = stopper
  BY <1>1 DEF Inv, StoppersHaveReq
<1>2. ASSUME NEW r \in Requests, Ready(r) PROVE StoppersHaveReq'
  <2>1. ASSUME NEW a \in Agents
        PROVE stopper'[a].phase = stopper[a].phase /\ stopper'[a].req = stopper[a].req
    BY <1>2 DEF Ready, Inv, TypeOK, StopTypes
  <2>. QED BY <2>1 DEF Inv, StoppersHaveReq
<1>3. ASSUME NEW r \in Requests, StopMark(r) \/ AllMark(r) PROVE StoppersHaveReq'
  <2> DEFINE mark == [Idle EXCEPT !.phase = "marked", !.req = r]
  <2>1. mark.req = r OBVIOUS
  <2>2. stopper' = [stopper EXCEPT ![r] = mark] \/ stopper' = [stopper EXCEPT ![All] = mark]
    BY <1>3 DEF StopMark, AllMark
  <2> HIDE DEF mark
  <2>. QED BY <2>1, <2>2 DEF Inv, StoppersHaveReq, TypeOK, StopTypes
<1>4. ASSUME NEW a \in Agents, StopStep(a) PROVE StoppersHaveReq'
  <2>1. stopper[a].req \in Requests
    BY <1>4 DEF StopStep, StopSnapshot, StopClose, StopWake, Inv, StoppersHaveReq
  <2>2. \A b \in Agents \ {a} : stopper'[b] = stopper[b]
    BY <1>4 DEF StopStep, StopSnapshot, StopClose, StopWake, Inv, TypeOK, StopTypes
  <2>3. stopper'[a].req = stopper[a].req \/ stopper'[a].phase \in {"idle", "ended"}
    BY <1>4 DEF StopStep, StopSnapshot, StopClose, StopWake, Inv, TypeOK, StopTypes
  <2>. QED BY <2>1, <2>2, <2>3 DEF Inv, StoppersHaveReq
<1>5. ASSUME NEW r \in Requests,
             (LoopStep(r) /\ ~Ready(r)) \/ IoStep(r) \/ Start(r) \/ SetFlag(r) \/ Expire(r)
      PROVE  stopper' = stopper
  BY <1>5 DEF LoopStep, IoStep, Precheck, Resume, Admit, Park, Notify, Acquire,
     TakeIdle, TakeSlot, Connected, Leased, Finish, Leave, ConnectOk, ConnectFail,
     HandshakeOk, IoFail, IoOk, Start, SetFlag, Expire
<1>6. ASSUME CancelAll \/ Quiescent \/ UNCHANGED vars \/ \E c \in Conns : CloseActive(c)
      PROVE  stopper' = stopper
  BY <1>6 DEF CancelAll, Quiescent, vars, CloseActive
<1>. QED BY <1>1, <1>2, <1>3, <1>4, <1>5, <1>6 DEF Next, UserStep

(* The initial state has no slot in use.                                    *)
LEMMA InvInit ==
  ASSUME PoolAssumption, Init
  PROVE  Inv
<1>1. TypeOK
  <2>1. RequestTypes BY PoolAssumption DEF Init, RequestTypes, PoolAssumption
  <2>2. ControlTypes BY DEF Init, ControlTypes
  <2>3. WaiterTypes BY DEF Init, WaiterTypes
  <2>4. PoolTypes BY DEF Init, PoolTypes
  <2>5. StopTypes BY PoolAssumption DEF Init, StopTypes, PoolAssumption
  <2>. QED BY <2>1, <2>2, <2>3, <2>4, <2>5 DEF TypeOK
<1>2. HoldersHaveConn /\ StoppersHaveReq
  BY DEF Init, HoldersHaveConn, StoppersHaveReq
<1>3. ASSUME NEW o \in Origins
      PROVE  /\ count[o] = Len(pool[o]) + Cardinality(Holders(o))
             /\ Len(pool[o]) = 0 /\ count[o] = 0
  <2>1. Holders(o) = {} BY DEF Init, Holders
  <2>. QED BY <2>1, FS_EmptySet DEF Init
<1>4. SlotAccounting /\ CountLimits
  BY <1>3, PoolAssumption DEF SlotAccounting, CountLimits, PoolAssumption
<1>. QED BY <1>1, <1>2, <1>4 DEF Inv

(* The invariant is inductive.                                              *)
LEMMA InvStep ==
  ASSUME PoolAssumption, Inv, [Next]_vars
  PROVE  Inv'
BY TypeStep, AccountsStep, StoppersStep DEF Inv, Accounts

(* The invariant holds throughout, whatever the constants.                  *)
THEOREM PoolInvariant == Spec => []Inv
BY PoolAssumption, InvInit, InvStep, PTL DEF Spec

(* Type correctness: the pool only ever holds connections, counts never go  *)
(* below zero, and retries and redirects stay within their bounds.          *)
THEOREM TypeCorrect == Spec => []TypeOK
<1>1. Inv => TypeOK BY DEF Inv
<1>. QED BY <1>1, PoolInvariant, PTL

(* connection_counts equals the connections idle plus those held, for every *)
(* number of requests and origins and every interleaving with the threads   *)
(* that cancel: no error path of acquire(), exchange() or release() leaks   *)
(* a slot or frees one twice.                                               *)
THEOREM SlotsAccounted == Spec => []SlotAccounting
<1>1. Inv => SlotAccounting BY DEF Inv
<1>. QED BY <1>1, PoolInvariant, PTL

(* max_connections_per_origin and connection_pool_size are never exceeded.  *)
THEOREM LimitsKept == Spec => []WithinLimits
<1>1. Inv => WithinLimits
  BY DEF Inv, SlotAccounting, CountLimits, WithinLimits
<1>. QED BY <1>1, PoolInvariant, PTL
=============================================================================

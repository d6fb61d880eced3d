----------------------- MODULE ServerLifecycleProofs -----------------------
(***************************************************************************)
(* Proofs about ServerLifecycle, for any number of sessions, listening and *)
(* stopping threads, requests per connection and calls.                    *)
(*                                                                         *)
(* The inductive invariant comes in layers, each proved from the ones      *)
(* before it: who holds the loop, the locks, the list and the count        *)
(* (Discipline), which thread may start or stop the server and what it has *)
(* built (Control), and how far the sessions are drained (Drain).          *)
(***************************************************************************)
EXTENDS ServerLifecycle, TLAPS, FiniteSetTheorems

(* Positions of a session: off the list, out of the count, before its first *)
(* request, and those from which it can still finish a request.             *)
Unlisted  == {"none", "refused", "accepted", "decrement", "notify", "ended"}
Uncounted == {"none", "refused", "accepted", "pushed", "notify", "ended"}
Fresh     == {"none", "refused", "accepted", "pushed", "handshake"}
HasRoom   == {"check", "head", "request", "routed", "dispatch", "answered", "body",
              "upgrade", "send"} \cup Job \cup User \cup Posted
(* A session that cannot begin a request any more once stopping is set.     *)
Leaving   == {"none", "refused", "accepted", "pushed", "handshake", "top", "check",
              "closing", "erase", "decrement", "notify", "ended"}
(* A session whose connection only stop() could have closed.                *)
Linkless  == {"none", "refused", "erase", "decrement", "notify", "ended"}

(* Positions of a thread: under state_mutex, under sessions_mutex, in       *)
(* start(), and in stop() between its compare-and-swap and started = false. *)
Locked    == {"build", "publish", "clear", "set", "waitCheck", "waitEnter",
              "check1", "enter1", "check2", "enter2"}
Sweeping  == {"idleSweep", "allSweep"}
Starting  == {"build", "publish", "clear", "set"}
Begun     == {"shut", "idleLock", "idleSweep"}
Stopping  == Begun \cup Draining
Ending    == {"joinWorkers", "stopRuntime", "joinLoop", "unstart"}
Waited2   == {"resetWorkers"} \cup Ending
Waited1   == {"recheck", "allLock", "allSweep", "lock2", "check2", "enter2", "sleep2",
              "late2"} \cup Waited2

Counted == {s \in Sessions : pc[s] \notin Uncounted}

-----------------------------------------------------------------------------
(* Who holds what: the loop and the two mutexes are held exactly at the     *)
(* positions that say so, the list and the count agree with the positions   *)
(* of the sessions, and so do in_request and request_count.                 *)
LoopHeld    == \A s \in Sessions : pc[s] \in Running <=> loop = s
MutexHeld   == \A t \in Threads : thread[t] \in Locked <=> mutex = t
SweeperHeld == \A t \in Threads : thread[t] \in Sweeping <=> sweeper = t
ListExact   == sessions = {s \in Sessions : pc[s] \notin Unlisted}
CountExact  == active = Cardinality(Counted)
FlagExact   == \A s \in Sessions :
                 /\ pc[s] \in Serving => inRequest[s]
                 /\ pc[s] \in Fresh \cup {"top", "check", "head"} => ~inRequest[s]
RoomLeft    == \A s \in Sessions : pc[s] \in HasRoom => requests[s] < MaxRequests
(* A thread about to sleep has seen a session, and holds the mutex since.   *)
SeesSession == \A t \in Threads : thread[t] \in {"enter1", "enter2"} => active # 0

Held == /\ TypeOK /\ LoopHeld /\ MutexHeld /\ SweeperHeld /\ ListExact
        /\ FlagExact /\ RoomLeft /\ SeesSession /\ DrainWakesStop
Discipline == Held /\ CountExact

(* Who starts and who stops the server.  stop() is entered with started     *)
(* read long before the compare-and-swap; still it only gets past that with *)
(* a server that is there, or with one whose start() has one store to go:   *)
(* then it cannot get past state_mutex before start() has returned.         *)
StopAlone   == \A t, u \in Threads :
                 thread[t] \in Stopping /\ thread[u] \in Stopping => t = u
StopFlag    == \A t \in Threads : thread[t] \in Stopping => stopping
StartAlone  == \A t \in Threads : thread[t] \in Starting => ~started
AtSet       == \E u \in Threads : thread[u] = "set"
StopStarted == \A t \in Threads : thread[t] \in Stopping =>
                 started \/ (AtSet /\ thread[t] \in Begun \cup {"lock1"})
CasStarted  == \A t \in Threads : thread[t] = "cas" => started \/ stopping \/ AtSet

(* What start() has built and stop() has not taken down.                    *)
Built == started \/ \E u \in Threads : thread[u] \in Starting \ {"build"}
Bare  == listener = "none" /\ workers = "none" /\ runtime = "none"
BuiltOrBare == Built \/ Bare
BuiltWorks  == Built /\ (\A t \in Threads : thread[t] \notin Ending)
                 => workers = "up" /\ runtime = "up"
TakenDown   == \A t \in Threads :
                 /\ thread[t] = "joinWorkers" => runtime = "up"
                 /\ thread[t] = "stopRuntime" => workers = "none" /\ runtime = "up"
                 /\ thread[t] = "joinLoop" => workers = "none"
                 /\ thread[t] = "unstart" => Bare

Control == /\ StopAlone /\ StopFlag /\ StartAlone /\ StopStarted /\ CasStarted
           /\ BuiltOrBare /\ BuiltWorks /\ TakenDown

(* How far the sessions are drained: what the first pass has still to do;   *)
(* who can be left after a wait that did not run out; nobody on a server    *)
(* that is down; only stop() closes the connection of a session that is     *)
(* being served; a request counted as in flight is over with that stop().   *)
SweptSoFar == \A t \in Threads : thread[t] = "idleSweep" =>
                \A s \in Sessions : pc[s] = "head" /\ Open(s) => s \in sweep
WaitedOut  == \A t \in Threads :
                (\/ thread[t] \in Waited1 /\ expired = 0
                 \/ thread[t] \in Waited2 /\ expired # 2)
                => \A s \in Sessions : pc[s] \in Leaving
EmptyDown  == ~Built /\ expired # 2 => \A s \in Sessions : pc[s] \in Over
OpenAlone  == expired # 2 /\ (\A t \in Threads : thread[t] \notin Stopping) =>
                \A s \in Sessions : pc[s] \notin Linkless => Open(s)
InFlightTied == expired # 2 => \A s \in inFlight :
                  /\ pc[s] \notin {"none", "accepted", "pushed", "handshake", "head"}
                  /\ pc[s] \in Over \/ \E t \in Threads : thread[t] \in Stopping

Drain == /\ SweptSoFar /\ IdleSwept /\ WaitedOut /\ EmptyDown /\ OpenAlone /\ InFlightTied
         /\ NotStranded /\ DrainedAtEnd /\ GracefulDrain

Inv == Discipline /\ Control /\ Drain

USE DEF Io, Job, User, Running, Posted, Over, Serving, Draining, Calls, Unlisted,
     Uncounted,
        Fresh, HasRoom, Leaving, Linkless, Locked, Sweeping, Starting, Begun, Stopping,
        Ending, Waited1, Waited2, Threads, ctlVars, objVars, userVars, sessVars

-----------------------------------------------------------------------------
(* Counting.                                                                *)

(* A set of sessions has a size, at most that of all of them, and zero only *)
(* for the empty one.                                                       *)
LEMMA SizeOfSome ==
  ASSUME NEW C \in SUBSET Sessions
  PROVE  /\ IsFiniteSet(C) /\ Cardinality(C) \in 0..Cardinality(Sessions)
         /\ Cardinality(C) = 0 <=> C = {}
<1>1. IsFiniteSet(C) /\ Cardinality(C) <= Cardinality(Sessions)
  BY ServerAssumption, FS_Subset
<1>2. Cardinality(C) \in Nat /\ Cardinality(Sessions) \in Nat
  BY <1>1, ServerAssumption, FS_CardinalityType
<1>3. Cardinality(C) = 0 <=> C = {} BY <1>1, FS_EmptySet
<1>. QED BY <1>1, <1>2, <1>3

(* A step of a session other than the two that count.                       *)
Uncounting(s) ==
  \/ Accept(s) \/ PushSession(s) \/ Top(s) \/ CheckStopping(s) \/ HeadRead(s) \/ IoOk(s)
  \/ IoFail(s) \/ Request(s) \/ Route(s) \/ Dispatch(s) \/ RunJob(s) \/ JobDone(s)
  \/ HandlerReturns(s) \/ Answer(s) \/ Sent(s) \/ Close(s) \/ EraseSession(s)
  \/ NotifySessions(s) \/ CloseOnLoop(s)

(* It leaves the session counted or not as it was.                          *)
LEMMA UncountingKeeps ==
  ASSUME TypeOK, NEW s \in Sessions, Uncounting(s)
  PROVE  Counted' = Counted /\ active' = active
<1> USE DEF TypeOK, Counted, Continue, Suspend, At, Wakes, CloseHere, Execute
<1>1. CASE Accept(s) BY <1>1 DEF Accept
<1>2. CASE PushSession(s) BY <1>2 DEF PushSession
<1>3. CASE Top(s) BY <1>3 DEF Top
<1>4. CASE CheckStopping(s) BY <1>4 DEF CheckStopping
<1>5. CASE HeadRead(s) BY <1>5 DEF HeadRead
<1>6. CASE IoOk(s) BY <1>6 DEF IoOk
<1>7. CASE IoFail(s) BY <1>7 DEF IoFail
<1>8. CASE Request(s) BY <1>8 DEF Request
<1>9. CASE Route(s) BY <1>9 DEF Route
<1>10. CASE Dispatch(s) BY <1>10 DEF Dispatch
<1>11. CASE RunJob(s) BY <1>11 DEF RunJob
<1>12. CASE JobDone(s) BY <1>12 DEF JobDone
<1>13. CASE HandlerReturns(s) BY <1>13 DEF HandlerReturns
<1>14. CASE Answer(s) BY <1>14 DEF Answer
<1>15. CASE Sent(s) BY <1>15 DEF Sent
<1>16. CASE Close(s) BY <1>16 DEF Close
<1>17. CASE EraseSession(s) BY <1>17 DEF EraseSession
<1>18. CASE NotifySessions(s) BY <1>18 DEF NotifySessions
<1>19. CASE CloseOnLoop(s) BY <1>19 DEF CloseOnLoop
<1>. QED BY <1>1, <1>2, <1>3, <1>4, <1>5, <1>6, <1>7, <1>8, <1>9, <1>10, <1>11,
     <1>12, <1>13, <1>14, <1>15, <1>16, <1>17, <1>18, <1>19 DEF Uncounting

(* active_sessions is the number of sessions between CountSession and       *)
(* DecrementActive, in every state.                                         *)
LEMMA CountStep ==
  ASSUME TypeOK, CountExact, [Next]_vars
  PROVE  CountExact'
<1>0. IsFiniteSet(Counted) BY SizeOfSome DEF Counted
<1>1. ASSUME NEW s \in Sessions, CountSession(s) PROVE CountExact'
  <2>1. s \notin Counted /\ Counted' = Counted \cup {s}
    BY <1>1 DEF CountSession, At, Suspend, Continue, Counted, TypeOK
  <2>2. Cardinality(Counted') = Cardinality(Counted) + 1
    BY <2>1, <1>0, FS_AddElement
  <2>. QED BY <1>1, <2>2 DEF CountSession, CountExact
<1>2. ASSUME NEW s \in Sessions, DecrementActive(s) PROVE CountExact'
  <2>1. s \in Counted /\ Counted' = Counted \ {s}
    BY <1>2 DEF DecrementActive, At, Continue, Counted, TypeOK
  <2>2. Cardinality(Counted') = Cardinality(Counted) - 1
    BY <2>1, <1>0, FS_RemoveElement
  <2>. QED BY <1>2, <2>2 DEF DecrementActive, CountExact
<1>3. ASSUME NEW s \in Sessions, Uncounting(s) PROVE CountExact'
  BY <1>3, UncountingKeeps DEF CountExact
<1>4. ASSUME UNCHANGED <<pc, active>> PROVE CountExact'
  BY <1>4 DEF CountExact, Counted
<1>5. ASSUME NEW t \in Threads,
             StartLock(t) \/ StopLoad(t) \/ CallStep(t) \/ ClockStep(t) \/ SpuriousWake(t)
      PROVE  UNCHANGED <<pc, active>>
  BY <1>5 DEF StartLock, Build, Publish, Wait, SpuriousWake, StopLoad, StopCas,
       ShutListener, SweepLock, SweepDone, Recheck, ResetWorkers, StopRuntime,
       Unpublish, NotifyAll, CallStep, ClockStep, SweepOne, WaitFor, WaitExpires,
       Local
<1>6. ListenerClosed \/ Quiet \/ UNCHANGED vars => UNCHANGED <<pc, active>>
  BY DEF ListenerClosed, Quiet, vars
<1>. QED BY <1>1, <1>2, <1>3, <1>4, <1>5, <1>6 DEF Next, SessionStep, Uncounting

-----------------------------------------------------------------------------
(* Who holds what.                                                          *)

(* Every step keeps the locks, the list, the count and the wakeup of stop() *)
(* in order.                                                                *)
LEMMA HeldStep ==
  ASSUME Discipline, [Next]_vars
  PROVE  Held'
<1>0. Held /\ active' \in 0..Cardinality(Sessions)
  <2>1. CountExact' BY CountStep DEF Discipline, Held
  <2>2. Cardinality(Counted') \in 0..Cardinality(Sessions) BY SizeOfSome DEF Counted
  <2>. QED BY <2>1, <2>2 DEF Discipline, CountExact
<1> USE <1>0, ServerAssumption
    DEF Held, TypeOK, LoopHeld, MutexHeld, SweeperHeld, ListExact, FlagExact, RoomLeft,
        SeesSession, DrainWakesStop, At, Wakes, Continue, Suspend, Open, CloseHere, Execute,
        Goto, Local, Steps
<1>1. ASSUME NEW s \in Sessions, Accept(s) PROVE Held'
  BY <1>1 DEF Accept
<1>2. ASSUME NEW s \in Sessions, PushSession(s) PROVE Held'
  BY <1>2 DEF PushSession
<1>3. ASSUME NEW s \in Sessions, CountSession(s) PROVE Held'
  BY <1>3 DEF CountSession
<1>4. ASSUME NEW s \in Sessions, Top(s) PROVE Held'
  <2>1. inRequest' \in [Sessions -> BOOLEAN] /\ keep' \in [Sessions -> BOOLEAN]
    BY <1>4 DEF Top
  <2>2. TypeOK' BY <1>4, <2>1 DEF Top
  <2>. QED BY <1>4, <2>2 DEF Top
<1>5. ASSUME NEW s \in Sessions, CheckStopping(s) PROVE Held'
  BY <1>5 DEF CheckStopping
<1>6. ASSUME NEW s \in Sessions, HeadRead(s) PROVE Held'
  BY <1>6 DEF HeadRead
<1>7. ASSUME NEW s \in Sessions, IoOk(s) PROVE Held'
  BY <1>7 DEF IoOk
<1>8. ASSUME NEW s \in Sessions, IoFail(s) PROVE Held'
  BY <1>8 DEF IoFail
<1>9. ASSUME NEW s \in Sessions, Request(s) PROVE Held'
  BY <1>9 DEF Request
<1>10. ASSUME NEW s \in Sessions, Route(s) PROVE Held'
  BY <1>10 DEF Route
<1>11. ASSUME NEW s \in Sessions, Dispatch(s) PROVE Held'
  BY <1>11 DEF Dispatch
<1>12. ASSUME NEW s \in Sessions, RunJob(s) PROVE Held'
  BY <1>12 DEF RunJob
<1>13. ASSUME NEW s \in Sessions, JobDone(s) PROVE Held'
  BY <1>13 DEF JobDone
<1>14. ASSUME NEW s \in Sessions, HandlerReturns(s) PROVE Held'
  BY <1>14 DEF HandlerReturns
<1>15. ASSUME NEW s \in Sessions, Answer(s) PROVE Held'
  <2>1. inRequest' \in [Sessions -> BOOLEAN] /\ keep' \in [Sessions -> BOOLEAN]
    BY <1>15 DEF Answer
  <2>2. TypeOK' BY <1>15, <2>1 DEF Answer
  <2>. QED BY <1>15, <2>2 DEF Answer
<1>16. ASSUME NEW s \in Sessions, Sent(s) PROVE Held'
  BY <1>16 DEF Sent
<1>17. ASSUME NEW s \in Sessions, Close(s) PROVE Held'
  BY <1>17 DEF Close
<1>18. ASSUME NEW s \in Sessions, EraseSession(s) PROVE Held'
  BY <1>18 DEF EraseSession
<1>19. ASSUME NEW s \in Sessions, DecrementActive(s) PROVE Held'
  BY <1>19 DEF DecrementActive
<1>20. ASSUME NEW s \in Sessions, NotifySessions(s) PROVE Held'
  BY <1>20 DEF NotifySessions
<1>21. ASSUME NEW s \in Sessions, CloseOnLoop(s) PROVE Held'
  BY <1>21 DEF CloseOnLoop
<1>22. ASSUME ListenerClosed PROVE Held'
  BY <1>22 DEF ListenerClosed
<1>23. ASSUME NEW t \in Threads, StartLock(t) PROVE Held'
  BY <1>23 DEF StartLock
<1>24. ASSUME NEW t \in Threads, Build(t) PROVE Held'
  BY <1>24 DEF Build
<1>25. ASSUME NEW t \in Threads, Publish(t) PROVE Held'
  <2>1. started' \in BOOLEAN /\ stopping' \in BOOLEAN /\ port' \in BOOLEAN
    BY <1>25 DEF Publish
  <2>2. TypeOK' BY <1>25, <2>1 DEF Publish
  <2>. QED BY <1>25, <2>2 DEF Publish
<1>26. ASSUME NEW t \in Threads, Wait(t) PROVE Held'
  BY <1>26 DEF Wait
<1>27. ASSUME NEW t \in Threads, SpuriousWake(t) PROVE Held'
  BY <1>27 DEF SpuriousWake
<1>28. ASSUME NEW t \in Threads, StopLoad(t) PROVE Held'
  BY <1>28 DEF StopLoad
<1>29. ASSUME NEW t \in Threads, StopCas(t) PROVE Held'
  <2>1. started' \in BOOLEAN /\ stopping' \in BOOLEAN /\ port' \in BOOLEAN
    BY <1>29 DEF StopCas
  <2>2. TypeOK' BY <1>29, <2>1 DEF StopCas
  <2>. QED BY <1>29, <2>2 DEF StopCas
<1>30. ASSUME NEW t \in Threads, ShutListener(t) PROVE Held'
  BY <1>30 DEF ShutListener
<1>31. ASSUME NEW t \in Threads, SweepLock(t) PROVE Held'
  BY <1>31 DEF SweepLock
<1>32. ASSUME NEW t \in Threads, SweepDone(t) PROVE Held'
  BY <1>32 DEF SweepDone
<1>33. ASSUME NEW t \in Threads, Recheck(t) PROVE Held'
  BY <1>33 DEF Recheck
<1>34. ASSUME NEW t \in Threads, ResetWorkers(t) PROVE Held'
  BY <1>34 DEF ResetWorkers
<1>35. ASSUME NEW t \in Threads, StopRuntime(t) PROVE Held'
  BY <1>35 DEF StopRuntime
<1>36. ASSUME NEW t \in Threads, Unpublish(t) PROVE Held'
  <2>1. started' \in BOOLEAN /\ stopping' \in BOOLEAN /\ port' \in BOOLEAN
    BY <1>36 DEF Unpublish
  <2>2. TypeOK' BY <1>36, <2>1 DEF Unpublish
  <2>. QED BY <1>36, <2>2 DEF Unpublish
<1>37. ASSUME NEW t \in Threads, NotifyAll(t) PROVE Held'
  BY <1>37 DEF NotifyAll
<1>38. ASSUME NEW t \in Threads, NEW s \in Sessions, SweepOne(t, s) PROVE Held'
  BY <1>38 DEF SweepOne, Spares
<1>39. ASSUME NEW t \in Threads, NEW i \in {1, 2}, WaitFor(t, i) PROVE Held'
  BY <1>39 DEF WaitFor
<1>40. ASSUME NEW t \in Threads, NEW i \in {1, 2}, WaitExpires(t, i) PROVE Held'
  BY <1>40 DEF WaitExpires
<1>41. ASSUME UNCHANGED vars PROVE Held'
  BY <1>41 DEF vars
<1> HIDE DEF Held
<1>. QED BY <1>1, <1>2, <1>3, <1>4, <1>5, <1>6, <1>7, <1>8, <1>9, <1>10,
     <1>11, <1>12, <1>13, <1>14, <1>15, <1>16, <1>17, <1>18, <1>19, <1>20,
     <1>21, <1>22, <1>23, <1>24, <1>25, <1>26, <1>27, <1>28, <1>29, <1>30,
     <1>31, <1>32, <1>33, <1>34, <1>35, <1>36, <1>37, <1>38, <1>39, <1>40,
     <1>41 DEF Next, SessionStep, CallStep, ClockStep, Quiet

-----------------------------------------------------------------------------
(* Who starts and stops the server, and what start() has built.             *)

(* A session's step other than session_finished's notify_all touches        *)
(* nothing that start() and stop() write, but its own connection.           *)
LEMMA SessionFrame ==
  ASSUME NEW s \in Sessions, Uncounting(s) \/ CountSession(s) \/ DecrementActive(s)
  PROVE  NotifySessions(s) \/ UNCHANGED <<ctlVars, objVars, userVars>>
  BY DEF Uncounting, Accept, PushSession, CountSession, Top, CheckStopping,
       HeadRead, IoOk,
         IoFail, Request, Route, Dispatch, RunJob, JobDone, HandlerReturns,
         Answer, Sent, Close, EraseSession, DecrementActive, NotifySessions,
         CloseOnLoop

(* notify_all moves a sleeper on, and nobody into or out of start() and     *)
(* stop().                                                                  *)
LEMMA WokenControl ==
  ASSUME Control, UNCHANGED <<ctlVars, objVars>>,
         \A t \in Threads :
           \/ thread'[t] = thread[t]
           \/ thread[t] = "sleep1" /\ thread'[t] = "lock1"
           \/ thread[t] = "sleep2" /\ thread'[t] = "lock2"
           \/ thread[t] = "notifyAll" /\ thread'[t] = "idle"
           \/ thread[t] = "waitSleep" /\ thread'[t] = "waitLock"
  PROVE  Control'
<1> HIDE DEF Threads
<1>1. \A t \in Threads :
        /\ thread'[t] \in Stopping <=> thread[t] \in Stopping
        /\ thread'[t] \in Starting <=> thread[t] \in Starting
        /\ thread[t] \in Begun \cup {"lock1"} => thread'[t] \in Begun \cup {"lock1"}
        /\ thread'[t] \in Ending <=> thread[t] \in Ending
  OBVIOUS
<1>2. \A t \in Threads : \A p \in {"cas", "set", "build"} \cup Ending :
        thread'[t] = p <=> thread[t] = p
  OBVIOUS
<1>3. AtSet' <=> AtSet BY <1>2 DEF AtSet
<1>4. \A t \in Threads : thread'[t] \in Starting \ {"build"} <=> thread[t] \in Starting \ {"build"}
  BY <1>1, <1>2
<1>5. Built' <=> Built BY <1>4 DEF Built
<1>6. Bare' <=> Bare BY DEF Bare
<1> HIDE DEF Stopping, Starting, Begun, Draining
<1>7. StopAlone' /\ StopFlag' /\ StartAlone'
  BY <1>1 DEF Control, StopAlone, StopFlag, StartAlone
<1>8. StopStarted' BY <1>1, <1>3 DEF Control, StopStarted
<1>9. CasStarted' BY <1>2, <1>3 DEF Control, CasStarted
<1>10. BuiltOrBare' BY <1>5, <1>6 DEF Control, BuiltOrBare
<1>11. BuiltWorks' BY <1>1, <1>5 DEF Control, BuiltWorks
<1>12. TakenDown' BY <1>2, <1>6 DEF Control, TakenDown
<1>. QED BY <1>7, <1>8, <1>9, <1>10, <1>11, <1>12 DEF Control

(* One thread at a time is in stop() after its compare-and-swap, and only   *)
(* while the server is built; start() has the server to itself.             *)
LEMMA ControlStep ==
  ASSUME Discipline, Control, [Next]_vars
  PROVE  Control'
<1>2. ASSUME NEW s \in Sessions, NotifySessions(s) PROVE Control'
  BY <1>2, WokenControl DEF NotifySessions
<1>18. ASSUME NEW t \in Threads, NotifyAll(t) PROVE Control'
  BY <1>18, WokenControl DEF NotifyAll
<1> USE ServerAssumption
    DEF Discipline, Held, TypeOK, MutexHeld, SweeperHeld, Control, StopAlone, StopFlag,
        StartAlone, AtSet, StopStarted, CasStarted, Built, Bare, BuiltOrBare, BuiltWorks, TakenDown,
        Goto, Local, Steps
<1>1. ASSUME UNCHANGED <<ctlVars, objVars, userVars>> PROVE Control'
  BY <1>1
<1>3. ASSUME ListenerClosed PROVE Control'
  BY <1>3 DEF ListenerClosed
<1>4. ASSUME NEW t \in Threads, StartLock(t) PROVE Control'
  BY <1>4 DEF StartLock
<1>5. ASSUME NEW t \in Threads, Build(t) PROVE Control'
  BY <1>5 DEF Build
<1>6. ASSUME NEW t \in Threads, Publish(t) PROVE Control'
  BY <1>6 DEF Publish
<1>7. ASSUME NEW t \in Threads, Wait(t) PROVE Control'
  BY <1>7 DEF Wait
<1>8. ASSUME NEW t \in Threads, SpuriousWake(t) PROVE Control'
  BY <1>8 DEF SpuriousWake
<1>9. ASSUME NEW t \in Threads, StopLoad(t) PROVE Control'
  BY <1>9 DEF StopLoad
<1>10. ASSUME NEW t \in Threads, StopCas(t) PROVE Control'
  BY <1>10 DEF StopCas
<1>11. ASSUME NEW t \in Threads, ShutListener(t) PROVE Control'
  BY <1>11 DEF ShutListener
<1>12. ASSUME NEW t \in Threads, SweepLock(t) PROVE Control'
  BY <1>12 DEF SweepLock
<1>13. ASSUME NEW t \in Threads, SweepDone(t) PROVE Control'
  BY <1>13 DEF SweepDone
<1>14. ASSUME NEW t \in Threads, Recheck(t) PROVE Control'
  BY <1>14 DEF Recheck
<1>15. ASSUME NEW t \in Threads, ResetWorkers(t) PROVE Control'
  BY <1>15 DEF ResetWorkers
<1>16. ASSUME NEW t \in Threads, StopRuntime(t) PROVE Control'
  BY <1>16 DEF StopRuntime, KeepsLoop
<1>17. ASSUME NEW t \in Threads, Unpublish(t) PROVE Control'
  BY <1>17 DEF Unpublish
<1>19. ASSUME NEW t \in Threads, NEW s \in Sessions, SweepOne(t, s) PROVE Control'
  BY <1>19 DEF SweepOne, Spares
<1>20. ASSUME NEW t \in Threads, NEW i \in {1, 2}, WaitFor(t, i) PROVE Control'
  BY <1>20 DEF WaitFor
<1>21. ASSUME NEW t \in Threads, NEW i \in {1, 2}, WaitExpires(t, i) PROVE Control'
  BY <1>21 DEF WaitExpires
<1>22. ASSUME UNCHANGED vars PROVE Control'
  BY <1>22 DEF vars
<1> HIDE DEF Control
<1>. QED BY <1>1, <1>2, SessionFrame, <1>3, <1>4, <1>5, <1>6, <1>7, <1>8, <1>9,
     <1>10, <1>11, <1>12,
     <1>13, <1>14, <1>15, <1>16, <1>17, <1>18, <1>19, <1>20, <1>21, <1>22
     DEF Next, SessionStep, Uncounting, CallStep, ClockStep, Quiet

-----------------------------------------------------------------------------
(* How far the sessions are drained.                                        *)

(* Waking the threads of a condition variable changes nobody's part in      *)
(* stop(), and so neither which connections stop() alone can have closed    *)
(* nor what ties a request in progress to it.                               *)
LEMMA NotifyKeepsTies ==
  ASSUME OpenAlone, InFlightTied, inFlight \subseteq Sessions,
         \A t \in Threads : thread'[t] \in Stopping <=> thread[t] \in Stopping,
         \A s \in Sessions : pc'[s] = pc[s] \/ (pc[s] = "notify" /\ pc'[s] = "ended"),
         UNCHANGED <<link, expired, inFlight>>
  PROVE  OpenAlone' /\ InFlightTied'
<1>1. OpenAlone' BY DEF OpenAlone, Open
<1>2. InFlightTied'
  <2>1. (\E t \in Threads : thread[t] \in Stopping) => \E t \in Threads : thread'[t] \in Stopping
    OBVIOUS
  <2>. QED BY <2>1 DEF InFlightTied
<1>. QED BY <1>1, <1>2

(* No step undoes what the drain has reached.                               *)
LEMMA DrainStep ==
  ASSUME Discipline, Control, Drain, [Next]_vars
  PROVE  Drain'
<1>0. Held /\ (active = 0 <=> Counted = {})
  BY SizeOfSome DEF Discipline, CountExact, Counted
<1> USE <1>0, ServerAssumption
    DEF Held, TypeOK, LoopHeld, MutexHeld, SweeperHeld, ListExact, FlagExact,
        Control, StopAlone, StopFlag, StartAlone, AtSet, StopStarted, CasStarted, Built,
        Bare, BuiltOrBare, BuiltWorks, TakenDown,
        Drain, SweptSoFar, IdleSwept, WaitedOut, EmptyDown, OpenAlone, InFlightTied,
        NotStranded, DrainedAtEnd, GracefulDrain, Counted,
        At, Wakes, Continue, Suspend, Open, CloseHere, Execute, Goto, Local, Steps
<1>1. ASSUME NEW s \in Sessions, Accept(s) PROVE Drain'
  BY <1>1 DEF Accept
<1>2. ASSUME NEW s \in Sessions, PushSession(s) PROVE Drain'
  BY <1>2 DEF PushSession
<1>3. ASSUME NEW s \in Sessions, CountSession(s) PROVE Drain'
  BY <1>3 DEF CountSession
<1>4. ASSUME NEW s \in Sessions, Top(s) PROVE Drain'
  BY <1>4 DEF Top
<1>5. ASSUME NEW s \in Sessions, CheckStopping(s) PROVE Drain'
  BY <1>5 DEF CheckStopping
<1>6. ASSUME NEW s \in Sessions, HeadRead(s) PROVE Drain'
  BY <1>6 DEF HeadRead
<1>7. ASSUME NEW s \in Sessions, IoOk(s) PROVE Drain'
  BY <1>7 DEF IoOk
<1>8. ASSUME NEW s \in Sessions, IoFail(s) PROVE Drain'
  BY <1>8 DEF IoFail
<1>9. ASSUME NEW s \in Sessions, Request(s) PROVE Drain'
  BY <1>9 DEF Request
<1>10. ASSUME NEW s \in Sessions, Route(s) PROVE Drain'
  BY <1>10 DEF Route
<1>11. ASSUME NEW s \in Sessions, Dispatch(s) PROVE Drain'
  BY <1>11 DEF Dispatch
<1>12. ASSUME NEW s \in Sessions, RunJob(s) PROVE Drain'
  BY <1>12 DEF RunJob
<1>13. ASSUME NEW s \in Sessions, JobDone(s) PROVE Drain'
  BY <1>13 DEF JobDone
<1>14. ASSUME NEW s \in Sessions, HandlerReturns(s) PROVE Drain'
  BY <1>14 DEF HandlerReturns
<1>15. ASSUME NEW s \in Sessions, Answer(s) PROVE Drain'
  BY <1>15 DEF Answer
<1>16. ASSUME NEW s \in Sessions, Sent(s) PROVE Drain'
  BY <1>16 DEF Sent
<1>17. ASSUME NEW s \in Sessions, Close(s) PROVE Drain'
  BY <1>17 DEF Close
<1>18. ASSUME NEW s \in Sessions, EraseSession(s) PROVE Drain'
  BY <1>18 DEF EraseSession
<1>19. ASSUME NEW s \in Sessions, DecrementActive(s) PROVE Drain'
  BY <1>19 DEF DecrementActive
<1>20. ASSUME NEW s \in Sessions, NotifySessions(s) PROVE Drain'
  <2>1. \A t \in Threads : thread'[t] \in Stopping <=> thread[t] \in Stopping
    BY <1>20 DEF NotifySessions
  <2>2. /\ \A e \in Sessions : pc'[e] = pc[e] \/ (pc[e] = "notify" /\ pc'[e] = "ended")
        /\ UNCHANGED <<link, expired, inFlight>>
    BY <1>20 DEF NotifySessions
  <2>3. OpenAlone' /\ InFlightTied' BY <2>1, <2>2, NotifyKeepsTies
  <2>4. SweptSoFar' /\ IdleSwept' /\ WaitedOut' /\ EmptyDown' BY <1>20 DEF
       NotifySessions
  <2>5. NotStranded' /\ DrainedAtEnd' /\ GracefulDrain' BY <1>20 DEF NotifySessions
  <2>. QED BY <2>3, <2>4, <2>5
<1>21. ASSUME NEW s \in Sessions, CloseOnLoop(s) PROVE Drain'
  BY <1>21 DEF CloseOnLoop
<1>22. ASSUME ListenerClosed PROVE Drain'
  BY <1>22 DEF ListenerClosed
<1>23. ASSUME NEW t \in Threads, StartLock(t) PROVE Drain'
  BY <1>23 DEF StartLock
<1>24. ASSUME NEW t \in Threads, Build(t) PROVE Drain'
  BY <1>24 DEF Build
<1>25. ASSUME NEW t \in Threads, Publish(t) PROVE Drain'
  BY <1>25 DEF Publish
<1>26. ASSUME NEW t \in Threads, Wait(t) PROVE Drain'
  BY <1>26 DEF Wait
<1>27. ASSUME NEW t \in Threads, SpuriousWake(t) PROVE Drain'
  BY <1>27 DEF SpuriousWake
<1>28. ASSUME NEW t \in Threads, StopLoad(t) PROVE Drain'
  BY <1>28 DEF StopLoad
<1>29. ASSUME NEW t \in Threads, StopCas(t) PROVE Drain'
  BY <1>29 DEF StopCas
<1>30. ASSUME NEW t \in Threads, ShutListener(t) PROVE Drain'
  BY <1>30 DEF ShutListener
<1>31. ASSUME NEW t \in Threads, SweepLock(t) PROVE Drain'
  BY <1>31 DEF SweepLock
<1>32. ASSUME NEW t \in Threads, SweepDone(t) PROVE Drain'
  BY <1>32 DEF SweepDone
<1>33. ASSUME NEW t \in Threads, Recheck(t) PROVE Drain'
  BY <1>33 DEF Recheck
<1>34. ASSUME NEW t \in Threads, ResetWorkers(t) PROVE Drain'
  BY <1>34 DEF ResetWorkers
<1>35. ASSUME NEW t \in Threads, StopRuntime(t) PROVE Drain'
  BY <1>35 DEF StopRuntime, KeepsLoop
<1>36. ASSUME NEW t \in Threads, Unpublish(t) PROVE Drain'
  BY <1>36 DEF Unpublish
<1>37. ASSUME NEW t \in Threads, NotifyAll(t) PROVE Drain'
  <2>1. \A u \in Threads : thread'[u] \in Stopping <=> thread[u] \in Stopping
    BY <1>37 DEF NotifyAll
  <2>2. /\ \A s \in Sessions : pc'[s] = pc[s] \/ (pc[s] = "notify" /\ pc'[s] = "ended")
        /\ UNCHANGED <<link, expired, inFlight>>
    BY <1>37 DEF NotifyAll
  <2>3. OpenAlone' /\ InFlightTied' BY <2>1, <2>2, NotifyKeepsTies
  <2>4. SweptSoFar' /\ IdleSwept' /\ WaitedOut' /\ EmptyDown' BY <1>37 DEF NotifyAll
  <2>5. NotStranded' /\ DrainedAtEnd' /\ GracefulDrain' BY <1>37 DEF NotifyAll
  <2>. QED BY <2>3, <2>4, <2>5
<1>38. ASSUME NEW t \in Threads, NEW s \in Sessions, SweepOne(t, s) PROVE Drain'
  BY <1>38 DEF SweepOne, Spares
<1>39. ASSUME NEW t \in Threads, NEW i \in {1, 2}, WaitFor(t, i) PROVE Drain'
  BY <1>39 DEF WaitFor
<1>40. ASSUME NEW t \in Threads, NEW i \in {1, 2}, WaitExpires(t, i) PROVE Drain'
  BY <1>40 DEF WaitExpires
<1>41. ASSUME UNCHANGED vars PROVE Drain'
  BY <1>41 DEF vars
<1> HIDE DEF Drain
<1>. QED BY <1>1, <1>2, <1>3, <1>4, <1>5, <1>6, <1>7, <1>8, <1>9, <1>10,
     <1>11, <1>12, <1>13, <1>14, <1>15, <1>16, <1>17, <1>18, <1>19, <1>20,
     <1>21, <1>22, <1>23, <1>24, <1>25, <1>26, <1>27, <1>28, <1>29, <1>30,
     <1>31, <1>32, <1>33, <1>34, <1>35, <1>36, <1>37, <1>38, <1>39, <1>40,
     <1>41 DEF Next, SessionStep, CallStep, ClockStep, Quiet

-----------------------------------------------------------------------------
(* The invariant and what it gives.                                         *)

(* The three layers together are an invariant of the server.                *)
THEOREM ServerInvariant == Spec => []Inv
<1>1. Init => Inv
  <2> SUFFICES ASSUME Init PROVE Inv OBVIOUS
  <2> USE ServerAssumption DEF Init
  <2>1. Counted = {} /\ Cardinality(Counted) = 0 BY FS_EmptySet DEF Counted
  <2>2. CountExact BY <2>1 DEF CountExact
  <2>3. Cardinality(Sessions) \in Nat BY FS_CardinalityType
  <2>4. TypeOK
    <3>1. pc \in [Sessions -> Over] /\ requests \in [Sessions -> 0..MaxRequests]
      OBVIOUS
    <3>2. thread \in [Threads -> Calls] /\ calls \in [Threads -> 0..MaxCalls]
      OBVIOUS
    <3>3. inRequest \in [Sessions -> BOOLEAN] /\ keep \in [Sessions -> BOOLEAN]
      OBVIOUS
    <3>4. started \in BOOLEAN /\ stopping \in BOOLEAN /\ port \in BOOLEAN
      OBVIOUS
    <3>. QED BY <2>3, <3>1, <3>2, <3>3, <3>4 DEF TypeOK
  <2>5. Held
    BY <2>4 DEF Held, LoopHeld, MutexHeld, SweeperHeld, ListExact, FlagExact, RoomLeft,
                SeesSession, DrainWakesStop
  <2>6. Control
    BY DEF Control, StopAlone, StopFlag, StartAlone, AtSet, StopStarted, CasStarted,
         Built,
           Bare, BuiltOrBare, BuiltWorks, TakenDown
  <2>7. Drain
    BY DEF Drain, SweptSoFar, IdleSwept, WaitedOut, EmptyDown, OpenAlone, InFlightTied,
           NotStranded, DrainedAtEnd, GracefulDrain
  <2>. QED BY <2>2, <2>5, <2>6, <2>7 DEF Inv, Discipline
<1>2. Inv /\ [Next]_vars => Inv'
  <2>1. Discipline /\ [Next]_vars => Held' BY HeldStep
  <2>2. Discipline /\ [Next]_vars => CountExact' BY CountStep DEF Discipline, Held
  <2>. QED BY <2>1, <2>2, ControlStep, DrainStep DEF Inv, Discipline
<1>. QED BY <1>1, <1>2, PTL DEF Spec

(* active_sessions never exceeds the sessions there are nor wraps below     *)
(* zero, request_count stays within keep_alive_max_requests, and every      *)
(* other member has its type, whatever start(), stop() and the sessions do. *)
THEOREM ServerTypeCorrect == Spec => []TypeOK
  BY ServerInvariant, PTL DEF Inv, Discipline, Held

(* session_finished's notify_all is not lost: stop() does not sleep in      *)
(* wait_for on a count that is already zero, unless the session that        *)
(* counted it down is about to notify.                                      *)
THEOREM DrainWakeup == Spec => []DrainWakesStop
  BY ServerInvariant, PTL DEF Inv, Discipline, Held

(* A session that stop()'s first pass did not see in a request does not     *)
(* wait for another one on an open connection once that pass is over.       *)
THEOREM IdleSessionsSwept == Spec => []IdleSwept
  BY ServerInvariant, PTL DEF Inv, Drain

(* Within the two waits of stop() nobody uses the worker pool or the        *)
(* runtime after they are gone, across any number of restarts.              *)
THEOREM NobodyStranded == Spec => []NotStranded
  BY ServerInvariant, PTL DEF Inv, Drain

(* started goes false only on an empty server, unless both waits ran out.   *)
THEOREM StopDrains == Spec => []DrainedAtEnd
  BY ServerInvariant, PTL DEF Inv, Drain

(* A request in progress when stop() begins keeps its open connection until *)
(* shutdown_timeout has run out.                                            *)
THEOREM GracefulShutdown == Spec => []GracefulDrain
  BY ServerInvariant, PTL DEF Inv, Drain
=============================================================================

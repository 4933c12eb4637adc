------------------------- MODULE BasicServerProofs -------------------------
(***************************************************************************)
(* Proofs about BasicServer for any numbers of calling threads, services   *)
(* and connections.  The inductive invariant is IInv; each of its parts    *)
(* has a lemma with one step per action.  Most parts speak only of the     *)
(* sockets and the services, and StepKinds names the actions that touch    *)
(* those, so their lemmas need not look at the others.                     *)
(***************************************************************************)
EXTENDS BasicServer, FiniteSetTheorems, WellFoundedInduction, TLAPS

\* A set of natural numbers that is not empty has a least element.
LEMMA NatLeast ==
  ASSUME NEW T, T \subseteq Nat, T # {}
  PROVE  \E x \in T : \A y \in T : x <= y
<1> DEFINE R == OpToRel(<, Nat)
<1>1. IsWellFoundedOn(R, Nat)
  BY NatLessThanWellFounded
<1>2. \A x, y \in Nat : x < y => <<x, y>> \in R
  BY DEF OpToRel
<1> HIDE DEF R
<1>3. PICK x \in T : \A y \in T : <<y, x>> \notin R
  BY <1>1, WFMin
<1>4. ASSUME NEW y \in T PROVE x <= y
  <2>1. x \in Nat /\ y \in Nat
    OBVIOUS
  <2>2. ~(y < x)
    BY <1>2, <1>3, <2>1
  <2> QED
    BY <2>1, <2>2
<1> QED
  BY <1>4

\* get_service (395-414) moves one thread on inside post_accept and changes nothing else but
\* the variables of the dispatch.
LEMMA GetServiceMoves ==
  ASSUME NEW t, GetService(t)
  PROVE  /\ UNCHANGED <<serverVars, serviceVars, arg, visiting, socketVars, fault>>
         /\ pc[t] \in Posting \ {"accept"}
         /\ pc' = pc \/ \E l \in Posting \ {"get"} : pc' = [pc EXCEPT ![t] = l]
         /\ at' = at \/ \E i : at' = [at EXCEPT ![t] = i]
BY DEF GetService, TestFlag, Decrement, ScanBegins, ScanFirst, ScanNext, ScanKeeps, ScanEnds, Pick,
       Goto, GetUnchanged, Posting

\* -- of a std::size_t (397) gives a std::size_t.
LEMMA LessType ==
  ASSUME NEW n \in 0..SizeMax
  PROVE  Less(n) \in 0..SizeMax
BY ServerAssumption DEF Less

\* What get_service reads and writes (395-414) are numbers, and _pos an index that exists.
LEMMA GetServiceType ==
  ASSUME IInv, NEW t \in Threads, GetService(t)
  PROVE  /\ flag' \in 0..SizeMax /\ pos' \in Nat \ {0}
         /\ held' \in [Threads -> Nat] /\ at' \in [Threads -> Nat \ {0}]
         /\ DispatchOK'
<1> USE ServerAssumption DEF IInv, TypeOK, DispatchOK, GetUnchanged, Goto, Size, serverVars, serviceVars
<1>0. pc \in [Threads -> Labels] /\ built \in Nat /\ \A i \in 1..built : i \in Services
  BY DEF Services
<1>1. CASE TestFlag(t)
  BY <1>0, <1>1 DEF TestFlag
<1>2. CASE Decrement(t)
  <2>1. held[t] \in 0..SizeMax /\ flag \in 0..SizeMax
    BY <1>2 DEF Decrement
  <2>2. flag' \in 0..SizeMax
    BY <1>2, <2>1, LessType DEF Decrement
  <2> QED
    BY <1>0, <1>2, <2>2 DEF Decrement
<1>3. CASE ScanBegins(t)
  <2>1. clients[pos] \in Nat
    BY <1>0, <1>3 DEF ScanBegins
  <2> QED
    BY <1>0, <1>3, <2>1 DEF ScanBegins
<1>4. CASE ScanFirst(t)
  BY <1>0, <1>4 DEF ScanFirst
<1>5. CASE ScanNext(t)
  <2>1. at[t] \in Nat \ {0} /\ at[t] \in 1..built /\ clients[at[t]] \in Nat
    BY <1>0, <1>5 DEF ScanNext
  <2> QED
    BY <1>0, <1>5, <2>1 DEF ScanNext
<1>6. CASE ScanKeeps(t)
  <2>1. at[t] \in 1..built /\ at[t] \in Nat \ {0}
    BY <1>0, <1>6 DEF ScanKeeps
  <2>2. /\ at' = [at EXCEPT ![t] = @ + 1] /\ pc' = [pc EXCEPT ![t] = "least"]
        /\ pos' = at[t] /\ UNCHANGED <<flag, held, built>>
    BY <1>6 DEF ScanKeeps
  <2>3. \A u \in Threads : pc'[u] \in {"accept", "keep"} => at'[u] \in 1..built
    BY <1>0, <2>1, <2>2
  <2>4. \A u \in Threads : pc'[u] = "take" => held'[u] \in 0..SizeMax
    BY <1>0, <2>1, <2>2
  <2>5. at' \in [Threads -> Nat \ {0}]
    BY <2>1, <2>2
  <2> QED
    BY <2>1, <2>2, <2>3, <2>4, <2>5
<1>7. CASE ScanEnds(t)
  <2>1. PollInit - 1 \in 0..SizeMax
    BY DEF PollInit
  <2> QED
    BY <1>0, <1>7, <2>1 DEF ScanEnds
<1>8. CASE Pick(t)
  <2>1. pos \in 1..built /\ pos \in Nat \ {0}
    BY <1>0, <1>8 DEF Pick
  <2>2. at' = [at EXCEPT ![t] = pos] /\ pc' = [pc EXCEPT ![t] = "accept"] /\ UNCHANGED <<flag, pos, held, built>>
    BY <1>8 DEF Pick, dispatchVars
  <2>3. \A u \in Threads : pc'[u] \in {"accept", "keep"} => at'[u] \in 1..built
    BY <1>0, <2>1, <2>2
  <2>4. \A u \in Threads : pc'[u] = "take" => held'[u] \in 0..SizeMax
    BY <1>0, <2>1, <2>2
  <2> QED
    BY <2>1, <2>2, <2>3, <2>4
<1> QED
  BY <1>1, <1>2, <1>3, <1>4, <1>5, <1>6, <1>7, <1>8 DEF GetService

\* ++clients and --clients keep the counters natural numbers.
LEMMA CountType ==
  ASSUME clients \in [Services -> Nat], NEW k \in Sockets
  PROVE  /\ CountIn(k) => clients' \in [Services -> Nat]
         /\ clients[home[k]] \in Nat \ {0} /\ CountOut(k) => clients' \in [Services -> Nat]
<1>1. ASSUME CountIn(k) PROVE clients' \in [Services -> Nat]
  <2>1. \A i \in Services : clients[i] \in Nat /\ clients[i] + 1 \in Nat
    OBVIOUS
  <2> QED
    BY <1>1, <2>1, Zenon DEF CountIn
<1>2. ASSUME clients[home[k]] \in Nat \ {0}, CountOut(k) PROVE clients' \in [Services -> Nat]
  <2>1. \A i \in Services : clients[i] \in Nat
    OBVIOUS
  <2>2. clients[home[k]] - 1 \in Nat
    BY <1>2
  <2> QED
    BY <1>2, <2>1, <2>2, Zenon DEF CountOut
<1> QED
  BY <1>1, <1>2

\* A live coroutine is counted: its service has at least one client.
LEMMA LiveCounted ==
  ASSUME IInv, NEW k \in Sockets, co[k] \in Live
  PROVE  home[k] \in Services /\ clients[home[k]] \in Nat \ {0}
<1> DEFINE at_home == {j \in Sockets : home[j] = home[k] /\ co[j] \in Live}
<1>1. home[k] \in Services
  BY ServerAssumption DEF IInv, TypeOK, SocketsOK, Live, Services
<1>2. clients[home[k]] = Cardinality(at_home)
  BY <1>1 DEF IInv, ClientsExact
<1>3. IsFiniteSet(at_home) /\ at_home # {}
  BY ServerAssumption, FS_Subset
<1>4. Cardinality(at_home) # 0
  BY <1>3, FS_EmptySet
<1> QED
  BY <1>1, <1>2, <1>4 DEF IInv, TypeOK

\* The end of a connection keeps the types: its count is not yet given back.
LEMMA LeaveType ==
  ASSUME IInv, NEW k \in Sockets, co[k] \in Live, Leave(k)
  PROVE  TypeOK'
<1> USE DEF IInv, TypeOK, CoState, Queued, Live, serverVars, dispatchVars, serviceVars, threadVars, socketVars
<1>1. clients' \in [Services -> Nat]
  BY LiveCounted, CountType DEF Leave
<1>2. co' \in [Sockets -> CoState] /\ open' \in [Sockets -> BOOLEAN] /\ timer' \in [Sockets -> BOOLEAN]
  BY DEF Leave, CancelTimer
<1>3. fired' \in [Sockets -> {"no", "due", "stale"}]
  BY DEF Leave, CancelTimer
<1>4. tracked' \in [Services -> SUBSET Sockets]
  BY DEF Leave, Erase
<1>5. visiting' \in [Callers -> SUBSET Sockets]
  BY DEF Leave
<1> QED
  BY <1>1, <1>2, <1>3, <1>4, <1>5 DEF Leave

\* Every step keeps TypeOK.
LEMMA TypeStep ==
  ASSUME IInv, [Next]_vars
  PROVE  TypeOK'
<1> USE ServerAssumption
<1> USE DEF IInv, TypeOK, Goto, Threads, Labels, Posting, InRun, InStop, InHandler, CoState, Queued, Live,
            serverVars, dispatchVars, serviceVars, threadVars, socketVars
<1>1. ASSUME NEW t \in Threads, GetService(t) PROVE TypeOK'
  BY GetServiceMoves, GetServiceType, <1>1 DEF Posting
<1>2. ASSUME NEW t \in Threads, AsyncAccept(t) PROVE TypeOK'
  BY <1>2 DEF AsyncAccept, Unused
<1>3. ASSUME NEW t \in Threads, AcceptThrows(t) PROVE TypeOK'
  BY <1>3 DEF AcceptThrows
<1>4. ASSUME NEW t \in Threads, UseBadHandle(t) PROVE TypeOK'
  BY <1>4 DEF UseBadHandle, Die
<1>5. ASSUME NEW t \in Callers, SetRun(t) PROVE TypeOK'
  BY <1>5 DEF SetRun
<1>6. ASSUME NEW t \in Callers, MakeThread(t) PROVE TypeOK'
  BY <1>6 DEF MakeThread
<1>7. ASSUME NEW t \in Callers, MakeThreadFails(t) PROVE TypeOK'
  BY <1>7 DEF MakeThreadFails
<1>8. ASSUME NEW t \in Callers, ClearRun(t) PROVE TypeOK'
  BY <1>8 DEF ClearRun
<1>9. ASSUME NEW t \in Callers, TestHandle(t) PROVE TypeOK'
  BY <1>9 DEF TestHandle
<1>10. ASSUME NEW t \in Callers, CancelAcceptor(t) PROVE TypeOK'
  BY <1>10 DEF CancelAcceptor
<1>11. ASSUME NEW t \in Callers, HaltService(t) PROVE TypeOK'
  BY <1>11 DEF HaltService, Release
<1>12. ASSUME NEW t \in Callers, BeginServices(t) PROVE TypeOK'
  BY <1>12 DEF BeginServices
<1>13. ASSUME NEW t \in Callers, ResetWork(t) PROVE TypeOK'
  <2>1. tracked[at[t]] \in SUBSET Sockets /\ work' \in [Services -> BOOLEAN]
    BY <1>13 DEF ResetWork, LoopsOK, Services
  <2>2. visiting' \in [Callers -> SUBSET Sockets]
    BY <2>1, <1>13 DEF ResetWork
  <2> QED
    BY <2>1, <2>2, <1>13 DEF ResetWork
<1>14. ASSUME NEW t \in Callers, CloseOne(t) PROVE TypeOK'
  BY <1>14 DEF CloseOne, Close
<1>15. ASSUME NEW t \in Callers, ClearClients(t) PROVE TypeOK'
  BY <1>15 DEF ClearClients
<1>16. ASSUME NEW t \in Callers, JoinWorker(t) PROVE TypeOK'
  <2>1. worker' \in [Services -> {"running", "exited", "joined"}]
    BY <1>16 DEF JoinWorker
  <2>2. at' \in [Threads -> Nat \ {0}] /\ pc' \in [Threads -> Labels]
    BY <1>16 DEF JoinWorker
  <2> QED
    BY <2>1, <2>2, <1>16 DEF JoinWorker
<1>17. ASSUME NEW t \in Callers, ClearServices(t) PROVE TypeOK'
  BY <1>17 DEF ClearServices
<1>18. ASSUME NEW t \in Callers, TestThread(t) PROVE TypeOK'
  BY <1>18 DEF TestThread, After
<1>19. ASSUME NEW t \in Callers, JoinThread(t) PROVE TypeOK'
  BY <1>19 DEF JoinThread, After
<1>20. ASSUME NEW t \in Callers, DestroyMembers(t) PROVE TypeOK'
  BY ZenonT(40), <1>20 DEF DestroyMembers
<1>21. ASSUME NEW t \in Callers, JoinReturn(t) PROVE TypeOK'
  BY <1>21 DEF JoinReturn
<1>22. ASSUME NEW t \in Callers, RunCheck(t) PROVE TypeOK'
  BY <1>22 DEF RunCheck
<1>23. ASSUME NEW t \in Callers, StopCheck(t) PROVE TypeOK'
  BY <1>23 DEF StopCheck
<1>24. ASSUME NEW t \in Callers, JoinCall(t) PROVE TypeOK'
  BY <1>24 DEF JoinCall
<1>25. ASSUME NEW t \in Callers, Destroy(t) PROVE TypeOK'
  BY <1>25 DEF Destroy
<1>26. ASSUME NEW a \in Acceptors, HandlerStart(a) PROVE TypeOK'
  <2> PICK k \in Sockets :
         /\ \/ acceptor /\ co' = [co EXCEPT ![k] = "accepted"] /\ open' = [open EXCEPT ![k] = TRUE]
            \/ co' = [co EXCEPT ![k] = "failed"] /\ open' = open
         /\ arg' = [arg EXCEPT ![a] = k]
    BY <1>26 DEF HandlerStart
  <2>1. co' \in [Sockets -> CoState]
    OBVIOUS
  <2>2. open' \in [Sockets -> BOOLEAN]
    OBVIOUS
  <2>3. arg' \in [Threads -> Acceptors \cup Sockets \cup {None}] /\ pc' \in [Threads -> Labels]
    BY <1>26 DEF HandlerStart
  <2> QED
    BY <2>1, <2>2, <2>3, <1>26 DEF HandlerStart
<1>27. ASSUME NEW a \in Acceptors, CheckRun(a) PROVE TypeOK'
  <2>1. co' \in [Sockets -> CoState]
    BY <1>27 DEF CheckRun, PostNext, DropSocket
  <2>3. open' \in [Sockets -> BOOLEAN]
    BY <1>27 DEF CheckRun, PostNext, DropSocket
  <2>2. arg' \in [Threads -> Acceptors \cup Sockets \cup {None}] /\ pc' \in [Threads -> Labels]
    BY <1>27 DEF CheckRun, PostNext, DropSocket
  <2> QED
    BY <2>1, <2>2, <2>3, <1>27 DEF CheckRun
<1>28. ASSUME NEW a \in Acceptors, Spawn(a) PROVE TypeOK'
  <2>1. co' \in [Sockets -> CoState]
    BY <1>28 DEF Spawn, DropSocket, Failed
  <2>3. open' \in [Sockets -> BOOLEAN]
    BY <1>28 DEF Spawn, DropSocket, Failed
  <2>2. arg' \in [Threads -> Acceptors \cup Sockets \cup {None}] /\ pc' \in [Threads -> Labels]
    BY <1>28 DEF Spawn, DropSocket, Failed
  <2> QED
    BY <2>1, <2>2, <2>3, <1>28 DEF Spawn
<1>29. ASSUME NEW a \in Acceptors, AcceptorExit(a) PROVE TypeOK'
  BY <1>29 DEF AcceptorExit, Release
<1>30. ASSUME NEW a \in Acceptors, UseAfterDestroy(a) PROVE TypeOK'
  BY <1>30 DEF UseAfterDestroy, Die
<1>31. ASSUME NEW k \in Sockets, CoStart(k) PROVE TypeOK'
  <2>1. co' \in [Sockets -> CoState] /\ tracked' \in [Services -> SUBSET Sockets]
    BY <1>31 DEF CoStart
  <2>2. clients' \in [Services -> Nat]
    BY CountType, <1>31 DEF CoStart
  <2>3. visiting' \in [Callers -> SUBSET Sockets]
    BY <1>31 DEF CoStart
  <2> QED
    BY <2>1, <2>2, <2>3, <1>31 DEF CoStart
<1>32. ASSUME NEW k \in Sockets, StartRead(k) PROVE TypeOK'
  BY <1>32 DEF StartRead
<1>33. ASSUME NEW k \in Sockets, Refused(k) PROVE TypeOK'
  BY LeaveType, <1>33 DEF Refused
<1>34. ASSUME NEW k \in Sockets, Resume(k) PROVE TypeOK'
  BY <1>34 DEF Resume, CancelTimer
<1>35. ASSUME NEW k \in Sockets, ReadAborted(k) PROVE TypeOK'
  BY LeaveType, <1>35 DEF ReadAborted
<1>36. ASSUME NEW k \in Sockets, CoEnd(k) PROVE TypeOK'
  BY <1>36 DEF CoEnd
<1>37. ASSUME NEW k \in Sockets, ReadCompletes(k) PROVE TypeOK'
  BY <1>37 DEF ReadCompletes
<1>38. ASSUME NEW k \in Sockets, PeerCloses(k) PROVE TypeOK'
  BY LeaveType, <1>38 DEF PeerCloses
<1>39. ASSUME NEW k \in Sockets, TimerExpires(k) PROVE TypeOK'
  BY <1>39 DEF TimerExpires
<1>40. ASSUME NEW k \in Sockets, HandlerTimer(k) PROVE TypeOK'
  BY <1>40 DEF HandlerTimer
<1>41. ASSUME NEW k \in Sockets, RacingClear(k) PROVE TypeOK'
  BY <1>41 DEF RacingClear, Die
<1>42. ASSUME NEW i \in Services, WorkerExit(i) PROVE TypeOK'
  BY <1>42 DEF WorkerExit
<1>43. CASE UNCHANGED vars
  BY <1>43 DEF vars
<1> HIDE DEF IInv, TypeOK, Goto, Threads, Labels, Posting, InRun, InStop, InHandler, CoState, Queued, Live,
            serverVars, dispatchVars, serviceVars, threadVars, socketVars
<1> QED
  BY <1>1, <1>2, <1>3, <1>4, <1>5, <1>6, <1>7, <1>8, <1>9, <1>10, <1>11, <1>12, <1>13, <1>14, <1>15,
     <1>16, <1>17, <1>18, <1>19, <1>20, <1>21, <1>22, <1>23, <1>24, <1>25, <1>26, <1>27, <1>28,
     <1>29, <1>30, <1>31, <1>32, <1>33, <1>34, <1>35, <1>36, <1>37, <1>38, <1>39, <1>40, <1>41,
     <1>42, <1>43 DEF Next, Call, CallStep, HandlerStep, CoStep, Network, Threads

\* The actions that touch sockets or services; every other step leaves both alone.
LEMMA StepKinds ==
  ASSUME [Next]_vars
  PROVE  \/ UNCHANGED <<serviceVars, co, home, timer, fired, built>>
         \/ \E t \in Threads : AsyncAccept(t)
         \/ \E t \in Callers : HaltService(t)
         \/ \E a \in Acceptors : HandlerStart(a)
         \/ \E a \in Acceptors : CheckRun(a)
         \/ \E a \in Acceptors : Spawn(a)
         \/ \E a \in Acceptors : AcceptorExit(a)
         \/ \E k \in Sockets : CoStart(k)
         \/ \E k \in Sockets : StartRead(k)
         \/ \E k \in Sockets : Refused(k)
         \/ \E k \in Sockets : Resume(k)
         \/ \E k \in Sockets : ReadAborted(k)
         \/ \E k \in Sockets : CoEnd(k)
         \/ \E k \in Sockets : ReadCompletes(k)
         \/ \E k \in Sockets : PeerCloses(k)
         \/ \E k \in Sockets : TimerExpires(k)
         \/ \E k \in Sockets : HandlerTimer(k)
         \/ \E i \in Services : WorkerExit(i)
         \/ \E t \in Callers : ResetWork(t)
         \/ \E t \in Callers : ClearClients(t)
         \/ \E t \in Callers : JoinWorker(t)
<1> DEFINE Plain == UNCHANGED <<serviceVars, co, home, timer, fired, built>>
<1> USE DEF Goto, serverVars, dispatchVars, serviceVars, threadVars, socketVars
<1>1. ASSUME NEW t \in Threads, GetService(t) PROVE Plain
  BY GetServiceMoves, <1>1 DEF Posting
<1>2. ASSUME NEW t \in Threads, AcceptThrows(t) PROVE Plain
  BY <1>2 DEF AcceptThrows
<1>3. ASSUME NEW t \in Threads, UseBadHandle(t) PROVE Plain
  BY <1>3 DEF UseBadHandle, Die
<1>4. ASSUME NEW t \in Callers, SetRun(t) PROVE Plain
  BY <1>4 DEF SetRun
<1>5. ASSUME NEW t \in Callers, MakeThread(t) PROVE Plain
  BY <1>5 DEF MakeThread
<1>6. ASSUME NEW t \in Callers, MakeThreadFails(t) PROVE Plain
  BY <1>6 DEF MakeThreadFails
<1>7. ASSUME NEW t \in Callers, ClearRun(t) PROVE Plain
  BY <1>7 DEF ClearRun
<1>8. ASSUME NEW t \in Callers, TestHandle(t) PROVE Plain
  BY <1>8 DEF TestHandle
<1>9. ASSUME NEW t \in Callers, CancelAcceptor(t) PROVE Plain
  BY <1>9 DEF CancelAcceptor
<1>10. ASSUME NEW t \in Callers, BeginServices(t) PROVE Plain
  BY <1>10 DEF BeginServices
<1>11. ASSUME NEW t \in Callers, CloseOne(t) PROVE Plain
  BY <1>11 DEF CloseOne, Close
<1>12. ASSUME NEW t \in Callers, ClearServices(t) PROVE Plain
  BY <1>12 DEF ClearServices
<1>13. ASSUME NEW t \in Callers, TestThread(t) PROVE Plain
  BY <1>13 DEF TestThread, After
<1>14. ASSUME NEW t \in Callers, JoinThread(t) PROVE Plain
  BY <1>14 DEF JoinThread, After
<1>15. ASSUME NEW t \in Callers, DestroyMembers(t) PROVE Plain
  BY <1>15 DEF DestroyMembers
<1>16. ASSUME NEW t \in Callers, JoinReturn(t) PROVE Plain
  BY <1>16 DEF JoinReturn
<1>17. ASSUME NEW t \in Callers, RunCheck(t) PROVE Plain
  BY <1>17 DEF RunCheck
<1>18. ASSUME NEW t \in Callers, StopCheck(t) PROVE Plain
  BY <1>18 DEF StopCheck
<1>19. ASSUME NEW t \in Callers, JoinCall(t) PROVE Plain
  BY <1>19 DEF JoinCall
<1>20. ASSUME NEW t \in Callers, Destroy(t) PROVE Plain
  BY <1>20 DEF Destroy
<1>21. ASSUME NEW a \in Acceptors, UseAfterDestroy(a) PROVE Plain
  BY <1>21 DEF UseAfterDestroy, Die
<1>22. ASSUME NEW k \in Sockets, RacingClear(k) PROVE Plain
  BY <1>22 DEF RacingClear, Die
<1>23. CASE UNCHANGED vars
  BY <1>23 DEF vars
<1> HIDE DEF Plain
<1> QED
  BY <1>1, <1>2, <1>3, <1>4, <1>5, <1>6, <1>7, <1>8, <1>9, <1>10, <1>11, <1>12, <1>13, <1>14, <1>15,
     <1>16, <1>17, <1>18, <1>19, <1>20, <1>21, <1>22, <1>23 DEF Next, Call, CallStep, HandlerStep,
     CoStep, Network, Threads, Plain

\* Every step keeps SocketsOK.
LEMMA SocketsStep ==
  ASSUME IInv, [Next]_vars
  PROVE  SocketsOK'
<1> USE ServerAssumption
<1> USE DEF IInv, TypeOK, SocketsOK, Goto, CoState, Queued, Live, serverVars, dispatchVars, serviceVars, threadVars, socketVars
<1>1. ASSUME NEW t \in Threads, AsyncAccept(t) PROVE SocketsOK'
  <2>1. at[t] \in 1..built
    BY <1>1 DEF AsyncAccept, DispatchOK
  <2> QED
    BY <2>1, <1>1 DEF AsyncAccept, Unused
<1>2. ASSUME NEW t \in Callers, HaltService(t) PROVE SocketsOK'
  BY <1>2 DEF HaltService, Release
<1>3. ASSUME NEW a \in Acceptors, HandlerStart(a) PROVE SocketsOK'
  BY <1>3 DEF HandlerStart
<1>4. ASSUME NEW a \in Acceptors, CheckRun(a) PROVE SocketsOK'
  BY <1>4 DEF CheckRun, PostNext, DropSocket, HandlersOK, InHandler
<1>5. ASSUME NEW a \in Acceptors, Spawn(a) PROVE SocketsOK'
  BY <1>5 DEF Spawn, Failed, DropSocket, HandlersOK, InHandler
<1>6. ASSUME NEW a \in Acceptors, AcceptorExit(a) PROVE SocketsOK'
  BY <1>6 DEF AcceptorExit, Release
<1>7. ASSUME NEW k \in Sockets, CoStart(k) PROVE SocketsOK'
  BY <1>7 DEF CoStart, CountIn
<1>8. ASSUME NEW k \in Sockets, StartRead(k) PROVE SocketsOK'
  BY <1>8 DEF StartRead
<1>9. ASSUME NEW k \in Sockets, Refused(k) PROVE SocketsOK'
  BY <1>9 DEF Refused, Leave, CountOut, Erase, CancelTimer
<1>10. ASSUME NEW k \in Sockets, Resume(k) PROVE SocketsOK'
  BY <1>10 DEF Resume, CancelTimer
<1>11. ASSUME NEW k \in Sockets, ReadAborted(k) PROVE SocketsOK'
  BY <1>11 DEF ReadAborted, Leave, CountOut, Erase, CancelTimer
<1>12. ASSUME NEW k \in Sockets, CoEnd(k) PROVE SocketsOK'
  BY <1>12 DEF CoEnd
<1>13. ASSUME NEW k \in Sockets, ReadCompletes(k) PROVE SocketsOK'
  BY <1>13 DEF ReadCompletes
<1>14. ASSUME NEW k \in Sockets, PeerCloses(k) PROVE SocketsOK'
  BY <1>14 DEF PeerCloses, Leave, CountOut, Erase, CancelTimer
<1>15. ASSUME NEW k \in Sockets, TimerExpires(k) PROVE SocketsOK'
  BY <1>15 DEF TimerExpires
<1>16. ASSUME NEW k \in Sockets, HandlerTimer(k) PROVE SocketsOK'
  BY <1>16 DEF HandlerTimer
<1>17. ASSUME NEW i \in Services, WorkerExit(i) PROVE SocketsOK'
  BY <1>17 DEF WorkerExit
<1>18. ASSUME NEW t \in Callers, ResetWork(t) PROVE SocketsOK'
  BY <1>18 DEF ResetWork
<1>19. ASSUME NEW t \in Callers, ClearClients(t) PROVE SocketsOK'
  BY <1>19 DEF ClearClients
<1>20. ASSUME NEW t \in Callers, JoinWorker(t) PROVE SocketsOK'
  BY <1>20 DEF JoinWorker
<1>21. CASE UNCHANGED <<serviceVars, co, home, timer, fired, built>>
  BY <1>21
<1> QED
  BY StepKinds, <1>1, <1>2, <1>3, <1>4, <1>5, <1>6, <1>7, <1>8, <1>9, <1>10, <1>11, <1>12, <1>13,
     <1>14, <1>15, <1>16, <1>17, <1>18, <1>19, <1>20, <1>21

\* Every step keeps Registered.
LEMMA RegisteredStep ==
  ASSUME IInv, [Next]_vars
  PROVE  Registered'
<1> USE ServerAssumption
<1> USE DEF IInv, TypeOK, SocketsOK, Registered, Goto, CoState, Queued, Live, serverVars, dispatchVars, serviceVars, threadVars, socketVars
<1>1. ASSUME NEW t \in Threads, AsyncAccept(t) PROVE Registered'
  BY <1>1 DEF AsyncAccept, Unused
<1>2. ASSUME NEW t \in Callers, HaltService(t) PROVE Registered'
  BY <1>2 DEF HaltService, Release
<1>3. ASSUME NEW a \in Acceptors, HandlerStart(a) PROVE Registered'
  BY SMTT(40), <1>3 DEF HandlerStart
<1>4. ASSUME NEW a \in Acceptors, CheckRun(a) PROVE Registered'
  BY <1>4 DEF CheckRun, PostNext, DropSocket, HandlersOK, InHandler
<1>5. ASSUME NEW a \in Acceptors, Spawn(a) PROVE Registered'
  <2>1. arg[a] \in Sockets /\ co[arg[a]] \notin Live
    BY <1>5 DEF Spawn, HandlersOK, InHandler
  <2>2. /\ \/ co' = [co EXCEPT ![arg[a]] = "free"]
           \/ co' = [co EXCEPT ![arg[a]] = "spawned"]
        /\ tracked' = tracked /\ work' = work /\ home' = home
    BY <1>5 DEF Spawn, DropSocket
  <2>3. \A k \in Sockets : co'[k] \in Live => co[k] \in Live /\ k # arg[a]
    BY <2>1, <2>2
  <2>4. \A k \in Sockets : co[k] \in Live => co'[k] \in Live
    BY <2>1, <2>2
  <2>5. \A i \in Services : tracked[i] \subseteq Sockets
    OBVIOUS
  <2> QED
    BY <2>2, <2>3, <2>4, <2>5 DEF Registered
<1>6. ASSUME NEW a \in Acceptors, AcceptorExit(a) PROVE Registered'
  BY SMTT(40), <1>6 DEF AcceptorExit, Release
<1>7. ASSUME NEW k \in Sockets, CoStart(k) PROVE Registered'
  <2>1. home[k] \in Services
    BY <1>7, ServerAssumption DEF CoStart, Services
  <2>2. tracked' = [tracked EXCEPT ![home[k]] = @ \cup {k}] /\ co' = [co EXCEPT ![k] = "connecting"]
    BY <1>7 DEF CoStart
  <2>3. home' = home /\ work' = work
    BY <1>7 DEF CoStart
  <2>4. \A i \in Services : \A j \in tracked'[i] : home[j] = i /\ co'[j] \in Live
    BY <2>1, <2>2
  <2>5. \A j \in Sockets : co'[j] \in Live /\ work[home[j]] => j \in tracked'[home[j]]
    <3> SUFFICES ASSUME NEW j \in Sockets, co'[j] \in Live, work[home[j]] PROVE j \in tracked'[home[j]]
      OBVIOUS
    <3>1. CASE j = k
      BY <2>1, <2>2, <3>1
    <3>2. CASE j # k
      <4>1. co[j] \in Live /\ j \in tracked[home[j]] /\ home[j] \in Services
        BY <2>2, <3>2, ServerAssumption DEF Services
      <4> QED
        BY <2>1, <2>2, <4>1
    <3> QED
      BY <3>1, <3>2
  <2> QED
    BY <2>3, <2>4, <2>5
<1>8. ASSUME NEW k \in Sockets, StartRead(k) PROVE Registered'
  BY <1>8 DEF StartRead
<1>9. ASSUME NEW k \in Sockets, Refused(k) PROVE Registered'
  BY <1>9 DEF Refused, Leave, CountOut, Erase, CancelTimer
<1>10. ASSUME NEW k \in Sockets, Resume(k) PROVE Registered'
  BY <1>10 DEF Resume, CancelTimer
<1>11. ASSUME NEW k \in Sockets, ReadAborted(k) PROVE Registered'
  BY <1>11 DEF ReadAborted, Leave, CountOut, Erase, CancelTimer
<1>12. ASSUME NEW k \in Sockets, CoEnd(k) PROVE Registered'
  BY <1>12 DEF CoEnd
<1>13. ASSUME NEW k \in Sockets, ReadCompletes(k) PROVE Registered'
  BY <1>13 DEF ReadCompletes
<1>14. ASSUME NEW k \in Sockets, PeerCloses(k) PROVE Registered'
  BY <1>14 DEF PeerCloses, Leave, CountOut, Erase, CancelTimer
<1>15. ASSUME NEW k \in Sockets, TimerExpires(k) PROVE Registered'
  BY <1>15 DEF TimerExpires
<1>16. ASSUME NEW k \in Sockets, HandlerTimer(k) PROVE Registered'
  BY <1>16 DEF HandlerTimer
<1>17. ASSUME NEW i \in Services, WorkerExit(i) PROVE Registered'
  BY <1>17 DEF WorkerExit
<1>18. ASSUME NEW t \in Callers, ResetWork(t) PROVE Registered'
  BY <1>18 DEF ResetWork
<1>19. ASSUME NEW t \in Callers, ClearClients(t) PROVE Registered'
  BY <1>19 DEF ClearClients, LoopsOK
<1>20. ASSUME NEW t \in Callers, JoinWorker(t) PROVE Registered'
  BY <1>20 DEF JoinWorker
<1>21. CASE UNCHANGED <<serviceVars, co, home, timer, fired, built>>
  BY <1>21
<1> QED
  BY StepKinds, <1>1, <1>2, <1>3, <1>4, <1>5, <1>6, <1>7, <1>8, <1>9, <1>10, <1>11, <1>12, <1>13,
     <1>14, <1>15, <1>16, <1>17, <1>18, <1>19, <1>20, <1>21

\* Every step keeps WorkersDrained.
LEMMA DrainedStep ==
  ASSUME IInv, [Next]_vars
  PROVE  WorkersDrained'
<1> USE ServerAssumption
<1> USE DEF IInv, TypeOK, SocketsOK, WorkersDrained, Serving, Goto, CoState, Queued, Live, serverVars, dispatchVars, serviceVars, threadVars, socketVars
<1>1. ASSUME NEW t \in Threads, AsyncAccept(t) PROVE WorkersDrained'
  BY <1>1 DEF AsyncAccept, Unused
<1>2. ASSUME NEW t \in Callers, HaltService(t) PROVE WorkersDrained'
  BY <1>2 DEF HaltService, Release
<1>3. ASSUME NEW a \in Acceptors, HandlerStart(a) PROVE WorkersDrained'
  BY <1>3 DEF HandlerStart
<1>4. ASSUME NEW a \in Acceptors, CheckRun(a) PROVE WorkersDrained'
  BY <1>4 DEF CheckRun, PostNext, DropSocket
<1>5. ASSUME NEW a \in Acceptors, Spawn(a) PROVE WorkersDrained'
  BY <1>5 DEF Spawn, DropSocket, Failed
<1>6. ASSUME NEW a \in Acceptors, AcceptorExit(a) PROVE WorkersDrained'
  BY <1>6 DEF AcceptorExit, Release
<1>7. ASSUME NEW k \in Sockets, CoStart(k) PROVE WorkersDrained'
  BY <1>7 DEF CoStart, CountIn
<1>8. ASSUME NEW k \in Sockets, StartRead(k) PROVE WorkersDrained'
  BY <1>8 DEF StartRead
<1>9. ASSUME NEW k \in Sockets, Refused(k) PROVE WorkersDrained'
  BY <1>9 DEF Refused, Leave, CountOut, Erase, CancelTimer
<1>10. ASSUME NEW k \in Sockets, Resume(k) PROVE WorkersDrained'
  BY <1>10 DEF Resume, CancelTimer
<1>11. ASSUME NEW k \in Sockets, ReadAborted(k) PROVE WorkersDrained'
  BY <1>11 DEF ReadAborted, Leave, CountOut, Erase, CancelTimer
<1>12. ASSUME NEW k \in Sockets, CoEnd(k) PROVE WorkersDrained'
  BY <1>12 DEF CoEnd
<1>13. ASSUME NEW k \in Sockets, ReadCompletes(k) PROVE WorkersDrained'
  BY <1>13 DEF ReadCompletes
<1>14. ASSUME NEW k \in Sockets, PeerCloses(k) PROVE WorkersDrained'
  BY <1>14 DEF PeerCloses, Leave, CountOut, Erase, CancelTimer
<1>15. ASSUME NEW k \in Sockets, TimerExpires(k) PROVE WorkersDrained'
  BY <1>15 DEF TimerExpires
<1>16. ASSUME NEW k \in Sockets, HandlerTimer(k) PROVE WorkersDrained'
  BY <1>16 DEF HandlerTimer
<1>17. ASSUME NEW i \in Services, WorkerExit(i) PROVE WorkersDrained'
  BY <1>17 DEF WorkerExit
<1>18. ASSUME NEW t \in Callers, ResetWork(t) PROVE WorkersDrained'
  BY <1>18 DEF ResetWork
<1>19. ASSUME NEW t \in Callers, ClearClients(t) PROVE WorkersDrained'
  BY <1>19 DEF ClearClients
<1>20. ASSUME NEW t \in Callers, JoinWorker(t) PROVE WorkersDrained'
  BY <1>20 DEF JoinWorker
<1>21. CASE UNCHANGED <<serviceVars, co, home, timer, fired, built>>
  BY <1>21
<1> QED
  BY StepKinds, <1>1, <1>2, <1>3, <1>4, <1>5, <1>6, <1>7, <1>8, <1>9, <1>10, <1>11, <1>12, <1>13,
     <1>14, <1>15, <1>16, <1>17, <1>18, <1>19, <1>20, <1>21

\* Every step keeps ListedOK.
LEMMA ListedStep ==
  ASSUME IInv, [Next]_vars
  PROVE  ListedOK'
<1> USE ServerAssumption
<1> USE DEF IInv, TypeOK, ListedOK, LoopsOK, Goto, Size, serverVars, dispatchVars, serviceVars, threadVars, socketVars
<1>1. ASSUME NEW t \in Threads, GetService(t) PROVE ListedOK'
  BY GetServiceMoves, <1>1 DEF Posting
<1>2. ASSUME NEW t \in Threads, AsyncAccept(t) PROVE ListedOK'
  BY <1>2 DEF AsyncAccept, Unused
<1>3. ASSUME NEW t \in Threads, AcceptThrows(t) PROVE ListedOK'
  BY <1>3 DEF AcceptThrows
<1>4. ASSUME NEW t \in Threads, UseBadHandle(t) PROVE ListedOK'
  BY <1>4 DEF UseBadHandle, Die
<1>5. ASSUME NEW t \in Callers, SetRun(t) PROVE ListedOK'
  BY <1>5 DEF SetRun
<1>6. ASSUME NEW t \in Callers, MakeThread(t) PROVE ListedOK'
  BY <1>6 DEF MakeThread
<1>7. ASSUME NEW t \in Callers, MakeThreadFails(t) PROVE ListedOK'
  BY <1>7 DEF MakeThreadFails
<1>8. ASSUME NEW t \in Callers, ClearRun(t) PROVE ListedOK'
  BY <1>8 DEF ClearRun
<1>9. ASSUME NEW t \in Callers, TestHandle(t) PROVE ListedOK'
  BY <1>9 DEF TestHandle
<1>10. ASSUME NEW t \in Callers, CancelAcceptor(t) PROVE ListedOK'
  BY <1>10 DEF CancelAcceptor
<1>11. ASSUME NEW t \in Callers, HaltService(t) PROVE ListedOK'
  BY <1>11 DEF HaltService, Release
<1>12. ASSUME NEW t \in Callers, BeginServices(t) PROVE ListedOK'
  BY <1>12 DEF BeginServices
<1>13. ASSUME NEW t \in Callers, ResetWork(t) PROVE ListedOK'
  BY <1>13 DEF ResetWork
<1>14. ASSUME NEW t \in Callers, CloseOne(t) PROVE ListedOK'
  BY <1>14 DEF CloseOne, Close
<1>15. ASSUME NEW t \in Callers, ClearClients(t) PROVE ListedOK'
  BY <1>15 DEF ClearClients
<1>16. ASSUME NEW t \in Callers, JoinWorker(t) PROVE ListedOK'
  BY <1>16 DEF JoinWorker
<1>17. ASSUME NEW t \in Callers, ClearServices(t) PROVE ListedOK'
  BY <1>17 DEF ClearServices
<1>18. ASSUME NEW t \in Callers, TestThread(t) PROVE ListedOK'
  BY <1>18 DEF TestThread, After
<1>19. ASSUME NEW t \in Callers, JoinThread(t) PROVE ListedOK'
  BY <1>19 DEF JoinThread, After
<1>20. ASSUME NEW t \in Callers, DestroyMembers(t) PROVE ListedOK'
  <2>1. CASE Size > 0
    BY <2>1, <1>20 DEF DestroyMembers
  <2>2. CASE Size = 0
    BY <2>2, <1>20 DEF DestroyMembers, Services
  <2> QED
    BY <2>1, <2>2, <1>20 DEF DestroyMembers
<1>21. ASSUME NEW t \in Callers, JoinReturn(t) PROVE ListedOK'
  BY <1>21 DEF JoinReturn
<1>22. ASSUME NEW t \in Callers, RunCheck(t) PROVE ListedOK'
  BY <1>22 DEF RunCheck
<1>23. ASSUME NEW t \in Callers, StopCheck(t) PROVE ListedOK'
  BY <1>23 DEF StopCheck
<1>24. ASSUME NEW t \in Callers, JoinCall(t) PROVE ListedOK'
  BY <1>24 DEF JoinCall
<1>25. ASSUME NEW t \in Callers, Destroy(t) PROVE ListedOK'
  BY <1>25 DEF Destroy
<1>26. ASSUME NEW a \in Acceptors, HandlerStart(a) PROVE ListedOK'
  BY <1>26 DEF HandlerStart
<1>27. ASSUME NEW a \in Acceptors, CheckRun(a) PROVE ListedOK'
  BY <1>27 DEF CheckRun, PostNext, DropSocket
<1>28. ASSUME NEW a \in Acceptors, Spawn(a) PROVE ListedOK'
  BY <1>28 DEF Spawn, DropSocket, Failed
<1>29. ASSUME NEW a \in Acceptors, AcceptorExit(a) PROVE ListedOK'
  BY <1>29 DEF AcceptorExit, Release
<1>30. ASSUME NEW a \in Acceptors, UseAfterDestroy(a) PROVE ListedOK'
  BY <1>30 DEF UseAfterDestroy, Die
<1>31. ASSUME NEW k \in Sockets, CoStart(k) PROVE ListedOK'
  BY <1>31 DEF CoStart, CountIn
<1>32. ASSUME NEW k \in Sockets, StartRead(k) PROVE ListedOK'
  BY <1>32 DEF StartRead
<1>33. ASSUME NEW k \in Sockets, Refused(k) PROVE ListedOK'
  BY <1>33 DEF Refused, Leave, CountOut, Erase, CancelTimer
<1>34. ASSUME NEW k \in Sockets, Resume(k) PROVE ListedOK'
  BY <1>34 DEF Resume, CancelTimer
<1>35. ASSUME NEW k \in Sockets, ReadAborted(k) PROVE ListedOK'
  BY <1>35 DEF ReadAborted, Leave, CountOut, Erase, CancelTimer
<1>36. ASSUME NEW k \in Sockets, CoEnd(k) PROVE ListedOK'
  BY <1>36 DEF CoEnd
<1>37. ASSUME NEW k \in Sockets, ReadCompletes(k) PROVE ListedOK'
  BY <1>37 DEF ReadCompletes
<1>38. ASSUME NEW k \in Sockets, PeerCloses(k) PROVE ListedOK'
  BY <1>38 DEF PeerCloses, Leave, CountOut, Erase, CancelTimer
<1>39. ASSUME NEW k \in Sockets, TimerExpires(k) PROVE ListedOK'
  BY <1>39 DEF TimerExpires
<1>40. ASSUME NEW k \in Sockets, HandlerTimer(k) PROVE ListedOK'
  BY <1>40 DEF HandlerTimer
<1>41. ASSUME NEW k \in Sockets, RacingClear(k) PROVE ListedOK'
  BY <1>41 DEF RacingClear, Die
<1>42. ASSUME NEW i \in Services, WorkerExit(i) PROVE ListedOK'
  BY <1>42 DEF WorkerExit
<1>43. CASE UNCHANGED vars
  BY <1>43 DEF vars
<1> HIDE DEF IInv, TypeOK, ListedOK, LoopsOK, Goto, Size, serverVars, dispatchVars, serviceVars, threadVars, socketVars
<1> QED
  BY <1>1, <1>2, <1>3, <1>4, <1>5, <1>6, <1>7, <1>8, <1>9, <1>10, <1>11, <1>12, <1>13, <1>14, <1>15,
     <1>16, <1>17, <1>18, <1>19, <1>20, <1>21, <1>22, <1>23, <1>24, <1>25, <1>26, <1>27, <1>28,
     <1>29, <1>30, <1>31, <1>32, <1>33, <1>34, <1>35, <1>36, <1>37, <1>38, <1>39, <1>40, <1>41,
     <1>42, <1>43 DEF Next, Call, CallStep, HandlerStep, CoStep, Network, Threads

\* Every step keeps DispatchOK.
LEMMA DispatchStep ==
  ASSUME IInv, [Next]_vars
  PROVE  DispatchOK'
<1> USE ServerAssumption
<1> USE DEF IInv, TypeOK, DispatchOK, Goto, Size, Threads, serverVars, dispatchVars, serviceVars, threadVars, socketVars
<1>1. ASSUME NEW t \in Threads, GetService(t) PROVE DispatchOK'
  BY GetServiceType, <1>1
<1>2. ASSUME NEW t \in Threads, AsyncAccept(t) PROVE DispatchOK'
  BY <1>2 DEF AsyncAccept, Unused
<1>3. ASSUME NEW t \in Threads, AcceptThrows(t) PROVE DispatchOK'
  BY <1>3 DEF AcceptThrows
<1>4. ASSUME NEW t \in Threads, UseBadHandle(t) PROVE DispatchOK'
  BY <1>4 DEF UseBadHandle, Die
<1>5. ASSUME NEW t \in Callers, SetRun(t) PROVE DispatchOK'
  BY <1>5 DEF SetRun
<1>6. ASSUME NEW t \in Callers, MakeThread(t) PROVE DispatchOK'
  BY <1>6 DEF MakeThread
<1>7. ASSUME NEW t \in Callers, MakeThreadFails(t) PROVE DispatchOK'
  BY <1>7 DEF MakeThreadFails
<1>8. ASSUME NEW t \in Callers, ClearRun(t) PROVE DispatchOK'
  BY <1>8 DEF ClearRun
<1>9. ASSUME NEW t \in Callers, TestHandle(t) PROVE DispatchOK'
  BY <1>9 DEF TestHandle
<1>10. ASSUME NEW t \in Callers, CancelAcceptor(t) PROVE DispatchOK'
  BY <1>10 DEF CancelAcceptor
<1>11. ASSUME NEW t \in Callers, HaltService(t) PROVE DispatchOK'
  BY <1>11 DEF HaltService, Release
<1>12. ASSUME NEW t \in Callers, BeginServices(t) PROVE DispatchOK'
  BY <1>12 DEF BeginServices
<1>13. ASSUME NEW t \in Callers, ResetWork(t) PROVE DispatchOK'
  BY <1>13 DEF ResetWork
<1>14. ASSUME NEW t \in Callers, CloseOne(t) PROVE DispatchOK'
  BY <1>14 DEF CloseOne, Close
<1>15. ASSUME NEW t \in Callers, ClearClients(t) PROVE DispatchOK'
  BY <1>15 DEF ClearClients
<1>16. ASSUME NEW t \in Callers, JoinWorker(t) PROVE DispatchOK'
  BY <1>16 DEF JoinWorker
<1>17. ASSUME NEW t \in Callers, ClearServices(t) PROVE DispatchOK'
  BY <1>17 DEF ClearServices
<1>18. ASSUME NEW t \in Callers, TestThread(t) PROVE DispatchOK'
  BY <1>18 DEF TestThread, After
<1>19. ASSUME NEW t \in Callers, JoinThread(t) PROVE DispatchOK'
  BY <1>19 DEF JoinThread, After
<1>20. ASSUME NEW t \in Callers, DestroyMembers(t) PROVE DispatchOK'
  BY <1>20 DEF DestroyMembers
<1>21. ASSUME NEW t \in Callers, JoinReturn(t) PROVE DispatchOK'
  BY <1>21 DEF JoinReturn
<1>22. ASSUME NEW t \in Callers, RunCheck(t) PROVE DispatchOK'
  BY <1>22 DEF RunCheck
<1>23. ASSUME NEW t \in Callers, StopCheck(t) PROVE DispatchOK'
  BY <1>23 DEF StopCheck
<1>24. ASSUME NEW t \in Callers, JoinCall(t) PROVE DispatchOK'
  BY <1>24 DEF JoinCall
<1>25. ASSUME NEW t \in Callers, Destroy(t) PROVE DispatchOK'
  BY <1>25 DEF Destroy
<1>26. ASSUME NEW a \in Acceptors, HandlerStart(a) PROVE DispatchOK'
  BY <1>26 DEF HandlerStart
<1>27. ASSUME NEW a \in Acceptors, CheckRun(a) PROVE DispatchOK'
  BY <1>27 DEF CheckRun, PostNext, DropSocket
<1>28. ASSUME NEW a \in Acceptors, Spawn(a) PROVE DispatchOK'
  BY <1>28 DEF Spawn, DropSocket, Failed
<1>29. ASSUME NEW a \in Acceptors, AcceptorExit(a) PROVE DispatchOK'
  BY <1>29 DEF AcceptorExit, Release
<1>30. ASSUME NEW a \in Acceptors, UseAfterDestroy(a) PROVE DispatchOK'
  BY <1>30 DEF UseAfterDestroy, Die
<1>31. ASSUME NEW k \in Sockets, CoStart(k) PROVE DispatchOK'
  BY <1>31 DEF CoStart, CountIn
<1>32. ASSUME NEW k \in Sockets, StartRead(k) PROVE DispatchOK'
  BY <1>32 DEF StartRead
<1>33. ASSUME NEW k \in Sockets, Refused(k) PROVE DispatchOK'
  BY <1>33 DEF Refused, Leave, CountOut, Erase, CancelTimer
<1>34. ASSUME NEW k \in Sockets, Resume(k) PROVE DispatchOK'
  BY <1>34 DEF Resume, CancelTimer
<1>35. ASSUME NEW k \in Sockets, ReadAborted(k) PROVE DispatchOK'
  BY <1>35 DEF ReadAborted, Leave, CountOut, Erase, CancelTimer
<1>36. ASSUME NEW k \in Sockets, CoEnd(k) PROVE DispatchOK'
  BY <1>36 DEF CoEnd
<1>37. ASSUME NEW k \in Sockets, ReadCompletes(k) PROVE DispatchOK'
  BY <1>37 DEF ReadCompletes
<1>38. ASSUME NEW k \in Sockets, PeerCloses(k) PROVE DispatchOK'
  BY <1>38 DEF PeerCloses, Leave, CountOut, Erase, CancelTimer
<1>39. ASSUME NEW k \in Sockets, TimerExpires(k) PROVE DispatchOK'
  BY <1>39 DEF TimerExpires
<1>40. ASSUME NEW k \in Sockets, HandlerTimer(k) PROVE DispatchOK'
  BY <1>40 DEF HandlerTimer
<1>41. ASSUME NEW k \in Sockets, RacingClear(k) PROVE DispatchOK'
  BY <1>41 DEF RacingClear, Die
<1>42. ASSUME NEW i \in Services, WorkerExit(i) PROVE DispatchOK'
  BY <1>42 DEF WorkerExit
<1>43. CASE UNCHANGED vars
  BY <1>43 DEF vars
<1> HIDE DEF IInv, TypeOK, DispatchOK, Goto, Size, Threads, serverVars, dispatchVars, serviceVars, threadVars, socketVars
<1> QED
  BY <1>1, <1>2, <1>3, <1>4, <1>5, <1>6, <1>7, <1>8, <1>9, <1>10, <1>11, <1>12, <1>13, <1>14, <1>15,
     <1>16, <1>17, <1>18, <1>19, <1>20, <1>21, <1>22, <1>23, <1>24, <1>25, <1>26, <1>27, <1>28,
     <1>29, <1>30, <1>31, <1>32, <1>33, <1>34, <1>35, <1>36, <1>37, <1>38, <1>39, <1>40, <1>41,
     <1>42, <1>43 DEF Next, Call, CallStep, HandlerStep, CoStep, Network, Threads

\* Every step keeps LoopsOK.
LEMMA LoopsStep ==
  ASSUME IInv, [Next]_vars
  PROVE  LoopsOK'
<1> USE ServerAssumption
<1> USE DEF IInv, TypeOK, LoopsOK, Goto, Threads, serverVars, dispatchVars, serviceVars, threadVars, socketVars
<1>1. ASSUME NEW t \in Threads, GetService(t) PROVE LoopsOK'
  BY GetServiceMoves, <1>1 DEF Posting
<1>2. ASSUME NEW t \in Threads, AsyncAccept(t) PROVE LoopsOK'
  BY <1>2 DEF AsyncAccept, Unused
<1>3. ASSUME NEW t \in Threads, AcceptThrows(t) PROVE LoopsOK'
  BY <1>3 DEF AcceptThrows
<1>4. ASSUME NEW t \in Threads, UseBadHandle(t) PROVE LoopsOK'
  BY <1>4 DEF UseBadHandle, Die
<1>5. ASSUME NEW t \in Callers, SetRun(t) PROVE LoopsOK'
  BY <1>5 DEF SetRun
<1>6. ASSUME NEW t \in Callers, MakeThread(t) PROVE LoopsOK'
  BY <1>6 DEF MakeThread
<1>7. ASSUME NEW t \in Callers, MakeThreadFails(t) PROVE LoopsOK'
  BY <1>7 DEF MakeThreadFails
<1>8. ASSUME NEW t \in Callers, ClearRun(t) PROVE LoopsOK'
  BY <1>8 DEF ClearRun
<1>9. ASSUME NEW t \in Callers, TestHandle(t) PROVE LoopsOK'
  BY <1>9 DEF TestHandle
<1>10. ASSUME NEW t \in Callers, CancelAcceptor(t) PROVE LoopsOK'
  BY <1>10 DEF CancelAcceptor
<1>11. ASSUME NEW t \in Callers, HaltService(t) PROVE LoopsOK'
  BY <1>11 DEF HaltService, Release
<1>12. ASSUME NEW t \in Callers, BeginServices(t) PROVE LoopsOK'
  BY <1>12 DEF BeginServices, Size, ListedOK, Services
<1>13. ASSUME NEW t \in Callers, ResetWork(t) PROVE LoopsOK'
  <2>1. at[t] \in Services /\ at' = at /\ worker' = worker /\ built' = built
    BY <1>13 DEF ResetWork, Services
  <2>2. \A i \in Services : work'[i] => work[i] /\ i # at[t]
    BY <2>1, <1>13 DEF ResetWork
  <2>3. pc' = [pc EXCEPT ![t] = "closing"]
    BY <1>13 DEF ResetWork
  <2> QED
    BY <2>1, <2>2, <2>3, <1>13 DEF ResetWork, Services
<1>14. ASSUME NEW t \in Callers, CloseOne(t) PROVE LoopsOK'
  BY <1>14 DEF CloseOne, Close
<1>15. ASSUME NEW t \in Callers, ClearClients(t) PROVE LoopsOK'
  BY <1>15 DEF ClearClients
<1>16. ASSUME NEW t \in Callers, JoinWorker(t) PROVE LoopsOK'
  <2>1. at[t] \in 1..built /\ built' = built /\ work' = work /\ at[t] \in Services
    BY <1>16 DEF JoinWorker, Services
  <2>2. \A i \in Services : worker[i] # "running" => worker'[i] # "running"
    BY <1>16 DEF JoinWorker
  <2>3. worker'[at[t]] # "running"
    BY <2>1, <1>16 DEF JoinWorker
  <2>4. \A i \in 1..at[t] : i \in Services /\ worker'[i] # "running"
    BY <2>1, <2>2, <2>3, <1>16 DEF JoinWorker, Services
  <2>5. CASE at[t] < built /\ at' = [at EXCEPT ![t] = @ + 1] /\ pc' = [pc EXCEPT ![t] = "work"]
    BY SMTT(40), <2>1, <2>2, <2>4, <2>5 DEF Services
  <2>6. CASE at[t] = built /\ at' = at /\ pc' = [pc EXCEPT ![t] = "clear"]
    <3>1. \A i \in Services : worker'[i] # "running"
      BY <2>2, <2>4, <2>6 DEF ListedOK, Services
    <3> QED
      BY <2>1, <2>2, <2>6, <3>1 DEF Services
  <2> QED
    BY <2>5, <2>6, <1>16 DEF JoinWorker
<1>17. ASSUME NEW t \in Callers, ClearServices(t) PROVE LoopsOK'
  BY <1>17 DEF ClearServices
<1>18. ASSUME NEW t \in Callers, TestThread(t) PROVE LoopsOK'
  BY <1>18 DEF TestThread, After
<1>19. ASSUME NEW t \in Callers, JoinThread(t) PROVE LoopsOK'
  BY <1>19 DEF JoinThread, After
<1>20. ASSUME NEW t \in Callers, DestroyMembers(t) PROVE LoopsOK'
  BY <1>20 DEF DestroyMembers
<1>21. ASSUME NEW t \in Callers, JoinReturn(t) PROVE LoopsOK'
  BY <1>21 DEF JoinReturn
<1>22. ASSUME NEW t \in Callers, RunCheck(t) PROVE LoopsOK'
  BY <1>22 DEF RunCheck
<1>23. ASSUME NEW t \in Callers, StopCheck(t) PROVE LoopsOK'
  BY <1>23 DEF StopCheck
<1>24. ASSUME NEW t \in Callers, JoinCall(t) PROVE LoopsOK'
  BY <1>24 DEF JoinCall
<1>25. ASSUME NEW t \in Callers, Destroy(t) PROVE LoopsOK'
  BY <1>25 DEF Destroy
<1>26. ASSUME NEW a \in Acceptors, HandlerStart(a) PROVE LoopsOK'
  BY <1>26 DEF HandlerStart
<1>27. ASSUME NEW a \in Acceptors, CheckRun(a) PROVE LoopsOK'
  BY <1>27 DEF CheckRun, PostNext, DropSocket
<1>28. ASSUME NEW a \in Acceptors, Spawn(a) PROVE LoopsOK'
  BY <1>28 DEF Spawn, DropSocket, Failed
<1>29. ASSUME NEW a \in Acceptors, AcceptorExit(a) PROVE LoopsOK'
  BY <1>29 DEF AcceptorExit, Release
<1>30. ASSUME NEW a \in Acceptors, UseAfterDestroy(a) PROVE LoopsOK'
  BY <1>30 DEF UseAfterDestroy, Die
<1>31. ASSUME NEW k \in Sockets, CoStart(k) PROVE LoopsOK'
  BY <1>31 DEF CoStart, CountIn
<1>32. ASSUME NEW k \in Sockets, StartRead(k) PROVE LoopsOK'
  BY <1>32 DEF StartRead
<1>33. ASSUME NEW k \in Sockets, Refused(k) PROVE LoopsOK'
  BY <1>33 DEF Refused, Leave, CountOut, Erase, CancelTimer
<1>34. ASSUME NEW k \in Sockets, Resume(k) PROVE LoopsOK'
  BY <1>34 DEF Resume, CancelTimer
<1>35. ASSUME NEW k \in Sockets, ReadAborted(k) PROVE LoopsOK'
  BY <1>35 DEF ReadAborted, Leave, CountOut, Erase, CancelTimer
<1>36. ASSUME NEW k \in Sockets, CoEnd(k) PROVE LoopsOK'
  BY <1>36 DEF CoEnd
<1>37. ASSUME NEW k \in Sockets, ReadCompletes(k) PROVE LoopsOK'
  BY <1>37 DEF ReadCompletes
<1>38. ASSUME NEW k \in Sockets, PeerCloses(k) PROVE LoopsOK'
  BY <1>38 DEF PeerCloses, Leave, CountOut, Erase, CancelTimer
<1>39. ASSUME NEW k \in Sockets, TimerExpires(k) PROVE LoopsOK'
  BY <1>39 DEF TimerExpires
<1>40. ASSUME NEW k \in Sockets, HandlerTimer(k) PROVE LoopsOK'
  BY <1>40 DEF HandlerTimer
<1>41. ASSUME NEW k \in Sockets, RacingClear(k) PROVE LoopsOK'
  BY <1>41 DEF RacingClear, Die
<1>42. ASSUME NEW i \in Services, WorkerExit(i) PROVE LoopsOK'
  BY <1>42 DEF WorkerExit
<1>43. CASE UNCHANGED vars
  BY <1>43 DEF vars
<1> HIDE DEF IInv, TypeOK, LoopsOK, Goto, Threads, serverVars, dispatchVars, serviceVars, threadVars, socketVars
<1> QED
  BY <1>1, <1>2, <1>3, <1>4, <1>5, <1>6, <1>7, <1>8, <1>9, <1>10, <1>11, <1>12, <1>13, <1>14, <1>15,
     <1>16, <1>17, <1>18, <1>19, <1>20, <1>21, <1>22, <1>23, <1>24, <1>25, <1>26, <1>27, <1>28,
     <1>29, <1>30, <1>31, <1>32, <1>33, <1>34, <1>35, <1>36, <1>37, <1>38, <1>39, <1>40, <1>41,
     <1>42, <1>43 DEF Next, Call, CallStep, HandlerStep, CoStep, Network, Threads

\* Every step keeps HandlersOK.
LEMMA HandlersStep ==
  ASSUME IInv, [Next]_vars
  PROVE  HandlersOK'
<1> USE ServerAssumption
<1> USE DEF IInv, TypeOK, HandlersOK, InHandler, Posting, Goto, Threads, serverVars, dispatchVars, serviceVars, threadVars, socketVars
<1>1. ASSUME NEW t \in Threads, GetService(t) PROVE HandlersOK'
  BY GetServiceMoves, <1>1 DEF Posting
<1>2. ASSUME NEW t \in Threads, AsyncAccept(t) PROVE HandlersOK'
  BY <1>2 DEF AsyncAccept, Unused
<1>3. ASSUME NEW t \in Threads, AcceptThrows(t) PROVE HandlersOK'
  BY <1>3 DEF AcceptThrows
<1>4. ASSUME NEW t \in Threads, UseBadHandle(t) PROVE HandlersOK'
  BY <1>4 DEF UseBadHandle, Die
<1>5. ASSUME NEW t \in Callers, SetRun(t) PROVE HandlersOK'
  BY <1>5 DEF SetRun
<1>6. ASSUME NEW t \in Callers, MakeThread(t) PROVE HandlersOK'
  BY <1>6 DEF MakeThread
<1>7. ASSUME NEW t \in Callers, MakeThreadFails(t) PROVE HandlersOK'
  BY <1>7 DEF MakeThreadFails
<1>8. ASSUME NEW t \in Callers, ClearRun(t) PROVE HandlersOK'
  BY <1>8 DEF ClearRun
<1>9. ASSUME NEW t \in Callers, TestHandle(t) PROVE HandlersOK'
  BY <1>9 DEF TestHandle
<1>10. ASSUME NEW t \in Callers, CancelAcceptor(t) PROVE HandlersOK'
  BY <1>10 DEF CancelAcceptor
<1>11. ASSUME NEW t \in Callers, HaltService(t) PROVE HandlersOK'
  BY <1>11 DEF HaltService, Release
<1>12. ASSUME NEW t \in Callers, BeginServices(t) PROVE HandlersOK'
  BY <1>12 DEF BeginServices
<1>13. ASSUME NEW t \in Callers, ResetWork(t) PROVE HandlersOK'
  BY <1>13 DEF ResetWork
<1>14. ASSUME NEW t \in Callers, CloseOne(t) PROVE HandlersOK'
  BY <1>14 DEF CloseOne, Close
<1>15. ASSUME NEW t \in Callers, ClearClients(t) PROVE HandlersOK'
  BY <1>15 DEF ClearClients
<1>16. ASSUME NEW t \in Callers, JoinWorker(t) PROVE HandlersOK'
  BY <1>16 DEF JoinWorker
<1>17. ASSUME NEW t \in Callers, ClearServices(t) PROVE HandlersOK'
  BY <1>17 DEF ClearServices
<1>18. ASSUME NEW t \in Callers, TestThread(t) PROVE HandlersOK'
  BY <1>18 DEF TestThread, After
<1>19. ASSUME NEW t \in Callers, JoinThread(t) PROVE HandlersOK'
  BY <1>19 DEF JoinThread, After
<1>20. ASSUME NEW t \in Callers, DestroyMembers(t) PROVE HandlersOK'
  BY <1>20 DEF DestroyMembers
<1>21. ASSUME NEW t \in Callers, JoinReturn(t) PROVE HandlersOK'
  BY <1>21 DEF JoinReturn
<1>22. ASSUME NEW t \in Callers, RunCheck(t) PROVE HandlersOK'
  BY <1>22 DEF RunCheck
<1>23. ASSUME NEW t \in Callers, StopCheck(t) PROVE HandlersOK'
  BY <1>23 DEF StopCheck
<1>24. ASSUME NEW t \in Callers, JoinCall(t) PROVE HandlersOK'
  BY <1>24 DEF JoinCall
<1>25. ASSUME NEW t \in Callers, Destroy(t) PROVE HandlersOK'
  BY <1>25 DEF Destroy
<1>26. ASSUME NEW a \in Acceptors, HandlerStart(a) PROVE HandlersOK'
  BY <1>26 DEF HandlerStart
<1>27. ASSUME NEW a \in Acceptors, CheckRun(a) PROVE HandlersOK'
  BY <1>27 DEF CheckRun, PostNext, DropSocket
<1>28. ASSUME NEW a \in Acceptors, Spawn(a) PROVE HandlersOK'
  BY <1>28 DEF Spawn, DropSocket, Failed
<1>29. ASSUME NEW a \in Acceptors, AcceptorExit(a) PROVE HandlersOK'
  BY <1>29 DEF AcceptorExit, Release
<1>30. ASSUME NEW a \in Acceptors, UseAfterDestroy(a) PROVE HandlersOK'
  BY <1>30 DEF UseAfterDestroy, Die
<1>31. ASSUME NEW k \in Sockets, CoStart(k) PROVE HandlersOK'
  BY <1>31 DEF CoStart, CountIn
<1>32. ASSUME NEW k \in Sockets, StartRead(k) PROVE HandlersOK'
  BY <1>32 DEF StartRead
<1>33. ASSUME NEW k \in Sockets, Refused(k) PROVE HandlersOK'
  BY <1>33 DEF Refused, Leave, CountOut, Erase, CancelTimer
<1>34. ASSUME NEW k \in Sockets, Resume(k) PROVE HandlersOK'
  BY <1>34 DEF Resume, CancelTimer
<1>35. ASSUME NEW k \in Sockets, ReadAborted(k) PROVE HandlersOK'
  BY <1>35 DEF ReadAborted, Leave, CountOut, Erase, CancelTimer
<1>36. ASSUME NEW k \in Sockets, CoEnd(k) PROVE HandlersOK'
  BY <1>36 DEF CoEnd
<1>37. ASSUME NEW k \in Sockets, ReadCompletes(k) PROVE HandlersOK'
  BY <1>37 DEF ReadCompletes
<1>38. ASSUME NEW k \in Sockets, PeerCloses(k) PROVE HandlersOK'
  BY <1>38 DEF PeerCloses, Leave, CountOut, Erase, CancelTimer
<1>39. ASSUME NEW k \in Sockets, TimerExpires(k) PROVE HandlersOK'
  BY <1>39 DEF TimerExpires
<1>40. ASSUME NEW k \in Sockets, HandlerTimer(k) PROVE HandlersOK'
  BY <1>40 DEF HandlerTimer
<1>41. ASSUME NEW k \in Sockets, RacingClear(k) PROVE HandlersOK'
  BY <1>41 DEF RacingClear, Die
<1>42. ASSUME NEW i \in Services, WorkerExit(i) PROVE HandlersOK'
  BY <1>42 DEF WorkerExit
<1>43. CASE UNCHANGED vars
  BY <1>43 DEF vars
<1> HIDE DEF IInv, TypeOK, HandlersOK, InHandler, Posting, Goto, Threads, serverVars, dispatchVars, serviceVars, threadVars, socketVars
<1> QED
  BY <1>1, <1>2, <1>3, <1>4, <1>5, <1>6, <1>7, <1>8, <1>9, <1>10, <1>11, <1>12, <1>13, <1>14, <1>15,
     <1>16, <1>17, <1>18, <1>19, <1>20, <1>21, <1>22, <1>23, <1>24, <1>25, <1>26, <1>27, <1>28,
     <1>29, <1>30, <1>31, <1>32, <1>33, <1>34, <1>35, <1>36, <1>37, <1>38, <1>39, <1>40, <1>41,
     <1>42, <1>43 DEF Next, Call, CallStep, HandlerStep, CoStep, Network, Threads

\* The live coroutines of a service.
LiveAt(i) == {k \in Sockets : home[k] = i /\ co[k] \in Live}

\* A step that lets nobody in or out of the live coroutines keeps the counts exact.
LEMMA SameLive ==
  ASSUME ClientsExact, UNCHANGED clients,
         \A k \in Sockets : /\ co'[k] \in Live <=> co[k] \in Live
                            /\ co[k] \in Live => home'[k] = home[k]
  PROVE  ClientsExact'
<1>1. \A i \in Services : {k \in Sockets : home'[k] = i /\ co'[k] \in Live}
                          = {k \in Sockets : home[k] = i /\ co[k] \in Live}
  OBVIOUS
<1> QED
  BY <1>1 DEF ClientsExact, Live

\* A connection that ends is taken out of the count and of the live coroutines together.
LEMMA LeaveExact ==
  ASSUME IInv, NEW k \in Sockets, co[k] \in Live, Leave(k)
  PROVE  ClientsExact'
<1>1. home[k] \in Services /\ clients \in [Services -> Nat]
  BY LiveCounted DEF IInv, TypeOK
<1>2. UNCHANGED home /\ co' = [co EXCEPT ![k] = "closed"] /\ co \in [Sockets -> CoState]
  BY DEF Leave, IInv, TypeOK
<1>3. clients' = [clients EXCEPT ![home[k]] = @ - 1]
  BY DEF Leave, CountOut
<1> SUFFICES ASSUME NEW i \in Services PROVE clients'[i] = Cardinality(LiveAt(i)')
  BY DEF ClientsExact, LiveAt, Live
<1>4. clients[i] = Cardinality(LiveAt(i)) /\ IsFiniteSet(LiveAt(i))
  BY ServerAssumption, FS_Subset DEF IInv, ClientsExact, LiveAt
<1>5. CASE i = home[k]
  <2>1. LiveAt(i)' = LiveAt(i) \ {k} /\ k \in LiveAt(i)
    BY <1>2, <1>5 DEF LiveAt, Live
  <2> QED
    BY <1>1, <1>3, <1>4, <1>5, <2>1, FS_RemoveElement
<1>6. CASE i # home[k]
  <2>1. LiveAt(i)' = LiveAt(i)
    BY <1>2, <1>6 DEF LiveAt, Live
  <2> QED
    BY <1>1, <1>3, <1>4, <1>6, <2>1
<1> QED
  BY <1>5, <1>6

\* A coroutine that starts is counted and becomes live together.
LEMMA CoStartExact ==
  ASSUME IInv, NEW k \in Sockets, CoStart(k)
  PROVE  ClientsExact'
<1>1. home[k] \in Services /\ clients \in [Services -> Nat]
  BY ServerAssumption DEF CoStart, IInv, TypeOK, SocketsOK, Services
<1>2. UNCHANGED home /\ co[k] = "spawned" /\ co' = [co EXCEPT ![k] = "connecting"] /\ co \in [Sockets -> CoState]
  BY DEF CoStart, IInv, TypeOK
<1>3. clients' = [clients EXCEPT ![home[k]] = @ + 1]
  BY DEF CoStart, CountIn
<1> SUFFICES ASSUME NEW i \in Services PROVE clients'[i] = Cardinality(LiveAt(i)')
  BY DEF ClientsExact, LiveAt, Live
<1>4. clients[i] = Cardinality(LiveAt(i)) /\ IsFiniteSet(LiveAt(i))
  BY ServerAssumption, FS_Subset DEF IInv, ClientsExact, LiveAt
<1>5. CASE i = home[k]
  <2>1. LiveAt(i)' = LiveAt(i) \cup {k} /\ k \notin LiveAt(i)
    BY <1>2, <1>5 DEF LiveAt, Live
  <2> QED
    BY SMTT(40), <1>1, <1>3, <1>4, <1>5, <2>1, FS_AddElement
<1>6. CASE i # home[k]
  <2>1. LiveAt(i)' = LiveAt(i)
    BY <1>2, <1>6 DEF LiveAt, Live
  <2> QED
    BY <1>1, <1>3, <1>4, <1>6, <2>1
<1> QED
  BY <1>5, <1>6

\* Every step keeps ClientsExact.
LEMMA ExactStep ==
  ASSUME IInv, [Next]_vars
  PROVE  ClientsExact'
<1> USE ServerAssumption
<1> USE DEF IInv, TypeOK, Goto, CoState, Queued, Live, serverVars, dispatchVars, serviceVars, threadVars, socketVars
<1>1. ASSUME NEW t \in Threads, AsyncAccept(t) PROVE ClientsExact'
  BY SameLive, <1>1 DEF AsyncAccept, Unused
<1>2. ASSUME NEW t \in Callers, HaltService(t) PROVE ClientsExact'
  BY SameLive, <1>2 DEF HaltService, Release
<1>3. ASSUME NEW a \in Acceptors, HandlerStart(a) PROVE ClientsExact'
  BY SameLive, <1>3 DEF HandlerStart
<1>4. ASSUME NEW a \in Acceptors, CheckRun(a) PROVE ClientsExact'
  BY SameLive, <1>4 DEF CheckRun, PostNext, DropSocket, HandlersOK, InHandler
<1>5. ASSUME NEW a \in Acceptors, Spawn(a) PROVE ClientsExact'
  BY SameLive, <1>5 DEF Spawn, Failed, DropSocket, HandlersOK, InHandler
<1>6. ASSUME NEW a \in Acceptors, AcceptorExit(a) PROVE ClientsExact'
  BY SameLive, <1>6 DEF AcceptorExit, Release
<1>7. ASSUME NEW k \in Sockets, CoStart(k) PROVE ClientsExact'
  BY CoStartExact, <1>7
<1>8. ASSUME NEW k \in Sockets, StartRead(k) PROVE ClientsExact'
  BY SameLive, <1>8 DEF StartRead
<1>9. ASSUME NEW k \in Sockets, Refused(k) PROVE ClientsExact'
  BY LeaveExact, <1>9 DEF Refused
<1>10. ASSUME NEW k \in Sockets, Resume(k) PROVE ClientsExact'
  BY SameLive, <1>10 DEF Resume, CancelTimer
<1>11. ASSUME NEW k \in Sockets, ReadAborted(k) PROVE ClientsExact'
  BY LeaveExact, <1>11 DEF ReadAborted
<1>12. ASSUME NEW k \in Sockets, CoEnd(k) PROVE ClientsExact'
  BY SameLive, <1>12 DEF CoEnd
<1>13. ASSUME NEW k \in Sockets, ReadCompletes(k) PROVE ClientsExact'
  BY SameLive, <1>13 DEF ReadCompletes
<1>14. ASSUME NEW k \in Sockets, PeerCloses(k) PROVE ClientsExact'
  BY LeaveExact, <1>14 DEF PeerCloses
<1>15. ASSUME NEW k \in Sockets, TimerExpires(k) PROVE ClientsExact'
  BY SameLive, <1>15 DEF TimerExpires
<1>16. ASSUME NEW k \in Sockets, HandlerTimer(k) PROVE ClientsExact'
  BY SameLive, <1>16 DEF HandlerTimer
<1>17. ASSUME NEW i \in Services, WorkerExit(i) PROVE ClientsExact'
  BY SameLive, <1>17 DEF WorkerExit
<1>18. ASSUME NEW t \in Callers, ResetWork(t) PROVE ClientsExact'
  BY SameLive, <1>18 DEF ResetWork
<1>19. ASSUME NEW t \in Callers, ClearClients(t) PROVE ClientsExact'
  BY SameLive, <1>19 DEF ClearClients
<1>20. ASSUME NEW t \in Callers, JoinWorker(t) PROVE ClientsExact'
  BY SameLive, <1>20 DEF JoinWorker
<1>21. CASE UNCHANGED <<serviceVars, co, home, timer, fired, built>>
  BY <1>21, SameLive
<1> QED
  BY StepKinds, <1>1, <1>2, <1>3, <1>4, <1>5, <1>6, <1>7, <1>8, <1>9, <1>10, <1>11, <1>12, <1>13,
     <1>14, <1>15, <1>16, <1>17, <1>18, <1>19, <1>20, <1>21

-----------------------------------------------------------------------------

\* The constructor establishes the invariant.
LEMMA InitInvariant == Init => IInv
<1> SUFFICES ASSUME Init PROVE IInv
  OBVIOUS
<1> USE ServerAssumption DEF Init, Threads, Services
<1>1. TypeOK
  <2>1. /\ run \in BOOLEAN /\ acceptor \in BOOLEAN /\ service \in {"running", "null"}
        /\ thread \in Acceptors \cup {None} /\ listed \in BOOLEAN /\ built \in 0..N
        /\ alive \in {"alive", "dying", "dead"} /\ fault \in BOOLEAN
    <3>1. acceptor \in BOOLEAN /\ service \in {"running", "null"}
      BY Zenon
    <3>2. built \in 0..N
      OBVIOUS
    <3>3. run \in BOOLEAN /\ listed \in BOOLEAN /\ fault \in BOOLEAN
      BY Zenon
    <3> QED
      BY <3>1, <3>2, <3>3
  <2>2. flag \in 0..SizeMax /\ pos \in Nat \ {0} /\ held \in [Threads -> Nat]
    BY ServerAssumption DEF PollInit
  <2>3. /\ work \in [Services -> BOOLEAN] /\ worker \in [Services -> {"running", "exited", "joined"}]
        /\ tracked \in [Services -> SUBSET Sockets] /\ clients \in [Services -> Nat]
    BY <2>1
  <2>4. /\ pc \in [Threads -> Labels] /\ at \in [Threads -> Nat \ {0}]
        /\ arg \in [Threads -> Acceptors \cup Sockets \cup {None}] /\ visiting \in [Callers -> SUBSET Sockets]
    BY DEF Labels
  <2>5. /\ co \in [Sockets -> CoState] /\ home \in [Sockets -> Nat \ {0}] /\ open \in [Sockets -> BOOLEAN]
        /\ timer \in [Sockets -> BOOLEAN] /\ fired \in [Sockets -> {"no", "due", "stale"}]
    BY DEF CoState
  <2> QED
    BY <2>1, <2>2, <2>3, <2>4, <2>5 DEF TypeOK
<1>2. SocketsOK /\ Registered /\ WorkersDrained
  BY DEF SocketsOK, Registered, WorkersDrained, Live
<1>3. HandlersOK
  BY DEF HandlersOK, InHandler, Posting
<1>4. DispatchOK
  BY DEF DispatchOK
<1>5. LoopsOK /\ ListedOK
  BY DEF LoopsOK, ListedOK
<1>6. ClientsExact
  <2>1. \A i \in Services : {k \in Sockets : home[k] = i /\ co[k] \in Live} = {}
    BY DEF Live
  <2> QED
    BY <2>1, FS_EmptySet DEF ClientsExact
<1> QED
  BY <1>1, <1>2, <1>3, <1>4, <1>5, <1>6 DEF IInv

\* The invariant holds throughout, for any number of threads that call the server,
\* of services and of connections.
THEOREM Invariance == Spec => []IInv
<1>1. IInv /\ [Next]_vars => IInv'
  BY TypeStep, SocketsStep, HandlersStep, DispatchStep, LoopsStep, ListedStep, RegisteredStep,
     DrainedStep, ExactStep DEF IInv
<1> QED
  BY InitInvariant, <1>1, PTL DEF Spec

\* The state of the server stays well typed; in particular the unsigned clients counter
\* (clients, 107) is never decremented below zero.
THEOREM TypeCorrect == Spec => []TypeOK
<1>1. IInv => TypeOK
  BY DEF IInv
<1> QED
  BY Invariance, <1>1, PTL

\* Every path through coroutine_read (434-498) gives back the count it took.
THEOREM CountsStayExact == Spec => []ClientsExact
<1>1. IInv => ClientsExact
  BY DEF IInv
<1> QED
  BY Invariance, <1>1, PTL

\* _clients never holds a socket whose coroutine is over, nor lacks a live one before stop().
THEOREM RegistryStaysExact == Spec => []Registered
<1>1. IInv => Registered
  BY DEF IInv
<1> QED
  BY Invariance, <1>1, PTL

\* No coroutine runs on a worker whose thread can be joined, however calls interleave.
THEOREM WorkersStayDrained == Spec => []WorkersDrained
<1>1. IInv => WorkersDrained
  BY DEF IInv
<1> QED
  BY Invariance, <1>1, PTL

-----------------------------------------------------------------------------
\* A worker that runs belongs to an object that still exists.
LEMMA ServingAlive ==
  ASSUME IInv, NEW k \in Sockets, co[k] # "free", Serving(k)
  PROVE  alive # "dead"
BY ServerAssumption DEF IInv, TypeOK, SocketsOK, ListedOK, Serving, Services

\* Once _services is empty no connection is in a callback.
LEMMA QuietWhenEmpty ==
  ASSUME IInv, Size = 0
  PROVE  CallbackPhase = [k \in Sockets |-> "none"]
<1>1. ASSUME NEW k \in Sockets PROVE co[k] \notin Live \cup {"closed"}
  <2> SUFFICES ASSUME co[k] # "free" PROVE worker[home[k]] # "running"
    BY DEF IInv, WorkersDrained, Live
  <2>1. home[k] \in 1..built /\ home[k] \in Services
    BY ServerAssumption DEF IInv, TypeOK, SocketsOK, Services
  <2>2. ~listed
    BY <2>1, ServerAssumption DEF Size, IInv, TypeOK
  <2> QED
    BY <2>1, <2>2 DEF IInv, ListedOK
<1> QED
  BY <1>1 DEF CallbackPhase, Live

\* Every step of the server is a step of Callbacks or leaves its variables alone.
LEMMA CallbackStep ==
  ASSUME IInv, [Next]_vars
  PROVE  [Promise!Next]_(Promise!vars)
<1> DEFINE Same == CallbackPhase' = CallbackPhase /\ (alive = "dead")' = (alive = "dead")
<1> USE DEF Goto, serverVars, dispatchVars, serviceVars, threadVars, socketVars
<1>1. ASSUME NEW t \in Threads, GetService(t) PROVE Same
  BY GetServiceMoves, <1>1 DEF Posting, CallbackPhase, IInv, TypeOK
<1>2. ASSUME NEW t \in Threads, AsyncAccept(t) PROVE Same
  BY <1>2 DEF AsyncAccept, Unused, CallbackPhase, IInv, TypeOK
<1>3. ASSUME NEW t \in Threads, AcceptThrows(t) PROVE Same
  BY <1>3 DEF AcceptThrows, CallbackPhase, IInv, TypeOK
<1>4. ASSUME NEW t \in Threads, UseBadHandle(t) PROVE Same
  BY <1>4 DEF UseBadHandle, Die, CallbackPhase, IInv, TypeOK
<1>5. ASSUME NEW t \in Callers, SetRun(t) PROVE Same
  BY <1>5 DEF SetRun, CallbackPhase, IInv, TypeOK
<1>6. ASSUME NEW t \in Callers, MakeThread(t) PROVE Same
  BY <1>6 DEF MakeThread, CallbackPhase, IInv, TypeOK
<1>7. ASSUME NEW t \in Callers, MakeThreadFails(t) PROVE Same
  BY <1>7 DEF MakeThreadFails, CallbackPhase, IInv, TypeOK
<1>8. ASSUME NEW t \in Callers, ClearRun(t) PROVE Same
  BY <1>8 DEF ClearRun, CallbackPhase, IInv, TypeOK
<1>9. ASSUME NEW t \in Callers, TestHandle(t) PROVE Same
  BY <1>9 DEF TestHandle, CallbackPhase, IInv, TypeOK
<1>10. ASSUME NEW t \in Callers, CancelAcceptor(t) PROVE Same
  BY <1>10 DEF CancelAcceptor, CallbackPhase, IInv, TypeOK
<1>11. ASSUME NEW t \in Callers, HaltService(t) PROVE Same
  BY <1>11 DEF HaltService, Release, CallbackPhase, IInv, TypeOK
<1>12. ASSUME NEW t \in Callers, BeginServices(t) PROVE Same
  BY <1>12 DEF BeginServices, CallbackPhase, IInv, TypeOK
<1>13. ASSUME NEW t \in Callers, ResetWork(t) PROVE Same
  BY <1>13 DEF ResetWork, CallbackPhase, IInv, TypeOK
<1>14. ASSUME NEW t \in Callers, CloseOne(t) PROVE Same
  BY <1>14 DEF CloseOne, Close, CallbackPhase, IInv, TypeOK
<1>15. ASSUME NEW t \in Callers, ClearClients(t) PROVE Same
  BY <1>15 DEF ClearClients, CallbackPhase, IInv, TypeOK
<1>16. ASSUME NEW t \in Callers, JoinWorker(t) PROVE Same
  BY <1>16 DEF JoinWorker, CallbackPhase, IInv, TypeOK
<1>17. ASSUME NEW t \in Callers, ClearServices(t) PROVE Same
  BY <1>17 DEF ClearServices, CallbackPhase, IInv, TypeOK
<1>18. ASSUME NEW t \in Callers, TestThread(t) PROVE Same
  BY <1>18 DEF TestThread, After, CallbackPhase, IInv, TypeOK
<1>19. ASSUME NEW t \in Callers, JoinThread(t) PROVE Same
  BY <1>19 DEF JoinThread, After, CallbackPhase, IInv, TypeOK
<1>20. ASSUME NEW t \in Callers, DestroyMembers(t) PROVE Same \/ Promise!Next
  <2>1. CASE Size > 0
    BY <1>20, <2>1 DEF DestroyMembers, CallbackPhase
  <2>2. CASE Size = 0
    <3>1. CallbackPhase' = CallbackPhase /\ CallbackPhase = [k \in Sockets |-> "none"] /\ alive' = "dead"
      BY <1>20, <2>2, QuietWhenEmpty DEF DestroyMembers, CallbackPhase
    <3> QED
      BY <3>1 DEF Promise!Next, Promise!Destroy
  <2> QED
    BY <1>20, <2>1, <2>2 DEF DestroyMembers
<1>21. ASSUME NEW t \in Callers, JoinReturn(t) PROVE Same
  BY <1>21 DEF JoinReturn, CallbackPhase, IInv, TypeOK
<1>22. ASSUME NEW t \in Callers, RunCheck(t) PROVE Same
  BY <1>22 DEF RunCheck, CallbackPhase, IInv, TypeOK
<1>23. ASSUME NEW t \in Callers, StopCheck(t) PROVE Same
  BY <1>23 DEF StopCheck, CallbackPhase, IInv, TypeOK
<1>24. ASSUME NEW t \in Callers, JoinCall(t) PROVE Same
  BY <1>24 DEF JoinCall, CallbackPhase, IInv, TypeOK
<1>25. ASSUME NEW t \in Callers, Destroy(t) PROVE Same
  BY <1>25 DEF Destroy, CallbackPhase, IInv, TypeOK
<1>26. ASSUME NEW a \in Acceptors, HandlerStart(a) PROVE Same
  BY <1>26 DEF HandlerStart, CallbackPhase, IInv, TypeOK
<1>27. ASSUME NEW a \in Acceptors, CheckRun(a) PROVE Same
  BY <1>27 DEF CheckRun, PostNext, DropSocket, HandlersOK, InHandler, CallbackPhase, IInv, TypeOK
<1>28. ASSUME NEW a \in Acceptors, Spawn(a) PROVE Same
  BY <1>28 DEF Spawn, DropSocket, Failed, HandlersOK, InHandler, CallbackPhase, IInv, TypeOK
<1>29. ASSUME NEW a \in Acceptors, AcceptorExit(a) PROVE Same
  BY <1>29 DEF AcceptorExit, Release, CallbackPhase, IInv, TypeOK
<1>30. ASSUME NEW a \in Acceptors, UseAfterDestroy(a) PROVE Same
  BY <1>30 DEF UseAfterDestroy, Die, CallbackPhase, IInv, TypeOK
<1>31. ASSUME NEW k \in Sockets, CoStart(k) PROVE Promise!Next
  <2>1. CallbackPhase' = [CallbackPhase EXCEPT ![k] = "connected"]
    BY <1>31 DEF CoStart, CallbackPhase, IInv, TypeOK
  <2>2. alive # "dead" /\ alive' = alive
    BY <1>31, ServingAlive DEF CoStart
  <2>3. Promise!Connected(k)
    BY <1>31, <2>1, <2>2 DEF CoStart, CallbackPhase, Promise!Connected, Promise!Move
  <2> QED
    BY <2>3 DEF Promise!Next
<1>32. ASSUME NEW k \in Sockets, StartRead(k) PROVE Promise!Next
  <2>1. CallbackPhase' = [CallbackPhase EXCEPT ![k] = "waiting"]
    BY <1>32 DEF StartRead, CallbackPhase, IInv, TypeOK
  <2>2. alive # "dead" /\ alive' = alive
    BY <1>32, ServingAlive DEF StartRead
  <2>3. Promise!Wait(k)
    BY <1>32, <2>1, <2>2 DEF StartRead, CallbackPhase, Promise!Wait, Promise!Move
  <2> QED
    BY <2>3 DEF Promise!Next
<1>33. ASSUME NEW k \in Sockets, Refused(k) PROVE Promise!Next
  <2>1. CallbackPhase' = [CallbackPhase EXCEPT ![k] = "closed"]
    BY <1>33 DEF Refused, Leave, CancelTimer, CallbackPhase, IInv, TypeOK
  <2>2. alive # "dead" /\ alive' = alive
    BY <1>33, ServingAlive DEF Refused, Leave, CancelTimer
  <2>3. Promise!Closed(k)
    BY <1>33, <2>1, <2>2 DEF Refused, CallbackPhase, Promise!Closed, Promise!Move
  <2> QED
    BY <2>3 DEF Promise!Next
<1>34. ASSUME NEW k \in Sockets, Resume(k) PROVE Promise!Next
  <2>1. CallbackPhase' = [CallbackPhase EXCEPT ![k] = "readed"]
    BY <1>34 DEF Resume, CancelTimer, CallbackPhase, IInv, TypeOK
  <2>2. alive # "dead" /\ alive' = alive
    BY <1>34, ServingAlive DEF Resume, CancelTimer
  <2>3. Promise!Readed(k)
    BY <1>34, <2>1, <2>2 DEF Resume, CallbackPhase, Promise!Readed, Promise!Move
  <2> QED
    BY <2>3 DEF Promise!Next
<1>35. ASSUME NEW k \in Sockets, ReadAborted(k) PROVE Promise!Next
  <2>1. CallbackPhase' = [CallbackPhase EXCEPT ![k] = "closed"]
    BY <1>35 DEF ReadAborted, Leave, CancelTimer, CallbackPhase, IInv, TypeOK
  <2>2. alive # "dead" /\ alive' = alive
    BY <1>35, ServingAlive DEF ReadAborted, Leave, CancelTimer
  <2>3. Promise!Closed(k)
    BY <1>35, <2>1, <2>2 DEF ReadAborted, CallbackPhase, Promise!Closed, Promise!Move
  <2> QED
    BY <2>3 DEF Promise!Next
<1>36. ASSUME NEW k \in Sockets, CoEnd(k) PROVE Promise!Next
  <2>1. CallbackPhase' = [CallbackPhase EXCEPT ![k] = "none"]
    BY <1>36 DEF CoEnd, CallbackPhase, IInv, TypeOK
  <2>2. alive # "dead" /\ alive' = alive
    BY <1>36, ServingAlive DEF CoEnd
  <2>3. Promise!End(k)
    BY <1>36, <2>1, <2>2 DEF CoEnd, CallbackPhase, Promise!End, Promise!Move
  <2> QED
    BY <2>3 DEF Promise!Next
<1>37. ASSUME NEW k \in Sockets, ReadCompletes(k) PROVE Same
  BY <1>37 DEF ReadCompletes, CallbackPhase, IInv, TypeOK
<1>38. ASSUME NEW k \in Sockets, PeerCloses(k) PROVE Promise!Next
  <2>1. CallbackPhase' = [CallbackPhase EXCEPT ![k] = "closed"]
    BY <1>38 DEF PeerCloses, Leave, CancelTimer, CallbackPhase, IInv, TypeOK
  <2>2. alive # "dead" /\ alive' = alive
    BY <1>38, ServingAlive DEF PeerCloses, Leave, CancelTimer
  <2>3. Promise!Closed(k)
    BY <1>38, <2>1, <2>2 DEF PeerCloses, CallbackPhase, Promise!Closed, Promise!Move
  <2> QED
    BY <2>3 DEF Promise!Next
<1>39. ASSUME NEW k \in Sockets, TimerExpires(k) PROVE Same
  BY <1>39 DEF TimerExpires, CallbackPhase, IInv, TypeOK
<1>40. ASSUME NEW k \in Sockets, HandlerTimer(k) PROVE Same
  BY <1>40 DEF HandlerTimer, CallbackPhase, IInv, TypeOK
<1>41. ASSUME NEW k \in Sockets, RacingClear(k) PROVE Same
  BY <1>41 DEF RacingClear, Die, CallbackPhase, IInv, TypeOK
<1>42. ASSUME NEW i \in Services, WorkerExit(i) PROVE Same
  BY <1>42 DEF WorkerExit, CallbackPhase, IInv, TypeOK
<1>43. ASSUME UNCHANGED vars PROVE Same
  BY <1>43 DEF vars, CallbackPhase
<1>q1. Same => UNCHANGED Promise!vars
  BY DEF Promise!vars
<1> HIDE DEF Same
<1> QED
  BY <1>q1, <1>1, <1>2, <1>3, <1>4, <1>5, <1>6, <1>7, <1>8, <1>9, <1>10, <1>11, <1>12, <1>13, <1>14,
     <1>15, <1>16, <1>17, <1>18, <1>19, <1>20, <1>21, <1>22, <1>23, <1>24, <1>25, <1>26, <1>27,
     <1>28, <1>29, <1>30, <1>31, <1>32, <1>33, <1>34, <1>35, <1>36, <1>37, <1>38, <1>39, <1>40,
     <1>41, <1>42, <1>43 DEF Next, Call, CallStep, HandlerStep, CoStep, Network, Threads

\* The server implements Callbacks: for every connection connected, readed and closed come in
\* their order, closed exactly once, and none of them after the server has been destroyed.
THEOREM CallbackOrderHolds == Spec => CallbackOrder
<1>1. Init => Promise!Init
  BY DEF Init, Promise!Init, CallbackPhase
<1>2. IInv /\ [Next]_vars => [Promise!Next]_(Promise!vars)
  BY CallbackStep
<1> QED
  BY Invariance, <1>1, <1>2, PTL DEF Spec, CallbackOrder, Promise!Spec
=============================================================================

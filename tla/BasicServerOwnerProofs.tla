----------------------- MODULE BasicServerOwnerProofs -----------------------
(***************************************************************************)
(* What holds of BasicServer outside stop(), for any threads that call it, *)
(* and what one thread that owns the server may rely on: its accept chain  *)
(* has exactly one link, and nothing of the server runs after the          *)
(* destructor.  Three invariants carry this: Handles (the pointers are     *)
(* there until stop() comes), Joined (the only thread that runs handlers   *)
(* is _thread, and it is joined before the next run() and before the end)  *)
(* and Links (an accept is pending or about to be posted, not both).       *)
(* The last part is about waiting, for any threads that call: the joins of *)
(* stop() and join() can end (Halts), reads are timed, stop() only goes on *)
(* towards its end.                                                        *)
(***************************************************************************)
EXTENDS BasicServerProofs

Over == {"none", "exited"}              \* before and after run_thread
Post == Posting \cup {"check"}          \* about to post an accept

Pending == \E k \in Sockets : co[k] = "accepting"
Posts == \E t \in Threads : pc[t] \in Post

\* Outside stop() the acceptor and its service are there as long as the services are.
Handles ==
  /\ Size = 0 \/ (acceptor /\ service = "running") \/ \E t \in Callers : pc[t] \in InStop
  /\ \A t \in Callers : pc[t] \in {"thread", "join_thread"} => Size = 0
  /\ \A a \in Acceptors : pc[a] \in InHandler \cup Over \cup {"wait"}

\* Handlers run on _thread alone; it is joined before the next run() and before the end.
Joined(c) ==
  /\ \A a \in Acceptors : a # thread => pc[a] \in Over
  /\ thread # None => run \/ pc[c] \in InStop \ {"members"}
  /\ pc[c] = "make_thread" => run /\ thread = None
  /\ pc[c] \in Posting \cup {"set_run"} \cup (InStop \ {"clear_run"}) => ~run
  /\ pc[c] = "join_thread" => arg[c] = thread
  /\ alive = "dying" => pc[c] \in InStop
  /\ alive = "dead" => ~run /\ pc[c] = "idle"

\* Never two accepts, never two posts, never both.
OneLink ==
  /\ \A k, l \in Sockets : co[k] = "accepting" /\ co[l] = "accepting" => k = l
  /\ \A t, u \in Threads : pc[t] \in Post /\ pc[u] \in Post => t = u
  /\ ~(Pending /\ Posts)

\* A server that runs has its link; one that is stopped has lost it by the time stop() is
\* past the io_service, or when the thread that could still post one is over.
Links(c) ==
  /\ OneLink
  /\ run \/ pc[c] = "set_run" => Pending \/ Posts
  /\ run => service = "running"
  /\ pc[c] \in {"accept", "set_run"} => Size > 0
  /\ ~run /\ pc[c] \in {"idle", "join_wait", "members"} => ~Pending
  /\ pc[c] \in {"services", "work", "closing", "join", "clear", "thread", "join_thread"} =>
       service = "null" \/ (~Pending /\ thread = None)
  /\ service = "null" /\ (\A a \in Acceptors : pc[a] \in Over) => ~Pending

-----------------------------------------------------------------------------
\* get_service returns a service of _services (398, 414): there is one when it does.
LEMMA PickIndexes ==
  ASSUME IInv, NEW t \in Threads, GetService(t), pc'[t] = "accept"
  PROVE  Size > 0
<1>1. pc \in [Threads -> Labels]
  BY DEF IInv, TypeOK
<1>2. Pick(t)
  BY <1>1 DEF GetService, TestFlag, Decrement, ScanBegins, ScanFirst, ScanNext, ScanKeeps, ScanEnds, Goto
<1> QED
  BY <1>2, ServerAssumption DEF Pick, Size, IInv, TypeOK

\* Steps of the connections: nothing the owner of the server depends on moves.
Apart ==
  /\ UNCHANGED <<serverVars, pc, at, arg, fault>>
  /\ \A k \in Sockets : co'[k] = "accepting" <=> co[k] = "accepting"
  /\ \A k \in Sockets : open'[k] => open[k]

\* Undefined behaviour: only fault changes.
Dies ==
  /\ Die
  /\ \/ \E t \in Threads : BadHandle(t) \/ Races(t)
     \/ alive = "dead"
     \/ \E k \in Sockets : Clearing(home[k]) # {}

\* The steps of run(), stop(), join() and the destructor.
CallerStep(t) ==
  \/ SetRun(t) \/ MakeThread(t) \/ MakeThreadFails(t)
  \/ ClearRun(t) \/ TestHandle(t) \/ CancelAcceptor(t) \/ HaltService(t)
  \/ BeginServices(t) \/ ResetWork(t) \/ ClearClients(t) \/ JoinWorker(t)
  \/ ClearServices(t) \/ TestThread(t) \/ JoinThread(t) \/ DestroyMembers(t)
  \/ JoinReturn(t) \/ Call(t)

\* Every step of the server, for what the invariants of this module speak of.
LEMMA OwnerKinds ==
  ASSUME IInv, [Next]_vars
  PROVE  \/ Apart
         \/ ~fault /\ Dies
         \/ /\ ~fault /\ ~fault'
            /\ \/ \E t \in Threads : GetService(t) \/ AsyncAccept(t) \/ AcceptThrows(t)
               \/ \E t \in Callers : CallerStep(t)
               \/ \E a \in Acceptors : HandlerStart(a) \/ CheckRun(a) \/ Spawn(a) \/ AcceptorExit(a)
<1> DEFINE Posted == \E t \in Threads : GetService(t) \/ AsyncAccept(t) \/ AcceptThrows(t)
<1> DEFINE Called == \E t \in Callers : CallerStep(t)
<1> DEFINE Handled ==
      \E a \in Acceptors : HandlerStart(a) \/ CheckRun(a) \/ Spawn(a) \/ AcceptorExit(a)
<1> USE DEF serverVars, dispatchVars, serviceVars, threadVars, socketVars
<1>1. ASSUME NEW t \in Callers, CloseOne(t) PROVE Apart
  BY <1>1 DEF CloseOne, Close, Apart, IInv, TypeOK
<1>2. ASSUME NEW k \in Sockets, CoStart(k) PROVE Apart
  BY <1>2 DEF CoStart, Apart, IInv, TypeOK
<1>3. ASSUME NEW k \in Sockets, StartRead(k) PROVE Apart
  BY <1>3 DEF StartRead, Apart, IInv, TypeOK
<1>4. ASSUME NEW k \in Sockets, Refused(k) PROVE Apart
  BY <1>4 DEF Refused, Leave, Apart, IInv, TypeOK
<1>5. ASSUME NEW k \in Sockets, Resume(k) PROVE Apart
  BY <1>5 DEF Resume, Apart, IInv, TypeOK
<1>6. ASSUME NEW k \in Sockets, ReadAborted(k) PROVE Apart
  BY <1>6 DEF ReadAborted, Leave, Apart, IInv, TypeOK
<1>7. ASSUME NEW k \in Sockets, CoEnd(k) PROVE Apart
  BY <1>7 DEF CoEnd, Apart, IInv, TypeOK
<1>8. ASSUME NEW k \in Sockets, ReadCompletes(k) PROVE Apart
  BY <1>8 DEF ReadCompletes, Apart, IInv, TypeOK
<1>9. ASSUME NEW k \in Sockets, PeerCloses(k) PROVE Apart
  BY <1>9 DEF PeerCloses, Leave, Apart, IInv, TypeOK
<1>10. ASSUME NEW k \in Sockets, TimerExpires(k) PROVE Apart
  BY <1>10 DEF TimerExpires, Apart, IInv, TypeOK
<1>11. ASSUME NEW k \in Sockets, HandlerTimer(k) PROVE Apart
  BY <1>11 DEF HandlerTimer, Apart, IInv, TypeOK
<1>12. ASSUME NEW i \in Services, WorkerExit(i) PROVE Apart
  BY <1>12 DEF WorkerExit, Apart
<1>13. CASE UNCHANGED vars
  BY <1>13 DEF vars, Apart
<1>14. ASSUME NEW t \in Threads, UseBadHandle(t) PROVE Dies
  BY <1>14 DEF UseBadHandle, Dies
<1>15. ASSUME NEW a \in Acceptors, UseAfterDestroy(a) PROVE Dies
  BY <1>15 DEF UseAfterDestroy, Dies
<1>16. ASSUME NEW k \in Sockets, RacingClear(k) PROVE Dies
  BY <1>16 DEF RacingClear, Dies
<1>17. ASSUME NEW t \in Threads, GetService(t) \/ AsyncAccept(t) \/ AcceptThrows(t)
      PROVE UNCHANGED fault
  BY GetServiceMoves, <1>17 DEF AsyncAccept, AcceptThrows
<1>18. ASSUME NEW t \in Callers, CallerStep(t) PROVE UNCHANGED fault
  BY <1>18 DEF CallerStep, Call, SetRun, MakeThread, MakeThreadFails, ClearRun, TestHandle,
     CancelAcceptor, HaltService, BeginServices, ResetWork, ClearClients, JoinWorker, ClearServices,
     TestThread, JoinThread, DestroyMembers, JoinReturn, RunCheck, StopCheck, JoinCall, Destroy
<1>19. ASSUME NEW a \in Acceptors, HandlerStart(a) \/ CheckRun(a) \/ Spawn(a) \/ AcceptorExit(a)
      PROVE UNCHANGED fault
  BY <1>19 DEF HandlerStart, CheckRun, Spawn, AcceptorExit
<1>20. Apart \/ (~fault /\ (Dies \/ Posted \/ Called \/ Handled))
  BY <1>1, <1>2, <1>3, <1>4, <1>5, <1>6, <1>7, <1>8, <1>9, <1>10, <1>11, <1>12, <1>13, <1>14, <1>15,
     <1>16 DEF Next,
     CallStep, CallerStep, HandlerStep, CoStep, Network, Threads
<1> QED
  BY <1>17, <1>18, <1>19, <1>20

\* Every step keeps Handles: stop() is left only when _services is empty, for good.
LEMMA HandlesStep ==
  ASSUME IInv, Handles, [Next]_vars
  PROVE  Handles'
<1> USE ServerAssumption DEF IInv, TypeOK, Handles, Over, Goto, Size,
    Threads, Labels, InStop, InHandler, Posting, serverVars, dispatchVars, serviceVars, threadVars,
    socketVars
<1>1. CASE Apart
  BY <1>1 DEF Apart
<1>2. ASSUME ~fault, Dies PROVE Handles'
  BY <1>2 DEF Dies, Die
<1>3. ASSUME NEW t \in Threads, GetService(t), ~fault' PROVE Handles'
  BY GetServiceMoves, <1>3 DEF Posting
<1>4. ASSUME NEW t \in Threads, AsyncAccept(t), ~fault' PROVE Handles'
  BY <1>4 DEF AsyncAccept
<1>5. ASSUME NEW t \in Threads, AcceptThrows(t), ~fault' PROVE Handles'
  BY <1>5 DEF AcceptThrows
<1>6. ASSUME NEW t \in Callers, SetRun(t), ~fault' PROVE Handles'
  BY <1>6 DEF SetRun
<1>7. ASSUME NEW t \in Callers, MakeThread(t), ~fault' PROVE Handles'
  BY <1>7 DEF MakeThread
<1>8. ASSUME NEW t \in Callers, MakeThreadFails(t), ~fault' PROVE Handles'
  BY <1>8 DEF MakeThreadFails
<1>9. ASSUME NEW t \in Callers, ClearRun(t), ~fault' PROVE Handles'
  BY <1>9 DEF ClearRun
<1>10. ASSUME NEW t \in Callers, TestHandle(t), ~fault' PROVE Handles'
  BY <1>10 DEF TestHandle
<1>11. ASSUME NEW t \in Callers, CancelAcceptor(t), ~fault' PROVE Handles'
  BY <1>11 DEF CancelAcceptor
<1>12. ASSUME NEW t \in Callers, HaltService(t), ~fault' PROVE Handles'
  BY <1>12 DEF HaltService, Release
<1>13. ASSUME NEW t \in Callers, BeginServices(t), ~fault' PROVE Handles'
  BY <1>13 DEF BeginServices
<1>14. ASSUME NEW t \in Callers, ResetWork(t), ~fault' PROVE Handles'
  BY <1>14 DEF ResetWork
<1>15. ASSUME NEW t \in Callers, ClearClients(t), ~fault' PROVE Handles'
  BY <1>15 DEF ClearClients
<1>16. ASSUME NEW t \in Callers, JoinWorker(t), ~fault' PROVE Handles'
  BY <1>16 DEF JoinWorker
<1>17. ASSUME NEW t \in Callers, ClearServices(t), ~fault' PROVE Handles'
  BY <1>17 DEF ClearServices
<1>18. ASSUME NEW t \in Callers, TestThread(t), ~fault' PROVE Handles'
  BY <1>18 DEF TestThread, After
<1>19. ASSUME NEW t \in Callers, JoinThread(t), ~fault' PROVE Handles'
  BY <1>19 DEF JoinThread, After
<1>20. ASSUME NEW t \in Callers, DestroyMembers(t), ~fault' PROVE Handles'
  BY <1>20 DEF DestroyMembers
<1>21. ASSUME NEW t \in Callers, JoinReturn(t), ~fault' PROVE Handles'
  BY <1>21 DEF JoinReturn
<1>22. ASSUME NEW t \in Callers, RunCheck(t), ~fault' PROVE Handles'
  BY <1>22 DEF RunCheck
<1>23. ASSUME NEW t \in Callers, StopCheck(t), ~fault' PROVE Handles'
  BY <1>23 DEF StopCheck
<1>24. ASSUME NEW t \in Callers, JoinCall(t), ~fault' PROVE Handles'
  BY <1>24 DEF JoinCall
<1>25. ASSUME NEW t \in Callers, Destroy(t), ~fault' PROVE Handles'
  BY <1>25 DEF Destroy
<1>26. ASSUME NEW a \in Acceptors, HandlerStart(a), ~fault' PROVE Handles'
  BY <1>26 DEF HandlerStart
<1>27. ASSUME NEW a \in Acceptors, CheckRun(a), ~fault' PROVE Handles'
  BY <1>27 DEF CheckRun, PostNext, DropSocket
<1>28. ASSUME NEW a \in Acceptors, Spawn(a), ~fault' PROVE Handles'
  BY <1>28 DEF Spawn, Failed, DropSocket
<1>29. ASSUME NEW a \in Acceptors, AcceptorExit(a), ~fault' PROVE Handles'
  BY <1>29 DEF AcceptorExit, Release
<1> HIDE DEF IInv, TypeOK, Handles, Over, Goto, Size, Threads, Labels,
    InStop, InHandler, Posting, serverVars, dispatchVars, serviceVars, threadVars, socketVars
<1> QED
  BY OwnerKinds, <1>1, <1>2, <1>3, <1>4, <1>5, <1>6, <1>7, <1>8, <1>9, <1>10, <1>11, <1>12, <1>13,
     <1>14, <1>15, <1>16, <1>17, <1>18, <1>19, <1>20, <1>21, <1>22, <1>23, <1>24, <1>25, <1>26,
     <1>27, <1>28, <1>29 DEF CallerStep, Call, IInv

\* Every step of a server with one owner keeps Joined.
LEMMA JoinedStep ==
  ASSUME NEW c, Callers = {c}, IInv, Handles, Joined(c), [Next]_vars
  PROVE  Joined(c)'
<1> USE ServerAssumption DEF IInv, TypeOK, Handles, Joined, Over, Goto, Size, Threads, Labels,
    InStop, InHandler, Posting, serverVars, dispatchVars, serviceVars, threadVars, socketVars
<1>1. CASE Apart
  BY <1>1 DEF Apart
<1>2. ASSUME Dies PROVE Joined(c)'
  BY <1>2 DEF Dies, Die
<1>3. ASSUME NEW t \in Threads, GetService(t) PROVE Joined(c)'
  BY GetServiceMoves, <1>3 DEF Posting
<1>4. ASSUME NEW t \in Threads, AsyncAccept(t) PROVE Joined(c)'
  BY <1>4 DEF AsyncAccept
<1>5. ASSUME NEW t \in Threads, AcceptThrows(t) PROVE Joined(c)'
  BY <1>5 DEF AcceptThrows
<1>6. ASSUME NEW t \in Callers, SetRun(t) PROVE Joined(c)'
  BY <1>6 DEF SetRun
<1>7. ASSUME NEW t \in Callers, MakeThread(t) PROVE Joined(c)'
  BY <1>7 DEF MakeThread
<1>8. ASSUME NEW t \in Callers, MakeThreadFails(t) PROVE Joined(c)'
  BY <1>8 DEF MakeThreadFails
<1>9. ASSUME NEW t \in Callers, ClearRun(t) PROVE Joined(c)'
  BY <1>9 DEF ClearRun
<1>10. ASSUME NEW t \in Callers, TestHandle(t) PROVE Joined(c)'
  BY <1>10 DEF TestHandle
<1>11. ASSUME NEW t \in Callers, CancelAcceptor(t) PROVE Joined(c)'
  BY <1>11 DEF CancelAcceptor
<1>12. ASSUME NEW t \in Callers, HaltService(t) PROVE Joined(c)'
  BY <1>12 DEF HaltService, Release
<1>13. ASSUME NEW t \in Callers, BeginServices(t) PROVE Joined(c)'
  BY <1>13 DEF BeginServices
<1>14. ASSUME NEW t \in Callers, ResetWork(t) PROVE Joined(c)'
  BY <1>14 DEF ResetWork
<1>15. ASSUME NEW t \in Callers, ClearClients(t) PROVE Joined(c)'
  BY <1>15 DEF ClearClients
<1>16. ASSUME NEW t \in Callers, JoinWorker(t) PROVE Joined(c)'
  BY <1>16 DEF JoinWorker
<1>17. ASSUME NEW t \in Callers, ClearServices(t) PROVE Joined(c)'
  BY <1>17 DEF ClearServices
<1>18. ASSUME NEW t \in Callers, TestThread(t) PROVE Joined(c)'
  BY <1>18 DEF TestThread, After
<1>19. ASSUME NEW t \in Callers, JoinThread(t) PROVE Joined(c)'
  BY <1>19 DEF JoinThread, After
<1>20. ASSUME NEW t \in Callers, DestroyMembers(t) PROVE Joined(c)'
  BY <1>20 DEF DestroyMembers
<1>21. ASSUME NEW t \in Callers, JoinReturn(t) PROVE Joined(c)'
  BY <1>21 DEF JoinReturn
<1>22. ASSUME NEW t \in Callers, RunCheck(t) PROVE Joined(c)'
  BY <1>22 DEF RunCheck
<1>23. ASSUME NEW t \in Callers, StopCheck(t) PROVE Joined(c)'
  BY <1>23 DEF StopCheck
<1>24. ASSUME NEW t \in Callers, JoinCall(t) PROVE Joined(c)'
  BY <1>24 DEF JoinCall
<1>25. ASSUME NEW t \in Callers, Destroy(t) PROVE Joined(c)'
  BY <1>25 DEF Destroy
<1>26. ASSUME NEW a \in Acceptors, HandlerStart(a) PROVE Joined(c)'
  BY <1>26 DEF HandlerStart
<1>27. ASSUME NEW a \in Acceptors, CheckRun(a) PROVE Joined(c)'
  BY <1>27 DEF CheckRun, PostNext, DropSocket
<1>28. ASSUME NEW a \in Acceptors, Spawn(a) PROVE Joined(c)'
  BY <1>28 DEF Spawn, Failed, DropSocket
<1>29. ASSUME NEW a \in Acceptors, AcceptorExit(a) PROVE Joined(c)'
  BY <1>29 DEF AcceptorExit, Release
<1> HIDE DEF IInv, TypeOK, Handles, Joined, Over, Goto, Size, Threads, Labels, InStop, InHandler, Posting,
    serverVars, dispatchVars, serviceVars, threadVars, socketVars
<1> QED
  BY OwnerKinds, <1>1, <1>2, <1>3, <1>4, <1>5, <1>6, <1>7, <1>8, <1>9, <1>10, <1>11, <1>12, <1>13,
     <1>14, <1>15, <1>16, <1>17, <1>18, <1>19, <1>20, <1>21, <1>22, <1>23, <1>24, <1>25, <1>26,
     <1>27, <1>28, <1>29 DEF CallerStep, Call, IInv

\* Every step of a server with one owner keeps Links.
LEMMA LinksStep ==
  ASSUME NEW c, Callers = {c}, IInv, Handles, Joined(c), Links(c), [Next]_vars
  PROVE  Links(c)'
<1> USE ServerAssumption DEF IInv, TypeOK, Handles, Joined, Links, OneLink, Over, Pending, Posts,
    Post, Goto, Size, Threads, Labels, InStop, InHandler, Posting, serverVars, dispatchVars, serviceVars,
    threadVars, socketVars
<1>1. CASE Apart
  BY <1>1 DEF Apart
<1>2. ASSUME Dies PROVE Links(c)'
  BY <1>2 DEF Dies, Die
<1>3. ASSUME NEW t \in Threads, GetService(t) PROVE Links(c)'
  <2>1. pc'[t] = "accept" => Size > 0
    BY <1>3, PickIndexes
  <2>2. UNCHANGED <<serverVars, co, home>>
    BY <1>3, GetServiceMoves
  <2>3. /\ pc[t] \in Post /\ pc'[t] \in Post \ {"check"}
        /\ \A u \in Threads \ {t} : pc'[u] = pc[u]
    BY <1>3, GetServiceMoves
  <2>4. t = c \/ (t = thread /\ t \in Acceptors /\ thread # None)
    BY <2>3
  <2> QED
    BY <2>1, <2>2, <2>3, <2>4
<1>4. ASSUME NEW t \in Threads, AsyncAccept(t) PROVE Links(c)'
  <2>1. PICK k \in Unused : co' = [co EXCEPT ![k] = "accepting"]
    BY <1>4 DEF AsyncAccept
  <2>2. pc[t] \in Post /\ ~Pending
    BY <1>4 DEF AsyncAccept
  <2>3. k \in Sockets /\ \A l \in Sockets : co'[l] = "accepting" <=> l = k
    BY <2>1, <2>2 DEF Unused
  <2>4. \A u \in Threads : pc'[u] \notin Post
    BY <1>4, <2>2 DEF AsyncAccept
  <2>5. OneLink'
    BY <2>3, <2>4
  <2>6. Pending'
    BY <2>3
  <2>7. UNCHANGED serverVars
    BY <1>4 DEF AsyncAccept
  <2>8. CASE t = c
    BY <1>4, <2>5, <2>6, <2>7, <2>8 DEF AsyncAccept
  <2>9. CASE t \in Acceptors
    <3>1. t = thread /\ thread # None /\ pc'[c] = pc[c] /\ pc'[t] = "spawn"
      BY <1>4, <2>9 DEF AsyncAccept
    <3> QED
      BY <2>5, <2>6, <2>7, <2>9, <3>1
  <2> QED
    BY <2>8, <2>9
<1>5. ASSUME NEW t \in Threads, AcceptThrows(t) PROVE Links(c)'
  BY <1>5 DEF AcceptThrows
<1>6. ASSUME NEW t \in Callers, SetRun(t) PROVE Links(c)'
  BY <1>6 DEF SetRun
<1>7. ASSUME NEW t \in Callers, MakeThread(t) PROVE Links(c)'
  BY <1>7 DEF MakeThread
<1>8. ASSUME NEW t \in Callers, MakeThreadFails(t) PROVE Links(c)'
  BY <1>8 DEF MakeThreadFails
<1>9. ASSUME NEW t \in Callers, ClearRun(t) PROVE Links(c)'
  BY <1>9 DEF ClearRun
<1>10. ASSUME NEW t \in Callers, TestHandle(t) PROVE Links(c)'
  BY <1>10 DEF TestHandle
<1>11. ASSUME NEW t \in Callers, CancelAcceptor(t) PROVE Links(c)'
  BY <1>11 DEF CancelAcceptor
<1>12. ASSUME NEW t \in Callers, HaltService(t) PROVE Links(c)'
  BY <1>12 DEF HaltService, Release
<1>13. ASSUME NEW t \in Callers, BeginServices(t) PROVE Links(c)'
  BY <1>13 DEF BeginServices
<1>14. ASSUME NEW t \in Callers, ResetWork(t) PROVE Links(c)'
  BY <1>14 DEF ResetWork
<1>15. ASSUME NEW t \in Callers, ClearClients(t) PROVE Links(c)'
  BY <1>15 DEF ClearClients
<1>16. ASSUME NEW t \in Callers, JoinWorker(t) PROVE Links(c)'
  BY <1>16 DEF JoinWorker
<1>17. ASSUME NEW t \in Callers, ClearServices(t) PROVE Links(c)'
  BY <1>17 DEF ClearServices
<1>18. ASSUME NEW t \in Callers, TestThread(t) PROVE Links(c)'
  BY <1>18 DEF TestThread, After
<1>19. ASSUME NEW t \in Callers, JoinThread(t) PROVE Links(c)'
  BY <1>19 DEF JoinThread, After
<1>20. ASSUME NEW t \in Callers, DestroyMembers(t) PROVE Links(c)'
  BY <1>20 DEF DestroyMembers
<1>21. ASSUME NEW t \in Callers, JoinReturn(t) PROVE Links(c)'
  BY <1>21 DEF JoinReturn
<1>22. ASSUME NEW t \in Callers, RunCheck(t) PROVE Links(c)'
  BY <1>22 DEF RunCheck
<1>23. ASSUME NEW t \in Callers, StopCheck(t) PROVE Links(c)'
  BY <1>23 DEF StopCheck
<1>24. ASSUME NEW t \in Callers, JoinCall(t) PROVE Links(c)'
  BY <1>24 DEF JoinCall
<1>25. ASSUME NEW t \in Callers, Destroy(t) PROVE Links(c)'
  BY <1>25 DEF Destroy
<1>26. ASSUME NEW a \in Acceptors, HandlerStart(a) PROVE Links(c)'
  BY <1>26 DEF HandlerStart
<1>27. ASSUME NEW a \in Acceptors, CheckRun(a) PROVE Links(c)'
  BY <1>27 DEF CheckRun, PostNext, DropSocket
<1>28. ASSUME NEW a \in Acceptors, Spawn(a) PROVE Links(c)'
  <2>1. arg[a] \in Sockets /\ co[arg[a]] # "accepting"
    BY <1>28 DEF Spawn, HandlersOK
  <2>2. \A k \in Sockets : co'[k] = "accepting" <=> co[k] = "accepting"
    BY <1>28, <2>1 DEF Spawn, DropSocket
  <2>3. pc' = [pc EXCEPT ![a] = "wait"] /\ UNCHANGED serverVars
    BY <1>28 DEF Spawn, DropSocket
  <2>4. OneLink' /\ (Pending' <=> Pending) /\ (Posts' <=> Posts)
    BY <1>28, <2>2, <2>3 DEF Spawn
  <2>5. pc'[c] = pc[c] /\ pc[a] \notin Over
    BY <1>28, <2>3 DEF Spawn
  <2>6. a = thread
    BY <2>5
  <2> QED
    BY <2>3, <2>4, <2>5, <2>6
<1>29. ASSUME NEW a \in Acceptors, AcceptorExit(a) PROVE Links(c)'
  BY <1>29 DEF AcceptorExit, Release
<1> HIDE DEF IInv, TypeOK, Handles, Joined, Links, OneLink, Over, Pending, Posts, Post, Goto,
    Size, Threads, Labels, InStop, InHandler, Posting, serverVars, dispatchVars, serviceVars, threadVars,
    socketVars
<1> QED
  BY OwnerKinds, <1>1, <1>2, <1>3, <1>4, <1>5, <1>6, <1>7, <1>8, <1>9, <1>10, <1>11, <1>12, <1>13,
     <1>14, <1>15, <1>16, <1>17, <1>18, <1>19, <1>20, <1>21, <1>22, <1>23, <1>24, <1>25, <1>26,
     <1>27, <1>28, <1>29 DEF CallerStep, Call, IInv

LEMMA InitOwner == Init => Handles /\ \A c \in Callers : Joined(c) /\ Links(c)
<1> SUFFICES ASSUME Init PROVE Handles /\ \A c \in Callers : Joined(c) /\ Links(c)
  OBVIOUS
<1> USE ServerAssumption DEF Init, Threads, Over, Post, Posting
<1>1. Handles
  BY DEF Handles, Size, InStop
<1>2. ~Pending /\ ~Posts
  BY DEF Pending, Posts
<1>3. ASSUME NEW c \in Callers PROVE Joined(c)
  BY DEF Joined, InStop
<1>4. ASSUME NEW c \in Callers PROVE Links(c)
  BY <1>2 DEF Links, OneLink
<1> QED
  BY <1>1, <1>3, <1>4

\* However many threads call the server, its pointers are there outside stop().
THEOREM HandlesHold == Spec => []Handles
<1>1. Init => Handles
  BY InitOwner
<1>2. IInv /\ Handles /\ [Next]_vars => Handles'
  BY HandlesStep
<1> QED
  BY Invariance, <1>1, <1>2, PTL DEF Spec

\* The invariants of a server that one thread owns.
LEMMA OwnerInvariance ==
  ASSUME NEW c, Callers = {c}
  PROVE  Spec => [](IInv /\ Handles /\ Joined(c) /\ Links(c))
<1>1. Init => Handles /\ Joined(c) /\ Links(c)
  BY InitOwner
<1>2. IInv /\ Handles /\ Joined(c) /\ Links(c) /\ [Next]_vars => Handles' /\ Joined(c)' /\ Links(c)'
  BY HandlesStep, JoinedStep, LinksStep
<1> QED
  BY Invariance, <1>1, <1>2, PTL DEF Spec

\* A step of a server with one owner that is undefined is one of a stop() or meets no services:
\* null handles are Handles', two posts at once Links', a second user of _thread is excluded.
LEMMA FaultStep ==
  ASSUME NEW c, Callers = {c}, IInv, Handles, Joined(c), Links(c), FaultOnlyWhileStopping, [Next]_vars
  PROVE  FaultOnlyWhileStopping'
<1> USE ServerAssumption
<1> DEFINE Excused == Size = 0 \/ pc[c] \in InStop
<1>0. Excused => Size = 0 \/ \E t \in Callers : pc[t] \in InStop
  OBVIOUS
<1>1. ASSUME NEW t \in Threads, pc[t] \in InStop PROVE Excused
  BY <1>1 DEF Handles, Over, InStop, InHandler, Posting, Threads
<1>2. ASSUME NEW t \in Threads, BadHandle(t) PROVE Excused
  <2>1. CASE pc[t] \in {"scan", "pick"} /\ pos > Size
    BY <2>1 DEF IInv, TypeOK, DispatchOK, Size
  <2>2. CASE pc[t] \in {"accept", "make_thread"} /\ (~acceptor \/ service = "null")
    BY <2>2 DEF Handles
  <2>3. CASE pc[t] \in InStop
    BY <1>1, <2>3
  <2> QED
    BY <1>2, <2>1, <2>2, <2>3 DEF BadHandle, InStop
<1>3. ASSUME NEW t \in Threads, Races(t) PROVE Excused
  <2>1. PICK u \in Threads \ {t} :
          \E m \in DOMAIN Changes :
             pc[t] \in Changes[m] /\ (pc[u] \in Changes[m] \cup Uses[m] \/ (m = "_thread" /\ Joins(u)))
    BY <1>3 DEF Races
  <2>2. CASE pc[t] \in InStop \/ pc[u] \in InStop
    BY <1>1, <2>2
  <2>3. CASE pc[t] = "accept" /\ pc[u] = "accept"
    BY <2>1, <2>3 DEF Links, OneLink, Post, Posting
  <2>4. CASE pc[t] = "make_thread" /\ (pc[u] = "make_thread" \/ Joins(u))
    <3>1. t = c
      BY <2>4 DEF Handles, Over, InHandler, Posting, Threads
    <3>2. u \in Acceptors
      BY <2>1, <3>1 DEF Threads
    <3> QED
      BY <2>4, <3>1, <3>2 DEF Handles, Over, InHandler, Posting, Joins
  <2> QED
    BY <2>1, <2>2, <2>3, <2>4 DEF Changes, Uses, InStop
<1>4. CASE fault
  <2>1. UNCHANGED vars
    BY <1>4 DEF Next
  <2> QED
    BY <2>1 DEF vars, serverVars, threadVars, FaultOnlyWhileStopping, Size
<1>5. ASSUME ~fault, Dies PROVE FaultOnlyWhileStopping'
  <2>1. UNCHANGED <<serverVars, threadVars>>
    BY <1>5 DEF Dies, Die
  <2>2. ASSUME alive = "dead" PROVE Excused
    BY <2>2 DEF IInv, ListedOK, Size
  <2>3. ASSUME \E k \in Sockets : Clearing(home[k]) # {} PROVE Excused
    BY <2>3 DEF Clearing, InStop
  <2>4. Excused
    BY <1>2, <1>3, <1>5, <2>2, <2>3 DEF Dies
  <2> QED
    BY <1>0, <2>1, <2>4 DEF FaultOnlyWhileStopping, Size, InStop, serverVars, threadVars
<1>6. ASSUME ~fault' PROVE FaultOnlyWhileStopping'
  BY <1>6 DEF FaultOnlyWhileStopping
<1> QED
  BY OwnerKinds, <1>4, <1>5, <1>6 DEF Apart

\* With one thread that runs and stops the server, undefined behaviour needs a stop() in progress
\* or an empty _services, however many connections there are: serving clients is safe.
THEOREM ServingIsSafe ==
  ASSUME NEW c, Callers = {c}
  PROVE  Spec => []FaultOnlyWhileStopping
<1>1. Init => FaultOnlyWhileStopping
  BY DEF Init, FaultOnlyWhileStopping
<1>2. ASSUME IInv, Handles, Joined(c), Links(c), FaultOnlyWhileStopping, [Next]_vars
      PROVE  FaultOnlyWhileStopping'
  BY <1>2, FaultStep
<1> QED
  BY OwnerInvariance, <1>1, <1>2, PTL DEF Spec

\* Only one thread is ever in get_service, so no step comes between its test and its --_flag.
LEMMA CountdownStep ==
  ASSUME NEW c, Callers = {c}, IInv, Links(c), Countdown, [Next]_vars
  PROVE  Countdown'
<1> USE ServerAssumption
<1>1. flag \in Nat /\ PollInit \in Nat \ {0} /\ pc \in [Threads -> Labels] /\ held \in [Threads -> Nat]
  BY DEF IInv, TypeOK, PollInit
<1>2. ASSUME NEW t \in Threads, GetService(t) PROVE Countdown'
  <2>1. \A u \in Threads \ {t} : pc[u] # "take" /\ pc'[u] # "take"
    BY <1>1, <1>2, GetServiceMoves DEF Links, OneLink, Post, Posting
  <2>2. CASE TestFlag(t)
    BY <1>1, <2>1, <2>2 DEF TestFlag, Countdown, Goto
  <2>3. CASE Decrement(t)
    BY <1>1, <2>1, <2>3 DEF Decrement, Countdown, Goto, Less
  <2>4. CASE ScanEnds(t)
    BY <1>1, <2>1, <2>4 DEF ScanEnds, Countdown, Goto
  <2>5. CASE ScanBegins(t) \/ ScanFirst(t) \/ ScanNext(t) \/ ScanKeeps(t) \/ Pick(t)
    <3>1. UNCHANGED flag
      BY <2>5 DEF ScanBegins, ScanFirst, ScanNext, ScanKeeps, Pick, dispatchVars
    <3>2. pc'[t] # "take"
      BY <1>1, <2>5 DEF ScanBegins, ScanFirst, ScanNext, ScanKeeps, Pick, Goto
    <3> QED
      BY <2>1, <3>1, <3>2 DEF Countdown
  <2> QED
    BY <1>2, <2>2, <2>3, <2>4, <2>5 DEF GetService
<1>3. ASSUME UNCHANGED dispatchVars, \A u \in Threads : pc'[u] = "take" => pc[u] = "take"
      PROVE  Countdown'
  BY <1>3 DEF Countdown, dispatchVars
<1>4. ASSUME [Next]_vars, \A t \in Threads : ~GetService(t) PROVE UNCHANGED dispatchVars
  <2>1. ASSUME NEW t \in Callers, CallStep(t), ~GetService(t) PROVE UNCHANGED dispatchVars
    BY <2>1 DEF CallStep, AcceptThrows, AsyncAccept, SetRun, MakeThread, MakeThreadFails,
       ClearRun, TestHandle, CancelAcceptor, HaltService, BeginServices, ResetWork, CloseOne,
       ClearClients, JoinWorker, ClearServices, TestThread, JoinThread, DestroyMembers,
       JoinReturn, UseBadHandle, Die
  <2>2. ASSUME NEW t \in Callers, Call(t) PROVE UNCHANGED dispatchVars
    BY <2>2 DEF Call, RunCheck, StopCheck, JoinCall, Destroy
  <2>3. ASSUME NEW a \in Acceptors, HandlerStart(a) \/ HandlerStep(a), ~GetService(a)
        PROVE  UNCHANGED dispatchVars
    BY <2>3 DEF HandlerStart, HandlerStep, CheckRun, AsyncAccept, AcceptThrows, Spawn,
       UseBadHandle, Die, AcceptorExit, UseAfterDestroy
  <2>4. ASSUME NEW k \in Sockets, CoStep(k) PROVE UNCHANGED dispatchVars
    BY <2>4 DEF CoStep, CoStart, StartRead, Refused, Leave, Resume, ReadAborted, CoEnd
  <2>5. ASSUME NEW k \in Sockets, Network(k) \/ TimerExpires(k) \/ HandlerTimer(k) \/ RacingClear(k)
        PROVE  UNCHANGED dispatchVars
    BY <2>5 DEF Network, ReadCompletes, PeerCloses, Leave, TimerExpires, HandlerTimer, RacingClear, Die
  <2>6. ASSUME NEW i \in Services, WorkerExit(i) PROVE UNCHANGED dispatchVars
    BY <2>6 DEF WorkerExit
  <2>7. CASE UNCHANGED vars
    BY <2>7 DEF vars, dispatchVars
  <2> QED
    BY <1>4, <2>1, <2>2, <2>3, <2>4, <2>5, <2>6, <2>7 DEF Next, Threads
<1>5. ASSUME [Next]_vars, \A t \in Threads : ~GetService(t)
      PROVE  \A u \in Threads : pc'[u] = "take" => pc[u] = "take"
  <2>1. CASE Apart \/ Dies
    BY <2>1 DEF Apart, Dies, Die, threadVars
  <2>2. ASSUME NEW t \in Threads, AsyncAccept(t) \/ AcceptThrows(t)
        PROVE  \A u \in Threads : pc'[u] = "take" => pc[u] = "take"
    BY <1>1, <2>2 DEF AsyncAccept, AcceptThrows, Goto
  <2>3. ASSUME NEW t \in Callers, CallerStep(t)
        PROVE  \A u \in Threads : pc'[u] = "take" => pc[u] = "take"
    BY <1>1, <2>3 DEF CallerStep, Call, SetRun, MakeThread, MakeThreadFails, ClearRun, TestHandle,
     CancelAcceptor, HaltService, BeginServices, ResetWork, ClearClients, JoinWorker, ClearServices,
     TestThread, JoinThread, DestroyMembers, JoinReturn, RunCheck, StopCheck, JoinCall, Destroy,
     Goto, After, Threads
  <2>4. ASSUME NEW a \in Acceptors, HandlerStart(a) \/ CheckRun(a) \/ Spawn(a) \/ AcceptorExit(a)
        PROVE  \A u \in Threads : pc'[u] = "take" => pc[u] = "take"
    BY <1>1, <2>4 DEF HandlerStart, CheckRun, PostNext, DropSocket, Spawn, AcceptorExit, Goto, Threads
  <2> QED
    BY OwnerKinds, <1>5, <2>1, <2>2, <2>3, <2>4
<1> QED
  BY <1>2, <1>3, <1>4, <1>5

\* With one thread that runs and stops the server, _flag counts down from poll and starts over:
\* it never goes below zero, through failed posts and accepts, runs and stops (395-414).
THEOREM CountdownHolds ==
  ASSUME NEW c, Callers = {c}
  PROVE  Spec => []Countdown
<1>1. Init => Countdown
  BY ServerAssumption DEF Init, Countdown, PollInit
<1>2. ASSUME IInv, Links(c), Countdown, [Next]_vars PROVE Countdown'
  BY <1>2, CountdownStep
<1> QED
  BY OwnerInvariance, <1>1, <1>2, PTL DEF Spec

\* A server that runs has exactly one accept pending or about to be posted: it is never
\* deaf and never accepts twice, through failed posts, failed accepts and stop() (371-424).
THEOREM OneAcceptAtATime ==
  ASSUME NEW c, Callers = {c}
  PROVE  Spec => []AcceptChain
<1>1. ASSUME Links(c) PROVE AcceptChain
  <2> DEFINE accs == {k \in Sockets : co[k] = "accepting"}
  <2> DEFINE posts == {t \in Threads : pc[t] \in Post}
  <2>1. accs = {} \/ \E k : accs = {k}
    BY <1>1 DEF Links, OneLink
  <2>2. posts = {} \/ \E t : posts = {t}
    <3>1. \A t, u \in posts : t = u
      BY <1>1 DEF Links, OneLink
    <3> HIDE DEF posts
    <3> QED
      BY <3>1
  <2>3. accs = {} \/ posts = {}
    BY <1>1 DEF Links, OneLink, Pending, Posts
  <2>4. run => accs # {} \/ posts # {}
    BY <1>1 DEF Links, Pending, Posts
  <2>5. AcceptChain <=> /\ Cardinality(accs) + Cardinality(posts) <= 1
                        /\ run => Cardinality(accs) + Cardinality(posts) = 1
    BY DEF AcceptChain, Post
  <2> HIDE DEF accs, posts
  <2>6. (accs = {} => Cardinality(accs) = 0) /\ (posts = {} => Cardinality(posts) = 0)
    BY FS_EmptySet
  <2>7. (accs # {} => Cardinality(accs) = 1) /\ (posts # {} => Cardinality(posts) = 1)
    BY <2>1, <2>2, FS_Singleton
  <2> QED
    BY <2>3, <2>4, <2>5, <2>6, <2>7
<1> QED
  BY OwnerInvariance, <1>1, PTL

\* After the destructor nothing of the server runs: no handler of the acceptor and no
\* callback of a connection touches the object (266-269).
THEOREM NothingAfterTheEnd ==
  ASSUME NEW c, Callers = {c}
  PROVE  Spec => []QuietWhenGone
<1>1. ASSUME IInv, Joined(c) PROVE QuietWhenGone
  <2> SUFFICES ASSUME alive = "dead"
                PROVE  /\ \A a \in Acceptors : pc[a] \notin InHandler
                       /\ \A k \in Sockets : co[k] \notin Live \cup {"closed"}
    BY DEF QuietWhenGone
  <2>1. thread = None
    BY <1>1 DEF Joined, InStop
  <2>2. \A a \in Acceptors : pc[a] \in Over
    BY <1>1, <2>1, ServerAssumption DEF Joined
  <2>3. ~(\E k \in Sockets : co[k] # "free" /\ Serving(k))
    BY <1>1, ServingAlive
  <2>4. \A k \in Sockets : ~Serving(k) => co[k] \notin Live \cup {"closed"}
    BY <1>1 DEF IInv, WorkersDrained, Serving
  <2> QED
    BY <2>2, <2>3, <2>4 DEF Over, InHandler, Posting, Live
<1> QED
  BY OwnerInvariance, <1>1, PTL
-----------------------------------------------------------------------------
(* What the calls wait for: for any threads that call, JoinsCanEnd and      *)
(* ReadsAreTimed.                                                           *)

Past    == {"services", "work", "closing", "join", "clear", "thread", "members"}
Halting == {"acceptor", "cancel", "service", "halt"}
Joining == {"join_thread", "join_wait"}

\* While there is a thread, or will be, the io_service is there only under a run() or a stop()
\* that has still to come to it; whoever is past it and finds a thread to join has no io_service.
Halts ==
  /\ \A t, u \in Callers : alive # "alive" /\ pc[t] # "idle" /\ pc[u] # "idle" => t = u
  /\ service = "running" /\ (thread # None \/ \E t \in Callers : pc[t] = "make_thread") =>
       run \/ \E t \in Callers : pc[t] \in Halting
  /\ \A t \in Callers : pc[t] \in Past => service = "null" \/ (alive # "alive" /\ thread = None)
  /\ \A t \in Callers : pc[t] = "members" => alive = "dying"
  /\ \A t \in Callers : pc[t] = "join_thread" => service = "null"
  /\ \A t \in Callers : pc[t] \in Joining => arg[t] \in Acceptors /\ pc[arg[t]] # "none"
  /\ thread # None => pc[thread] # "none"

\* Every step keeps Halts.
LEMMA HaltsStep ==
  ASSUME IInv, Handles, Halts, [Next]_vars
  PROVE  Halts'
<1> USE ServerAssumption DEF IInv, TypeOK, Handles, Halts, Past, Halting, Joining, Over, Goto, Size,
    Threads, Labels, InStop, InRun, InHandler, Posting, serverVars, dispatchVars, serviceVars, threadVars,
    socketVars
<1>1. CASE Apart
  BY <1>1 DEF Apart
<1>2. CASE Dies
  BY <1>2 DEF Dies, Die
<1>3. ASSUME NEW t \in Threads, GetService(t) PROVE Halts'
  BY GetServiceMoves, <1>3 DEF Posting
<1>4. ASSUME NEW t \in Threads, AsyncAccept(t) PROVE Halts'
  BY <1>4 DEF AsyncAccept
<1>5. ASSUME NEW t \in Threads, AcceptThrows(t) PROVE Halts'
  BY <1>5 DEF AcceptThrows
<1>6. ASSUME NEW t \in Callers, SetRun(t) PROVE Halts'
  BY <1>6 DEF SetRun
<1>7. ASSUME NEW t \in Callers, MakeThread(t) PROVE Halts'
  BY <1>7 DEF MakeThread
<1>8. ASSUME NEW t \in Callers, MakeThreadFails(t) PROVE Halts'
  BY <1>8 DEF MakeThreadFails
<1>9. ASSUME NEW t \in Callers, ClearRun(t) PROVE Halts'
  BY <1>9 DEF ClearRun
<1>10. ASSUME NEW t \in Callers, TestHandle(t) PROVE Halts'
  BY <1>10 DEF TestHandle
<1>11. ASSUME NEW t \in Callers, CancelAcceptor(t) PROVE Halts'
  BY <1>11 DEF CancelAcceptor
<1>12. ASSUME NEW t \in Callers, HaltService(t) PROVE Halts'
  BY <1>12 DEF HaltService, Release
<1>13. ASSUME NEW t \in Callers, BeginServices(t) PROVE Halts'
  BY <1>13 DEF BeginServices
<1>14. ASSUME NEW t \in Callers, ResetWork(t) PROVE Halts'
  BY <1>14 DEF ResetWork
<1>15. ASSUME NEW t \in Callers, ClearClients(t) PROVE Halts'
  BY <1>15 DEF ClearClients
<1>16. ASSUME NEW t \in Callers, JoinWorker(t) PROVE Halts'
  BY <1>16 DEF JoinWorker
<1>17. ASSUME NEW t \in Callers, ClearServices(t) PROVE Halts'
  BY <1>17 DEF ClearServices
<1>18. ASSUME NEW t \in Callers, TestThread(t) PROVE Halts'
  BY <1>18 DEF TestThread, After
<1>19. ASSUME NEW t \in Callers, JoinThread(t) PROVE Halts'
  BY <1>19 DEF JoinThread, After
<1>20. ASSUME NEW t \in Callers, DestroyMembers(t) PROVE Halts'
  BY <1>20 DEF DestroyMembers
<1>21. ASSUME NEW t \in Callers, JoinReturn(t) PROVE Halts'
  BY <1>21 DEF JoinReturn
<1>22. ASSUME NEW t \in Callers, RunCheck(t) PROVE Halts'
  BY <1>22 DEF RunCheck
<1>23. ASSUME NEW t \in Callers, StopCheck(t) PROVE Halts'
  BY <1>23 DEF StopCheck
<1>24. ASSUME NEW t \in Callers, JoinCall(t) PROVE Halts'
  BY <1>24 DEF JoinCall
<1>25. ASSUME NEW t \in Callers, Destroy(t) PROVE Halts'
  BY <1>25 DEF Destroy
<1>26. ASSUME NEW a \in Acceptors, HandlerStart(a) PROVE Halts'
  BY <1>26 DEF HandlerStart
<1>27. ASSUME NEW a \in Acceptors, CheckRun(a) PROVE Halts'
  BY <1>27 DEF CheckRun, PostNext, DropSocket
<1>28. ASSUME NEW a \in Acceptors, Spawn(a) PROVE Halts'
  BY <1>28 DEF Spawn, Failed, DropSocket
<1>29. ASSUME NEW a \in Acceptors, AcceptorExit(a) PROVE Halts'
  BY <1>29 DEF AcceptorExit, Release
<1> HIDE DEF IInv, TypeOK, Handles, Halts, Past, Halting, Joining, Over, Goto, Size, Threads,
    Labels, InStop, InRun, InHandler, Posting, serverVars, dispatchVars, serviceVars, threadVars, socketVars
<1> QED
  BY OwnerKinds, <1>1, <1>2, <1>3, <1>4, <1>5, <1>6, <1>7, <1>8, <1>9, <1>10, <1>11, <1>12,
     <1>13, <1>14, <1>15, <1>16, <1>17, <1>18, <1>19, <1>20, <1>21, <1>22, <1>23, <1>24, <1>25,
     <1>26, <1>27, <1>28, <1>29 DEF CallerStep, Call, IInv

\* Only the acceptor opens sockets.
LEMMA OpenStep ==
  ASSUME IInv, [Next]_vars
  PROVE  (\A k \in Sockets : open'[k] => open[k]) \/ \E a \in Acceptors : HandlerStart(a)
<1> DEFINE NoneOpens == \A k \in Sockets : open'[k] => open[k]
<1> USE DEF IInv, TypeOK, HandlersOK, InHandler, socketVars
<1>1. CASE Apart
  BY <1>1 DEF Apart
<1>2. CASE Dies
  BY <1>2 DEF Dies, Die
<1>3. ASSUME NEW t \in Threads, GetService(t) PROVE NoneOpens
  BY GetServiceMoves, <1>3 DEF Posting
<1>4. ASSUME NEW t \in Threads, AsyncAccept(t) PROVE NoneOpens
  BY <1>4 DEF AsyncAccept
<1>5. ASSUME NEW t \in Threads, AcceptThrows(t) PROVE NoneOpens
  BY <1>5 DEF AcceptThrows
<1>6. ASSUME NEW t \in Callers, SetRun(t) PROVE NoneOpens
  BY <1>6 DEF SetRun
<1>7. ASSUME NEW t \in Callers, MakeThread(t) PROVE NoneOpens
  BY <1>7 DEF MakeThread
<1>8. ASSUME NEW t \in Callers, MakeThreadFails(t) PROVE NoneOpens
  BY <1>8 DEF MakeThreadFails
<1>9. ASSUME NEW t \in Callers, ClearRun(t) PROVE NoneOpens
  BY <1>9 DEF ClearRun
<1>10. ASSUME NEW t \in Callers, TestHandle(t) PROVE NoneOpens
  BY <1>10 DEF TestHandle
<1>11. ASSUME NEW t \in Callers, CancelAcceptor(t) PROVE NoneOpens
  BY <1>11 DEF CancelAcceptor
<1>12. ASSUME NEW t \in Callers, HaltService(t) PROVE NoneOpens
  BY <1>12 DEF HaltService, Release
<1>13. ASSUME NEW t \in Callers, BeginServices(t) PROVE NoneOpens
  BY <1>13 DEF BeginServices
<1>14. ASSUME NEW t \in Callers, ResetWork(t) PROVE NoneOpens
  BY <1>14 DEF ResetWork
<1>15. ASSUME NEW t \in Callers, ClearClients(t) PROVE NoneOpens
  BY <1>15 DEF ClearClients
<1>16. ASSUME NEW t \in Callers, JoinWorker(t) PROVE NoneOpens
  BY <1>16 DEF JoinWorker
<1>17. ASSUME NEW t \in Callers, ClearServices(t) PROVE NoneOpens
  BY <1>17 DEF ClearServices
<1>18. ASSUME NEW t \in Callers, TestThread(t) PROVE NoneOpens
  BY <1>18 DEF TestThread, After
<1>19. ASSUME NEW t \in Callers, JoinThread(t) PROVE NoneOpens
  BY <1>19 DEF JoinThread, After
<1>20. ASSUME NEW t \in Callers, DestroyMembers(t) PROVE NoneOpens
  BY <1>20 DEF DestroyMembers
<1>21. ASSUME NEW t \in Callers, JoinReturn(t) PROVE NoneOpens
  BY <1>21 DEF JoinReturn
<1>22. ASSUME NEW t \in Callers, RunCheck(t) PROVE NoneOpens
  BY <1>22 DEF RunCheck
<1>23. ASSUME NEW t \in Callers, StopCheck(t) PROVE NoneOpens
  BY <1>23 DEF StopCheck
<1>24. ASSUME NEW t \in Callers, JoinCall(t) PROVE NoneOpens
  BY <1>24 DEF JoinCall
<1>25. ASSUME NEW t \in Callers, Destroy(t) PROVE NoneOpens
  BY <1>25 DEF Destroy
<1>27. ASSUME NEW a \in Acceptors, CheckRun(a) PROVE NoneOpens
  BY <1>27 DEF CheckRun, PostNext, DropSocket
<1>28. ASSUME NEW a \in Acceptors, Spawn(a) PROVE NoneOpens
  BY <1>28 DEF Spawn, Failed, DropSocket
<1>29. ASSUME NEW a \in Acceptors, AcceptorExit(a) PROVE NoneOpens
  BY <1>29 DEF AcceptorExit, Release
<1> HIDE DEF NoneOpens, IInv, TypeOK, HandlersOK, InHandler, socketVars
<1> QED
  BY OwnerKinds, <1>1, <1>2, <1>3, <1>4, <1>5, <1>6, <1>7, <1>8, <1>9, <1>10, <1>11, <1>12,
     <1>13, <1>14, <1>15, <1>16, <1>17, <1>18, <1>19, <1>20, <1>21, <1>22, <1>23, <1>24, <1>25,
     <1>27, <1>28, <1>29 DEF CallerStep, Call, NoneOpens

\* Every step keeps ReadsAreTimed: a timer that is taken back was no longer needed.
LEMMA TimedStep ==
  ASSUME IInv, ReadsAreTimed, [Next]_vars
  PROVE  ReadsAreTimed'
<1> USE DEF IInv, TypeOK, ReadsAreTimed, Goto, serverVars, dispatchVars, serviceVars, threadVars,
    socketVars
<1>1. ASSUME NEW a \in Acceptors, HandlerStart(a) PROVE ReadsAreTimed'
  BY <1>1 DEF HandlerStart
<1>2. CASE /\ UNCHANGED <<serviceVars, co, home, timer, fired, built>>
           /\ \A k \in Sockets : open'[k] => open[k]
  BY <1>2
<1>3. ASSUME NEW t \in Threads, AsyncAccept(t) PROVE ReadsAreTimed'
  BY <1>3 DEF AsyncAccept, Unused
<1>4. ASSUME NEW t \in Callers, HaltService(t) PROVE ReadsAreTimed'
  BY <1>4 DEF HaltService, Release
<1>5. ASSUME NEW a \in Acceptors, CheckRun(a) PROVE ReadsAreTimed'
  BY <1>5 DEF CheckRun, PostNext, DropSocket, HandlersOK, InHandler
<1>6. ASSUME NEW a \in Acceptors, Spawn(a) PROVE ReadsAreTimed'
  BY <1>6 DEF Spawn, Failed, DropSocket, HandlersOK, InHandler
<1>7. ASSUME NEW a \in Acceptors, AcceptorExit(a) PROVE ReadsAreTimed'
  BY <1>7 DEF AcceptorExit, Release
<1>8. ASSUME NEW k \in Sockets, CoStart(k) PROVE ReadsAreTimed'
  BY <1>8 DEF CoStart
<1>9. ASSUME NEW k \in Sockets, StartRead(k) PROVE ReadsAreTimed'
  BY <1>9 DEF StartRead
<1>10. ASSUME NEW k \in Sockets, Refused(k) PROVE ReadsAreTimed'
  BY <1>10 DEF Refused, Leave, CancelTimer
<1>11. ASSUME NEW k \in Sockets, Resume(k) PROVE ReadsAreTimed'
  BY <1>11 DEF Resume, CancelTimer
<1>12. ASSUME NEW k \in Sockets, ReadAborted(k) PROVE ReadsAreTimed'
  BY <1>12 DEF ReadAborted, Leave, CancelTimer
<1>13. ASSUME NEW k \in Sockets, CoEnd(k) PROVE ReadsAreTimed'
  BY <1>13 DEF CoEnd
<1>14. ASSUME NEW k \in Sockets, ReadCompletes(k) PROVE ReadsAreTimed'
  BY <1>14 DEF ReadCompletes
<1>15. ASSUME NEW k \in Sockets, PeerCloses(k) PROVE ReadsAreTimed'
  BY <1>15 DEF PeerCloses, Leave, CancelTimer
<1>16. ASSUME NEW k \in Sockets, TimerExpires(k) PROVE ReadsAreTimed'
  BY <1>16 DEF TimerExpires
<1>17. ASSUME NEW k \in Sockets, HandlerTimer(k) PROVE ReadsAreTimed'
  BY <1>17 DEF HandlerTimer
<1>18. ASSUME NEW i \in Services, WorkerExit(i) PROVE ReadsAreTimed'
  BY <1>18 DEF WorkerExit
<1>19. ASSUME NEW t \in Callers, ResetWork(t) PROVE ReadsAreTimed'
  BY <1>19 DEF ResetWork
<1>20. ASSUME NEW t \in Callers, ClearClients(t) PROVE ReadsAreTimed'
  BY <1>20 DEF ClearClients
<1>21. ASSUME NEW t \in Callers, JoinWorker(t) PROVE ReadsAreTimed'
  BY <1>21 DEF JoinWorker
<1> HIDE DEF IInv, TypeOK, ReadsAreTimed, Goto, serverVars, dispatchVars, serviceVars, threadVars,
    socketVars
<1> QED
  BY StepKinds, OpenStep, <1>1, <1>2, <1>3, <1>4, <1>5, <1>6, <1>7, <1>8, <1>9, <1>10, <1>11,
     <1>12, <1>13, <1>14, <1>15, <1>16, <1>17, <1>18, <1>19, <1>20, <1>21

\* With a timeout no read is left waiting without its timer, through timers that expire while
\* their read completes, cancels that come too late and reads that start again (455-514).
THEOREM ReadsStayTimed == Spec => []ReadsAreTimed
<1>1. Init => ReadsAreTimed
  BY DEF Init, ReadsAreTimed
<1>2. IInv /\ ReadsAreTimed /\ [Next]_vars => ReadsAreTimed'
  BY TimedStep
<1> QED
  BY Invariance, <1>1, <1>2, PTL DEF Spec

\* However many threads call run(), stop() and join(), no call waits on a thread that waits
\* for ever: what stop() joins has been told to end and has a step of its own to take (275-318).
THEOREM CallsDoNotHang == Spec => []JoinsCanEnd
<1>1. Init => Halts
  BY ServerAssumption DEF Init, Halts, Past, Halting, Joining, Threads
<1>2. IInv /\ Handles /\ Halts /\ [Next]_vars => Halts'
  BY HaltsStep
<1>3. IInv /\ Handles /\ Halts /\ ReadsAreTimed => JoinsCanEnd
  <2> SUFFICES ASSUME IInv, Handles, Halts, ReadsAreTimed, NEW t \in Callers
               PROVE  /\ pc[t] = "join" =>
                           at[t] \in Services /\ ~work[at[t]]
                             /\ (WorkerMoves(at[t]) \/ (~Timeout /\ WaitsForClient(at[t])))
                      /\ pc[t] = "join_thread" => arg[t] \in Acceptors /\ AcceptorMoves(arg[t])
                      /\ pc[t] = "join_wait" =>
                           arg[t] \in Acceptors
                             /\ \/ AcceptorMoves(arg[t])
                                \/ service = "running" /\ pc[arg[t]] = "wait"
    BY DEF JoinsCanEnd
  <2>1. ASSUME pc[t] = "join" PROVE at[t] \in Services /\ ~work[at[t]]
    BY <2>1, ServerAssumption DEF IInv, TypeOK, LoopsOK, Services
  <2>2. ASSUME NEW i \in Services PROVE WorkerMoves(i) \/ (~Timeout /\ WaitsForClient(i))
    <3>1. CASE \A k \in Sockets : home[k] = i => co[k] \notin Queued /\ fired[k] = "no"
      BY <3>1 DEF WorkerMoves
    <3>2. ASSUME NEW k \in Sockets, home[k] = i, co[k] \in Queued \/ fired[k] # "no"
          PROVE  WorkerMoves(i) \/ (~Timeout /\ WaitsForClient(i))
      <4>1. CASE co[k] = "reading" /\ open[k]
        BY <3>2, <4>1 DEF ReadsAreTimed, WorkerMoves, WaitsForClient
      <4>2. CASE ~(co[k] = "reading" /\ open[k])
        BY <3>2, <4>2 DEF WorkerMoves
      <4> QED
        BY <4>1, <4>2
    <3> QED
      BY <3>1, <3>2
  <2>3. ASSUME pc[t] \in Joining
        PROVE  /\ arg[t] \in Acceptors
               /\ AcceptorMoves(arg[t]) \/ (service = "running" /\ pc[arg[t]] = "wait")
    <3>1. arg[t] \in Acceptors /\ pc[arg[t]] \in InHandler \cup {"exited", "wait"}
      BY <2>3 DEF Halts, Handles, Over
    <3>2. service \in {"running", "null"}
      BY DEF IInv, TypeOK
    <3> QED
      BY <3>1, <3>2 DEF AcceptorMoves
  <2>4. ASSUME pc[t] = "join_thread" PROVE service = "null"
    BY <2>4 DEF Halts
  <2> QED
    BY <2>1, <2>2, <2>3, <2>4 DEF Joining
<1> QED
  BY Invariance, HandlesHold, ReadsStayTimed, <1>1, <1>2, <1>3, PTL DEF Spec

\* The distance is in its range; the loop of stop() is at a service that was made.
LEMMA AheadType ==
  ASSUME IInv, NEW t \in Callers, pc[t] \in InStop
  PROVE  Ahead(t) \in 1..(3 * built + 11)
<1>1. built \in Nat /\ at[t] \in Nat
  BY ServerAssumption DEF IInv, TypeOK, Threads
<1>2. pc[t] \in {"work", "closing", "join"} => at[t] \in 1..built
  BY DEF IInv, LoopsOK
<1>3. CASE pc[t] = "work"
  BY <1>1, <1>2, <1>3 DEF Ahead
<1>4. CASE pc[t] = "closing"
  BY <1>1, <1>2, <1>4 DEF Ahead
<1>5. CASE pc[t] = "join"
  BY <1>1, <1>2, <1>5 DEF Ahead
<1>6. CASE pc[t] = "clear_run"
  BY <1>1, <1>6 DEF Ahead
<1>7. CASE pc[t] = "acceptor"
  BY <1>1, <1>7 DEF Ahead
<1>8. CASE pc[t] = "cancel"
  BY <1>1, <1>8 DEF Ahead
<1>9. CASE pc[t] = "service"
  BY <1>1, <1>9 DEF Ahead
<1>10. CASE pc[t] = "halt"
  BY <1>1, <1>10 DEF Ahead
<1>11. CASE pc[t] = "members"
  BY <1>1, <1>11 DEF Ahead
<1>12. CASE pc[t] = "services"
  BY <1>1, <1>12 DEF Ahead
<1>13. CASE pc[t] = "clear"
  BY <1>1, <1>13 DEF Ahead
<1>14. CASE pc[t] = "thread"
  BY <1>1, <1>14 DEF Ahead
<1>15. CASE pc[t] = "join_thread"
  BY <1>1, <1>15 DEF Ahead
<1> QED
  BY <1>3, <1>4, <1>5, <1>6, <1>7, <1>8, <1>9, <1>10, <1>11, <1>12, <1>13, <1>14, <1>15 DEF InStop

\* A step moves one thread, and what it moves in stop() comes closer to its end.
LEMMA AheadStep ==
  ASSUME IInv, Handles, [Next]_vars, NEW t \in Callers, pc[t] \in InStop
  PROVE  UNCHANGED <<pc[t], at[t]>> \/ Ahead(t)' < Ahead(t)
<1> DEFINE Nearer == UNCHANGED <<pc[t], at[t]>> \/ Ahead(t)' < Ahead(t)
<1>a. built \in Nat /\ at[t] \in Nat /\ pc \in [Threads -> Labels] /\ at \in [Threads -> Nat \ {0}]
  BY ServerAssumption DEF IInv, TypeOK, Threads
<1>b. pc[t] \in {"work", "closing", "join"} => at[t] \in 1..built
  BY DEF IInv, LoopsOK
<1>c. pc[t] \in {"thread", "join_thread"} => Size = 0
  BY DEF Handles
<1>d. t \in Threads /\ t \notin Acceptors
  BY ServerAssumption DEF Threads
<1> USE DEF Ahead, Goto, Size, InStop, serverVars, dispatchVars, serviceVars, threadVars, socketVars
<1>1. ASSUME Apart PROVE Nearer
  BY <1>1 DEF Apart
<1>2. ASSUME Dies PROVE Nearer
  BY <1>2 DEF Dies, Die
<1>3. ASSUME NEW u \in Threads, GetService(u) PROVE Nearer
  BY <1>a, <1>b, <1>c, <1>d, <1>3, GetServiceMoves DEF Posting
<1>4. ASSUME NEW u \in Threads, AsyncAccept(u) PROVE Nearer
  BY <1>a, <1>b, <1>c, <1>d, <1>4 DEF AsyncAccept
<1>5. ASSUME NEW u \in Threads, AcceptThrows(u) PROVE Nearer
  BY <1>a, <1>b, <1>c, <1>d, <1>5 DEF AcceptThrows
<1>6. ASSUME NEW u \in Callers, SetRun(u) PROVE Nearer
  BY <1>a, <1>b, <1>c, <1>d, <1>6 DEF SetRun
<1>7. ASSUME NEW u \in Callers, MakeThread(u) PROVE Nearer
  BY <1>a, <1>b, <1>c, <1>d, <1>7 DEF MakeThread
<1>8. ASSUME NEW u \in Callers, MakeThreadFails(u) PROVE Nearer
  BY <1>a, <1>b, <1>c, <1>d, <1>8 DEF MakeThreadFails
<1>9. ASSUME NEW u \in Callers, ClearRun(u) PROVE Nearer
  BY <1>a, <1>b, <1>c, <1>d, <1>9 DEF ClearRun
<1>10. ASSUME NEW u \in Callers, TestHandle(u) PROVE Nearer
  BY <1>a, <1>b, <1>c, <1>d, <1>10 DEF TestHandle
<1>11. ASSUME NEW u \in Callers, CancelAcceptor(u) PROVE Nearer
  BY <1>a, <1>b, <1>c, <1>d, <1>11 DEF CancelAcceptor
<1>12. ASSUME NEW u \in Callers, HaltService(u) PROVE Nearer
  BY <1>a, <1>b, <1>c, <1>d, <1>12 DEF HaltService, Release
<1>13. ASSUME NEW u \in Callers, BeginServices(u) PROVE Nearer
  BY <1>a, <1>b, <1>c, <1>d, <1>13 DEF BeginServices
<1>14. ASSUME NEW u \in Callers, ResetWork(u) PROVE Nearer
  BY <1>a, <1>b, <1>c, <1>d, <1>14 DEF ResetWork
<1>15. ASSUME NEW u \in Callers, ClearClients(u) PROVE Nearer
  BY <1>a, <1>b, <1>c, <1>d, <1>15 DEF ClearClients
<1>16. ASSUME NEW u \in Callers, JoinWorker(u) PROVE Nearer
  BY <1>a, <1>b, <1>c, <1>d, <1>16 DEF JoinWorker
<1>17. ASSUME NEW u \in Callers, ClearServices(u) PROVE Nearer
  BY <1>a, <1>b, <1>c, <1>d, <1>17 DEF ClearServices
<1>18. ASSUME NEW u \in Callers, TestThread(u) PROVE Nearer
  BY <1>a, <1>b, <1>c, <1>d, <1>18 DEF TestThread, After
<1>19. ASSUME NEW u \in Callers, JoinThread(u) PROVE Nearer
  BY <1>a, <1>b, <1>c, <1>d, <1>19 DEF JoinThread, After
<1>20. ASSUME NEW u \in Callers, DestroyMembers(u) PROVE Nearer
  BY <1>a, <1>b, <1>c, <1>d, <1>20 DEF DestroyMembers
<1>21. ASSUME NEW u \in Callers, JoinReturn(u) PROVE Nearer
  BY <1>a, <1>b, <1>c, <1>d, <1>21 DEF JoinReturn
<1>22. ASSUME NEW u \in Callers, RunCheck(u) PROVE Nearer
  BY <1>a, <1>b, <1>c, <1>d, <1>22 DEF RunCheck
<1>23. ASSUME NEW u \in Callers, StopCheck(u) PROVE Nearer
  BY <1>a, <1>b, <1>c, <1>d, <1>23 DEF StopCheck
<1>24. ASSUME NEW u \in Callers, JoinCall(u) PROVE Nearer
  BY <1>a, <1>b, <1>c, <1>d, <1>24 DEF JoinCall
<1>25. ASSUME NEW u \in Callers, Destroy(u) PROVE Nearer
  BY <1>a, <1>b, <1>c, <1>d, <1>25 DEF Destroy
<1>26. ASSUME NEW a \in Acceptors, HandlerStart(a) PROVE Nearer
  BY <1>a, <1>b, <1>c, <1>d, <1>26 DEF HandlerStart
<1>27. ASSUME NEW a \in Acceptors, CheckRun(a) PROVE Nearer
  BY <1>a, <1>b, <1>c, <1>d, <1>27 DEF CheckRun, PostNext, DropSocket
<1>28. ASSUME NEW a \in Acceptors, Spawn(a) PROVE Nearer
  BY <1>a, <1>b, <1>c, <1>d, <1>28 DEF Spawn, Failed, DropSocket
<1>29. ASSUME NEW a \in Acceptors, AcceptorExit(a) PROVE Nearer
  BY <1>a, <1>b, <1>c, <1>d, <1>29 DEF AcceptorExit, Release
<1> HIDE DEF Nearer, Ahead, Goto, Size, InStop, serverVars, dispatchVars, serviceVars, threadVars,
    socketVars
<1>33. Nearer
  BY OwnerKinds, <1>1, <1>2, <1>3, <1>4, <1>5, <1>6, <1>7, <1>8, <1>9, <1>10, <1>11, <1>12,
     <1>13, <1>14, <1>15, <1>16, <1>17, <1>18, <1>19, <1>20, <1>21, <1>22, <1>23, <1>24,
     <1>25, <1>26, <1>27, <1>28, <1>29 DEF CallerStep, Call, IInv
<1> QED
  BY <1>33 DEF Nearer

\* A stop() in progress, and the destructor, take at most 3 * built + 11 steps apart from the
\* visits of clear(): nothing another thread does sends them back (266-309, 207-222).
THEOREM StopOnlyAdvancesHolds == Spec => StopOnlyAdvances
<1>1. IInv /\ Handles /\ [Next]_vars =>
        [\A t \in Callers : pc[t] \in InStop =>
           /\ Ahead(t) \in 1..(3 * built + 11)
           /\ UNCHANGED <<pc[t], at[t]>> \/ Ahead(t)' < Ahead(t)]_vars
  BY AheadType, AheadStep
<1> QED
  BY Invariance, HandlesHold, <1>1, PTL DEF Spec, StopOnlyAdvances
=============================================================================

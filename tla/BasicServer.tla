---------------------------- MODULE BasicServer ----------------------------
(***************************************************************************)
(* basic_server_t (src/include/kg/net/basic_server.hpp): a TCP server that *)
(* runs one io_service and one thread for accepting and one io_service and *)
(* one thread (a "service_t") per CPU for the connections.                 *)
(*                                                                         *)
(* Threads: the application's threads (Callers), which call run(), stop(), *)
(* join() and the destructor; the threads run() creates for run_thread     *)
(* (Acceptors); and one worker thread per service.  The lines              *)
(* boost::mutex::scoped_lock(_mutex) of the source declare an unlocked     *)
(* local lock NAMED _mutex, so nothing here excludes anything: every step  *)
(* between two accesses of shared state is an action of its own.  A racing *)
(* read or write of a bool or a std::size_t gives the old or the new value. *)
(* A worker runs its connections' coroutines one at a time and switches    *)
(* only where a coroutine waits; from one wait to the next a coroutine     *)
(* touches _clients and the clients counter at most once each and no other *)
(* thread reads both, so such a segment is one action.                     *)
(* Using a null pointer or a cleared vector, changing a member that is no  *)
(* number while another thread uses it, or changing _clients while clear() *)
(* walks it, is undefined: the process may die (fault).                    *)
(***************************************************************************)
EXTENDS Integers, FiniteSets

CONSTANTS
  Callers,    \* the application's threads that hold the server
  Acceptors,  \* names for the threads run() creates: bounds the number of runs
  Sockets,    \* names for the socket objects: bounds the live connections
  N,          \* boost::thread::hardware_concurrency()
  Poll,       \* the constructor's poll
  SizeMax,    \* the largest std::size_t
  Timeout,    \* whether the constructor's timeout is not 0
  None        \* a null handle

\* Both constructors: a poll below 1 becomes 10.
PollInit == IF Poll < 1 THEN 10 ELSE Poll

ASSUME ServerAssumption ==
  /\ IsFiniteSet(Sockets)
  /\ SizeMax \in Nat /\ PollInit <= SizeMax
  /\ N \in Nat /\ Poll \in Nat /\ Timeout \in BOOLEAN
  /\ Callers \cap Acceptors = {}
  /\ None \notin Acceptors \cup Sockets

Services == 1..N       \* _services[i - 1]
Threads  == Callers \cup Acceptors

VARIABLES
  run,       \* _run
  acceptor,  \* whether _acceptor is not null
  service,   \* _service: "running", "null" (stopped and reset)
  thread,    \* _thread
  listed,    \* whether _services still holds its elements
  built,     \* how many service_t the constructor made
  alive,     \* the object: "alive", "dying" (in its destructor), "dead"
  flag, pos, \* _flag, _pos
  held,      \* per thread, what get_service has read: _flag, then min
  work,      \* service_t::work, per service
  worker,    \* service_t::thread: "running", "exited", "joined" (reset)
  tracked,   \* service_t::_clients
  clients,   \* service_t::clients
  pc,        \* what each thread does next
  at,        \* the service a thread is at: the loops of stop() and get_service, its choice
  arg,       \* the socket of an acceptor's handler; the thread a caller joins
  visiting,  \* what the loop of clear() has still to visit
  co,        \* what happens to a socket: its accept, then its coroutine
  home,      \* the service whose io_service the socket belongs to
  open,      \* whether the socket is connected
  timer,     \* whether the coroutine's deadline timer is armed
  fired,     \* an expired handler_timer in the queue: "no", "due", or "stale"
             \* (the read it guarded has completed since)
  fault      \* undefined behaviour has ended the process

serverVars   == <<run, acceptor, service, thread, listed, built, alive>>
dispatchVars == <<flag, pos, held>>
serviceVars  == <<work, worker, tracked, clients>>
threadVars   == <<pc, at, arg, visiting>>
socketVars   == <<co, home, open, timer, fired>>
vars == <<serverVars, dispatchVars, serviceVars, threadVars, socketVars, fault>>

Posting   == {"get", "take", "scan", "first", "least", "keep", "pick", "accept"}  \* post_accept
InRun     == Posting \cup {"set_run", "make_thread"}
InStop    == {"clear_run", "acceptor", "cancel", "service", "halt", "services",
              "work", "closing", "join", "clear", "thread", "join_thread", "members"}
InHandler == Posting \cup {"check", "spawn"}
Labels    == InRun \cup InStop \cup InHandler
               \cup {"idle", "join_wait", "none", "wait", "exited"}

Live    == {"connecting", "reading", "ready", "readed"}  \* counted in clients
Queued  == Live \cup {"spawned", "closed"}               \* keep run() of the worker busy
CoState == Queued \cup {"free", "accepting", "accepted", "failed"}

(***************************************************************************)
(* The constructor.  The overload with an error_code leaves an object      *)
(* whose init() failed part way: without a service (bad address), without  *)
(* an acceptor (bind), or with fewer services (no more threads).           *)
(***************************************************************************)
Init ==
  /\ run = FALSE /\ thread = None /\ alive = "alive" /\ fault = FALSE
  /\ \/ acceptor = TRUE /\ service = "running" /\ built \in 0..N
     \/ acceptor = FALSE /\ service \in {"running", "null"} /\ built = 0
  /\ listed = TRUE
  /\ flag = PollInit /\ pos = 1
  /\ work    = [i \in Services |-> i <= built]
  /\ worker  = [i \in Services |-> IF i <= built THEN "running" ELSE "joined"]
  /\ tracked = [i \in Services |-> {}]
  /\ clients = [i \in Services |-> 0]
  /\ pc  = [t \in Threads |-> IF t \in Callers THEN "idle" ELSE "none"]
  /\ at  = [t \in Threads |-> 1]
  /\ held = [t \in Threads |-> 0]
  /\ arg = [t \in Threads |-> None]
  /\ visiting = [t \in Callers |-> {}]
  /\ co    = [k \in Sockets |-> "free"]
  /\ home  = [k \in Sockets |-> 1]
  /\ open  = [k \in Sockets |-> FALSE]
  /\ timer = [k \in Sockets |-> FALSE]
  /\ fired = [k \in Sockets |-> "no"]

Goto(t, label) == pc' = [pc EXCEPT ![t] = label]
Size == IF listed THEN built ELSE 0     \* _services.size()

\* A name no socket object has: its coroutine and its timer handlers are over.
Unused == {k \in Sockets : co[k] = "free" /\ fired[k] = "no"}

\* A bound of the model, not of the code: a socket is left for whoever posts next.
SocketToSpare ==
  Cardinality(Unused)
    > Cardinality({t \in Threads : pc[t] \in Posting \cup {"check"}})

-----------------------------------------------------------------------------
(* post_accept, called by run() and by post_accept_handler.                 *)

GetUnchanged == UNCHANGED <<serverVars, serviceVars, arg, visiting, socketVars, fault>>
Less(n) == IF n = 0 THEN SizeMax ELSE n - 1     \* -- of a std::size_t

\* if(_flag)
TestFlag(t) ==
  /\ pc[t] = "get"
  /\ held' = [held EXCEPT ![t] = flag]
  /\ Goto(t, IF flag > 0 THEN "take" ELSE "scan")
  /\ UNCHANGED <<flag, pos, at>> /\ GetUnchanged

\* --_flag, of what the test has read or of what _flag holds now.
Decrement(t) ==
  /\ pc[t] = "take"
  /\ flag' \in {Less(held[t]), Less(flag)}
  /\ held' = [held EXCEPT ![t] = 0]
  /\ Goto(t, "pick")
  /\ UNCHANGED <<pos, at>> /\ GetUnchanged

\* min = the clients of the service _pos is at ...
ScanBegins(t) ==
  /\ pc[t] = "scan" /\ pos <= Size
  /\ held' = [held EXCEPT ![t] = clients[pos]]
  /\ Goto(t, "first")
  /\ UNCHANGED <<flag, pos, at>> /\ GetUnchanged

\* ... and _pos = 0, which is not that service's: it stays 0 when no other has fewer.
ScanFirst(t) ==
  /\ pc[t] = "first"
  /\ pos' = 1
  /\ at' = [at EXCEPT ![t] = 2]
  /\ Goto(t, "least")
  /\ UNCHANGED <<flag, held>> /\ GetUnchanged

ScanNext(t) ==
  /\ pc[t] = "least" /\ at[t] <= Size
  /\ IF clients[at[t]] < held[t]
     THEN held' = [held EXCEPT ![t] = clients[at[t]]] /\ Goto(t, "keep") /\ at' = at
     ELSE held' = held /\ at' = [at EXCEPT ![t] = @ + 1] /\ pc' = pc
  /\ UNCHANGED <<flag, pos>> /\ GetUnchanged

\* _pos = i.
ScanKeeps(t) ==
  /\ pc[t] = "keep"
  /\ pos' = at[t]
  /\ at' = [at EXCEPT ![t] = @ + 1]
  /\ Goto(t, "least")
  /\ UNCHANGED <<flag, held>> /\ GetUnchanged

\* variant: the index the loop ended at
ScanEndsLast(t) ==
  /\ pc[t] = "least" /\ at[t] > Size
  /\ flag' = PollInit - 1
  /\ pos' = at[t]
  /\ held' = [held EXCEPT ![t] = 0]
  /\ Goto(t, "pick")
  /\ at' = at /\ GetUnchanged

\* The loop is over: _flag = _poll - 1.
ScanEnds(t) ==
  /\ pc[t] = "least" /\ at[t] > Size
  /\ flag' = PollInit - 1
  /\ held' = [held EXCEPT ![t] = 0]
  /\ Goto(t, "pick")
  /\ UNCHANGED <<pos, at>> /\ GetUnchanged

\* return _services[_pos].
Pick(t) ==
  /\ pc[t] = "pick" /\ pos <= Size
  /\ at' = [at EXCEPT ![t] = pos]
  /\ Goto(t, "accept")
  /\ UNCHANGED dispatchVars /\ GetUnchanged

GetService(t) ==
  \/ TestFlag(t) \/ Decrement(t) \/ Pick(t)
  \/ ScanBegins(t) \/ ScanFirst(t) \/ ScanNext(t) \/ ScanKeeps(t) \/ ScanEnds(t)

AsyncAccept(t) ==
  /\ pc[t] = "accept" /\ acceptor
  /\ \E k \in Unused :
       /\ co' = [co EXCEPT ![k] = "accepting"]
       /\ home' = [home EXCEPT ![k] = at[t]]
  /\ Goto(t, IF t \in Callers THEN "set_run" ELSE "spawn")
  /\ UNCHANGED <<serverVars, dispatchVars, serviceVars, at, arg, visiting,
                 open, timer, fired, fault>>

\* make_shared or async_accept throws: post_accept starts over.
AcceptThrows(t) ==
  /\ pc[t] = "accept"
  /\ Goto(t, "get")
  /\ UNCHANGED <<serverVars, dispatchVars, serviceVars, at, arg, visiting, socketVars, fault>>

-----------------------------------------------------------------------------
(* run(): test _run, post_accept, set _run, make the thread.                *)

RunCheck(t) ==
  /\ pc[t] = "idle" /\ alive = "alive" /\ ~run
  /\ \E a \in Acceptors : pc[a] = "none"      \* bound
  /\ SocketToSpare
  /\ Goto(t, "get")
  /\ UNCHANGED <<serverVars, dispatchVars, serviceVars, at, arg, visiting, socketVars, fault>>

SetRun(t) ==
  /\ pc[t] = "set_run"
  /\ run' = TRUE
  /\ Goto(t, "make_thread")
  /\ UNCHANGED <<acceptor, service, thread, listed, built, alive, dispatchVars,
                 serviceVars, at, arg, visiting, socketVars, fault>>

MakeThread(t) ==
  /\ pc[t] = "make_thread" /\ service # "null"
  /\ \E a \in Acceptors :
       /\ pc[a] = "none"
       /\ thread' = a
       /\ pc' = [pc EXCEPT ![t] = "idle", ![a] = "wait"]
  /\ UNCHANGED <<run, acceptor, service, listed, built, alive, dispatchVars,
                 serviceVars, at, arg, visiting, socketVars, fault>>

\* No memory or no thread: run() throws and _run stays true.
MakeThreadFails(t) ==
  /\ pc[t] = "make_thread"
  /\ Goto(t, "idle")
  /\ UNCHANGED <<serverVars, dispatchVars, serviceVars, at, arg, visiting, socketVars, fault>>

-----------------------------------------------------------------------------
(* The acceptor thread: run_thread and post_accept_handler.                 *)

\* An accept completes and its handler is called.
HandlerStart(a) ==
  /\ pc[a] = "wait" /\ service = "running" /\ SocketToSpare
  /\ \E k \in Sockets :
       /\ co[k] = "accepting"
       /\ \/ acceptor /\ co' = [co EXCEPT ![k] = "accepted"] /\ open' = [open EXCEPT ![k] = TRUE]
          \/ co' = [co EXCEPT ![k] = "failed"] /\ open' = open
       /\ arg' = [arg EXCEPT ![a] = k]
  /\ Goto(a, "check")
  /\ UNCHANGED <<serverVars, dispatchVars, serviceVars, at, visiting, home, timer, fired, fault>>

\* The handler returns and its socket is destroyed.
DropSocket(a) ==
  /\ co' = [co EXCEPT ![arg[a]] = "free"]
  /\ open' = [open EXCEPT ![arg[a]] = FALSE]
  /\ arg' = [arg EXCEPT ![a] = None]
  /\ Goto(a, "wait")

NoPost(a) == Goto(a, "spawn")    \* variant: the next accept is not posted
PostNext(a) == Goto(a, "get")

CheckRun(a) ==
  /\ pc[a] = "check"
  /\ \/ run /\ PostNext(a) /\ UNCHANGED <<co, open, arg>>
     \/ ~run /\ DropSocket(a)
  /\ UNCHANGED <<serverVars, dispatchVars, serviceVars, at, visiting, home, timer, fired, fault>>

NoError(a) == co[arg[a]] = "accepted"    \* variant: the test of ec inverted
Failed(a)  == co[arg[a]] = "failed"

\* if(ec) return; and spawn.
Spawn(a) ==
  /\ pc[a] = "spawn"
  /\ \/ Failed(a) /\ DropSocket(a)
     \/ /\ ~Failed(a)
        /\ co' = [co EXCEPT ![arg[a]] = "spawned"]
        /\ arg' = [arg EXCEPT ![a] = None]
        /\ Goto(a, "wait")
        /\ UNCHANGED open
  /\ UNCHANGED <<serverVars, dispatchVars, serviceVars, at, visiting, home, timer, fired, fault>>

\* The accepts still pending go with the io_service, when its last owner lets go of it.
Release(owners) ==
  co' = IF \A a \in owners : pc[a] \in {"none", "exited"}
        THEN [k \in Sockets |-> IF co[k] = "accepting" THEN "free" ELSE co[k]]
        ELSE co

\* io_service::run() returns: stopped, or nothing left to wait for.
AcceptorExit(a) ==
  /\ pc[a] = "wait"
  /\ \/ service = "null" /\ Release(Acceptors \ {a})
     \/ (\A k \in Sockets : co[k] # "accepting") /\ co' = co
  /\ Goto(a, "exited")
  /\ UNCHANGED <<serverVars, dispatchVars, serviceVars, at, arg, visiting,
                 home, open, timer, fired, fault>>

-----------------------------------------------------------------------------
(* A worker and the coroutine_read of its connections.                      *)

Serving(k) == worker[home[k]] = "running"
Clearing(i) == {t \in Callers : pc[t] = "closing" /\ at[t] = i}

NoCount(k) == clients' = clients                         \* variant: ++ or -- forgotten
NoErase(k) == tracked' = tracked                         \* variant: erase forgotten

CountIn(k)  == clients' = [clients EXCEPT ![home[k]] = @ + 1]
CountOut(k) == clients' = [clients EXCEPT ![home[k]] = @ - 1]
Erase(k)    == tracked' = [tracked EXCEPT ![home[k]] = @ \ {k}]

\* insert, ++clients, and the connected callback begins.  A clear() in progress
\* may or may not come across the new element.
CoStart(k) ==
  /\ co[k] = "spawned" /\ Serving(k)
  /\ co' = [co EXCEPT ![k] = "connecting"]
  /\ tracked' = [tracked EXCEPT ![home[k]] = @ \cup {k}]
  /\ CountIn(k)
  /\ \E seen \in SUBSET Clearing(home[k]) :
       visiting' = [t \in Callers |-> IF t \in seen THEN visiting[t] \cup {k} ELSE visiting[t]]
  /\ UNCHANGED <<serverVars, dispatchVars, work, worker, pc, at, arg,
                 home, open, timer, fired, fault>>

\* The callback answered true: arm the timer and wait in async_read_some.
StartRead(k) ==
  /\ co[k] \in {"connecting", "readed"} /\ Serving(k)
  /\ co' = [co EXCEPT ![k] = "reading"]
  /\ timer' = [timer EXCEPT ![k] = Timeout]
  /\ UNCHANGED <<serverVars, dispatchVars, serviceVars, threadVars, home, open, fired, fault>>

\* The client sent something and the reactor completes the read.
ReadCompletes(k) ==
  /\ co[k] = "reading" /\ open[k] /\ Serving(k)
  /\ co' = [co EXCEPT ![k] = "ready"]
  /\ UNCHANGED <<serverVars, dispatchVars, serviceVars, threadVars,
                 home, open, timer, fired, fault>>

\* cancel takes back a timer that is armed, not a handler already in the queue.
CancelTimer(k) ==
  /\ timer' = [timer EXCEPT ![k] = FALSE]
  /\ fired' = [fired EXCEPT ![k] = IF @ = "due" THEN "stale" ELSE @]

Resume(k) ==
  /\ co[k] = "ready" /\ Serving(k)
  /\ co' = [co EXCEPT ![k] = "readed"]
  /\ CancelTimer(k)
  /\ UNCHANGED <<serverVars, dispatchVars, serviceVars, threadVars, home, open, fault>>

\* shutdown, close, erase, --clients, and the closed callback begins.
Leave(k) ==
  /\ co' = [co EXCEPT ![k] = "closed"]
  /\ CancelTimer(k)
  /\ open' = [open EXCEPT ![k] = FALSE]
  /\ Erase(k)
  /\ CountOut(k)
  /\ visiting' = [t \in Callers |-> IF t \in Clearing(home[k]) THEN visiting[t] \ {k} ELSE visiting[t]]
  /\ UNCHANGED <<serverVars, dispatchVars, work, worker, pc, at, arg, home, fault>>

\* A callback answers false (or readed throws); the socket is closed; the client goes away.
Refused(k)     == co[k] \in {"connecting", "readed"} /\ Serving(k) /\ Leave(k)
ReadAborted(k) == co[k] = "reading" /\ ~open[k] /\ Serving(k) /\ Leave(k)
PeerCloses(k)  == co[k] = "reading" /\ open[k] /\ Serving(k) /\ Leave(k)

\* The closed callback returns and the coroutine ends.
CoEnd(k) ==
  /\ co[k] = "closed" /\ Serving(k)
  /\ co' = [co EXCEPT ![k] = "free"]
  /\ UNCHANGED <<serverVars, dispatchVars, serviceVars, threadVars,
                 home, open, timer, fired, fault>>

\* The time is up and handler_timer is put in the worker's queue.
TimerExpires(k) ==
  /\ timer[k] /\ fired[k] = "no" /\ Serving(k)
  /\ timer' = [timer EXCEPT ![k] = FALSE]
  /\ fired' = [fired EXCEPT ![k] = "due"]
  /\ UNCHANGED <<serverVars, dispatchVars, serviceVars, threadVars, co, home, open, fault>>

\* variant: the handler returns early although the timer has expired
HandlerTimerIdle(k) ==
  /\ fired[k] # "no" /\ Serving(k)
  /\ fired' = [fired EXCEPT ![k] = "no"]
  /\ UNCHANGED <<serverVars, dispatchVars, serviceVars, threadVars, co, home, open, timer, fault>>

HandlerTimer(k) ==
  /\ fired[k] # "no" /\ Serving(k)
  /\ fired' = [fired EXCEPT ![k] = "no"]
  /\ open' = [open EXCEPT ![k] = FALSE]
  /\ UNCHANGED <<serverVars, dispatchVars, serviceVars, threadVars, co, home, timer, fault>>

\* variant: the worker's io_service is stopped, not left to finish
WorkerStopped(i) ==
  /\ worker[i] = "running" /\ ~work[i]
  /\ worker' = [worker EXCEPT ![i] = "exited"]
  /\ UNCHANGED <<serverVars, dispatchVars, work, tracked, clients, threadVars, socketVars, fault>>

\* io_service::run() returns: the work is reset and no handler is outstanding.
WorkerExit(i) ==
  /\ worker[i] = "running" /\ ~work[i]
  /\ \A k \in Sockets : home[k] = i => co[k] \notin Queued /\ fired[k] = "no"
  /\ worker' = [worker EXCEPT ![i] = "exited"]
  /\ UNCHANGED <<serverVars, dispatchVars, work, tracked, clients, threadVars, socketVars, fault>>

-----------------------------------------------------------------------------
(* stop(), step by step, and the destructor.                                *)

StopCheck(t) ==
  /\ pc[t] = "idle" /\ alive = "alive" /\ run
  /\ Goto(t, "clear_run")
  /\ UNCHANGED <<serverVars, dispatchVars, serviceVars, at, arg, visiting, socketVars, fault>>

ClearRun(t) ==
  /\ pc[t] = "clear_run"
  /\ run' = FALSE
  /\ Goto(t, "acceptor")
  /\ UNCHANGED <<acceptor, service, thread, listed, built, alive, dispatchVars,
                 serviceVars, at, arg, visiting, socketVars, fault>>

\* The tests of the three ifs; the pointer is used in a later step.
TestHandle(t) ==
  /\ \/ pc[t] = "acceptor" /\ Goto(t, IF acceptor THEN "cancel" ELSE "service")
     \/ pc[t] = "service" /\ Goto(t, IF service # "null" THEN "halt" ELSE "services")
  /\ UNCHANGED <<serverVars, dispatchVars, serviceVars, at, arg, visiting, socketVars, fault>>

CancelAcceptor(t) ==
  /\ pc[t] = "cancel" /\ acceptor
  /\ acceptor' = FALSE
  /\ Goto(t, "service")
  /\ UNCHANGED <<run, service, thread, listed, built, alive, dispatchVars,
                 serviceVars, at, arg, visiting, socketVars, fault>>

HaltService(t) ==
  /\ pc[t] = "halt" /\ service # "null"
  /\ service' = "null"
  /\ Release(Acceptors)
  /\ Goto(t, "services")
  /\ UNCHANGED <<run, acceptor, thread, listed, built, alive, dispatchVars,
                 serviceVars, at, arg, visiting, home, open, timer, fired, fault>>

\* BOOST_FOREACH over _services.
BeginServices(t) ==
  /\ pc[t] = "services"
  /\ Goto(t, IF Size > 0 THEN "work" ELSE "clear")
  /\ at' = [at EXCEPT ![t] = 1]
  /\ UNCHANGED <<serverVars, dispatchVars, serviceVars, arg, visiting, socketVars, fault>>

\* service_t::stop: work.reset(), and the loop of clear() begins.
ResetWork(t) ==
  /\ pc[t] = "work" /\ listed
  /\ work' = [work EXCEPT ![at[t]] = FALSE]
  /\ visiting' = [visiting EXCEPT ![t] = tracked[at[t]]]
  /\ Goto(t, "closing")
  /\ UNCHANGED <<serverVars, dispatchVars, worker, tracked, clients, at, arg, socketVars, fault>>

NoClose(k) == open' = open    \* variant: clear() only empties the set
Close(k) == open' = [open EXCEPT ![k] = FALSE]

CloseOne(t) ==
  /\ pc[t] = "closing"
  /\ \E k \in visiting[t] :
       /\ Close(k)
       /\ visiting' = [visiting EXCEPT ![t] = @ \ {k}]
  /\ UNCHANGED <<serverVars, dispatchVars, serviceVars, pc, at, arg, co, home, timer, fired, fault>>

ClearClients(t) ==
  /\ pc[t] = "closing" /\ visiting[t] = {}
  /\ tracked' = [tracked EXCEPT ![at[t]] = {}]
  /\ Goto(t, "join")
  /\ UNCHANGED <<serverVars, dispatchVars, work, worker, clients, at, arg, visiting, socketVars, fault>>

\* if(thread){ join; reset; } and on to the next service.
JoinWorker(t) ==
  /\ pc[t] = "join" /\ worker[at[t]] # "running"
  /\ worker' = [worker EXCEPT ![at[t]] = "joined"]
  /\ \/ at[t] < built /\ at' = [at EXCEPT ![t] = @ + 1] /\ Goto(t, "work")
     \/ at[t] = built /\ at' = at /\ Goto(t, "clear")
  /\ UNCHANGED <<serverVars, dispatchVars, work, tracked, clients, arg, visiting, socketVars, fault>>

ClearServices(t) ==
  /\ pc[t] = "clear"
  /\ listed' = FALSE
  /\ Goto(t, "thread")
  /\ UNCHANGED <<run, acceptor, service, thread, built, alive, dispatchVars,
                 serviceVars, at, arg, visiting, socketVars, fault>>

\* Where stop() returns to: its caller, or the rest of the destructor.
After == IF alive = "dying" THEN "members" ELSE "idle"

\* variant: stop() drops the thread without joining it
DropThread(t) ==
  /\ pc[t] = "thread"
  /\ Goto(t, After)
  /\ UNCHANGED <<serverVars, dispatchVars, serviceVars, at, arg, visiting, socketVars, fault>>

TestThread(t) ==
  /\ pc[t] = "thread"
  /\ \/ thread = None /\ Goto(t, After) /\ arg' = arg
     \/ thread # None /\ Goto(t, "join_thread") /\ arg' = [arg EXCEPT ![t] = thread]
  /\ UNCHANGED <<serverVars, dispatchVars, serviceVars, at, visiting, socketVars, fault>>

JoinThread(t) ==
  /\ pc[t] = "join_thread" /\ pc[arg[t]] = "exited"
  /\ thread' = None
  /\ arg' = [arg EXCEPT ![t] = None]
  /\ Goto(t, After)
  /\ UNCHANGED <<run, acceptor, service, listed, built, alive, dispatchVars,
                 serviceVars, at, visiting, socketVars, fault>>

\* ~basic_server_t: no other call is in progress, then stop().
Destroy(t) ==
  /\ \A u \in Callers : pc[u] = "idle"
  /\ alive = "alive"
  /\ alive' = "dying"
  /\ Goto(t, IF run THEN "clear_run" ELSE "members")
  /\ UNCHANGED <<run, acceptor, service, thread, listed, built, dispatchVars,
                 serviceVars, at, arg, visiting, socketVars, fault>>

\* The members are destroyed.  A service_t that is still there stops itself.
DestroyMembers(t) ==
  /\ pc[t] = "members"
  /\ \/ Size > 0 /\ Goto(t, "services") /\ UNCHANGED <<acceptor, service, thread, listed, alive>>
     \/ /\ Size = 0
        /\ acceptor' = FALSE /\ service' = "null" /\ thread' = None
        /\ listed' = FALSE /\ alive' = "dead"
        /\ Goto(t, "idle")
  /\ UNCHANGED <<run, built, dispatchVars, serviceVars, at, arg, visiting, socketVars, fault>>

-----------------------------------------------------------------------------
(* join(): copy _thread, then wait for it.                                  *)

JoinCall(t) ==
  /\ pc[t] = "idle" /\ alive = "alive" /\ thread # None
  /\ arg' = [arg EXCEPT ![t] = thread]
  /\ Goto(t, "join_wait")
  /\ UNCHANGED <<serverVars, dispatchVars, serviceVars, at, visiting, socketVars, fault>>

JoinReturn(t) ==
  /\ pc[t] = "join_wait" /\ pc[arg[t]] = "exited"
  /\ arg' = [arg EXCEPT ![t] = None]
  /\ Goto(t, "idle")
  /\ UNCHANGED <<serverVars, dispatchVars, serviceVars, at, visiting, socketVars, fault>>

-----------------------------------------------------------------------------
(* Undefined behaviour.                                                     *)

Die == fault' = TRUE /\ UNCHANGED <<serverVars, dispatchVars, serviceVars, threadVars, socketVars>>

\* A null pointer, an element of a cleared _services, a thread reset by another stop().
BadHandle(t) ==
  \/ pc[t] \in {"scan", "pick"} /\ pos > Size
  \/ pc[t] = "accept" /\ ~acceptor
  \/ pc[t] = "make_thread" /\ service = "null"
  \/ pc[t] = "cancel" /\ ~acceptor
  \/ pc[t] = "halt" /\ service = "null"
  \/ pc[t] \in {"work", "closing"} /\ ~listed
  \/ pc[t] = "join" /\ worker[at[t]] = "joined"
  \/ pc[t] = "join_thread" /\ thread # arg[t]

\* The members two threads must not use at once when one changes them: who changes each
\* (async_accept and cancel change the acceptor), and who else uses it.
Changes == [_acceptor |-> {"accept", "cancel"}, _service |-> {"halt"},
            _services |-> {"clear"}, _thread |-> {"make_thread", "join_thread"}]
Uses == [_acceptor |-> {"acceptor"}, _service |-> {"service", "make_thread"},
         _services |-> {"scan", "least", "pick", "services", "work"}, _thread |-> {"thread"}]

\* join() may be called, and copy _thread, at any moment.
Joins(u) == u \in Callers /\ pc[u] = "idle" /\ alive = "alive"

Races(t) ==
  /\ \E m \in DOMAIN Changes :
       /\ pc[t] \in Changes[m]
       /\ \E u \in Threads \ {t} :
            pc[u] \in Changes[m] \cup Uses[m] \/ (m = "_thread" /\ Joins(u))
  /\ pc[t] = "join_thread" => pc[arg[t]] = "exited"

UseBadHandle(t) == (BadHandle(t) \/ Races(t)) /\ Die

\* A handler of a server that has been destroyed.
UseAfterDestroy(a) == alive = "dead" /\ pc[a] \in InHandler /\ Die

\* insert or erase while clear() iterates without the lock.
RacingClear(k) ==
  /\ Clearing(home[k]) # {} /\ Serving(k)
  /\ co[k] = "spawned" \/ (co[k] \in Live \ {"ready"} /\ k \in tracked[home[k]])
  /\ Die

-----------------------------------------------------------------------------
\* The steps a call in progress takes.
CallStep(t) ==
  \/ GetService(t) \/ AcceptThrows(t) \/ AsyncAccept(t) \/ SetRun(t) \/ MakeThread(t) \/ MakeThreadFails(t)
  \/ ClearRun(t) \/ TestHandle(t) \/ CancelAcceptor(t) \/ HaltService(t)
  \/ BeginServices(t) \/ ResetWork(t) \/ CloseOne(t) \/ ClearClients(t) \/ JoinWorker(t)
  \/ ClearServices(t) \/ TestThread(t) \/ JoinThread(t) \/ DestroyMembers(t)
  \/ JoinReturn(t) \/ UseBadHandle(t)

\* The calls the application may make.
Call(t) == RunCheck(t) \/ StopCheck(t) \/ JoinCall(t) \/ Destroy(t)

HandlerStep(a) ==
  \/ /\ alive # "dead"
     /\ CheckRun(a) \/ GetService(a) \/ AsyncAccept(a) \/ AcceptThrows(a) \/ Spawn(a) \/ UseBadHandle(a)
  \/ AcceptorExit(a)
  \/ UseAfterDestroy(a)

CoStep(k) ==
  CoStart(k) \/ StartRead(k) \/ Refused(k) \/ Resume(k) \/ ReadAborted(k) \/ CoEnd(k)

\* What clients and the network do.
Network(k) == ReadCompletes(k) \/ PeerCloses(k)

Ended == fault \/ (alive = "dead" /\ \A a \in Acceptors : pc[a] \notin InHandler)

Next ==
  \/ /\ ~fault
     /\ \/ \E t \in Callers : CallStep(t) \/ Call(t)
        \/ \E a \in Acceptors : HandlerStart(a) \/ HandlerStep(a)
        \/ \E k \in Sockets : CoStep(k) \/ Network(k) \/ TimerExpires(k) \/ HandlerTimer(k) \/ RacingClear(k)
        \/ \E i \in Services : WorkerExit(i)
  \/ Ended /\ UNCHANGED vars

Spec == Init /\ [][Next]_vars

(***************************************************************************)
(* Fairness: a thread that can run does; callbacks return; time passes;    *)
(* memory is not short for ever.  Nothing is asked of the application's    *)
(* calls, of clients or of the network.                                    *)
(***************************************************************************)
Fairness ==
  /\ \A t \in Callers : WF_vars(~fault /\ CallStep(t))
  /\ \A t \in Threads : SF_vars(~fault /\ AsyncAccept(t))
  /\ \A a \in Acceptors : WF_vars(~fault /\ HandlerStep(a))
  /\ \A k \in Sockets :
       /\ WF_vars(~fault /\ CoStep(k))
       /\ WF_vars(~fault /\ TimerExpires(k))
       /\ WF_vars(~fault /\ HandlerTimer(k))
  /\ \A i \in Services : WF_vars(~fault /\ WorkerExit(i))

FairSpec == Spec /\ Fairness
-----------------------------------------------------------------------------
(* Properties                                                               *)

TypeOK ==
  /\ run \in BOOLEAN /\ acceptor \in BOOLEAN /\ service \in {"running", "null"}
  /\ thread \in Acceptors \cup {None} /\ listed \in BOOLEAN /\ built \in 0..N
  /\ alive \in {"alive", "dying", "dead"} /\ fault \in BOOLEAN
  /\ flag \in 0..SizeMax /\ pos \in Nat \ {0} /\ held \in [Threads -> Nat]
  /\ work \in [Services -> BOOLEAN]
  /\ worker \in [Services -> {"running", "exited", "joined"}]
  /\ tracked \in [Services -> SUBSET Sockets]
  /\ clients \in [Services -> Nat]
  /\ pc \in [Threads -> Labels] /\ at \in [Threads -> Nat \ {0}]
  /\ arg \in [Threads -> Acceptors \cup Sockets \cup {None}]
  /\ visiting \in [Callers -> SUBSET Sockets]
  /\ co \in [Sockets -> CoState] /\ home \in [Sockets -> Nat \ {0}]
  /\ open \in [Sockets -> BOOLEAN] /\ timer \in [Sockets -> BOOLEAN]
  /\ fired \in [Sockets -> {"no", "due", "stale"}]

\* The count get_service balances by is exactly the number of coroutines between their
\* ++clients and their --clients (436-439, 490-491): no path of coroutine_read leaks one.
ClientsExact ==
  \A i \in Services : clients[i] = Cardinality({k \in Sockets : home[k] = i /\ co[k] \in Live})

\* _clients (88) holds only sockets whose coroutine will still erase them, and, until
\* stop() comes to the service, all of them: what clear() has not met it can still close.
Registered ==
  /\ \A i \in Services : \A k \in tracked[i] : home[k] = i /\ co[k] \in Live
  /\ \A k \in Sockets : co[k] \in Live /\ work[home[k]] => k \in tracked[home[k]]

\* Once a worker's run() has returned (211-216) no coroutine of its service is in a callback
\* or will be again and no timer handler is queued: join() in service_t::stop ends the service.
WorkersDrained ==
  \A k \in Sockets : worker[home[k]] # "running" => co[k] \notin Live \cup {"closed"} /\ fired[k] = "no"

\* With one thread calling run() and stop(): while the server runs exactly one accept is
\* pending or about to be posted (371-424), never none (deaf) and never two.
AcceptChain ==
  LET links == Cardinality({k \in Sockets : co[k] = "accepting"})
               + Cardinality({t \in Threads : pc[t] \in Posting \cup {"check"}})
  IN  links <= 1 /\ (run => links = 1)

\* With one thread calling run() and stop(), undefined behaviour needs a stop() in progress or
\* an empty _services (a failed constructor, or run() after stop()): serving clients is safe,
\* no handler meets a reset pointer, another post_accept or a second use of _thread (326-424).
FaultOnlyWhileStopping == fault => Size = 0 \/ \E t \in Callers : pc[t] \in InStop

\* After the destructor (266-269) no handler of the acceptor and no callback is running:
\* stop() has joined every thread that uses the object.
QuietWhenGone ==
  alive = "dead" => /\ \A a \in Acceptors : pc[a] \notin InHandler
                    /\ \A k \in Sockets : co[k] \notin Live \cup {"closed"}

\* The callbacks keep their order and closed comes exactly once (444-497): see Callbacks.
CallbackPhase == [k \in Sockets |->
  IF co[k] = "connecting" THEN "connected"
  ELSE IF co[k] \in {"reading", "ready"} THEN "waiting"
  ELSE IF co[k] \in {"readed", "closed"} THEN co[k] ELSE "none"]

Promise == INSTANCE Callbacks WITH phase <- CallbackPhase, gone <- (alive = "dead")
CallbackOrder == Promise!Spec

\* stop() returns (275-309), if clients fall silent and there is a timeout: only then does a
\* connection that was accepted behind clear()'s back end.
StopReturns ==
  (<>[][\A k \in Sockets : ~ReadCompletes(k)]_vars)
    => \A t \in Callers : (pc[t] = "clear_run") ~> (pc[t] = "idle" \/ fault)

\* Whoever clear() comes across (94-98) gets its closed callback, however busy the client is.
ClosedByStop ==
  \A k \in Sockets : (\E t \in Callers : k \in visiting[t]) ~> (co[k] \notin Live \/ fault)

\* A client that connects is served (417-432), unless the server is being stopped.
AcceptedIsServed == \A k \in Sockets : (co[k] = "accepted") ~> (co[k] \in Live \/ ~run \/ fault)

\* A connection does not stay in async_read_some for ever (455-459): its timer ends it.
IdleDropped == \A k \in Sockets : (co[k] = "reading") ~> (co[k] # "reading" \/ fault)
\* With one thread calling run() and stop(), what the test of _flag has seen still holds when
\* --_flag runs (395-397): a service gets at most poll connections in a row.  Two run()s that
\* race wrap the counter.  Proved in BasicServerOwnerProofs.
Countdown ==
  /\ flag <= PollInit
  /\ \A t \in Threads : pc[t] = "take" => flag > 0 /\ held[t] = flag
-----------------------------------------------------------------------------
(* The inductive invariant behind TypeOK, Registered, WorkersDrained and    *)
(* ClientsExact (proved in BasicServerProofs).                              *)

\* A socket in use belongs to a service that was made; only a waiting read has a timer.
SocketsOK ==
  \A k \in Sockets :
    /\ co[k] # "free" \/ fired[k] # "no" => home[k] \in 1..built
    /\ timer[k] => co[k] \in {"reading", "ready"}

\* A handler of the acceptor holds a socket of its own that no coroutine has.
HandlersOK ==
  \A a \in Acceptors : pc[a] \in InHandler =>
    /\ arg[a] \in Sockets /\ co[arg[a]] \in {"accepted", "failed"}
    /\ \A b \in Acceptors \ {a} : pc[b] \in InHandler => arg[b] # arg[a]

\* get_service chooses among the services that were made; what it decrements was in _flag.
DispatchOK ==
  /\ built > 0 => pos \in 1..built
  /\ \A t \in Threads : pc[t] \in {"accept", "keep"} => at[t] \in 1..built
  /\ \A t \in Threads : pc[t] = "take" => held[t] \in 0..SizeMax

\* The loop of stop(): the services behind it are joined, the work of its own is reset.
LoopsOK ==
  \A t \in Callers :
    /\ pc[t] \in {"work", "closing", "join"} =>
         at[t] \in 1..built /\ \A i \in 1..(at[t] - 1) : worker[i] # "running"
    /\ pc[t] \in {"closing", "join"} => ~work[at[t]]
    /\ pc[t] = "clear" => \A i \in Services : worker[i] # "running"

\* _services is cleared only when no worker runs, and the object goes after that.
ListedOK ==
  /\ \A i \in Services : i > built \/ ~listed => worker[i] # "running"
  /\ alive = "dead" => ~listed

IInv ==
  /\ TypeOK /\ SocketsOK /\ HandlersOK /\ DispatchOK /\ LoopsOK /\ ListedOK
  /\ Registered /\ WorkersDrained /\ ClientsExact
-----------------------------------------------------------------------------
(* The safety half of StopReturns and IdleDropped (proved in                *)
(* BasicServerOwnerProofs): what a call waits for can come about.  A call   *)
(* waits only in a join; its other labels always have a step.               *)

\* With a timeout a read that waits on an open connection has a timer running or due: its
\* handler will close the connection (455-459, 500-514).
ReadsAreTimed ==
  \A k \in Sockets : Timeout /\ co[k] = "reading" => timer[k] \/ fired[k] # "no" \/ ~open[k]

\* The worker of service i returns from io_service::run(), or has a step to take first that
\* no client is asked for.
WorkerMoves(i) ==
  \/ \A k \in Sockets : home[k] = i => co[k] \notin Queued /\ fired[k] = "no"
  \/ \E k \in Sockets : /\ home[k] = i
                        /\ \/ co[k] \in Queued \ {"reading"} \/ (co[k] = "reading" /\ ~open[k])
                           \/ timer[k] \/ fired[k] # "no"

WaitsForClient(i) == \E k \in Sockets : home[k] = i /\ co[k] = "reading" /\ open[k]

\* Thread a is over, or is in a handler, or returns from io_service::run().
AcceptorMoves(a) ==
  \/ pc[a] \in InHandler \cup {"exited"}
  \/ pc[a] = "wait" /\ (service = "null" \/ \A k \in Sockets : co[k] # "accepting")

\* The joins of stop() and join() (216-222, 300-306, 312-318) do not wait for ever on a thread
\* that waits itself: a worker whose work is reset has a step unless, without a timeout, it
\* waits for a client; an acceptor thread has one as soon as the io_service is gone, and the
\* io_service is gone whenever stop() comes to join it.
JoinsCanEnd ==
  \A t \in Callers :
    /\ pc[t] = "join" =>
         at[t] \in Services /\ ~work[at[t]]
           /\ (WorkerMoves(at[t]) \/ (~Timeout /\ WaitsForClient(at[t])))
    /\ pc[t] = "join_thread" => arg[t] \in Acceptors /\ AcceptorMoves(arg[t])
    /\ pc[t] = "join_wait" =>
         arg[t] \in Acceptors /\ (AcceptorMoves(arg[t]) \/ (service = "running" /\ pc[arg[t]] = "wait"))

\* How far a stop() or a destructor is from its end, in steps other than those of clear().
Ahead(t) ==
  LET loop == 3 * (built - at[t])
  IN  CASE pc[t] = "clear_run"   -> 3 * built + 11
        [] pc[t] = "acceptor"    -> 3 * built + 10
        [] pc[t] = "cancel"      -> 3 * built + 9
        [] pc[t] = "service"     -> 3 * built + 8
        [] pc[t] = "halt"        -> 3 * built + 7
        [] pc[t] = "members"     -> IF Size > 0 THEN 3 * built + 6 ELSE 1
        [] pc[t] = "services"    -> 3 * built + 5
        [] pc[t] = "work"        -> loop + 7
        [] pc[t] = "closing"     -> loop + 6
        [] pc[t] = "join"        -> loop + 5
        [] pc[t] = "clear"       -> 4
        [] pc[t] = "thread"      -> 3
        [] pc[t] = "join_thread" -> 2
        [] OTHER                 -> 0

\* A stop() never goes back (275-309), whatever the other threads do meanwhile, not even when
\* the destructor's members stop what it has left: with JoinsCanEnd, why it returns.
StopOnlyAdvances ==
  [][\A t \in Callers : pc[t] \in InStop =>
       /\ Ahead(t) \in 1..(3 * built + 11)
       /\ UNCHANGED <<pc[t], at[t]>> \/ Ahead(t)' < Ahead(t)]_vars
=============================================================================

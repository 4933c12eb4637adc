# kg-cpp in TLA+

kg-cpp is a header-only C++ library "in the style of go": a coroutine TCP server and a
client for it (`net/`), a byte buffer (`bytes/`), slices (`slice.hpp`), a script host for
duktape with modules (`scripts/`), a salted XOR cipher (`crypto/`) and small helpers. This
directory holds TLA+ modules translated from its headers, TLC configurations that check
them on small instances, and proofs, checked by TLAPS, of the most important invariants for
every instance. Paths below are relative to `src/include/kg/`.

    tlc -config Buffer.cfg MCBuffer         # a run: the .cfg of the table below, its MC module
    tlapm BufferProofs.tla                  # the proofs of a component

Contents: 1 inventory, 2 the modules and the code, 3 the runs, 4 fairness, 5 the proofs,
6 where the code and its comments disagree, 7 what is not modelled, 8 the plan.


## 1. Inventory

### basic_server (`net/basic_server.hpp`)

*State.* `_run`, the shared pointers `_acceptor`, `_service` and `_thread`, the vector
`_services` of `service_t` (one `io_service`, one worker thread, the set `_clients` and the
counter `clients` for each CPU), and `_flag`, `_pos`, by which `get_service` deals
connections out to the CPUs. Each connection is a coroutine with a socket and, with a
timeout, a deadline timer.

*Operations.* The constructors, `run`, `stop`, `join`, the destructor; inside,
`post_accept`, `post_accept_handler`, `get_service`, `coroutine_read`, `handler_timer`,
`service_t::insert/erase/clear/stop`, and the two thread functions.

*Interaction.* The application calls in from its threads and is called back (`connected`,
`readed`, `closed`) on the worker threads. The acceptor's thread hands each socket to a
worker by `spawn`. `stop` reaches into every worker's `_clients`.

*What is hard.* The line `boost::mutex::scoped_lock(_mutex);` declares a local lock *named*
`_mutex`; it locks nothing. So `run` and `stop` interleave with each other, with the
acceptor's thread (which uses pointers `stop` resets) and with the workers (whose set
`clear` walks). Coroutines that were spawned but have not started, timers that expired but
whose handler is queued, and constructors and `run` that failed half-way add to it.

*What makes it correct.* Callbacks of a connection come in order and `closed` exactly once;
the counters and the registry are exact; a worker that ended left nothing behind; exactly
one accept is outstanding; `stop` closes and returns; idle clients are dropped and active
ones are not; undefined behaviour is confined to a `stop` in progress.

### buffer and fragmentation (`bytes/buffer.hpp`, `bytes/fragmentation.hpp`)

*State.* A list of fragments (array, capacity, `_offset`, `_size`) and one cached fragment.
*Operations.* `write`, `read`, `copy_to` (with and without a skip), `size`, `reset`,
`reset_cache`. Used by one thread.
*What is hard.* The split of a write between the free room at the back and a new fragment;
reuse of the cached fragment; clean-up at the front; allocations that fail between two
steps; the skip of `copy_to`.
*What makes it correct.* It behaves as a stream of bytes, whatever the fragments look like.

### echo_server, echo_client (`net/echo_server.hpp`, `net/echo_client.hpp`)

*State.* Each side keeps a `buffer_t` with unparsed bytes and the size of the message that
is arriving (-1: its header is not there yet). *Operations.* The server's `forward_connected`,
`forward_readed`, `forward_closed` (its `run`, `stop`, `join` are those of `basic_server_t`);
the client's `connect`, `close`, `read` and the two `reader_message`.
*Interaction.* Over a TCP stream; the applications supply the function that tells a
message's size from its header.
*What is hard.* TCP cuts the bytes anywhere; several messages arrive in one read; refused
headers, failing allocations and reconnects leave state behind.
*What makes it correct.* Both sides cut the stream into the messages that were sent, whole,
once and in order; a client that waits for an answer gets it.

### slice (`slice.hpp`, `slice_impl.hpp`)

*State.* A shared array and a window on it (`_pos`, `_size`, `_capacity`). *Operations.* The
constructor, two `range`, three `append`, two `copy_from`, access by index and iterator.
*What is hard.* Slices share arrays: `append` writes in place while there is capacity and
moves to a copy when there is none; a window cut from the middle counts everything from its
own start; a copy may overlap itself. *What makes it correct.* No window reaches out of its
array; a call writes only the elements it is about; the result of an append is the
concatenation, and an array that was grown is nobody else's.

### script modules (`scripts/duktape-extras/`)

*State.* A global table `_g_kg_modules` of the script engine: for each type of module ("js",
"c") the pointer of a loader, the function that frees it, and `libs`, the cache of what it has
loaded. *Operations.* `init`, `register_loader`, the finalizer `native_destory` of the table,
the script's `kg_import` (`native_import`, `import_pkg`), and `module_import` of the two
loaders. *Interaction.* A module is a script or a native function that runs while it is
imported: it imports others, itself among them, and a native one reaches the host's
functions. *What is hard.* Who frees a loader, when one is replaced, dropped by a second
`init` or replaced while it is loading; values found by counting from the top of the stack;
names read through pointers after the strings were popped; the engine's limit on recursion.
*What makes it correct.* A loader is freed once; an import returns the package it was asked
for, from the first loader and directory that has it; the cache does not change under its
users; a native module's library is open as long as the module may be used.

### k3xsx_salt (`crypto/k3xsx_salt.hpp`)

*State.* The base of the salts. *Operations.* `encryption` and `decryption` of a piece of the
caller's memory into another. *What is hard.* Both read the salts from that memory again for
every byte, so it matters how the two pieces overlap; ints that must be cut to bytes; the
subtraction of a `size_t`. *What makes it correct.* One call undoes the other, and neither
writes outside its target.

### windows firewall (`windows/firewall.hpp`)

*State.* One COM reference, `_profile`; the locals of a method; and, outside, the rules of the
system. *Operations.* The constructor and destructor, `is_on`, `turn_on`, `turn_off`, the four
`app_` and two `port_` methods. *Interaction.* Other threads and programs change the same
rules. *What is hard.* Every method is a row of COM calls each of which may fail, with a
clean-up of its own; methods ask first and act on the answer later. *What makes it correct.*
Nothing leaks or is used when released; a method that throws has changed nothing; what a
method promises was so.

### the rest

`scripts/duktape.hpp` wraps the engine's C functions one to one, without state but the pointer
of the heap; `scripts/duktape/` is the vendored engine. `windows/com.hpp`, `console.hpp`,
`utf.hpp` wrap single system calls; `debug.hpp` is macros that format text; `defer.hpp`,
`allocator.hpp`, `types.hpp` and `utils/` are a few lines each.


## 2. The modules and the code

| module | stands for | kind |
|---|---|---|
| `BasicServer` | `basic_server_t`, `service_t`, the coroutines | detailed model |
| `Callbacks` | what the server promises about its callbacks (510-556) | abstract specification |
| `Buffer` | `buffer_t` with `basic_fragmentation_t` | detailed model |
| `ByteStream` | what the buffer promises | abstract specification |
| `EchoServer` | a session of `echo_server_t` | detailed model |
| `EchoClient` | `echo_client_t` | detailed model |
| `Echo` | a client, a session and the TCP stream between them | composition |
| `Slice` | `slice_t`, `slice_impl` and the arrays they share | detailed model |
| `GoSlices` | what "like go's slice" promises: who sees whose writes | abstract specification |
| `ScriptModules` | the table of loaders, `kg_import`, the loaders, the end of the heap | detailed model |
| `K3xsx` | `k3xsx_salt_t` on the caller's memory | detailed model |
| `Firewall` | the methods of `firewall_t` and the rules they change | detailed model |
| `MCBasicServer`, `MCBuffer`, `MCEcho`, `MCSlice`, `MCScriptModules`, `MCK3xsx`, `MCFirewall` | constants and symmetry for TLC | |
| `BasicServerProofs`, `BasicServerOwnerProofs`, `BufferProofs`, `EchoProofs`, `SliceProofs`, `ScriptModulesProofs`, `K3xsxProofs`, `FirewallProofs` | theorems | |

**BasicServer.** Threads are the application's (`Callers`), the ones `run` creates
(`Acceptors`, one name for each `run` that gets that far) and one worker for each service.
`pc[t]` is the next step of a call or of the acceptor's handler; because nothing is locked,
every step between two accesses of shared state is an action: `stop` is `StopCheck`,
`ClearRun`, `TestHandle` (the test of a pointer), `CancelAcceptor` / `HaltService` (its use),
`BeginServices`, `ResetWork`, `CloseOne`, `ClearClients`, `JoinWorker`, `ClearServices`,
`TestThread`, `JoinThread`; `post_accept` is `TestFlag`, `Decrement`, `ScanBegins`, `ScanFirst`,
`ScanNext`, `ScanKeeps`, `ScanEnds`, `Pick` (together `GetService`: every access of `_flag`, `_pos`
and a count is a step, and `_flag` has a width, `SizeMax`), `AsyncAccept`, `AcceptThrows`. A
worker runs one coroutine at a time and switches only where one waits, and such a segment
touches each shared variable at most once, so it is one action: `CoStart`, `StartRead`,
`Resume`, `Refused`, `ReadAborted`, `CoEnd`. `co[k]` follows a socket object from
`async_accept` to the end of its coroutine; names are reused, so runs are unbounded in length.
A timer has two parts, whether it is armed (`timer`) and whether its handler is queued
(`fired`); `fired = "stale"` is a handler whose read has completed since, which is what
`cancel` cannot take back. Using a null pointer, an element of a cleared vector, or a set
that is being walked is undefined in C++, and so is the use of `_acceptor`, `_service`, `_services`
or `_thread` in two threads one of which changes it (`Races`: two `run`s that assign `_thread`,
`run` against `join()`'s copy, two `async_accept`s); `UseBadHandle`, `UseAfterDestroy`,
`RacingClear` set `fault`, after which nothing runs. The undefined step is offered beside the orderly
one where the build may get away with it (a racing insert may or may not be met by `clear`).

**Buffer.** A fragment is its capacity, offset and readable bytes. `write` is one step with
its two outcomes; the loops of `read` and `copy_to` take one step for each fragment so that
the invariant is visible inside them. `Fails` says which allocations may fail: the fragment
object, its array (the constructor swallows that one), the list node. `stream` and `at` are
history: the bytes a `write` said it accepted and where each fragment begins in them.

**EchoServer, EchoClient, Echo.** The unparsed bytes are a sequence, since `Buffer` is shown
to implement `ByteStream`, but for one thing: a fragment whose array is refused takes no bytes
and says nothing of it (`fragmentation.hpp:59-66`, section 6), so that a write the session or the
client takes for complete may have kept only its first bytes (`Written`). Such a loss is recorded:
on the server in `lossy`, on the client as "gap" in `spoilt`. A handler of a session is one action because `basic_server_t`
runs one handler of a connection at a time (`Callbacks`). `Read` and `ReadSome` take any
number of the bytes that have arrived, so every cut of the stream occurs. `Echo` joins the
two by `up` and `down`, the bytes under way. The server's `_readed` writes the message back
(or a header the client refuses), as the test programs do. `callbacks` and `reader` are
which functions the applications have set. On the client `spoilt` records why its parser may
be out of step: a refused header (whose size stays), a write that failed, bytes of an earlier
connection, a swallowed `bad_alloc`, bytes the buffer has lost, `reader_message(b, n)`.

**Slice.** The application keeps slices in variables (`Names`) and assigns to them what a call
returns, so that windows are cut from windows and arrays lose their last slice; `slice_impl`
never changes once it is made, which is why a slice is a record and copies are equal records.
Each call is one action (a slice is used by one thread). The results of `std::copy` inside one
array are all the ones a build may give (`CopyResults`). `Uses` says which calls the
application makes that the code does not get right or the library leaves undefined; the runs
and the proofs differ in it. `GoSlices` knows only cells: what a slice shows, what is spare
behind it, and what the cells hold; a cell of `Slice` is a place in an array.

**ScriptModules.** A frame is one `native_import` in progress with the values it has on the
engine's stack; `kg_import` of a module that runs puts a frame on top of the others. Between
two calls of a module's code the engine runs one thing at a time, so a step is what one pass
of a loop does: the look into a cache, one directory, one evaluation. `Item`s are the kinds of
values on the stack; `FromTop` and `Pop` find and remove them by counting, as the code does.
`Temps` says whether scripts pass strings that nothing but the stack holds; the code pops the
names and reads them later (module.hpp:205), so such a name may then be any. `NoName` is an
import whose first argument is no string. A loader object
is `unused`, `live` or `freed`; `leaked` is history: what a second `init` made unreachable
(its `duk_put_prop` drops the old table, whose finalizer meets the new one, deletes it, and so
makes the `register_loader` of the same `init` throw). `Wrap` is a native module that puts its
context into a `duktape_t`, which destroys the heap it runs on. `Files` are the modules that
can be opened; what is in them is open: an evaluation gives an object, something else, or
undefined, after any imports and registrations.

**K3xsx.** A byte is the set of its bits. The memory is one array in which a call may be given
any two places; a call is as many steps as bytes, since each reads the salts anew. `SizeMax` is
the greatest `size_t`: `n - 3` of a cipher text that is too short wraps (`Rounds`), and only the
test in front of the loop keeps it from running (`TooShort`). `good` is
history: a cipher text that nobody has written over and the text it stands for; `sound` says
that source and target do not overlap in the ways the code cannot survive
(`EncryptsSoundly`, `DecryptsSoundly`: the widest under which the properties hold).

**Firewall.** A method is a table of its COM calls: what each uses, what it yields, and what the
code releases when that call fails, copied from the clean-up of that very exit. One set of
actions runs the tables: `Succeed`, `Found`, `Add`, ... for the ways a call ends, `Fail` for any
failure. `rules` is the system's; the steps of other users come in between. `lost`, `seen`
and `did` are history: what the last method forgot, and what the rule was during the call.

Definitions marked "variant" are a plausible slip at that place; each property is checked
to fail when the definition below it is replaced by the variant, so none holds by
accident. They take no part in the specifications.


## 3. The runs

| configuration | instance | states | shows |
|---|---|---|---|
| `BasicServerOwner` | 1 caller, 2 runs, 2 sockets, 2 CPUs, poll 2, timeout, fair | 25,613 | `AcceptChain`, `FaultOnlyWhileStopping`, `QuietWhenGone`, `CallbackOrder`, `StopReturns`, `ClosedByStop`, `AcceptedIsServed`, `IdleDropped` |
| `BasicServerCallers` | 2 callers, 1 run, 3 sockets, 2 CPUs, poll 1, no timeout | 2,619,055 | `TypeOK`, `ClientsExact`, `Registered`, `WorkersDrained` |
| `Buffer` | 2 byte values, capacity 2, calls of up to 3, stream of up to 5 | 478,143 | `TypeOK`, `Packed`, `Fifo`, `StreamSpec` |
| `Echo` | header of 2, messages of 2 and 3 bytes, reads of 1 to 3 bytes, 2 messages, 2 connections, fair | 2,020,230 | `TypeOK`, `ServerFraming`, `StallsOnlyOnKept`, `ClientFraming`, `BlocksForBytes`, `Answered` |
| `Slice` | 2 slices, 3 arrays of up to 3 elements, 1 value and "not written" | 26,104 | `TypeOK`, `InBounds`, `CallsDeliver`, `IsGoSlice` |
| `ScriptModules` | 2 js loaders and a c loader, 2 packages, 2 js directories and a c one, imports 2 deep, 3 evaluations | 965,212 | `TypeOK`, `LoadersOwned`, `Imported`, `StackShape`, `CacheStable` |
| `K3xsx` | 6 cells, texts of up to 2 bytes, 2 calls, 2 bases | 155,527 | `TypeOK`, `Recoverable`, `RoundTrip`, `StaysInside` |
| `Firewall` | 2 users, 1 program, 1 port | 1,064,812 | `TypeOK`, `Released`, `UsesHeld`, `AllOrNothing`, `Promised` |
| four more | | | disagreements, section 6 |

*AcceptChain*: with one owner, exactly one accept is pending or about to be posted while
the server runs, through failed accepts, exceptions in `post_accept` and a `run` that could
not make its thread. *FaultOnlyWhileStopping*: serving never runs into undefined behaviour;
it takes a `stop` in progress or an empty `_services` (a constructor that failed, or `run`
after `stop`). *QuietWhenGone*: nothing of the object runs after its destructor.

*ClientsExact*, *Registered*, *WorkersDrained*: however badly two threads' `run` and `stop`
race, and up to the step that is undefined (`fault`), the counter is the number of coroutines between `++` and `--`, `_clients` holds exactly
the connections `clear` may still close, and a joined worker has no callback left to make. `_flag` is not among these counters: two `run`s
that race both decrement it and wrap it around, which `TypeOK` admits; that one thread's calls
never do is `Countdown`, proved (section 5).

*CallbackOrder*: the server implements `Callbacks`. *StopReturns*: `stop` returns, provided
clients fall silent and there is a timeout; without these a connection accepted behind
`clear`'s back keeps its worker, and `stop`, for ever. *ClosedByStop*: whoever `clear` comes
across gets `closed`. *AcceptedIsServed*, *IdleDropped*: as named.

*Packed*, *Fifo*, *StreamSpec*: no `memcpy` leaves its array; only the last fragment has room;
the fragments are the stream; every call is a byte stream's.

*ServerFraming*, *ClientFraming*: each side delivers a prefix of what the other sent, message
by message; the server unless its buffer has lost bytes (`lossy`), when what it delivers is still
something a header announces, all of it; the client unless `spoilt` says why not.
*StallsOnlyOnKept*: when both sides wait for bytes and none is under way, it is because the
session holds a whole message back, or one of the buffers has lost bytes, or the client's parser
was out of step before, and for no other reason (no size left over, no header misread, no byte
overlooked). *BlocksForBytes*: `read()` never blocks on a message that is in its buffer.
*Answered*: a client that waits for each answer gets it, unless bytes were lost or it is out of
step.

*InBounds*: a window ends where its array does, after any series of cuts and appends.
*CallsDeliver*: `append(slice)` gives the concatenation and `copy_from` an overlay of the
source, also when both are windows on one array. *IsGoSlice*: the calls implement `GoSlices`:
an append in place writes only behind what the slice shows, one that grows shares nothing
with its source, `range` and writes change no other cell. In the passing run `Uses` is empty:
`append(val)` of a slice that starts inside its array is left to `SliceAppendValue`, and
copies that overlap with their destination inside their source are undefined.

*LoadersOwned*: one loader of a type; whoever is live is in the table or was dropped by a second
`init`; a freed loader is met only by an import whose native module has replaced it. That
`register_loader` frees at all is what its comment denies (`ScriptModulesReplaced`). *Imported*:
the object is the package asked for, from the first place that has it, and libraries are open
as often as their modules live; this does not cover names that only the stack holds, which
the code may misread. *StackShape*: values are where nested imports count them. *CacheStable*: only
the circular import of a package overwrites what is cached.

*Recoverable*, *RoundTrip*: what is enciphered is deciphered, in place too. *StaysInside*: no byte
outside the target is written, with sizes below 3 as well, whose `n - 3` would wrap.

*Released*, *UsesHeld*: COM references and strings balance on all the ways out, but for an empty
name. *AllOrNothing*: a method that throws has changed no rule. *Promised*: what a method
says was so at some moment of the call, except where the code takes a failure of `Item` for
"not listed" and where `port_allow` has asked about another port.

*Bounds.* Two sockets on two CPUs are a live connection beside an accept, twice over as names
are reused, and the liveness properties leave no room for more; two names of acceptor threads are
a `run` after a `stop`. Three sockets on two CPUs give two connections on one service and one on
another, which is when `get_service` finds a service with fewer clients than the first
(`ScanKeeps`); two callers bring two `stop`s together in every place of the loop, and two `run`s
in every place of `get_service`. Poll 2 on two CPUs uses up the slots of a service and starts the
next round; `SizeMax` is above every count and poll, so that what has wrapped is told apart.
A capacity of 2 under calls of 3 makes every write that does not fit take both halves of the
split, and 5 bytes make up to three fragments. Reads of 1 to 3 bytes end inside the header, at
its end, inside the body, at its end and inside the next message; two connections are what it
takes to meet the leftovers of the first. `SocketToSpare` and the names in `Acceptors` are
bounds of the model: an accept is always left a socket name, and `run` gets past its test as
often as there are names. `Window`, `MaxSent` and `MaxConnects` bound what the client's
application does; the parser is fed by hand (`Feed`) only while it is in step. Two js loaders
make one that is replaced and one that replaces it, or is dropped and one that drops it; imports
two deep nest a js import in a native one and the reverse, and three evaluations make a circle
whose object is overwritten and one more beside it. Six cells hold two texts with their salts
one over the other at every offset. Two users suffice for a rule that changes between question
and act; a third would only repeat the change. Three elements and two slices suffice for a
window in the middle of an array, with spare room behind it, beside another window that overlaps
it from either side; the third array is the one a growing append takes. Symmetry is used in runs
without liveness properties only; the properties of `Slice` do not name a variable or an array.

*Deadlock* is checked in every run. A server that was destroyed, or whose process died,
stutters by an explicit disjunct (`Ended`), as does an echo pair that has used up its
connections; the buffer, the slices and the firewall never stop. It is not checked for
`K3xsx` and `ScriptModules`, which stop at their bounds (`Calls`; a heap that is gone).


## 4. Fairness

`BasicServer!Fairness`: a thread that can run does (weak fairness of a call's next step, of
the acceptor's handler, of coroutines, of a worker's exit), callbacks return (a coroutine's
steps include leaving a callback), time passes (`TimerExpires`, `HandlerTimer`), and memory is
not short for ever (strong fairness of `AsyncAccept`, against which `AcceptThrows` repeats).
Nothing is asked of the application's calls, of clients, or of the network: `ReadCompletes`,
`PeerCloses`, `HandlerStart` need not happen. The liveness properties hold "or `fault`", as a
dead process promises nothing.

`Echo!Fairness`: the server's handlers run when bytes are there, bytes under way arrive, and
a client blocked in `read_some` wakes for bytes and for the end of a connection that ended.
Nothing makes the client's application send, read or close.


## 5. The proofs

`BasicServerProofs`, for every finite set of sockets, any callers, acceptors, CPUs and poll:

* `TypeCorrect` `Spec => []TypeOK`; its hard part is that no number of clients goes below 0
  (`_flag` may, around to `SizeMax`: see `CountdownHolds`);
* `CountsStayExact`, `RegistryStaysExact`, `WorkersStayDrained`: the three invariants;
* `CallbackOrderHolds`: `Spec => CallbackOrder`, the refinement of `Callbacks`.

None of the properties is inductive. `IInv` adds: a socket in use belongs to a service that
was made, and only a waiting read has a timer (`SocketsOK`, so that `--clients` meets the
service that was counted); the acceptor's handlers hold different sockets no coroutine has
(`HandlersOK`, so that `spawn` does not revive a live one); `get_service` stays inside
`_services` (`DispatchOK`); behind the loop of `stop` every worker is joined (`LoopsOK`); the
vector is cleared only when no worker runs, and the object goes after that (`ListedOK`, which
makes the destructor safe for the callbacks). `WorkersDrained` itself rests on the guard of
`WorkerExit` and on no coroutine starting on an ended worker. `ClientsExact` is an induction
on steps with `Cardinality` facts: a step changes the number of live coroutines of one
service by at most one (`LeaveExact`, `CoStartExact`, `SameLive`). Assumed is
`ServerAssumption` only.

`BasicServerOwnerProofs`, from `ServerAssumption` and `Callers = {c}` (two threads that race
through `run` and `stop` do break them):

* `ServingIsSafe`: `Spec => []FaultOnlyWhileStopping`;
* `CountdownHolds`: `Spec => []Countdown`, what `get_service` has tested of `_flag` still holds
  when it decrements, so that the `size_t` does not wrap;
* `OneAcceptAtATime`: `Spec => []AcceptChain`, for any CPUs, runs and connections;
* `NothingAfterTheEnd`: `Spec => []QuietWhenGone`.

`Handles` says that outside `stop` the acceptor and its service are there unless `_services`
is empty, which it stays for ever once `stop` has been through. `Joined` says that handlers
run on `_thread` alone and that the owner has joined it before its next `run` and before the
destructor ends. `Links` is the chain itself: never two accepts, two posts or both, one while
`run` or about to be set, and none once `stop` is past the io_service and the thread is over.
`OwnerKinds` sorts the steps, so that the connections' need only one argument (`Apart`). That a
running server has one `post_accept` at a time (`Links`) is also why it meets no race on the
acceptor and why nobody else moves `_flag` between its test and its decrement.

The same module proves what of `StopReturns` is not liveness, for any number of callers,
services and sockets:

* `CallsDoNotHang`: `Spec => []JoinsCanEnd`. Whatever a join in `stop`, `join()` or the
  destructor waits for, a thread, a coroutine or a handler has a step to take; with a timeout
  none of them needs the client.
* `ReadsStayTimed`: `Spec => []ReadsAreTimed`. With a timeout every read on an open socket has
  its timer running or the timer's handler on its way.
* `StopOnlyAdvancesHolds`: `Spec => StopOnlyAdvances`. `stop` is at most `3 * built + 11` of its
  own steps from its end (`clear`'s loop counts as one) and nobody's step takes it back.

`JoinsCanEnd` says outright which step is there, since `ENABLED` is beyond the prover; for the
small instances TLC confirms that these are the steps the actions' guards allow. It needs
`Halts`: behind its step on the io_service a `stop` leaves none, or only that of a server whose
destructor has joined the thread; an io_service that runs beside a thread means that `_run` is
set or a `stop` has yet to come to it; what is joined was made; the destructor runs alone.
Together with the fairness of section 4 the three say why `StopReturns` holds; that last step
is temporal and stays with TLC.

`BufferProofs`, for every capacity, alphabet and bound. Whichever allocation fails:

* `BufferTypeCorrect`: `Spec => []TypeOK`;
* `BufferStaysInside`: `Spec => [](Inside /\ CallerInside)`, no `memcpy` leaves an array, of a
  fragment, of the cached one, or of the caller, whatever `copy_to` is told to skip;
* `BufferIsGenuine`: `Spec => [](Genuine /\ Ordered)`, what can be read was written, in the
  order of the writes and once;
* `BufferReadsAPiece`: `Spec => ReadsAPiece`, a step of `read` takes a piece of the stream, and
  the stream goes on behind it;
* `BufferCopiesAPiece`: `Spec => CopiesAPiece`, a step of `copy_to` shows a piece of the stream
  that lies in the fragment it is at: a skip leaves bytes out, and repeats or reorders none.

Under the hypothesis that an array is never refused (`"array" \notin Fails`), for otherwise
bytes do get lost (section 6) and these are false:

* `BufferPacked`, `BufferFifo`: nothing is missing;
* `BufferIsByteStream`: the refinement, which adds the hypothesis `Skips = {0}`;
* `BufferOneFragmentSkips`: `Spec => OneFragmentSkips`, what the comment says of a skip is true as
  long as one fragment holds the stream (the run `BufferCopySkips` shows that two are enough for it
  to be false). With `CopyOnce`, the loop has taken its one step or not.

Behind the first five is `SafeInv`. Neither `Inside` nor `Genuine` is inductive: bytes could be
appended to a fragment that is no longer where the stream ends, after a later one was lost.
`RoomAtEnd` excludes that (a fragment whose array was refused has no room, and only the last is
appended to). `Holds` is one fragment's share of the invariant, with a lemma for everything that
happens to a fragment (`HoldsLonger`, `HoldsShifted`, `HoldsDropped`, `HoldsFilled`, `HoldsNew`).

For the others `IInv` is `TypeOK`, `Packed`, `Fifo` with `Ordered` (fragments lie one behind the
other in the stream, which follows from `Fifo` only by induction along the list and is therefore
carried along), `Locals` and `CopyLoop` (what `copy_to` has collected is a prefix of the stream
and ends where the next fragment begins). The lemmas `PutAppends`, `DropMoves`, `PeekShows` say
what the operations of a fragment do; the proof has one lemma for each action.

`EchoProofs`, for every size of header, reader, alphabet, set of messages and every way the
streams are cut: `EchoTypes`, `EchoServerFraming`, `EchoServerPending`, `EchoClientFraming`,
`EchoBlocksForBytes`, from `EchoAssumption` (the reader returns an int for every header; each
message has the size its reader tells; no reader is asked about a header of no bytes that
would be refused, since sending it sends nothing). `EchoServerFraming` and `EchoClientFraming`
speak, as their properties do, of a session that has lost no bytes (`~lossy`) and of a client
that has lost none and is in step (`spoilt`): a swallowed allocation puts either parser out of
step for good, and the statements are false without that hypothesis. That a session handles only
what a header announces, and that `read()` does not wait for what it has, holds with lost bytes
too.

None is inductive, for a header says nothing once the bytes are out of step. `IInv` therefore
keeps, for the server (`Sessions`) and for the client in step (`Replies`), that the stream is
`Framed`: the messages taken are the first of those put in, and the bytes buffered and under
way are those of the others end to end. `SizeKept` ties a parser's size to the header in its
buffer. `FramedSend` and `FramedTake` are what appending and taking a message do to the stream;
`HeaderTells` is the heart: at the front of such a stream a size that is not refused is that of
the next message, and the message is not one whose header is refused. `Blocked` is separate:
whatever the stream holds, `read()` only goes on to wait after it has looked.

Three theorems are about the pair:

* `EchoEndToEnd`: `Spec => []EndToEnd`, what `read()` returns is what the application sent,
  message by message, through both parsers and both directions, while neither buffer has lost
  bytes and the client is in step;
* `EchoStallsOnlyOnKept`: `Spec => []StallsOnlyOnKept`, with its causes: a message held back,
  bytes lost, a client out of step;
* `EchoNeverStalls`: `Spec => []NeverStalls`, the safety half of `Answered`: with `Window` at
  most 1 the two sides never wait for each other, while neither buffer has lost bytes and the
  client is in step.

They add to `IInv` that each message handled has its answer, the message itself or one the
client refuses (`Answering`), that a client which reads has sent more than it was answered and
holds no header (`Awaiting`), and that with `Window` at most 1 a session that waits for a header
holds less than one (`KeepsNone`). `StallShows` is the argument: with no byte under way the
buffers are the rest of the two streams, so that a message which is missing from both answers
and client's buffer lies in the session's, whole.

`SliceProofs`, for every set of variables, arrays and elements, every bound and every `Uses`
(also for the calls the passing run leaves out: they write wrong elements, never outside an
array):

* `SliceTypeCorrect`: no size, position or capacity falls below zero, and arrays hold elements;
* `SlicesInBounds`: `Spec => []InBounds`;
* `SliceCallsDeliver`: `Spec => CallsDeliver`, under the hypothesis `"overlap" \notin Uses` (a copy
  whose source begins before its target in the same array does give other elements, section 6);
* `SliceIsGoSlice`: `Spec => IsGoSlice`, under the hypothesis `"value" \notin Uses` (an
  `append(val)` of a slice that starts inside its array writes a cell in front of the one
  it adds, which `GoSlices` does not allow; section 6).

The two are inductive together (`Safe`). `AssignKeeps` carries the argument: assigning a slice
that ends where its array does, while arrays in use keep their lengths, keeps `Safe`; the
lemmas for the actions show that every call does that (`OverlayKeeps`, `CopyKeeps`: a write
keeps the length; `SubFits`, `LongerFits`: a cut and an append end where they should).
`SliceCallsDeliver` then follows from `Safe`: `FrontWritten` says what a loop of copies leaves
when source and target may be in one array, `LongerShows` and `GrowShows` what an append in place
and one into a new array show, and `AssignShows` that a slice shows what it was assigned.
`SliceIsGoSlice` compares cells: `CellsOf` says that `Shown` and `Spare` together are the cells up
to the end of the array, `NewCells` that a new array's belong to nobody else, `NoneNew` that a
slice made from another has only cells that were held before, `CutCells` that `range` cuts them,
and `OverlayLeaves` which cells a write does not touch. Each call then makes its step of
`GoSlices` (`MakeIsMake`, `RangeIsRange`, `LongerIsAppend`, `GrowIsAppend`, `OverlayIsWrite`); for
this one the order of an overlapping copy does not matter (`CopyIsOverlay`).

`ScriptModulesProofs`, for any loaders, types, packages, files and bounds:

* `ScriptTypeCorrect`: `Spec => []TypeOK`;
* `ScriptLoadersOwned`: `Spec => []LoadersOwned`;
* `ScriptStackShape`: `Spec => []StackShape`;
* `ScriptCacheStable`: `Spec => CacheStable`;
* `ScriptImported`: `Spec => []Imported`.

`IInv` says that the table has one loader of a type and that those in it are live (`Owned`), of
every import in progress that its values are where they are counted (`Shaped`), that it has
found a loader (`Looked`), and that the types it is about stay in the table, if not the loader
it has looked up (`Served`, which holds because `register_loader` only ever replaces).
`Registered` is the lemma about `register_loader`; `Replaced` and `Left` leave of a step only
what it does to the innermost frame. For the cache, `Remember` adds that an import found its
place empty when it began to look, so that what is there now was made since, and `Nested` that
an import began before whatever runs inside it was made: what the inner one puts into the cache
is newer than the outer one's look. `LibsBelow` shows that the cache is where the code counts it.
`Imported` needs `Sound`: what is in a cache is `Right`, what an import has behind it holds
nothing for it (`Searched`), `init()` puts the js loader first and no type is listed twice
(`Places`), and no two imports run one evaluation (`Apart`). Directories stay behind because an
evaluation that has answered keeps its answer (`Grows`, `StaysPassed`). `Handles` is an induction
on steps with `Cardinality` facts: `dlopen` adds one evaluation to those a library is open for,
`dlclose` takes one out (`OneMoreHandle`, `OneHandleLess`, `HandleKept`).

`K3xsxProofs`, for any memory, length, salts and bases:

* `ByteRoundTrip`: deciphering undoes enciphering for every byte (mirroring is its own inverse,
  two rotations cancel, `Xor` with the same salt cancels);
* `K3xsxTypeCorrect`, `K3xsxRecoverable`, `K3xsxRoundTrip`, `K3xsxStaysInside`.

The invariant behind them says of a call in progress which bytes are done, that those ahead are
still what they were at the call, and that the salts are still there: `DecryptsSoundly` and
`EncryptsSoundly` are what keeps the loops from eating their own input.

`FirewallProofs`, for any users, programs and ports: `FirewallTypeCorrect`, `FirewallReleases`,
`FirewallUsesHeld`, `FirewallAllOrNothing`, `FirewallPromises`. The invariant says what is held
before each call of each procedure; that a failure releases all of it is then a fact about the
tables.

*Only model-checked:* liveness itself, `StopReturns`, `ClosedByStop`, `AcceptedIsServed`,
`IdleDropped` and `Answered`: reasoning under fairness is beyond the prover, and so is `ENABLED`.
What of `StopReturns` and `Answered` is safety is proved, as said above. Every invariant, action
property and refinement of a passing run is proved.


## 6. Where the code and its comments disagree

Four are runs that check one property, the comment's, and end in a counterexample:

* `BufferNothingLost`: `write` returns n when the array of the new fragment was refused and
  the bytes are gone; "on any error nothing is written and 0 is returned" (`buffer.hpp:100`).
* `BufferCopySkips`: `copy_to` with a skip skips again in every later fragment (243).
* `SliceAppendValue`: `append(val)` with room to spare writes `_p[size]` where it should write
  `_p[_pos + size]` (`slice_impl.hpp:255`): on a slice cut from inside an array the value lands
  in front of its place; "adds data at the end of the slice" (`slice_impl.hpp:232`).
* `ScriptModulesReplaced`: `register_loader` frees the loader of the same type that was there
  (`module.hpp:122-135`), which its comment says it does not (113). A host that goes by the
  comment and frees the old loader itself frees it twice; the `get_loader` the comment recommends
  for that does not exist.

The others are modelled as the code has them, without a run of their own; the properties name
them as exceptions.

* basic_server: a coroutine that starts behind `clear()` keeps its socket open after `stop()`,
  which "releases all resources" (`basic_server.hpp:272`, 436; the condition of `StopReturns`).
  A handler of the timer that was queued when the read completed closes an active connection,
  though `timeout` is for inactive clients (224, 466; `fired = "stale"`). `get_service` may
  choose the CPU again whose `poll` connections were just used up (`ScanNext`, 223, 401), as
  it compares counts that lag behind the accepts.
* echo: of two messages in one read the second waits in the session's buffer for bytes that a
  client waiting for its answer does not send (`echo_server.hpp:10`, 248, 288; the condition of
  `Answered`). `reader_message(b, n)` parses the client's own array, not b (`EchoClient!Feed`,
  `echo_client.hpp:192`, 201).
* script modules: when a module throws or gives no object, `kg_import` returns the error or the
  value instead of throwing (352; `GivesOther`); one that gives or throws undefined counts as not there
  (`GivesUndefined`). A second `init` loses the loaders and throws (`InitAgain`).
  `duktape_t(ctx, func)` ignores `func`, so that a context wrapped with the default
  `destroy_none`, made for just that, is destroyed at the end of the wrapper (`duktape.hpp:53`, 82;
  `Wrap`).
* firewall: `port_allow(name, port, protocol)` asks `port_status(protocol)` (625; `Asked`) and
  adds nothing when the port of that number is open. An empty name is taken for a failed
  allocation and leaks (362; `EmptyName`). A failing `Item` is taken for a rule that is not
  listed (262, 577; `NotFound`).


## 7. What is not modelled, and why

* basic_server: an exception that escapes a callback or a thread function, and `bad_alloc` in
  `spawn` or in the insertion into `_clients`, end the process; there is no state after them.
  `stop()` from a callback joins its own thread, which boost's builds treat differently.
  Two threads in one member are a fault where a stale or half-written pointer is the harm
  (`Changes`, `Uses`); reads and writes of `_run`, `_flag`, `_pos` and a count, which race too,
  are taken to be those of single words. The text of addresses and of the bytes read is
  left out.
* buffer: a negative `_capacity` (not refused by the constructor) and the address arithmetic
  of `memcpy`, of which `Packed` states the bounds.
* echo: one connection at a time for a server (sessions share nothing); `write_some` sends
  all it is given; the parsing of the address; `close()` whose `shutdown` throws; `read()`
  without a `_reader` and with a header size of 0, which calls an empty function and throws.
* slice: `==`, `size` and `capacity` change nothing; an element whose own copy throws.
* script modules: an exception or `duk_throw` between the release of the old loader and the
  store of the new one in `register_loader` (the engine out of memory) would leave a dangling
  entry; allocation failures of the engine are left out. A package named like a property every
  object inherits ("toString") is found in the cache without having been loaded
  (`duk_get_prop_string`, 230): `Pkgs` has no such names. A library that exists and cannot be
  opened counts as absent (`Files`). The environment, paths and the wording of errors are data.
* k3xsx: how the salts are drawn (`Salts` is any set of them).
* firewall: what the service does inside (rules appear and disappear as the calls say),
  `CoInitialize`, which the caller does, the conversions of names and the text of exceptions.
* duktape wrappers: `duktape.hpp` has one method for each function of the engine's C interface,
  in which it passes its arguments on; there is nothing to interleave, and a model of them
  would be one of the engine. Only the life of the heap is modelled. `scripts/duktape/` is that
  engine, third-party code of some 98,000 lines (of the 105,000 in `src/include`), and outside.
* debug: macros that print. The other components marked not modelled in section 1 are single
  calls of the system or a few lines each.


## 8. The plan

1. Proofs: the distances of `read`, `write` and `copy_to` from their returns, and of the
   coroutines from theirs, as `Ahead` has them for `stop`.
2. `stop()` from a callback, once the behaviour of `boost::thread::join` on its own thread is
   fixed by the build.

# Verification of AdvCppTP

TLA+ models of the programs in `src/` (a C++ course: a process library, a logger, three
generations of a TCP server, a map in shared memory, an HTTP framework with its own
coroutines), the TLC configurations that check them on small instances, and TLAPS proofs
for every instance. Paths below are relative to `src/`.

1. Inventory of the system
2. What is modelled: modules and code
3. Runs, bounds and fairness
4. Proofs
5. Findings
6. What is not modelled, and why
7. What could follow

## 1. Inventory of the system

| Component | State | Operations | Interacts with |
|---|---|---|---|
| Coroutines, `hw-6/Coroutine_lib` | per thread: `routines`, `finished` (nodes kept for reuse), `current`, the saved main context; per routine: context, exception, finished flag | `create`, `resume`, `kill`, `yield`, `current`, `entry` | the HTTP server: a coroutine per connection, whose id is the descriptor number |
| HTTP server, `hw-6/HttpFramework/src/Server` | the listening socket and the descriptor table (shared); per thread: `routines_` (connection, registered event, last access), the array of events | `Server::open`, `set_max_connect`, `close`, `run`; `EpollManager`: `run`, `acceptClients`, `handleClient`, `deleteConnection`, `clientRoutine`, `checkTimeouts`, `changeEvent` | kernel (epoll, accept4), coroutines, receiving and sending |
| Receiving, parsing, sending, `hw-6/HttpFramework` | `Connection::buffer_`, the request being parsed, the response being composed | `Receiver::receive`, `read_body`; `QueryLine`, `HeadersMap`, `parse_query_string`, `decode_url`; `HttpResponse` setters and `send` | runs inside a coroutine and yields when the socket is not ready |
| Shared map, `hw-5/shmem_lib` | in a shared mapping: `AllocState::start`, the `std::map`, a POSIX semaphore | `Map::insert`, `at`, `erase`; `Allocator::allocate`, `deallocate`; `SemLock` | several processes after `fork` |
| Echo TCP server, `hw-4` | `slaveSockets_` (connection, buffer), the static array of events, the listening socket | `EpollManager::run`, `acceptClients`, `handleClient`, `addNewConnection`, `changeEvent`, `deleteConnection`; the user's callback; the main loop that restarts | kernel; the callback of `examples/echo_server.cpp` may close or throw; `examples/client.cpp` |
| Blocking TCP, `hw-3` | one descriptor, the backlog | `Server::accept`; `Connection::connect`, `read`, `write`, `readExact`, `writeExact`, `close` | kernel; `example/test1.cpp` |
| Descriptors, `hw-1`, `hw-4`, `hw-6` `Descriptor_lib` | one number | construct, move, copy by `dup`, `close`, destroy | all socket code, `Process` |
| Child process and protocol, `hw-1` | two pipes and a pid per object | `Process`, `writeExact`, `readExact`, `closeStdin`, `close`, `~Process`; `Protocol::read`, `write` | parent and child over pipes; later children inherit earlier pipes |
| Logger, `hw-2`, `hw-6/Logger_lib` | level, stream, mutex; the global logger | `debug` ... `error`, `set_level`, `set_global_logger` | every thread of the HTTP server; `hw-2/example/vector_example.cpp` |
| Index of a key-value file, `hw-6/hw-7` | the generated file, the index file, a window of a mapped file | `FileGenerator`, `IndexMaker::make` with the constructors of `RandomWriter` and `ForwardReader`; `get`, `put` (never reached) | none; unfinished code |
| `Errors`, `studies`, `lectures` | none | | |

The behaviours that are hard, and what makes each component correct:

- **Coroutines.** Control moves between stacks, `kill` resumes a routine to make it throw, a
  routine may swallow the exception, `create` may be called with an id in use, and nodes with a
  256 KiB stack are recycled. Correct: a live routine is never evicted or restarted, a killed one
  ends, stacks are bounded.
- **HTTP server.** Several threads accept from one socket and close descriptors whose numbers
  another thread gets at once; events in an array outlive deletions; timeouts race with
  requests; the coroutine of a connection can outlive it, meet the next owner of its
  number, and hold a reference to memory that another connection has by then; the calls of `open`
  and `run` fail one by one. Correct: events name live connections, a descriptor has one owner, every
  connection ends, a reply goes to the client that asked, a failed call leaves the server as it was.
- **Receiving and parsing.** The network and `recv` cut a request anywhere; views into one text are
  advanced by hand with positions that wrap around; `send` takes parts. Correct: the request the
  handler gets is the one the client wrote, and the client finds the answer's end.
- **Shared map.** Processes interleave at every memory access, part of the allocation happens
  outside the lock, memory runs out inside it, processes are killed inside it, and `at` returns a
  reference that is read outside of it. Correct: one
  process inside, no memory handed out twice, every call atomic, every call returns.
- **Echo server.** The stream is cut into reads and packets at any place, and a write takes what
  fits; the callback closes or throws while other events wait; closed entries stay in the table; the
  whole manager is restarted after an `epoll_error`. Correct: events stay current, nothing of a
  stream is doubled and only what a `send` did not take is lost, connections are closed for a
  reason, and those that should end do.
- **Blocking server and clients.** One client at a time while others queue; writes time out, peers
  reset. Correct: clients are not mixed, each is served in turn, no call blocks for ever.
- **Processes and messages.** Short reads and writes, the ends of pipes that later children keep
  open, two processes that wait for each other over full pipes, constructors that fail half-way.
- **Descriptors.** A number is a name the system gives again at once: moved, copied and closed
  objects must not act on somebody else's file.
- **Loggers.** Lines made of two writes from several threads; a mutex and early returns.
- **Index of a file.** Members initialised in another order than the one they are written in; what
  was opened before an exception.

`PROJECT.json` lists these hazards one by one at the line where each bites.

## 2. What is modelled: modules and code

Abstractions common to all: wording of messages, logging inside other components and layout are
left out; a name, a payload or an exception is a model value or a small number; a system call is an
action that succeeds, takes a part, or fails with the errors that the code tells apart.

### Coroutine, RoutineLifecycle (`hw-6/Coroutine_lib`)

`Coroutine` is the ordinator of one thread (it is `thread_local`, so nothing runs beside it).
Its steps are the stretches between context switches: `Create`, `ResumeRejected` (the early
returns), `Resume`, `Kill`, `Yield`, `Catch` and `Throw` (what the routine's own function does
with an exception), `Finish` (the end of `entry`), `ReturnToMain` (the rest of `resume` or
`kill` after the switch back). `resume`, `kill` and `create_and_run` are called on the main
stack, as all callers in the repository do; the failure of `swapcontext` is a choice.

`RoutineLifecycle` is what a user relies on: a routine is absent, ready or running, one at a
time, and once killed it can only end. `Coroutine!ImplementsLifecycle` is the refinement
(a finished node that still is in the table counts as absent).

### EpollManager (`hw-6/HttpFramework`)

Threads run managers over a shared backlog and one table of the process's open numbers,
`descriptors`, each with the connection behind it; `accept4` returns the lowest number that is not in
it. A manager is cut at `epoll_wait` (`Wake`, `WakeByTimeout`), at each event (`DropClient`,
`ServeClient`, `AcceptClients`), at each accept (`Accept`, `AcceptWouldBlock`, `AcceptFails`) and,
inside the coroutine, at each system call on the connection (`Receive`, `Respond`, `SendAll`,
`SendStalls`, `Fail`). `CloseClient` is the part of `handleClient` after the resume, which deletes the
connection whatever the coroutine did. A deletion is two steps: `DeleteConnection` takes the entry out
of `routines_`, and `CloseFd` closes the number it had, after which another thread's `accept4` may
return it; that entries and numbers agree is `DescriptorsHaveOneOwner`.

A coroutine keeps the `RoutineInfo&` it was started with (`info`, `EpollManager.cpp:209`), also when
its connection was deleted without it. The memory may then be given to the entry of a later
connection, of any manager (`Placed`, a choice of each `Accept`); the coroutine, resumed for the number
it belongs to, reads from and answers the connection that is there. `strayed` is the history of the
connections that were used in this way; `UseStale` is the use of a reference to no connection of the
thread: the system call fails, or the process dies.

The coroutines are abstracted to where each will go on, for whom, and with which reference; that the
managers use them as the library allows is `ManagersFollowTheLibrary`, an instance of
`RoutineLifecycle` per thread, so the abstraction `Coroutine` refines is the one `EpollManager` relies
on. A request is a number of segments; its content is abstracted to valid or not, keep-alive or not.

### HttpServer (`hw-6/HttpFramework/src/Server/Server.cpp`)

The life of a `Server` object: `Construct`, `Socket` and `Bind` and `Listen` with the failure of each
(`OpenFails`), also for a server that is open and is opened again; `SetMaxConnect`, `Close`,
`Destroy`; and `run`, which builds managers and threads one by one (`Run`, `MakeManager`,
`StartThread`), with the failure of each (`NoManager`, `NoThread`). A manager is one descriptor that
ends with an exception or never (`ThreadThrows`, `MainThrows`): an exception in a thread calls
`std::terminate`, as does leaving `run` with a thread that can be joined.

### Receiver, HttpParsing, StringView, HttpResponse (`hw-6/HttpFramework`)

`Receiver` is `receive` and `read_body` over `Connection::read` for one request whose stream is cut
anywhere by the network and by `MAX_BYTES_READ`; at the end of a stream both spin on reads of no
bytes, which is a self-loop. `HttpParsing` takes the text to the request in the rounds of the loops:
`Split`, `QueryLine`, `HeaderLine`, `MakeParams`, `QueryParam`, with `Hex`/`Strtoul` for `decode_url`.
It starts from the texts a client writes for a request it means (`Requests`, encoded as a browser
does) and from any short text. `StringView` has `find`, `substr` and `remove_prefix` with `npos`.
`HttpResponse` is an answer from its constructor over any three calls of a handler (or the one of
`example.cpp`) to the last `send`, which takes parts and yields.

Facts of the code the models keep and no document contradicts: a request without header lines gets
one header named "\r", or, when bytes of a next request with headers came with it, an empty line in
place of a header, for which `HeadersMap` throws `out_of_range` (`HasEmptyLine`); a NUL ends the text a
header search sees; a header without a value makes the parser throw.

### ShmemMap, SharedMap (`hw-5/shmem_lib`)

Each call of a process goes through the copies of key and value (before the lock), `Lock`, the
search, the node, the link or the erasure, `Unlock`, and the destruction of the copies (after
it). `allocate` and `deallocate` are two steps each: the read of `start` and its update; the
second read of `start` in `allocate` may or may not be made by the compiler, so it is a choice.
Objects are blocks of memory; strings of small size live in the object and own no block
(`BigKeys`, `BigValues` are those that do). `Die` kills a process at any step.

`at` returns a reference (`Map.hpp:63`): inside the lock it finds the node, and `Read` is its caller,
who looks at it when the semaphore is free again. It sees what the map has then, an assignment made in
between included, or anything at all when the node was erased (`Dangling`).

`SharedMap` is a map on which each call takes effect at one moment, or fails with `bad_alloc`
and changes nothing. Its `at` is two moments, that of the reference and that of the read, because
the library gives no value; `ShmemMap!ImplementsSharedMap` is the refinement.

### TcpServer, EchoServerMain, EchoClient (`hw-4`)

`TcpServer` is the single-threaded manager with the callback of `examples/echo_server.cpp`.
`slaves` is `slaveSockets_`; a connection that the callback closed leaves the entry `Left` behind,
because `deleteConnection` erases the key -1 (`EpollManager.cpp:115`), and `Accept` assigns over it.
`Read`, `ReadNothing`, `Write` and `WriteFails` are `handleClient` with the callback's two halves;
`Restart` is an `epoll_error` that reaches `main`, `AcceptFails` an `accept_error`, which ends
the program. Streams are sequences of units of two bytes, "stop" being two units, so that a
read or a packet may end inside "stop" and a buffer may have fewer than four bytes. A write to any
client takes a part of the buffer, as a non-blocking `send` does (`Connection.cpp:59-67`), and the
callback clears or closes over the rest (`echo_server.cpp:33,39`); `missing` counts what was not taken.
A client of `Slow` may moreover leave what it gets unread for ever.

After a callback that threw, `handleClient` asks the destroyed connection `is_opened()`
(`EpollManager.cpp:97`). The destructor has just written -1 there and nothing is allocated in
between, so the freed node still holds it and the second deletion erases nothing; the model has
this one outcome.

`EchoServerMain` is the `main` around it, from the arguments (`Stoul`, `GetPort`) over the opening
of the server to the loop that builds a manager again after an `epoll_error`. `EchoClient` is
`examples/client.cpp`: lines are sent without a look at how much of them was taken, what came back
is printed, and "stop" and the end of the stream end it. Its other end is the callback for one
connection (`ServerReads`, `ServerWrites`, `ServerCloses`), which echoes what `send` takes and drops the
rest; `cut` says that it has.

### BlockingTcp (`hw-3`)

The server of `example/test1.cpp`, one client after the other, byte by byte (`Accept`, `ReadByte`,
`ReadFails`), and clients that connect, write exactly, close and connect again over an open
connection (`Connect`, `WriteExact`, `Write`, `WriteTimesOut`, `WriteFails`, `Close`). Connections are
reset at any time.

### Descriptor, FileHandles, ChildProcess, PipeProtocol (`hw-1`)

`Descriptor` has the objects of the class over the descriptor table of the process: a number that was
closed is given away again by the next call that opens. `FileHandles` is what a user relies on: each
object refers to its own file; `Descriptor!ImplementsFileHandles` is the refinement.

`ChildProcess` has the constructor of `Process` in its steps, with the failure of each (two pipes,
`fork`, `exec`); the child that keeps every pipe end it inherits; the filter it executes; and
`writeExact`, `readExact`, `closeStdin`, `close` and the destructor. `PipeProtocol` is `Protocol::read`
and `write` between `example/parent.cpp` and `child.cpp`: lengths and characters that go through
bounded pipes in parts.

### Logger, VectorExample (`hw-6/Logger_lib`, `hw-2`)

`Logger` has threads that call `debug` ... `error` of loggers or of the global one: a call reads the
level without the mutex, locks (`Lock`), writes the text and the end of the line in two steps, and
returns. `VectorExample` is hw-2's example with the library it uses: options one after the other, then
commands on a vector, with a `std::cin` that stays failed.

### KvIndex (`hw-6/hw-7`)

`FileGenerator`: vectors of shuffled keys written to a stream that may fail. Then `IndexMaker::make`,
which builds a `RandomWriter` and a `ForwardReader` before its `try` (`OpenIndex`, `InitFd`,
`InitFilesize`). The members of `ForwardReader` are initialised in the order of their declaration,
`fd_`, `filepath_`, `filesize_`: the path is moved into the second when its size is asked for to
initialise the third, and the constructor throws for every file. `get`, `put` and `removeIndex` are
therefore never run and not modelled.

### Processes, Http, Programs (compositions)

Each instantiates components that do not share state. The variable `part` names the one component a
behaviour is about and the others stay at a fixed initial state, so that a run explores the sum of
the components and not their product. Each such module states the assumptions of its components,
its specification is `Parts`, and it combines their properties under the names that the runs check and
the theorems state: `Processes` has hw-1, `Http` a request, an answer and the `Server` of hw-6,
`Programs` the loggers, hw-3, the client and `main` of hw-4, and hw-7. `MCProcesses`, `MCHttp` and
`MCPrograms` only give their constants values.

## 3. Runs, bounds and fairness

| Run | Instance | What it shows |
|---|---|---|
| `coroutine` | 3 ids, 2 exceptions | type, `StackBound`, `KillEndsTheRoutine`, `LiveRoutineIsKept`, the refinement of `RoutineLifecycle` |
| `kill_throws` | 2 ids, 2 exceptions | violated: a kill may throw another exception than it was given |
| `managers` | 1 thread, 3 clients (one sends in two parts or gives up, two ask for keep-alive and read slowly), 3 descriptors | type, `ConnectionsAreServedOnce` with references that find another live connection, `ManagersFollowTheLibrary` |
| `one_shot` | 2 threads, 2 clients (one request is malformed), 3 descriptors, requests of one segment | `DescriptorsHaveOneOwner`, `EventsNameLiveConnections`, `NothingStale`, `RepliesGoToTheirRequest`, `ConnectionsEnd`, `QueuedRequestsAreAnswered` |
| `shmem` | 2 processes with numbers and 2 calls each, or 1 with strings and 5 calls; room for 2 nodes | type, `OneInside`, `BlocksAreDisjoint`, the refinement of `SharedMap`, `CallsReturn` |
| `shmem_strings` | 2 processes, strings, 1 call each | violated: two strings share memory |
| `echo` | 2 clients with 4 units each (one may not read), packets of 3, reads of 2 units, writes of any part | type, `OnlyUntakenIsLost`, `ClosesForAReason`, `ConnectionsEnd` |
| `echo_limits` | 3 clients, 3 descriptors, `epoll_ctl` may fail | `EventsAreCurrent`, `OpenConnectionsAreServed`, `QueuedAreAccepted` |
| `processes` | 3 descriptor objects; 3 `Process` objects, or the calls on one; parent and child with lines of 0, 1 and 3 characters over pipes of 3 bytes | types, `DescriptorsAreOwned`, `MessagesAreExact`, the refinement of `FileHandles`, `NobodyWaitsForEver` |
| `http` | 21 streams in reads of 9; requests of up to two parameters and fields and all short texts; answers after 3 calls; a server, 2 ports, 4 descriptors | types, `RequestsAreUnderstood`, `AnswersAreReadable`, `FailuresAndLoopsEnd` |
| `programs` | 2 threads that log over 3 loggers and 2 streams; 2 TCP clients; a client with 3 lines and a server that drops; every port argument; files of 2 gigabytes | types, `StreamsAreInOrder`, `LogIsComplete`, `FailuresLeaveNothing`, `NobodyWaitsForEver` |
| `echo_port` | as `programs` | violated: a number that is no port is not refused |

The properties of the last four runs are conjunctions over the components of their module; the
comment at each conjunct, in the component's module, says what it is about. For each conjunct the
component keeps, next to the action it is about, the mutated form that breaks it ("Mutated form:
..."); `PROJECT.json` lists one of them for each property.

Why the bounds suffice. The interesting cases need few actors. In `one_shot` two threads whose accepts
are given the lowest free number reuse, again and again, one the other thread has just closed. In
`managers` a reference that strays to a live connection needs a client that was deleted, one that got
its number and one that got its memory, hence three clients and three descriptors; this is local to a
thread, but for memory that another thread reuses, which the theorems cover. Its slow clients are
alike, and the run takes them up to permutation; it checks no liveness. Two processes are enough for
each race on `start`, and room for one or two nodes makes `bad_alloc` happen under the lock. In
`echo` a packet is longer than a read and shorter than the stream, and "stop" can be cut by both. In
`processes` a line is longer than a pipe, so a message is always cut, and three objects give a child
the pipes of two others. In `http` the streams put every kind of Content-Length before every kind of
rest, and each may be cut after each byte; reads of 9 take the whole of most requests at once, also
with the headers of a next one, while the client still cuts at will. In `programs` a vector of the
generator is shorter than the file. Outside the runs, the theorems below cover every instance.

Bounds in the guards and in the inputs: `MaxCalls` (calls of a process or of a handler), `MaxLines`,
`MaxConnects`, `MaxBytes`, `MaxMessages`, `MaxOptions`, `MaxGigabytes`, `MaxItems` (parameters or
header lines of a request), the number of `Clients`, the length of `Sends` and the `segments` of a
request. `MayCall` of `MCShmemMap`, `Quiet` and `OneObject` of `Processes`, `FewCalls` and
`FewConnects` of `Programs` restrict what users do and no step of the code. `CHECK_DEADLOCK FALSE`
stands where a system comes to rest: the clients or the calls are used up, or the program has ended.

Fairness. Each thread of the HTTP server, and the one of the echo server, is scheduled and never
blocks but in `epoll_wait`: weak fairness of its steps, taken together. `Expire` is fair because
time passes. The processes of the shared map are weakly fair until they are killed; with finitely
many calls the semaphore starves nobody. The other ends of connections owe nothing, and a slow
client of the echo server may never read again, which is why `TcpServer!ConnectionsEnd` promises
an end to it after a reset only: that server has no timeout. The HTTP server checks timeouts only
when `epoll_wait` returns nothing for 200 ms; an endless stream of new clients could starve them,
and the models have finitely many.

The programs of `processes` and `programs` are scheduled too: weak fairness of each of them, none of
their users, who may stop typing or kill. The one strong fairness is of `EchoServerMain!EventLoop`: its
guard is a free descriptor of a system that others use as well, and a process that asks again and
again gets one if there is one again and again. The instantiating modules state the fairness of each
component's `FairSpec` again, for the steps of its part.

## 4. Proofs

All results hold for every value of the constants under the ASSUMEs of the modules (finite sets of
numbers for ids and descriptors, positive sizes, and the like). A component that a composition
instantiates states what its constants have to be as an operator (`PipeProtocol!CharAssumption`,
`Receiver!ReceiverAssumption`, ...), which the composition asserts.

- **Coroutine_proofs.** `IInv` adds to the checked invariants that `current` is the running routine,
  that a finished routine leaves the table with the resume that ran it, that the blocked call matches
  the stack that executes (`CallMatchesStack`) and that a routine with a pending exception is the one
  being killed (`KilledRoutineEnds`); without the last, nothing stops a `yield` from leaving a
  killed routine ready. From it: types, `CurrentIsTheRunningRoutine` and `FinishedIsTransient` (no run
  repeats these two), `KillEndsTheRoutine`, `LiveRoutineIsKept`, and the refinement of
  `RoutineLifecycle` step by step. `StackBound` has its own induction, over cardinalities.
- **EpollManager_proofs.** `IInv` adds `EventsInv` (an id is listed once, belongs to the thread and
  is not the one being handled), `TableInv` (every tracked connection has its coroutine, but for
  the one being closed), `DescriptorInv` (the open connections are those of the descriptor table, each
  under one number) and `UntouchedInv` (only the connection being handled, and those of `strayed`, were
  read from). `DescriptorsHaveOneOwner` is inductive with `TableInv`: between the erase and the close a
  number has no entry, and the manager on its way to the close is its owner. From `IInv`: types,
  `EventsNameLiveConnections`, `DescriptorsHaveOneOwner`, `ConnectionsAreServedOnce`, wherever the
  references of old coroutines point; and `ManagersFollowTheLibrary`, in which every action of a thread
  is shown to be one step of the library, or none, for that thread and none for the others.
  Its last section has the one-shot traffic: `NothingStale` and `RepliesGoToTheirRequest` under the
  hypothesis `OneShot`: every client sends one whole request, asks for no keep-alive, reads and stays,
  and there are more descriptors than clients (`accept4` asks for a number once more when the backlog is
  empty). They are false without it, which is what `ConnectionsAreServedOnce` is about: a second
  segment leaves a coroutine that outlives its connection. The invariant follows one client through
  accept, the routine that serves it and the reply; `DescriptorsSuffice` is the pigeonhole argument
  that `accept4` never runs out.
- **ShmemMap_proofs.** `IInv` adds `CallInv`, which ties the place of a process to its operation and
  result. From it: types and `OneInside`. `Numbers` is the hypothesis that no key or value owns a
  buffer: with strings and two processes the contents may be damaged, so nothing is claimed of them.
  Under it, `CallsAreAtomic` is the refinement of `SharedMap`: a reference shows the map's value until an
  erase makes it dangle, in the code's map as in the abstract one, for any number of processes.
  `NumbersAreApart` proves `BlocksAreDisjoint` under the same hypothesis, from `NumbersInv` (the nodes lie apart below `start`, and a process has at most one
  block in hand); the run `shmem_strings` shows the hypothesis is needed.
- **TcpServer_proofs.** `IInv` joins `TypeOK`, `OpenConnectionsAreServed`, `EventsAreCurrent` and
  `OnlyUntakenIsLost` with `ReportsInv` (an event array names a descriptor once, so handling one event
  cannot hurt another) and `FreshInv` (nothing was exchanged with a client before its accept).
  `OnlyUntakenIsLost` needs a witness: `Without(s, t, m)` is t without m of its units, by a function that
  says how many are missing before each unit of s, and a write that takes a part extends it.
  `Handles` states what any handler may do to the shared state, and each action is shown to keep to
  it. From it: all four invariants and `ClosesForAReason`, which holds while `epoll_ctl` does not fail
  and `main` goes on, and counts what a `send` did not take as handed over.

The other four modules are about the compositions. In each, a component has its own inductive
invariant and its own theorems about its own specification; a last lemma, `BehaviourOfEach`, says that
a behaviour of `Parts` is a behaviour of every component (a step of one is a stutter of the others),
and the theorems about what the runs check follow from it.

- **Processes_proofs.**
  - *Descriptor.* `OwnersInv` is types, `OneOwner` and `NothingLeaks` together: a close may free the
    number of its own object only since no other has it. The refinement of `FileHandles` needs both.
  - *PipeProtocol.* `AnswersInOrder` and `QuietBetweenLines`, for lines of any length and pipes of any
    size. `MessagesInv`: an exchange is in one of three phases (`Quiet`, `Request`, `Reply`), or the
    parent has left it (`Leaving`); in the last three, `Flow` says that what was read and what is in
    the pipe are, one behind the other, what was written of the buffer. `WholeMessage` is the decoding
    lemma: a reader with as many characters as the length it read has the message, and the pipe is
    empty. `TextInv` carries types through a parent that left in the middle of a line.
  - *ChildProcess.* `ObjectsInv`: one constructor at most is under way (`OneConstructor`), the state of
    each object decides which ends the program has (`EndsOfObjects`), and the end a child writes to is
    its own (`OwnOutput`), though later children inherit the others. `CountsInv` counts descriptors
    and bytes. From them: types, `NothingLeaks` and `EndOfFileIsTheEnd`.
- **Programs_proofs.**
  - *VectorExample.* `OptionsSoFar`: the logger is that of the last option read.
    `FailedInputStoresZero` step by step.
  - *Logger.* `MutexInv` and `LinesInv` (a stream of one logger has an odd length exactly while a
    thread is between its two writes) give `LinesAreWhole`; `ErrorsInv` counts by cardinality the errors
    in each stream, with a line that is not finished as the difference, and gives `ErrorsAreNeverLost`.
  - *BlockingTcp.* `QueueInv`: what waits comes after what was printed, in the order it was made. From
    it `NotMixed` and `ClosedIsComplete`.
  - *EchoClient.* `EchoInv`: what was printed, is on the way down, in the server's buffer and on the way
    up, one behind the other, is in the order of the lines and was taken from the client; it is all
    that was taken while the server has dropped nothing, or all before the "stop" when it has closed.
    From it `EchoesInOrder` and `AllIsPrinted`, for a server that cuts what it likes.
  - *EchoServerMain.* `PortInv`, by arithmetic modulo 2^16; `ListensThroughErrors` step by step.
  - *KvIndex.* `AllKeys`: the keys written and those of the vector in memory are all keys so far, each
    once. `KeysInv` has it with the phases of the programs. From it `EachKeyOnce`; `NothingStaysOpen` step
    by step.
- **Http_proofs.**
  - *Searches.* What `find`, `substr`, `remove_prefix`, `rtrim` and `decode_url` return, for any text.
    The prover has no induction principle to instantiate; `SetInduction` is one without a predicate (a
    set of naturals up to `n` with 0 and the successors of its members has `n`, by the pigeonhole
    principle over finite sets), and `LeastNatural` follows. With it `decode_url` is shown to return a
    text for any text, although it is a recursive function.
  - *HttpParsing.* `ParserTypes` is inductive, and every round of a loop takes a character
    (`RoundsTakeText`), so that no query string and no header line keeps the parser for ever.
  - *Receiver.* `RecvInv`: the stream is what was read, what is in the socket and what is unsent, one
    behind the other (`Divided`), and the buffer begins with what was read before the first NUL
    (`Kept`). While it looks for the headers, none of their end was read (unless a read has cut it);
    in the body, `start`, `was_read` and `length` agree with the places in the stream. From it types,
    `BodyIsTheDeclaredPart` and `YieldsForAReason`, for any bytes and any cut. The history variable
    `reads` has how much was read after each read, since "a read had cut the end of the headers" is
    about the past.
  - *HttpResponse.* `LengthInv` ties the Content-Length to the calls the handler made and `SentInv` the
    message to the headers and the body: one status line, one line for each header, the empty line, the
    body with what ends it. From them `ResponseIsOne` and `ClientReadsTheBody`.
  - *HttpServer.* `SocketsInv`, `ManagersInv` (managers are numbered as they are made, at most one is
    without its thread) and `RoomInv` (a cardinality bound on the descriptors).
- **Parsing_proofs** continues `Http_proofs` with what the parser makes of a request that a client
  meant, for any number of parameters and header lines and any characters in them.
  - *Texts that are joined.* `Tailed`: the ends of a sequence of texts, one for each of its members, of
    which the first is all of them joined. `CountDown` is an induction from the last to the first,
    without a predicate like `SetInduction`. What a client writes of parameters, of header lines and of
    the characters of a text are three such sequences, and `Left(q, n, i, t)` says that `t` is what is
    left behind the i-th.
  - *Encoding.* `DecodeOfEncode`: `decode_url` undoes what a client writes, for every text, also with
    the bytes above 127 that a signed `char` has. What is written has no `&`, `=`, `?` or blank of its
    own.
  - *Words and lines.* `ThreeWords`: `operator>>` gets the words of a first line. `WrittenLineIs` and
    `LineIsRead`: the name in lower case and the value of a header line, or no value. `Tidy`: in what
    is left of the header lines no end of a line follows another, so `split_until_body` finds the
    first empty line behind the last header (`HeadersEndIs`).
  - *The rounds.* `PairRound` and `LineRound`: one round of `parse_query_string` and of `HeadersMap`
    takes the next member and leaves what is behind it. `Collected(map, keys, values, i)`: the map has
    the first i keys, each with the value it had first, which is what `emplace` keeps
    (`EmplaceCollects`).
  - *The invariant* `ParserKnows` says at each place of the parser what is left of the text and what
    the maps have: the texts of the request at `split`; the first line at `line`; `HeadersComing` and
    `ParametersComing` in the loops, with the number of members taken as the only witness; and the
    reason of an exception. Types alone do not relate `rest` to the request, so nothing weaker is
    inductive. It gives `ClientIsUnderstood` and `ThrowsForAMissingValue` (`ParsingHolds`) and, with
    the receiver's half, `RequestsAreUnderstoodHolds`.

What `ParserAssumption` asks of clients is the grammar of HTTP, without which the properties have no
meaning: words without blanks, names without blanks, colons and carriage returns, values without
carriage returns or blanks before them, and first lines that mean what their words say. Query strings
and header lines that keep to nothing are in the models too (`Queries`, `Headers`); for them
`RoundsTakeText` and the types are proved.

What proof attempts changed. `ThrowsForAMissingValue` was false for a request without headers when the
bytes behind it begin with an end of a line: `split_until_body` then finds the end of the headers one
line later. TLC confirmed it as soon as `NextRequests` had such bytes; the property now names the
search the code makes. The characters a client has to encode are all blanks of `operator>>` and all
bytes above 127, not the space alone, and the number of parameters and lines is a constant
(`MaxItems`) in place of two, so that the theorem is about any number. `BodyIsTheDeclaredPart` and
`YieldsForAReason` were false as first stated, which TLC had not seen with reads of 5 and bodies that
are no requests: when the first line ends where the headers end, `split_until_body` takes the headers
of a successor in the same buffer for its own. The empty line it finds first has no value, so
`HeadersMap` throws (`HasEmptyLine`), and with this in the model both hold for such streams too; the
streams and the reads of the `http` run have them. One assumption was missing, which the program
satisfies: `HttpResponse` needs headers that are not called like the other calls its history lists.
With writes that take a part, `EchoClient!AllIsPrinted` is true only of a server that dropped nothing;
`cut` is the history that says so.

Model-checked only:

- liveness (`ConnectionsEnd` twice, `QueuedRequestsAreAnswered`, `QueuedAreAccepted`, `CallsReturn`,
  `NobodyWaitsForEver` twice), which is out of the prover's reach;
- `BlocksAreDisjoint` and `ImplementsSharedMap` for one process with strings (with two the first is
  false, and the model of the second would not have the damage).

## 5. Findings

- `kill_throws`. `coroutine.cpp:145` says that the resume in `kill` "must throw ex". A routine may
  catch the exception and end with another, which `entry` stores and `kill` then throws.
- `shmem_strings`. `insert`, `at` and `erase` copy strings into shared memory before they take the
  semaphore (`Map.hpp:92`), on an allocator without a lock of its own. Two processes can be given the
  same block, and write over each other's strings; `example_int_str.cpp` runs this very case.
- `echo_port`. `echo_server.cpp:52` has a message for a bad port, and line 91 tests the variable that
  is still to be assigned: 70000 listens on port 4464.

Disagreements that need no run to be seen: `echo_server.cpp:57` binds "0.0.0.0" although
its usage (line 46) asks for an ip; in `vector_example.cpp` an option that chooses a logger after `-v`
resets the level the comment at its head promises (the model has it: `OptionsTakeEffect` says what
holds); `FileGenerator.cpp:115` asks for a number of at most
`MAX_GIGABYTES`, and the test of line 114 refuses 0 only; `ForwardReader.cpp:18-19` initialises the size
from the argument `filepath` before it moves it, but `ForwardReader.hpp:29-31` declares the members in
the other order, which is the one that counts: the constructor asks for the size of an empty path and
throws for every file (`InitFd`, `InitFilesize`), so that `IndexMaker::make` never makes an index.

Consequences of the code that the properties state and no document contradicts: the HTTP server
deletes a connection after the first resume, so requests in two segments and second keep-alive
requests are not answered, and a coroutine that was left behind may read from and answer another
client's connection (`ConnectionsAreServedOnce`); the echo server drops what a `send` did not take
(`OnlyUntakenIsLost`) and closes a connection whose buffer has fewer than four bytes
(`ClosesForAReason`), also when a packet ended inside "stop"; failed input stores 0 in the element of
the vector it was read into (`FailedInputStoresZero`); the
echo client and server wait for each other when "stop" was sent in part (`StopEnds`); a terminator of
the headers that two reads cut is not found (`YieldsForAReason`).

## 6. What is not modelled, and why

- A `resume` or `kill` on a routine's own stack: no code of the repository does it.
- Failures of `epoll_ctl` and `epoll_wait` inside a manager of hw-6, except as the exception that
  leaves its loop (`HttpServer`); EINTR; `MAX_EVENTS` (10000 events in one call); `set_nonblock` and
  `getsockname` failing on a fresh connection.
- `Connection.cpp:74` of hw-6 writes `buffer[-1]` when `recv` returns -1: what that byte belongs to is
  the compiler's choice, and the models have the runs in which it is nobody's. Likewise the freed
  connection of `hw-4/src/EpollManager.cpp:97`, whose one outcome is explained above.
- What a caller of `Map::at` writes through its reference, and a second read of it. The construction
  and the unmapping of the shared map (`Map.hpp:58` unmaps the default size whatever was mapped) are
  before and after the behaviours; EINTR in `sem_wait`.
- That an echoed answer reaches its client: `echoed` is what `send` took. Closing a socket with
  unread data may reset it and lose what was under way.
- Moved loggers (`BaseLogger.cpp:129-139` would leave a stream pointer into the other object): nobody
  moves one. Replacing the global logger during a call of another thread destroys it under that call;
  the model replaces it between calls only, as the programs do.
- Read and write errors of pipes other than EPIPE; the drafts and `main`s that only call a library in
  a row (the example programs of the shared map); payloads and random numbers.
- `get`, `put`, `removeIndex` and the loop of `IndexMaker::make`, which no run of the program reaches
  (section 5). `Errors`: exception types with a message. `studies`, `lectures`: drafts nothing uses.
  `KVReader` of hw-7 has no code yet.

## 7. What could follow

The plan of the first version is carried out: the four concurrent cores with their proofs, then the
components around them. What is left, in order of worth:

1. The composition of `Receiver` with `EpollManager` in one behaviour, in place of segments; the cut
   terminator would then show up as a timeout of its client.
2. Failing `epoll_ctl` calls inside `EpollManager`, with the coroutine they are thrown out of.

# CppBackend: specification and proofs

TLA+ models of the programs of CppBackend, the TLC configurations that check them, and
TLAPS proofs about the thread pool, the servers, their handling of SIGINT, the reactors, the
smart pointers and the small client and server pairs. The repository is a learning project; its core
logic is `Cpp_WebPrograming/`: one thread pool (`threadpool.h`), the TCP servers built
around it with select, poll, epoll, edge-triggered epoll and reactors, the same servers
without a pool, and small client and server pairs. With them comes a library of smart
pointers (`CppProjects/mysmartptr`). Every definition is taken from the source; `PROJECT.json`
("map") gives the lines for each.

## Inventory

| component | state | operations | what is hard | what makes it correct |
|---|---|---|---|---|
| thread pool, `threadpool.h` | `mtx`, `task_queue`, `stop`, `cv`, `task_count`, `end_mtx`, `end_cv`, worker threads | `submit`, worker loop `NewThread`, wait on `end_cv` (done by the servers' `stop()`), destructor | two mutexes, two condition variables, a flag and a count that are also touched without them; spurious and stolen wakeups | no lost wakeup, exact count, the wait ends only when dry, the destructor loses nothing and returns |
| select server, `selectthread_tp.cpp` | `read_fds`, `max_fd`, `client_fds`, `is_running` | `select_loop`, `accept_client`, `handle_client_io`, callable, `stop`, destructor | three records of the same clients; callables that keep a descriptor number | records agree with the kernel, never blocked by one client, everybody answered, right client |
| poll server, `pollthread_tp.cpp` | `fds` vector, `client_fds` | `poll_loop`, `new_client`, `client_communicate`, error branch, `stop` (only the first call waits) | POLLIN and POLLHUP of one entry; close twice; second `stop()` returns at once | the second close hits nobody, nothing is sent after the close |
| epoll server, `epollthread_tp.cpp` | epoll set, batch of events, `TCPServer::mtx` | as above; a callable whose send fails closes the number, under `mtx` | two threads close; a number is closed and accepted again inside a batch; a handler that runs while `mtx` is held | epoll set = open descriptors, never blocks, nobody dropped |
| edge-triggered server, `epollthread_tpet.cpp` | epoll set, edges, `errno` | as above, recv until it fails | an edge is reported once; `errno` is read after a recv that did not set it | nothing that can be read is left behind |
| SIGINT, all pool servers | the interrupted thread's position | `signals` -> `stop()` inside the handler | the handler takes locks the interrupted code may hold; a second signal runs on another thread | the process ends |
| reactors, `multithread_reactor.cpp`, `single_reactor.cpp`, `reactor_server.cpp` | `Connection` objects, `Channel` pointers in events, `__next_reactor` | event loops, `HandleAccept`, `HandleRead`, `delete this`, echo callable | objects published to another thread from their constructor, deleted by it; `int` counter wraps | no dangling Channel, objects = descriptors = registrations, even dealing |
| single-threaded servers, `select.cpp`, `pollserver.cpp`, `epollserver.cpp` | the sets they wait for, `client_fds`, `max_fd`, `is_running` | one loop: wait, accept, one `recv` and one `send` per event | blocking calls in the thread that serves all; SIGPIPE; a wait that fails | records agree with the kernel, never blocked by one client, everybody answered |
| thread-per-event servers, `selectthread.cpp`, `pollthread.cpp`, `epollthread.cpp` | the same, under `mtx`; detached threads | the loop starts a thread for every event, every time it is reported | several threads for one descriptor, each of which may close it; select and poll on numbers that are closed meanwhile | records agree while no number is given out again, nobody dropped, the process ends |
| thread-per-client server, `TCP_MultiThreadServer.cpp` | detached threads | accept; receive and answer until either fails | a number belongs to one thread for its life | everybody answered, every descriptor freed |
| packets, `package_client.cpp`, `package_sticking.cpp` | bytes of a length and of a body read so far | `send_packet`, `recv_packet` | a stream delivers in pieces of any size | the client gets the answer to its line |
| simple pairs, `TCP_*Communicate*.cpp`, `UDP_*.cpp` | the position in a loop of blocking calls | send a line, wait for an answer | lost, duplicated, overtaken and truncated datagrams, partial reads, a peer that dies, no timeouts | right answers; who waits for ever, and when |
| smart pointers, `smartpointer.hpp` | `ptr`, `shared_count` | constructors, assignments, `reset`, destructors | any order of calls, aliases, self-assignment | the count is the number of owners, nothing dangles or leaks |
| start of the sub-reactors | the vector of loops, the threads | `init`, `~ReactorThreadPool` | threads index a vector that grows | each thread runs its own loop |

The components interact in this way. A server's main thread reads a chunk and
submits a callable that has captured the descriptor *number* and the text; a worker
runs it and sends. `stop()`, run by the signal handler and by the destructor, clears
`is_running`, shuts the listening socket down and waits on the pool's `end_cv`. The
reactors hand a `Connection` to a sub-reactor's epoll set; that thread then owns it.

What is not modelled, and why: see "Not modelled" below and "components" in
`PROJECT.json`. Hazards are listed
there as well, each at its line with the properties that guard it.

## Modules

| module | models | extends |
|---|---|---|
| `TaskService` | what the pool promises, abstractly: accepted callables finish once, waits end dry | |
| `ThreadPool` | `threadpool.h` step by step | |
| `MCThreadPool` | the refinement mapping from `ThreadPool` to `TaskService` | `ThreadPool` |
| `ThreadPoolProof` | theorems about the pool and about its refinement | `MCThreadPool`, TLAPS |
| `Sockets` | external: descriptor table, listening socket, connections, clients | |
| `SocketsProof` | lemmas about the system calls and the clients | `Sockets`, TLAPS |
| `ServerPool` | what the select, poll and epoll servers share: pool as seen from outside, callable, signal, shutdown | `Sockets` |
| `SelectServer`, `PollServer`, `EpollServer`, `EpollETServer` | the four servers | `ServerPool` |
| `PoolServers` | the first three side by side: `program` tells which of them runs; their common properties | `ServerPool` |
| `PoolServersProof` | lemmas about callables, signal and shutdown; theorems about the four servers with a pool | `PoolServers`, `EpollETServer`, `SocketsProof` |
| `EventServer` | what the servers without a pool share: the wait, accept, `client_communicate`, the end of the process | `Sockets` |
| `SelectSingle`, `PollSingle`, `EpollSingle` | the single-threaded servers | `EventServer` |
| `SelectThread`, `PollThread`, `EpollThread` | a detached thread per event | `EventServer` |
| `ClientThread` | a detached thread per client | `EventServer` |
| `Servers` | these seven side by side, and their properties | `EventServer` |
| `ServersProof` | theorems about them | `Servers`, `SocketsProof` |
| `SignalStop` | SIGINT against `submit`, the workers and `stop()`, lock by lock | |
| `SignalStopProof` | theorems about it | `SignalStop`, TLAPS |
| `Reactor` | the reactor classes | `Sockets` |
| `MultiReactor`, `SingleReactor`, `ReactorServer` | the three reactor programs | `Reactor` |
| `Reactors` | the three side by side | `MultiReactor` |
| `ReactorsProof` | theorems about them | `Reactors`, `SocketsProof` |
| `ReactorStartup` | start and end of the sub-reactor threads | |
| `Ownership` | what owning pointers promise, abstractly | |
| `SmartPointers` | `smartpointer.hpp`, and the refinement of `Ownership` | |
| `SmartPointersProof` | theorems about the pointers and about their refinement | `SmartPointers`, TLAPS |
| `Exchange` | what the small pairs share: a client, a server, and what is on its way | |
| `Packets`, `Datagrams`, `Streams` | length-prefixed packets; UDP; TCP without framing | `Exchange` |
| `Exchanges` | the pairs side by side, and their properties | `Exchange` |
| `ExchangesProof` | theorems about them | `Exchanges`, TLAPS |

**How state and actions correspond.** Variables keep the source's names
(`task_queue`, `task_count`, `read_fds`, `client_fds`, ...). Each thread has a program
counter (`wpc`, `spc`, `epc`, `dpc`; `mpc`, `wpc` in the servers; `pc` in `SignalStop`
and `Reactor`), and one action is the code between two points at which another thread
can be observed: a lock, an atomic access, a system call. A mutex is its holder or
`None`; the wait set of a condition variable is the set of threads at the waiting
label; a notification picks one of them and a spurious wakeup lets any of them go.

`TCPServer::mtx` appears in `ServerPool` as a label. What the main thread does in a critical
section (`accept`, `EPOLL_CTL_ADD`; `EPOLL_CTL_DEL`, `close`) nobody sees before it unlocks,
so these calls are one step; that step leaves the main thread at `unlock`, where it holds the
mutex (`MtxHeld`) until `Unlock`, and where SIGINT may find it like anywhere else in the loop. A worker
whose `send` failed waits for the mutex at `close`. In the edge-triggered server the worker holds it
from `send` on, so there the main thread may have to wait (`Lock`, and the guard of
`Disconnect`). In the select and poll servers only the main thread takes it, and it is left out.
In `SignalStop` it is the variable `server_mtx`, taken and released in steps of their own.

`Sockets` gives a connection an identity that is used once, while `accept` returns
the lowest free number, so numbers are used again as soon as they are closed. What a
client sends is a number of chunks, each one `recv`; a response carries the chunks it
answers, and `out[c]` is what reached client `c`. Clients may send, hang up or be
reset at any time. `reused` is a history variable: a number that a callable or an event
of the batch still named was accepted again. That is a flaw of the design (see
Findings), and what it breaks is stated "unless `reused`", which makes the
properties say precisely that nothing else breaks them.

In `EventServer` a run of `client_communicate` occupies a slot of its descriptor number.
The `MaxThreads` slots are shared out among the numbers in the initial state (`share`):
TLC looks at two threads on one number as well as at one on each of two. `recv` belongs to the
connection that was behind the number when it was called, `send` and `close` go to
whoever is behind it then, so a late thread can answer or close another client.
`killed` is a process that SIGPIPE ended: `send` to a reset client may raise it in the
programs that do not ignore it.

In `Exchange` a byte of line *k* is the number *k*, so an answer shows which line it
answers. `faults` records what went wrong on the way: `"cut"` (a piece was taken for the
whole), `"lost"`, `"copied"`, `"refused"`, `"died"`; each property names the faults it does
not survive, and holds in spite of the others. `recvfrom` returns at most `Buffer` bytes of a
datagram (1023 in both programs) and throws the rest away; that is what the program does on every
such line and no fault, so `RightAnswer` says what the client gets: as much of the answer as its
buffer holds. Text that fills the buffer of `TCP_ServerCommunicate.cpp` has no zero behind it
and is read on until one follows; in the model that is a byte at most (`InBuffer`).

In `SmartPointers` the members of all pointers and the counters are one record, `mem`,
and an operation of the source is a function on it, so that an assignment is `release`
followed by the rest, as in the source. The program stops when something freed is used.

`ServerPool` and `Reactor` use the pool through what `TaskService` promises (queued in
order, taken by any worker, counted until finished) instead of its locks. `SignalStop`
goes back to the locks because the handler interrupts code that holds them.

## Runs

Passing runs (bounds in the `.cfg`, named in the modules):

| run | shows |
|---|---|
| `pool` | `CountExact`, `WorkConserving`, `NoSleeperAtJoin`, `DrainSignalPending`, `DestroyedDrained`, `ReturnsDrained`; `KeepsService`: `ThreadPool` with fairness implements `TaskService` with fairness, so queued callables run, the wait and the destructor return |
| `pool_servers` | `Bookkeeping` (`read_fds`, `client_fds`, `max_fd`; `fds`, `client_fds`; the epoll set; each against the kernel), `NeverBlocksOnOne`, `NoSendAfterClose`, `NobodyDropped`, `AllAnswered`, `GoneAreClosed`, `ShutsDown`, for the select, poll and epoll servers with a pool |
| `epollet` | `NoDataStranded`, `NoHangUpStranded` (whatever can be read is in the batch or armed), `NobodyDropped` (the errno test) |
| `signal_graceful` | one SIGINT ends the process if it comes at the loop's test, between the test and `epoll_wait`, in `epoll_wait`, between two events, or while the main thread waits for one of the two mutexes; so it does wherever the main thread holds neither and owes no notification |
| `reactors` | `Registered`, `NoDanglingChannel`, `Balanced`, `AllAnswered`, `GoneAreClosed`, for the three reactor programs |
| `servers` | `Bookkeeping`, `NeverBlocksOnOne` (single-threaded ones), `NobodyDropped`, `AllAnswered`, `GoneAreClosed`, `ShutsDown`, for the seven servers without a pool |
| `smart` | `CountsOwners`, `NoDangling`; `KeepsOwnership`: `SmartPointers` implements `Ownership` |
| `exchange` | `RightAnswers`, `NobodyWaits`, `ServerEnds`, for the four pairs |

**Findings** (runs that end in a counterexample):

| run | what happens |
|---|---|
| `select_reuse` | a client hangs up while its callable is queued; its number goes to the next client, who receives the response |
| `signal_in_submit` | SIGINT while the main thread is in `submit`: the handler waits for a callable that was counted but not announced, or that cannot be taken because `submit` holds the mutex |
| `startup_race` | a sub-reactor thread indexes the vector's old storage after `init()` has appended to it |
| `smart_reset` | `reset()` on a `shared_ptr` that is not the last owner keeps both pointers: it is counted out twice, and the object is deleted under the other owner |

Three more disagreements were met on the way, on which no run is spent. SIGINT may find the
main thread of `epollthread_tp.cpp` in a critical section of `TCPServer::mtx` (lines 119-129
and 145-147); `stop()` then waits for a worker that waits for that mutex at line 160 since its
`send` failed, and the process hangs, although no number was given out again.
`HandlerHoldsMtx` is that state: `ShutsDown`, `AllAnswered` and `GoneAreClosed` of `pool_servers`
name it as an exception, and `ShutsDown` fails without it; so does `ShutsDown` of `signal_graceful` when
`"c_epoll"` is added to `Where`. With
`MaxSignals = 2` a second SIGINT runs `stop()` on a worker; `notify_one` wakes that one
and the main thread sleeps on (`DrainSignalPending` and `ShutsDown` of `SignalStop` fail).
When the constructor of a later sub-reactor throws, `~ReactorThreadPool` joins threads
that are in `epoll_wait` without a timeout (`CreateFails`, `Join` of `ReactorStartup`).

**Bounds and why they are enough.**
- `pool`: two workers, two submitters, one drainer, two callables, each submitted at
  most once. Each lost-wakeup scenario needs one sleeper, one notifier and one thief;
  with two callables a worker can be taking one while the other is announced. The
  theorems remove the bound. One drainer because the servers have one (a second signal
  adds another, see Findings).
- `pool_servers`, `epollet`: two clients and two free numbers, so that a number can be free, held and
  reused at once; two workers, so that callables of both clients run together. One
  chunk per client where liveness is checked; two in `epollet`, where reading several
  chunks at one edge matters. `SYMMETRY` (connections, workers) only where no
  liveness is checked.
- `servers`: two clients, two free numbers, one chunk each, two runs of
  `client_communicate` at a time, which may be of one number or of two (`share`): the
  second run on a number is the one that comes too late. Further runs are left out, as
  their event is reported again. Where all slots belong to one number the process has no
  other one, and `accept` fails for the second client. Clients are alike, so the one that
  connects next is fixed; what they do after SIGINT is left out.
- `reactors`: a main loop and two sub-reactors, two connections; an `int` of four values and a
  counter that starts anywhere, so that it becomes negative, and wraps, in the middle.
- `smart`: two `unique_ptr`s, three `shared_ptr`s (two that alias, and a third that is
  assigned from one of them) and three objects.
- `exchange`: three lines of up to four bytes, one byte in front of the answer, buffers of
  three, so that of a datagram only the answer is cut (three bytes), or the line as well
  (four); lengths of two digits to the base 5, so that the answer to a long line is longer than
  `Limit` (the client refuses it) and a length can be cut; four bytes of room in each direction,
  less than a packet, so that every send may block half-way; one duplicated datagram.
- `SignalStop`: `MaxTasks` events, `MaxSignals` signals, and `Where`, the positions at
  which the main thread may be interrupted, which separates the passing run from the
  findings. Three events, so that two failed sends and a registration can compete for
  `TCPServer::mtx`.

**Fairness.** Weak fairness on the main thread, each loop and each worker: the kernel
schedules threads that can run. Strong fairness on taking a mutex (in `ThreadPool`,
`SignalStop`) because spurious wakeups may take it any number of times in between; on
`Poll`, because a poll that times out at one moment meets the ready descriptor in the
next call. In `servers` and `exchange` the threads of one process are fair together: two
of them never wait for each other without the clients' help. No fairness on clients, signals, failing system calls or callers of `submit`:
nobody has to come. Workers' callables are assumed to terminate, as the servers' do.

In `pool_servers`, `servers`, `reactors` and `exchange` clients do finitely many things, so
"it happens in the end" is stated as `<>[]`: from some point on nobody waits who should
not. The properties say which states may last: a number that was given out again
(`reused`), a process that is over, a client for whom no descriptor is free.

**Deadlock** is checked where a server ends in an explicit final state (`pool`,
`pool_servers`, `epollet`, the signal runs). In the epoll servers the final step `Rest` is also
allowed in the hang described under Findings, so the runs show that it is the only one. The programs of `reactors`, `servers`,
`exchange` and `smart` rest when no client or user acts; there the `<>[]` properties say
in which states they may.

## Proofs

The theorems hold for every value of the constants that satisfies the assumptions below.
Each is about the specification TLC checks, without its fairness.

| module | theorem | states |
|---|---|---|
| `ThreadPoolProof` | `TypeCorrect` | the type invariant |
| | `NoSleeper` | nobody is asleep when the destructor joins |
| | `CountIsExact` | `task_count` is queued plus running, minus those not yet counted |
| | `DrainIsDry` | the wait of `stop()` returns only when everything counted has run |
| | `DestructorDrains` | without a submit that overlaps the destructor nothing is left |
| | `NoLostWakeup` | every queued callable has its own messenger while a worker sleeps |
| | `NoLostDrainSignal` | with one drainer its last signal is still to come |
| | `RunsOnce` | no callable runs twice |
| | `KeepsPromises` | the pool implements `TaskService`, without its fairness |
| `PoolServersProof` | `TypeCorrect`, `RecordsAgree`, `NeverBlocks`, `SendsBeforeClose`, `DropsNoClient` | the types, `Bookkeeping`, `NeverBlocksOnOne`, `NoSendAfterClose`, `NobodyDropped` |
| | `ETRegistersOpen`, `StrandsNoData`, `StrandsNoHangUp`, `AnswersOnce`, `ETDropsNoClient` | epoll set = open descriptors, and what is still to be reported is open; `NoDataStranded`, `NoHangUpStranded`, no chunk is answered twice, `NobodyDropped`, for the edge-triggered server |
| `SignalStopProof` | `TypeCorrect` | the types, wherever a signal interrupts whom |
| | `LosesNoEndSignal` | `DrainSignalPending`, until there is a second signal |
| | `StopWaitsForPool` | `stop()` returns only when all callables are finished, but for one that the interrupted `submit` has not counted yet |
| | `HandlerHoldsNothing` | nobody waits in `stop()` with a mutex of the pool or `TCPServer::mtx` in hand, if signals spare the critical sections of `submit` and of the epoll set |
| | `HandlerAndPoolGoOn` | while the main thread sleeps in the first `stop()` a worker can take a step, if signals spare `submit` from `emplace` to `notify_one` and the critical sections of the epoll set |
| `ServersProof` | `TypeCorrect`, `RecordsAgree`, `NeverBlocks`, `DropsNoClient` | the same for the seven servers without a pool |
| `ReactorsProof` | `TypeCorrect`, `SetsAgree`, `DispatchesToLiving` | the types, `Registered`, `NoDanglingChannel` |
| | `DealsInTurn` | `Balanced`, if the number of sub-reactors divides the range of the counter |
| `SmartPointersProof` | `OwnersCounted`, `NeverDangles` | `CountsOwners`, `NoDangling`, unless `reset()` is called beside other owners |
| | `OwnershipKept` | under the same condition the pointers implement `Ownership` |
| `ExchangesProof` | `AnswersAreRight` | `RightAnswers`, for the four pairs, lines longer than the buffers included |

`SocketsProof` holds the lemmas the proofs about servers share; the theorems named
`Inductive` and `ETInductive` state the inductive invariants themselves.

**The pool.** `IInv` is built in layers, each preserved given the earlier ones. `LockInv`: who
is inside a critical section holds its mutex, so two threads are never between a test and
its sleep together. `StopInv`: `stop` is set from the store on, and from the notification on
no worker is at `block` or `wait`; this needs `LockInv`, since only the mutex keeps a worker
from testing before the store and sleeping after the notification. `QueueInv`: what an exited
worker and the pool's end say about the queue. `CountExact` is inductive given the types;
cardinalities of sets of threads at a label change by one per step. `CountingQueued` bounds
the uncounted by the queue's length, so a count of 0 means dry (`ZeroMeansDry`), which gives
the drain theorems. `Conserving` strengthens `WorkConserving` with the messengers as counted
threads. Each property forbids a state whose predecessor looks harmless unless the lock
holder is known. For the refinement `OnceInv` says where a callable is: in one submitter's
hand, at one place of the queue, with one worker, or finished; then every step of
`ThreadPool` is a step of `TaskService` under the mapping of `MCThreadPool` or changes nothing
there. `KeepsPromises` assumes `~LateSubmit`: with it a callable may be left behind.

**The servers with a pool.** What the loop believed when it filled its batch must stay true
until the batch is used up, while clients leave and workers close numbers. `PoolServersProof`
therefore has one invariant per server: its records against the descriptor table
(`SelectBooks`, `PollBooks`, `EpollBooks`), and of its batch that every number in it can still be
accepted or received from at once. The poll server's also says that a number reported with
POLLHUP is gone, so that the error branch hits nobody, and that no number is in the batch
twice. `NoSendAfterClose` needs that after the only wait no worker is past its test of
`is_running`, and that a stopped server starts no send (`NoLateSend`); `OutstandingZero`
proves that a wait for `task_count` 0 leaves no callable behind.

**The edge-triggered server.** `NoDataStranded` is inductive with what the batch holds: every number
with something to read is in the batch or will be reported.
`NoHangUpStranded` speaks of clients that were answered fully, so it needs to know that
answers are never too many: `OwnChunks` (a callable holds chunks of the client behind
its number, as long as no number was reused) and `AnsweredOnce` (each received chunk is in one
callable or in one client's answers).

**The signals.** A handler runs on top of interrupted code, so the invariant speaks of `At(t)`:
where thread `t` is, or will be once its `stop()` returns. With it, `Mutexes` says who holds a
mutex, interrupted threads included, and `CountInv` that `task_count` is exact except for
a callable that the interrupted `submit` has queued and not counted. Only a main thread that is
already in `stop()` leaves a signal to a worker (`FirstSignal`), hence with one signal a single
thread waits on `end_cv` and no notification goes astray (`Pending`); with a second signal
`DrainSignalPending` is false. `Conserving` counts the awake workers against the queue, with the
notification that `submit` still owes. `CanGo(w)` says that worker `w` is neither asleep nor
waiting for a mutex somebody holds; a worker that is awake and cannot go waits for one that can
(`WorkerOrHolder`), as the main thread holds none. `HandlerHoldsNothing` and `HandlerAndPoolGoOn` have
a condition on `Where`, the places at which signals may come. It is the border between
`signal_graceful` and the two findings: what the handler waits for is withheld by the interrupted
`submit`, or by a main thread that holds `TCPServer::mtx`, and by nothing else.

**The servers without a pool.** Seven programs times some fifteen actions would be a long case
analysis, so every step of each program is first shown to be one of some twelve kinds
(`Step`: it accepts, registers, starts a run, receives, answers, leaves, ...), and the invariant is
proved per kind. `Hands` is the part that matters: as long as no number was reused, the run
that is about to receive still has its client behind the number, and the one that is about to
close has a client who is gone. `Alone` states why a single thread may block in `recv`: what
was readable when the batch was filled stays readable until it is served.

**The reactors.** A Connection that one thread constructs or deletes must not be in another
thread's batch. `OwnEvents` gives that: a batch has events of Connections that are alive and
given to its loop only, and `OwnsMade`: two threads never have the same Connection in hand.
Round robin is a matter of arithmetic: the `int` wraps to a negative value, which the
conversion to `size_t` makes large, and the remainder is still that of the stored bits when
`SubReactors` divides both ranges (`IndexIsRest`). Then `InTurn` is inductive: full rounds, and
one more connection for those who had their turn since. The condition is a real one: with
three sub-reactors and a counter that wraps, two connections in a row can go to the same one:
-1, which becomes 2^64 - 1, and 0 both leave no rest. That takes 2^32 connections.

**The smart pointers.** An assignment lets go first and takes over then; in between the left side
holds a pointer it does not own any more. `Sound(m, L)` is the invariant of a memory but for
the pointers in `L`; each function on the memory has a lemma that says for which `L` its result
is sound, and `CountsOwners` is the statement that `count` is the number of sharers.
`OwnershipKept` follows from what each operation does to the pointers (`Effect`).

**The small pairs.** `Sound` says that what is under way belongs to the line asked last:
either the part that was received, the part on its way and the part not sent yet make up the
line, or they make up its answer, and nothing goes the other way meanwhile. For packets the
receiver's position matters too (`Reading`): before the length is complete the three parts
are the packet of the text, afterwards they are the text, and the length read is the text's.
For datagrams there is one more case: a line that does not fit the server's buffer, or an answer
that does not fit the client's, is cut, and `CutsOnce` shows that it makes no difference to the
client whether one of them was cut or both: its answer is the beginning of the whole one.
A datagram that was duplicated and a piece that was taken for the whole are where `Sound` ends,
and they are the faults `RightAnswers` excepts; lost datagrams, refused lengths and a server
that dies in the middle of an answer are covered.

**Assumptions on the constants**, each named in the module that declares them:

| assumption | says | because |
|---|---|---|
| `RolesAssumption` | finite, disjoint sets of threads, at least one worker | threads are threads; the constructor starts workers |
| `SignalAssumption` | finitely many workers, at least one; `None` is no thread and no place in the code | threads are threads; the constructor starts workers |
| `SocketsAssumption` | there is a number above the listening one; `None` is no connection and no number | `-1` is neither |
| `PoolAssumption` | finitely many workers, `None` is no callable | `None` is an empty hand |
| `EventServerAssumption` | at least one run of `client_communicate` at a time | a bound of the model |
| `ReactorAssumption` | the Acceptor's Channel is no Connection; `None` is no loop | `HandleAccept` has a Channel of its own |
| `MultiAssumption` | at least one sub-reactor, none of them the main one; `size_t` is wider than `int` | `TCPServer` has both; the platforms the code builds on |
| `SmartAssumption` | finitely many `shared_ptr`s; no pointer is of both kinds; `None` is no object | memory is finite; two classes; `nullptr` |
| `ExchangeAssumption`, `BytesAssumption` | sizes are natural numbers; a channel holds a byte, a length has one, a buffer too | sizes of arrays |
| `LengthAssumption` | the length of every answer survives `htonl` and `ntohl` | they are inverse on four bytes; TLC evaluates it, as powers and sums over digits are beyond the prover |

**Left to TLC**, and why:
- liveness (`AllAnswered`, `GoneAreClosed`, `ShutsDown`, `NobodyWaits`, `ServerEnds`) and
  the fairness in `KeepsService`: it rests on `ENABLED`, which the prover does not reason about.

Every invariant and every action property of the passing runs is stated by a theorem, on the
condition the table gives where there is one.

`Balanced` for numbers of sub-reactors that do not divide the range is neither proved nor
checked: it fails once the counter has wrapped.

## Not modelled

- Programs: the earlier pools of `C++MultiThreadingProgram` (the same loop, submit and
  wait as `threadpool.h`), the short synchronisation demos there, the design patterns, the
  process and language demos, build and debugging examples: one library call or a few
  printed lines each. `stretype.cpp`, `selectretype.cpp`, `Multithreadserverretype.cpp`,
  `ServerRetype.cpp` and `ClientRetype.cpp` repeat other programs and are covered by their
  models without being mapped again.
- In the servers with a pool: a failing `EPOLL_CTL_ADD`, `init()` and its errors. In all
  servers: numbers of `FD_SETSIZE` and more.
- In the servers without a pool: the data race on the bytes of `fds` in `pollthread.cpp` (an
  entry is read or written at once), a thread that outlives `main` and uses the destroyed
  server, `std::thread` failing to start.
- In `SmartPointers`: several threads on one counter, raw pointers passed on from `get()`.
- In `Exchange`: a second client of the UDP server, and of the TCP servers, which accept
  one only.
- In `SignalStop`: a second critical section of the same event (an event is a chunk, or a client who
  comes or goes); the edge-triggered server, whose callable takes `TCPServer::mtx` for every `send`:
  its worker passes through the steps of a failed `send` each time.
- In `Streams`: more than one byte read behind an unterminated buffer, which is undefined.
- The text of messages: a message equal to `[EMPTY INPUT]` or holding a NUL byte.
- A send that writes part of a response, or blocks because the client does not read.
- In `ServerPool`: a signal inside `submit`, during the destructor, or a second one; these
  are `SignalStop`'s subject (except the destructor).
- `errno` set by the output streams between `recv` and the test in `epollthread_tpet.cpp`.
- `submit` overlapping the destructor: `LateSubmit = TRUE` lets TLC explore it (the callable
  that read `stop` too early is left behind); no program of the repository does it while
  its pool is alive, so no run is spent on it, but the theorems `TypeCorrect`, `NoSleeper`,
  `CountIsExact`, `DrainIsDry`, `NoLostWakeup`, `RunsOnce` hold for it too.

## Plan

1. (done) `ThreadPool` with its abstract service and proofs; the four pool servers;
   signals; reactors and their start.
2. (done) The servers without a pool, the reactor programs one by one, the smart
   pointers with `Ownership`, the small pairs.
3. (done) Proofs: the pool and its refinement of `TaskService`; the servers with a pool, with
   threads and without; the reactors; the smart pointers and their refinement of `Ownership`;
   signals; the small pairs.
4. The earlier pools of `C++MultiThreadingProgram` as variants of `ThreadPool`, the observer
   pattern.

--------------------------- MODULE ReactorStartup ---------------------------
(***************************************************************************)
(* ReactorThreadPool of multithread_reactor.cpp: init() appends the        *)
(* sub-reactors to a vector while the threads it has already started index *)
(* that vector, and the destructor stops and joins the threads.            *)
(*                                                                         *)
(* The vector is a sequence of blocks of memory, of which the last is its  *)
(* storage: appending to a full block allocates one of twice the size,     *)
(* moves the elements and frees the old block.  What a freed block holds   *)
(* is undefined.                                                           *)
(***************************************************************************)
EXTENDS Naturals, FiniteSets

CONSTANTS
    SubReactors,     \* sub_reactor_num
    None

VARIABLES
    size, capacity, block,    \* __sub_reactors; blocks are numbered
    running,                  \* __is_running of each sub-reactor
    pc,                       \* "init", "start", "dtor", "join", "gone" of the main thread
    joined,                   \* threads joined so far
    tpc,                      \* where each sub-reactor's thread is
    seen,                     \* the block a thread has loaded the address of
    loops                     \* the sub-reactor whose loop a thread runs

vectorVars == <<size, capacity, block>>
threadVars == <<tpc, seen, loops>>
vars == <<vectorVars, running, pc, joined, threadVars>>

Indices == 0..(SubReactors - 1)

Init ==
    /\ size = 0 /\ capacity = 0 /\ block = 0
    /\ running = [i \in Indices |-> TRUE]
    /\ pc = "init" /\ joined = 0
    /\ tpc = [i \in Indices |-> "none"]
    /\ seen = [i \in Indices |-> None]
    /\ loops = [i \in Indices |-> None]

-----------------------------------------------------------------------------
(* The main thread                                                         *)

\* make_unique and emplace_back.
EmplaceBack ==
    /\ pc = "init" /\ size < SubReactors
    /\ size' = size + 1
    /\ IF size < capacity THEN UNCHANGED <<capacity, block>>
       ELSE capacity' = (IF capacity = 0 THEN 1 ELSE 2 * capacity) /\ block' = block + 1
    /\ pc' = "start"
    /\ UNCHANGED <<running, joined, threadVars>>

StartThread ==
    /\ pc = "start"
    /\ tpc' = [tpc EXCEPT ![size - 1] = "load"]
    /\ pc' = "init"
    /\ UNCHANGED <<vectorVars, running, joined, seen, loops>>

\* EpollEventLoop's constructor throws; TCPServer's constructor is left by the
\* exception and the members it has constructed are destroyed.
CreateFails ==
    /\ pc = "init" /\ size < SubReactors
    /\ pc' = "dtor"
    /\ UNCHANGED <<vectorVars, running, joined, threadVars>>

\* ~ReactorThreadPool: stop() for each sub-reactor.
StopAll ==
    /\ pc = "dtor"
    /\ running' = [i \in Indices |-> i >= size]
    /\ pc' = "join"
    /\ UNCHANGED <<vectorVars, joined, threadVars>>

Join ==
    /\ pc = "join" /\ joined < size /\ tpc[joined] = "ended"
    /\ joined' = joined + 1
    /\ UNCHANGED <<vectorVars, running, pc, threadVars>>

Destroyed ==
    /\ pc = "join" /\ joined = size
    /\ pc' = "gone"
    /\ UNCHANGED <<vectorVars, running, joined, threadVars>>

Main == EmplaceBack \/ StartThread \/ CreateFails \/ StopAll \/ Join \/ Destroyed

-----------------------------------------------------------------------------
(* Thread i: __sub_reactors[i]->loop()                                     *)

LoadStorage(i) ==
    /\ tpc[i] = "load"
    /\ seen' = [seen EXCEPT ![i] = block]
    /\ tpc' = [tpc EXCEPT ![i] = "index"]
    /\ UNCHANGED <<vectorVars, running, pc, joined, loops>>

\* The element of a block that was freed meanwhile may be anything.
Index(i) ==
    /\ tpc[i] = "index"
    /\ \E r \in IF seen[i] = block THEN {i} ELSE {i, None} :
         loops' = [loops EXCEPT ![i] = r]
    /\ tpc' = [tpc EXCEPT ![i] = "test"]
    /\ UNCHANGED <<vectorVars, running, pc, joined, seen>>

\* while(__is_running)
Test(i) ==
    /\ tpc[i] = "test" /\ loops[i] # None
    /\ tpc' = [tpc EXCEPT ![i] = IF running[loops[i]] THEN "epoll_wait" ELSE "ended"]
    /\ UNCHANGED <<vectorVars, running, pc, joined, seen, loops>>

\* epoll_wait has no timeout and no connection was registered yet: it does not
\* return.
Thread(i) == LoadStorage(i) \/ Index(i) \/ Test(i)

Next == Main \/ \E i \in Indices : Thread(i)

Spec == Init /\ [][Next]_vars

-----------------------------------------------------------------------------
\* Each thread runs the event loop of its sub-reactor
\* (multithread_reactor.cpp:99).
RunsItsReactor == \A i \in Indices : tpc[i] = "test" => loops[i] = i
=============================================================================

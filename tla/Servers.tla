------------------------------- MODULE Servers -------------------------------
(***************************************************************************)
(* The servers of Cpp_WebPrograming without a thread pool, side by side:   *)
(* program says which of them runs.  What is promised to the clients is    *)
(* stated once for all of them.                                            *)
(***************************************************************************)
EXTENDS EventServer

VARIABLES program      \* which of the executables runs

vars == <<eventVars, program>>

Select == INSTANCE SelectSingle
Poll == INSTANCE PollSingle
Epoll == INSTANCE EpollSingle
SelectT == INSTANCE SelectThread
PollT == INSTANCE PollThread
EpollT == INSTANCE EpollThread
ClientT == INSTANCE ClientThread

\* One thread does everything; or detached threads talk to the clients.
SingleThreaded == {"select", "pollserver", "epollserver"}
ThreadPerEvent == {"selectthread", "pollthread", "epollthread"}
Programs == SingleThreaded \cup ThreadPerEvent \cup {"multithread"}

\* Only where one number can have several runs is another division of the slots
\* of interest.
Init ==
    /\ EventInit
    /\ program \in Programs
    /\ program \notin ThreadPerEvent => \A fd \in Fds : share[fd] > 0

Main ==
    /\ \/ program = "select" /\ Select!Main
       \/ program = "pollserver" /\ Poll!Main
       \/ program = "epollserver" /\ Epoll!Main
       \/ program = "selectthread" /\ SelectT!Main
       \/ program = "pollthread" /\ PollT!Main
       \/ program = "epollthread" /\ EpollT!Main
       \/ program = "multithread" /\ ClientT!Main
    /\ UNCHANGED program

Threads ==
  \E s \in Slots :
    /\ \/ program = "selectthread" /\ SelectT!Thread(s)
       \/ program = "pollthread" /\ PollT!Thread(s)
       \/ program = "epollthread" /\ EpollT!Thread(s)
       \/ program = "multithread" /\ ClientT!Thread(s)
    /\ UNCHANGED program

\* SIGINT, and a select that fails.
Others ==
    /\ \/ program = "select" /\ Select!Others
       \/ program = "pollserver" /\ Poll!Others
       \/ program = "epollserver" /\ Epoll!Others
       \/ program = "selectthread" /\ SelectT!Others
       \/ program = "pollthread" /\ PollT!Others
       \/ program = "epollthread" /\ EpollT!Others
    /\ UNCHANGED program

Clients == ClientsAct /\ UNCHANGED program

Rest == mpc \in {"exit", "killed"} /\ UNCHANGED vars

Next == Main \/ Threads \/ Others \/ Clients \/ Rest

Spec == Init /\ [][Next]_vars

\* The threads of the program run; nobody has to connect, send or hang up, no
\* signal has to come and nothing has to fail.
FairSpec == Spec /\ WF_vars(Main) /\ WF_vars(Threads)

-----------------------------------------------------------------------------
(* Properties                                                              *)

Running == is_running /\ mpc \notin {"init", "exit", "killed"}
Over == mpc \in {"exit", "killed"}

TypeOK ==
    /\ SockTypeOK
    /\ is_running \in BOOLEAN /\ program \in Programs
    /\ mpc \in {"init", "wait", "scan", "register", "accept", "dtor", "exit", "killed"}
    /\ view \subseteq Fds \cup {ServerFd} /\ batch \subseteq Fds \cup {ServerFd}
    /\ pending \in Fds \cup {None}
    /\ watched \subseteq Fds \cup {ServerFd} /\ client_fds \subseteq Fds
    /\ max_fd \in 0..MaxFd
    /\ share \in [Fds -> 0..MaxThreads]
    /\ thr \in [Slots -> [pc : {"idle", "start", "recv", "send", "close"},
                          conn : Conns \cup {None}, chunk : Chunks \cup {None}]]

\* What the program waits for is what is open, and max_fd reaches all of it
\* (select.cpp:175, selectthread.cpp:156).  In the thread-per-event servers a
\* late thread can close a number that is another client's by then.
Bookkeeping ==
    Running /\ ~reused /\ program # "multithread" =>
      /\ watched \ {ServerFd} = {fd \in Fds : fdtab[fd] # None} \ {pending}
      /\ program \notin {"epollserver", "epollthread"} =>
           client_fds = watched \ {ServerFd} /\ max_fd = Max(watched)

\* A server that has one thread calls recv only when it returns at once.
NeverBlocksOnOne ==
    program \in SingleThreaded =>
      \A s \in Slots : thr[s].pc = "recv" => Unread(thr[s].conn) \/ Gone(thr[s].conn)

\* A server hangs up on nobody who is still there, as long as it goes on and no
\* number was given out again that a thread still uses.
NobodyDropped ==
    [][Running /\ ~reused /\ mpc' \notin {"exit", "killed"} =>
         \A fd \in Fds :
           fdtab[fd] # None /\ ~Gone(fdtab[fd]) => fdtab'[fd] = fdtab[fd]]_eventVars

\* The clients do finitely many things, so what must happen in the end is stated
\* of the states in which the server stays.

\* A client that stays gets an answer to everything it sent, once there was a
\* descriptor for it and unless the process is shut down or killed.
AllAnswered ==
    <>[](\A c \in Conns :
           sent[c] = MaxChunks /\ (c \in backlog => Available = Fds) =>
             Len(out[c]) = MaxChunks \/ Gone(c) \/ ~Running \/ reused)

\* The descriptor of a client that has gone is closed.
GoneAreClosed ==
    <>[](\A fd \in Fds : fdtab[fd] # None /\ Gone(fdtab[fd]) => reused)

\* After SIGINT the process ends, in whatever state its clients and its threads
\* are.
ShutsDown == <>[](is_running \/ Over)
=============================================================================

----------------------------- MODULE PoolServers -----------------------------
(***************************************************************************)
(* The three servers that have a thread pool and level-triggered events,   *)
(* side by side: program says which of them runs.  What they promise to    *)
(* their clients is in ServerPool; here it is checked for all of them, and *)
(* each server's own records are compared with the kernel's.               *)
(***************************************************************************)
EXTENDS ServerPool

VARIABLES
    program,       \* which of the executables runs
    watched,       \* read_fds of select, the registrations of epoll
    fds,           \* the vector of poll
    client_fds, max_fd,
    batch,         \* the ready descriptors not yet looked at
    hot            \* poll: the entry whose error branch is still to come

bookVars == <<watched, fds, client_fds, max_fd, batch, hot>>
vars == <<program, sockVars, is_running, poolVars, mainVars, bookVars>>

Select == INSTANCE SelectServer WITH read_fds <- watched, tmp <- batch
Poll == INSTANCE PollServer
Epoll == INSTANCE EpollServer WITH interest <- watched, events <- batch

\* A server leaves alone what only the others have.
SelectOwn == fds = <<>> /\ hot = None
PollOwn == watched = {} /\ max_fd = ServerFd
EpollOwn == fds = <<>> /\ hot = None /\ client_fds = {} /\ max_fd = ServerFd

Init ==
    \/ program = "select" /\ Select!Init /\ SelectOwn
    \/ program = "poll" /\ Poll!Init /\ PollOwn
    \/ program = "epoll" /\ Epoll!Init /\ EpollOwn

Runs(name, step) == program = name /\ step /\ UNCHANGED program

SelectRuns(step) == Runs("select", step) /\ UNCHANGED <<fds, hot>>
PollRuns(step) == Runs("poll", step) /\ UNCHANGED <<watched, max_fd>>
EpollRuns(step) == Runs("epoll", step) /\ UNCHANGED <<fds, hot, client_fds, max_fd>>

Main == SelectRuns(Select!Main) \/ PollRuns(Poll!Main) \/ EpollRuns(Epoll!Main)

PoolStep(w) ==
    SelectRuns(Select!Pool(w)) \/ PollRuns(Poll!Pool(w)) \/ EpollRuns(Epoll!Pool(w))

Next == SelectRuns(Select!Next) \/ PollRuns(Poll!Next) \/ EpollRuns(Epoll!Next)

Spec == Init /\ [][Next]_vars

\* The main thread and the workers run; nobody has to connect, send, hang up or
\* press ^C, and no wait has to fail.  A poll that keeps failing keeps meeting
\* ready descriptors until it reports them.
FairSpec ==
    /\ Spec
    /\ WF_vars(Main) /\ SF_vars(PollRuns(Poll!Poll))
    /\ \A w \in Workers : WF_vars(PoolStep(w))

-----------------------------------------------------------------------------
(* Properties; NobodyDropped, AllAnswered and GoneAreClosed are those of   *)
(* ServerPool                                                              *)

TypeOK ==
    CASE program = "select" -> Select!TypeOK
      [] program = "poll" -> Poll!TypeOK
      [] program = "epoll" -> Epoll!TypeOK

\* The server's records of its clients agree with the descriptor table, although
\* numbers are closed by the loop, by its error branch and by workers.
Bookkeeping ==
    CASE program = "select" -> Select!Bookkeeping
      [] program = "poll" -> Poll!Bookkeeping
      [] program = "epoll" -> Epoll!Registered

\* The thread that serves everybody calls accept and recv only when they return
\* at once (epoll: unless the number was given out again).
NeverBlocksOnOne ==
    CASE program = "select" -> Select!NeverBlocksOnOne
      [] program = "poll" -> Poll!NeverBlocksOnOne
      [] program = "epoll" -> Epoll!NeverBlocksOnOne

\* ~TCPServer of the poll server closes descriptors without having waited for
\* the pool; no callable is about to send by then.
NoSendAfterClose == program = "poll" => Poll!NoSendAfterClose

\* After SIGINT, or when the loop is left for another reason, the server shuts
\* down: the event loop is woken and the waits for the pool end.  The epoll
\* server may by then hang in recv on a number that was given out again, and it
\* hangs in the handler if that holds mtx and a worker whose send failed wants it.
ShutsDown ==
    <>[](\/ mpc \in LoopLabels /\ is_running
         \/ mpc = "exit"
         \/ program = "epoll" /\ (reused \/ HandlerHoldsMtx))
=============================================================================

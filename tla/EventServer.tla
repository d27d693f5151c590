----------------------------- MODULE EventServer -----------------------------
(***************************************************************************)
(* What the echo servers of Cpp_WebPrograming that have no thread pool     *)
(* share.  Their main thread waits for ready descriptors and accepts;      *)
(* client_communicate(fd) receives once and answers once.  The servers     *)
(* differ in the thread that runs it (the main thread, or a new detached   *)
(* one for every event), in what is waited for and in the bookkeeping.     *)
(*                                                                         *)
(* A run of client_communicate occupies one of the slots of its descriptor *)
(* number.  share says how the MaxThreads slots are divided: a number that *)
(* has none is not available to the process, and of more runs at a time    *)
(* than a number has slots the later ones are left out (their event is     *)
(* reported again).  A critical section under mtx is one step, so mtx is   *)
(* not a variable.                                                         *)
(*                                                                         *)
(* recv belongs to the connection that was behind the number when it was   *)
(* called; send and close go to whoever is behind the number then.         *)
(***************************************************************************)
EXTENDS Sockets

CONSTANTS MaxThreads    \* bound: runs of client_communicate at a time

ASSUME EventServerAssumption == MaxThreads \in Nat \ {0}

VARIABLES
    is_running,
    mpc,          \* where the main thread is
    view,         \* the descriptors it passes to select or poll
    batch,        \* the ready ones it has not yet looked at
    pending,      \* accepted and not yet registered, or None
    watched,      \* read_fds, the valid entries of fds, or what epfd watches
    client_fds,
    max_fd,
    share,        \* how many of the slots each number has
    thr           \* the runs of client_communicate

mainVars == <<mpc, view, batch, pending>>
books == <<watched, client_fds, max_fd>>
eventVars == <<sockVars, is_running, mainVars, books, share, thr>>

Slots == Fds \X (1..MaxThreads)
Idle == [pc |-> "idle", conn |-> None, chunk |-> None]
Busy == {s \in Slots : thr[s].pc # "idle"}

\* The numbers the process may open.
Available == {fd \in Fds : share[fd] > 0}

\* Numbers that will still be used for the client they were read for.
HeldFds == {s[1] : s \in Busy} \cup (batch \ {ServerFd})

EventInit ==
    /\ SockInit
    /\ is_running = TRUE
    /\ mpc = "init" /\ view = {} /\ batch = {} /\ pending = None
    /\ watched = {} /\ client_fds = {} /\ max_fd = 0
    /\ share \in [Fds -> 0..MaxThreads] /\ MapThenSumSet(LAMBDA fd : share[fd], Fds) = MaxThreads
    /\ \A fd \in Fds \ Available : \A lower \in Available : lower < fd
    /\ thr = [s \in Slots |-> Idle]

Goto(l) == mpc' = l

-----------------------------------------------------------------------------
(* The main thread                                                         *)

\* init(): the listening socket is registered, or error() throws and nobody
\* catches it.
Initializes(tracksMax) ==
    /\ mpc = "init"
    /\ \/ /\ Goto("scan")
          /\ watched' = {ServerFd}
          /\ max_fd' = IF tracksMax THEN ServerFd ELSE max_fd
       \/ Goto("exit") /\ UNCHANGED <<watched, max_fd>>
    /\ UNCHANGED <<sockVars, is_running, view, batch, pending, client_fds, share, thr>>

\* When nothing of the batch is left: while(is_running), and what the wait is going to be given.
Loops(fds) ==
    /\ mpc = "scan" /\ batch = {}
    /\ \/ is_running /\ Goto("wait") /\ view' = fds
       \/ ~is_running /\ Goto("dtor") /\ UNCHANGED view
    /\ UNCHANGED <<sockVars, is_running, batch, pending, books, share, thr>>

\* Mutant: stop() does not shut the listening socket down.
Ready_NoShutdown(fds) ==
    {fd \in fds : IF fd = ServerFd THEN backlog # {} ELSE Readable(fd)}

\* The listening socket also becomes ready when stop() shuts it down.
Ready(fds) ==
    {fd \in fds : IF fd = ServerFd THEN backlog # {} \/ ~is_running ELSE Readable(fd)}

\* select, poll or epoll_wait comes back with these descriptors.
WaitReturns(fds) ==
    /\ mpc = "wait"
    /\ Goto("scan") /\ batch' = fds /\ view' = {}
    /\ UNCHANGED <<sockVars, is_running, pending, books, share, thr>>

WaitFails(to) ==
    /\ mpc = "wait"
    /\ Goto(to) /\ view' = {}
    /\ UNCHANGED <<sockVars, is_running, batch, pending, books, share, thr>>

Looks(fd) == mpc = "scan" /\ fd \in batch /\ batch' = batch \ {fd}

\* accept; the new descriptor still has to be registered.
AcceptsOne ==
    /\ Looks(ServerFd)
    /\ \/ /\ is_running
          /\ \E c \in backlog, fd \in FreeFds \cap Available :
               Accepts(c, fd, HeldFds) /\ pending' = fd
          /\ Goto("register")
       \/ /\ AcceptFails \/ FreeFds \cap Available = {} \/ ~is_running
          /\ UNCHANGED <<sockVars, mpc, pending>>
    /\ UNCHANGED <<is_running, view, books, share, thr>>

\* The bookkeeping of the new descriptor, which the caller gives.
Registers ==
    /\ mpc = "register"
    /\ Goto("scan") /\ pending' = None
    /\ UNCHANGED <<is_running, view, share, thr>>

\* client_communicate(fd) begins, in this thread or in another.
Starts(fd) ==
    /\ Looks(fd)
    /\ LET free == {s \in Slots \ Busy : s[1] = fd /\ s[2] <= share[fd]} IN
         thr' = IF free = {} THEN thr
                ELSE [thr EXCEPT ![CHOOSE s \in free : \A r \in free : s[2] <= r[2]].pc = "start"]
    /\ UNCHANGED <<sockVars, is_running, mpc, view, pending, books, share>>

\* The process ends, whatever its threads are doing; its descriptors are closed.
Ends(how) ==
    /\ Goto(how)
    /\ Closes(Fds) /\ thr' = [s \in Slots |-> Idle]
    /\ view' = {} /\ batch' = {} /\ pending' = None
    /\ watched' = {} /\ client_fds' = {} /\ max_fd' = 0
    /\ UNCHANGED share

\* The destructor closes what is open, and main returns.
Destroys == mpc = "dtor" /\ is_running' = FALSE /\ Ends("exit")

\* stop(), called by the handler of SIGINT.  It interrupts the wait of the main
\* thread (-1, and the loop is left), unless another thread handles the signal
\* or the wait has not begun.
Stops ==
    /\ is_running /\ mpc \notin {"init", "exit", "killed"}
    /\ is_running' = FALSE
    /\ \/ UNCHANGED <<mpc, view>>
       \/ mpc = "wait" /\ Goto("dtor") /\ view' = {}
    /\ UNCHANGED <<sockVars, batch, pending, books, share, thr>>

-----------------------------------------------------------------------------
(* client_communicate                                                      *)

At(s, label) == thr[s].pc = label /\ mpc \notin {"exit", "killed"}

To(s, label) == thr' = [thr EXCEPT ![s] = [Idle EXCEPT !.pc = label]]
Done(s) == thr' = [thr EXCEPT ![s] = Idle]

\* recv is called: from here on it belongs to the connection it found; on a
\* closed number it returns -1.
CallsRecv(s) ==
    /\ At(s, "start")
    /\ thr' = [thr EXCEPT ![s].pc = IF fdtab[s[1]] = None THEN "close" ELSE "recv",
                          ![s].conn = fdtab[s[1]]]
    /\ UNCHANGED <<sockVars, is_running, mainVars, books, share>>

\* recv returns a chunk, or 0 or -1; otherwise it blocks.
RecvReturns(s) ==
    /\ At(s, "recv")
    /\ LET c == thr[s].conn IN
         \/ /\ Unread(c)
            /\ got' = [got EXCEPT ![c] = @ + 1]
            /\ thr' = [thr EXCEPT ![s] = [pc |-> "send", conn |-> None, chunk |-> <<c, got'[c]>>]]
         \/ /\ ~Unread(c) /\ Gone(c)
            /\ To(s, "close") /\ UNCHANGED got
    /\ UNCHANGED <<fdtab, backlog, peer, sent, out, reused, is_running, mainVars, books, share>>

\* What follows a send is the caller's.  It succeeds; a client that has closed answers it with a reset.
SendSucceeds(s) ==
    /\ At(s, "send")
    /\ LET c == fdtab[s[1]] IN
         /\ c # None /\ peer[c] # "reset"
         /\ \/ peer[c] = "up" /\ out' = [out EXCEPT ![c] = Append(@, thr[s].chunk)] /\ UNCHANGED peer
            \/ peer[c] = "hup" /\ peer' = [peer EXCEPT ![c] = "reset"] /\ UNCHANGED out
    /\ UNCHANGED <<fdtab, backlog, sent, got, reused, is_running, mainVars, books, share>>

\* send returns -1: the number is closed, or the connection was reset.
SendReturnsError(s) ==
    /\ At(s, "send")
    /\ fdtab[s[1]] # None => peer[fdtab[s[1]]] = "reset"
    /\ UNCHANGED <<sockVars, is_running, mainVars, books, share>>

\* A send on a reset connection may also raise SIGPIPE, which ends a process
\* that does not ignore it.
KilledBySend(s) ==
    /\ At(s, "send")
    /\ fdtab[s[1]] # None /\ peer[fdtab[s[1]]] = "reset"
    /\ Ends("killed")
    /\ UNCHANGED is_running

\* The descriptor is closed; its bookkeeping is the caller's.
HangsUp(s, label) ==
    /\ At(s, label)
    /\ Closes({s[1]})
    /\ Done(s)
    /\ UNCHANGED <<is_running, mpc, view, pending, share>>

-----------------------------------------------------------------------------
\* The clients are alike: it does not matter which connects next.  What they do
\* after SIGINT, while the main thread is on its way out, is left out.
ClientsAct ==
    /\ is_running /\ mpc \notin {"init", "exit", "killed"}
    /\ \/ LET strangers == {c \in Conns : peer[c] = "new"} IN
            strangers # {} /\ Connect(CHOOSE c \in strangers : TRUE)
       \/ \E c \in Conns : ClientSend(c) \/ HangUp(c) \/ Reset(c)
    /\ UNCHANGED <<is_running, mainVars, books, share, thr>>
=============================================================================

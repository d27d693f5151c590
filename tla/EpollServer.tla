----------------------------- MODULE EpollServer -----------------------------
(***************************************************************************)
(* epollthread_tp.cpp: a level-triggered epoll loop.  Unlike the select    *)
(* server, a worker whose send fails closes the descriptor itself, so a    *)
(* number can be closed, and used again, while its event is still waiting  *)
(* in the batch epoll_wait returned.                                       *)
(***************************************************************************)
EXTENDS ServerPool

VARIABLES
    interest,    \* client descriptors registered with epfd
    events       \* the batch of events not yet looked at

vars == <<sockVars, is_running, poolVars, mainVars, interest, events>>

Init ==
    /\ ServerInit
    /\ interest = {}
    /\ events = {}

\* Mutant: only the registration is removed.
close_fd_NoClose(fd) ==
    /\ interest' = interest \ {fd}
    /\ UNCHANGED sockVars

\* close_fd: EPOLL_CTL_DEL and close, whoever the number belongs to by now.
close_fd(fd) ==
    /\ Closes({fd})
    /\ interest' = interest \ {fd}

-----------------------------------------------------------------------------
(* epoll_loop                                                              *)

\* Level-triggered: every registered descriptor that is readable is reported.
Ready == {fd \in interest : Readable(fd)}
         \cup (IF is_running /\ backlog # {} THEN {ServerFd} ELSE {})

\* After stop() the listening socket reports EPOLLHUP without EPOLLIN: the
\* wait returns but nothing is accepted.
EpollWait ==
    /\ mpc = "wait"
    /\ Ready # {} \/ ~is_running
    /\ events' = Ready
    /\ Goto("scan")
    /\ UNCHANGED <<sockVars, is_running, poolVars, ret, interest>>

\* epoll_wait fails for another reason than a signal: break.
EpollFails ==
    /\ mpc = "wait"
    /\ Goto("dtor_stop")
    /\ UNCHANGED <<sockVars, is_running, poolVars, ret, interest, events>>

EndScan ==
    /\ mpc = "scan" /\ events = {}
    /\ Goto("loop")
    /\ UNCHANGED <<sockVars, is_running, poolVars, ret, interest, events>>

\* The order inside a batch is the kernel's.
Scans(fd, label) ==
    /\ mpc = "scan" /\ fd \in events
    /\ events' = events \ {fd}
    /\ Goto(label)
    /\ UNCHANGED <<is_running, ret>>

\* new_client: accept, and EPOLL_CTL_ADD under mtx.
new_client ==
    /\ \/ \E c \in backlog, fd \in FreeFds :
            /\ Scans(ServerFd, "unlock")
            /\ is_running /\ Accepts(c, fd, HeldFds \cup events)
            /\ interest' = interest \cup {fd}
       \/ /\ Scans(ServerFd, "scan")
          /\ AcceptFails \/ ~is_running
          /\ UNCHANGED <<sockVars, interest>>
    /\ UNCHANGED poolVars

\* client_communicate, data: submit the response.
Communicate(fd) ==
    /\ Scans(fd, "scan")
    /\ fdtab[fd] # None /\ Receives(fd)
    /\ Submit(fd, <<NextChunk(fd)>>)
    /\ UNCHANGED interest

\* client_communicate, msg_len <= 0: end of the stream, or a number that a
\* worker has closed since the batch was filled (EBADF).  close_fd is called
\* under mtx.
Disconnect(fd) ==
    /\ Scans(fd, "unlock")
    /\ fdtab[fd] # None => EndOfStream(fd)
    /\ close_fd(fd)
    /\ UNCHANGED poolVars

client_communicate == \E fd \in Fds : Communicate(fd) \/ Disconnect(fd)

\* ~TCPServer after stop(): only server_fd and epfd are closed here; the
\* client descriptors go with the process.
DtorClose ==
    /\ mpc = "dtor_close"
    /\ Goto("exit")
    /\ UNCHANGED <<sockVars, is_running, poolVars, ret, interest, events>>

-----------------------------------------------------------------------------
(* The callable: as in ServerPool, but a failed send closes the number.    *)

Send(w) ==
    /\ wpc[w] = "send"
    /\ \/ /\ Sends(doing[w].fd, doing[w].chunks)
          /\ wpc' = [wpc EXCEPT ![w] = "finish"]
       \/ /\ SendFails(doing[w].fd)
          /\ UNCHANGED sockVars
          /\ wpc' = [wpc EXCEPT ![w] = "close"]
    /\ UNCHANGED <<queue, doing, interest>>

\* Mutant: the number is closed after every send.
CloseFailed_Always(w) ==
    /\ wpc[w] \in {"close", "finish"} /\ ~MtxHeld
    /\ close_fd(doing[w].fd)
    /\ wpc' = [wpc EXCEPT ![w] = "finish"]
    /\ UNCHANGED <<queue, doing>>

\* The worker takes mtx, closes, and unlocks.
CloseFailed(w) ==
    /\ wpc[w] = "close" /\ ~MtxHeld
    /\ close_fd(doing[w].fd)
    /\ wpc' = [wpc EXCEPT ![w] = "finish"]
    /\ UNCHANGED <<queue, doing>>

Pool(w) ==
    /\ \/ (Take(w) \/ Test(w) \/ Finish(w)) /\ UNCHANGED interest
       \/ Send(w) \/ CloseFailed(w)
    /\ UNCHANGED <<is_running, mainVars, events>>

-----------------------------------------------------------------------------
Main ==
    \/ EpollWait \/ EndScan \/ new_client \/ client_communicate \/ DtorClose
    \/ /\ Unlock \/ Loop \/ HandlerReturns \/ DtorStop \/ DtorWait
       /\ UNCHANGED <<interest, events>>

Interrupt == Signal /\ UNCHANGED <<interest, events>>

Clients ==
    /\ \E c \in Conns : Client(c)
    /\ UNCHANGED <<is_running, poolVars, mainVars, interest, events>>

\* The process has exited, or its handler waits for ever.
Rest == (mpc = "exit" \/ HandlerHoldsMtx) /\ UNCHANGED vars

Next == Main \/ Interrupt \/ EpollFails \/ (\E w \in Workers : Pool(w)) \/ Clients \/ Rest

Spec == Init /\ [][Next]_vars

-----------------------------------------------------------------------------
(* Properties                                                              *)

TypeOK ==
    /\ ServerTypeOK
    /\ interest \subseteq Fds
    /\ events \subseteq Fds \cup {ServerFd}

\* Every open client descriptor is registered with epoll and nothing else is,
\* although two threads close descriptors.
Registered == interest = {fd \in Fds : fdtab[fd] # None}

\* The event loop never calls recv on a blocking descriptor with nothing to
\* read, unless the event is about a number that was given out again.
NeverBlocksOnOne ==
    mpc \in {"scan", "unlock"} /\ ~reused =>
      \A fd \in events \ {ServerFd} : fdtab[fd] # None => Readable(fd)
=============================================================================

---------------------------- MODULE EpollETServer ----------------------------
(***************************************************************************)
(* epollthread_tpet.cpp: the edge-triggered variant.  A descriptor is      *)
(* reported once per change, so client_communicate reads until recv fails  *)
(* and looks at errno to tell why, also after a recv that returned 0 and   *)
(* left errno as an earlier call had set it.                               *)
(***************************************************************************)
EXTENDS ServerPool

VARIABLES
    interest,    \* client descriptors registered with epfd
    edges,       \* those with a change that was not reported yet
    events,      \* the batch of events not yet looked at
    errno        \* of the main thread: "EAGAIN" or "other"

etVars == <<interest, edges, errno>>
serverVars == <<sockVars, is_running, poolVars, mainVars, etVars, events>>

ETInit ==
    /\ ServerInit
    /\ interest = {} /\ edges = {} /\ events = {}
    /\ errno = "other"

close_fd(fd) ==
    /\ Closes({fd})
    /\ interest' = interest \ {fd}
    /\ edges' = edges \ {fd}

-----------------------------------------------------------------------------
(* epoll_loop                                                              *)

\* A change is reported if the descriptor is still readable, and forgotten.
\* The listening socket is level-triggered.
EpollWait ==
    /\ mpc = "wait"
    /\ LET ready == {fd \in edges : Readable(fd)}
           listening == IF is_running /\ backlog # {} THEN {ServerFd} ELSE {}
       IN /\ ready \cup listening # {} \/ ~is_running
          /\ events' = ready \cup listening
    /\ edges' = {}
    /\ Goto("scan")
    /\ UNCHANGED <<sockVars, is_running, poolVars, ret, interest, errno>>

EpollFails ==
    /\ mpc = "wait"
    /\ Goto("dtor_stop")
    /\ UNCHANGED <<sockVars, is_running, poolVars, ret, etVars, events>>

EndScan ==
    /\ mpc = "scan" /\ events = {}
    /\ Goto("loop")
    /\ UNCHANGED <<sockVars, is_running, poolVars, ret, etVars, events>>

Scans(fd, label) ==
    /\ mpc = "scan" /\ fd \in events
    /\ events' = events \ {fd}
    /\ Goto(label)
    /\ UNCHANGED <<is_running, ret>>

\* new_client: EPOLL_CTL_ADD, under mtx, reports what is already there.  accept
\* does not wait for the mutex; that ADD does makes no difference to others, and
\* both are one step.
new_client ==
    /\ \/ \E c \in backlog, fd \in FreeFds :
            /\ Scans(ServerFd, "lock")
            /\ is_running /\ Accepts(c, fd, HeldFds \cup events)
            /\ interest' = interest \cup {fd}
            /\ edges' = edges \cup {fd}
            /\ UNCHANGED errno
       \/ /\ Scans(ServerFd, "scan")
          /\ AcceptFails \/ ~is_running
          /\ errno' = "other"
          /\ UNCHANGED <<sockVars, interest, edges>>
    /\ UNCHANGED poolVars

-----------------------------------------------------------------------------
(* client_communicate                                                      *)

\* The chunks the recv loop collects before recv returns 0 or -1.
Unreads(fd) ==
    IF fdtab[fd] = None THEN <<>>
    ELSE LET c == fdtab[fd] IN [i \in 1..(sent[c] - got[c]) |-> <<c, got[c] + i>>]

\* errno after the loop: a recv that returns 0 does not set it.
LastErrno(fd) ==
    CASE fdtab[fd] = None \/ peer[fdtab[fd]] = "reset" -> "other"
      [] peer[fdtab[fd]] = "hup" -> errno
      [] OTHER -> "EAGAIN"

\* The test that tells data from a disconnection.
HasMessage(fd) == Unreads(fd) # <<>> /\ LastErrno(fd) = "EAGAIN"

\* A worker holds mtx from send to the end of close_fd, if send fails.
MtxFree == \A w \in Workers : wpc[w] # "close"

\* The mutex of new_client.
Lock ==
    /\ mpc = "lock" /\ MtxFree
    /\ Goto("unlock")
    /\ UNCHANGED <<sockVars, is_running, poolVars, ret>>

\* Mutant: if instead of while.
Communicate_ReadsOnce(fd) ==
    /\ Scans(fd, "scan")
    /\ HasMessage(fd)
    /\ errno' = LastErrno(fd)
    /\ Receives(fd)
    /\ Submit(fd, <<NextChunk(fd)>>)
    /\ UNCHANGED <<interest, edges>>

Communicate(fd) ==
    /\ Scans(fd, "scan")
    /\ HasMessage(fd)
    /\ errno' = LastErrno(fd)
    /\ got' = [got EXCEPT ![fdtab[fd]] = sent[fdtab[fd]]]
    /\ Submit(fd, Unreads(fd))
    /\ UNCHANGED <<fdtab, backlog, peer, sent, out, reused, interest, edges>>

\* Mutant: the descriptor is forgotten but not closed.
Disconnect_Leaks(fd) ==
    /\ Scans(fd, "unlock")
    /\ ~HasMessage(fd) /\ MtxFree
    /\ errno' = LastErrno(fd)
    /\ interest' = interest \ {fd}
    /\ UNCHANGED <<sockVars, poolVars, edges>>

\* What was collected before a recv that failed is thrown away.  close_fd is
\* called under mtx.
Disconnect(fd) ==
    /\ Scans(fd, "unlock")
    /\ ~HasMessage(fd) /\ MtxFree
    /\ errno' = LastErrno(fd)
    /\ close_fd(fd)
    /\ UNCHANGED poolVars

client_communicate == \E fd \in Fds : Communicate(fd) \/ Disconnect(fd)

\* ~TCPServer closes server_fd and epfd only.
DtorClose ==
    /\ mpc = "dtor_close"
    /\ Goto("exit")
    /\ UNCHANGED <<sockVars, is_running, poolVars, ret, etVars, events>>

-----------------------------------------------------------------------------
(* The callable                                                            *)

Send(w) ==
    /\ wpc[w] = "send" /\ MtxFree /\ ~MtxHeld
    /\ \/ /\ Sends(doing[w].fd, doing[w].chunks)
          /\ wpc' = [wpc EXCEPT ![w] = "finish"]
       \/ /\ SendFails(doing[w].fd)
          /\ UNCHANGED sockVars
          /\ wpc' = [wpc EXCEPT ![w] = "close"]
    /\ UNCHANGED <<queue, doing, etVars>>

\* Mutant: the number is closed after every send.
CloseFailed_Always(w) ==
    /\ wpc[w] \in {"close", "finish"}
    /\ close_fd(doing[w].fd)
    /\ wpc' = [wpc EXCEPT ![w] = "finish"]
    /\ UNCHANGED <<queue, doing, errno>>

CloseFailed(w) ==
    /\ wpc[w] = "close"
    /\ close_fd(doing[w].fd)
    /\ wpc' = [wpc EXCEPT ![w] = "finish"]
    /\ UNCHANGED <<queue, doing, errno>>

Pool(w) ==
    /\ \/ (Take(w) \/ Test(w) \/ Finish(w)) /\ UNCHANGED etVars
       \/ Send(w) \/ CloseFailed(w)
    /\ UNCHANGED <<is_running, mainVars, events>>

-----------------------------------------------------------------------------
ETMain ==
    \/ EpollWait \/ EndScan \/ new_client \/ client_communicate \/ DtorClose
    \/ /\ Lock \/ Unlock \/ Loop \/ HandlerReturns \/ DtorStop \/ DtorWait
       /\ UNCHANGED <<etVars, events>>

Interrupt == Signal /\ UNCHANGED <<etVars, events>>

\* What a client sends, and its hanging up, is a change of its descriptor.
Clients ==
    /\ \E c \in Conns :
         /\ Client(c)
         /\ edges' = edges \cup {fd \in Fds : fdtab[fd] = c}
    /\ UNCHANGED <<is_running, poolVars, mainVars, interest, errno, events>>

\* The handler interrupted a critical section and waits for a worker that waits
\* for the mutex.
HandlerHangs ==
    mpc = "handler" /\ ret = "unlock" /\ \E w \in Workers : wpc[w] = "send"

\* The process has exited, or its handler waits for ever.
Rest == (mpc = "exit" \/ HandlerHangs) /\ UNCHANGED serverVars

ETNext == ETMain \/ Interrupt \/ EpollFails \/ (\E w \in Workers : Pool(w)) \/ Clients \/ Rest

ETSpec == ETInit /\ [][ETNext]_serverVars

-----------------------------------------------------------------------------
(* Properties                                                              *)

ETTypeOK ==
    /\ ServerTypeOK
    /\ interest \subseteq Fds /\ edges \subseteq Fds
    /\ events \subseteq Fds \cup {ServerFd}
    /\ errno \in {"EAGAIN", "other"}

\* Edge-triggered: nothing that can be read is left behind.  Every descriptor
\* with unread data is in the batch or will be reported by epoll_wait.
NoDataStranded ==
    mpc # "exit" =>
      \A fd \in Fds : fdtab[fd] # None /\ Unread(fdtab[fd]) => fd \in edges \cup events

\* The hang-up of a client that was fully answered is in the batch or will be
\* reported, so that its descriptor gets closed.  (Data and hang-up that are read
\* together may be taken for a living client: recv returns 0, errno is EAGAIN.)
NoHangUpStranded ==
    mpc # "exit" /\ ~reused =>
      \A fd \in Fds :
        /\ fdtab[fd] # None /\ Gone(fdtab[fd])
        /\ Len(out[fdtab[fd]]) = sent[fdtab[fd]]
        => fd \in edges \cup events
=============================================================================

----------------------------- MODULE EpollThread -----------------------------
(***************************************************************************)
(* epollthread.cpp: level-triggered epoll in the main thread and a         *)
(* detached thread for every event.  Until the first of them has received, *)
(* every epoll_wait reports the descriptor again.                          *)
(***************************************************************************)
EXTENDS EventServer

init == Initializes(FALSE)

\* EPOLL_CTL_ADD fails for a number that a late thread has closed again; the
\* close that follows has nothing to close then.
new_client ==
    \/ AcceptsOne
    \/ /\ Registers
       /\ watched' = IF fdtab[pending] = None THEN watched ELSE watched \cup {pending}
       /\ UNCHANGED <<sockVars, batch, client_fds, max_fd>>

Forgets(fd) ==
    /\ watched' = watched \ {fd}
    /\ UNCHANGED <<batch, client_fds, max_fd>>

client_communicate(s) ==
    \/ ~is_running /\ HangsUp(s, "start") /\ Forgets(s[1])
    \/ is_running /\ CallsRecv(s)
    \/ RecvReturns(s)
    \/ SendSucceeds(s) /\ Done(s)
    \/ SendReturnsError(s) /\ IF is_running THEN To(s, "close") ELSE Done(s)
    \/ KilledBySend(s)
    \/ HangsUp(s, "close") /\ Forgets(s[1])

EpollReturns == LET fds == Ready(watched) IN fds # {} /\ WaitReturns(fds)

epoll_loop ==
    \/ Loops({})
    \/ EpollReturns
    \/ new_client
    \/ \E fd \in Fds : Starts(fd)

stop == Stops

Main == init \/ epoll_loop \/ Destroys
Thread(s) == client_communicate(s)
Others == stop
=============================================================================

----------------------------- MODULE EpollSingle -----------------------------
(***************************************************************************)
(* epollserver.cpp: one thread, level-triggered epoll, no set of clients   *)
(* of its own.  SIGPIPE is ignored; a client whose response cannot be sent *)
(* is closed.                                                              *)
(***************************************************************************)
EXTENDS EventServer

init == Initializes(FALSE)

\* EPOLL_CTL_ADD fails for a number that is not open.
AcceptClient ==
    \/ AcceptsOne
    \/ /\ Registers
       /\ watched' = IF fdtab[pending] = None THEN watched ELSE watched \cup {pending}
       /\ UNCHANGED <<sockVars, batch, client_fds, max_fd>>

\* Mutant: a client is answered once and closed.
HandleClient_AnswersOnce(s) ==
    \/ CallsRecv(s) \/ RecvReturns(s)
    \/ (SendSucceeds(s) \/ SendReturnsError(s)) /\ To(s, "close")
    \/ /\ HangsUp(s, "close")
       /\ watched' = watched \ {s[1]}
       /\ UNCHANGED <<batch, client_fds, max_fd>>

\* Mutant: it receives until the client has gone, as a thread of its own may.
HandleClient_Again(s) ==
    \/ CallsRecv(s) \/ RecvReturns(s)
    \/ SendSucceeds(s) /\ To(s, "start")
    \/ SendReturnsError(s) /\ To(s, "close")
    \/ /\ HangsUp(s, "close")
       /\ watched' = watched \ {s[1]}
       /\ UNCHANGED <<batch, client_fds, max_fd>>

HandleClient(s) ==
    \/ CallsRecv(s) \/ RecvReturns(s)
    \/ SendSucceeds(s) /\ Done(s)
    \/ SendReturnsError(s) /\ To(s, "close")
    \/ /\ HangsUp(s, "close")
       /\ watched' = watched \ {s[1]}
       /\ UNCHANGED <<batch, client_fds, max_fd>>

EpollReturns == LET fds == Ready(watched) IN fds # {} /\ WaitReturns(fds)

\* The events come in any order.
epoll_loop ==
    \/ Busy = {} /\ Loops({})
    \/ EpollReturns
    \/ Busy = {} /\ AcceptClient
    \/ Busy = {} /\ \E fd \in Fds : Starts(fd)

stop == Stops

\* The destructor closes the listening socket and epfd; the clients' end with
\* the process.
Main == init \/ epoll_loop \/ Destroys \/ \E s \in Slots : HandleClient(s)
Others == stop
=============================================================================

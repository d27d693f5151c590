---------------------------- MODULE ClientThread ----------------------------
(***************************************************************************)
(* TCP_MultiThreadServer.cpp: a detached thread for every client, which    *)
(* receives and answers until either fails.  The only program of this      *)
(* family in which a number belongs to one thread from accept to close.    *)
(* Multithreadserverretype.cpp is a copy.                                  *)
(***************************************************************************)
EXTENDS EventServer

\* error() calls exit().
init == Initializes(FALSE)

\* Mutant: a client that has gone is not closed.
client_communicate_Leaks(s) ==
    \/ CallsRecv(s) \/ RecvReturns(s)
    \/ SendSucceeds(s) /\ To(s, "start")
    \/ SendReturnsError(s) /\ To(s, "close")
    \/ KilledBySend(s)
    \/ At(s, "close") /\ Done(s) /\ UNCHANGED <<sockVars, is_running, mainVars, books, share>>

client_communicate(s) ==
    \/ CallsRecv(s) \/ RecvReturns(s)
    \/ SendSucceeds(s) /\ To(s, "start")
    \/ SendReturnsError(s) /\ To(s, "close")
    \/ KilledBySend(s)
    \/ HangsUp(s, "close") /\ UNCHANGED <<batch, books>>

\* accept blocks until somebody is there; when it fails the loop goes on.
accept_clients_loop ==
    \/ /\ mpc = "scan" /\ Goto("accept")
       /\ UNCHANGED <<sockVars, is_running, view, batch, pending, books, share, thr>>
    \/ /\ mpc = "accept"
       /\ \E c \in backlog, fd \in FreeFds \cap Available :
            /\ Accepts(c, fd, HeldFds)
            /\ thr' = [thr EXCEPT ![<<fd, 1>>].pc = "start"]
       /\ Goto("scan")
       /\ UNCHANGED <<is_running, view, batch, pending, books, share>>

Main == init \/ accept_clients_loop
Thread(s) == client_communicate(s)
=============================================================================

---------------------------- MODULE SelectThread ----------------------------
(***************************************************************************)
(* selectthread.cpp: select in the main thread and a detached thread for   *)
(* every descriptor it reports, every time it reports it.  stretype.cpp is *)
(* a copy.                                                                 *)
(***************************************************************************)
EXTENDS EventServer

init == Initializes(TRUE)

\* accept, and then under mtx the registration.
new_client ==
    \/ AcceptsOne
    \/ /\ Registers
       /\ watched' = watched \cup {pending} /\ client_fds' = client_fds \cup {pending}
       /\ max_fd' = Max({ServerFd} \cup client_fds')
       /\ UNCHANGED <<sockVars, batch>>

Forgets(fd) ==
    /\ watched' = watched \ {fd} /\ client_fds' = client_fds \ {fd}
    /\ UNCHANGED batch

client_communicate(s) ==
    \/ ~is_running /\ HangsUp(s, "start") /\ Forgets(s[1]) /\ UNCHANGED max_fd
    \/ is_running /\ CallsRecv(s)
    \/ RecvReturns(s)
    \/ (SendSucceeds(s) \/ SendReturnsError(s)) /\ Done(s)
    \/ KilledBySend(s)
    \/ HangsUp(s, "close") /\ Forgets(s[1]) /\ max_fd' = Max({ServerFd} \cup client_fds')

\* A descriptor of the copied set that a thread has closed makes select fail
\* with EBADF; the loop goes on.
Stale == \E fd \in view : fd # ServerFd /\ fdtab[fd] = None

SelectReturns ==
    \/ ~Stale /\ LET fds == Ready(view) IN fds # {} /\ WaitReturns(fds)
    \/ Stale /\ WaitFails(IF is_running THEN "scan" ELSE "dtor")

select_loop ==
    \/ Loops({fd \in watched : fd <= max_fd})
    \/ SelectReturns
    \/ new_client
    \/ batch # {} /\ Min(batch) # ServerFd /\ Starts(Min(batch))

stop == Stops

Main == init \/ select_loop \/ Destroys
Thread(s) == client_communicate(s)
Others == stop
=============================================================================

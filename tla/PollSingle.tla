----------------------------- MODULE PollSingle -----------------------------
(***************************************************************************)
(* pollserver.cpp: one thread, a vector of pollfd indexed by descriptor.   *)
(* watched are the entries whose fd is not -1; batch those whose revents   *)
(* has POLLIN, so that writing an entry takes it out of the batch.         *)
(***************************************************************************)
EXTENDS EventServer

init == Initializes(TRUE)

new_client ==
    \/ AcceptsOne
    \/ /\ Registers
       /\ watched' = watched \cup {pending} /\ client_fds' = client_fds \cup {pending}
       /\ max_fd' = Max({ServerFd} \cup client_fds')
       /\ batch' = batch \ {pending}
       /\ UNCHANGED sockVars

Forgets(fd) ==
    /\ watched' = watched \ {fd} /\ batch' = batch \ {fd}
    /\ client_fds' = client_fds \ {fd}

client_communicate(s) ==
    \/ ~is_running /\ HangsUp(s, "start") /\ Forgets(s[1]) /\ UNCHANGED max_fd
    \/ is_running /\ CallsRecv(s)
    \/ RecvReturns(s)
    \/ (SendSucceeds(s) \/ SendReturnsError(s)) /\ Done(s)
    \/ KilledBySend(s)
    \/ HangsUp(s, "close") /\ Forgets(s[1]) /\ max_fd' = Max({ServerFd} \cup client_fds')

PollReturns ==
    LET fds == Ready({fd \in watched : fd \in view}) IN fds # {} /\ WaitReturns(fds)

poll_loop ==
    \/ Busy = {} /\ Loops(ServerFd..max_fd)
    \/ PollReturns
    \/ Busy = {} /\ new_client
    \/ Busy = {} /\ batch # {} /\ Min(batch) # ServerFd /\ Starts(Min(batch))

stop == Stops

Main == init \/ poll_loop \/ Destroys \/ \E s \in Slots : client_communicate(s)
Others == stop
=============================================================================

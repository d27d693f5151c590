----------------------------- MODULE PollThread -----------------------------
(***************************************************************************)
(* pollthread.cpp: poll in the main thread and a detached thread for every *)
(* entry it reports.  The threads write the entries of fds under mtx while *)
(* the main thread passes the vector to poll, and scans it, without.       *)
(* watched and batch are the entries' fd and revents as in PollSingle.     *)
(***************************************************************************)
EXTENDS EventServer

init == Initializes(TRUE)

new_client ==
    \/ AcceptsOne
    \/ /\ Registers
       /\ watched' = watched \cup {pending} /\ client_fds' = client_fds \cup {pending}
       /\ max_fd' = Max({ServerFd} \cup client_fds')
       /\ batch' = batch \ {pending}
       /\ UNCHANGED sockVars

\* Mutant: the entry of a closed descriptor stays.
Forgets_KeepsEntry(fd) ==
    client_fds' = client_fds \ {fd} /\ UNCHANGED <<watched, batch>>

Forgets(fd) ==
    /\ watched' = watched \ {fd} /\ batch' = batch \ {fd}
    /\ client_fds' = client_fds \ {fd}

client_communicate(s) ==
    \/ ~is_running /\ HangsUp(s, "start") /\ Forgets(s[1]) /\ UNCHANGED max_fd
    \/ is_running /\ CallsRecv(s)
    \/ RecvReturns(s)
    \/ (SendSucceeds(s) \/ SendReturnsError(s)) /\ Done(s)
    \/ KilledBySend(s)
    \/ HangsUp(s, "close") /\ Forgets(s[1]) /\ max_fd' = Max({ServerFd} \cup client_fds')

\* An entry whose descriptor is closed makes poll return at once (POLLNVAL);
\* it has no POLLIN and is passed over.
PollReturns ==
    LET entries == {fd \in watched : fd \in view}
        invalid == {fd \in entries : fd # ServerFd /\ fdtab[fd] = None} IN
      /\ Ready(entries) \cup invalid # {}
      /\ WaitReturns(Ready(entries))

poll_loop ==
    \/ Loops(ServerFd..max_fd)
    \/ PollReturns
    \/ new_client
    \/ batch # {} /\ Min(batch) # ServerFd /\ Starts(Min(batch))

stop == Stops

Main == init \/ poll_loop \/ Destroys
Thread(s) == client_communicate(s)
Others == stop
=============================================================================

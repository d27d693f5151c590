---------------------------- MODULE SelectSingle ----------------------------
(***************************************************************************)
(* select.cpp: one thread, a fd_set, blocking recv and send.  There is no  *)
(* handler for SIGINT and none for SIGPIPE.  selectretype.cpp is a copy.   *)
(***************************************************************************)
EXTENDS EventServer

init == Initializes(TRUE)

\* Mutant: the first argument of select is max_fd instead of max_fd + 1.
SelectReturns_NfdsOffByOne ==
    LET fds == Ready({fd \in view : fd < max_fd}) IN fds # {} /\ WaitReturns(fds)

SelectReturns == LET fds == Ready(view) IN fds # {} /\ WaitReturns(fds)

\* select fails: error() closes the clients and throws, so "continue" is
\* never reached, and main does not catch.
error ==
    /\ mpc = "wait"
    /\ Ends("exit")
    /\ UNCHANGED is_running

\* Mutant: max_fd is the first argument of select, which is one more.
AcceptClient_StoresNfds ==
    \/ AcceptsOne
    \/ /\ Registers
       /\ watched' = watched \cup {pending} /\ client_fds' = client_fds \cup {pending}
       /\ max_fd' = Max({ServerFd} \cup client_fds') + 1
       /\ UNCHANGED <<sockVars, batch>>

\* A new client is registered in the same pass of the loop.
AcceptClient ==
    \/ AcceptsOne
    \/ /\ Registers
       /\ watched' = watched \cup {pending} /\ client_fds' = client_fds \cup {pending}
       /\ max_fd' = Max({ServerFd} \cup client_fds')
       /\ UNCHANGED <<sockVars, batch>>

HandleClient(s) ==
    \/ CallsRecv(s) \/ RecvReturns(s)
    \/ (SendSucceeds(s) \/ SendReturnsError(s)) /\ Done(s)
    \/ KilledBySend(s)
    \/ /\ HangsUp(s, "close")
       /\ watched' = watched \ {s[1]} /\ client_fds' = client_fds \ {s[1]}
       /\ max_fd' = Max({ServerFd} \cup client_fds')
       /\ UNCHANGED batch

\* The scan goes through the numbers upwards and does one thing at a time.
run_select_loop ==
    \/ Busy = {} /\ Loops({fd \in watched : fd <= max_fd})
    \/ SelectReturns
    \/ Busy = {} /\ AcceptClient
    \/ Busy = {} /\ batch # {} /\ Min(batch) # ServerFd /\ Starts(Min(batch))

Main == init \/ run_select_loop \/ \E s \in Slots : HandleClient(s)
Others == error
=============================================================================

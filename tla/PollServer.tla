----------------------------- MODULE PollServer -----------------------------
(***************************************************************************)
(* pollthread_tp.cpp.  A descriptor whose connection was reset is reported *)
(* with POLLIN and POLLHUP together: the loop first reads it, which closes *)
(* it, and then handles the error, which closes the same number again.     *)
(* stop() returns at once when the server is already stopped, so the call  *)
(* in ~TCPServer does not wait for callables submitted after the signal.   *)
(***************************************************************************)
EXTENDS ServerPool

VARIABLES
    fds,          \* the vector of pollfd: numbers, in the order they were added
    client_fds,
    batch,        \* the entries of fds_copy with events not yet looked at
    hot           \* the entry whose POLLIN was handled, POLLHUP still to come

loopVars == <<fds, client_fds, batch, hot>>
vars == <<sockVars, is_running, poolVars, mainVars, loopVars>>

Init ==
    /\ ServerInit
    /\ fds = <<ServerFd>>
    /\ client_fds = {}
    /\ batch = <<>>
    /\ hot = None

Places(fd) == {i \in DOMAIN fds : fds[i] = fd}

\* close(fd), and both records of the server forget the number.
Forget(fd) ==
    /\ IF fd = ServerFd THEN UNCHANGED sockVars ELSE Closes({fd})
    /\ fds' = IF Places(fd) = {} THEN fds ELSE RemoveAt(fds, Min(Places(fd)))
    /\ client_fds' = client_fds \ {fd}

-----------------------------------------------------------------------------
(* poll_loop                                                               *)

\* POLLIN, and POLLHUP for a connection that was reset; stop() makes the
\* listening socket report both.
In(fd) == IF fd = ServerFd THEN backlog # {} \/ ~is_running ELSE Readable(fd)
Hup(fd) == IF fd = ServerFd THEN ~is_running
           ELSE fdtab[fd] # None /\ peer[fdtab[fd]] = "reset"
Entry(fd) == [fd |-> fd, hup |-> Hup(fd)]

Poll ==
    /\ mpc = "wait"
    /\ LET ready == {i \in DOMAIN fds : In(fds[i])}
       IN ready # {} /\ batch' = [i \in ready |-> Entry(fds[i])]
    /\ Goto("scan")
    /\ UNCHANGED <<sockVars, is_running, poolVars, ret, fds, client_fds, hot>>

\* One second without an event, or a failed poll: continue.
PollTimeout ==
    /\ mpc = "wait"
    /\ Goto("loop")
    /\ UNCHANGED <<sockVars, is_running, poolVars, ret, loopVars>>

EndScan ==
    /\ mpc = "scan" /\ hot = None /\ DOMAIN batch = {}
    /\ Goto("loop")
    /\ UNCHANGED <<sockVars, is_running, poolVars, ret, loopVars>>

\* The entries are looked at in the order of the vector.
IsNext(i) == \A j \in DOMAIN batch : i <= j

\* Take the next entry; its error branch, if it has one, comes afterwards.
Scans(fd) ==
    /\ mpc = "scan" /\ hot = None
    /\ \E i \in DOMAIN batch :
         /\ IsNext(i) /\ fd = batch[i].fd
         /\ batch' = [j \in DOMAIN batch \ {i} |-> batch[j]]
         /\ hot' = IF batch[i].hup THEN fd ELSE None
    /\ UNCHANGED <<is_running, mainVars>>

new_client ==
    /\ Scans(ServerFd)
    /\ \/ \E c \in backlog, fd \in FreeFds :
            /\ is_running /\ Accepts(c, fd, HeldFds)
            /\ fds' = Append(fds, fd)
            /\ client_fds' = client_fds \cup {fd}
       \/ /\ AcceptFails \/ ~is_running
          /\ UNCHANGED <<sockVars, fds, client_fds>>
    /\ UNCHANGED poolVars

\* client_communicate, len > 0.
Communicate(fd) ==
    /\ Scans(fd)
    /\ Receives(fd)
    /\ Submit(fd, <<NextChunk(fd)>>)
    /\ UNCHANGED <<fds, client_fds>>

\* client_communicate, len <= 0.
Disconnect(fd) ==
    /\ Scans(fd)
    /\ EndOfStream(fd)
    /\ Forget(fd)
    /\ UNCHANGED poolVars

client_communicate == \E fd \in Fds : Communicate(fd) \/ Disconnect(fd)

\* revents & (POLLERR | POLLHUP | POLLNVAL): also for the listening socket,
\* and also for a number that was closed a moment ago.
HandleError ==
    /\ mpc = "scan" /\ hot # None
    /\ Forget(hot)
    /\ hot' = None
    /\ UNCHANGED <<is_running, poolVars, mainVars, batch>>

-----------------------------------------------------------------------------
(* Shutdown                                                                *)

\* stop() in ~TCPServer: if(!is_running) return;
DtorStopAgain ==
    /\ mpc = "dtor_stop" /\ ~is_running
    /\ Goto("dtor_close")
    /\ UNCHANGED <<sockVars, is_running, poolVars, ret, loopVars>>

DtorClose ==
    /\ mpc = "dtor_close"
    /\ Closes(client_fds)
    /\ client_fds' = {} /\ fds' = <<>>
    /\ Goto("exit")
    /\ UNCHANGED <<is_running, poolVars, ret, batch, hot>>

Main ==
    \/ Poll \/ EndScan \/ new_client \/ client_communicate \/ HandleError
    \/ DtorStopAgain \/ DtorClose
    \/ (Loop \/ HandlerReturns) /\ UNCHANGED loopVars

Interrupt == Signal /\ UNCHANGED loopVars

Pool(w) == Worker(w) /\ UNCHANGED loopVars

Clients ==
    /\ \E c \in Conns : Client(c)
    /\ UNCHANGED <<is_running, poolVars, mainVars, loopVars>>

\* The process has exited.
Rest == mpc = "exit" /\ UNCHANGED vars

Next == Main \/ Interrupt \/ PollTimeout \/ (\E w \in Workers : Pool(w)) \/ Clients \/ Rest

Spec == Init /\ [][Next]_vars

-----------------------------------------------------------------------------
(* Properties                                                              *)

TypeOK ==
    /\ ServerTypeOK
    /\ fds \in Seq(Fds \cup {ServerFd})
    /\ client_fds \subseteq Fds
    /\ batch \in [DOMAIN batch -> [fd : Fds \cup {ServerFd}, hup : BOOLEAN]]
    /\ DOMAIN batch \subseteq Nat
    /\ hot \in Fds \cup {ServerFd, None}

\* The vector, the set and the kernel agree on the open descriptors, and the
\* vector names none twice.
Bookkeeping ==
    mpc # "exit" =>
      /\ client_fds = {fd \in Fds : fdtab[fd] # None}
      /\ ToSet(fds) \ {ServerFd} = client_fds
      /\ IsInjective(fds)

\* accept and recv return at once, whatever happened earlier in the batch.
NeverBlocksOnOne ==
    mpc = "scan" /\ hot = None => \A i \in DOMAIN batch : IsNext(i) => In(batch[i].fd)

\* The second stop() does not wait, so callables may still be queued when the
\* descriptors are closed; but none of them is past the test of is_running.
NoSendAfterClose ==
    mpc \in {"dtor_close", "exit"} => \A w \in Workers : wpc[w] # "send"
=============================================================================

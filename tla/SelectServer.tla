---------------------------- MODULE SelectServer ----------------------------
(***************************************************************************)
(* selectthread_tp.cpp: one thread runs select, accept and recv; every     *)
(* received chunk becomes a pool task that sends the response to the       *)
(* descriptor NUMBER it was captured with.                                 *)
(***************************************************************************)
EXTENDS ServerPool, Integers

VARIABLES
    read_fds,      \* the fd_set of everything watched
    max_fd,
    client_fds,
    tmp            \* ready descriptors of this round not yet looked at

fdVars == <<read_fds, max_fd, client_fds>>
vars == <<sockVars, is_running, poolVars, mainVars, fdVars, tmp>>

Init ==
    /\ ServerInit
    /\ read_fds = {ServerFd}
    /\ max_fd = ServerFd
    /\ client_fds = {}
    /\ tmp = {}

-----------------------------------------------------------------------------
(* select_loop                                                             *)

\* Mutant: the first argument of select is max_fd instead of max_fd + 1.
Ready_NfdsOffByOne ==
    {fd \in read_fds : fd < max_fd
                       /\ IF fd = ServerFd THEN backlog # {} \/ ~is_running
                                           ELSE Readable(fd)}

\* The descriptors of the copied fd_set, up to max_fd, that are ready; the
\* listening one also when stop() has shut it down.
Ready ==
    {fd \in read_fds : fd <= max_fd
                       /\ IF fd = ServerFd THEN backlog # {} \/ ~is_running
                                           ELSE Readable(fd)}

Select ==
    /\ mpc = "wait"
    /\ Ready # {}
    /\ tmp' = Ready
    /\ Goto("scan")
    /\ UNCHANGED <<sockVars, is_running, poolVars, ret, fdVars>>

\* select fails for another reason than a signal: break.
SelectFails ==
    /\ mpc = "wait"
    /\ Goto("dtor_stop")
    /\ UNCHANGED <<sockVars, is_running, poolVars, ret, fdVars, tmp>>

EndScan ==
    /\ mpc = "scan" /\ tmp = {}
    /\ Goto("loop")
    /\ UNCHANGED <<sockVars, is_running, poolVars, ret, fdVars, tmp>>

\* The scan goes through the numbers upwards.
Scanned == Min(tmp)

Scans(fd) ==
    /\ mpc = "scan" /\ tmp # {}
    /\ fd = Scanned
    /\ tmp' = tmp \ {fd}
    /\ UNCHANGED <<is_running, mainVars>>

\* Mutant: the result of accept is not checked.
accept_client_Unchecked ==
    /\ Scans(ServerFd)
    /\ \/ \E c \in backlog, fd \in FreeFds :
            /\ is_running /\ Accepts(c, fd, HeldFds)
            /\ read_fds' = read_fds \cup {fd}
            /\ client_fds' = client_fds \cup {fd}
            /\ max_fd' = Max({max_fd, fd})
       \/ /\ AcceptFails \/ ~is_running
          /\ read_fds' = read_fds \cup {-1}
          /\ client_fds' = client_fds \cup {-1}
          /\ UNCHANGED <<sockVars, max_fd>>
    /\ UNCHANGED poolVars

\* accept_client; once stop() has shut the listening socket down accept fails.
accept_client ==
    /\ Scans(ServerFd)
    /\ \/ \E c \in backlog, fd \in FreeFds :
            /\ is_running /\ Accepts(c, fd, HeldFds)
            /\ read_fds' = read_fds \cup {fd}
            /\ client_fds' = client_fds \cup {fd}
            /\ max_fd' = Max({max_fd, fd})
       \/ /\ AcceptFails \/ ~is_running
          /\ UNCHANGED <<sockVars, fdVars>>
    /\ UNCHANGED poolVars

\* Mutant: reads the same descriptor again in the same round.
HandleData_Again(fd) ==
    /\ mpc = "scan" /\ tmp # {} /\ fd = Scanned
    /\ Receives(fd)
    /\ Submit(fd, <<NextChunk(fd)>>)
    /\ UNCHANGED <<is_running, mainVars, fdVars, tmp>>

\* handle_client_io, len > 0: hand the chunk and the number to the pool.
HandleData(fd) ==
    /\ Scans(fd)
    /\ Receives(fd)
    /\ Submit(fd, <<NextChunk(fd)>>)
    /\ UNCHANGED fdVars

\* Mutant: max_fd is left alone when a descriptor goes away.
HandleHangUp_KeepsMax(fd) ==
    /\ Scans(fd)
    /\ EndOfStream(fd)
    /\ Closes({fd})
    /\ read_fds' = read_fds \ {fd}
    /\ client_fds' = client_fds \ {fd}
    /\ UNCHANGED <<max_fd, poolVars>>

\* handle_client_io, len <= 0.  client_fds is ordered by std::greater: its
\* first element is the largest.
HandleHangUp(fd) ==
    /\ Scans(fd)
    /\ EndOfStream(fd)
    /\ Closes({fd})
    /\ read_fds' = read_fds \ {fd}
    /\ client_fds' = client_fds \ {fd}
    /\ max_fd' = Max({ServerFd} \cup client_fds')
    /\ UNCHANGED poolVars

handle_client_io == \E fd \in Fds : HandleData(fd) \/ HandleHangUp(fd)

\* ~TCPServer after stop(): every descriptor is closed.
DtorClose ==
    /\ mpc = "dtor_close"
    /\ Closes(client_fds)
    /\ client_fds' = {}
    /\ Goto("exit")
    /\ UNCHANGED <<is_running, poolVars, ret, read_fds, max_fd, tmp>>

-----------------------------------------------------------------------------
Main ==
    \/ Select \/ EndScan \/ accept_client \/ handle_client_io \/ DtorClose
    \/ (Loop \/ HandlerReturns \/ DtorStop \/ DtorWait) /\ UNCHANGED <<fdVars, tmp>>

Interrupt == Signal /\ UNCHANGED <<fdVars, tmp>>

Pool(w) == Worker(w) /\ UNCHANGED <<fdVars, tmp>>

Clients ==
    /\ \E c \in Conns : Client(c)
    /\ UNCHANGED <<is_running, poolVars, mainVars, fdVars, tmp>>

\* The process has exited.
Rest == mpc = "exit" /\ UNCHANGED vars

Next == Main \/ Interrupt \/ SelectFails \/ (\E w \in Workers : Pool(w)) \/ Clients \/ Rest

Spec == Init /\ [][Next]_vars

-----------------------------------------------------------------------------
(* Properties                                                              *)

TypeOK ==
    /\ ServerTypeOK
    /\ read_fds \subseteq Fds \cup {ServerFd}
    /\ max_fd \in Fds \cup {ServerFd}
    /\ client_fds \subseteq Fds
    /\ tmp \subseteq Fds \cup {ServerFd}

\* The three records of the clients agree with the kernel's: every open
\* descriptor is in client_fds and watched, nothing closed is, and max_fd is
\* the largest, so that select(max_fd + 1, ...) sees all of them.
Bookkeeping ==
    mpc # "exit" =>
      /\ client_fds = {fd \in Fds : fdtab[fd] # None}
      /\ read_fds = client_fds \cup {ServerFd}
      /\ max_fd = Max(read_fds)

\* accept and recv are only called when they return at once: the thread that
\* serves everybody is never blocked by one client.
NeverBlocksOnOne ==
    mpc = "scan" /\ tmp # {} =>
      IF Scanned = ServerFd THEN backlog # {} \/ ~is_running ELSE Readable(Scanned)
=============================================================================

----------------------------- MODULE ServersProof -----------------------------
(***************************************************************************)
(* Proofs about Servers: for any number of clients, descriptors and        *)
(* threads, the servers without a pool keep the books of what is open, a   *)
(* server that has one thread does not block on one client, and nobody who *)
(* is still there is hung up on.                                           *)
(*                                                                         *)
(* The seven programs differ in who takes a step and in which books it     *)
(* keeps.  The proofs first reduce every step of each of them to one of    *)
(* the kinds of step below (Step), and then go through the kinds.          *)
(***************************************************************************)
EXTENDS Servers, SocketsProof

-----------------------------------------------------------------------------
(* The inductive invariant                                                 *)

Numbers == Fds \cup {ServerFd}

\* The programs that keep a set of clients and the largest number, and those
\* that keep what is registered with epoll only.
SetPrograms == {"select", "pollserver", "selectthread", "pollthread"}
EpollPrograms == {"epollserver", "epollthread"}

\* A number waits for its registration exactly while the main thread is at it.
Phases ==
    /\ IF mpc = "register" THEN pending \in Fds ELSE pending = None
    /\ mpc = "init" => Busy = {} /\ client_fds = {} /\ \A fd \in Fds : fdtab[fd] = None

\* What a run of client_communicate holds.  As long as no number was given out
\* again that somebody still used, recv is for whoever is behind the number, and
\* who is about to be closed is gone or closed already.
Hands ==
    \A s \in Slots :
      /\ thr[s].pc = "recv" => thr[s].conn \in Conns
      /\ thr[s].pc = "send" => thr[s].chunk \in Chunks
      /\ ~reused =>
           /\ thr[s].pc = "recv" => fdtab[s[1]] \in {None, thr[s].conn}
           /\ thr[s].pc = "close" => fdtab[s[1]] = None \/ Gone(fdtab[s[1]])
           /\ thr[s].pc # "idle" /\ mpc = "register" => s[1] # pending

\* Bookkeeping, of each number by itself.
Books ==
    Running /\ ~reused /\ program # "multithread" =>
      /\ ServerFd \in watched
      /\ mpc = "register" => fdtab[pending] # None
      /\ \A fd \in Fds : fd \in watched <=> fdtab[fd] # None /\ fd # pending
      /\ program \in SetPrograms =>
           /\ client_fds = watched \ {ServerFd}
           /\ max_fd \in watched /\ \A fd \in watched : fd <= max_fd

\* A server that has one thread serves one client at a time, while it looks at a
\* batch; what was readable when the batch was filled is so until it is served.
Alone ==
    program \in SingleThreaded =>
      /\ \A s, r \in Busy : s = r
      /\ Busy # {} => mpc = "scan"
      /\ \A fd \in batch \ {ServerFd} : Readable(fd)
      /\ \A s \in Busy : s[1] \notin batch
      /\ \A s \in Busy : thr[s].pc = "start" => Readable(s[1])
      /\ \A s \in Busy : thr[s].pc = "recv" =>
           fdtab[s[1]] = thr[s].conn /\ (Unread(thr[s].conn) \/ Gone(thr[s].conn))

IInv == TypeOK /\ OneNumberEach /\ Phases /\ Hands /\ Books /\ Alone

-----------------------------------------------------------------------------
(* The kinds of step                                                       *)

\* In a server that has one thread it is not serving anybody.
Lone == program \in SingleThreaded => Busy = {}

Opens ==
    \E tracksMax \in BOOLEAN :
      Initializes(tracksMax) /\ (program \in SetPrograms => tracksMax)

Passes == Lone /\ \E fds \in SUBSET Numbers : Loops(fds)

Wakes ==
    \E fds \in SUBSET Numbers :
      WaitReturns(fds) /\ \A fd \in fds \ {ServerFd} : Readable(fd)

Fails == \E to \in {"scan", "dtor"} : WaitFails(to)

Meets == Lone /\ AcceptsOne

Adds ==
    /\ Lone /\ Registers
    /\ UNCHANGED sockVars /\ batch' \subseteq batch
    /\ program \in SetPrograms \cup EpollPrograms
    /\ watched' = IF program \in EpollPrograms /\ fdtab[pending] = None
                    THEN watched ELSE watched \cup {pending}
    /\ IF program \in SetPrograms
         THEN /\ client_fds' = client_fds \cup {pending}
              /\ max_fd' = Max({ServerFd} \cup client_fds')
         ELSE UNCHANGED <<client_fds, max_fd>>

Turns == Lone /\ \E fd \in Fds : Starts(fd)

Quits == is_running' \in {is_running, FALSE} /\ \E how \in {"exit", "killed"} : Ends(how)

\* accept in the program that gives every client a thread.
Hires ==
    /\ program = "multithread" /\ mpc = "accept"
    /\ \E c \in backlog, fd \in FreeFds \cap Available :
         /\ Accepts(c, fd, HeldFds)
         /\ thr' = [thr EXCEPT ![<<fd, 1>>].pc = "start"]
    /\ Goto("scan")
    /\ UNCHANGED <<is_running, view, batch, pending, books, share>>

Listens ==
    /\ program = "multithread" /\ mpc = "scan" /\ Goto("accept")
    /\ UNCHANGED <<sockVars, is_running, view, batch, pending, books, share, thr>>

Answers(s) ==
    \/ SendSucceeds(s) /\ (Done(s) \/ (program = "multithread" /\ To(s, "start")))
    \/ SendReturnsError(s) /\ (Done(s) \/ To(s, "close"))

Leaves(s) ==
    /\ \E label \in {"start", "close"} :
         HangsUp(s, label) /\ (label = "start" => ~is_running)
    /\ batch' \subseteq batch
    /\ IF program = "multithread" THEN UNCHANGED watched ELSE watched' = watched \ {s[1]}
    /\ IF program \in SetPrograms
         THEN /\ client_fds' = client_fds \ {s[1]}
              /\ max_fd' = Max({ServerFd} \cup client_fds') \/ (~is_running /\ UNCHANGED max_fd)
         ELSE UNCHANGED <<client_fds, max_fd>>

Serves(s) == CallsRecv(s) \/ RecvReturns(s) \/ Answers(s) \/ Leaves(s)

Step ==
    \/ Opens \/ Passes \/ Wakes \/ Fails \/ Meets \/ Adds \/ Turns \/ Quits
    \/ Hires \/ Listens \/ Stops
    \/ \E s \in Slots : Serves(s)

\* Whatever a wait is given, it is a set of numbers.
LEMMA LoopsPasses ==
  ASSUME Lone, NEW fds \in SUBSET Numbers, Loops(fds)
  PROVE  Passes
  BY DEF Passes

\* What is ready is waited for, and recv returns at once.
LEMMA ReadyReadable ==
  ASSUME NEW S \in SUBSET Numbers, WaitReturns(Ready(S))
  PROVE  Wakes
<1>1. Ready(S) \in SUBSET Numbers /\ \A fd \in Ready(S) \ {ServerFd} : Readable(fd)
  BY DEF Ready
<1> QED  BY <1>1 DEF Wakes

\* The smallest number of a batch is served, unless it is the listening one.
LEMMA StartsIsTurn ==
  ASSUME TypeOK, Lone, NEW fd, fd # ServerFd, Starts(fd)
  PROVE  Turns
  BY DEF Starts, Looks, TypeOK, Turns

-----------------------------------------------------------------------------
(* The servers are about the same sockets, main thread and threads.        *)

\* An operator of EventServer means the same in the instance of select.cpp.
LEMMA SelectSame ==
  /\ Select!Fds = Fds /\ Select!FreeFds = FreeFds /\ Select!Available = Available
  /\ Select!Slots = Slots /\ Select!Busy = Busy /\ Select!HeldFds = HeldFds
  /\ UNCHANGED Select!sockVars <=> UNCHANGED sockVars
  /\ \A fd : Select!Readable(fd) <=> Readable(fd)
  /\ \A S : Select!Min(S) = Min(S) /\ Select!Max(S) = Max(S)
  /\ \A b : Select!Initializes(b) => Initializes(b)
  /\ \A fds : Select!Loops(fds) => Loops(fds)
  /\ \A fds : Select!WaitReturns(fds) => WaitReturns(fds)
  /\ \A to : Select!WaitFails(to) => WaitFails(to)
  /\ \A fds : Select!Ready(fds) = Ready(fds)
  /\ \A c, fd, held : Select!Accepts(c, fd, held) <=> Accepts(c, fd, held)
  /\ Select!AcceptsOne => AcceptsOne
  /\ Select!Registers => Registers
  /\ \A fd : Select!Starts(fd) => Starts(fd)
  /\ \A how : Select!Ends(how) => Ends(how)
  /\ Select!Destroys => Destroys
  /\ Select!Stops => Stops
  /\ \A s : Select!CallsRecv(s) => CallsRecv(s)
  /\ \A s : Select!RecvReturns(s) => RecvReturns(s)
  /\ \A s : Select!SendSucceeds(s) => SendSucceeds(s)
  /\ \A s : Select!SendReturnsError(s) => SendReturnsError(s)
  /\ \A s : Select!Done(s) => Done(s)
  /\ \A s, l : Select!To(s, l) => To(s, l)
  /\ \A s, l : Select!HangsUp(s, l) => HangsUp(s, l)
  /\ \A s : Select!KilledBySend(s) => Ends("killed") /\ is_running' = is_running
<1>1. /\ Select!Fds = Fds /\ Select!FreeFds = FreeFds /\ Select!Available = Available
      /\ Select!Slots = Slots /\ Select!Busy = Busy /\ Select!HeldFds = HeldFds
  BY DEF Select!Fds, Fds, Select!FreeFds, FreeFds, Select!Available, Available,
         Select!Slots, Slots, Select!Busy, Busy, Select!HeldFds, HeldFds
<1>2. /\ UNCHANGED Select!sockVars <=> UNCHANGED sockVars
      /\ \A fd : Select!Readable(fd) <=> Readable(fd)
      /\ \A S : Select!Min(S) = Min(S) /\ Select!Max(S) = Max(S)
  BY DEF Select!sockVars, sockVars, Select!Readable, Readable, Select!Unread, Unread,
         Select!Gone, Gone, Select!Min, Min, Select!Max, Max
<1>3. /\ \A b : Select!Initializes(b) => Initializes(b)
      /\ \A fds : Select!Loops(fds) => Loops(fds)
  BY DEF Select!Initializes, Initializes, Select!Loops, Loops, Select!sockVars, sockVars,
         Select!mainVars, mainVars, Select!books, books, Select!Goto, Goto
<1>4. /\ \A fds : Select!WaitReturns(fds) => WaitReturns(fds)
      /\ \A to : Select!WaitFails(to) => WaitFails(to)
  BY DEF Select!WaitReturns, WaitReturns, Select!WaitFails, WaitFails, Select!sockVars,
         sockVars, Select!mainVars, mainVars, Select!books, books, Select!Goto, Goto
<1>5. \A fds : Select!Ready(fds) = Ready(fds)
  BY DEF Select!Ready, Ready, Select!Readable, Readable, Select!Unread, Unread,
         Select!Gone, Gone
<1>6. \A c, fd, held : Select!Accepts(c, fd, held) <=> Accepts(c, fd, held)
  BY DEF Select!Accepts, Accepts, Select!FreeFds, FreeFds, Select!Fds, Fds, Select!Min,
         Min
<1>7. /\ Select!AcceptsOne => AcceptsOne
      /\ Select!Registers => Registers
  BY <1>1, <1>6 DEF Select!AcceptsOne, AcceptsOne, Select!Registers, Registers,
         Select!AcceptFails, AcceptFails, Select!Looks, Looks, Select!sockVars, sockVars,
         Select!mainVars, mainVars, Select!books, books, Select!Goto, Goto
<1>8. \A fd : Select!Starts(fd) => Starts(fd)
  BY <1>1 DEF Select!Starts, Starts, Select!Looks, Looks, Select!sockVars, sockVars,
         Select!mainVars, mainVars, Select!books, books, Select!Goto, Goto
<1>9. /\ \A how : Select!Ends(how) => Ends(how)
      /\ Select!Destroys => Destroys
      /\ Select!Stops => Stops
  BY <1>1 DEF Select!Ends, Ends, Select!Destroys, Destroys, Select!Stops, Stops,
         Select!Closes, Closes, Select!Fds, Fds, Select!Idle, Idle, Select!sockVars,
         sockVars, Select!mainVars, mainVars, Select!books, books, Select!Goto, Goto
<1>10. \A s : Select!CallsRecv(s) => CallsRecv(s)
  BY DEF Select!CallsRecv, CallsRecv, Select!At, At, Select!sockVars, sockVars,
         Select!mainVars, mainVars, Select!books, books, Select!Goto, Goto
<1>11. \A s : Select!RecvReturns(s) => RecvReturns(s)
  BY DEF Select!RecvReturns, RecvReturns, Select!At, At, Select!To, To, Select!Idle, Idle,
         Select!Unread, Unread, Select!Gone, Gone, Select!sockVars, sockVars,
         Select!mainVars, mainVars, Select!books, books, Select!Goto, Goto
<1>12. /\ \A s : Select!SendSucceeds(s) => SendSucceeds(s)
       /\ \A s : Select!SendReturnsError(s) => SendReturnsError(s)
  BY DEF Select!SendSucceeds, SendSucceeds, Select!SendReturnsError, SendReturnsError,
         Select!At, At, Select!sockVars, sockVars, Select!mainVars, mainVars,
         Select!books, books, Select!Goto, Goto
<1>13. /\ \A s : Select!Done(s) => Done(s)
       /\ \A s, l : Select!To(s, l) => To(s, l)
  BY DEF Select!Done, Done, Select!To, To, Select!Idle, Idle
<1>14. \A s, l : Select!HangsUp(s, l) => HangsUp(s, l)
  BY <1>13 DEF Select!HangsUp, HangsUp, Select!At, At, Select!Closes, Closes, Select!Fds,
         Fds, Select!Goto, Goto
<1>15. \A s : Select!KilledBySend(s) => Ends("killed") /\ is_running' = is_running
  BY <1>9 DEF Select!KilledBySend, KilledBySend
<1> QED  BY <1>1, <1>2, <1>3, <1>4, <1>5, <1>6, <1>7, <1>8, <1>9, <1>10, <1>11, <1>12,
            <1>13, <1>14, <1>15

\* An operator of EventServer means the same in the instance of pollserver.cpp.
LEMMA PollSame ==
  /\ Poll!Fds = Fds /\ Poll!FreeFds = FreeFds /\ Poll!Available = Available
  /\ Poll!Slots = Slots /\ Poll!Busy = Busy /\ Poll!HeldFds = HeldFds
  /\ UNCHANGED Poll!sockVars <=> UNCHANGED sockVars
  /\ \A fd : Poll!Readable(fd) <=> Readable(fd)
  /\ \A S : Poll!Min(S) = Min(S) /\ Poll!Max(S) = Max(S)
  /\ \A b : Poll!Initializes(b) => Initializes(b)
  /\ \A fds : Poll!Loops(fds) => Loops(fds)
  /\ \A fds : Poll!WaitReturns(fds) => WaitReturns(fds)
  /\ \A to : Poll!WaitFails(to) => WaitFails(to)
  /\ \A fds : Poll!Ready(fds) = Ready(fds)
  /\ \A c, fd, held : Poll!Accepts(c, fd, held) <=> Accepts(c, fd, held)
  /\ Poll!AcceptsOne => AcceptsOne
  /\ Poll!Registers => Registers
  /\ \A fd : Poll!Starts(fd) => Starts(fd)
  /\ \A how : Poll!Ends(how) => Ends(how)
  /\ Poll!Destroys => Destroys
  /\ Poll!Stops => Stops
  /\ \A s : Poll!CallsRecv(s) => CallsRecv(s)
  /\ \A s : Poll!RecvReturns(s) => RecvReturns(s)
  /\ \A s : Poll!SendSucceeds(s) => SendSucceeds(s)
  /\ \A s : Poll!SendReturnsError(s) => SendReturnsError(s)
  /\ \A s : Poll!Done(s) => Done(s)
  /\ \A s, l : Poll!To(s, l) => To(s, l)
  /\ \A s, l : Poll!HangsUp(s, l) => HangsUp(s, l)
  /\ \A s : Poll!KilledBySend(s) => Ends("killed") /\ is_running' = is_running
<1>1. /\ Poll!Fds = Fds /\ Poll!FreeFds = FreeFds /\ Poll!Available = Available
      /\ Poll!Slots = Slots /\ Poll!Busy = Busy /\ Poll!HeldFds = HeldFds
  BY DEF Poll!Fds, Fds, Poll!FreeFds, FreeFds, Poll!Available, Available, Poll!Slots,
         Slots, Poll!Busy, Busy, Poll!HeldFds, HeldFds
<1>2. /\ UNCHANGED Poll!sockVars <=> UNCHANGED sockVars
      /\ \A fd : Poll!Readable(fd) <=> Readable(fd)
      /\ \A S : Poll!Min(S) = Min(S) /\ Poll!Max(S) = Max(S)
  BY DEF Poll!sockVars, sockVars, Poll!Readable, Readable, Poll!Unread, Unread, Poll!Gone,
         Gone, Poll!Min, Min, Poll!Max, Max
<1>3. /\ \A b : Poll!Initializes(b) => Initializes(b)
      /\ \A fds : Poll!Loops(fds) => Loops(fds)
  BY DEF Poll!Initializes, Initializes, Poll!Loops, Loops, Poll!sockVars, sockVars,
         Poll!mainVars, mainVars, Poll!books, books, Poll!Goto, Goto
<1>4. /\ \A fds : Poll!WaitReturns(fds) => WaitReturns(fds)
      /\ \A to : Poll!WaitFails(to) => WaitFails(to)
  BY DEF Poll!WaitReturns, WaitReturns, Poll!WaitFails, WaitFails, Poll!sockVars,
         sockVars, Poll!mainVars, mainVars, Poll!books, books, Poll!Goto, Goto
<1>5. \A fds : Poll!Ready(fds) = Ready(fds)
  BY DEF Poll!Ready, Ready, Poll!Readable, Readable, Poll!Unread, Unread, Poll!Gone, Gone
<1>6. \A c, fd, held : Poll!Accepts(c, fd, held) <=> Accepts(c, fd, held)
  BY DEF Poll!Accepts, Accepts, Poll!FreeFds, FreeFds, Poll!Fds, Fds, Poll!Min, Min
<1>7. /\ Poll!AcceptsOne => AcceptsOne
      /\ Poll!Registers => Registers
  BY <1>1, <1>6 DEF Poll!AcceptsOne, AcceptsOne, Poll!Registers, Registers,
         Poll!AcceptFails, AcceptFails, Poll!Looks, Looks, Poll!sockVars, sockVars,
         Poll!mainVars, mainVars, Poll!books, books, Poll!Goto, Goto
<1>8. \A fd : Poll!Starts(fd) => Starts(fd)
  BY <1>1 DEF Poll!Starts, Starts, Poll!Looks, Looks, Poll!sockVars, sockVars,
         Poll!mainVars, mainVars, Poll!books, books, Poll!Goto, Goto
<1>9. /\ \A how : Poll!Ends(how) => Ends(how)
      /\ Poll!Destroys => Destroys
      /\ Poll!Stops => Stops
  BY <1>1 DEF Poll!Ends, Ends, Poll!Destroys, Destroys, Poll!Stops, Stops, Poll!Closes,
         Closes, Poll!Fds, Fds, Poll!Idle, Idle, Poll!sockVars, sockVars, Poll!mainVars,
         mainVars, Poll!books, books, Poll!Goto, Goto
<1>10. \A s : Poll!CallsRecv(s) => CallsRecv(s)
  BY DEF Poll!CallsRecv, CallsRecv, Poll!At, At, Poll!sockVars, sockVars, Poll!mainVars,
         mainVars, Poll!books, books, Poll!Goto, Goto
<1>11. \A s : Poll!RecvReturns(s) => RecvReturns(s)
  BY DEF Poll!RecvReturns, RecvReturns, Poll!At, At, Poll!To, To, Poll!Idle, Idle,
         Poll!Unread, Unread, Poll!Gone, Gone, Poll!sockVars, sockVars, Poll!mainVars,
         mainVars, Poll!books, books, Poll!Goto, Goto
<1>12. /\ \A s : Poll!SendSucceeds(s) => SendSucceeds(s)
       /\ \A s : Poll!SendReturnsError(s) => SendReturnsError(s)
  BY DEF Poll!SendSucceeds, SendSucceeds, Poll!SendReturnsError, SendReturnsError,
         Poll!At, At, Poll!sockVars, sockVars, Poll!mainVars, mainVars, Poll!books, books,
         Poll!Goto, Goto
<1>13. /\ \A s : Poll!Done(s) => Done(s)
       /\ \A s, l : Poll!To(s, l) => To(s, l)
  BY DEF Poll!Done, Done, Poll!To, To, Poll!Idle, Idle
<1>14. \A s, l : Poll!HangsUp(s, l) => HangsUp(s, l)
  BY <1>13 DEF Poll!HangsUp, HangsUp, Poll!At, At, Poll!Closes, Closes, Poll!Fds, Fds,
         Poll!Goto, Goto
<1>15. \A s : Poll!KilledBySend(s) => Ends("killed") /\ is_running' = is_running
  BY <1>9 DEF Poll!KilledBySend, KilledBySend
<1> QED  BY <1>1, <1>2, <1>3, <1>4, <1>5, <1>6, <1>7, <1>8, <1>9, <1>10, <1>11, <1>12,
            <1>13, <1>14, <1>15

\* An operator of EventServer means the same in the instance of epollserver.cpp.
LEMMA EpollSame ==
  /\ Epoll!Fds = Fds /\ Epoll!FreeFds = FreeFds /\ Epoll!Available = Available
  /\ Epoll!Slots = Slots /\ Epoll!Busy = Busy /\ Epoll!HeldFds = HeldFds
  /\ UNCHANGED Epoll!sockVars <=> UNCHANGED sockVars
  /\ \A fd : Epoll!Readable(fd) <=> Readable(fd)
  /\ \A S : Epoll!Min(S) = Min(S) /\ Epoll!Max(S) = Max(S)
  /\ \A b : Epoll!Initializes(b) => Initializes(b)
  /\ \A fds : Epoll!Loops(fds) => Loops(fds)
  /\ \A fds : Epoll!WaitReturns(fds) => WaitReturns(fds)
  /\ \A to : Epoll!WaitFails(to) => WaitFails(to)
  /\ \A fds : Epoll!Ready(fds) = Ready(fds)
  /\ \A c, fd, held : Epoll!Accepts(c, fd, held) <=> Accepts(c, fd, held)
  /\ Epoll!AcceptsOne => AcceptsOne
  /\ Epoll!Registers => Registers
  /\ \A fd : Epoll!Starts(fd) => Starts(fd)
  /\ \A how : Epoll!Ends(how) => Ends(how)
  /\ Epoll!Destroys => Destroys
  /\ Epoll!Stops => Stops
  /\ \A s : Epoll!CallsRecv(s) => CallsRecv(s)
  /\ \A s : Epoll!RecvReturns(s) => RecvReturns(s)
  /\ \A s : Epoll!SendSucceeds(s) => SendSucceeds(s)
  /\ \A s : Epoll!SendReturnsError(s) => SendReturnsError(s)
  /\ \A s : Epoll!Done(s) => Done(s)
  /\ \A s, l : Epoll!To(s, l) => To(s, l)
  /\ \A s, l : Epoll!HangsUp(s, l) => HangsUp(s, l)
  /\ \A s : Epoll!KilledBySend(s) => Ends("killed") /\ is_running' = is_running
<1>1. /\ Epoll!Fds = Fds /\ Epoll!FreeFds = FreeFds /\ Epoll!Available = Available
      /\ Epoll!Slots = Slots /\ Epoll!Busy = Busy /\ Epoll!HeldFds = HeldFds
  BY DEF Epoll!Fds, Fds, Epoll!FreeFds, FreeFds, Epoll!Available, Available, Epoll!Slots,
         Slots, Epoll!Busy, Busy, Epoll!HeldFds, HeldFds
<1>2. /\ UNCHANGED Epoll!sockVars <=> UNCHANGED sockVars
      /\ \A fd : Epoll!Readable(fd) <=> Readable(fd)
      /\ \A S : Epoll!Min(S) = Min(S) /\ Epoll!Max(S) = Max(S)
  BY DEF Epoll!sockVars, sockVars, Epoll!Readable, Readable, Epoll!Unread, Unread,
         Epoll!Gone, Gone, Epoll!Min, Min, Epoll!Max, Max
<1>3. /\ \A b : Epoll!Initializes(b) => Initializes(b)
      /\ \A fds : Epoll!Loops(fds) => Loops(fds)
  BY DEF Epoll!Initializes, Initializes, Epoll!Loops, Loops, Epoll!sockVars, sockVars,
         Epoll!mainVars, mainVars, Epoll!books, books, Epoll!Goto, Goto
<1>4. /\ \A fds : Epoll!WaitReturns(fds) => WaitReturns(fds)
      /\ \A to : Epoll!WaitFails(to) => WaitFails(to)
  BY DEF Epoll!WaitReturns, WaitReturns, Epoll!WaitFails, WaitFails, Epoll!sockVars,
         sockVars, Epoll!mainVars, mainVars, Epoll!books, books, Epoll!Goto, Goto
<1>5. \A fds : Epoll!Ready(fds) = Ready(fds)
  BY DEF Epoll!Ready, Ready, Epoll!Readable, Readable, Epoll!Unread, Unread, Epoll!Gone,
         Gone
<1>6. \A c, fd, held : Epoll!Accepts(c, fd, held) <=> Accepts(c, fd, held)
  BY DEF Epoll!Accepts, Accepts, Epoll!FreeFds, FreeFds, Epoll!Fds, Fds, Epoll!Min, Min
<1>7. /\ Epoll!AcceptsOne => AcceptsOne
      /\ Epoll!Registers => Registers
  BY <1>1, <1>6 DEF Epoll!AcceptsOne, AcceptsOne, Epoll!Registers, Registers,
         Epoll!AcceptFails, AcceptFails, Epoll!Looks, Looks, Epoll!sockVars, sockVars,
         Epoll!mainVars, mainVars, Epoll!books, books, Epoll!Goto, Goto
<1>8. \A fd : Epoll!Starts(fd) => Starts(fd)
  BY <1>1 DEF Epoll!Starts, Starts, Epoll!Looks, Looks, Epoll!sockVars, sockVars,
         Epoll!mainVars, mainVars, Epoll!books, books, Epoll!Goto, Goto
<1>9. /\ \A how : Epoll!Ends(how) => Ends(how)
      /\ Epoll!Destroys => Destroys
      /\ Epoll!Stops => Stops
  BY <1>1 DEF Epoll!Ends, Ends, Epoll!Destroys, Destroys, Epoll!Stops, Stops,
         Epoll!Closes, Closes, Epoll!Fds, Fds, Epoll!Idle, Idle, Epoll!sockVars, sockVars,
         Epoll!mainVars, mainVars, Epoll!books, books, Epoll!Goto, Goto
<1>10. \A s : Epoll!CallsRecv(s) => CallsRecv(s)
  BY DEF Epoll!CallsRecv, CallsRecv, Epoll!At, At, Epoll!sockVars, sockVars,
         Epoll!mainVars, mainVars, Epoll!books, books, Epoll!Goto, Goto
<1>11. \A s : Epoll!RecvReturns(s) => RecvReturns(s)
  BY DEF Epoll!RecvReturns, RecvReturns, Epoll!At, At, Epoll!To, To, Epoll!Idle, Idle,
         Epoll!Unread, Unread, Epoll!Gone, Gone, Epoll!sockVars, sockVars, Epoll!mainVars,
         mainVars, Epoll!books, books, Epoll!Goto, Goto
<1>12. /\ \A s : Epoll!SendSucceeds(s) => SendSucceeds(s)
       /\ \A s : Epoll!SendReturnsError(s) => SendReturnsError(s)
  BY DEF Epoll!SendSucceeds, SendSucceeds, Epoll!SendReturnsError, SendReturnsError,
         Epoll!At, At, Epoll!sockVars, sockVars, Epoll!mainVars, mainVars, Epoll!books,
         books, Epoll!Goto, Goto
<1>13. /\ \A s : Epoll!Done(s) => Done(s)
       /\ \A s, l : Epoll!To(s, l) => To(s, l)
  BY DEF Epoll!Done, Done, Epoll!To, To, Epoll!Idle, Idle
<1>14. \A s, l : Epoll!HangsUp(s, l) => HangsUp(s, l)
  BY <1>13 DEF Epoll!HangsUp, HangsUp, Epoll!At, At, Epoll!Closes, Closes, Epoll!Fds, Fds,
         Epoll!Goto, Goto
<1>15. \A s : Epoll!KilledBySend(s) => Ends("killed") /\ is_running' = is_running
  BY <1>9 DEF Epoll!KilledBySend, KilledBySend
<1> QED  BY <1>1, <1>2, <1>3, <1>4, <1>5, <1>6, <1>7, <1>8, <1>9, <1>10, <1>11, <1>12,
            <1>13, <1>14, <1>15

\* An operator of EventServer means the same in the instance of selectthread.cpp.
LEMMA SelectTSame ==
  /\ SelectT!Fds = Fds /\ SelectT!FreeFds = FreeFds /\ SelectT!Available = Available
  /\ SelectT!Slots = Slots /\ SelectT!Busy = Busy /\ SelectT!HeldFds = HeldFds
  /\ UNCHANGED SelectT!sockVars <=> UNCHANGED sockVars
  /\ \A fd : SelectT!Readable(fd) <=> Readable(fd)
  /\ \A S : SelectT!Min(S) = Min(S) /\ SelectT!Max(S) = Max(S)
  /\ \A b : SelectT!Initializes(b) => Initializes(b)
  /\ \A fds : SelectT!Loops(fds) => Loops(fds)
  /\ \A fds : SelectT!WaitReturns(fds) => WaitReturns(fds)
  /\ \A to : SelectT!WaitFails(to) => WaitFails(to)
  /\ \A fds : SelectT!Ready(fds) = Ready(fds)
  /\ \A c, fd, held : SelectT!Accepts(c, fd, held) <=> Accepts(c, fd, held)
  /\ SelectT!AcceptsOne => AcceptsOne
  /\ SelectT!Registers => Registers
  /\ \A fd : SelectT!Starts(fd) => Starts(fd)
  /\ \A how : SelectT!Ends(how) => Ends(how)
  /\ SelectT!Destroys => Destroys
  /\ SelectT!Stops => Stops
  /\ \A s : SelectT!CallsRecv(s) => CallsRecv(s)
  /\ \A s : SelectT!RecvReturns(s) => RecvReturns(s)
  /\ \A s : SelectT!SendSucceeds(s) => SendSucceeds(s)
  /\ \A s : SelectT!SendReturnsError(s) => SendReturnsError(s)
  /\ \A s : SelectT!Done(s) => Done(s)
  /\ \A s, l : SelectT!To(s, l) => To(s, l)
  /\ \A s, l : SelectT!HangsUp(s, l) => HangsUp(s, l)
  /\ \A s : SelectT!KilledBySend(s) => Ends("killed") /\ is_running' = is_running
<1>1. /\ SelectT!Fds = Fds /\ SelectT!FreeFds = FreeFds /\ SelectT!Available = Available
      /\ SelectT!Slots = Slots /\ SelectT!Busy = Busy /\ SelectT!HeldFds = HeldFds
  BY DEF SelectT!Fds, Fds, SelectT!FreeFds, FreeFds, SelectT!Available, Available,
         SelectT!Slots, Slots, SelectT!Busy, Busy, SelectT!HeldFds, HeldFds
<1>2. /\ UNCHANGED SelectT!sockVars <=> UNCHANGED sockVars
      /\ \A fd : SelectT!Readable(fd) <=> Readable(fd)
      /\ \A S : SelectT!Min(S) = Min(S) /\ SelectT!Max(S) = Max(S)
  BY DEF SelectT!sockVars, sockVars, SelectT!Readable, Readable, SelectT!Unread, Unread,
         SelectT!Gone, Gone, SelectT!Min, Min, SelectT!Max, Max
<1>3. /\ \A b : SelectT!Initializes(b) => Initializes(b)
      /\ \A fds : SelectT!Loops(fds) => Loops(fds)
  BY DEF SelectT!Initializes, Initializes, SelectT!Loops, Loops, SelectT!sockVars,
         sockVars, SelectT!mainVars, mainVars, SelectT!books, books, SelectT!Goto, Goto
<1>4. /\ \A fds : SelectT!WaitReturns(fds) => WaitReturns(fds)
      /\ \A to : SelectT!WaitFails(to) => WaitFails(to)
  BY DEF SelectT!WaitReturns, WaitReturns, SelectT!WaitFails, WaitFails, SelectT!sockVars,
         sockVars, SelectT!mainVars, mainVars, SelectT!books, books, SelectT!Goto, Goto
<1>5. \A fds : SelectT!Ready(fds) = Ready(fds)
  BY DEF SelectT!Ready, Ready, SelectT!Readable, Readable, SelectT!Unread, Unread,
         SelectT!Gone, Gone
<1>6. \A c, fd, held : SelectT!Accepts(c, fd, held) <=> Accepts(c, fd, held)
  BY DEF SelectT!Accepts, Accepts, SelectT!FreeFds, FreeFds, SelectT!Fds, Fds,
         SelectT!Min, Min
<1>7. /\ SelectT!AcceptsOne => AcceptsOne
      /\ SelectT!Registers => Registers
  BY <1>1, <1>6 DEF SelectT!AcceptsOne, AcceptsOne, SelectT!Registers, Registers,
         SelectT!AcceptFails, AcceptFails, SelectT!Looks, Looks, SelectT!sockVars,
         sockVars, SelectT!mainVars, mainVars, SelectT!books, books, SelectT!Goto, Goto
<1>8. \A fd : SelectT!Starts(fd) => Starts(fd)
  BY <1>1 DEF SelectT!Starts, Starts, SelectT!Looks, Looks, SelectT!sockVars, sockVars,
         SelectT!mainVars, mainVars, SelectT!books, books, SelectT!Goto, Goto
<1>9. /\ \A how : SelectT!Ends(how) => Ends(how)
      /\ SelectT!Destroys => Destroys
      /\ SelectT!Stops => Stops
  BY <1>1 DEF SelectT!Ends, Ends, SelectT!Destroys, Destroys, SelectT!Stops, Stops,
         SelectT!Closes, Closes, SelectT!Fds, Fds, SelectT!Idle, Idle, SelectT!sockVars,
         sockVars, SelectT!mainVars, mainVars, SelectT!books, books, SelectT!Goto, Goto
<1>10. \A s : SelectT!CallsRecv(s) => CallsRecv(s)
  BY DEF SelectT!CallsRecv, CallsRecv, SelectT!At, At, SelectT!sockVars, sockVars,
         SelectT!mainVars, mainVars, SelectT!books, books, SelectT!Goto, Goto
<1>11. \A s : SelectT!RecvReturns(s) => RecvReturns(s)
  BY DEF SelectT!RecvReturns, RecvReturns, SelectT!At, At, SelectT!To, To, SelectT!Idle,
         Idle, SelectT!Unread, Unread, SelectT!Gone, Gone, SelectT!sockVars, sockVars,
         SelectT!mainVars, mainVars, SelectT!books, books, SelectT!Goto, Goto
<1>12. /\ \A s : SelectT!SendSucceeds(s) => SendSucceeds(s)
       /\ \A s : SelectT!SendReturnsError(s) => SendReturnsError(s)
  BY DEF SelectT!SendSucceeds, SendSucceeds, SelectT!SendReturnsError, SendReturnsError,
         SelectT!At, At, SelectT!sockVars, sockVars, SelectT!mainVars, mainVars,
         SelectT!books, books, SelectT!Goto, Goto
<1>13. /\ \A s : SelectT!Done(s) => Done(s)
       /\ \A s, l : SelectT!To(s, l) => To(s, l)
  BY DEF SelectT!Done, Done, SelectT!To, To, SelectT!Idle, Idle
<1>14. \A s, l : SelectT!HangsUp(s, l) => HangsUp(s, l)
  BY <1>13 DEF SelectT!HangsUp, HangsUp, SelectT!At, At, SelectT!Closes, Closes,
         SelectT!Fds, Fds, SelectT!Goto, Goto
<1>15. \A s : SelectT!KilledBySend(s) => Ends("killed") /\ is_running' = is_running
  BY <1>9 DEF SelectT!KilledBySend, KilledBySend
<1> QED  BY <1>1, <1>2, <1>3, <1>4, <1>5, <1>6, <1>7, <1>8, <1>9, <1>10, <1>11, <1>12,
            <1>13, <1>14, <1>15

\* An operator of EventServer means the same in the instance of pollthread.cpp.
LEMMA PollTSame ==
  /\ PollT!Fds = Fds /\ PollT!FreeFds = FreeFds /\ PollT!Available = Available
  /\ PollT!Slots = Slots /\ PollT!Busy = Busy /\ PollT!HeldFds = HeldFds
  /\ UNCHANGED PollT!sockVars <=> UNCHANGED sockVars
  /\ \A fd : PollT!Readable(fd) <=> Readable(fd)
  /\ \A S : PollT!Min(S) = Min(S) /\ PollT!Max(S) = Max(S)
  /\ \A b : PollT!Initializes(b) => Initializes(b)
  /\ \A fds : PollT!Loops(fds) => Loops(fds)
  /\ \A fds : PollT!WaitReturns(fds) => WaitReturns(fds)
  /\ \A to : PollT!WaitFails(to) => WaitFails(to)
  /\ \A fds : PollT!Ready(fds) = Ready(fds)
  /\ \A c, fd, held : PollT!Accepts(c, fd, held) <=> Accepts(c, fd, held)
  /\ PollT!AcceptsOne => AcceptsOne
  /\ PollT!Registers => Registers
  /\ \A fd : PollT!Starts(fd) => Starts(fd)
  /\ \A how : PollT!Ends(how) => Ends(how)
  /\ PollT!Destroys => Destroys
  /\ PollT!Stops => Stops
  /\ \A s : PollT!CallsRecv(s) => CallsRecv(s)
  /\ \A s : PollT!RecvReturns(s) => RecvReturns(s)
  /\ \A s : PollT!SendSucceeds(s) => SendSucceeds(s)
  /\ \A s : PollT!SendReturnsError(s) => SendReturnsError(s)
  /\ \A s : PollT!Done(s) => Done(s)
  /\ \A s, l : PollT!To(s, l) => To(s, l)
  /\ \A s, l : PollT!HangsUp(s, l) => HangsUp(s, l)
  /\ \A s : PollT!KilledBySend(s) => Ends("killed") /\ is_running' = is_running
<1>1. /\ PollT!Fds = Fds /\ PollT!FreeFds = FreeFds /\ PollT!Available = Available
      /\ PollT!Slots = Slots /\ PollT!Busy = Busy /\ PollT!HeldFds = HeldFds
  BY DEF PollT!Fds, Fds, PollT!FreeFds, FreeFds, PollT!Available, Available, PollT!Slots,
         Slots, PollT!Busy, Busy, PollT!HeldFds, HeldFds
<1>2. /\ UNCHANGED PollT!sockVars <=> UNCHANGED sockVars
      /\ \A fd : PollT!Readable(fd) <=> Readable(fd)
      /\ \A S : PollT!Min(S) = Min(S) /\ PollT!Max(S) = Max(S)
  BY DEF PollT!sockVars, sockVars, PollT!Readable, Readable, PollT!Unread, Unread,
         PollT!Gone, Gone, PollT!Min, Min, PollT!Max, Max
<1>3. /\ \A b : PollT!Initializes(b) => Initializes(b)
      /\ \A fds : PollT!Loops(fds) => Loops(fds)
  BY DEF PollT!Initializes, Initializes, PollT!Loops, Loops, PollT!sockVars, sockVars,
         PollT!mainVars, mainVars, PollT!books, books, PollT!Goto, Goto
<1>4. /\ \A fds : PollT!WaitReturns(fds) => WaitReturns(fds)
      /\ \A to : PollT!WaitFails(to) => WaitFails(to)
  BY DEF PollT!WaitReturns, WaitReturns, PollT!WaitFails, WaitFails, PollT!sockVars,
         sockVars, PollT!mainVars, mainVars, PollT!books, books, PollT!Goto, Goto
<1>5. \A fds : PollT!Ready(fds) = Ready(fds)
  BY DEF PollT!Ready, Ready, PollT!Readable, Readable, PollT!Unread, Unread, PollT!Gone,
         Gone
<1>6. \A c, fd, held : PollT!Accepts(c, fd, held) <=> Accepts(c, fd, held)
  BY DEF PollT!Accepts, Accepts, PollT!FreeFds, FreeFds, PollT!Fds, Fds, PollT!Min, Min
<1>7. /\ PollT!AcceptsOne => AcceptsOne
      /\ PollT!Registers => Registers
  BY <1>1, <1>6 DEF PollT!AcceptsOne, AcceptsOne, PollT!Registers, Registers,
         PollT!AcceptFails, AcceptFails, PollT!Looks, Looks, PollT!sockVars, sockVars,
         PollT!mainVars, mainVars, PollT!books, books, PollT!Goto, Goto
<1>8. \A fd : PollT!Starts(fd) => Starts(fd)
  BY <1>1 DEF PollT!Starts, Starts, PollT!Looks, Looks, PollT!sockVars, sockVars,
         PollT!mainVars, mainVars, PollT!books, books, PollT!Goto, Goto
<1>9. /\ \A how : PollT!Ends(how) => Ends(how)
      /\ PollT!Destroys => Destroys
      /\ PollT!Stops => Stops
  BY <1>1 DEF PollT!Ends, Ends, PollT!Destroys, Destroys, PollT!Stops, Stops,
         PollT!Closes, Closes, PollT!Fds, Fds, PollT!Idle, Idle, PollT!sockVars, sockVars,
         PollT!mainVars, mainVars, PollT!books, books, PollT!Goto, Goto
<1>10. \A s : PollT!CallsRecv(s) => CallsRecv(s)
  BY DEF PollT!CallsRecv, CallsRecv, PollT!At, At, PollT!sockVars, sockVars,
         PollT!mainVars, mainVars, PollT!books, books, PollT!Goto, Goto
<1>11. \A s : PollT!RecvReturns(s) => RecvReturns(s)
  BY DEF PollT!RecvReturns, RecvReturns, PollT!At, At, PollT!To, To, PollT!Idle, Idle,
         PollT!Unread, Unread, PollT!Gone, Gone, PollT!sockVars, sockVars, PollT!mainVars,
         mainVars, PollT!books, books, PollT!Goto, Goto
<1>12. /\ \A s : PollT!SendSucceeds(s) => SendSucceeds(s)
       /\ \A s : PollT!SendReturnsError(s) => SendReturnsError(s)
  BY DEF PollT!SendSucceeds, SendSucceeds, PollT!SendReturnsError, SendReturnsError,
         PollT!At, At, PollT!sockVars, sockVars, PollT!mainVars, mainVars, PollT!books,
         books, PollT!Goto, Goto
<1>13. /\ \A s : PollT!Done(s) => Done(s)
       /\ \A s, l : PollT!To(s, l) => To(s, l)
  BY DEF PollT!Done, Done, PollT!To, To, PollT!Idle, Idle
<1>14. \A s, l : PollT!HangsUp(s, l) => HangsUp(s, l)
  BY <1>13 DEF PollT!HangsUp, HangsUp, PollT!At, At, PollT!Closes, Closes, PollT!Fds, Fds,
         PollT!Goto, Goto
<1>15. \A s : PollT!KilledBySend(s) => Ends("killed") /\ is_running' = is_running
  BY <1>9 DEF PollT!KilledBySend, KilledBySend
<1> QED  BY <1>1, <1>2, <1>3, <1>4, <1>5, <1>6, <1>7, <1>8, <1>9, <1>10, <1>11, <1>12,
            <1>13, <1>14, <1>15

\* An operator of EventServer means the same in the instance of epollthread.cpp.
LEMMA EpollTSame ==
  /\ EpollT!Fds = Fds /\ EpollT!FreeFds = FreeFds /\ EpollT!Available = Available
  /\ EpollT!Slots = Slots /\ EpollT!Busy = Busy /\ EpollT!HeldFds = HeldFds
  /\ UNCHANGED EpollT!sockVars <=> UNCHANGED sockVars
  /\ \A fd : EpollT!Readable(fd) <=> Readable(fd)
  /\ \A S : EpollT!Min(S) = Min(S) /\ EpollT!Max(S) = Max(S)
  /\ \A b : EpollT!Initializes(b) => Initializes(b)
  /\ \A fds : EpollT!Loops(fds) => Loops(fds)
  /\ \A fds : EpollT!WaitReturns(fds) => WaitReturns(fds)
  /\ \A to : EpollT!WaitFails(to) => WaitFails(to)
  /\ \A fds : EpollT!Ready(fds) = Ready(fds)
  /\ \A c, fd, held : EpollT!Accepts(c, fd, held) <=> Accepts(c, fd, held)
  /\ EpollT!AcceptsOne => AcceptsOne
  /\ EpollT!Registers => Registers
  /\ \A fd : EpollT!Starts(fd) => Starts(fd)
  /\ \A how : EpollT!Ends(how) => Ends(how)
  /\ EpollT!Destroys => Destroys
  /\ EpollT!Stops => Stops
  /\ \A s : EpollT!CallsRecv(s) => CallsRecv(s)
  /\ \A s : EpollT!RecvReturns(s) => RecvReturns(s)
  /\ \A s : EpollT!SendSucceeds(s) => SendSucceeds(s)
  /\ \A s : EpollT!SendReturnsError(s) => SendReturnsError(s)
  /\ \A s : EpollT!Done(s) => Done(s)
  /\ \A s, l : EpollT!To(s, l) => To(s, l)
  /\ \A s, l : EpollT!HangsUp(s, l) => HangsUp(s, l)
  /\ \A s : EpollT!KilledBySend(s) => Ends("killed") /\ is_running' = is_running
<1>1. /\ EpollT!Fds = Fds /\ EpollT!FreeFds = FreeFds /\ EpollT!Available = Available
      /\ EpollT!Slots = Slots /\ EpollT!Busy = Busy /\ EpollT!HeldFds = HeldFds
  BY DEF EpollT!Fds, Fds, EpollT!FreeFds, FreeFds, EpollT!Available, Available,
         EpollT!Slots, Slots, EpollT!Busy, Busy, EpollT!HeldFds, HeldFds
<1>2. /\ UNCHANGED EpollT!sockVars <=> UNCHANGED sockVars
      /\ \A fd : EpollT!Readable(fd) <=> Readable(fd)
      /\ \A S : EpollT!Min(S) = Min(S) /\ EpollT!Max(S) = Max(S)
  BY DEF EpollT!sockVars, sockVars, EpollT!Readable, Readable, EpollT!Unread, Unread,
         EpollT!Gone, Gone, EpollT!Min, Min, EpollT!Max, Max
<1>3. /\ \A b : EpollT!Initializes(b) => Initializes(b)
      /\ \A fds : EpollT!Loops(fds) => Loops(fds)
  BY DEF EpollT!Initializes, Initializes, EpollT!Loops, Loops, EpollT!sockVars, sockVars,
         EpollT!mainVars, mainVars, EpollT!books, books, EpollT!Goto, Goto
<1>4. /\ \A fds : EpollT!WaitReturns(fds) => WaitReturns(fds)
      /\ \A to : EpollT!WaitFails(to) => WaitFails(to)
  BY DEF EpollT!WaitReturns, WaitReturns, EpollT!WaitFails, WaitFails, EpollT!sockVars,
         sockVars, EpollT!mainVars, mainVars, EpollT!books, books, EpollT!Goto, Goto
<1>5. \A fds : EpollT!Ready(fds) = Ready(fds)
  BY DEF EpollT!Ready, Ready, EpollT!Readable, Readable, EpollT!Unread, Unread,
         EpollT!Gone, Gone
<1>6. \A c, fd, held : EpollT!Accepts(c, fd, held) <=> Accepts(c, fd, held)
  BY DEF EpollT!Accepts, Accepts, EpollT!FreeFds, FreeFds, EpollT!Fds, Fds, EpollT!Min,
         Min
<1>7. /\ EpollT!AcceptsOne => AcceptsOne
      /\ EpollT!Registers => Registers
  BY <1>1, <1>6 DEF EpollT!AcceptsOne, AcceptsOne, EpollT!Registers, Registers,
         EpollT!AcceptFails, AcceptFails, EpollT!Looks, Looks, EpollT!sockVars, sockVars,
         EpollT!mainVars, mainVars, EpollT!books, books, EpollT!Goto, Goto
<1>8. \A fd : EpollT!Starts(fd) => Starts(fd)
  BY <1>1 DEF EpollT!Starts, Starts, EpollT!Looks, Looks, EpollT!sockVars, sockVars,
         EpollT!mainVars, mainVars, EpollT!books, books, EpollT!Goto, Goto
<1>9. /\ \A how : EpollT!Ends(how) => Ends(how)
      /\ EpollT!Destroys => Destroys
      /\ EpollT!Stops => Stops
  BY <1>1 DEF EpollT!Ends, Ends, EpollT!Destroys, Destroys, EpollT!Stops, Stops,
         EpollT!Closes, Closes, EpollT!Fds, Fds, EpollT!Idle, Idle, EpollT!sockVars,
         sockVars, EpollT!mainVars, mainVars, EpollT!books, books, EpollT!Goto, Goto
<1>10. \A s : EpollT!CallsRecv(s) => CallsRecv(s)
  BY DEF EpollT!CallsRecv, CallsRecv, EpollT!At, At, EpollT!sockVars, sockVars,
         EpollT!mainVars, mainVars, EpollT!books, books, EpollT!Goto, Goto
<1>11. \A s : EpollT!RecvReturns(s) => RecvReturns(s)
  BY DEF EpollT!RecvReturns, RecvReturns, EpollT!At, At, EpollT!To, To, EpollT!Idle, Idle,
         EpollT!Unread, Unread, EpollT!Gone, Gone, EpollT!sockVars, sockVars,
         EpollT!mainVars, mainVars, EpollT!books, books, EpollT!Goto, Goto
<1>12. /\ \A s : EpollT!SendSucceeds(s) => SendSucceeds(s)
       /\ \A s : EpollT!SendReturnsError(s) => SendReturnsError(s)
  BY DEF EpollT!SendSucceeds, SendSucceeds, EpollT!SendReturnsError, SendReturnsError,
         EpollT!At, At, EpollT!sockVars, sockVars, EpollT!mainVars, mainVars,
         EpollT!books, books, EpollT!Goto, Goto
<1>13. /\ \A s : EpollT!Done(s) => Done(s)
       /\ \A s, l : EpollT!To(s, l) => To(s, l)
  BY DEF EpollT!Done, Done, EpollT!To, To, EpollT!Idle, Idle
<1>14. \A s, l : EpollT!HangsUp(s, l) => HangsUp(s, l)
  BY <1>13 DEF EpollT!HangsUp, HangsUp, EpollT!At, At, EpollT!Closes, Closes, EpollT!Fds,
         Fds, EpollT!Goto, Goto
<1>15. \A s : EpollT!KilledBySend(s) => Ends("killed") /\ is_running' = is_running
  BY <1>9 DEF EpollT!KilledBySend, KilledBySend
<1> QED  BY <1>1, <1>2, <1>3, <1>4, <1>5, <1>6, <1>7, <1>8, <1>9, <1>10, <1>11, <1>12,
            <1>13, <1>14, <1>15

\* An operator of EventServer means the same in the instance of TCP_MultiThreadServer.cpp.
LEMMA ClientTSame ==
  /\ ClientT!Fds = Fds /\ ClientT!FreeFds = FreeFds /\ ClientT!Available = Available
  /\ ClientT!Slots = Slots /\ ClientT!Busy = Busy /\ ClientT!HeldFds = HeldFds
  /\ UNCHANGED ClientT!sockVars <=> UNCHANGED sockVars
  /\ \A fd : ClientT!Readable(fd) <=> Readable(fd)
  /\ \A S : ClientT!Min(S) = Min(S) /\ ClientT!Max(S) = Max(S)
  /\ \A b : ClientT!Initializes(b) => Initializes(b)
  /\ \A fds : ClientT!Loops(fds) => Loops(fds)
  /\ \A fds : ClientT!WaitReturns(fds) => WaitReturns(fds)
  /\ \A to : ClientT!WaitFails(to) => WaitFails(to)
  /\ \A fds : ClientT!Ready(fds) = Ready(fds)
  /\ \A c, fd, held : ClientT!Accepts(c, fd, held) <=> Accepts(c, fd, held)
  /\ ClientT!AcceptsOne => AcceptsOne
  /\ ClientT!Registers => Registers
  /\ \A fd : ClientT!Starts(fd) => Starts(fd)
  /\ \A how : ClientT!Ends(how) => Ends(how)
  /\ ClientT!Destroys => Destroys
  /\ ClientT!Stops => Stops
  /\ \A s : ClientT!CallsRecv(s) => CallsRecv(s)
  /\ \A s : ClientT!RecvReturns(s) => RecvReturns(s)
  /\ \A s : ClientT!SendSucceeds(s) => SendSucceeds(s)
  /\ \A s : ClientT!SendReturnsError(s) => SendReturnsError(s)
  /\ \A s : ClientT!Done(s) => Done(s)
  /\ \A s, l : ClientT!To(s, l) => To(s, l)
  /\ \A s, l : ClientT!HangsUp(s, l) => HangsUp(s, l)
  /\ \A s : ClientT!KilledBySend(s) => Ends("killed") /\ is_running' = is_running
<1>1. /\ ClientT!Fds = Fds /\ ClientT!FreeFds = FreeFds /\ ClientT!Available = Available
      /\ ClientT!Slots = Slots /\ ClientT!Busy = Busy /\ ClientT!HeldFds = HeldFds
  BY DEF ClientT!Fds, Fds, ClientT!FreeFds, FreeFds, ClientT!Available, Available,
         ClientT!Slots, Slots, ClientT!Busy, Busy, ClientT!HeldFds, HeldFds
<1>2. /\ UNCHANGED ClientT!sockVars <=> UNCHANGED sockVars
      /\ \A fd : ClientT!Readable(fd) <=> Readable(fd)
      /\ \A S : ClientT!Min(S) = Min(S) /\ ClientT!Max(S) = Max(S)
  BY DEF ClientT!sockVars, sockVars, ClientT!Readable, Readable, ClientT!Unread, Unread,
         ClientT!Gone, Gone, ClientT!Min, Min, ClientT!Max, Max
<1>3. /\ \A b : ClientT!Initializes(b) => Initializes(b)
      /\ \A fds : ClientT!Loops(fds) => Loops(fds)
  BY DEF ClientT!Initializes, Initializes, ClientT!Loops, Loops, ClientT!sockVars,
         sockVars, ClientT!mainVars, mainVars, ClientT!books, books, ClientT!Goto, Goto
<1>4. /\ \A fds : ClientT!WaitReturns(fds) => WaitReturns(fds)
      /\ \A to : ClientT!WaitFails(to) => WaitFails(to)
  BY DEF ClientT!WaitReturns, WaitReturns, ClientT!WaitFails, WaitFails, ClientT!sockVars,
         sockVars, ClientT!mainVars, mainVars, ClientT!books, books, ClientT!Goto, Goto
<1>5. \A fds : ClientT!Ready(fds) = Ready(fds)
  BY DEF ClientT!Ready, Ready, ClientT!Readable, Readable, ClientT!Unread, Unread,
         ClientT!Gone, Gone
<1>6. \A c, fd, held : ClientT!Accepts(c, fd, held) <=> Accepts(c, fd, held)
  BY DEF ClientT!Accepts, Accepts, ClientT!FreeFds, FreeFds, ClientT!Fds, Fds,
         ClientT!Min, Min
<1>7. /\ ClientT!AcceptsOne => AcceptsOne
      /\ ClientT!Registers => Registers
  BY <1>1, <1>6 DEF ClientT!AcceptsOne, AcceptsOne, ClientT!Registers, Registers,
         ClientT!AcceptFails, AcceptFails, ClientT!Looks, Looks, ClientT!sockVars,
         sockVars, ClientT!mainVars, mainVars, ClientT!books, books, ClientT!Goto, Goto
<1>8. \A fd : ClientT!Starts(fd) => Starts(fd)
  BY <1>1 DEF ClientT!Starts, Starts, ClientT!Looks, Looks, ClientT!sockVars, sockVars,
         ClientT!mainVars, mainVars, ClientT!books, books, ClientT!Goto, Goto
<1>9. /\ \A how : ClientT!Ends(how) => Ends(how)
      /\ ClientT!Destroys => Destroys
      /\ ClientT!Stops => Stops
  BY <1>1 DEF ClientT!Ends, Ends, ClientT!Destroys, Destroys, ClientT!Stops, Stops,
         ClientT!Closes, Closes, ClientT!Fds, Fds, ClientT!Idle, Idle, ClientT!sockVars,
         sockVars, ClientT!mainVars, mainVars, ClientT!books, books, ClientT!Goto, Goto
<1>10. \A s : ClientT!CallsRecv(s) => CallsRecv(s)
  BY DEF ClientT!CallsRecv, CallsRecv, ClientT!At, At, ClientT!sockVars, sockVars,
         ClientT!mainVars, mainVars, ClientT!books, books, ClientT!Goto, Goto
<1>11. \A s : ClientT!RecvReturns(s) => RecvReturns(s)
  BY DEF ClientT!RecvReturns, RecvReturns, ClientT!At, At, ClientT!To, To, ClientT!Idle,
         Idle, ClientT!Unread, Unread, ClientT!Gone, Gone, ClientT!sockVars, sockVars,
         ClientT!mainVars, mainVars, ClientT!books, books, ClientT!Goto, Goto
<1>12. /\ \A s : ClientT!SendSucceeds(s) => SendSucceeds(s)
       /\ \A s : ClientT!SendReturnsError(s) => SendReturnsError(s)
  BY DEF ClientT!SendSucceeds, SendSucceeds, ClientT!SendReturnsError, SendReturnsError,
         ClientT!At, At, ClientT!sockVars, sockVars, ClientT!mainVars, mainVars,
         ClientT!books, books, ClientT!Goto, Goto
<1>13. /\ \A s : ClientT!Done(s) => Done(s)
       /\ \A s, l : ClientT!To(s, l) => To(s, l)
  BY DEF ClientT!Done, Done, ClientT!To, To, ClientT!Idle, Idle
<1>14. \A s, l : ClientT!HangsUp(s, l) => HangsUp(s, l)
  BY <1>13 DEF ClientT!HangsUp, HangsUp, ClientT!At, At, ClientT!Closes, Closes,
         ClientT!Fds, Fds, ClientT!Goto, Goto
<1>15. \A s : ClientT!KilledBySend(s) => Ends("killed") /\ is_running' = is_running
  BY <1>9 DEF ClientT!KilledBySend, KilledBySend
<1> QED  BY <1>1, <1>2, <1>3, <1>4, <1>5, <1>6, <1>7, <1>8, <1>9, <1>10, <1>11, <1>12,
            <1>13, <1>14, <1>15

-----------------------------------------------------------------------------
(* Every step of every program is of one of the kinds.                     *)

\* select.cpp
LEMMA SelectSteps ==
  ASSUME TypeOK, program = "select",
         Select!Main \/ Select!Others
  PROVE  Step
<1>1. CASE Select!init
  <2>1. Initializes(TRUE)
    BY <1>1 DEF Select!init, Select!Initializes, Initializes, Select!Goto, Goto,
                Select!sockVars, sockVars
  <2> QED  BY <2>1 DEF Step, Opens
<1>2. CASE Select!run_select_loop
  <2>1. CASE Select!Busy = {} /\ Select!Loops({fd \in watched : fd <= max_fd})
    <3>1. {fd \in watched : fd <= max_fd} \in SUBSET Numbers
      BY DEF TypeOK, Numbers
    <3>2. Loops({fd \in watched : fd <= max_fd})
      <4>1. Select!Loops({fd \in watched : fd <= max_fd})
        BY <2>1
      <4>2. \A x : Select!Loops(x) => Loops(x)
        BY SelectSame
      <4> QED  BY <4>1, <4>2
    <3>3. Lone
      BY <2>1, SelectSame DEF Lone
    <3>4. Passes
      BY <3>1, <3>2, <3>3, LoopsPasses
    <3> QED  BY <3>4 DEF Step
  <2>2. CASE Select!SelectReturns
    <3>1. WaitReturns(Ready(view))
      BY <2>2, SelectSame DEF Select!SelectReturns
    <3> QED  BY <3>1, ReadyReadable DEF TypeOK, Numbers, Step
  <2>3. CASE Select!Busy = {} /\ Select!AcceptClient
    <3>1. CASE Select!AcceptsOne
      BY <2>3, <3>1, SelectSame DEF Step, Meets, Lone
    <3>2. CASE ~Select!AcceptsOne
      <4>1. Registers /\ Lone
        BY <2>3, <3>2, SelectSame DEF Select!AcceptClient, Lone
      <4>2. /\ /\ UNCHANGED sockVars
            /\ batch' \subseteq batch
            /\ watched' = watched \cup {pending}
            /\ client_fds' = client_fds \cup {pending}
            /\ max_fd' = Max({ServerFd} \cup client_fds')
        BY <2>3, <3>2, SelectSame DEF Select!AcceptClient
      <4> QED  BY <4>1, <4>2 DEF Step, Adds, SetPrograms, EpollPrograms
    <3> QED  BY <3>1, <3>2
  <2>4. CASE /\ Select!Busy = {}
             /\ Select!Min(batch) # ServerFd
             /\ Select!Starts(Select!Min(batch))
    <3>1. Lone /\ Min(batch) # ServerFd /\ Starts(Min(batch))
      BY <2>4, SelectSame DEF Lone
    <3> QED  BY <3>1, StartsIsTurn DEF Step
  <2> QED  BY <1>2, <2>1, <2>2, <2>3, <2>4 DEF Select!run_select_loop
<1>3. ASSUME NEW s \in Select!Slots, Select!HandleClient(s) PROVE Step
  <2>1. s \in Slots
    BY SelectSame
  <2>2. CASE Select!CallsRecv(s) \/ Select!RecvReturns(s)
    <3>1. CallsRecv(s) \/ RecvReturns(s)
      BY <2>2, SelectSame
    <3> QED  BY <2>1, <3>1 DEF Step, Serves
  <2>3. CASE (Select!SendSucceeds(s) \/ Select!SendReturnsError(s)) /\ Select!Done(s)
    <3>1. Answers(s)
      <4>1. (SendSucceeds(s) \/ SendReturnsError(s)) /\ Done(s)
        BY <2>3, SelectSame
      <4> QED  BY <4>1 DEF Answers
    <3> QED  BY <2>1, <3>1 DEF Step, Serves
  <2>4. CASE Select!KilledBySend(s)
    <3>1. Ends("killed") /\ is_running' = is_running
      BY <2>4, SelectSame
    <3> QED  BY <3>1 DEF Step, Quits
  <2>5. CASE /\ Select!HangsUp(s, "close")
             /\ watched' = watched \ {s[1]}
             /\ client_fds' = client_fds \ {s[1]}
             /\ max_fd' = Select!Max({ServerFd} \cup client_fds')
             /\ UNCHANGED batch
    <3>1. /\ HangsUp(s, "close") /\ batch' \subseteq batch
          /\ watched' = watched \ {s[1]} /\ client_fds' = client_fds \ {s[1]}
          /\ max_fd' = Max({ServerFd} \cup client_fds')
      BY <2>5, SelectSame
    <3>2. Leaves(s)
      BY <3>1 DEF Leaves, SetPrograms
    <3> QED  BY <2>1, <3>2 DEF Step, Serves
  <2> QED  BY <1>3, <2>2, <2>3, <2>4, <2>5 DEF Select!HandleClient
<1>4. CASE Select!error
  <2>1. is_running' = is_running /\ Ends("exit")
    BY <1>4, SelectSame DEF Select!error
  <2> QED  BY <2>1 DEF Step, Quits
<1> QED  BY <1>1, <1>2, <1>3, <1>4 DEF Select!Main, Select!Others

\* pollserver.cpp
LEMMA PollSteps ==
  ASSUME TypeOK, program = "pollserver",
         Poll!Main \/ Poll!Others
  PROVE  Step
<1>1. CASE Poll!init
  <2>1. Initializes(TRUE)
    BY <1>1 DEF Poll!init, Poll!Initializes, Initializes, Poll!Goto, Goto,
                Poll!sockVars, sockVars
  <2> QED  BY <2>1 DEF Step, Opens
<1>2. CASE Poll!poll_loop
  <2>1. CASE Poll!Busy = {} /\ Poll!Loops(ServerFd..max_fd)
    <3>1. ServerFd..max_fd \in SUBSET Numbers
      <4>1. ServerFd \in Nat /\ MaxFd \in Nat /\ max_fd \in 0..MaxFd
        BY SocketsAssumption DEF TypeOK
      <4> QED  BY <4>1 DEF Numbers, Fds
    <3>2. Loops(ServerFd..max_fd)
      <4>1. Poll!Loops(ServerFd..max_fd)
        BY <2>1
      <4>2. \A x : Poll!Loops(x) => Loops(x)
        BY PollSame
      <4> QED  BY <4>1, <4>2
    <3>3. Lone
      BY <2>1, PollSame DEF Lone
    <3>4. Passes
      BY <3>1, <3>2, <3>3, Zenon DEF Passes
    <3> QED  BY <3>4 DEF Step
  <2>2. CASE Poll!PollReturns
    <3>1. WaitReturns(Ready({fd \in watched : fd \in view}))
      BY <2>2, PollSame DEF Poll!PollReturns
    <3> QED  BY <3>1, ReadyReadable DEF TypeOK, Numbers, Step
  <2>3. CASE Poll!Busy = {} /\ Poll!new_client
    <3>1. CASE Poll!AcceptsOne
      BY <2>3, <3>1, PollSame DEF Step, Meets, Lone
    <3>2. CASE ~Poll!AcceptsOne
      <4>1. Registers /\ Lone
        BY <2>3, <3>2, PollSame DEF Poll!new_client, Lone
      <4>2. /\ /\ UNCHANGED sockVars
            /\ batch' \subseteq batch
            /\ watched' = watched \cup {pending}
            /\ client_fds' = client_fds \cup {pending}
            /\ max_fd' = Max({ServerFd} \cup client_fds')
        BY <2>3, <3>2, PollSame DEF Poll!new_client
      <4> QED  BY <4>1, <4>2 DEF Step, Adds, SetPrograms, EpollPrograms
    <3> QED  BY <3>1, <3>2
  <2>4. CASE Poll!Busy = {} /\ Poll!Min(batch) # ServerFd /\ Poll!Starts(Poll!Min(batch))
    <3>1. Lone /\ Min(batch) # ServerFd /\ Starts(Min(batch))
      BY <2>4, PollSame DEF Lone
    <3> QED  BY <3>1, StartsIsTurn DEF Step
  <2> QED  BY <1>2, <2>1, <2>2, <2>3, <2>4 DEF Poll!poll_loop
<1>3. ASSUME NEW s \in Poll!Slots, Poll!client_communicate(s) PROVE Step
  <2>1. s \in Slots
    BY PollSame
  <2>2. CASE Poll!CallsRecv(s) \/ Poll!RecvReturns(s)
    <3>1. CallsRecv(s) \/ RecvReturns(s)
      BY <2>2, PollSame
    <3> QED  BY <2>1, <3>1 DEF Step, Serves
  <2>3. CASE (Poll!SendSucceeds(s) \/ Poll!SendReturnsError(s)) /\ Poll!Done(s)
    <3>1. Answers(s)
      <4>1. (SendSucceeds(s) \/ SendReturnsError(s)) /\ Done(s)
        BY <2>3, PollSame
      <4> QED  BY <4>1 DEF Answers
    <3> QED  BY <2>1, <3>1 DEF Step, Serves
  <2>4. CASE Poll!KilledBySend(s)
    <3>1. Ends("killed") /\ is_running' = is_running
      BY <2>4, PollSame
    <3> QED  BY <3>1 DEF Step, Quits
  <2>5. CASE /\ ~is_running
             /\ Poll!HangsUp(s, "start")
             /\ Poll!Forgets(s[1])
             /\ UNCHANGED max_fd
    <3>1. /\ HangsUp(s, "start") /\ ~is_running /\ batch' \subseteq batch
          /\ watched' = watched \ {s[1]} /\ client_fds' = client_fds \ {s[1]}
          /\ UNCHANGED max_fd
      BY <2>5, PollSame DEF Poll!Forgets
    <3>2. Leaves(s)
      BY <3>1 DEF Leaves, SetPrograms
    <3> QED  BY <2>1, <3>2 DEF Step, Serves
  <2>6. CASE /\ Poll!HangsUp(s, "close")
             /\ Poll!Forgets(s[1])
             /\ max_fd' = Poll!Max({ServerFd} \cup client_fds')
    <3>1. /\ HangsUp(s, "close") /\ batch' \subseteq batch
          /\ watched' = watched \ {s[1]} /\ client_fds' = client_fds \ {s[1]}
          /\ max_fd' = Max({ServerFd} \cup client_fds')
      BY <2>6, PollSame DEF Poll!Forgets
    <3>2. Leaves(s)
      BY <3>1 DEF Leaves, SetPrograms
    <3> QED  BY <2>1, <3>2 DEF Step, Serves
  <2> QED  BY <1>3, <2>2, <2>3, <2>4, <2>5, <2>6 DEF Poll!client_communicate
<1>4. CASE Poll!Destroys
  <2>1. is_running' = FALSE /\ Ends("exit")
    BY <1>4, PollSame DEF Destroys
  <2> QED  BY <2>1 DEF Step, Quits
<1>5. CASE Poll!stop
  BY <1>5, PollSame DEF Poll!stop, Step
<1> QED  BY <1>1, <1>2, <1>3, <1>4, <1>5 DEF Poll!Main, Poll!Others

\* epollserver.cpp
LEMMA EpollSteps ==
  ASSUME TypeOK, program = "epollserver",
         Epoll!Main \/ Epoll!Others
  PROVE  Step
<1>1. CASE Epoll!init
  <2>1. Initializes(FALSE)
    BY <1>1 DEF Epoll!init, Epoll!Initializes, Initializes, Epoll!Goto, Goto,
                Epoll!sockVars, sockVars
  <2> QED  BY <2>1 DEF Step, Opens, SetPrograms
<1>2. CASE Epoll!epoll_loop
  <2>1. CASE Epoll!Busy = {} /\ Epoll!Loops({})
    <3>1. {} \in SUBSET Numbers
      BY DEF TypeOK, Numbers
    <3>2. Loops({})
      <4>1. Epoll!Loops({})
        BY <2>1
      <4>2. \A x : Epoll!Loops(x) => Loops(x)
        BY EpollSame
      <4> QED  BY <4>1, <4>2
    <3>3. Lone
      BY <2>1, EpollSame DEF Lone
    <3>4. Passes
      BY <3>1, <3>2, <3>3, LoopsPasses
    <3> QED  BY <3>4 DEF Step
  <2>2. CASE Epoll!EpollReturns
    <3>1. WaitReturns(Ready(watched))
      BY <2>2, EpollSame DEF Epoll!EpollReturns
    <3> QED  BY <3>1, ReadyReadable DEF TypeOK, Numbers, Step
  <2>3. CASE Epoll!Busy = {} /\ Epoll!AcceptClient
    <3>1. CASE Epoll!AcceptsOne
      BY <2>3, <3>1, EpollSame DEF Step, Meets, Lone
    <3>2. CASE ~Epoll!AcceptsOne
      <4>1. Registers /\ Lone
        BY <2>3, <3>2, EpollSame DEF Epoll!AcceptClient, Lone
      <4>2. /\ /\ UNCHANGED sockVars
            /\ batch' \subseteq batch
            /\ UNCHANGED <<client_fds, max_fd>>
            /\ watched' = IF fdtab[pending] = None THEN watched ELSE watched \cup {pending}
        BY <2>3, <3>2, EpollSame DEF Epoll!AcceptClient
      <4> QED  BY <4>1, <4>2 DEF Step, Adds, SetPrograms, EpollPrograms
    <3> QED  BY <3>1, <3>2
  <2>4. ASSUME Epoll!Busy = {}, NEW fd \in Epoll!Fds, Epoll!Starts(fd) PROVE Step
    BY <2>4, EpollSame DEF Step, Turns, Lone
  <2> QED  BY <1>2, <2>1, <2>2, <2>3, <2>4 DEF Epoll!epoll_loop
<1>3. ASSUME NEW s \in Epoll!Slots, Epoll!HandleClient(s) PROVE Step
  <2>1. s \in Slots
    BY EpollSame
  <2>2. CASE Epoll!CallsRecv(s) \/ Epoll!RecvReturns(s)
    <3>1. CallsRecv(s) \/ RecvReturns(s)
      BY <2>2, EpollSame
    <3> QED  BY <2>1, <3>1 DEF Step, Serves
  <2>3. CASE \/ Epoll!SendSucceeds(s) /\ Epoll!Done(s)
             \/ Epoll!SendReturnsError(s) /\ Epoll!To(s, "close")
    <3>1. Answers(s)
      <4>1. (SendSucceeds(s) /\ Done(s)) \/ (SendReturnsError(s) /\ To(s, "close"))
        BY <2>3, EpollSame
      <4> QED  BY <4>1 DEF Answers
    <3> QED  BY <2>1, <3>1 DEF Step, Serves
  <2>4. CASE /\ Epoll!HangsUp(s, "close")
             /\ watched' = watched \ {s[1]}
             /\ UNCHANGED <<batch, client_fds, max_fd>>
    <3>1. /\ HangsUp(s, "close") /\ batch' \subseteq batch
          /\ watched' = watched \ {s[1]} /\ UNCHANGED <<client_fds, max_fd>>
      BY <2>4, EpollSame
    <3>2. Leaves(s)
      BY <3>1 DEF Leaves, SetPrograms
    <3> QED  BY <2>1, <3>2 DEF Step, Serves
  <2> QED  BY <1>3, <2>2, <2>3, <2>4 DEF Epoll!HandleClient
<1>4. CASE Epoll!Destroys
  <2>1. is_running' = FALSE /\ Ends("exit")
    BY <1>4, EpollSame DEF Destroys
  <2> QED  BY <2>1 DEF Step, Quits
<1>5. CASE Epoll!stop
  BY <1>5, EpollSame DEF Epoll!stop, Step
<1> QED  BY <1>1, <1>2, <1>3, <1>4, <1>5 DEF Epoll!Main, Epoll!Others

\* selectthread.cpp
LEMMA SelectTSteps ==
  ASSUME TypeOK, program = "selectthread",
         SelectT!Main \/ (\E s \in Slots : SelectT!Thread(s)) \/ SelectT!Others
  PROVE  Step
<1>1. CASE SelectT!init
  <2>1. Initializes(TRUE)
    BY <1>1 DEF SelectT!init, SelectT!Initializes, Initializes, SelectT!Goto, Goto,
                SelectT!sockVars, sockVars
  <2> QED  BY <2>1 DEF Step, Opens
<1>2. CASE SelectT!select_loop
  <2>1. CASE SelectT!Loops({fd \in watched : fd <= max_fd})
    <3>1. {fd \in watched : fd <= max_fd} \in SUBSET Numbers
      BY DEF TypeOK, Numbers
    <3>2. Loops({fd \in watched : fd <= max_fd})
      <4>1. SelectT!Loops({fd \in watched : fd <= max_fd})
        BY <2>1
      <4>2. \A x : SelectT!Loops(x) => Loops(x)
        BY SelectTSame
      <4> QED  BY <4>1, <4>2
    <3>3. Lone
      BY DEF Lone, SingleThreaded
    <3>4. Passes
      BY <3>1, <3>2, <3>3, LoopsPasses
    <3> QED  BY <3>4 DEF Step
  <2>2. CASE SelectT!SelectReturns
    <3>1. WaitReturns(Ready(view)) \/ \E to \in {"scan", "dtor"} : WaitFails(to)
      BY <2>2, SelectTSame DEF SelectT!SelectReturns
    <3> QED  BY <3>1, ReadyReadable DEF TypeOK, Numbers, Step, Fails
  <2>3. CASE SelectT!new_client
    <3>1. CASE SelectT!AcceptsOne
      BY <2>3, <3>1, SelectTSame DEF Step, Meets, Lone, SingleThreaded
    <3>2. CASE ~SelectT!AcceptsOne
      <4>1. Registers /\ Lone
        BY <2>3, <3>2, SelectTSame DEF SelectT!new_client, Lone, SingleThreaded
      <4>2. /\ /\ UNCHANGED sockVars
            /\ batch' \subseteq batch
            /\ watched' = watched \cup {pending}
            /\ client_fds' = client_fds \cup {pending}
            /\ max_fd' = Max({ServerFd} \cup client_fds')
        BY <2>3, <3>2, SelectTSame DEF SelectT!new_client
      <4> QED  BY <4>1, <4>2 DEF Step, Adds, SetPrograms, EpollPrograms
    <3> QED  BY <3>1, <3>2
  <2>4. CASE SelectT!Min(batch) # ServerFd /\ SelectT!Starts(SelectT!Min(batch))
    <3>1. Lone /\ Min(batch) # ServerFd /\ Starts(Min(batch))
      BY <2>4, SelectTSame DEF Lone, SingleThreaded
    <3> QED  BY <3>1, StartsIsTurn DEF Step
  <2> QED  BY <1>2, <2>1, <2>2, <2>3, <2>4 DEF SelectT!select_loop
<1>3. ASSUME NEW s \in Slots, SelectT!client_communicate(s) PROVE Step
  <2>1. s \in Slots
    OBVIOUS
  <2>2. CASE SelectT!CallsRecv(s) \/ SelectT!RecvReturns(s)
    <3>1. CallsRecv(s) \/ RecvReturns(s)
      BY <2>2, SelectTSame
    <3> QED  BY <2>1, <3>1 DEF Step, Serves
  <2>3. CASE (SelectT!SendSucceeds(s) \/ SelectT!SendReturnsError(s)) /\ SelectT!Done(s)
    <3>1. Answers(s)
      <4>1. (SendSucceeds(s) \/ SendReturnsError(s)) /\ Done(s)
        BY <2>3, SelectTSame
      <4> QED  BY <4>1 DEF Answers
    <3> QED  BY <2>1, <3>1 DEF Step, Serves
  <2>4. CASE SelectT!KilledBySend(s)
    <3>1. Ends("killed") /\ is_running' = is_running
      BY <2>4, SelectTSame
    <3> QED  BY <3>1 DEF Step, Quits
  <2>5. CASE /\ ~is_running
             /\ SelectT!HangsUp(s, "start")
             /\ SelectT!Forgets(s[1])
             /\ UNCHANGED max_fd
    <3>1. /\ HangsUp(s, "start") /\ ~is_running /\ batch' \subseteq batch
          /\ watched' = watched \ {s[1]} /\ client_fds' = client_fds \ {s[1]}
          /\ UNCHANGED max_fd
      BY <2>5, SelectTSame DEF SelectT!Forgets
    <3>2. Leaves(s)
      BY <3>1 DEF Leaves, SetPrograms
    <3> QED  BY <2>1, <3>2 DEF Step, Serves
  <2>6. CASE /\ SelectT!HangsUp(s, "close")
             /\ SelectT!Forgets(s[1])
             /\ max_fd' = SelectT!Max({ServerFd} \cup client_fds')
    <3>1. /\ HangsUp(s, "close") /\ batch' \subseteq batch
          /\ watched' = watched \ {s[1]} /\ client_fds' = client_fds \ {s[1]}
          /\ max_fd' = Max({ServerFd} \cup client_fds')
      BY <2>6, SelectTSame DEF SelectT!Forgets
    <3>2. Leaves(s)
      BY <3>1 DEF Leaves, SetPrograms
    <3> QED  BY <2>1, <3>2 DEF Step, Serves
  <2> QED  BY <1>3, <2>2, <2>3, <2>4, <2>5, <2>6 DEF SelectT!client_communicate
<1>4. CASE SelectT!Destroys
  <2>1. is_running' = FALSE /\ Ends("exit")
    BY <1>4, SelectTSame DEF Destroys
  <2> QED  BY <2>1 DEF Step, Quits
<1>5. CASE SelectT!stop
  BY <1>5, SelectTSame DEF SelectT!stop, Step
<1> QED  BY <1>1, <1>2, <1>3, <1>4, <1>5 DEF SelectT!Main, SelectT!Thread, SelectT!Others

\* pollthread.cpp
LEMMA PollTSteps ==
  ASSUME TypeOK, program = "pollthread",
         PollT!Main \/ (\E s \in Slots : PollT!Thread(s)) \/ PollT!Others
  PROVE  Step
<1>1. CASE PollT!init
  <2>1. Initializes(TRUE)
    BY <1>1 DEF PollT!init, PollT!Initializes, Initializes, PollT!Goto, Goto,
                PollT!sockVars, sockVars
  <2> QED  BY <2>1 DEF Step, Opens
<1>2. CASE PollT!poll_loop
  <2>1. CASE PollT!Loops(ServerFd..max_fd)
    <3>1. ServerFd..max_fd \in SUBSET Numbers
      <4>1. ServerFd \in Nat /\ MaxFd \in Nat /\ max_fd \in 0..MaxFd
        BY SocketsAssumption DEF TypeOK
      <4> QED  BY <4>1 DEF Numbers, Fds
    <3>2. Loops(ServerFd..max_fd)
      <4>1. PollT!Loops(ServerFd..max_fd)
        BY <2>1
      <4>2. \A x : PollT!Loops(x) => Loops(x)
        BY PollTSame
      <4> QED  BY <4>1, <4>2
    <3>3. Lone
      BY DEF Lone, SingleThreaded
    <3>4. Passes
      BY <3>1, <3>2, <3>3, Zenon DEF Passes
    <3> QED  BY <3>4 DEF Step
  <2>2. CASE PollT!PollReturns
    <3>1. WaitReturns(Ready({fd \in watched : fd \in view}))
      BY <2>2, PollTSame DEF PollT!PollReturns
    <3> QED  BY <3>1, ReadyReadable DEF TypeOK, Numbers, Step
  <2>3. CASE PollT!new_client
    <3>1. CASE PollT!AcceptsOne
      BY <2>3, <3>1, PollTSame DEF Step, Meets, Lone, SingleThreaded
    <3>2. CASE ~PollT!AcceptsOne
      <4>1. Registers /\ Lone
        BY <2>3, <3>2, PollTSame DEF PollT!new_client, Lone, SingleThreaded
      <4>2. /\ /\ UNCHANGED sockVars
            /\ batch' \subseteq batch
            /\ watched' = watched \cup {pending}
            /\ client_fds' = client_fds \cup {pending}
            /\ max_fd' = Max({ServerFd} \cup client_fds')
        BY <2>3, <3>2, PollTSame DEF PollT!new_client
      <4> QED  BY <4>1, <4>2 DEF Step, Adds, SetPrograms, EpollPrograms
    <3> QED  BY <3>1, <3>2
  <2>4. CASE PollT!Min(batch) # ServerFd /\ PollT!Starts(PollT!Min(batch))
    <3>1. Lone /\ Min(batch) # ServerFd /\ Starts(Min(batch))
      BY <2>4, PollTSame DEF Lone, SingleThreaded
    <3> QED  BY <3>1, StartsIsTurn DEF Step
  <2> QED  BY <1>2, <2>1, <2>2, <2>3, <2>4 DEF PollT!poll_loop
<1>3. ASSUME NEW s \in Slots, PollT!client_communicate(s) PROVE Step
  <2>1. s \in Slots
    OBVIOUS
  <2>2. CASE PollT!CallsRecv(s) \/ PollT!RecvReturns(s)
    <3>1. CallsRecv(s) \/ RecvReturns(s)
      BY <2>2, PollTSame
    <3> QED  BY <2>1, <3>1 DEF Step, Serves
  <2>3. CASE (PollT!SendSucceeds(s) \/ PollT!SendReturnsError(s)) /\ PollT!Done(s)
    <3>1. Answers(s)
      <4>1. (SendSucceeds(s) \/ SendReturnsError(s)) /\ Done(s)
        BY <2>3, PollTSame
      <4> QED  BY <4>1 DEF Answers
    <3> QED  BY <2>1, <3>1 DEF Step, Serves
  <2>4. CASE PollT!KilledBySend(s)
    <3>1. Ends("killed") /\ is_running' = is_running
      BY <2>4, PollTSame
    <3> QED  BY <3>1 DEF Step, Quits
  <2>5. CASE /\ ~is_running
             /\ PollT!HangsUp(s, "start")
             /\ PollT!Forgets(s[1])
             /\ UNCHANGED max_fd
    <3>1. /\ HangsUp(s, "start") /\ ~is_running /\ batch' \subseteq batch
          /\ watched' = watched \ {s[1]} /\ client_fds' = client_fds \ {s[1]}
          /\ UNCHANGED max_fd
      BY <2>5, PollTSame DEF PollT!Forgets
    <3>2. Leaves(s)
      BY <3>1 DEF Leaves, SetPrograms
    <3> QED  BY <2>1, <3>2 DEF Step, Serves
  <2>6. CASE /\ PollT!HangsUp(s, "close")
             /\ PollT!Forgets(s[1])
             /\ max_fd' = PollT!Max({ServerFd} \cup client_fds')
    <3>1. /\ HangsUp(s, "close") /\ batch' \subseteq batch
          /\ watched' = watched \ {s[1]} /\ client_fds' = client_fds \ {s[1]}
          /\ max_fd' = Max({ServerFd} \cup client_fds')
      BY <2>6, PollTSame DEF PollT!Forgets
    <3>2. Leaves(s)
      BY <3>1 DEF Leaves, SetPrograms
    <3> QED  BY <2>1, <3>2 DEF Step, Serves
  <2> QED  BY <1>3, <2>2, <2>3, <2>4, <2>5, <2>6 DEF PollT!client_communicate
<1>4. CASE PollT!Destroys
  <2>1. is_running' = FALSE /\ Ends("exit")
    BY <1>4, PollTSame DEF Destroys
  <2> QED  BY <2>1 DEF Step, Quits
<1>5. CASE PollT!stop
  BY <1>5, PollTSame DEF PollT!stop, Step
<1> QED  BY <1>1, <1>2, <1>3, <1>4, <1>5 DEF PollT!Main, PollT!Thread, PollT!Others

\* epollthread.cpp
LEMMA EpollTSteps ==
  ASSUME TypeOK, program = "epollthread",
         EpollT!Main \/ (\E s \in Slots : EpollT!Thread(s)) \/ EpollT!Others
  PROVE  Step
<1>1. CASE EpollT!init
  <2>1. Initializes(FALSE)
    BY <1>1 DEF EpollT!init, EpollT!Initializes, Initializes, EpollT!Goto, Goto,
                EpollT!sockVars, sockVars
  <2> QED  BY <2>1 DEF Step, Opens, SetPrograms
<1>2. CASE EpollT!epoll_loop
  <2>1. CASE EpollT!Loops({})
    <3>1. {} \in SUBSET Numbers
      BY DEF TypeOK, Numbers
    <3>2. Loops({})
      <4>1. EpollT!Loops({})
        BY <2>1
      <4>2. \A x : EpollT!Loops(x) => Loops(x)
        BY EpollTSame
      <4> QED  BY <4>1, <4>2
    <3>3. Lone
      BY DEF Lone, SingleThreaded
    <3>4. Passes
      BY <3>1, <3>2, <3>3, LoopsPasses
    <3> QED  BY <3>4 DEF Step
  <2>2. CASE EpollT!EpollReturns
    <3>1. WaitReturns(Ready(watched))
      BY <2>2, EpollTSame DEF EpollT!EpollReturns
    <3> QED  BY <3>1, ReadyReadable DEF TypeOK, Numbers, Step
  <2>3. CASE EpollT!new_client
    <3>1. CASE EpollT!AcceptsOne
      BY <2>3, <3>1, EpollTSame DEF Step, Meets, Lone, SingleThreaded
    <3>2. CASE ~EpollT!AcceptsOne
      <4>1. Registers /\ Lone
        BY <2>3, <3>2, EpollTSame DEF EpollT!new_client, Lone, SingleThreaded
      <4>2. /\ /\ UNCHANGED sockVars
            /\ batch' \subseteq batch
            /\ UNCHANGED <<client_fds, max_fd>>
            /\ watched' = IF fdtab[pending] = None THEN watched ELSE watched \cup {pending}
        BY <2>3, <3>2, EpollTSame DEF EpollT!new_client
      <4> QED  BY <4>1, <4>2 DEF Step, Adds, SetPrograms, EpollPrograms
    <3> QED  BY <3>1, <3>2
  <2>4. ASSUME NEW fd \in EpollT!Fds, EpollT!Starts(fd) PROVE Step
    BY <2>4, EpollTSame DEF Step, Turns, Lone, SingleThreaded
  <2> QED  BY <1>2, <2>1, <2>2, <2>3, <2>4 DEF EpollT!epoll_loop
<1>3. ASSUME NEW s \in Slots, EpollT!client_communicate(s) PROVE Step
  <2>1. s \in Slots
    OBVIOUS
  <2>2. CASE EpollT!CallsRecv(s) \/ EpollT!RecvReturns(s)
    <3>1. CallsRecv(s) \/ RecvReturns(s)
      BY <2>2, EpollTSame
    <3> QED  BY <2>1, <3>1 DEF Step, Serves
  <2>3. CASE \/ EpollT!SendSucceeds(s) /\ EpollT!Done(s)
             \/ EpollT!SendReturnsError(s) /\ IF is_running THEN EpollT!To(s, "close") ELSE EpollT!Done(s)
    <3>1. Answers(s)
      <4>1. \/ SendSucceeds(s) /\ Done(s)
            \/ SendReturnsError(s) /\ IF is_running THEN To(s, "close") ELSE Done(s)
        BY <2>3, EpollTSame
      <4> QED  BY <4>1 DEF Answers
    <3> QED  BY <2>1, <3>1 DEF Step, Serves
  <2>4. CASE EpollT!KilledBySend(s)
    <3>1. Ends("killed") /\ is_running' = is_running
      BY <2>4, EpollTSame
    <3> QED  BY <3>1 DEF Step, Quits
  <2>5. CASE ~is_running /\ EpollT!HangsUp(s, "start") /\ EpollT!Forgets(s[1])
    <3>1. /\ HangsUp(s, "start") /\ ~is_running /\ batch' \subseteq batch
          /\ watched' = watched \ {s[1]} /\ UNCHANGED <<client_fds, max_fd>>
      BY <2>5, EpollTSame DEF EpollT!Forgets
    <3>2. Leaves(s)
      BY <3>1 DEF Leaves, SetPrograms
    <3> QED  BY <2>1, <3>2 DEF Step, Serves
  <2>6. CASE EpollT!HangsUp(s, "close") /\ EpollT!Forgets(s[1])
    <3>1. /\ HangsUp(s, "close") /\ batch' \subseteq batch
          /\ watched' = watched \ {s[1]} /\ UNCHANGED <<client_fds, max_fd>>
      BY <2>6, EpollTSame DEF EpollT!Forgets
    <3>2. Leaves(s)
      BY <3>1 DEF Leaves, SetPrograms
    <3> QED  BY <2>1, <3>2 DEF Step, Serves
  <2> QED  BY <1>3, <2>2, <2>3, <2>4, <2>5, <2>6 DEF EpollT!client_communicate
<1>4. CASE EpollT!Destroys
  <2>1. is_running' = FALSE /\ Ends("exit")
    BY <1>4, EpollTSame DEF Destroys
  <2> QED  BY <2>1 DEF Step, Quits
<1>5. CASE EpollT!stop
  BY <1>5, EpollTSame DEF EpollT!stop, Step
<1> QED  BY <1>1, <1>2, <1>3, <1>4, <1>5 DEF EpollT!Main, EpollT!Thread, EpollT!Others

\* TCP_MultiThreadServer.cpp
LEMMA ClientTSteps ==
  ASSUME TypeOK, program = "multithread",
         ClientT!Main \/ (\E s \in Slots : ClientT!Thread(s))
  PROVE  Step
<1>1. CASE ClientT!init
  <2>1. Initializes(FALSE)
    BY <1>1 DEF ClientT!init, ClientT!Initializes, Initializes, ClientT!Goto, Goto,
                ClientT!sockVars, sockVars
  <2> QED  BY <2>1 DEF Step, Opens, SetPrograms
<1>2. CASE ClientT!accept_clients_loop
  <2>1. CASE /\ mpc = "scan" /\ ClientT!Goto("accept")
             /\ UNCHANGED <<ClientT!sockVars, is_running, view, batch, pending, ClientT!books,
                            share, thr>>
    <3>1. Listens
      BY <2>1 DEF Listens, ClientT!Goto, Goto, ClientT!sockVars, sockVars, ClientT!books, books
    <3> QED  BY <3>1 DEF Step
  <2>2. CASE /\ mpc = "accept"
             /\ \E c \in backlog, fd \in ClientT!FreeFds \cap ClientT!Available :
                  /\ ClientT!Accepts(c, fd, ClientT!HeldFds)
                  /\ thr' = [thr EXCEPT ![<<fd, 1>>].pc = "start"]
             /\ ClientT!Goto("scan")
             /\ UNCHANGED <<is_running, view, batch, pending, ClientT!books, share>>
    <3>1. /\ mpc = "accept" /\ Goto("scan")
          /\ UNCHANGED <<is_running, view, batch, pending, books, share>>
      BY <2>2 DEF ClientT!Goto, Goto, ClientT!books, books
    <3>2. \E c \in backlog, fd \in FreeFds \cap Available :
            /\ Accepts(c, fd, HeldFds)
            /\ thr' = [thr EXCEPT ![<<fd, 1>>].pc = "start"]
      BY <2>2, ClientTSame
    <3>3. Hires
      BY <3>1, <3>2 DEF Hires
    <3> QED  BY <3>3 DEF Step
  <2> QED  BY <1>2, <2>1, <2>2 DEF ClientT!accept_clients_loop
<1>3. ASSUME NEW s \in Slots, ClientT!client_communicate(s) PROVE Step
  <2>1. s \in Slots
    OBVIOUS
  <2>2. CASE ClientT!CallsRecv(s) \/ ClientT!RecvReturns(s)
    <3>1. CallsRecv(s) \/ RecvReturns(s)
      BY <2>2, ClientTSame
    <3> QED  BY <2>1, <3>1 DEF Step, Serves
  <2>3. CASE \/ ClientT!SendSucceeds(s) /\ ClientT!To(s, "start")
             \/ ClientT!SendReturnsError(s) /\ ClientT!To(s, "close")
    <3>1. Answers(s)
      <4>1. (SendSucceeds(s) /\ To(s, "start")) \/ (SendReturnsError(s) /\ To(s, "close"))
        BY <2>3, ClientTSame
      <4> QED  BY <4>1 DEF Answers
    <3> QED  BY <2>1, <3>1 DEF Step, Serves
  <2>4. CASE ClientT!KilledBySend(s)
    <3>1. Ends("killed") /\ is_running' = is_running
      BY <2>4, ClientTSame
    <3> QED  BY <3>1 DEF Step, Quits
  <2>5. CASE ClientT!HangsUp(s, "close") /\ UNCHANGED <<batch, ClientT!books>>
    <3>1. /\ HangsUp(s, "close") /\ batch' \subseteq batch
          /\ UNCHANGED <<watched, client_fds, max_fd>>
      BY <2>5, ClientTSame DEF ClientT!books
    <3>2. Leaves(s)
      BY <3>1 DEF Leaves, SetPrograms
    <3> QED  BY <2>1, <3>2 DEF Step, Serves
  <2> QED  BY <1>3, <2>2, <2>3, <2>4, <2>5 DEF ClientT!client_communicate
<1> QED  BY <1>1, <1>2, <1>3 DEF ClientT!Main, ClientT!Thread

\* Whatever happens, the program stays the one it is.
LEMMA NextSteps ==
  ASSUME TypeOK, [Next]_vars
  PROVE  /\ UNCHANGED program
         /\ Step \/ ClientsAct \/ UNCHANGED eventVars
<1>1. CASE Main
  <2>1. UNCHANGED program
    BY <1>1 DEF Main
  <2>2. CASE program = "select" /\ Select!Main
    BY <2>1, <2>2, SelectSteps
  <2>3. CASE program = "pollserver" /\ Poll!Main
    BY <2>1, <2>3, PollSteps
  <2>4. CASE program = "epollserver" /\ Epoll!Main
    BY <2>1, <2>4, EpollSteps
  <2>5. CASE program = "selectthread" /\ SelectT!Main
    BY <2>1, <2>5, SelectTSteps
  <2>6. CASE program = "pollthread" /\ PollT!Main
    BY <2>1, <2>6, PollTSteps
  <2>7. CASE program = "epollthread" /\ EpollT!Main
    BY <2>1, <2>7, EpollTSteps
  <2>8. CASE program = "multithread" /\ ClientT!Main
    BY <2>1, <2>8, ClientTSteps
  <2> QED  BY <1>1, <2>2, <2>3, <2>4, <2>5, <2>6, <2>7, <2>8 DEF Main
<1>2. CASE Threads
  <2>1. UNCHANGED program
    BY <1>2 DEF Threads
  <2>2. PICK s \in Slots :
          \/ program = "selectthread" /\ SelectT!Thread(s)
          \/ program = "pollthread" /\ PollT!Thread(s)
          \/ program = "epollthread" /\ EpollT!Thread(s)
          \/ program = "multithread" /\ ClientT!Thread(s)
    BY <1>2 DEF Threads
  <2>3. CASE program = "selectthread" /\ SelectT!Thread(s)
    BY <2>1, <2>3, SelectTSteps
  <2>4. CASE program = "pollthread" /\ PollT!Thread(s)
    BY <2>1, <2>4, PollTSteps
  <2>5. CASE program = "epollthread" /\ EpollT!Thread(s)
    BY <2>1, <2>5, EpollTSteps
  <2>6. CASE program = "multithread" /\ ClientT!Thread(s)
    BY <2>1, <2>6, ClientTSteps
  <2> QED  BY <2>2, <2>3, <2>4, <2>5, <2>6
<1>3. CASE Others
  <2>1. UNCHANGED program
    BY <1>3 DEF Others
  <2>2. CASE program = "select" /\ Select!Others
    BY <2>1, <2>2, SelectSteps
  <2>3. CASE program = "pollserver" /\ Poll!Others
    BY <2>1, <2>3, PollSteps
  <2>4. CASE program = "epollserver" /\ Epoll!Others
    BY <2>1, <2>4, EpollSteps
  <2>5. CASE program = "selectthread" /\ SelectT!Others
    BY <2>1, <2>5, SelectTSteps
  <2>6. CASE program = "pollthread" /\ PollT!Others
    BY <2>1, <2>6, PollTSteps
  <2>7. CASE program = "epollthread" /\ EpollT!Others
    BY <2>1, <2>7, EpollTSteps
  <2> QED  BY <1>3, <2>2, <2>3, <2>4, <2>5, <2>6, <2>7 DEF Others
<1>4. CASE Clients
  BY <1>4 DEF Clients
<1>5. CASE Rest \/ UNCHANGED vars
  BY <1>5 DEF Rest, vars
<1> QED  BY <1>1, <1>2, <1>3, <1>4, <1>5 DEF Next

-----------------------------------------------------------------------------
(* The kinds of step keep the invariant, and hang up on nobody.            *)

SlotRec == [pc : {"idle", "start", "recv", "send", "close"},
            conn : Conns \cup {None}, chunk : Chunks \cup {None}]

DropsNobody ==
  Running /\ ~reused /\ mpc' \notin {"exit", "killed"} =>
    \A fd \in Fds : fdtab[fd] # None /\ ~Gone(fdtab[fd]) => fdtab'[fd] = fdtab[fd]

\* The numbers of the slots are descriptors.
LEMMA SlotIsFd ==
  /\ \A s \in Slots : s[1] \in Fds
  /\ \A fd \in Fds : <<fd, 1>> \in Slots
  BY EventServerAssumption DEF Slots

\* Descriptors are natural numbers up to MaxFd, and the listening socket is
\* none of the clients'.
LEMMA NumbersAreNats ==
  /\ Numbers \subseteq 0..MaxFd /\ Fds \subseteq Nat
  /\ ServerFd \in Numbers /\ ServerFd \notin Fds /\ None \notin Numbers
<1>1. ServerFd \in Nat /\ MaxFd \in Nat /\ ServerFd < MaxFd /\ None \notin ServerFd..MaxFd
  BY SocketsAssumption
<1> QED  BY <1>1 DEF Numbers, Fds

\* None is no connection.
LEMMA NoConn == None \notin Conns
  BY SocketsAssumption

\* The largest of a set of open numbers is one of them.
LEMMA MaxOfNumbers ==
  ASSUME NEW S \in SUBSET Numbers, S # {}
  PROVE  Max(S) \in S /\ Max(S) \in 0..MaxFd /\ \A fd \in S : fd <= Max(S)
<1>1. S \in SUBSET (0..MaxFd) /\ S # {} /\ MaxFd \in Nat
  BY NumbersAreNats, SocketsAssumption
<1>2. Max(S) \in S /\ \A fd \in S : fd <= Max(S)
  BY <1>1, MaxOfNats
<1> QED  BY <1>1, <1>2

\* A step that changes nothing of the sockets nor of the threads, and after
\* which the main thread is not registering anybody.
LEMMA SameSockets ==
  ASSUME UNCHANGED sockVars
  PROVE  /\ OneNumberEach => OneNumberEach'
         /\ SockTypeOK => SockTypeOK'
         /\ DropsNobody
         /\ \A fd : Readable(fd) <=> Readable(fd)'
<1>1. OneNumberEach => OneNumberEach'
  BY SameNumbers DEF sockVars
<1>2. SockTypeOK => SockTypeOK'
  BY SockStutters
<1>3. DropsNobody
  BY DEF DropsNobody, sockVars
<1>4. \A fd : Readable(fd) <=> Readable(fd)'
  BY DEF Readable, Unread, Gone, sockVars
<1> QED  BY <1>1, <1>2, <1>3, <1>4

\* init()
LEMMA OpensKeeps ==
  ASSUME IInv, Opens, UNCHANGED program
  PROVE  IInv' /\ DropsNobody
<1>1. PICK b \in BOOLEAN : Initializes(b) /\ (program \in SetPrograms => b)
  BY DEF Opens
<1>2. /\ mpc = "init" /\ mpc' \in {"scan", "exit"}
      /\ mpc' = "scan" =>
           watched' = {ServerFd} /\ (program \in SetPrograms => max_fd' = ServerFd)
      /\ mpc' = "exit" => UNCHANGED <<watched, max_fd>>
      /\ max_fd' \in {ServerFd, max_fd}
      /\ UNCHANGED <<sockVars, is_running, view, batch, pending, client_fds, share, thr>>
  BY <1>1 DEF Initializes, Goto
<1>3. TypeOK /\ OneNumberEach /\ Phases /\ Hands /\ Alone
  BY DEF IInv
<1>4. OneNumberEach' /\ SockTypeOK' /\ DropsNobody /\ \A fd : Readable(fd) <=> Readable(fd)'
  BY <1>2, <1>3, SameSockets DEF TypeOK
<1>5. TypeOK'
  <2>1. max_fd' \in 0..MaxFd
    BY <1>2, <1>3, NumbersAreNats DEF TypeOK
  <2>2. watched' \subseteq Fds \cup {ServerFd}
    BY <1>2, <1>3 DEF TypeOK
  <2> QED  BY <1>2, <1>3, <1>4, <2>1, <2>2 DEF TypeOK
<1>6. Busy = {} /\ client_fds = {} /\ (\A fd \in Fds : fdtab[fd] = None) /\ pending = None
  BY <1>2, <1>3 DEF Phases
<1>7. Phases' /\ Hands'
  BY <1>2, <1>3, <1>6 DEF Phases, Hands, Gone, sockVars
<1>8. Books'
  BY <1>2, <1>6, NumbersAreNats DEF Books, Running, sockVars
<1>9. Alone'
  BY <1>2, <1>4, <1>6, <1>3 DEF Alone, Busy, sockVars
<1> QED  BY <1>4, <1>5, <1>7, <1>8, <1>9 DEF IInv

\* The main loop is about to wait, or is left.
LEMMA PassesKeeps ==
  ASSUME IInv, Passes, UNCHANGED program
  PROVE  IInv' /\ DropsNobody
<1>1. Lone
  BY DEF Passes
<1>2. PICK fds \in SUBSET Numbers : Loops(fds)
  BY DEF Passes
<1>3. /\ mpc = "scan" /\ batch = {} /\ mpc' \in {"wait", "dtor"}
      /\ view' \subseteq Numbers \cup view
      /\ UNCHANGED <<sockVars, is_running, batch, pending, books, share, thr>>
  BY <1>2 DEF Loops, Goto
<1>4. TypeOK /\ OneNumberEach /\ Phases /\ Hands /\ Books
  BY DEF IInv
<1>5. OneNumberEach' /\ SockTypeOK' /\ DropsNobody
  BY <1>3, <1>4, SameSockets DEF TypeOK
<1>6. TypeOK'
  BY <1>3, <1>4, <1>5 DEF TypeOK, Numbers, books
<1>7. Phases' /\ Hands'
  BY <1>3, <1>4 DEF Phases, Hands, Gone, sockVars
<1>8. Books'
  BY <1>3, <1>4 DEF Books, Running, sockVars, books
<1>9. Alone'
  BY <1>1, <1>3 DEF Alone, Lone, Busy, sockVars
<1> QED  BY <1>5, <1>6, <1>7, <1>8, <1>9 DEF IInv

\* The wait returns what is ready.
LEMMA WakesKeeps ==
  ASSUME IInv, Wakes, UNCHANGED program
  PROVE  IInv' /\ DropsNobody
<1>1. PICK fds \in SUBSET Numbers :
        WaitReturns(fds) /\ \A fd \in fds \ {ServerFd} : Readable(fd)
  BY DEF Wakes
<1>2. /\ mpc = "wait" /\ mpc' = "scan" /\ batch' = fds /\ view' = {}
      /\ UNCHANGED <<sockVars, is_running, pending, books, share, thr>>
  BY <1>1 DEF WaitReturns, Goto
<1>3. TypeOK /\ OneNumberEach /\ Phases /\ Hands /\ Books /\ Alone
  BY DEF IInv
<1>4. OneNumberEach' /\ SockTypeOK' /\ DropsNobody /\ \A fd : Readable(fd) <=> Readable(fd)'
  BY <1>2, <1>3, SameSockets DEF TypeOK
<1>5. TypeOK'
  BY <1>2, <1>3, <1>4 DEF TypeOK, Numbers, books
<1>6. Phases' /\ Hands'
  BY <1>2, <1>3 DEF Phases, Hands, Gone, sockVars
<1>7. Books'
  BY <1>2, <1>3 DEF Books, Running, sockVars, books
<1>8. Alone'
  BY <1>1, <1>2, <1>3, <1>4 DEF Alone, Busy
<1> QED  BY <1>4, <1>5, <1>6, <1>7, <1>8 DEF IInv

\* select returns -1.
LEMMA FailsKeeps ==
  ASSUME IInv, Fails, UNCHANGED program
  PROVE  IInv' /\ DropsNobody
<1>1. /\ mpc = "wait" /\ mpc' \in {"scan", "dtor"} /\ view' = {}
      /\ UNCHANGED <<sockVars, is_running, batch, pending, books, share, thr>>
  BY DEF Fails, WaitFails, Goto
<1>2. TypeOK /\ OneNumberEach /\ Phases /\ Hands /\ Books /\ Alone
  BY DEF IInv
<1>3. OneNumberEach' /\ SockTypeOK' /\ DropsNobody /\ \A fd : Readable(fd) <=> Readable(fd)'
  BY <1>1, <1>2, SameSockets DEF TypeOK
<1>4. TypeOK'
  BY <1>1, <1>2, <1>3 DEF TypeOK, books
<1>5. Phases' /\ Hands'
  BY <1>1, <1>2 DEF Phases, Hands, Gone, sockVars
<1>6. Books'
  BY <1>1, <1>2 DEF Books, Running, sockVars, books
<1>7. Alone'
  BY <1>1, <1>2, <1>3 DEF Alone, Busy
<1> QED  BY <1>3, <1>4, <1>5, <1>6, <1>7 DEF IInv

\* accept in a main thread that waits for events.
LEMMA MeetsKeeps ==
  ASSUME IInv, Meets, UNCHANGED program
  PROVE  IInv' /\ DropsNobody
<1>1. TypeOK /\ OneNumberEach /\ Phases /\ Hands /\ Books /\ Alone
  BY DEF IInv
<1>2. /\ Lone /\ mpc = "scan" /\ batch' = batch \ {ServerFd}
      /\ UNCHANGED <<is_running, view, books, share, thr>>
  BY DEF Meets, AcceptsOne, Looks
<1>3. CASE UNCHANGED <<sockVars, mpc, pending>>
  <2>1. OneNumberEach' /\ SockTypeOK' /\ DropsNobody /\ \A fd : Readable(fd) <=> Readable(fd)'
    BY <1>1, <1>3, SameSockets DEF TypeOK
  <2>2. TypeOK'
    BY <1>1, <1>2, <1>3, <2>1 DEF TypeOK, books
  <2>3. Phases' /\ Hands'
    BY <1>1, <1>2, <1>3 DEF Phases, Hands, Gone, sockVars
  <2>4. Books'
    BY <1>1, <1>2, <1>3 DEF Books, Running, sockVars, books
  <2>5. Alone'
    BY <1>1, <1>2, <1>3, <2>1 DEF Alone, Lone, Busy
  <2> QED  BY <2>1, <2>2, <2>3, <2>4, <2>5 DEF IInv
<1>4. CASE /\ is_running /\ mpc' = "register"
           /\ \E c \in backlog, fd \in FreeFds \cap Available :
                Accepts(c, fd, HeldFds) /\ pending' = fd
  <2>1. PICK c \in backlog, fd \in FreeFds \cap Available :
          Accepts(c, fd, HeldFds) /\ pending' = fd
    BY <1>4
  <2>2. /\ fd \in Fds /\ fdtab[fd] = None /\ c \in Conns /\ c # None
    BY <1>1, <2>1, NoConn DEF FreeFds, TypeOK, SockTypeOK
  <2>3. /\ fdtab' = [fdtab EXCEPT ![fd] = c] /\ reused' = (reused \/ fd \in HeldFds)
        /\ UNCHANGED peer
    BY <2>1 DEF Accepts
  <2>4. /\ fdtab'[fd] = c
        /\ \A gd \in Fds : gd # fd => fdtab'[gd] = fdtab[gd]
    BY <1>1, <2>2, <2>3 DEF TypeOK, SockTypeOK
  <2>5. OneNumberEach' /\ SockTypeOK'
    BY <1>1, <2>1, <2>2, AcceptsOneNumber, AcceptsTypes DEF TypeOK
  <2>6. TypeOK'
    BY <1>1, <1>2, <1>4, <2>1, <2>2, <2>5 DEF TypeOK, books
  <2>7. Phases'
    BY <1>4, <2>1, <2>2 DEF Phases
  <2>8. Hands'
    <3>1. ASSUME ~reused', NEW s \in Busy PROVE s[1] # fd /\ fdtab'[s[1]] = fdtab[s[1]]
      <4>1. s[1] \in HeldFds
        BY DEF HeldFds
      <4>2. s[1] \in Fds
        BY SlotIsFd DEF Busy
      <4>3. fd \notin HeldFds
        BY <2>3, <3>1
      <4> QED  BY <2>4, <4>1, <4>2, <4>3
    <3> SUFFICES ASSUME NEW s \in Slots
                 PROVE  /\ thr[s].pc = "recv" => thr[s].conn \in Conns
                        /\ thr[s].pc = "send" => thr[s].chunk \in Chunks
                        /\ ~reused' =>
                             /\ thr[s].pc = "recv" => fdtab'[s[1]] \in {None, thr[s].conn}
                             /\ thr[s].pc = "close" => fdtab'[s[1]] = None \/ Gone(fdtab'[s[1]])
                             /\ thr[s].pc # "idle" => s[1] # fd
      BY <1>2, <2>1, <2>3 DEF Hands, Gone
    <3>2. thr[s].pc # "idle" => s \in Busy
      BY DEF Busy
    <3>3. /\ thr[s].pc = "recv" => thr[s].conn \in Conns
          /\ thr[s].pc = "send" => thr[s].chunk \in Chunks
          /\ ~reused /\ thr[s].pc = "recv" => fdtab[s[1]] \in {None, thr[s].conn}
          /\ ~reused /\ thr[s].pc = "close" => fdtab[s[1]] = None \/ Gone(fdtab[s[1]])
      BY <1>1 DEF Hands
    <3>4. CASE thr[s].pc = "idle" \/ reused'
      BY <3>3, <3>4
    <3>5. CASE thr[s].pc # "idle" /\ ~reused'
      <4>1. s[1] # fd /\ fdtab'[s[1]] = fdtab[s[1]] /\ ~reused
        BY <2>3, <3>1, <3>2, <3>5
      <4> QED  BY <2>3, <3>3, <4>1
    <3> QED  BY <3>4, <3>5
  <2>9. Books'
    <3>1. ASSUME program # "multithread", ~reused
          PROVE  /\ ServerFd \in watched
                 /\ \A gd \in Fds : gd \in watched <=> fdtab'[gd] # None /\ gd # fd
                 /\ program \in SetPrograms =>
                      /\ client_fds = watched \ {ServerFd}
                      /\ max_fd \in watched /\ \A gd \in watched : gd <= max_fd
      <4>1. Running
        BY <1>2, <1>4 DEF Running
      <4>2. pending = None
        BY <1>1, <1>2 DEF Phases
      <4> QED  BY <1>1, <2>2, <2>4, <3>1, <4>1, <4>2, NumbersAreNats DEF Books, Numbers
    <3> QED  BY <1>2, <2>1, <2>2, <2>3, <2>4, <3>1 DEF Books, books
  <2>10. Alone'
    <3>1. \A gd \in Fds : Readable(gd) => Readable(gd)'
      BY <1>1, <2>1, <2>2, AcceptsKeepsReadable DEF TypeOK
    <3>2. batch \subseteq Fds \cup {ServerFd}
      BY <1>1 DEF TypeOK
    <3> QED  BY <1>1, <1>2, <3>1, <3>2 DEF Alone, Lone, Busy
  <2>11. DropsNobody
    BY <2>2, <2>4 DEF DropsNobody
  <2> QED  BY <2>5, <2>6, <2>7, <2>8, <2>9, <2>10, <2>11 DEF IInv
<1> QED  BY <1>3, <1>4 DEF Meets, AcceptsOne, Goto

\* The new descriptor is registered.
LEMMA AddsKeeps ==
  ASSUME IInv, Adds, UNCHANGED program
  PROVE  IInv' /\ DropsNobody
<1>1. TypeOK /\ OneNumberEach /\ Phases /\ Hands /\ Books /\ Alone
  BY DEF IInv
<1>2. /\ Lone /\ mpc = "register" /\ mpc' = "scan" /\ pending' = None /\ batch' \subseteq batch
      /\ UNCHANGED <<sockVars, is_running, view, share, thr>>
      /\ program \in SetPrograms \cup EpollPrograms
      /\ program \in EpollPrograms /\ fdtab[pending] = None => watched' = watched
      /\ ~(program \in EpollPrograms /\ fdtab[pending] = None) =>
           watched' = watched \cup {pending}
      /\ program \in SetPrograms => client_fds' = client_fds \cup {pending}
      /\ program \notin SetPrograms => UNCHANGED <<client_fds, max_fd>>
  BY DEF Adds, Registers, Goto
<1>3. program \in SetPrograms => max_fd' = Max({ServerFd} \cup client_fds')
  BY DEF Adds
<1>4. pending \in Fds
  BY <1>1, <1>2 DEF Phases
<1>5. client_fds' \subseteq Fds /\ watched' \subseteq Numbers
  BY <1>1, <1>2, <1>4 DEF TypeOK, Numbers
<1>6. program \in SetPrograms =>
        /\ max_fd' \in {ServerFd} \cup client_fds' /\ max_fd' \in 0..MaxFd
        /\ \A fd \in {ServerFd} \cup client_fds' : fd <= max_fd'
  <2>1. {ServerFd} \cup client_fds' \in SUBSET Numbers /\ {ServerFd} \cup client_fds' # {}
    BY <1>5 DEF Numbers
  <2> QED  BY <1>3, <2>1, MaxOfNumbers
<1>7. OneNumberEach' /\ SockTypeOK' /\ DropsNobody /\ \A fd : Readable(fd) <=> Readable(fd)'
  BY <1>1, <1>2, SameSockets DEF TypeOK
<1>8. TypeOK'
  <2>1. max_fd' \in 0..MaxFd
    BY <1>1, <1>2, <1>6 DEF TypeOK
  <2> QED  BY <1>1, <1>2, <1>5, <1>7, <2>1 DEF TypeOK, Numbers
<1>9. Phases' /\ Hands'
  BY <1>1, <1>2 DEF Phases, Hands, Gone, sockVars
<1>10. Books'
  <2> SUFFICES ASSUME Running', ~reused', program # "multithread"
               PROVE  /\ ServerFd \in watched'
                      /\ \A fd \in Fds : fd \in watched' <=> fdtab[fd] # None /\ fd # None
                      /\ program \in SetPrograms =>
                           /\ client_fds' = watched' \ {ServerFd}
                           /\ max_fd' \in watched' /\ \A fd \in watched' : fd <= max_fd'
    BY <1>2 DEF Books, sockVars
  <2>1. Running /\ ~reused
    BY <1>2 DEF Running, sockVars
  <2>2. /\ ServerFd \in watched /\ fdtab[pending] # None
        /\ \A fd \in Fds : fd \in watched <=> fdtab[fd] # None /\ fd # pending
        /\ program \in SetPrograms => client_fds = watched \ {ServerFd}
    BY <1>1, <1>2, <2>1 DEF Books
  <2>3. watched' = watched \cup {pending}
    BY <1>2, <2>2
  <2>4. program \in SetPrograms => watched' = {ServerFd} \cup client_fds'
    BY <1>2, <2>2, <2>3
  <2>5. None \notin Fds
    BY NumbersAreNats DEF Numbers
  <2>6. program \in SetPrograms => ServerFd \notin client_fds'
    BY <1>5, NumbersAreNats
  <2> QED  BY <1>4, <1>6, <2>2, <2>3, <2>4, <2>5, <2>6
<1>11. Alone'
  BY <1>1, <1>2, <1>7 DEF Alone, Lone, Busy
<1> QED  BY <1>7, <1>8, <1>9, <1>10, <1>11 DEF IInv

\* What happens to the slots when client_communicate begins.
LEMMA StartsInASlot ==
  ASSUME TypeOK, NEW fd \in Fds, Starts(fd)
  PROVE  \/ UNCHANGED thr
         \/ \E s \in Slots :
              /\ s[1] = fd /\ thr[s].pc = "idle"
              /\ thr' = [thr EXCEPT ![s].pc = "start"]
<1> DEFINE free == {s \in Slots \ Busy : s[1] = fd /\ s[2] <= share[fd]}
<1>1. thr' = IF free = {} THEN thr
             ELSE [thr EXCEPT ![CHOOSE s \in free : \A r \in free : s[2] <= r[2]].pc = "start"]
  BY DEF Starts
<1>2. CASE free = {}
  BY <1>1, <1>2
<1>3. CASE free # {}
  <2>1. \E s \in free : \A r \in free : s[2] <= r[2]
    <3> DEFINE T == {s[2] : s \in free}
    <3>1. T \in SUBSET Nat /\ T # {}
      BY <1>3 DEF Slots
    <3> HIDE DEF free
    <3>2. PICK n \in T : \A m \in T : n <= m
      <4> HIDE DEF T
      <4> QED  BY <3>1, HasLeast
    <3> QED  BY <3>2
  <2>2. PICK s \in free : s = CHOOSE q \in free : \A r \in free : q[2] <= r[2]
    <3> HIDE DEF free
    <3> QED  BY <2>1
  <2>3. thr' = [thr EXCEPT ![s].pc = "start"]
    BY <1>1, <1>3, <2>2
  <2>4. s \in Slots /\ s[1] = fd /\ thr[s].pc = "idle"
    BY DEF Busy
  <2> QED  BY <2>3, <2>4
<1> QED  BY <1>2, <1>3

\* client_communicate begins.
LEMMA TurnsKeeps ==
  ASSUME IInv, Turns, UNCHANGED program
  PROVE  IInv' /\ DropsNobody
<1>1. TypeOK /\ OneNumberEach /\ Phases /\ Hands /\ Books /\ Alone
  BY DEF IInv
<1>2. PICK fd \in Fds : Lone /\ Starts(fd)
  BY DEF Turns
<1>3. /\ Lone /\ mpc = "scan" /\ fd \in batch /\ batch' = batch \ {fd}
      /\ UNCHANGED <<sockVars, is_running, mpc, view, pending, books, share>>
  BY <1>2 DEF Starts, Looks
<1>4. OneNumberEach' /\ SockTypeOK' /\ DropsNobody /\ \A gd : Readable(gd) <=> Readable(gd)'
  BY <1>1, <1>3, SameSockets DEF TypeOK
<1>5. Phases'
  <2>1. mpc # "init" /\ mpc # "register" /\ UNCHANGED <<mpc, pending>>
    BY <1>3
  <2> QED  BY <1>1, <2>1 DEF Phases
<1>6. Books'
  BY <1>1, <1>3 DEF Books, Running, sockVars, books
<1>7. CASE UNCHANGED thr
  <2>1. TypeOK'
    BY <1>1, <1>3, <1>4, <1>7 DEF TypeOK, books
  <2>2. Hands'
    BY <1>1, <1>3, <1>7 DEF Hands, Gone, sockVars
  <2>3. Alone'
    BY <1>1, <1>3, <1>4, <1>7 DEF Alone, Lone, Busy
  <2> QED  BY <1>4, <1>5, <1>6, <2>1, <2>2, <2>3 DEF IInv
<1>8. CASE \E s \in Slots :
             /\ s[1] = fd /\ thr[s].pc = "idle"
             /\ thr' = [thr EXCEPT ![s].pc = "start"]
  <2>1. PICK s \in Slots :
          /\ s[1] = fd /\ thr[s].pc = "idle"
          /\ thr' = [thr EXCEPT ![s].pc = "start"]
    BY <1>8
  <2>2. thr \in [Slots -> SlotRec]
    BY <1>1 DEF TypeOK, SlotRec
  <2>3. /\ thr' \in [Slots -> SlotRec] /\ thr'[s].pc = "start"
        /\ \A q \in Slots : q # s => thr'[q] = thr[q]
    BY <2>1, <2>2 DEF SlotRec
  <2>4. TypeOK'
    BY <1>1, <1>3, <1>4, <2>3 DEF TypeOK, SlotRec, books
  <2>5. Hands'
    BY <1>1, <1>3, <2>3 DEF Hands, Gone, sockVars
  <2>6. Alone'
    <3>1. ServerFd \notin Fds
      BY NumbersAreNats
    <3>2. program \in SingleThreaded => Readable(fd) /\ Busy = {} /\ Busy' = {s}
      BY <1>1, <1>3, <2>1, <2>3, <3>1 DEF Alone, Lone, Busy
    <3> QED  BY <1>1, <1>3, <1>4, <2>1, <2>3, <3>2 DEF Alone
  <2> QED  BY <1>4, <1>5, <1>6, <2>4, <2>5, <2>6 DEF IInv
<1> QED  BY <1>1, <1>2, <1>7, <1>8, StartsInASlot

\* The process ends.
LEMMA QuitsKeeps ==
  ASSUME IInv, Quits, UNCHANGED program
  PROVE  IInv' /\ DropsNobody
<1>1. TypeOK /\ OneNumberEach
  BY DEF IInv
<1>2. /\ is_running' \in {is_running, FALSE} /\ mpc' \in {"exit", "killed"}
      /\ Closes(Fds) /\ thr' = [s \in Slots |-> Idle]
      /\ view' = {} /\ batch' = {} /\ pending' = None
      /\ watched' = {} /\ client_fds' = {} /\ max_fd' = 0 /\ share' = share
  BY DEF Quits, Ends, Goto
<1>3. OneNumberEach' /\ SockTypeOK'
  BY <1>1, <1>2, ClosesOneNumber, ClosesTypes DEF TypeOK
<1>4. \A s \in Slots : thr'[s] = Idle
  BY <1>2
<1>5. Idle \in SlotRec
  BY DEF Idle, SlotRec
<1>6. TypeOK'
  <2>1. thr' \in [Slots -> SlotRec]
    BY <1>2, <1>5
  <2>2. 0 \in 0..MaxFd
    BY SocketsAssumption
  <2>3. is_running' \in BOOLEAN
    BY <1>1, <1>2 DEF TypeOK
  <2> QED  BY <1>1, <1>2, <1>3, <2>1, <2>2, <2>3 DEF TypeOK, SlotRec
<1>7. Phases' /\ Hands'
  BY <1>2, <1>4 DEF Phases, Hands, Idle
<1>8. Books' /\ Alone' /\ DropsNobody
  BY <1>2, <1>4 DEF Books, Running, Alone, Busy, Idle, DropsNobody
<1> QED  BY <1>3, <1>6, <1>7, <1>8 DEF IInv

\* accept, and a thread for the client.
LEMMA HiresKeeps ==
  ASSUME IInv, Hires, UNCHANGED program
  PROVE  IInv' /\ DropsNobody
<1>1. TypeOK /\ OneNumberEach /\ Phases /\ Hands
  BY DEF IInv
<1>2. PICK c \in backlog, fd \in FreeFds \cap Available :
        /\ Accepts(c, fd, HeldFds)
        /\ thr' = [thr EXCEPT ![<<fd, 1>>].pc = "start"]
  BY DEF Hires
<1>3. /\ program = "multithread" /\ mpc = "accept" /\ mpc' = "scan"
      /\ UNCHANGED <<is_running, view, batch, pending, books, share>>
  BY DEF Hires, Goto
<1>4. fd \in Fds /\ fdtab[fd] = None /\ <<fd, 1>> \in Slots
  BY <1>2, SlotIsFd DEF FreeFds
<1>5. /\ fdtab' = [fdtab EXCEPT ![fd] = c] /\ reused' = (reused \/ fd \in HeldFds)
      /\ UNCHANGED peer
  BY <1>2 DEF Accepts
<1>6. \A gd \in Fds : gd # fd => fdtab'[gd] = fdtab[gd]
  BY <1>1, <1>4, <1>5 DEF TypeOK, SockTypeOK
<1>7. OneNumberEach' /\ SockTypeOK'
  BY <1>1, <1>2, <1>4, AcceptsOneNumber, AcceptsTypes DEF TypeOK
<1>8. /\ thr' \in [Slots -> SlotRec] /\ thr'[<<fd, 1>>].pc = "start"
      /\ \A q \in Slots : q # <<fd, 1>> => thr'[q] = thr[q]
  <2>1. thr \in [Slots -> SlotRec]
    BY <1>1 DEF TypeOK, SlotRec
  <2>2. PICK s \in Slots : s = <<fd, 1>>
    BY <1>4
  <2>3. thr' = [thr EXCEPT ![s].pc = "start"]
    BY <1>2, <2>2
  <2>4. /\ thr' \in [Slots -> SlotRec] /\ thr'[s].pc = "start"
        /\ \A q \in Slots : q # s => thr'[q] = thr[q]
    BY <2>1, <2>3 DEF SlotRec
  <2> QED  BY <2>2, <2>4
<1>9. TypeOK'
  BY <1>1, <1>3, <1>7, <1>8 DEF TypeOK, SlotRec, books
<1>10. Phases'
  <2>1. mpc # "register" /\ UNCHANGED pending
    BY <1>3
  <2> QED  BY <1>1, <1>3, <2>1 DEF Phases
<1>11. Hands'
  <2> SUFFICES ASSUME NEW s \in Slots
               PROVE  /\ thr'[s].pc = "recv" => thr'[s].conn \in Conns
                      /\ thr'[s].pc = "send" => thr'[s].chunk \in Chunks
                      /\ ~reused' =>
                           /\ thr'[s].pc = "recv" => fdtab'[s[1]] \in {None, thr'[s].conn}
                           /\ thr'[s].pc = "close" => fdtab'[s[1]] = None \/ Gone(fdtab'[s[1]])
    BY <1>3, <1>5 DEF Hands, Gone
  <2>1. CASE s = <<fd, 1>>
    BY <1>8, <2>1
  <2>2. CASE s # <<fd, 1>>
    <3>1. thr'[s] = thr[s]
      BY <1>8, <2>2
    <3>2. /\ thr[s].pc = "recv" => thr[s].conn \in Conns
          /\ thr[s].pc = "send" => thr[s].chunk \in Chunks
          /\ ~reused /\ thr[s].pc = "recv" => fdtab[s[1]] \in {None, thr[s].conn}
          /\ ~reused /\ thr[s].pc = "close" => fdtab[s[1]] = None \/ Gone(fdtab[s[1]])
      BY <1>1 DEF Hands
    <3>3. CASE thr[s].pc = "idle" \/ reused'
      BY <3>1, <3>2, <3>3
    <3>4. CASE thr[s].pc # "idle" /\ ~reused'
      <4>1. s[1] \in HeldFds
        BY <3>4 DEF HeldFds, Busy
      <4>2. s[1] \in Fds
        BY SlotIsFd
      <4>3. fdtab'[s[1]] = fdtab[s[1]] /\ ~reused
        BY <1>5, <1>6, <3>4, <4>1, <4>2
      <4> QED  BY <1>5, <3>1, <3>2, <4>3
    <3> QED  BY <3>3, <3>4
  <2> QED  BY <2>1, <2>2
<1>12. Books' /\ Alone'
  BY <1>3 DEF Books, Alone, SingleThreaded
<1>13. DropsNobody
  BY <1>4, <1>6 DEF DropsNobody
<1> QED  BY <1>7, <1>9, <1>10, <1>11, <1>12, <1>13 DEF IInv

\* Then it waits for the next one.
LEMMA ListensKeeps ==
  ASSUME IInv, Listens, UNCHANGED program
  PROVE  IInv' /\ DropsNobody
<1>1. TypeOK /\ OneNumberEach /\ Phases /\ Hands
  BY DEF IInv
<1>2. /\ program = "multithread" /\ mpc = "scan" /\ mpc' = "accept"
      /\ UNCHANGED <<sockVars, is_running, view, batch, pending, books, share, thr>>
  BY DEF Listens, Goto
<1>3. OneNumberEach' /\ SockTypeOK' /\ DropsNobody
  BY <1>1, <1>2, SameSockets DEF TypeOK
<1>4. TypeOK'
  BY <1>1, <1>2, <1>3 DEF TypeOK, books
<1>5. Phases' /\ Hands'
  BY <1>1, <1>2 DEF Phases, Hands, Gone, sockVars
<1>6. Books' /\ Alone'
  BY <1>2 DEF Books, Alone, SingleThreaded
<1> QED  BY <1>3, <1>4, <1>5, <1>6 DEF IInv

\* SIGINT.
LEMMA StopsKeeps ==
  ASSUME IInv, Stops, UNCHANGED program
  PROVE  IInv' /\ DropsNobody
<1>1. TypeOK /\ OneNumberEach /\ Phases /\ Hands /\ Alone
  BY DEF IInv
<1>2. /\ is_running' = FALSE /\ mpc # "init"
      /\ \/ mpc' = mpc /\ view' = view
         \/ mpc = "wait" /\ mpc' = "dtor" /\ view' = {}
      /\ UNCHANGED <<sockVars, batch, pending, books, share, thr>>
  BY DEF Stops, Goto
<1>3. OneNumberEach' /\ SockTypeOK' /\ DropsNobody /\ \A fd : Readable(fd) <=> Readable(fd)'
  BY <1>1, <1>2, SameSockets DEF TypeOK
<1>4. TypeOK'
  BY <1>1, <1>2, <1>3 DEF TypeOK, books
<1>5. Phases'
  BY <1>1, <1>2 DEF Phases
<1>6. Hands'
  BY <1>1, <1>2 DEF Hands, Gone, sockVars
<1>7. Books'
  BY <1>2 DEF Books, Running
<1>8. Alone'
  BY <1>1, <1>2, <1>3 DEF Alone, Busy, sockVars, Unread, Gone
<1> QED  BY <1>3, <1>4, <1>5, <1>6, <1>7, <1>8 DEF IInv

\* A thread calls recv.
LEMMA CallsKeeps ==
  ASSUME IInv, NEW s \in Slots, CallsRecv(s), UNCHANGED program
  PROVE  IInv' /\ DropsNobody
<1>1. TypeOK /\ OneNumberEach /\ Phases /\ Hands /\ Books /\ Alone
  BY DEF IInv
<1>2. /\ thr[s].pc = "start"
      /\ thr' = [thr EXCEPT ![s].pc = IF fdtab[s[1]] = None THEN "close" ELSE "recv",
                            ![s].conn = fdtab[s[1]]]
      /\ UNCHANGED <<sockVars, is_running, mainVars, books, share>>
  BY DEF CallsRecv, At
<1>3. fdtab[s[1]] \in Conns \cup {None} /\ s[1] \in Fds
  BY <1>1, SlotIsFd DEF TypeOK, SockTypeOK
<1>4. /\ thr' \in [Slots -> SlotRec]
      /\ thr'[s].pc = (IF fdtab[s[1]] = None THEN "close" ELSE "recv")
      /\ thr'[s].conn = fdtab[s[1]]
      /\ \A q \in Slots : q # s => thr'[q] = thr[q]
  <2>1. thr \in [Slots -> SlotRec]
    BY <1>1 DEF TypeOK, SlotRec
  <2>2. PICK l \in {"recv", "close"} : l = IF fdtab[s[1]] = None THEN "close" ELSE "recv"
    OBVIOUS
  <2>3. PICK c \in Conns \cup {None} : c = fdtab[s[1]]
    BY <1>3
  <2>4. thr' = [thr EXCEPT ![s].pc = l, ![s].conn = c]
    BY <1>2, <2>2, <2>3
  <2>5. /\ thr' \in [Slots -> SlotRec] /\ thr'[s].pc = l /\ thr'[s].conn = c
        /\ \A q \in Slots : q # s => thr'[q] = thr[q]
    BY <2>1, <2>4 DEF SlotRec
  <2> QED  BY <2>2, <2>3, <2>5
<1>5. OneNumberEach' /\ SockTypeOK' /\ DropsNobody /\ \A fd : Readable(fd) <=> Readable(fd)'
  BY <1>1, <1>2, SameSockets DEF TypeOK
<1>6. TypeOK'
  BY <1>1, <1>2, <1>4, <1>5 DEF TypeOK, SlotRec, mainVars, books
<1>7. Phases'
  <2>1. s \in Busy
    BY <1>2 DEF Busy
  <2> QED  BY <1>1, <1>2, <2>1 DEF Phases, mainVars, books
<1>8. Hands'
  <2> SUFFICES ASSUME NEW q \in Slots
               PROVE  /\ thr'[q].pc = "recv" => thr'[q].conn \in Conns
                      /\ thr'[q].pc = "send" => thr'[q].chunk \in Chunks
                      /\ ~reused =>
                           /\ thr'[q].pc = "recv" => fdtab[q[1]] \in {None, thr'[q].conn}
                           /\ thr'[q].pc = "close" => fdtab[q[1]] = None \/ Gone(fdtab[q[1]])
                           /\ thr'[q].pc # "idle" /\ mpc = "register" => q[1] # pending
    BY <1>2 DEF Hands, Gone, sockVars, mainVars
  <2>1. CASE q = s
    BY <1>1, <1>2, <1>3, <1>4, <2>1 DEF Hands
  <2>2. CASE q # s
    BY <1>1, <1>4, <2>2 DEF Hands
  <2> QED  BY <2>1, <2>2
<1>9. Books'
  BY <1>1, <1>2 DEF Books, Running, sockVars, mainVars, books
<1>10. Alone'
  <2> SUFFICES ASSUME program \in SingleThreaded
               PROVE  Alone'
    BY <1>2 DEF Alone
  <2>1. Busy' = Busy
    BY <1>2, <1>4 DEF Busy
  <2>2. Readable(s[1]) /\ \A q \in Busy : q = s
    <3>1. s \in Busy
      BY <1>2 DEF Busy
    <3> QED  BY <1>1, <1>2, <3>1 DEF Alone
  <2>3. thr'[s].pc = "recv" /\ fdtab'[s[1]] = thr'[s].conn
    BY <1>2, <1>4, <2>2 DEF Readable, sockVars
  <2>4. Readable(s[1])' /\ \A fd \in batch \ {ServerFd} : Readable(fd)'
    BY <1>1, <1>5, <2>2 DEF Alone
  <2>5. /\ UNCHANGED <<mpc, batch>> /\ mpc = "scan" /\ s[1] \notin batch
    <3>1. s \in Busy
      BY <1>2 DEF Busy
    <3> QED  BY <1>1, <1>2, <3>1 DEF Alone, mainVars
  <2>6. \A q \in Busy' : thr'[q].pc = "recv" =>
          fdtab'[q[1]] = thr'[q].conn /\ (sent'[thr'[q].conn] > got'[thr'[q].conn]
                                            \/ peer'[thr'[q].conn] \in {"hup", "reset"})
    BY <2>1, <2>2, <2>3, <2>4 DEF Readable, Unread, Gone
  <2> QED  BY <2>1, <2>2, <2>3, <2>4, <2>5, <2>6 DEF Alone, Unread, Gone
<1> QED  BY <1>5, <1>6, <1>7, <1>8, <1>9, <1>10 DEF IInv

\* What recv returns is a chunk of the client's, or the end of its stream.
LEMMA ReturnsKeeps ==
  ASSUME IInv, NEW s \in Slots, RecvReturns(s), UNCHANGED program
  PROVE  IInv' /\ DropsNobody
<1> DEFINE c == thr[s].conn
<1>1. TypeOK /\ OneNumberEach /\ Phases /\ Hands /\ Books /\ Alone
  BY DEF IInv
<1>2. /\ thr[s].pc = "recv"
      /\ UNCHANGED <<fdtab, backlog, peer, sent, out, reused>>
      /\ UNCHANGED <<is_running, mainVars, books, share>>
  BY DEF RecvReturns, At
<1>3. c \in Conns /\ s[1] \in Fds
  BY <1>1, <1>2, SlotIsFd DEF Hands
<1>4. /\ got' \in [Conns -> 0..MaxChunks] /\ \A d \in Conns : d # c => got'[d] = got[d]
      /\ \E r \in SlotRec :
           /\ thr' = [thr EXCEPT ![s] = r]
           /\ \/ r.pc = "send" /\ r.chunk \in Chunks
              \/ r.pc = "close" /\ Gone(c)
  <2>1. CASE /\ Unread(c)
             /\ got' = [got EXCEPT ![c] = @ + 1]
             /\ thr' = [thr EXCEPT ![s] =
                          [pc |-> "send", conn |-> None, chunk |-> <<c, got'[c]>>]]
    <3>1. got[c] + 1 \in 1..MaxChunks
      BY <1>1, <1>3, <2>1, SocketsAssumption DEF TypeOK, SockTypeOK, Unread
    <3>2. /\ got' \in [Conns -> 0..MaxChunks] /\ got'[c] \in 1..MaxChunks
          /\ \A d \in Conns : d # c => got'[d] = got[d]
      BY <1>1, <1>3, <2>1, <3>1 DEF TypeOK, SockTypeOK
    <3>3. PICK k \in Chunks : k = <<c, got'[c]>>
      BY <1>3, <3>2 DEF Chunks
    <3>4. [pc |-> "send", conn |-> None, chunk |-> k] \in SlotRec
      BY DEF SlotRec
    <3>5. thr' = [thr EXCEPT ![s] = [pc |-> "send", conn |-> None, chunk |-> k]]
      BY <2>1, <3>3
    <3> QED  BY <3>2, <3>4, <3>5
  <2>2. CASE ~Unread(c) /\ Gone(c) /\ To(s, "close") /\ UNCHANGED got
    <3>1. PICK k \in SlotRec : k = [pc |-> "close", conn |-> None, chunk |-> None]
      BY DEF SlotRec
    <3>2. k.pc = "close" /\ k = [Idle EXCEPT !.pc = "close"]
      BY <3>1 DEF Idle
    <3>3. thr' = [thr EXCEPT ![s] = k]
      BY <2>2, <3>2 DEF To
    <3>4. got' \in [Conns -> 0..MaxChunks] /\ \A d \in Conns : d # c => got'[d] = got[d]
      BY <1>1, <2>2 DEF TypeOK, SockTypeOK
    <3> QED  BY <2>2, <3>2, <3>3, <3>4
  <2> QED  BY <2>1, <2>2 DEF RecvReturns
<1>5. PICK r \in SlotRec :
        /\ thr' = [thr EXCEPT ![s] = r]
        /\ \/ r.pc = "send" /\ r.chunk \in Chunks
           \/ r.pc = "close" /\ Gone(c)
  BY <1>4
<1>6. /\ thr' \in [Slots -> SlotRec] /\ thr'[s] = r
      /\ \A q \in Slots : q # s => thr'[q] = thr[q]
  <2>1. thr \in [Slots -> SlotRec]
    BY <1>1 DEF TypeOK, SlotRec
  <2> QED  BY <1>5, <2>1
<1>7. OneNumberEach'
  BY <1>1, <1>2, SameNumbers
<1>8. TypeOK'
  BY <1>1, <1>2, <1>4, <1>6 DEF TypeOK, SockTypeOK, SlotRec, mainVars, books
<1>9. Phases'
  <2>1. s \in Busy
    BY <1>2 DEF Busy
  <2> QED  BY <1>1, <1>2, <2>1 DEF Phases, mainVars, books
<1>10. Hands'
  <2> SUFFICES ASSUME NEW q \in Slots
               PROVE  /\ thr'[q].pc = "recv" => thr'[q].conn \in Conns
                      /\ thr'[q].pc = "send" => thr'[q].chunk \in Chunks
                      /\ ~reused =>
                           /\ thr'[q].pc = "recv" => fdtab[q[1]] \in {None, thr'[q].conn}
                           /\ thr'[q].pc = "close" => fdtab[q[1]] = None \/ Gone(fdtab[q[1]])
                           /\ thr'[q].pc # "idle" /\ mpc = "register" => q[1] # pending
    BY <1>2 DEF Hands, Gone, mainVars
  <2>1. CASE q = s
    BY <1>1, <1>2, <1>5, <1>6, <2>1 DEF Hands
  <2>2. CASE q # s
    BY <1>1, <1>6, <2>2 DEF Hands
  <2> QED  BY <2>1, <2>2
<1>11. Books'
  BY <1>1, <1>2 DEF Books, Running, mainVars, books
<1>12. Alone'
  <2> SUFFICES ASSUME program \in SingleThreaded
               PROVE  Alone'
    BY <1>2 DEF Alone
  <2>1. Busy' = Busy
    BY <1>2, <1>5, <1>6 DEF Busy
  <2>2. s \in Busy
    BY <1>2 DEF Busy
  <2>3. /\ fdtab[s[1]] = c /\ s[1] \notin batch /\ \A q \in Busy : q = s
        /\ \A fd \in batch \ {ServerFd} : Readable(fd)
        /\ mpc = "scan" /\ batch \subseteq Fds \cup {ServerFd}
    BY <1>1, <1>2, <2>2 DEF Alone, TypeOK
  <2>4. ASSUME NEW fd \in batch \ {ServerFd} PROVE Readable(fd)'
    <3>1. Readable(fd) /\ fd \in Fds /\ fd # s[1]
      BY <2>3
    <3>2. fdtab[fd] # c /\ fdtab[fd] \in Conns
      BY <1>1, <1>3, <2>3, <3>1, NoConn DEF OneNumberEach, Readable, TypeOK, SockTypeOK
    <3> QED  BY <1>2, <1>4, <3>1, <3>2 DEF Readable, Unread, Gone
  <2>5. mpc' = mpc /\ batch' = batch
    BY <1>2 DEF mainVars
  <2>6. thr'[s].pc \in {"send", "close"}
    BY <1>5, <1>6
  <2> QED  BY <2>1, <2>2, <2>3, <2>4, <2>5, <2>6 DEF Alone
<1>13. DropsNobody
  BY <1>2 DEF DropsNobody
<1> QED  BY <1>7, <1>8, <1>9, <1>10, <1>11, <1>12, <1>13 DEF IInv

\* send returns, and the run of client_communicate is over or goes on.
LEMMA AnswersKeeps ==
  ASSUME IInv, NEW s \in Slots, Answers(s), UNCHANGED program
  PROVE  IInv' /\ DropsNobody
<1>1. TypeOK /\ OneNumberEach /\ Phases /\ Hands /\ Books /\ Alone
  BY DEF IInv
<1>2. /\ thr[s].pc = "send"
      /\ UNCHANGED <<fdtab, backlog, sent, got, reused, is_running, mainVars, books, share>>
  BY DEF Answers, SendSucceeds, SendReturnsError, At, sockVars
<1>3. s[1] \in Fds /\ fdtab[s[1]] \in Conns \cup {None} /\ thr[s].chunk \in Chunks
  BY <1>1, <1>2, SlotIsFd DEF Hands, TypeOK, SockTypeOK
<1>4. /\ SockTypeOK' /\ OneNumberEach'
      /\ \A d \in Conns : Gone(d) => Gone(d)'
  <2>1. CASE SendSucceeds(s)
    <3> DEFINE d == fdtab[s[1]]
    <3>1. d \in Conns
      BY <1>3, <2>1 DEF SendSucceeds
    <3>2. CASE /\ peer[d] = "up" /\ UNCHANGED peer
               /\ out' = [out EXCEPT ![d] = Append(@, thr[s].chunk)]
      <4>1. Append(out[d], thr[s].chunk) \in Seq(Chunks)
        BY <1>1, <1>3, <3>1 DEF TypeOK, SockTypeOK
      <4>2. out' \in [Conns -> Seq(Chunks)]
        BY <1>1, <3>1, <3>2, <4>1 DEF TypeOK, SockTypeOK
      <4>3. SockTypeOK'
        BY <1>1, <1>2, <3>2, <4>2 DEF TypeOK, SockTypeOK
      <4>4. OneNumberEach'
        BY <1>1, <1>2, <3>2, SameNumbers
      <4>5. \A e \in Conns : Gone(e) => Gone(e)'
        BY <3>2 DEF Gone
      <4> QED  BY <4>3, <4>4, <4>5
    <3>3. CASE peer[d] = "hup" /\ peer' = [peer EXCEPT ![d] = "reset"] /\ UNCHANGED out
      <4>1. SockTypeOK'
        <5>1. peer' \in [Conns -> {"new", "up", "hup", "reset"}]
          BY <1>1, <3>1, <3>3 DEF TypeOK, SockTypeOK
        <5> QED  BY <1>1, <1>2, <3>3, <5>1 DEF TypeOK, SockTypeOK
      <4>2. OneNumberEach'
        BY <1>1, <1>2, <3>3 DEF OneNumberEach, TypeOK, SockTypeOK
      <4>3. \A e \in Conns : Gone(e) => Gone(e)'
        BY <1>1, <3>3 DEF Gone, TypeOK, SockTypeOK
      <4> QED  BY <4>1, <4>2, <4>3
    <3> QED  BY <2>1, <3>2, <3>3 DEF SendSucceeds
  <2>2. CASE SendReturnsError(s)
    <3>1. UNCHANGED sockVars
      BY <2>2 DEF SendReturnsError
    <3> QED  BY <1>1, <3>1, SameSockets DEF TypeOK, Gone, sockVars
  <2> QED  BY <2>1, <2>2 DEF Answers
<1>5. \E l \in {"idle", "start", "close"} :
        /\ thr' = [thr EXCEPT ![s] = [pc |-> l, conn |-> None, chunk |-> None]]
        /\ l = "start" => program = "multithread"
        /\ l = "close" => fdtab[s[1]] = None \/ Gone(fdtab[s[1]])
  <2>1. CASE Done(s)
    <3>1. thr' = [thr EXCEPT ![s] = [pc |-> "idle", conn |-> None, chunk |-> None]]
      BY <2>1 DEF Done, Idle
    <3> QED  BY <3>1
  <2>2. CASE program = "multithread" /\ To(s, "start")
    <3>1. thr' = [thr EXCEPT ![s] = [pc |-> "start", conn |-> None, chunk |-> None]]
      <4>1. [Idle EXCEPT !.pc = "start"] = [pc |-> "start", conn |-> None, chunk |-> None]
        BY DEF Idle
      <4> QED  BY <2>2, <4>1 DEF To
    <3> QED  BY <2>2, <3>1
  <2>3. CASE SendReturnsError(s) /\ To(s, "close")
    <3>1. thr' = [thr EXCEPT ![s] = [pc |-> "close", conn |-> None, chunk |-> None]]
      <4>1. [Idle EXCEPT !.pc = "close"] = [pc |-> "close", conn |-> None, chunk |-> None]
        BY DEF Idle
      <4> QED  BY <2>3, <4>1 DEF To
    <3>2. fdtab[s[1]] = None \/ Gone(fdtab[s[1]])
      BY <2>3 DEF SendReturnsError, Gone
    <3> QED  BY <3>1, <3>2
  <2> QED  BY <2>1, <2>2, <2>3 DEF Answers
<1>6. PICK l \in {"idle", "start", "close"} :
        /\ thr' = [thr EXCEPT ![s] = [pc |-> l, conn |-> None, chunk |-> None]]
        /\ l = "start" => program = "multithread"
        /\ l = "close" => fdtab[s[1]] = None \/ Gone(fdtab[s[1]])
  BY <1>5
<1>7. /\ thr' \in [Slots -> SlotRec] /\ thr'[s].pc = l
      /\ \A q \in Slots : q # s => thr'[q] = thr[q]
  <2>1. thr \in [Slots -> SlotRec]
    BY <1>1 DEF TypeOK, SlotRec
  <2> QED  BY <1>6, <2>1 DEF SlotRec
<1>8. TypeOK'
  BY <1>1, <1>2, <1>4, <1>7 DEF TypeOK, SlotRec, mainVars, books
<1>9. Phases'
  <2>1. s \in Busy
    BY <1>2 DEF Busy
  <2> QED  BY <1>1, <1>2, <2>1 DEF Phases, mainVars, books
<1>10. \A q \in Slots : fdtab[q[1]] = None \/ Gone(fdtab[q[1]])
                          => fdtab[q[1]] = None \/ Gone(fdtab[q[1]])'
  <2> SUFFICES ASSUME NEW q \in Slots, Gone(fdtab[q[1]]), fdtab[q[1]] # None
               PROVE  Gone(fdtab[q[1]])'
    OBVIOUS
  <2>1. PICK d \in Conns : d = fdtab[q[1]]
    BY <1>1, SlotIsFd DEF TypeOK, SockTypeOK
  <2> QED  BY <1>2, <1>4, <2>1 DEF Gone
<1>11. Hands'
  <2> SUFFICES ASSUME NEW q \in Slots
               PROVE  /\ thr'[q].pc = "recv" => thr'[q].conn \in Conns
                      /\ thr'[q].pc = "send" => thr'[q].chunk \in Chunks
                      /\ ~reused =>
                           /\ thr'[q].pc = "recv" => fdtab[q[1]] \in {None, thr'[q].conn}
                           /\ thr'[q].pc = "close" => fdtab[q[1]] = None \/ Gone(fdtab[q[1]])'
                           /\ thr'[q].pc # "idle" /\ mpc = "register" => q[1] # pending
    BY <1>2 DEF Hands, Gone, mainVars
  <2>1. CASE q = s
    BY <1>1, <1>2, <1>6, <1>7, <1>10, <2>1 DEF Hands
  <2>2. CASE q # s
    BY <1>1, <1>7, <1>10, <2>2 DEF Hands
  <2> QED  BY <2>1, <2>2
<1>12. Books'
  BY <1>1, <1>2 DEF Books, Running, mainVars, books
<1>13. Alone'
  <2> SUFFICES ASSUME program \in SingleThreaded
               PROVE  Alone'
    BY <1>2 DEF Alone
  <2>1. s \in Busy
    BY <1>2 DEF Busy
  <2>2. /\ \A q \in Busy : q = s
        /\ \A fd \in batch \ {ServerFd} : Readable(fd)
        /\ mpc = "scan" /\ batch \subseteq Fds \cup {ServerFd} /\ s[1] \notin batch
    BY <1>1, <2>1 DEF Alone, TypeOK
  <2>3. ASSUME NEW fd \in batch \ {ServerFd} PROVE Readable(fd)'
    <3>1. Readable(fd) /\ fd \in Fds
      BY <2>2
    <3>2. fdtab[fd] \in Conns
      BY <1>1, <3>1 DEF Readable, TypeOK, SockTypeOK
    <3> QED  BY <1>2, <1>4, <3>1, <3>2 DEF Readable, Unread, Gone
  <2>4. mpc' = mpc /\ batch' = batch
    BY <1>2 DEF mainVars
  <2>5. \A q \in Busy' : q = s /\ thr'[q].pc = "close"
    <3>1. "multithread" \notin SingleThreaded
      BY DEF SingleThreaded
    <3> QED  BY <1>6, <1>7, <2>2, <3>1 DEF Busy
  <2> QED  BY <2>2, <2>3, <2>4, <2>5 DEF Alone
<1>14. DropsNobody
  BY <1>2 DEF DropsNobody
<1> QED  BY <1>4, <1>8, <1>9, <1>11, <1>12, <1>13, <1>14 DEF IInv

\* A descriptor is closed.
LEMMA LeavesKeeps ==
  ASSUME IInv, NEW s \in Slots, Leaves(s), UNCHANGED program
  PROVE  IInv' /\ DropsNobody
<1>1. TypeOK /\ OneNumberEach /\ Phases /\ Hands /\ Books /\ Alone
  BY DEF IInv
<1>2. PICK label \in {"start", "close"} :
        HangsUp(s, label) /\ (label = "start" => ~is_running)
  BY DEF Leaves
<1>3. /\ thr[s].pc = label /\ Closes({s[1]}) /\ thr' = [thr EXCEPT ![s] = Idle]
      /\ UNCHANGED <<is_running, mpc, view, pending, share>>
  BY <1>2 DEF HangsUp, At, Done
<1>4. /\ batch' \subseteq batch
      /\ program # "multithread" => watched' = watched \ {s[1]}
      /\ program = "multithread" => UNCHANGED watched
      /\ program \in SetPrograms => client_fds' = client_fds \ {s[1]}
      /\ program \notin SetPrograms => UNCHANGED <<client_fds, max_fd>>
  BY DEF Leaves
<1>5. program \in SetPrograms =>
        max_fd' = Max({ServerFd} \cup client_fds') \/ (~is_running /\ UNCHANGED max_fd)
  BY DEF Leaves
<1>6. s[1] \in Fds /\ ServerFd \notin Fds /\ ServerFd \in Numbers
  BY SlotIsFd, NumbersAreNats
<1>7. client_fds' \subseteq Fds /\ watched' \subseteq Numbers
  BY <1>1, <1>4 DEF TypeOK, Numbers
<1>8. /\ Max({ServerFd} \cup client_fds') \in {ServerFd} \cup client_fds'
      /\ Max({ServerFd} \cup client_fds') \in 0..MaxFd
      /\ \A fd \in {ServerFd} \cup client_fds' : fd <= Max({ServerFd} \cup client_fds')
  <2>1. {ServerFd} \cup client_fds' \in SUBSET Numbers /\ {ServerFd} \cup client_fds' # {}
    BY <1>7 DEF Numbers
  <2> QED  BY <2>1, MaxOfNumbers
<1>9. OneNumberEach' /\ SockTypeOK'
  BY <1>1, <1>3, ClosesOneNumber, ClosesTypes DEF TypeOK
<1>10. /\ \A fd \in Fds : fdtab'[fd] = IF fd = s[1] THEN None ELSE fdtab[fd]
       /\ UNCHANGED <<backlog, peer, sent, got, out, reused>>
  BY <1>3 DEF Closes
<1>11. /\ thr' \in [Slots -> SlotRec] /\ thr'[s] = Idle
       /\ \A q \in Slots : q # s => thr'[q] = thr[q]
  <2>1. thr \in [Slots -> SlotRec]
    BY <1>1 DEF TypeOK, SlotRec
  <2>2. Idle \in SlotRec
    BY DEF Idle, SlotRec
  <2> QED  BY <1>3, <2>1, <2>2
<1>12. TypeOK'
  <2>1. max_fd' \in 0..MaxFd
    BY <1>1, <1>4, <1>5, <1>8 DEF TypeOK
  <2> QED  BY <1>1, <1>3, <1>4, <1>7, <1>9, <1>11, <2>1 DEF TypeOK, Numbers, SlotRec
<1>13. s \in Busy
  BY <1>3 DEF Busy
<1>14. Phases'
  <2>1. mpc # "init"
    BY <1>1, <1>13 DEF Phases
  <2> QED  BY <1>1, <1>3, <2>1 DEF Phases
<1>15. Hands'
  <2> SUFFICES ASSUME NEW q \in Slots
               PROVE  /\ thr'[q].pc = "recv" => thr'[q].conn \in Conns
                      /\ thr'[q].pc = "send" => thr'[q].chunk \in Chunks
                      /\ ~reused =>
                           /\ thr'[q].pc = "recv" => fdtab'[q[1]] \in {None, thr'[q].conn}
                           /\ thr'[q].pc = "close" => fdtab'[q[1]] = None \/ Gone(fdtab'[q[1]])
                           /\ thr'[q].pc # "idle" /\ mpc = "register" => q[1] # pending
    BY <1>3, <1>10 DEF Hands, Gone
  <2>1. CASE q = s
    BY <1>11, <2>1 DEF Idle
  <2>2. CASE q # s
    <3>1. thr'[q] = thr[q] /\ q[1] \in Fds
      BY <1>11, <2>2, SlotIsFd
    <3>2. fdtab'[q[1]] \in {None, fdtab[q[1]]}
      BY <1>10, <3>1
    <3>3. /\ thr[q].pc = "recv" => thr[q].conn \in Conns
          /\ thr[q].pc = "send" => thr[q].chunk \in Chunks
          /\ ~reused =>
               /\ thr[q].pc = "recv" => fdtab[q[1]] \in {None, thr[q].conn}
               /\ thr[q].pc = "close" => fdtab[q[1]] = None \/ Gone(fdtab[q[1]])
               /\ thr[q].pc # "idle" /\ mpc = "register" => q[1] # pending
      BY <1>1 DEF Hands
    <3> QED  BY <3>1, <3>2, <3>3
  <2> QED  BY <2>1, <2>2
<1>16. Books'
  <2> SUFFICES ASSUME Running, ~reused, program # "multithread"
               PROVE  /\ ServerFd \in watched'
                      /\ mpc = "register" => fdtab'[pending] # None
                      /\ \A fd \in Fds : fd \in watched' <=> fdtab'[fd] # None /\ fd # pending
                      /\ program \in SetPrograms =>
                           /\ client_fds' = watched' \ {ServerFd}
                           /\ max_fd' \in watched' /\ \A fd \in watched' : fd <= max_fd'
    BY <1>3, <1>10 DEF Books, Running
  <2>1. /\ ServerFd \in watched
        /\ mpc = "register" => fdtab[pending] # None
        /\ \A fd \in Fds : fd \in watched <=> fdtab[fd] # None /\ fd # pending
        /\ program \in SetPrograms => client_fds = watched \ {ServerFd}
    BY <1>1 DEF Books
  <2>2. mpc = "register" => pending # s[1] /\ pending \in Fds
    BY <1>1, <1>13 DEF Hands, Phases, Busy
  <2>3. watched' = watched \ {s[1]}
    BY <1>4
  <2>4. mpc = "register" => fdtab'[pending] # None
    BY <1>10, <2>1, <2>2
  <2>5. \A fd \in Fds : fd \in watched' <=> fdtab'[fd] # None /\ fd # pending
    BY <1>10, <2>1, <2>3
  <2>6. ServerFd \in watched'
    BY <1>6, <2>1, <2>3
  <2>7. ASSUME program \in SetPrograms
        PROVE  /\ client_fds' = watched' \ {ServerFd}
               /\ max_fd' \in watched' /\ \A fd \in watched' : fd <= max_fd'
    <3>1. client_fds' = watched' \ {ServerFd}
      BY <1>4, <2>1, <2>3, <2>7
    <3>2. watched' = {ServerFd} \cup client_fds'
      BY <2>6, <3>1
    <3>3. max_fd' = Max({ServerFd} \cup client_fds')
      BY <1>5, <2>7 DEF Running
    <3> QED  BY <1>8, <3>1, <3>2, <3>3
  <2> QED  BY <2>4, <2>5, <2>6, <2>7
<1>17. Alone'
  <2> SUFFICES ASSUME program \in SingleThreaded
               PROVE  Alone'
    BY DEF Alone
  <2>1. /\ \A q \in Busy : q = s
        /\ \A fd \in batch \ {ServerFd} : Readable(fd)
        /\ batch \subseteq Fds \cup {ServerFd} /\ s[1] \notin batch
    BY <1>1, <1>13 DEF Alone, TypeOK
  <2>2. Busy' = {}
    BY <1>11, <2>1 DEF Busy, Idle
  <2>3. ASSUME NEW fd \in batch' \ {ServerFd} PROVE Readable(fd)'
    <3>1. Readable(fd) /\ fd \in Fds /\ fd # s[1]
      BY <1>4, <2>1
    <3> QED  BY <1>10, <3>1 DEF Readable, Unread, Gone
  <2> QED  BY <2>2, <2>3 DEF Alone
<1>18. DropsNobody
  <2> SUFFICES ASSUME Running, ~reused, NEW fd \in Fds, fdtab[fd] # None, ~Gone(fdtab[fd])
               PROVE  fdtab'[fd] = fdtab[fd]
    BY DEF DropsNobody
  <2>1. label = "close"
    BY <1>2 DEF Running
  <2>2. fdtab[s[1]] = None \/ Gone(fdtab[s[1]])
    BY <1>1, <1>3, <2>1 DEF Hands
  <2>3. fd # s[1]
    BY <2>2
  <2> QED  BY <1>10, <2>3
<1> QED  BY <1>9, <1>12, <1>14, <1>15, <1>16, <1>17, <1>18 DEF IInv

\* A client connects, sends, hangs up or resets its connection.
LEMMA ClientsKeep ==
  ASSUME IInv, ClientsAct, UNCHANGED program
  PROVE  IInv' /\ DropsNobody
<1>1. TypeOK /\ OneNumberEach /\ Phases /\ Hands /\ Books /\ Alone
  BY DEF IInv
<1>2. /\ is_running /\ mpc \notin {"init", "exit", "killed"}
      /\ UNCHANGED <<is_running, mainVars, books, share, thr>>
  BY DEF ClientsAct
<1>3. PICK c \in Conns : Client(c)
  <2>1. CASE \E c \in Conns : ClientSend(c) \/ HangUp(c) \/ Reset(c)
    BY <2>1 DEF Client
  <2>2. CASE LET strangers == {c \in Conns : peer[c] = "new"} IN
               strangers # {} /\ Connect(CHOOSE c \in strangers : TRUE)
    <3> DEFINE strangers == {c \in Conns : peer[c] = "new"}
    <3>1. PICK c \in strangers : c = CHOOSE d \in strangers : TRUE
      BY <2>2
    <3>2. c \in Conns /\ Connect(c)
      BY <2>2, <3>1
    <3> QED  BY <3>2 DEF Client
  <2> QED  BY <2>1, <2>2 DEF ClientsAct
<1>4. OneNumberEach' /\ SockTypeOK'
  BY <1>1, <1>3, ClientOneNumber, ClientTypes DEF TypeOK
<1>5. UNCHANGED <<fdtab, reused>>
  BY <1>3 DEF Client, Connect, ClientSend, HangUp, Reset
<1>6. \A fd \in Fds : Readable(fd) => Readable(fd)'
  BY <1>1, <1>3, ClientKeepsReadable DEF TypeOK
<1>7. \A d \in Conns : Gone(d) => peer'[d] \in {"hup", "reset"}
  BY <1>1, <1>3 DEF Client, Connect, ClientSend, HangUp, Reset, Gone, TypeOK, SockTypeOK
<1>8. TypeOK'
  BY <1>1, <1>2, <1>4 DEF TypeOK, mainVars, books
<1>9. Phases'
  BY <1>1, <1>2, <1>5 DEF Phases, Busy, mainVars, books
<1>10. Hands'
  <2> SUFFICES ASSUME NEW s \in Slots
               PROVE  /\ thr[s].pc = "recv" => thr[s].conn \in Conns
                      /\ thr[s].pc = "send" => thr[s].chunk \in Chunks
                      /\ ~reused =>
                           /\ thr[s].pc = "recv" => fdtab[s[1]] \in {None, thr[s].conn}
                           /\ thr[s].pc = "close" =>
                                fdtab[s[1]] = None \/ peer'[fdtab[s[1]]] \in {"hup", "reset"}
                           /\ thr[s].pc # "idle" /\ mpc = "register" => s[1] # pending
    BY <1>2, <1>5 DEF Hands, Gone, mainVars
  <2>1. fdtab[s[1]] \in Conns \cup {None}
    BY <1>1, SlotIsFd DEF TypeOK, SockTypeOK
  <2>2. /\ thr[s].pc = "recv" => thr[s].conn \in Conns
        /\ thr[s].pc = "send" => thr[s].chunk \in Chunks
        /\ ~reused =>
             /\ thr[s].pc = "recv" => fdtab[s[1]] \in {None, thr[s].conn}
             /\ thr[s].pc = "close" => fdtab[s[1]] = None \/ Gone(fdtab[s[1]])
             /\ thr[s].pc # "idle" /\ mpc = "register" => s[1] # pending
    BY <1>1 DEF Hands
  <2> QED  BY <1>7, <2>1, <2>2
<1>11. Books'
  BY <1>1, <1>2, <1>5 DEF Books, Running, mainVars, books
<1>12. Alone'
  <2> SUFFICES ASSUME program \in SingleThreaded
               PROVE  Alone'
    BY DEF Alone
  <2>1. UNCHANGED <<mpc, batch, thr, fdtab>> /\ Busy' = Busy
    BY <1>2, <1>5 DEF mainVars, Busy
  <2>2. \A fd \in batch \ {ServerFd} : Readable(fd)'
    BY <1>1, <1>6 DEF Alone, TypeOK
  <2>3. ASSUME NEW s \in Busy, thr[s].pc = "start" PROVE Readable(s[1])'
    <3>1. s[1] \in Fds /\ Readable(s[1])
      BY <1>1, <2>3, SlotIsFd DEF Alone, Busy
    <3> QED  BY <1>6, <3>1
  <2>4. ASSUME NEW s \in Busy, thr[s].pc = "recv"
        PROVE  /\ fdtab[s[1]] = thr[s].conn
               /\ \/ sent'[thr[s].conn] > got'[thr[s].conn]
                  \/ peer'[thr[s].conn] \in {"hup", "reset"}
    <3>1. /\ s[1] \in Fds /\ fdtab[s[1]] = thr[s].conn
          /\ Unread(thr[s].conn) \/ Gone(thr[s].conn)
      BY <1>1, <2>4, SlotIsFd DEF Alone, Busy
    <3>2. thr[s].conn \in Conns
      BY <1>1, <2>4 DEF Hands, Busy
    <3>3. Readable(s[1])
      BY <3>1, <3>2, NoConn DEF Readable
    <3>4. Readable(s[1])'
      BY <1>6, <3>1, <3>3
    <3> QED  BY <1>5, <3>1, <3>4 DEF Readable, Unread, Gone
  <2> QED  BY <1>1, <2>1, <2>2, <2>3, <2>4 DEF Alone, Unread, Gone
<1>13. DropsNobody
  BY <1>5 DEF DropsNobody
<1> QED  BY <1>4, <1>8, <1>9, <1>10, <1>11, <1>12, <1>13 DEF IInv

-----------------------------------------------------------------------------
(* The theorems                                                            *)

\* Before init() nothing is open, nothing is watched and no thread runs.
LEMMA InitIInv == Init => IInv
<1> SUFFICES ASSUME Init PROVE IInv
  OBVIOUS
<1>1. /\ SockInit /\ is_running = TRUE /\ program \in Programs
      /\ mpc = "init" /\ view = {} /\ batch = {} /\ pending = None
      /\ watched = {} /\ client_fds = {} /\ max_fd = 0
      /\ share \in [Fds -> 0..MaxThreads]
      /\ thr = [s \in Slots |-> Idle]
  BY DEF Init, EventInit
<1>2. \A s \in Slots : thr[s].pc = "idle"
  BY <1>1 DEF Idle
<1>3. SockTypeOK /\ OneNumberEach
  BY <1>1, SockInitTypes, InitOneNumber
<1>4. TypeOK
  <2>1. thr \in [Slots -> SlotRec]
    <3>1. Idle \in SlotRec
      BY DEF Idle, SlotRec
    <3> QED  BY <1>1, <3>1
  <2>2. 0 \in 0..MaxFd
    BY SocketsAssumption
  <2> QED  BY <1>1, <1>3, <2>1, <2>2 DEF TypeOK, SlotRec
<1>5. Phases
  <2>1. \A fd \in Fds : fdtab[fd] = None
    BY <1>1 DEF SockInit
  <2> QED  BY <1>1, <1>2, <2>1 DEF Phases, Busy
<1>6. Hands
  BY <1>2 DEF Hands
<1>7. Books /\ Alone
  BY <1>1, <1>2 DEF Books, Running, Alone, Busy
<1> QED  BY <1>3, <1>4, <1>5, <1>6, <1>7 DEF IInv

\* Every step keeps the invariant, and hangs up on nobody who is still there.
LEMMA NextKeeps ==
  ASSUME IInv, [Next]_vars
  PROVE  IInv' /\ DropsNobody
<1>1. TypeOK
  BY DEF IInv
<1>2. UNCHANGED program /\ (Step \/ ClientsAct \/ UNCHANGED eventVars)
  BY <1>1, NextSteps
<1>3. CASE \E s \in Slots : Serves(s)
  BY <1>2, <1>3, CallsKeeps, ReturnsKeeps, AnswersKeeps, LeavesKeeps DEF Serves
<1>4. CASE Opens \/ Passes \/ Wakes \/ Fails \/ Meets \/ Adds
  BY <1>2, <1>4, OpensKeeps, PassesKeeps, WakesKeeps, FailsKeeps, MeetsKeeps, AddsKeeps
<1>5. CASE Turns \/ Quits \/ Hires \/ Listens \/ Stops
  BY <1>2, <1>5, TurnsKeeps, QuitsKeeps, HiresKeeps, ListensKeeps, StopsKeeps
<1>6. CASE ClientsAct
  BY <1>2, <1>6, ClientsKeep
<1>7. CASE UNCHANGED eventVars
  <2>1. /\ UNCHANGED <<sockVars, is_running, mpc, view, batch, pending, watched>>
        /\ UNCHANGED <<client_fds, max_fd, share, thr, program>>
    BY <1>2, <1>7 DEF eventVars, mainVars, books
  <2>2. OneNumberEach /\ Phases /\ Hands /\ Books /\ Alone
    BY DEF IInv
  <2>3. OneNumberEach' /\ SockTypeOK' /\ DropsNobody /\ \A fd : Readable(fd) <=> Readable(fd)'
    BY <1>1, <2>1, <2>2, SameSockets DEF TypeOK
  <2>4. TypeOK'
    BY <1>1, <2>1, <2>3 DEF TypeOK
  <2>5. Phases' /\ Hands'
    BY <2>1, <2>2 DEF Phases, Hands, Busy, Gone, sockVars
  <2>6. Books'
    BY <2>1, <2>2 DEF Books, Running, sockVars
  <2>7. Alone'
    BY <2>1, <2>2, <2>3 DEF Alone, Busy, Unread, Gone, sockVars
  <2> QED  BY <2>3, <2>4, <2>5, <2>6, <2>7 DEF IInv
<1> QED  BY <1>2, <1>3, <1>4, <1>5, <1>6, <1>7 DEF Step

\* The inductive invariant holds in every reachable state.
THEOREM Inductive == Spec => []IInv
<1>1. Init => IInv
  BY InitIInv
<1>2. IInv /\ [Next]_vars => IInv'
  BY NextKeeps
<1> QED  BY <1>1, <1>2, PTL DEF Spec

\* Every variable keeps its type, in every program and at every number of
\* clients, descriptors and threads.
THEOREM TypeCorrect == Spec => []TypeOK
<1>1. IInv => TypeOK
  BY DEF IInv
<1> QED  BY <1>1, Inductive, PTL

\* What the program waits for is what is open, and max_fd is the largest of it
\* (select.cpp:175): no client is left out of a select or a poll.
THEOREM RecordsAgree == Spec => []Bookkeeping
<1>1. IInv => Bookkeeping
  <2> SUFFICES ASSUME IInv, Running, ~reused, program # "multithread"
               PROVE  /\ watched \ {ServerFd} = {fd \in Fds : fdtab[fd] # None} \ {pending}
                      /\ program \notin {"epollserver", "epollthread"} =>
                           client_fds = watched \ {ServerFd} /\ max_fd = Max(watched)
    BY DEF Bookkeeping
  <2>1. /\ \A fd \in Fds : fd \in watched <=> fdtab[fd] # None /\ fd # pending
        /\ program \in SetPrograms =>
             /\ client_fds = watched \ {ServerFd}
             /\ max_fd \in watched /\ \A fd \in watched : fd <= max_fd
    BY DEF IInv, Books
  <2>2. watched \in SUBSET Numbers /\ program \in Programs
    BY DEF IInv, TypeOK, Numbers
  <2>3. watched \ {ServerFd} = {fd \in Fds : fdtab[fd] # None} \ {pending}
    BY <2>1, <2>2, NumbersAreNats DEF Numbers
  <2>4. ASSUME program \notin {"epollserver", "epollthread"}
        PROVE  client_fds = watched \ {ServerFd} /\ max_fd = Max(watched)
    <3>1. program \in SetPrograms
      BY <2>2, <2>4 DEF Programs, SingleThreaded, ThreadPerEvent, SetPrograms
    <3>2. max_fd \in watched /\ \A fd \in watched : fd <= max_fd
      BY <2>1, <3>1
    <3>3. Max(watched) \in watched /\ \A fd \in watched : fd <= Max(watched)
      BY <2>2, <3>2, MaxOfNumbers
    <3>4. watched \subseteq Nat
      BY <2>2, NumbersAreNats
    <3>5. /\ max_fd <= Max(watched) /\ Max(watched) <= max_fd
          /\ max_fd \in Nat /\ Max(watched) \in Nat
      BY <3>2, <3>3, <3>4
    <3> QED  BY <2>1, <3>1, <3>5
  <2> QED  BY <2>3, <2>4
<1> QED  BY <1>1, Inductive, PTL

\* A server that has one thread never waits in recv for one client while others
\* wait for it: it calls recv only where recv returns at once.
THEOREM NeverBlocks == Spec => []NeverBlocksOnOne
<1>1. IInv => NeverBlocksOnOne
  BY DEF IInv, Alone, NeverBlocksOnOne, Busy
<1> QED  BY <1>1, Inductive, PTL

\* No server hangs up on a client that is still there, as long as it goes on and
\* no number was given out again that a thread still uses.
THEOREM DropsNoClient == Spec => NobodyDropped
<1>1. ASSUME IInv, [Next]_vars
      PROVE  [Running /\ ~reused /\ mpc' \notin {"exit", "killed"} =>
                \A fd \in Fds :
                  fdtab[fd] # None /\ ~Gone(fdtab[fd]) => fdtab'[fd] = fdtab[fd]]_eventVars
  BY <1>1, NextKeeps DEF DropsNobody
<1> QED  BY <1>1, Inductive, PTL DEF Spec, NobodyDropped
=============================================================================

--------------------------- MODULE PoolServersProof ---------------------------
(***************************************************************************)
(* Proofs about the servers with a pool, for any number of clients,        *)
(* descriptors and workers.                                                *)
(*                                                                         *)
(* First lemmas about ServerPool, which all four share: the callables, the *)
(* signal handler and the shutdown.                                        *)
(*                                                                         *)
(* Then PoolServers: the records of the select, the poll and the epoll     *)
(* server agree with the descriptor table, the thread that serves          *)
(* everybody does not block on one client, nothing is sent on a number the *)
(* poll server has closed, and nobody who is still there is hung up on.    *)
(* What the loop believed when it filled its batch has to stay true until  *)
(* the batch is used up, while clients leave and workers close numbers:    *)
(* that is what the inductive invariants say of each batch.                *)
(*                                                                         *)
(* Last EpollETServer, the edge-triggered one: nothing that can be read is *)
(* left behind although a change is reported only once, the hang-up of a   *)
(* client that was fully answered is noticed, no chunk is answered twice,  *)
(* and nobody who is still there is hung up on.                            *)
(***************************************************************************)
EXTENDS PoolServers, EpollETServer, SocketsProof

-----------------------------------------------------------------------------
(* The invariant the servers share                                         *)

\* A worker that is somewhere in a callable has one.
PoolSound ==
    /\ queue \in Seq(Callables)
    /\ doing \in [Workers -> Callables \cup {None}]
    /\ wpc \in [Workers -> {"idle", "test", "send", "close", "finish"}]
    /\ \A w \in Workers : IF wpc[w] = "idle" THEN doing[w] = None ELSE doing[w] \in Callables

MainSound ==
    /\ is_running \in BOOLEAN
    /\ mpc \in LoopLabels \cup {"handler", "dtor_stop", "dtor_wait", "dtor_close", "exit"}
    /\ ret \in LoopLabels

\* Once the server is stopped, and the one who stopped it has waited, no
\* callable is past its test of is_running.
NoLateSend ==
    ~is_running /\ mpc \notin {"handler", "dtor_wait"} => \A w \in Workers : wpc[w] # "send"

ServerSound == SockTypeOK /\ OneNumberEach /\ PoolSound /\ MainSound /\ NoLateSend

\* The types are part of it.
LEMMA SoundIsTyped == ServerSound => ServerTypeOK
  BY DEF ServerSound, PoolSound, MainSound, ServerTypeOK

\* What callables hold are numbers of clients.
LEMMA HeldAreFds == ServerSound => HeldFds \subseteq Fds
<1> SUFFICES ASSUME ServerSound PROVE HeldFds \subseteq Fds
  OBVIOUS
<1>1. \A i \in DOMAIN queue : queue[i].fd \in Fds
  <2>1. \A i \in DOMAIN queue : queue[i] \in Callables
    BY DEF ServerSound, PoolSound
  <2> QED  BY <2>1 DEF Callables
<1>2. \A w \in Workers : wpc[w] # "idle" => doing[w].fd \in Fds
  BY DEF ServerSound, PoolSound, Callables
<1> QED  BY <1>1, <1>2 DEF HeldFds

\* The pool starts empty.
LEMMA InitSound == ServerInit => ServerSound
<1> SUFFICES ASSUME ServerInit PROVE ServerSound
  OBVIOUS
<1>1. SockTypeOK /\ OneNumberEach
  BY SockInitTypes, InitOneNumber DEF ServerInit
<1>2. PoolSound
  <2>1. queue \in Seq(Callables)
    BY DEF ServerInit
  <2> QED  BY <2>1 DEF ServerInit, PoolSound
<1>3. MainSound /\ NoLateSend
  BY DEF ServerInit, MainSound, NoLateSend, LoopLabels
<1> QED  BY <1>1, <1>2, <1>3 DEF ServerSound

-----------------------------------------------------------------------------
(* The callables                                                           *)

\* What is submitted is a callable.
LEMMA SubmitSound ==
  ASSUME PoolSound, NEW fd \in Fds, NEW ms \in Seq(Chunks), Submit(fd, ms)
  PROVE  PoolSound'
<1>1. [fd |-> fd, chunks |-> ms] \in Callables
  BY DEF Callables
<1>2. queue' \in Seq(Callables)
  BY <1>1 DEF Submit, PoolSound
<1> QED  BY <1>2 DEF Submit, PoolSound

\* A worker takes the callable at the head of the queue.
LEMMA TakeSound ==
  ASSUME PoolSound, NEW w \in Workers, Take(w) PROVE PoolSound'
<1>1. Head(queue) \in Callables /\ Tail(queue) \in Seq(Callables)
  BY DEF Take, PoolSound
<1> QED  BY <1>1 DEF Take, PoolSound

\* A worker that tests the stop flag keeps its callable.
LEMMA TestSound ==
  ASSUME PoolSound, NEW w \in Workers, Test(w) PROVE PoolSound'
  BY DEF Test, PoolSound

\* A worker that has finished has no callable.
LEMMA FinishSound ==
  ASSUME PoolSound, NEW w \in Workers, Finish(w) PROVE PoolSound'
  BY DEF Finish, PoolSound

\* A worker that sends does what send does to the sockets, to a number.
LEMMA SendSound ==
  ASSUME SockTypeOK, OneNumberEach, PoolSound, NEW w \in Workers, wpc[w] = "send",
         \/ Sends(doing[w].fd, doing[w].chunks)
         \/ UNCHANGED sockVars
  PROVE  /\ doing[w].fd \in Fds
         /\ SockTypeOK' /\ OneNumberEach'
         /\ UNCHANGED <<fdtab, backlog, peer, sent, got, reused>>
<1>1. doing[w].fd \in Fds /\ doing[w].chunks \in Seq(Chunks)
  BY SMTT(40) DEF PoolSound, Callables
<1>2. UNCHANGED <<fdtab, backlog, peer, sent, got, reused>>
  BY DEF Sends, sockVars
<1>3. SockTypeOK'
  BY <1>1, SendsTypes, SockStutters
<1> QED  BY <1>1, <1>2, <1>3, SameNumbers

\* A worker's send changes nothing but what reached the client.
LEMMA RespondSound ==
  ASSUME SockTypeOK, OneNumberEach, PoolSound, NEW w \in Workers, Respond(w)
  PROVE  /\ SockTypeOK' /\ OneNumberEach' /\ PoolSound'
         /\ UNCHANGED <<fdtab, backlog, peer, sent, got, reused>>
<1>1. /\ SockTypeOK' /\ OneNumberEach'
      /\ UNCHANGED <<fdtab, backlog, peer, sent, got, reused>>
  BY SendSound DEF Respond
<1>2. PoolSound'
  BY DEF Respond, PoolSound
<1> QED  BY <1>1, <1>2

\* No worker starts to send when the server is stopped.
LEMMA WorkerStopsSending ==
  ASSUME PoolSound, NoLateSend, NEW w \in Workers, UNCHANGED <<is_running, mpc>>,
         NEW to, to = "send" => is_running, wpc' = [wpc EXCEPT ![w] = to]
  PROVE  NoLateSend'
  BY DEF PoolSound, NoLateSend

\* So no step of a worker that does not close changes a descriptor.
LEMMA WorkerSound ==
  ASSUME ServerSound, NEW w \in Workers, Worker(w)
  PROVE  ServerSound' /\ UNCHANGED <<fdtab, backlog, peer, sent, got, reused>>
<1>1. UNCHANGED <<is_running, mpc, ret>>
  BY DEF Worker, mainVars
<1>2. /\ SockTypeOK' /\ OneNumberEach' /\ PoolSound'
      /\ UNCHANGED <<fdtab, backlog, peer, sent, got, reused>>
  <2>1. CASE Take(w) \/ Test(w) \/ Finish(w)
    <3>1. UNCHANGED sockVars
      BY <2>1 DEF Take, Test, Finish
    <3>2. PoolSound'
      BY <2>1, TakeSound, TestSound, FinishSound DEF ServerSound
    <3> QED  BY <3>1, <3>2, SockStutters, SameNumbers DEF ServerSound, sockVars
  <2>2. CASE Respond(w)
    BY <2>2, RespondSound DEF ServerSound
  <2> QED  BY <2>1, <2>2 DEF Worker
<1>3. MainSound'
  BY <1>1 DEF ServerSound, MainSound
<1>4. NoLateSend'
  <2>1. PICK to : (to = "send" => is_running) /\ wpc' = [wpc EXCEPT ![w] = to]
    BY DEF Worker, Take, Test, Respond, Finish
  <2> QED  BY <1>1, <2>1, WorkerStopsSending DEF ServerSound
<1> QED  BY <1>2, <1>3, <1>4 DEF ServerSound

-----------------------------------------------------------------------------
(* The main thread                                                         *)

\* The wait for the pool ends when no callable is queued or running.
LEMMA OutstandingZero ==
  ASSUME PoolSound, Outstanding = 0
  PROVE  queue = <<>> /\ \A w \in Workers : wpc[w] = "idle"
<1> DEFINE Running == {w \in Workers : doing[w] # None}
<1>1. IsFiniteSet(Running)
  BY PoolAssumption, FS_Subset
<1>2. Len(queue) \in Nat /\ Cardinality(Running) \in Nat
  BY <1>1, FS_CardinalityType DEF PoolSound
<1>3. Len(queue) = 0 /\ Cardinality(Running) = 0
  BY <1>2 DEF Outstanding
<1>4. Running = {}
  <2> HIDE DEF Running
  <2> QED  BY <1>1, <1>3, FS_EmptySet
<1> QED  BY <1>3, <1>4, PoolAssumption DEF PoolSound

\* The steps of the main thread that all servers have.
LEMMA MainStepSound ==
  ASSUME ServerSound,
         Loop \/ Unlock \/ Signal \/ HandlerReturns \/ DtorStop \/ DtorWait
  PROVE  ServerSound' /\ UNCHANGED <<sockVars, poolVars>>
<1>1. UNCHANGED sockVars /\ UNCHANGED poolVars
  BY DEF Loop, Unlock, Signal, HandlerReturns, DtorStop, DtorWait
<1>2. SockTypeOK' /\ OneNumberEach' /\ PoolSound'
  BY <1>1, SockStutters, SameNumbers DEF ServerSound, sockVars, PoolSound, poolVars
<1>3. MainSound' /\ NoLateSend'
  <2> USE DEF ServerSound, MainSound, NoLateSend, LoopLabels, Goto, poolVars
  <2>1. CASE Loop \/ Unlock
    BY <2>1 DEF Loop, Unlock
  <2>2. CASE Signal
    BY <2>2 DEF Signal
  <2>3. CASE HandlerReturns
    <3>1. \A w \in Workers : wpc'[w] # "send"
      BY <2>3, <1>1, OutstandingZero DEF HandlerReturns
    <3> QED  BY <2>3, <3>1 DEF HandlerReturns
  <2>4. CASE DtorStop
    BY <2>4 DEF DtorStop
  <2>5. CASE DtorWait
    <3>1. \A w \in Workers : wpc'[w] # "send"
      BY <2>5, <1>1, OutstandingZero DEF DtorWait
    <3> QED  BY <2>5, <3>1 DEF DtorWait
  <2> QED  BY <2>1, <2>2, <2>3, <2>4, <2>5
<1> QED  BY <1>1, <1>2, <1>3 DEF ServerSound

\* A step of the loop: it goes on, or it leaves the loop.
LEMMA MoveSound ==
  ASSUME MainSound, NoLateSend, UNCHANGED <<is_running, ret, wpc>>,
         \/ UNCHANGED mpc
         \/ mpc \in LoopLabels \cup {"dtor_stop"} /\ mpc' \in LoopLabels \cup {"dtor_stop", "dtor_close"}
         \/ mpc = "dtor_close" /\ mpc' = "exit"
  PROVE  MainSound' /\ NoLateSend'
  BY DEF MainSound, NoLateSend, LoopLabels

\* What the clients do changes no descriptor.
LEMMA ClientSound ==
  ASSUME ServerSound, NEW c \in Conns, Client(c), UNCHANGED <<is_running, poolVars, mainVars>>
  PROVE  ServerSound' /\ UNCHANGED <<fdtab, got, out, reused>>
<1>1. SockTypeOK' /\ OneNumberEach'
  BY ClientTypes, ClientOneNumber DEF ServerSound
<1>2. PoolSound' /\ MainSound' /\ NoLateSend'
  BY DEF ServerSound, PoolSound, MainSound, NoLateSend, poolVars, mainVars
<1>3. UNCHANGED <<fdtab, got, out, reused>>
  BY DEF Client, Connect, ClientSend, HangUp, Reset
<1> QED  BY <1>1, <1>2, <1>3 DEF ServerSound

\* A stuttering step keeps the pool sound.
LEMMA StutterSound ==
  ASSUME ServerSound, UNCHANGED <<is_running, poolVars, mainVars>>, UNCHANGED sockVars
  PROVE  ServerSound'
<1>1. SockTypeOK' /\ OneNumberEach'
  BY SockStutters, SameNumbers DEF ServerSound, sockVars
<1>2. PoolSound' /\ MainSound' /\ NoLateSend'
  BY DEF ServerSound, PoolSound, MainSound, NoLateSend, poolVars, mainVars
<1> QED  BY <1>1, <1>2 DEF ServerSound

\* The main thread receives from a number and submits what it got.
LEMMA ReceivesSound ==
  ASSUME ServerSound, NEW fd \in Fds, fdtab[fd] \in Conns, Receives(fd),
         Submit(fd, <<NextChunk(fd)>>), UNCHANGED <<is_running, mpc, ret>>
  PROVE  ServerSound'
<1>1. SockTypeOK' /\ OneNumberEach'
  <2>1. UNCHANGED <<fdtab, backlog, peer>>
    BY DEF Receives
  <2> QED  BY <2>1, ReceivesTypes, SameNumbers DEF ServerSound
<1>2. PoolSound'
  <2>1. NextChunk(fd) \in Chunks
    BY NextChunkType DEF Receives, ServerSound
  <2>2. <<NextChunk(fd)>> \in Seq(Chunks)
    BY <2>1
  <2> QED  BY <2>2, SubmitSound DEF ServerSound
<1>3. MainSound' /\ NoLateSend'
  BY DEF ServerSound, MainSound, NoLateSend, Submit
<1> QED  BY <1>1, <1>2, <1>3 DEF ServerSound

\* The main thread closes numbers, in its loop or as the last thing it does.
LEMMA ClosesSound ==
  ASSUME ServerSound, NEW S \in SUBSET Fds, Closes(S), UNCHANGED <<is_running, ret>>,
         UNCHANGED poolVars,
         \/ mpc' = mpc \/ (mpc = "dtor_close" /\ mpc' = "exit")
         \/ mpc \in LoopLabels /\ mpc' \in LoopLabels
  PROVE  ServerSound'
<1>1. SockTypeOK' /\ OneNumberEach'
  BY ClosesTypes, ClosesOneNumber DEF ServerSound
<1>2. PoolSound' /\ UNCHANGED wpc
  BY DEF ServerSound, PoolSound, poolVars
<1>3. MainSound' /\ NoLateSend'
  BY <1>2, MoveSound DEF ServerSound
<1> QED  BY <1>1, <1>2, <1>3 DEF ServerSound

\* What workers that only send, and clients, do takes nothing away from what the
\* main thread may have seen.
LEMMA ElsewhereKeeps ==
  ASSUME ServerSound,
         \/ \E w \in Workers : Worker(w)
         \/ /\ \E c \in Conns : Client(c)
            /\ UNCHANGED <<is_running, poolVars, mainVars>>
  PROVE  /\ ServerSound' /\ UNCHANGED <<fdtab, reused, is_running, mpc, ret>>
         /\ backlog \subseteq backlog'
         /\ \A fd \in Fds : Readable(fd) => Readable(fd)'
         /\ \A c \in Conns : Gone(c) => Gone(c)'
<1>1. CASE \E w \in Workers : Worker(w)
  <2>1. /\ ServerSound' /\ UNCHANGED <<fdtab, backlog, peer, sent, got, reused>>
    BY <1>1, WorkerSound
  <2> QED  BY <1>1, <2>1 DEF Worker, mainVars, Readable, Unread, Gone
<1>2. CASE /\ \E c \in Conns : Client(c)
           /\ UNCHANGED <<is_running, poolVars, mainVars>>
  <2>1. PICK c \in Conns : Client(c)
    BY <1>2
  <2>2. ServerSound' /\ UNCHANGED <<fdtab, reused>>
    BY <1>2, <2>1, ClientSound
  <2>3. backlog \subseteq backlog' /\ \A d \in Conns : Gone(d) => Gone(d)'
    BY <2>1 DEF Client, Connect, ClientSend, HangUp, Reset, Gone, ServerSound, SockTypeOK
  <2>4. \A fd \in Fds : Readable(fd) => Readable(fd)'
    BY <2>1, ClientKeepsReadable DEF ServerSound
  <2> QED  BY <1>2, <2>2, <2>3, <2>4 DEF mainVars
<1> QED  BY <1>1, <1>2

\* The main thread accepts a connection on a free number.
LEMMA AcceptsSound ==
  ASSUME ServerSound, NEW c \in backlog, NEW fd \in FreeFds, NEW held, Accepts(c, fd, held),
         UNCHANGED <<is_running, ret>>, UNCHANGED poolVars,
         UNCHANGED mpc \/ (mpc \in LoopLabels /\ mpc' \in LoopLabels)
  PROVE  /\ ServerSound'
         /\ fd \in Fds /\ fdtab[fd] = None /\ c \in Conns /\ c # None
         /\ \A gd \in Fds : fdtab'[gd] = IF gd = fd THEN c ELSE fdtab[gd]
<1>1. fd \in Fds /\ fdtab[fd] = None /\ c \in Conns /\ c # None
  BY SocketsAssumption DEF FreeFds, ServerSound, SockTypeOK
<1>2. SockTypeOK' /\ OneNumberEach'
  BY <1>1, AcceptsTypes, AcceptsOneNumber DEF ServerSound
<1>3. PoolSound' /\ MainSound' /\ NoLateSend'
  <2>1. PoolSound' /\ UNCHANGED wpc
    BY DEF ServerSound, PoolSound, poolVars
  <2> QED  BY <2>1, MoveSound DEF ServerSound
<1>4. \A gd \in Fds : fdtab'[gd] = IF gd = fd THEN c ELSE fdtab[gd]
  BY <1>1 DEF Accepts, ServerSound, SockTypeOK
<1> QED  BY <1>1, <1>2, <1>3, <1>4 DEF ServerSound

\* The epoll servers: a worker sends and may fail, and then closes the number.
LEMMA SendOrFailSound ==
  ASSUME ServerSound, NEW w \in Workers, wpc[w] = "send",
         \/ Sends(doing[w].fd, doing[w].chunks)
         \/ UNCHANGED sockVars,
         NEW to \in {"finish", "close"}, wpc' = [wpc EXCEPT ![w] = to],
         UNCHANGED <<queue, doing, is_running, mpc, ret>>
  PROVE  ServerSound' /\ UNCHANGED <<fdtab, backlog, peer, sent, got, reused>>
<1>1. /\ SockTypeOK' /\ OneNumberEach'
      /\ UNCHANGED <<fdtab, backlog, peer, sent, got, reused>>
  BY SendSound DEF ServerSound
<1>2. PoolSound' /\ MainSound'
  BY DEF ServerSound, PoolSound, MainSound
<1>3. NoLateSend'
  BY WorkerStopsSending DEF ServerSound
<1> QED  BY <1>1, <1>2, <1>3 DEF ServerSound

\* A worker closes the number its callable holds, which is a descriptor.
LEMMA WorkerClosesSound ==
  ASSUME ServerSound, NEW w \in Workers, wpc[w] = "close", Closes({doing[w].fd}),
         wpc' = [wpc EXCEPT ![w] = "finish"], UNCHANGED <<queue, doing, is_running, mpc, ret>>
  PROVE  ServerSound' /\ doing[w].fd \in Fds
<1>1. doing[w].fd \in Fds
  BY DEF ServerSound, PoolSound, Callables
<1>2. SockTypeOK' /\ OneNumberEach'
  BY ClosesTypes, ClosesOneNumber DEF ServerSound
<1>3. PoolSound' /\ MainSound'
  BY DEF ServerSound, PoolSound, MainSound
<1>4. NoLateSend'
  BY WorkerStopsSending DEF ServerSound
<1> QED  BY <1>1, <1>2, <1>3, <1>4 DEF ServerSound

-----------------------------------------------------------------------------
(* Who may close a descriptor                                              *)

\* Nobody who is still there is hung up on in this step.
DropsNobody ==
    \A fd \in Fds : fdtab[fd] # None /\ ~Gone(fdtab[fd]) => fdtab'[fd] = fdtab[fd]

\* Who leaves the descriptor table alone drops nobody.
LEMMA SameTableDropsNobody ==
  ASSUME UNCHANGED fdtab PROVE DropsNobody
  BY DEF DropsNobody

\* accept adds a client at a free number and drops nobody.
LEMMA AcceptsDropsNobody ==
  ASSUME SockTypeOK, NEW c, NEW fd \in FreeFds, NEW held, Accepts(c, fd, held)
  PROVE  DropsNobody
  BY DEF SockTypeOK, FreeFds, Accepts, DropsNobody

\* What is closed has nobody behind it, or nobody who is still there.
LEMMA ClosesDropsNobody ==
  ASSUME NEW S, Closes(S), \A fd \in S \cap Fds : fdtab[fd] # None => Gone(fdtab[fd])
  PROVE  DropsNobody
  BY DEF Closes, DropsNobody

-----------------------------------------------------------------------------
(* Batches of events, and failed sends                                     *)

\* What every batch of the epoll servers promises: recv on a reported number
\* returns at once, as long as no held number was given out again.
BatchIsReadable(reported) ==
    ~reused => \A fd \in reported \ {ServerFd} : fdtab[fd] # None => Readable(fd)

\* A number on which send failed has nobody behind it who is still there.
FailedAreGone ==
    ~reused => \A w \in Workers :
      wpc[w] = "close" /\ fdtab[doing[w].fd] # None => Gone(fdtab[doing[w].fd])

\* Who is gone stays so, and a worker that is about to close saw send fail.
LEMMA FailedStayGone ==
  ASSUME ServerSound, FailedAreGone, reused => reused',
         \A c \in Conns : Gone(c) => Gone(c)',
         \A w \in Workers : wpc'[w] = "close" =>
            /\ doing'[w] = doing[w]
            /\ wpc[w] = "close" \/ (wpc[w] = "send" /\ SendFails(doing[w].fd)),
         \A w \in Workers : wpc'[w] = "close" =>
            \/ reused'
            \/ fdtab'[doing[w].fd] \in {None, fdtab[doing[w].fd]}
  PROVE  FailedAreGone'
<1> SUFFICES ASSUME ~reused', NEW w \in Workers, wpc'[w] = "close", fdtab'[doing'[w].fd] # None
             PROVE  Gone(fdtab[doing[w].fd])'
  BY DEF FailedAreGone
<1>1. doing'[w] = doing[w] /\ fdtab'[doing[w].fd] = fdtab[doing[w].fd]
  OBVIOUS
<1>2. doing[w].fd \in Fds
  BY DEF ServerSound, PoolSound, Callables
<1>3. Gone(fdtab[doing[w].fd]) /\ fdtab[doing[w].fd] \in Conns
  BY <1>1, <1>2, OpenIsConn DEF FailedAreGone, SendFails, ServerSound
<1>4. peer'[fdtab'[doing'[w].fd]] \in {"hup", "reset"}
  BY <1>1, <1>3 DEF Gone
<1> QED  BY <1>4 DEF Gone

-----------------------------------------------------------------------------
(* Answers                                                                 *)

\* A worker still has the chunks of its callable to answer.
Running(w) == wpc[w] \in {"test", "send"}

Asked(i) == ToSet(queue[i].chunks)
Answering(w) == IF Running(w) THEN ToSet(doing[w].chunks) ELSE {}
Answered(c) == ToSet(out[c])
Received == {x \in Chunks : x[2] <= got[x[1]]}

\* Every chunk that was received is in at most one place: in a callable, or in
\* what was sent to somebody.
AnsweredOnce ==
    /\ \A i \in DOMAIN queue : IsInjective(queue[i].chunks) /\ Asked(i) \subseteq Received
    /\ \A w \in Workers : Running(w) => IsInjective(doing[w].chunks)
    /\ \A w \in Workers : Answering(w) \subseteq Received
    /\ \A c \in Conns : IsInjective(out[c]) /\ Answered(c) \subseteq Received
    /\ \A i, j \in DOMAIN queue : i # j => Asked(i) \cap Asked(j) = {}
    /\ \A w, v \in Workers : w # v => Answering(w) \cap Answering(v) = {}
    /\ \A c, d \in Conns : c # d => Answered(c) \cap Answered(d) = {}
    /\ \A i \in DOMAIN queue, w \in Workers : Asked(i) \cap Answering(w) = {}
    /\ \A i \in DOMAIN queue, c \in Conns : Asked(i) \cap Answered(c) = {}
    /\ \A w \in Workers, c \in Conns : Answering(w) \cap Answered(c) = {}

\* As long as no held number was given out again, the callable for an open number
\* has chunks of the client behind it, and clients get answers to their own.
OwnChunks ==
    ~reused =>
      /\ \A i \in DOMAIN queue : fdtab[queue[i].fd] # None =>
           \A x \in Asked(i) : x[1] = fdtab[queue[i].fd]
      /\ \A w \in Workers : Running(w) /\ fdtab[doing[w].fd] # None =>
           \A x \in Answering(w) : x[1] = fdtab[doing[w].fd]
      /\ \A c \in Conns : \A x \in Answered(c) : x[1] = c

\* One sequence after another.
LEMMA Concatenation ==
  ASSUME NEW S, NEW s \in Seq(S), NEW t \in Seq(S)
  PROVE  /\ ToSet(s \o t) = ToSet(s) \cup ToSet(t)
         /\ IsInjective(s) /\ IsInjective(t) /\ ToSet(s) \cap ToSet(t) = {} => IsInjective(s \o t)
<1> DEFINE r == s \o t
<1>1. Len(s) \in Nat /\ Len(t) \in Nat /\ DOMAIN s = 1..Len(s) /\ DOMAIN t = 1..Len(t)
  OBVIOUS
<1>2. DOMAIN r = 1..(Len(s) + Len(t))
  OBVIOUS
<1>3. \A i \in DOMAIN s : i \in DOMAIN r /\ r[i] = s[i]
  OBVIOUS
<1>4. \A i \in DOMAIN t : i + Len(s) \in DOMAIN r /\ r[i + Len(s)] = t[i]
  OBVIOUS
<1> HIDE DEF r
<1>5. \A i \in DOMAIN r : i \in DOMAIN s \/ i - Len(s) \in DOMAIN t
  BY <1>1, <1>2
<1>6. \A i \in DOMAIN r : i \notin DOMAIN s => i - Len(s) \in DOMAIN t /\ r[i] = t[i - Len(s)]
  <2> SUFFICES ASSUME NEW i \in DOMAIN r, i \notin DOMAIN s
               PROVE  i - Len(s) \in DOMAIN t /\ r[i] = t[i - Len(s)]
    OBVIOUS
  <2>1. i - Len(s) \in DOMAIN t /\ (i - Len(s)) + Len(s) = i
    BY <1>1, <1>2, <1>5
  <2> QED  BY <1>4, <2>1
<1>7. \A x : x \in ToSet(r) <=> x \in ToSet(s) \/ x \in ToSet(t)
  BY <1>3, <1>4, <1>6 DEF ToSet
<1>8. ASSUME IsInjective(s), IsInjective(t), ToSet(s) \cap ToSet(t) = {} PROVE IsInjective(r)
  <2> SUFFICES ASSUME NEW i \in DOMAIN r, NEW j \in DOMAIN r, r[i] = r[j] PROVE i = j
    BY DEF IsInjective
  <2>1. CASE i \in DOMAIN s /\ j \in DOMAIN s
    BY <1>3, <1>8, <2>1 DEF IsInjective
  <2>2. CASE i \notin DOMAIN s /\ j \notin DOMAIN s
    <3>1. i - Len(s) = j - Len(s)
      BY <1>6, <1>8, <2>2 DEF IsInjective
    <3> QED  BY <1>1, <1>2, <3>1
  <2>3. CASE i \in DOMAIN s /\ j \notin DOMAIN s
    BY <1>3, <1>6, <1>8, <2>3 DEF ToSet
  <2>4. CASE i \notin DOMAIN s /\ j \in DOMAIN s
    <3>1. r[i] \in ToSet(t) /\ r[j] \in ToSet(s)
      BY <1>3, <1>6, <2>4 DEF ToSet
    <3> QED  BY <1>8, <3>1
  <2> QED  BY <2>1, <2>2, <2>3, <2>4
<1>9. ToSet(r) = ToSet(s) \cup ToSet(t)
  BY <1>7
<1> QED  BY <1>8, <1>9 DEF r

\* Before anything is received nothing is answered.
LEMMA InitOnce == ServerInit => AnsweredOnce /\ OwnChunks
<1> SUFFICES ASSUME ServerInit PROVE AnsweredOnce /\ OwnChunks
  OBVIOUS
<1>1. queue = <<>> /\ DOMAIN queue = {}
  BY DEF ServerInit
<1>2. \A w \in Workers : ~Running(w) /\ Answering(w) = {}
  BY DEF ServerInit, Running, Answering
<1>3. \A c \in Conns : out[c] = <<>> /\ DOMAIN out[c] = {}
  BY DEF ServerInit, SockInit
<1>4. \A c \in Conns : IsInjective(out[c]) /\ Answered(c) = {}
  BY <1>3 DEF IsInjective, Answered, ToSet
<1> QED  BY <1>1, <1>2, <1>4 DEF AnsweredOnce, OwnChunks

\* Nothing is submitted, taken or sent.
LEMMA OnceStays ==
  ASSUME ServerSound, ServerSound', AnsweredOnce, UNCHANGED <<queue, out>>,
         \A w \in Workers : Running(w)' => Running(w) /\ doing'[w] = doing[w],
         \A c \in Conns : got[c] <= got'[c]
  PROVE  AnsweredOnce'
<1>1. Received \subseteq Received'
  BY DEF Received, Chunks, ServerSound, SockTypeOK
<1>2. \A i : Asked(i)' = Asked(i)
  BY DEF Asked
<1>3. \A c : Answered(c)' = Answered(c)
  BY DEF Answered
<1>4. \A w \in Workers : Answering(w)' = {} \/ Answering(w)' = Answering(w)
  BY DEF Answering
<1> QED  BY <1>1, <1>2, <1>3, <1>4 DEF AnsweredOnce

\* What the main thread submits was not received before, and is now.
LEMMA OnceSubmits ==
  ASSUME ServerSound, ServerSound', AnsweredOnce,
         NEW fd \in Fds, NEW ms \in Seq(Chunks), Submit(fd, ms), UNCHANGED out,
         IsInjective(ms), ToSet(ms) \cap Received = {}, ToSet(ms) \subseteq Received',
         \A c \in Conns : got[c] <= got'[c]
  PROVE  AnsweredOnce'
<1>0. PICK new : new = Len(queue) + 1
  OBVIOUS
<1>1. queue \in Seq(Callables) /\ Len(queue) \in Nat /\ DOMAIN queue = 1..Len(queue)
  BY DEF ServerSound, PoolSound
<1>2. /\ DOMAIN queue' = 1..new /\ new \notin DOMAIN queue
      /\ queue'[new] = [fd |-> fd, chunks |-> ms]
      /\ \A i \in DOMAIN queue : queue'[i] = queue[i]
  BY <1>0, <1>1 DEF Submit
<1>3. DOMAIN queue' = DOMAIN queue \cup {new}
  BY <1>0, <1>1, <1>2
<1>4. Received \subseteq Received'
  BY DEF Received, Chunks, ServerSound, SockTypeOK
<1>5. \A i \in DOMAIN queue : Asked(i)' = Asked(i) /\ queue'[i].chunks = queue[i].chunks
  BY <1>2 DEF Asked
<1>6. Asked(new)' = ToSet(ms) /\ queue'[new].chunks = ms
  BY <1>2 DEF Asked
<1>7. UNCHANGED <<doing, wpc>>
  BY DEF Submit
<1>8. (\A c : Answered(c)' = Answered(c)) /\ \A w : Answering(w)' = Answering(w)
  BY <1>7 DEF Answered, Answering, Running
<1>9. \A i \in DOMAIN queue' : /\ IsInjective(queue'[i].chunks)
                               /\ i = new => Asked(i)' \cap Received = {}
                               /\ i # new => i \in DOMAIN queue /\ Asked(i)' \subseteq Received
                               /\ Asked(i)' \subseteq Received'
  BY <1>3, <1>4, <1>5, <1>6 DEF AnsweredOnce
<1>10. \A i, j \in DOMAIN queue' : i # j => Asked(i)' \cap Asked(j)' = {}
  <2>1. \A i, j \in DOMAIN queue : i # j => Asked(i)' \cap Asked(j)' = {}
    BY <1>5 DEF AnsweredOnce
  <2> QED  BY <1>9, <2>1
<1>11. /\ \A i \in DOMAIN queue', w \in Workers : Asked(i)' \cap Answering(w)' = {}
       /\ \A i \in DOMAIN queue', c \in Conns : Asked(i)' \cap Answered(c)' = {}
  <2>1. /\ \A i \in DOMAIN queue, w \in Workers : Asked(i)' \cap Answering(w)' = {}
        /\ \A i \in DOMAIN queue, c \in Conns : Asked(i)' \cap Answered(c)' = {}
    BY <1>5, <1>8 DEF AnsweredOnce
  <2>2. /\ \A w \in Workers : Answering(w)' \subseteq Received
        /\ \A c \in Conns : Answered(c)' \subseteq Received
    BY <1>8 DEF AnsweredOnce
  <2> QED  BY <1>9, <2>1, <2>2
<1>12. /\ \A w \in Workers : Running(w)' => IsInjective(doing'[w].chunks)
       /\ \A w \in Workers : Answering(w)' \subseteq Received'
       /\ \A c \in Conns : IsInjective(out'[c]) /\ Answered(c)' \subseteq Received'
       /\ \A w, v \in Workers : w # v => Answering(w)' \cap Answering(v)' = {}
       /\ \A c, d \in Conns : c # d => Answered(c)' \cap Answered(d)' = {}
       /\ \A w \in Workers, c \in Conns : Answering(w)' \cap Answered(c)' = {}
  BY <1>4, <1>7, <1>8 DEF AnsweredOnce, Running
<1> QED  BY <1>9, <1>10, <1>11, <1>12 DEF AnsweredOnce

\* A worker takes the first callable.
LEMMA OnceTakes ==
  ASSUME ServerSound, AnsweredOnce, NEW w \in Workers, Take(w)
  PROVE  AnsweredOnce'
<1>1. queue \in Seq(Callables) /\ queue # <<>> /\ queue' = Tail(queue)
  BY DEF ServerSound, PoolSound, Take
<1>2. /\ 1 \in DOMAIN queue
      /\ \A i \in DOMAIN queue' : i + 1 \in DOMAIN queue /\ i + 1 # 1 /\ queue'[i] = queue[i + 1]
  BY <1>1
<1>3. \A i, j \in DOMAIN queue' : i # j => i + 1 # j + 1
  BY <1>1
<1>4. /\ UNCHANGED sockVars /\ wpc[w] = "idle"
      /\ doing' = [doing EXCEPT ![w] = queue[1]]
      /\ wpc' = [wpc EXCEPT ![w] = "test"]
  BY <1>1 DEF Take
<1>5. /\ Running(w)' /\ doing'[w] = queue[1]
      /\ \A v \in Workers \ {w} : doing'[v] = doing[v] /\ (Running(v)' <=> Running(v))
  BY <1>4 DEF ServerSound, PoolSound, Running
<1>6. \A i \in DOMAIN queue' : Asked(i)' = Asked(i + 1) /\ queue'[i].chunks = queue[i + 1].chunks
  BY <1>2 DEF Asked
<1>7. Answering(w)' = Asked(1)
  BY <1>5 DEF Asked, Answering
<1>8. \A v \in Workers \ {w} : Answering(v)' = Answering(v)
  BY <1>5 DEF Answering
<1>9. Received' = Received /\ \A c : Answered(c)' = Answered(c)
  BY <1>4 DEF sockVars, Received, Answered
<1>10. /\ \A i \in DOMAIN queue' : IsInjective(queue'[i].chunks) /\ Asked(i)' \subseteq Received'
       /\ \A v \in Workers : Running(v)' => IsInjective(doing'[v].chunks)
       /\ \A v \in Workers : Answering(v)' \subseteq Received'
       /\ \A c \in Conns : IsInjective(out'[c]) /\ Answered(c)' \subseteq Received'
  <2>1. \A i \in DOMAIN queue' : IsInjective(queue'[i].chunks) /\ Asked(i)' \subseteq Received'
    BY <1>2, <1>6, <1>9 DEF AnsweredOnce
  <2>2. \A v \in Workers : Running(v)' => IsInjective(doing'[v].chunks)
    BY <1>2, <1>5 DEF AnsweredOnce
  <2>3. \A v \in Workers : Answering(v)' \subseteq Received'
    BY <1>2, <1>7, <1>8, <1>9 DEF AnsweredOnce
  <2>4. \A c \in Conns : IsInjective(out'[c]) /\ Answered(c)' \subseteq Received'
    BY <1>4, <1>9 DEF AnsweredOnce, sockVars
  <2> QED  BY <2>1, <2>2, <2>3, <2>4
<1>11. \A i, j \in DOMAIN queue' : i # j => Asked(i)' \cap Asked(j)' = {}
  BY <1>2, <1>3, <1>6 DEF AnsweredOnce
<1>12. \A v, u \in Workers : v # u => Answering(v)' \cap Answering(u)' = {}
  BY <1>2, <1>7, <1>8 DEF AnsweredOnce
<1>13. /\ \A i \in DOMAIN queue', v \in Workers : Asked(i)' \cap Answering(v)' = {}
       /\ \A i \in DOMAIN queue', c \in Conns : Asked(i)' \cap Answered(c)' = {}
       /\ \A v \in Workers, c \in Conns : Answering(v)' \cap Answered(c)' = {}
       /\ \A c, d \in Conns : c # d => Answered(c)' \cap Answered(d)' = {}
  BY <1>2, <1>6, <1>7, <1>8, <1>9 DEF AnsweredOnce
<1> QED  BY <1>10, <1>11, <1>12, <1>13 DEF AnsweredOnce

\* What a worker sends leaves its callable and reaches one client, or is lost.
LEMMA OnceSends ==
  ASSUME ServerSound, AnsweredOnce, NEW w \in Workers, wpc[w] = "send",
         Sends(doing[w].fd, doing[w].chunks),
         NEW to \in {"finish", "close"}, wpc' = [wpc EXCEPT ![w] = to], UNCHANGED <<queue, doing>>
  PROVE  AnsweredOnce'
<1> DEFINE c == fdtab[doing[w].fd]
<1>1. Running(w) /\ doing[w] \in Callables /\ doing[w].fd \in Fds /\ doing[w].chunks \in Seq(Chunks)
  BY DEF ServerSound, PoolSound, Running, Callables
<1>2. c \in Conns /\ UNCHANGED got
  BY <1>1, OpenIsConn DEF Sends, ServerSound
<1>3. \/ out' = out
      \/ out' = [out EXCEPT ![c] = out[c] \o doing[w].chunks]
  BY DEF Sends
<1>4. /\ ~Running(w)' /\ Answering(w)' = {}
      /\ \A v \in Workers \ {w} : (Running(v)' <=> Running(v)) /\ Answering(v)' = Answering(v)
  BY DEF ServerSound, PoolSound, Running, Answering
<1>5. Received' = Received /\ \A i : Asked(i)' = Asked(i)
  BY <1>2 DEF Received, Asked
<1>6. Answering(w) = ToSet(doing[w].chunks) /\ IsInjective(doing[w].chunks)
  BY <1>1, SMTT(40) DEF Answering, AnsweredOnce
<1>7. \A d \in Conns : /\ IsInjective(out'[d])
                       /\ d # c => Answered(d)' = Answered(d)
                       /\ d = c => Answered(d)' \subseteq Answered(d) \cup Answering(w)
  <2>1. CASE out' = out
    BY <2>1 DEF AnsweredOnce, Answered
  <2>2. CASE out' = [out EXCEPT ![c] = out[c] \o doing[w].chunks]
    <3>1. out[c] \in Seq(Chunks) /\ out'[c] = out[c] \o doing[w].chunks
      BY <1>2, <2>2 DEF ServerSound, SockTypeOK
    <3>2. \A d \in Conns \ {c} : out'[d] = out[d]
      BY <2>2 DEF ServerSound, SockTypeOK
    <3>3. IsInjective(out[c]) /\ ToSet(out[c]) \cap ToSet(doing[w].chunks) = {}
      BY <1>2, <1>6 DEF AnsweredOnce, Answered
    <3>4. /\ ToSet(out[c] \o doing[w].chunks) = ToSet(out[c]) \cup ToSet(doing[w].chunks)
          /\ IsInjective(out[c] \o doing[w].chunks)
      <4> HIDE DEF c
      <4> QED  BY <1>1, <1>6, <3>1, <3>3, Concatenation
    <3>5. IsInjective(out'[c]) /\ ToSet(out'[c]) = ToSet(out[c]) \cup ToSet(doing[w].chunks)
      BY <3>1, <3>4
    <3> HIDE DEF c
    <3> QED  BY <1>6, <3>2, <3>5 DEF AnsweredOnce, Answered
  <2> QED  BY <1>3, <2>1, <2>2, Zenon
<1>8. \A d \in Conns : Answered(d)' \subseteq Answered(d) \cup Answering(w)
  BY <1>7
<1> HIDE DEF c
<1>9. /\ \A i \in DOMAIN queue' : IsInjective(queue'[i].chunks) /\ Asked(i)' \subseteq Received'
      /\ \A v \in Workers : Running(v)' => IsInjective(doing'[v].chunks)
      /\ \A v \in Workers : Answering(v)' \subseteq Received'
      /\ \A d \in Conns : IsInjective(out'[d]) /\ Answered(d)' \subseteq Received'
  <2>1. \A i \in DOMAIN queue' : IsInjective(queue'[i].chunks) /\ Asked(i)' \subseteq Received'
    BY <1>5 DEF AnsweredOnce
  <2>2. /\ \A v \in Workers : Running(v)' => IsInjective(doing'[v].chunks)
        /\ \A v \in Workers : Answering(v)' \subseteq Received'
    BY <1>4, <1>5 DEF AnsweredOnce
  <2>3. \A d \in Conns : IsInjective(out'[d]) /\ Answered(d)' \subseteq Received'
    BY <1>5, <1>7, <1>8 DEF AnsweredOnce
  <2> QED  BY <2>1, <2>2, <2>3
<1>10. /\ \A i, j \in DOMAIN queue' : i # j => Asked(i)' \cap Asked(j)' = {}
       /\ \A v, u \in Workers : v # u => Answering(v)' \cap Answering(u)' = {}
       /\ \A i \in DOMAIN queue', v \in Workers : Asked(i)' \cap Answering(v)' = {}
  BY <1>4, <1>5 DEF AnsweredOnce
<1>11. \A i \in DOMAIN queue', d \in Conns : Asked(i)' \cap Answered(d)' = {}
  BY <1>5, <1>8 DEF AnsweredOnce
<1>12. \A v \in Workers, d \in Conns : Answering(v)' \cap Answered(d)' = {}
  BY <1>4, <1>8 DEF AnsweredOnce
<1>13. \A d, e \in Conns : d # e => Answered(d)' \cap Answered(e)' = {}
  BY <1>7 DEF AnsweredOnce
<1> QED  BY <1>9, <1>10, <1>11, <1>12, <1>13 DEF AnsweredOnce

\* The table may lose numbers; one that is given out again is held by nobody.
LEMMA OwnStays ==
  ASSUME ServerSound, OwnChunks, UNCHANGED <<queue, out>>, reused => reused',
         \A w \in Workers : Running(w)' => Running(w) /\ doing'[w] = doing[w],
         \A fd \in HeldFds : reused' \/ fdtab'[fd] \in {None, fdtab[fd]}
  PROVE  OwnChunks'
<1> SUFFICES ASSUME ~reused' PROVE OwnChunks'
  BY DEF OwnChunks
<1>1. /\ \A i : Asked(i)' = Asked(i)
      /\ \A c : Answered(c)' = Answered(c)
      /\ \A w \in Workers : Running(w)' => Answering(w)' = Answering(w)
  BY DEF Asked, Answered, Answering
<1>2. \A i \in DOMAIN queue : queue[i].fd \in HeldFds
  BY DEF HeldFds
<1>3. \A w \in Workers : Running(w) => doing[w].fd \in HeldFds
  BY DEF HeldFds, Running
<1> QED  BY <1>1, <1>2, <1>3 DEF OwnChunks

\* What is submitted are chunks of the client behind the number.
LEMMA OwnSubmits ==
  ASSUME ServerSound, OwnChunks, NEW fd \in Fds, NEW ms \in Seq(Chunks), Submit(fd, ms),
         UNCHANGED <<fdtab, out, reused>>,
         \A x \in ToSet(ms) : x[1] = fdtab[fd]
  PROVE  OwnChunks'
<1>0. PICK new : new = Len(queue) + 1
  OBVIOUS
<1>1. queue \in Seq(Callables) /\ Len(queue) \in Nat /\ DOMAIN queue = 1..Len(queue)
  BY DEF ServerSound, PoolSound
<1>2. /\ DOMAIN queue' = 1..new
      /\ queue'[new] = [fd |-> fd, chunks |-> ms]
      /\ \A i \in DOMAIN queue : queue'[i] = queue[i]
  BY <1>0, <1>1 DEF Submit
<1>3. DOMAIN queue' = DOMAIN queue \cup {new}
  BY <1>0, <1>1, <1>2
<1>4. \A i \in DOMAIN queue : Asked(i)' = Asked(i)
  BY <1>2 DEF Asked
<1>5. Asked(new)' = ToSet(ms) /\ queue'[new].fd = fd
  BY <1>2 DEF Asked
<1>6. UNCHANGED <<doing, wpc>>
  BY DEF Submit
<1>7. /\ \A c : Answered(c)' = Answered(c)
      /\ \A w : Answering(w)' = Answering(w) /\ (Running(w)' <=> Running(w))
  BY <1>6 DEF Answered, Answering, Running
<1> SUFFICES ASSUME ~reused' PROVE OwnChunks'
  BY DEF OwnChunks
<1>8. \A i \in DOMAIN queue' : fdtab'[queue'[i].fd] # None =>
        \A x \in Asked(i)' : x[1] = fdtab'[queue'[i].fd]
  <2> SUFFICES ASSUME NEW i \in DOMAIN queue', fdtab[queue'[i].fd] # None, NEW x \in Asked(i)'
               PROVE  x[1] = fdtab[queue'[i].fd]
    OBVIOUS
  <2>1. CASE i = new
    BY <1>5, <2>1
  <2>2. CASE i \in DOMAIN queue
    BY <1>2, <1>4, <2>2 DEF OwnChunks
  <2> QED  BY <1>3, <2>1, <2>2
<1>9. \A v \in Workers : Running(v)' /\ fdtab'[doing'[v].fd] # None =>
        \A x \in Answering(v)' : x[1] = fdtab'[doing'[v].fd]
  BY <1>6, <1>7 DEF OwnChunks
<1>10. \A c \in Conns : \A x \in Answered(c)' : x[1] = c
  BY <1>7 DEF OwnChunks
<1> QED  BY <1>8, <1>9, <1>10 DEF OwnChunks

\* A callable that is taken is the one that was submitted.
LEMMA OwnTakes ==
  ASSUME ServerSound, OwnChunks, NEW w \in Workers, Take(w)
  PROVE  OwnChunks'
<1>1. queue \in Seq(Callables) /\ queue # <<>> /\ queue' = Tail(queue)
  BY DEF ServerSound, PoolSound, Take
<1>2. /\ 1 \in DOMAIN queue
      /\ \A i \in DOMAIN queue' : i + 1 \in DOMAIN queue /\ queue'[i] = queue[i + 1]
  BY <1>1
<1>3. /\ UNCHANGED <<fdtab, out, reused>>
      /\ doing' = [doing EXCEPT ![w] = queue[1]]
      /\ wpc' = [wpc EXCEPT ![w] = "test"]
  BY <1>1 DEF Take, sockVars
<1>4. /\ Running(w)' /\ doing'[w] = queue[1]
      /\ \A v \in Workers \ {w} : doing'[v] = doing[v] /\ (Running(v)' <=> Running(v))
  BY <1>3 DEF ServerSound, PoolSound, Running
<1>5. \A i \in DOMAIN queue' : Asked(i)' = Asked(i + 1)
  BY <1>2 DEF Asked
<1>6. Answering(w)' = Asked(1) /\ \A v \in Workers \ {w} : Answering(v)' = Answering(v)
  BY <1>4 DEF Asked, Answering
<1>7. \A c : Answered(c)' = Answered(c)
  BY <1>3 DEF Answered
<1> SUFFICES ASSUME ~reused' PROVE OwnChunks'
  BY DEF OwnChunks
<1>8. \A i \in DOMAIN queue' : fdtab'[queue'[i].fd] # None =>
        \A x \in Asked(i)' : x[1] = fdtab'[queue'[i].fd]
  BY <1>2, <1>3, <1>5 DEF OwnChunks
<1>9. \A v \in Workers : Running(v)' /\ fdtab'[doing'[v].fd] # None =>
        \A x \in Answering(v)' : x[1] = fdtab'[doing'[v].fd]
  BY <1>2, <1>3, <1>4, <1>6 DEF OwnChunks
<1> QED  BY <1>3, <1>7, <1>8, <1>9 DEF OwnChunks

\* As long as no number was reused, what is sent reaches the client whose chunks
\* it answers.
LEMMA OwnSends ==
  ASSUME ServerSound, OwnChunks, NEW w \in Workers, wpc[w] = "send",
         Sends(doing[w].fd, doing[w].chunks),
         NEW to \in {"finish", "close"}, wpc' = [wpc EXCEPT ![w] = to], UNCHANGED <<queue, doing>>
  PROVE  OwnChunks'
<1> DEFINE c == fdtab[doing[w].fd]
<1>1. Running(w) /\ doing[w] \in Callables /\ doing[w].fd \in Fds /\ doing[w].chunks \in Seq(Chunks)
  BY DEF ServerSound, PoolSound, Running, Callables
<1>2. c \in Conns /\ c # None /\ UNCHANGED <<fdtab, reused>>
  BY <1>1, OpenIsConn DEF Sends, ServerSound
<1>3. \/ out' = out
      \/ out' = [out EXCEPT ![c] = out[c] \o doing[w].chunks]
  BY DEF Sends
<1>4. /\ ~Running(w)'
      /\ \A v \in Workers \ {w} : (Running(v)' <=> Running(v)) /\ Answering(v)' = Answering(v)
  BY DEF ServerSound, PoolSound, Running, Answering
<1>5. \A i : Asked(i)' = Asked(i)
  BY DEF Asked
<1> SUFFICES ASSUME ~reused' PROVE OwnChunks'
  BY DEF OwnChunks
<1>6. \A x \in ToSet(doing[w].chunks) : x[1] = c
  BY <1>1, <1>2, SMTT(40) DEF OwnChunks, Answering
<1>7. \A d \in Conns : \A x \in Answered(d)' : x[1] = d
  <2>1. CASE out' = out
    BY <1>2, <2>1 DEF OwnChunks, Answered
  <2>2. CASE out' = [out EXCEPT ![c] = out[c] \o doing[w].chunks]
    <3>1. out[c] \in Seq(Chunks) /\ out'[c] = out[c] \o doing[w].chunks
      BY <1>2, <2>2 DEF ServerSound, SockTypeOK
    <3>2. \A d \in Conns \ {c} : out'[d] = out[d]
      BY <2>2 DEF ServerSound, SockTypeOK
    <3>3. ToSet(out'[c]) = ToSet(out[c]) \cup ToSet(doing[w].chunks)
      BY <1>1, <3>1, Concatenation
    <3> QED  BY <1>2, <1>6, <3>2, <3>3 DEF OwnChunks, Answered
  <2> QED  BY <1>3, <2>1, <2>2, Zenon
<1> HIDE DEF c
<1> QED  BY <1>2, <1>4, <1>5, <1>7 DEF OwnChunks

\* A client gets at most as many answers as the server received chunks from it.
LEMMA AnswersBounded ==
  ASSUME ServerSound, AnsweredOnce, OwnChunks, ~reused, NEW c \in Conns
  PROVE  Len(out[c]) <= got[c]
<1> DEFINE S == 1..Len(out[c])  T == 1..got[c]  F == [k \in S |-> out[c][k][2]]
<1>1. out[c] \in Seq(Chunks) /\ Len(out[c]) \in Nat /\ got[c] \in Nat /\ DOMAIN out[c] = S
  BY SocketsAssumption DEF ServerSound, SockTypeOK
<1>2. \A k \in S : out[c][k] \in Chunks /\ out[c][k] \in Answered(c)
  BY <1>1 DEF Answered, ToSet
<1>3. \A k \in S : out[c][k][1] = c /\ out[c][k][2] <= got[c]
  BY <1>2 DEF OwnChunks, AnsweredOnce, Received
<1>4. \A k \in S : out[c][k] = <<c, out[c][k][2]>> /\ out[c][k][2] \in 1..MaxChunks
  BY <1>2, <1>3 DEF Chunks
<1>5. \A k \in S : out[c][k][2] \in T
  BY <1>1, <1>3, <1>4, SocketsAssumption
<1>6. F \in [S -> T]
  BY <1>5
<1>7. \A k, l \in S : F[k] = F[l] => k = l
  <2>1. \A k, l \in S : out[c][k] = out[c][l] => k = l
    BY <1>1 DEF AnsweredOnce, IsInjective
  <2> SUFFICES ASSUME NEW k \in S, NEW l \in S, out[c][k][2] = out[c][l][2] PROVE k = l
    OBVIOUS
  <2>2. out[c][k] = out[c][l]
    BY <1>4
  <2> QED  BY <2>1, <2>2
<1>8. IsFiniteSet(S) /\ Cardinality(S) = Len(out[c]) /\ IsFiniteSet(T) /\ Cardinality(T) = got[c]
  <2>1. 1 \in Int /\ Len(out[c]) \in Int /\ got[c] \in Int
    BY <1>1
  <2>2. /\ IsFiniteSet(S) /\ Cardinality(S) = IF 1 > Len(out[c]) THEN 0 ELSE Len(out[c]) - 1 + 1
        /\ IsFiniteSet(T) /\ Cardinality(T) = IF 1 > got[c] THEN 0 ELSE got[c] - 1 + 1
    BY <2>1, FS_Interval
  <2> QED  BY <1>1, <2>2
<1>9. F \in Injection(S, T)
  <2> HIDE DEF F, S, T
  <2> QED  BY <1>6, <1>7 DEF Injection, IsInjective
<1>10. Cardinality(S) <= Cardinality(T)
  <2> HIDE DEF F, S, T
  <2> QED  BY <1>8, <1>9, FS_Injection
<1> HIDE DEF S, T
<1> QED  BY <1>8, <1>10

-----------------------------------------------------------------------------
(* The inductive invariants                                                *)

Open == {fd \in Fds : fdtab[fd] # None}
Numbers == Fds \cup {ServerFd}

\* The main thread looks at a batch; it may be in the signal handler.
Scanning == mpc = "scan" \/ (mpc = "handler" /\ ret = "scan")

\* accept or recv returns at once.
AtOnce(fd) == IF fd = ServerFd THEN backlog # {} \/ ~is_running ELSE Readable(fd)

SelectTyped ==
    /\ watched \subseteq Numbers /\ max_fd \in Numbers
    /\ client_fds \subseteq Fds /\ batch \subseteq Numbers
SelectBooks ==
    mpc # "exit" =>
      /\ client_fds = Open
      /\ watched = client_fds \cup {ServerFd}
      /\ max_fd \in watched /\ \A fd \in watched : fd <= max_fd
SelectBatch == (batch # {} => Scanning) /\ \A fd \in batch : AtOnce(fd)
SelectInv == SelectTyped /\ SelectBooks /\ SelectBatch

PollTyped ==
    /\ fds \in Seq(Numbers) /\ client_fds \subseteq Fds /\ hot \in Numbers \cup {None}
    /\ batch \in [DOMAIN batch -> [fd : Numbers, hup : BOOLEAN]] /\ DOMAIN batch \subseteq Nat
PollBooks ==
    mpc # "exit" =>
      /\ client_fds = Open
      /\ \A fd \in Fds : fd \in client_fds <=> \E i \in DOMAIN fds : fds[i] = fd
      /\ \A i, j \in DOMAIN fds : fds[i] = fds[j] => i = j
\* No number is in the batch twice; one that is reported with an error has nobody
\* behind it who is still there, then and when its error is handled.
PollBatch ==
    /\ DOMAIN batch # {} \/ hot # None => Scanning
    /\ \A i, j \in DOMAIN batch : batch[i].fd = batch[j].fd => i = j
    /\ \A i \in DOMAIN batch :
         /\ AtOnce(batch[i].fd) /\ batch[i].fd # hot
         /\ batch[i].hup /\ batch[i].fd # ServerFd => Gone(fdtab[batch[i].fd])
    /\ hot \in Fds /\ fdtab[hot] # None => Gone(fdtab[hot])
PollStopped == mpc # "dtor_wait" /\ (mpc \in {"dtor_close", "exit"} => ~is_running)
PollInv == PollTyped /\ PollBooks /\ PollBatch /\ PollStopped

EpollTyped == batch \subseteq Numbers
EpollBooks == watched = Open
EpollInv == EpollTyped /\ EpollBooks /\ BatchIsReadable(batch) /\ FailedAreGone

IInv ==
    /\ program \in {"select", "poll", "epoll"}
    /\ ServerSound
    /\ program = "select" => SelectInv
    /\ program = "poll" => PollInv
    /\ program = "epoll" => EpollInv

-----------------------------------------------------------------------------
(* The three servers are about the same sockets, pool and main thread: an  *)
(* operator of ServerPool means the same in each of them.                  *)

\* The instance Select is about the variables of this module: its helpers and
\* steps are those of ServerPool.
LEMMA SelectSame ==
  /\ Select!Fds = Fds /\ Select!FreeFds = FreeFds /\ Select!HeldFds = HeldFds
  /\ UNCHANGED Select!sockVars <=> UNCHANGED sockVars
  /\ UNCHANGED Select!poolVars <=> UNCHANGED poolVars
  /\ UNCHANGED Select!mainVars <=> UNCHANGED mainVars
  /\ \A fd : (Select!Readable(fd) <=> Readable(fd)) /\ (Select!EndOfStream(fd) <=> EndOfStream(fd))
  /\ \A fd : Select!NextChunk(fd) = NextChunk(fd)
  /\ \A c, fd, held : Select!Accepts(c, fd, held) => Accepts(c, fd, held)
  /\ \A fd : Select!Receives(fd) => Receives(fd)
  /\ \A S : Select!Closes(S) => Closes(S)
  /\ \A fd, ms : Select!Submit(fd, ms) => Submit(fd, ms)
  /\ \A c \in Conns : Select!Client(c) => Client(c)
  /\ \A w \in Workers : (Select!Take(w) => Take(w)) /\ (Select!Test(w) => Test(w))
  /\ \A w \in Workers : Select!Finish(w) => Finish(w)
  /\ \A fd, ms : Select!Sends(fd, ms) => Sends(fd, ms)
  /\ \A fd : Select!SendFails(fd) => SendFails(fd)
  /\ (Select!Loop => Loop) /\ (Select!Signal => Signal)
  /\ Select!HandlerReturns => HandlerReturns
  /\ (Select!DtorStop => DtorStop) /\ (Select!DtorWait => DtorWait)
  /\ Select!ServerInit => ServerInit
<1>1. /\ Select!Fds = Fds /\ Select!FreeFds = FreeFds /\ Select!HeldFds = HeldFds
      /\ UNCHANGED Select!sockVars <=> UNCHANGED sockVars
      /\ UNCHANGED Select!poolVars <=> UNCHANGED poolVars
      /\ UNCHANGED Select!mainVars <=> UNCHANGED mainVars
  BY DEF Select!Fds, Fds, Select!FreeFds, FreeFds, Select!HeldFds, HeldFds, Select!sockVars,
         sockVars, Select!poolVars, poolVars, Select!mainVars, mainVars
<1>2. \A fd : (Select!Readable(fd) <=> Readable(fd)) /\ (Select!EndOfStream(fd) <=> EndOfStream(fd))
  BY DEF Select!Readable, Readable, Select!EndOfStream, EndOfStream, Select!Unread, Unread,
         Select!Gone, Gone
<1>3. \A fd : Select!NextChunk(fd) = NextChunk(fd)
  BY DEF Select!NextChunk, NextChunk
<1>4. \A c, fd, held : Select!Accepts(c, fd, held) => Accepts(c, fd, held)
  BY DEF Select!Accepts, Accepts, Select!FreeFds, FreeFds, Select!Fds, Fds, Select!Min, Min
<1>5. \A fd : Select!Receives(fd) => Receives(fd)
  BY DEF Select!Receives, Receives, Select!Unread, Unread
<1>6. \A S : Select!Closes(S) => Closes(S)
  BY DEF Select!Closes, Closes, Select!Fds, Fds
<1>7. \A fd, ms : Select!Submit(fd, ms) => Submit(fd, ms)
  BY DEF Select!Submit, Submit
<1>8. \A c \in Conns : Select!Client(c) => Client(c)
  BY DEF Select!Client, Client, Select!Connect, Connect, Select!ClientSend, ClientSend,
         Select!HangUp, HangUp, Select!Reset, Reset
<1>9. /\ \A w \in Workers : (Select!Take(w) => Take(w)) /\ (Select!Test(w) => Test(w))
      /\ \A w \in Workers : Select!Finish(w) => Finish(w)
  BY DEF Select!Take, Take, Select!Test, Test, Select!Finish, Finish, Select!sockVars, sockVars
<1>10. /\ \A fd, ms : Select!Sends(fd, ms) => Sends(fd, ms)
      /\ \A fd : Select!SendFails(fd) => SendFails(fd)
  BY DEF Select!Sends, Sends, Select!SendFails, SendFails, Select!Gone, Gone
<1>11. (Select!Loop => Loop) /\ (Select!Signal => Signal)
  BY DEF Select!Loop, Loop, Select!Signal, Signal, Select!Goto, Goto, Select!LoopLabels,
         LoopLabels, Select!sockVars, sockVars, Select!poolVars, poolVars
<1>12. \A S : Select!Cardinality(S) = Cardinality(S)
  BY DEF Select!Cardinality, Cardinality
<1>13. Select!Outstanding = Outstanding
  BY <1>12 DEF Select!Outstanding, Outstanding
<1>14. Select!HandlerReturns => HandlerReturns
  BY <1>13 DEF Select!HandlerReturns, HandlerReturns, Select!Goto, Goto, Select!sockVars, sockVars,
               Select!poolVars, poolVars
<1>15. (Select!DtorStop => DtorStop) /\ (Select!DtorWait => DtorWait)
  BY <1>13 DEF Select!DtorStop, DtorStop, Select!DtorWait, DtorWait, Select!Goto, Goto,
               Select!sockVars, sockVars, Select!poolVars, poolVars
<1>16. Select!ServerInit => ServerInit
  BY DEF Select!ServerInit, ServerInit, Select!SockInit, SockInit, Select!Fds, Fds
<1> QED  BY <1>1, <1>2, <1>3, <1>4, <1>5, <1>6, <1>7, <1>8, <1>9, <1>10, <1>11,
           <1>12, <1>13, <1>14, <1>15, <1>16

\* So are those of the instance Poll.
LEMMA PollSame ==
  /\ Poll!Fds = Fds /\ Poll!FreeFds = FreeFds /\ Poll!HeldFds = HeldFds
  /\ UNCHANGED Poll!sockVars <=> UNCHANGED sockVars
  /\ UNCHANGED Poll!poolVars <=> UNCHANGED poolVars
  /\ UNCHANGED Poll!mainVars <=> UNCHANGED mainVars
  /\ \A fd : (Poll!Readable(fd) <=> Readable(fd)) /\ (Poll!EndOfStream(fd) <=> EndOfStream(fd))
  /\ \A fd : Poll!NextChunk(fd) = NextChunk(fd)
  /\ \A c, fd, held : Poll!Accepts(c, fd, held) => Accepts(c, fd, held)
  /\ \A fd : Poll!Receives(fd) => Receives(fd)
  /\ \A S : Poll!Closes(S) => Closes(S)
  /\ \A fd, ms : Poll!Submit(fd, ms) => Submit(fd, ms)
  /\ \A c \in Conns : Poll!Client(c) => Client(c)
  /\ \A w \in Workers : (Poll!Take(w) => Take(w)) /\ (Poll!Test(w) => Test(w))
  /\ \A w \in Workers : Poll!Finish(w) => Finish(w)
  /\ \A fd, ms : Poll!Sends(fd, ms) => Sends(fd, ms)
  /\ \A fd : Poll!SendFails(fd) => SendFails(fd)
  /\ (Poll!Loop => Loop) /\ (Poll!Signal => Signal)
  /\ Poll!HandlerReturns => HandlerReturns
  /\ (Poll!DtorStop => DtorStop) /\ (Poll!DtorWait => DtorWait)
  /\ Poll!ServerInit => ServerInit
<1>1. /\ Poll!Fds = Fds /\ Poll!FreeFds = FreeFds /\ Poll!HeldFds = HeldFds
      /\ UNCHANGED Poll!sockVars <=> UNCHANGED sockVars
      /\ UNCHANGED Poll!poolVars <=> UNCHANGED poolVars
      /\ UNCHANGED Poll!mainVars <=> UNCHANGED mainVars
  BY DEF Poll!Fds, Fds, Poll!FreeFds, FreeFds, Poll!HeldFds, HeldFds, Poll!sockVars, sockVars,
         Poll!poolVars, poolVars, Poll!mainVars, mainVars
<1>2. \A fd : (Poll!Readable(fd) <=> Readable(fd)) /\ (Poll!EndOfStream(fd) <=> EndOfStream(fd))
  BY DEF Poll!Readable, Readable, Poll!EndOfStream, EndOfStream, Poll!Unread, Unread, Poll!Gone,
         Gone
<1>3. \A fd : Poll!NextChunk(fd) = NextChunk(fd)
  BY DEF Poll!NextChunk, NextChunk
<1>4. \A c, fd, held : Poll!Accepts(c, fd, held) => Accepts(c, fd, held)
  BY DEF Poll!Accepts, Accepts, Poll!FreeFds, FreeFds, Poll!Fds, Fds, Poll!Min, Min
<1>5. \A fd : Poll!Receives(fd) => Receives(fd)
  BY DEF Poll!Receives, Receives, Poll!Unread, Unread
<1>6. \A S : Poll!Closes(S) => Closes(S)
  BY DEF Poll!Closes, Closes, Poll!Fds, Fds
<1>7. \A fd, ms : Poll!Submit(fd, ms) => Submit(fd, ms)
  BY DEF Poll!Submit, Submit
<1>8. \A c \in Conns : Poll!Client(c) => Client(c)
  BY DEF Poll!Client, Client, Poll!Connect, Connect, Poll!ClientSend, ClientSend, Poll!HangUp,
         HangUp, Poll!Reset, Reset
<1>9. /\ \A w \in Workers : (Poll!Take(w) => Take(w)) /\ (Poll!Test(w) => Test(w))
      /\ \A w \in Workers : Poll!Finish(w) => Finish(w)
  BY DEF Poll!Take, Take, Poll!Test, Test, Poll!Finish, Finish, Poll!sockVars, sockVars
<1>10. /\ \A fd, ms : Poll!Sends(fd, ms) => Sends(fd, ms)
      /\ \A fd : Poll!SendFails(fd) => SendFails(fd)
  BY DEF Poll!Sends, Sends, Poll!SendFails, SendFails, Poll!Gone, Gone
<1>11. (Poll!Loop => Loop) /\ (Poll!Signal => Signal)
  BY DEF Poll!Loop, Loop, Poll!Signal, Signal, Poll!Goto, Goto, Poll!LoopLabels, LoopLabels,
         Poll!sockVars, sockVars, Poll!poolVars, poolVars
<1>12. \A S : Poll!Cardinality(S) = Cardinality(S)
  BY DEF Poll!Cardinality, Cardinality
<1>13. Poll!Outstanding = Outstanding
  BY <1>12 DEF Poll!Outstanding, Outstanding
<1>14. Poll!HandlerReturns => HandlerReturns
  BY <1>13 DEF Poll!HandlerReturns, HandlerReturns, Poll!Goto, Goto, Poll!sockVars, sockVars,
               Poll!poolVars, poolVars
<1>15. (Poll!DtorStop => DtorStop) /\ (Poll!DtorWait => DtorWait)
  BY <1>13 DEF Poll!DtorStop, DtorStop, Poll!DtorWait, DtorWait, Poll!Goto, Goto, Poll!sockVars,
               sockVars, Poll!poolVars, poolVars
<1>16. Poll!ServerInit => ServerInit
  BY DEF Poll!ServerInit, ServerInit, Poll!SockInit, SockInit, Poll!Fds, Fds
<1> QED  BY <1>1, <1>2, <1>3, <1>4, <1>5, <1>6, <1>7, <1>8, <1>9, <1>10, <1>11,
           <1>12, <1>13, <1>14, <1>15, <1>16

\* So are those of the instance Epoll.
LEMMA EpollSame ==
  /\ Epoll!Fds = Fds /\ Epoll!FreeFds = FreeFds /\ Epoll!HeldFds = HeldFds
  /\ UNCHANGED Epoll!sockVars <=> UNCHANGED sockVars
  /\ UNCHANGED Epoll!poolVars <=> UNCHANGED poolVars
  /\ UNCHANGED Epoll!mainVars <=> UNCHANGED mainVars
  /\ \A fd : (Epoll!Readable(fd) <=> Readable(fd)) /\ (Epoll!EndOfStream(fd) <=> EndOfStream(fd))
  /\ \A fd : Epoll!NextChunk(fd) = NextChunk(fd)
  /\ \A c, fd, held : Epoll!Accepts(c, fd, held) => Accepts(c, fd, held)
  /\ \A fd : Epoll!Receives(fd) => Receives(fd)
  /\ \A S : Epoll!Closes(S) => Closes(S)
  /\ \A fd, ms : Epoll!Submit(fd, ms) => Submit(fd, ms)
  /\ \A c \in Conns : Epoll!Client(c) => Client(c)
  /\ \A w \in Workers : (Epoll!Take(w) => Take(w)) /\ (Epoll!Test(w) => Test(w))
  /\ \A w \in Workers : Epoll!Finish(w) => Finish(w)
  /\ \A fd, ms : Epoll!Sends(fd, ms) => Sends(fd, ms)
  /\ \A fd : Epoll!SendFails(fd) => SendFails(fd)
  /\ (Epoll!Loop => Loop) /\ (Epoll!Unlock => Unlock) /\ (Epoll!Signal => Signal)
  /\ Epoll!HandlerReturns => HandlerReturns
  /\ (Epoll!DtorStop => DtorStop) /\ (Epoll!DtorWait => DtorWait)
  /\ Epoll!ServerInit => ServerInit
<1>1. /\ Epoll!Fds = Fds /\ Epoll!FreeFds = FreeFds /\ Epoll!HeldFds = HeldFds
      /\ UNCHANGED Epoll!sockVars <=> UNCHANGED sockVars
      /\ UNCHANGED Epoll!poolVars <=> UNCHANGED poolVars
      /\ UNCHANGED Epoll!mainVars <=> UNCHANGED mainVars
  BY DEF Epoll!Fds, Fds, Epoll!FreeFds, FreeFds, Epoll!HeldFds, HeldFds, Epoll!sockVars,
         sockVars, Epoll!poolVars, poolVars, Epoll!mainVars, mainVars
<1>2. \A fd : (Epoll!Readable(fd) <=> Readable(fd)) /\ (Epoll!EndOfStream(fd) <=> EndOfStream(fd))
  BY DEF Epoll!Readable, Readable, Epoll!EndOfStream, EndOfStream, Epoll!Unread, Unread,
         Epoll!Gone, Gone
<1>3. \A fd : Epoll!NextChunk(fd) = NextChunk(fd)
  BY DEF Epoll!NextChunk, NextChunk
<1>4. \A c, fd, held : Epoll!Accepts(c, fd, held) => Accepts(c, fd, held)
  BY DEF Epoll!Accepts, Accepts, Epoll!FreeFds, FreeFds, Epoll!Fds, Fds, Epoll!Min, Min
<1>5. \A fd : Epoll!Receives(fd) => Receives(fd)
  BY DEF Epoll!Receives, Receives, Epoll!Unread, Unread
<1>6. \A S : Epoll!Closes(S) => Closes(S)
  BY DEF Epoll!Closes, Closes, Epoll!Fds, Fds
<1>7. \A fd, ms : Epoll!Submit(fd, ms) => Submit(fd, ms)
  BY DEF Epoll!Submit, Submit
<1>8. \A c \in Conns : Epoll!Client(c) => Client(c)
  BY DEF Epoll!Client, Client, Epoll!Connect, Connect, Epoll!ClientSend, ClientSend,
         Epoll!HangUp, HangUp, Epoll!Reset, Reset
<1>9. /\ \A w \in Workers : (Epoll!Take(w) => Take(w)) /\ (Epoll!Test(w) => Test(w))
      /\ \A w \in Workers : Epoll!Finish(w) => Finish(w)
  BY DEF Epoll!Take, Take, Epoll!Test, Test, Epoll!Finish, Finish, Epoll!sockVars, sockVars
<1>10. /\ \A fd, ms : Epoll!Sends(fd, ms) => Sends(fd, ms)
      /\ \A fd : Epoll!SendFails(fd) => SendFails(fd)
  BY DEF Epoll!Sends, Sends, Epoll!SendFails, SendFails, Epoll!Gone, Gone
<1>11. (Epoll!Loop => Loop) /\ (Epoll!Unlock => Unlock) /\ (Epoll!Signal => Signal)
  BY DEF Epoll!Loop, Loop, Epoll!Unlock, Unlock, Epoll!Signal, Signal, Epoll!Goto, Goto,
         Epoll!LoopLabels, LoopLabels, Epoll!sockVars, sockVars, Epoll!poolVars, poolVars
<1>12. \A S : Epoll!Cardinality(S) = Cardinality(S)
  BY DEF Epoll!Cardinality, Cardinality
<1>13. Epoll!Outstanding = Outstanding
  BY <1>12 DEF Epoll!Outstanding, Outstanding
<1>14. Epoll!HandlerReturns => HandlerReturns
  BY <1>13 DEF Epoll!HandlerReturns, HandlerReturns, Epoll!Goto, Goto, Epoll!sockVars, sockVars,
               Epoll!poolVars, poolVars
<1>15. (Epoll!DtorStop => DtorStop) /\ (Epoll!DtorWait => DtorWait)
  BY <1>13 DEF Epoll!DtorStop, DtorStop, Epoll!DtorWait, DtorWait, Epoll!Goto, Goto, Epoll!sockVars,
               sockVars, Epoll!poolVars, poolVars
<1>16. Epoll!ServerInit => ServerInit
  BY DEF Epoll!ServerInit, ServerInit, Epoll!SockInit, SockInit, Epoll!Fds, Fds
<1> QED  BY <1>1, <1>2, <1>3, <1>4, <1>5, <1>6, <1>7, <1>8, <1>9, <1>10, <1>11,
           <1>12, <1>13, <1>14, <1>15, <1>16

-----------------------------------------------------------------------------
(* selectthread_tp.cpp                                                     *)

\* The listening number is no client's.
LEMMA NumbersNat == /\ Fds \subseteq Nat /\ ServerFd \in Nat /\ ServerFd \notin Fds
                    /\ Numbers \subseteq 0..MaxFd /\ MaxFd \in Nat
  BY SocketsAssumption DEF Fds, Numbers

\* What every step keeps, and what no step but the last does.
SelectKept == ServerSound' /\ SelectInv' /\ (mpc # "dtor_close" => DropsNobody)

\* The books and what is in the batch stay as they are.
LEMMA SelectMoves ==
  ASSUME ServerSound, SelectInv, ServerSound', UNCHANGED <<watched, max_fd, client_fds, batch>>,
         UNCHANGED sockVars, is_running' => is_running,
         mpc = "exit" => mpc' = "exit", batch # {} => Scanning'
  PROVE  SelectKept
<1>1. \A fd \in batch : AtOnce(fd)'
  BY DEF SelectInv, SelectBatch, AtOnce, Readable, Unread, Gone, sockVars
<1>2. SelectInv'
  BY <1>1 DEF SelectInv, SelectTyped, SelectBooks, SelectBatch, Open, sockVars
<1> QED  BY <1>2, SameTableDropsNobody DEF SelectKept, sockVars

\* What selectthread_tp.cpp does with SIGINT, the loop and the destructor touches
\* neither its records nor the descriptors.
LEMMA SelectMain ==
  ASSUME ServerSound, SelectInv, UNCHANGED <<watched, max_fd, client_fds, batch>>,
         Loop \/ Signal \/ HandlerReturns \/ DtorStop \/ DtorWait
  PROVE  SelectKept
<1>1. ServerSound' /\ UNCHANGED sockVars
  BY MainStepSound
<1>2. /\ is_running' => is_running
      /\ mpc = "exit" => mpc' = "exit"
      /\ Scanning => Scanning'
  BY DEF Loop, Signal, HandlerReturns, DtorStop, DtorWait, Goto, LoopLabels, Scanning
<1> QED  BY <1>1, <1>2, SelectMoves DEF SelectInv, SelectBatch

\* select returns, a scan ends, or select fails.
LEMMA SelectWaits ==
  ASSUME ServerSound, SelectInv, Select!Select \/ Select!EndScan \/ Select!SelectFails
  PROVE  SelectKept
<1>1. UNCHANGED <<is_running, poolVars, ret, watched, max_fd, client_fds>> /\ UNCHANGED sockVars
  BY SelectSame DEF Select!Select, Select!EndScan, Select!SelectFails, Select!fdVars
<1>2. ServerSound'
  <2>1. /\ mpc \in LoopLabels /\ mpc' \in LoopLabels \cup {"dtor_stop"}
    BY DEF Select!Select, Select!EndScan, Select!SelectFails, Select!Goto, LoopLabels
  <2> QED  BY <1>1, <2>1, MoveSound, SockStutters, SameNumbers
           DEF ServerSound, PoolSound, poolVars, sockVars
<1>3. CASE Select!Select
  <2>1. batch' \subseteq watched /\ Scanning' /\ mpc = "wait" /\ mpc' = "scan"
    BY <1>3 DEF Select!Select, Select!Ready, Scanning, Select!Goto
  <2>2. \A fd \in batch' : AtOnce(fd)'
    <3>1. \A fd \in batch' : AtOnce(fd)
      BY <1>3, SelectSame DEF Select!Select, Select!Ready, AtOnce
    <3> QED  BY <3>1, <1>1 DEF AtOnce, Readable, Unread, Gone, sockVars
  <2>3. SelectInv'
    BY <1>1, <2>1, <2>2 DEF SelectInv, SelectTyped, SelectBooks, SelectBatch, Open, sockVars
  <2> QED  BY <1>1, <1>2, <2>3, SameTableDropsNobody DEF SelectKept, sockVars
<1>4. CASE Select!EndScan \/ Select!SelectFails
  <2>1. batch' = batch /\ batch = {} /\ mpc # "exit" /\ mpc' # "exit"
    BY <1>4 DEF Select!EndScan, Select!SelectFails, Select!Goto, SelectInv, SelectBatch, Scanning
  <2> QED  BY <1>1, <1>2, <2>1, SelectMoves
<1> QED  BY <1>3, <1>4

\* The scan looks at the lowest number that is left.
LEMMA SelectScans ==
  ASSUME ServerSound, SelectInv, NEW fd \in Numbers, Select!Scans(fd)
  PROVE  /\ mpc = "scan" /\ fd \in batch /\ AtOnce(fd) /\ batch' = batch \ {fd}
         /\ UNCHANGED <<is_running, mpc, ret>> /\ Scanning'
<1>1. batch # {} /\ fd = Min(batch)
  BY DEF Select!Scans, Select!Scanned, Select!Min, Min
<1>2. fd \in batch
  BY <1>1, MinOfNats, NumbersNat DEF SelectInv, SelectTyped
<1>3. mpc = "scan" /\ batch' = batch \ {fd} /\ UNCHANGED <<is_running, mpc, ret>>
  BY SelectSame DEF Select!Scans, mainVars
<1> QED  BY <1>2, <1>3 DEF SelectInv, SelectBatch, Scanning

\* accept_client records the new number in FD_SET and the client list at once.
LEMMA SelectAccepts ==
  ASSUME ServerSound, SelectInv, Select!accept_client
  PROVE  SelectKept
<1>1. /\ mpc = "scan" /\ batch' = batch \ {ServerFd}
      /\ UNCHANGED <<is_running, mpc, ret>> /\ Scanning'
  BY SelectScans DEF Select!accept_client, Numbers
<1>2. UNCHANGED <<queue, doing, wpc>>
  BY SelectSame DEF Select!accept_client, poolVars
<1>3. CASE /\ UNCHANGED <<watched, max_fd, client_fds>> /\ UNCHANGED sockVars
  <2>1. ServerSound'
    BY <1>1, <1>2, <1>3, StutterSound DEF poolVars, mainVars
  <2>2. \A fd \in batch' : AtOnce(fd)'
    BY <1>1, <1>3 DEF SelectInv, SelectBatch, AtOnce, Readable, Unread, Gone, sockVars
  <2>3. SelectInv'
    BY <1>1, <1>3, <2>2 DEF SelectInv, SelectTyped, SelectBooks, SelectBatch, Open, sockVars
  <2> QED  BY <1>3, <2>1, <2>3, SameTableDropsNobody DEF SelectKept, sockVars
<1>4. CASE \E c \in backlog, fd \in FreeFds :
             /\ Accepts(c, fd, HeldFds)
             /\ watched' = watched \cup {fd} /\ client_fds' = client_fds \cup {fd}
             /\ max_fd' = Max({max_fd, fd})
  <2>1. PICK c \in backlog, fd \in FreeFds :
          /\ Accepts(c, fd, HeldFds)
          /\ watched' = watched \cup {fd} /\ client_fds' = client_fds \cup {fd}
          /\ max_fd' = Max({max_fd, fd})
    BY <1>4
  <2>2. fd \in Fds /\ fdtab[fd] = None /\ c \in Conns /\ c # None /\ ServerSound'
    <3>1. UNCHANGED <<is_running, mpc, ret>> /\ UNCHANGED poolVars
      BY <1>1, <1>2 DEF poolVars
    <3> QED  BY <2>1, <3>1, AcceptsSound
  <2>4. Open' = Open \cup {fd}
    BY <2>1, <2>2 DEF Open, Accepts, ServerSound, SockTypeOK
  <2>5. max_fd' \in {max_fd, fd} /\ max_fd <= max_fd' /\ fd <= max_fd'
    <3>1. {max_fd, fd} \in SUBSET (0..MaxFd) /\ MaxFd \in Nat
      BY <2>2, NumbersNat DEF SelectInv, SelectTyped, Numbers
    <3> QED  BY <2>1, <3>1, MaxOfNats
  <2>6. SelectTyped'
    BY <2>1, <2>2, <2>5, <1>1 DEF SelectInv, SelectTyped, Numbers
  <2>7. SelectBooks'
    <3>1. watched \subseteq Nat /\ max_fd \in Nat /\ fd \in Nat
      BY <2>2, NumbersNat DEF SelectInv, SelectTyped, Numbers
    <3> QED  BY <1>1, <2>1, <2>4, <2>5, <3>1 DEF SelectInv, SelectBooks
  <2>8. SelectBatch'
    <3>1. ASSUME NEW gd \in batch' PROVE AtOnce(gd)'
      <4>1. gd \in Fds /\ Readable(gd)
        BY <1>1, <3>1 DEF SelectInv, SelectTyped, SelectBatch, Numbers, AtOnce
      <4> QED  BY <4>1, <2>1, <2>2, AcceptsKeepsReadable, NumbersNat DEF AtOnce, ServerSound
    <3> QED  BY <1>1, <3>1 DEF SelectBatch
  <2> QED  BY <2>1, <2>2, <2>6, <2>7, <2>8, AcceptsDropsNobody
           DEF SelectKept, SelectInv, ServerSound
<1>5. \/ /\ UNCHANGED <<watched, max_fd, client_fds>> /\ UNCHANGED sockVars
      \/ \E c \in backlog, fd \in FreeFds :
           /\ Accepts(c, fd, HeldFds)
           /\ watched' = watched \cup {fd} /\ client_fds' = client_fds \cup {fd}
           /\ max_fd' = Max({max_fd, fd})
  <2>1. \A S : Select!Max(S) = Max(S)
    BY DEF Select!Max, Max
  <2> QED  BY <2>1, SelectSame DEF Select!accept_client, Select!fdVars
<1> QED  BY <1>3, <1>4, <1>5

\* handle_client_io takes what recv returns and hands it to the pool.
LEMMA SelectReceives ==
  ASSUME ServerSound, SelectInv, NEW fd \in Fds, Select!HandleData(fd)
  PROVE  SelectKept
<1>1. /\ mpc = "scan" /\ fd \in batch /\ AtOnce(fd) /\ batch' = batch \ {fd}
      /\ UNCHANGED <<is_running, mpc, ret>> /\ Scanning'
  BY SelectScans DEF Select!HandleData, Numbers
<1>2. /\ Receives(fd) /\ Submit(fd, <<NextChunk(fd)>>)
      /\ UNCHANGED <<watched, max_fd, client_fds>>
  BY SelectSame DEF Select!HandleData, Select!fdVars
<1>3. fdtab[fd] \in Conns /\ fdtab[fd] # None
  BY <1>1, NumbersNat, OpenIsConn DEF AtOnce, Readable, ServerSound
<1>4. ServerSound'
  BY <1>1, <1>2, <1>3, ReceivesSound
<1>5. fdtab' = fdtab /\ backlog' = backlog
  BY <1>2 DEF Receives
<1>6. SelectBatch'
  <2>1. ASSUME NEW gd \in batch' PROVE AtOnce(gd)'
    <3>1. CASE gd = ServerFd
      BY <1>1, <1>5, <2>1, <3>1 DEF SelectInv, SelectBatch, AtOnce
    <3>2. CASE gd # ServerFd
      <4>1. gd \in Fds /\ Readable(gd) /\ gd # fd
        BY <1>1, <2>1, <3>2 DEF SelectInv, SelectTyped, SelectBatch, Numbers, AtOnce
      <4> QED  BY <3>2, <4>1, <1>2, <1>3, ReceivesKeepsReadable DEF AtOnce, ServerSound
    <3> QED  BY <3>1, <3>2
  <2> QED  BY <1>1, <2>1 DEF SelectBatch
<1>7. SelectTyped' /\ SelectBooks'
  BY <1>1, <1>2, <1>5 DEF SelectInv, SelectTyped, SelectBooks, Open
<1> QED  BY <1>4, <1>5, <1>6, <1>7, SameTableDropsNobody DEF SelectKept, SelectInv

\* handle_client_io closes a number whose client has gone.
LEMMA SelectHangsUp ==
  ASSUME ServerSound, SelectInv, NEW fd \in Fds, Select!HandleHangUp(fd)
  PROVE  SelectKept
<1>1. /\ mpc = "scan" /\ fd \in batch /\ AtOnce(fd) /\ batch' = batch \ {fd}
      /\ UNCHANGED <<is_running, mpc, ret>> /\ Scanning'
  BY SelectScans DEF Select!HandleHangUp, Numbers
<1>2. /\ EndOfStream(fd) /\ Closes({fd})
      /\ watched' = watched \ {fd} /\ client_fds' = client_fds \ {fd}
      /\ UNCHANGED poolVars
  BY SelectSame DEF Select!HandleHangUp
<1>3. max_fd' = Max({ServerFd} \cup client_fds')
  <2>1. \A S : Select!Max(S) = Max(S)
    BY DEF Select!Max, Max
  <2> QED  BY <2>1 DEF Select!HandleHangUp
<1>4. ServerSound'
  <2>1. UNCHANGED <<is_running, ret>> /\ mpc' = mpc
    BY <1>1
  <2> QED  BY <1>2, <2>1, ClosesSound
<1>5. Open' = Open \ {fd}
  BY <1>2 DEF Open, Closes
<1>6. watched = client_fds \cup {ServerFd} /\ client_fds = Open
  BY <1>1 DEF SelectInv, SelectBooks
<1>7. watched' = client_fds' \cup {ServerFd} /\ client_fds' = Open'
  BY <1>2, <1>5, <1>6, NumbersNat
<1>8. max_fd' \in watched' /\ \A gd \in watched' : gd <= max_fd'
  <2>1. watched' \in SUBSET (0..MaxFd) /\ watched' # {} /\ MaxFd \in Nat
    BY <1>2, <1>7, NumbersNat DEF SelectInv, SelectTyped
  <2>2. max_fd' = Max(watched')
    BY <1>3, <1>7
  <2> QED  BY <2>1, <2>2, MaxOfNats
<1>9. SelectTyped' /\ SelectBooks'
  BY <1>1, <1>2, <1>7, <1>8 DEF SelectInv, SelectTyped, SelectBooks
<1>10. SelectBatch'
  <2>1. ASSUME NEW gd \in batch' PROVE AtOnce(gd)'
    <3>1. CASE gd = ServerFd
      BY <1>1, <1>2, <2>1, <3>1 DEF SelectInv, SelectBatch, AtOnce, Closes
    <3>2. CASE gd # ServerFd
      <4>1. gd \in Fds /\ Readable(gd) /\ gd \notin {fd}
        BY <1>1, <2>1, <3>2 DEF SelectInv, SelectTyped, SelectBatch, Numbers, AtOnce
      <4> QED  BY <3>2, <4>1, <1>2, ClosesKeepsReadable DEF AtOnce
    <3> QED  BY <3>1, <3>2
  <2> QED  BY <1>1, <2>1 DEF SelectBatch
<1>11. DropsNobody
  BY <1>2, ClosesDropsNobody DEF EndOfStream
<1> QED  BY <1>4, <1>9, <1>10, <1>11 DEF SelectKept, SelectInv

\* The destructor closes every client.
LEMMA SelectCloses ==
  ASSUME ServerSound, SelectInv, Select!DtorClose
  PROVE  SelectKept
<1>1. /\ mpc = "dtor_close" /\ mpc' = "exit" /\ Closes(client_fds) /\ client_fds' = {}
      /\ UNCHANGED <<is_running, ret, watched, max_fd, batch>> /\ UNCHANGED poolVars
  BY SelectSame DEF Select!DtorClose, Select!Goto
<1>2. ServerSound'
  BY <1>1, ClosesSound DEF SelectInv, SelectTyped
<1>3. batch = {}
  BY <1>1 DEF SelectInv, SelectBatch, Scanning
<1>4. SelectInv'
  BY <1>1, <1>3 DEF SelectInv, SelectTyped, SelectBooks, SelectBatch
<1> QED  BY <1>1, <1>2, <1>4 DEF SelectKept

\* A worker or a client does something; the main thread and its records stay.
LEMMA SelectElsewhere ==
  ASSUME ServerSound, SelectInv, UNCHANGED <<watched, max_fd, client_fds, batch>>,
         \/ \E w \in Workers : Worker(w)
         \/ /\ \E c \in Conns : Client(c)
            /\ UNCHANGED <<is_running, poolVars, mainVars>>
  PROVE  SelectKept
<1>1. /\ ServerSound' /\ UNCHANGED <<fdtab, reused, is_running, mpc, ret>>
      /\ backlog \subseteq backlog'
      /\ \A fd \in Fds : Readable(fd) => Readable(fd)'
  BY ElsewhereKeeps
<1>2. \A fd \in batch : AtOnce(fd)'
  BY <1>1 DEF SelectInv, SelectTyped, SelectBatch, AtOnce, Numbers
<1>3. SelectInv'
  BY <1>1, <1>2 DEF SelectInv, SelectTyped, SelectBooks, SelectBatch, Scanning, Open
<1> QED  BY <1>1, <1>3, SameTableDropsNobody DEF SelectKept

\* Its workers leave its records alone.
LEMMA SelectWorkerSame ==
  ASSUME NEW w \in Workers, Select!Pool(w)
  PROVE  Worker(w) /\ UNCHANGED <<watched, max_fd, client_fds, batch>>
<1>1. Select!Respond(w) => Respond(w)
  BY SelectSame DEF Select!Respond, Respond
<1> QED  BY <1>1, SelectSame DEF Select!Pool, Select!Worker, Worker, Select!fdVars

\* Every step of the select server.
LEMMA SelectStep ==
  ASSUME ServerSound, SelectInv, Select!Next PROVE SelectKept
<1>1. CASE Select!Select \/ Select!EndScan \/ Select!SelectFails
  BY <1>1, SelectWaits
<1>2. CASE Select!accept_client
  BY <1>2, SelectAccepts
<1>3. CASE Select!handle_client_io
  BY <1>3, SelectReceives, SelectHangsUp, SelectSame DEF Select!handle_client_io
<1>4. CASE Select!DtorClose
  BY <1>4, SelectCloses
<1>5. CASE /\ Select!Loop \/ Select!HandlerReturns \/ Select!DtorStop \/ Select!DtorWait \/ Select!Signal
           /\ UNCHANGED <<Select!fdVars, batch>>
  BY <1>5, SelectMain, SelectSame DEF Select!fdVars
<1>6. CASE \E w \in Workers : Select!Pool(w)
  BY <1>6, SelectWorkerSame, SelectElsewhere
<1>7. CASE Select!Clients
  <2>1. /\ \E c \in Conns : Client(c)
        /\ UNCHANGED <<is_running, poolVars, mainVars>>
        /\ UNCHANGED <<watched, max_fd, client_fds, batch>>
    BY <1>7, SelectSame DEF Select!Clients, Select!fdVars
  <2> QED  BY <2>1, SelectElsewhere
<1>8. CASE Select!Rest
  <2>1. /\ UNCHANGED <<is_running, mpc, ret, watched, max_fd, client_fds, batch>>
        /\ UNCHANGED sockVars /\ UNCHANGED <<poolVars, mainVars>>
    BY <1>8, SelectSame DEF Select!Rest, Select!vars, Select!fdVars, mainVars
  <2> QED  BY <2>1, SelectMoves, StutterSound DEF Scanning, SelectInv, SelectBatch
<1> QED  BY <1>1, <1>2, <1>3, <1>4, <1>5, <1>6, <1>7, <1>8
         DEF Select!Next, Select!Main, Select!Interrupt

-----------------------------------------------------------------------------
(* pollthread_tp.cpp                                                       *)

\* A vector without repetitions, and r, which lacks the element y of s.
OnceEach(s) == \A m, n \in DOMAIN s : s[m] = s[n] => m = n
Lacks(r, y, s, S) ==
    \A x \in S : (\E m \in DOMAIN r : r[m] = x) <=> x # y /\ \E m \in DOMAIN s : s[m] = x

\* One element is erased.
LEMMA ErasedVector ==
  ASSUME NEW S, NEW s \in Seq(S), NEW i \in DOMAIN s, OnceEach(s),
         NEW r, r = Poll!RemoveAt(s, i)
  PROVE  r \in Seq(S) /\ Lacks(r, s[i], s, S) /\ OnceEach(r)
<1> USE DEF OnceEach
<1> DEFINE a == SubSeq(s, 1, i - 1)  b == SubSeq(s, i + 1, Len(s))
<1>0. r = a \o b
  BY DEF Poll!RemoveAt
<1>1. i \in 1..Len(s) /\ Len(s) \in Nat
  OBVIOUS
<1>2. a \in Seq(S) /\ Len(a) = i - 1 /\ \A m \in 1..(i - 1) : a[m] = s[m]
  BY <1>1
<1>3. b \in Seq(S) /\ Len(b) = Len(s) - i /\ \A m \in 1..(Len(s) - i) : b[m] = s[m + i]
  BY <1>1
<1> HIDE DEF a, b
<1>4. /\ r \in Seq(S) /\ Len(r) = Len(s) - 1 /\ DOMAIN r = 1..(Len(s) - 1)
      /\ \A m \in 1..(Len(s) - 1) : r[m] = IF m < i THEN s[m] ELSE s[m + 1]
  <2>1. r \in Seq(S) /\ Len(r) = Len(s) - 1
    BY <1>0, <1>1, <1>2, <1>3
  <2>2. DOMAIN r = 1..(Len(s) - 1)
    BY <1>1, <2>1
  <2>3. \A m \in 1..(Len(s) - 1) : r[m] = IF m <= Len(a) THEN a[m] ELSE b[m - Len(a)]
    <3>1. a \in Seq(S) /\ b \in Seq(S) /\ Len(s) - 1 = Len(a) + Len(b)
      BY <1>1, <1>2, <1>3
    <3>2. \A m \in 1..(Len(a) + Len(b)) : (a \o b)[m] = IF m <= Len(a) THEN a[m] ELSE b[m - Len(a)]
      BY <3>1
    <3> QED  BY <1>0, <3>1, <3>2
  <2>4. ASSUME NEW m \in 1..(Len(s) - 1), m < i PROVE r[m] = s[m]
    <3>1. m <= Len(a) /\ m \in 1..(i - 1)
      BY <1>1, <1>2, <2>4
    <3> QED  BY <1>2, <2>3, <3>1
  <2>5. ASSUME NEW m \in 1..(Len(s) - 1), ~(m < i) PROVE r[m] = s[m + 1]
    <3>1. ~(m <= Len(a)) /\ m - Len(a) \in 1..(Len(s) - i) /\ (m - Len(a)) + i = m + 1
      BY <1>1, <1>2, <2>5
    <3>2. r[m] = b[m - Len(a)]
      BY <2>3, <3>1
    <3> QED  BY <1>3, <3>1, <3>2
  <2> QED  BY <2>1, <2>2, <2>4, <2>5
<1>5. \A m, n \in DOMAIN r : r[m] = r[n] => m = n
  <2> DEFINE At(m) == IF m < i THEN m ELSE m + 1
  <2>1. \A m \in DOMAIN r : At(m) \in DOMAIN s /\ r[m] = s[At(m)]
    BY <1>1, <1>4
  <2>2. \A m, n \in DOMAIN r : At(m) = At(n) => m = n
    BY <1>1, <1>4
  <2> HIDE DEF At
  <2> QED  BY <2>1, <2>2
<1>6. \A m \in DOMAIN r : r[m] # s[i] /\ \E n \in DOMAIN s : s[n] = r[m]
  <2> SUFFICES ASSUME NEW m \in DOMAIN r PROVE r[m] # s[i] /\ \E n \in DOMAIN s : s[n] = r[m]
    OBVIOUS
  <2>1. CASE m < i
    <3>1. m \in DOMAIN s /\ m # i /\ r[m] = s[m]
      BY <1>1, <1>4, <2>1
    <3> QED  BY <1>1, <3>1
  <2>2. CASE ~(m < i)
    <3>1. m + 1 \in DOMAIN s /\ m + 1 # i /\ r[m] = s[m + 1]
      BY <1>1, <1>4, <2>2
    <3> QED  BY <1>1, <3>1
  <2> QED  BY <2>1, <2>2
<1>7. \A n \in DOMAIN s : n # i => \E m \in DOMAIN r : r[m] = s[n]
  <2> SUFFICES ASSUME NEW n \in DOMAIN s, n # i PROVE \E m \in DOMAIN r : r[m] = s[n]
    OBVIOUS
  <2>1. CASE n < i
    <3>1. n \in DOMAIN r /\ r[n] = s[n]
      BY <1>1, <1>4, <2>1
    <3> QED  BY <3>1
  <2>2. CASE n > i
    <3>1. n - 1 \in DOMAIN r /\ r[n - 1] = s[n]
      BY <1>1, <1>4, <2>2
    <3> QED  BY <3>1
  <2> QED  BY <1>1, <2>1, <2>2
<1>8. Lacks(r, s[i], s, S)
  BY <1>6, <1>7 DEF Lacks
<1> QED  BY <1>4, <1>5, <1>8

\* Forget takes a number out of the vector, wherever it is, and out of the set.
LEMMA PollForgets ==
  ASSUME PollTyped, NEW fd \in Numbers, Poll!Forget(fd),
         \A i, j \in DOMAIN fds : fds[i] = fds[j] => i = j
  PROVE  /\ fds' \in Seq(Numbers)
         /\ \A gd \in Numbers : (\E i \in DOMAIN fds' : fds'[i] = gd)
                                  <=> gd # fd /\ \E i \in DOMAIN fds : fds[i] = gd
         /\ \A i, j \in DOMAIN fds' : fds'[i] = fds'[j] => i = j
         /\ client_fds' = client_fds \ {fd}
<1>1. CASE Poll!Places(fd) = {}
  BY <1>1 DEF Poll!Forget, Poll!Places, PollTyped
<1>2. CASE Poll!Places(fd) # {}
  <2> DEFINE i == Min(Poll!Places(fd))
  <2>1. Poll!Places(fd) \in SUBSET Nat
    BY DEF Poll!Places, PollTyped
  <2>2. i \in DOMAIN fds /\ fds[i] = fd
    BY <1>2, <2>1, MinOfNats DEF Poll!Places
  <2>3. fds' = Poll!RemoveAt(fds, i)
    <3>1. \A S : Poll!Min(S) = Min(S)
      BY DEF Poll!Min, Min
    <3> QED  BY <1>2, <3>1 DEF Poll!Forget
  <2>4. fds \in Seq(Numbers) /\ client_fds' = client_fds \ {fd}
    BY DEF PollTyped, Poll!Forget
  <2> HIDE DEF i
  <2>5. fds' \in Seq(Numbers) /\ Lacks(fds', fd, fds, Numbers) /\ OnceEach(fds')
    <3>1. OnceEach(fds)
      BY DEF OnceEach
    <3> QED  BY <2>2, <2>3, <2>4, <3>1, ErasedVector
  <2> QED  BY <2>4, <2>5 DEF Lacks, OnceEach
<1> QED  BY <1>1, <1>2

PollKept == ServerSound' /\ PollInv' /\ (mpc # "dtor_close" => DropsNobody)

\* The books and what is in the batch stay as they are.
LEMMA PollMoves ==
  ASSUME ServerSound, PollInv, ServerSound', UNCHANGED <<fds, client_fds, batch, hot>>,
         UNCHANGED sockVars, is_running' => is_running, PollStopped',
         mpc = "exit" => mpc' = "exit", DOMAIN batch # {} \/ hot # None => Scanning'
  PROVE  PollKept
<1>1. \A fd \in Numbers : AtOnce(fd) => AtOnce(fd)'
  BY DEF AtOnce, Readable, Unread, Gone, sockVars
<1>2. PollBatch'
  BY <1>1 DEF PollInv, PollTyped, PollBatch, Gone, sockVars
<1>3. PollTyped' /\ PollBooks'
  BY DEF PollInv, PollTyped, PollBooks, Open, sockVars
<1> QED  BY <1>2, <1>3, SameTableDropsNobody DEF PollKept, PollInv, sockVars

\* What poll_tp.cpp does with SIGINT and the loop touches neither its array nor
\* the descriptors.
LEMMA PollMain ==
  ASSUME ServerSound, PollInv, UNCHANGED <<fds, client_fds, batch, hot>>,
         Loop \/ Signal \/ HandlerReturns
  PROVE  PollKept
<1>1. ServerSound' /\ UNCHANGED sockVars
  BY MainStepSound
<1>2. /\ is_running' => is_running
      /\ mpc = "exit" => mpc' = "exit"
      /\ Scanning => Scanning'
      /\ PollStopped'
  BY DEF Loop, Signal, HandlerReturns, Goto, LoopLabels, Scanning, ServerSound, MainSound,
         PollInv, PollStopped
<1> QED  BY <1>1, <1>2, PollMoves DEF PollInv, PollBatch

\* poll returns, with or without an event, a scan ends, or stop() returns at once.
LEMMA PollWaits ==
  ASSUME ServerSound, PollInv,
         \/ Poll!Poll
         \/ Poll!PollTimeout \/ Poll!EndScan \/ Poll!DtorStopAgain
  PROVE  PollKept
<1>1. UNCHANGED <<is_running, ret, fds, client_fds, hot>> /\ UNCHANGED poolVars /\ UNCHANGED sockVars
  BY PollSame DEF Poll!Poll, Poll!PollTimeout, Poll!EndScan, Poll!DtorStopAgain, Poll!loopVars
<1>2. /\ mpc \in LoopLabels \cup {"dtor_stop"} /\ mpc' \in LoopLabels \cup {"dtor_close"}
      /\ mpc' = "dtor_close" => ~is_running
  BY DEF Poll!Poll, Poll!PollTimeout, Poll!EndScan, Poll!DtorStopAgain, Poll!Goto, LoopLabels
<1>3. ServerSound'
  BY <1>1, <1>2, MoveSound, SockStutters, SameNumbers
  DEF ServerSound, PoolSound, poolVars, sockVars
<1>4. PollStopped'
  BY <1>1, <1>2 DEF PollStopped, LoopLabels
<1>5. CASE Poll!Poll
  <2>1. mpc = "wait" /\ mpc' = "scan" /\ Scanning' /\ hot = None
    BY <1>5 DEF Poll!Poll, Poll!Goto, Scanning, PollInv, PollBatch
  <2>2. /\ DOMAIN batch' \subseteq DOMAIN fds
        /\ \A i \in DOMAIN batch' :
             /\ Poll!In(fds[i])
             /\ batch'[i] = [fd |-> fds[i], hup |-> Poll!Hup(fds[i])]
        /\ batch' = [i \in DOMAIN batch' |-> batch'[i]]
    BY <1>5 DEF Poll!Poll, Poll!Entry
  <2>3. \A i \in DOMAIN batch' :
          /\ batch'[i].fd = fds[i] /\ AtOnce(fds[i])
          /\ batch'[i].hup \in BOOLEAN
          /\ batch'[i].hup /\ fds[i] # ServerFd => Gone(fdtab[fds[i]])
    <3>1. \A fd : (Poll!In(fd) <=> AtOnce(fd)) /\ Poll!Hup(fd) \in BOOLEAN
      BY PollSame DEF Poll!In, Poll!Hup, AtOnce, ServerSound, MainSound
    <3>2. \A fd : Poll!Hup(fd) /\ fd # ServerFd => Gone(fdtab[fd])
      BY DEF Poll!Hup, Gone
    <3> HIDE DEF Poll!In, Poll!Hup
    <3>3. \A i \in DOMAIN batch' : batch'[i].fd = fds[i] /\ batch'[i].hup = Poll!Hup(fds[i])
      BY <2>2
    <3> QED  BY <2>2, <3>1, <3>2, <3>3
  <2>4. fds \in Seq(Numbers) /\ \A i, j \in DOMAIN fds : fds[i] = fds[j] => i = j
    BY <2>1 DEF PollInv, PollTyped, PollBooks
  <2>5. PollTyped'
    <3>1. \A i \in DOMAIN batch' : batch'[i] \in [fd : Numbers, hup : BOOLEAN]
      <4> SUFFICES ASSUME NEW i \in DOMAIN batch' PROVE batch'[i] \in [fd : Numbers, hup : BOOLEAN]
        OBVIOUS
      <4>1. fds[i] \in Numbers /\ batch'[i] = [fd |-> fds[i], hup |-> batch'[i].hup]
        BY <2>2, <2>4
      <4> QED  BY <4>1, <2>3
    <3>2. DOMAIN batch' \subseteq Nat
      BY <2>2, <2>4
    <3> QED  BY <1>1, <2>2, <3>1, <3>2 DEF PollInv, PollTyped
  <2>6. \A i \in DOMAIN batch' : AtOnce(fds[i])' /\ fds[i] # None
    BY <1>1, <2>2, <2>3, <2>4, SocketsAssumption
    DEF AtOnce, Readable, Unread, Gone, sockVars, Numbers, Fds
  <2>7. PollBatch'
    <3>1. \A i, j \in DOMAIN batch' : batch'[i].fd = batch'[j].fd => i = j
      BY <2>2, <2>3, <2>4
    <3>2. hot' = None /\ hot' \notin Fds
      BY <1>1, <2>1, SocketsAssumption DEF Fds
    <3>3. ASSUME NEW i \in DOMAIN batch'
          PROVE  /\ AtOnce(batch[i].fd)' /\ batch'[i].fd # hot'
                 /\ batch'[i].hup /\ batch'[i].fd # ServerFd => Gone(fdtab[batch[i].fd])'
      <4>1. batch'[i].fd = fds'[i] /\ fds' = fds
        BY <1>1, <2>3
      <4>2. AtOnce(batch[i].fd)'
        BY <2>6, <4>1 DEF AtOnce, Readable, Unread, Gone
      <4>3. batch'[i].hup /\ batch'[i].fd # ServerFd => Gone(fdtab[batch[i].fd])'
        BY <1>1, <2>3, <4>1 DEF Gone, sockVars
      <4> QED  BY <2>6, <3>2, <4>1, <4>2, <4>3
    <3> QED  BY <2>1, <3>1, <3>2, <3>3 DEF PollBatch
  <2>8. PollBooks'
    BY <1>1, <2>1 DEF PollInv, PollBooks, Open, sockVars
  <2> QED  BY <1>1, <1>3, <1>4, <2>5, <2>7, <2>8, SameTableDropsNobody DEF PollKept, PollInv, sockVars
<1>6. CASE Poll!PollTimeout \/ Poll!EndScan \/ Poll!DtorStopAgain
  <2>1. UNCHANGED batch /\ DOMAIN batch = {} /\ hot = None
    BY <1>6 DEF Poll!PollTimeout, Poll!EndScan, Poll!DtorStopAgain, Poll!loopVars, PollInv,
                PollBatch, Scanning
  <2> QED  BY <1>1, <1>2, <1>3, <1>4, <2>1, PollMoves DEF LoopLabels
<1> QED  BY <1>5, <1>6

\* The loop takes an entry out of the batch; what it does about the number is left
\* to what follows.
LEMMA PollScans ==
  ASSUME ServerSound, PollInv, NEW fd \in Numbers, Poll!Scans(fd)
  PROVE  /\ mpc = "scan" /\ hot = None /\ AtOnce(fd)
         /\ UNCHANGED <<is_running, mpc, ret>>
         /\ DOMAIN batch' \subseteq DOMAIN batch
         /\ batch' \in [DOMAIN batch' -> [fd : Numbers, hup : BOOLEAN]]
         /\ \A j \in DOMAIN batch' : batch'[j] = batch[j] /\ batch[j].fd # fd
         /\ hot' \in {None, fd}
         /\ hot' = fd /\ fd # ServerFd => Gone(fdtab[fd])
<1>1. PICK i \in DOMAIN batch :
        /\ fd = batch[i].fd
        /\ batch' = [j \in DOMAIN batch \ {i} |-> batch[j]]
        /\ hot' = IF batch[i].hup THEN fd ELSE None
  BY DEF Poll!Scans
<1>2. mpc = "scan" /\ hot = None /\ UNCHANGED <<is_running, mpc, ret>>
  BY PollSame DEF Poll!Scans, mainVars
<1>3. /\ DOMAIN batch' = DOMAIN batch \ {i}
      /\ \A j \in DOMAIN batch' : batch'[j] = batch[j] /\ batch[j].fd # fd
  BY <1>1 DEF PollInv, PollBatch
<1>4. batch' \in [DOMAIN batch' -> [fd : Numbers, hup : BOOLEAN]]
  BY <1>1, <1>3 DEF PollInv, PollTyped
<1>5. fd # None
  BY SocketsAssumption DEF Numbers, Fds
<1>6. AtOnce(fd) /\ (hot' = fd /\ fd # ServerFd => Gone(fdtab[fd]))
  BY <1>1, <1>5 DEF PollInv, PollBatch
<1> QED  BY <1>1, <1>2, <1>3, <1>4, <1>6

\* The rest of the batch stays true when only the number looked at is closed,
\* received from or given out.
LEMMA PollRemains ==
  ASSUME ServerSound, PollInv, NEW fd \in Numbers, Poll!Scans(fd), UNCHANGED peer,
         \A gd \in Numbers : gd # fd /\ AtOnce(gd) => AtOnce(gd)',
         \A gd \in Fds : fdtab[gd] # None => fdtab'[gd] = fdtab[gd] \/ (gd = fd /\ fdtab'[gd] = None)
  PROVE  PollBatch' /\ PollStopped'
<1>1. /\ mpc = "scan" /\ hot = None /\ AtOnce(fd)
      /\ UNCHANGED <<is_running, mpc, ret>>
      /\ DOMAIN batch' \subseteq DOMAIN batch
      /\ \A j \in DOMAIN batch' : batch'[j] = batch[j] /\ batch[j].fd # fd
      /\ hot' \in {None, fd}
      /\ hot' = fd /\ fd # ServerFd => Gone(fdtab[fd])
  BY PollScans
<1>2. None \notin Numbers
  BY SocketsAssumption DEF Numbers, Fds
<1>3. ASSUME NEW j \in DOMAIN batch'
      PROVE  /\ AtOnce(batch[j].fd)' /\ batch'[j].fd # hot'
             /\ batch'[j].hup /\ batch'[j].fd # ServerFd => Gone(fdtab[batch[j].fd])'
  <2>1. PICK gd \in Numbers : gd = batch[j].fd /\ gd = batch'[j].fd /\ gd # fd /\ AtOnce(gd)
    BY <1>1, <1>3 DEF PollInv, PollTyped, PollBatch
  <2>2. AtOnce(batch[j].fd)'
    <3>1. AtOnce(gd)'
      BY <2>1
    <3> QED  BY <2>1, <3>1 DEF AtOnce, Readable, Unread, Gone
  <2>3. batch'[j].hup /\ batch'[j].fd # ServerFd => Gone(fdtab[batch[j].fd])'
    <3> SUFFICES ASSUME batch'[j].hup, gd # ServerFd PROVE Gone(fdtab[batch[j].fd])'
      BY <2>1
    <3>1. Gone(fdtab[gd]) /\ gd \in Fds
      BY <1>1, <2>1 DEF PollInv, PollBatch, Numbers
    <3>2. fdtab[gd] # None /\ fdtab'[gd] = fdtab[gd]
      BY <2>1, <3>1, NumbersNat DEF AtOnce, Readable
    <3> QED  BY <2>1, <3>1, <3>2 DEF Gone
  <2> QED  BY <1>1, <1>2, <2>1, <2>2, <2>3
<1>4. hot' \in Fds /\ fdtab'[hot'] # None => Gone(fdtab[hot])'
  <2> SUFFICES ASSUME hot' \in Fds, fdtab'[hot'] # None PROVE Gone(fdtab[hot])'
    OBVIOUS
  <2>1. hot' = fd /\ fd \in Fds /\ fd # ServerFd
    BY <1>1, <1>2, NumbersNat DEF Numbers
  <2>2. fdtab'[fd] = fdtab[fd]
    BY <1>1, <2>1 DEF AtOnce, Readable
  <2> QED  BY <1>1, <2>1, <2>2 DEF Gone
<1>5. \A i, j \in DOMAIN batch' : batch'[i].fd = batch'[j].fd => i = j
  BY <1>1 DEF PollInv, PollBatch
<1>6. Scanning' /\ PollStopped'
  BY <1>1 DEF Scanning, PollStopped
<1> QED  BY <1>3, <1>4, <1>5, <1>6 DEF PollBatch

\* An accepted number goes to the end of the vector and into the set.
LEMMA PollAccepts ==
  ASSUME ServerSound, PollInv, Poll!new_client
  PROVE  PollKept
<1>1. ServerFd \in Numbers /\ Poll!Scans(ServerFd)
  BY DEF Numbers, Poll!new_client
<1>2. /\ mpc = "scan" /\ hot = None /\ UNCHANGED <<is_running, mpc, ret>>
      /\ batch' \in [DOMAIN batch' -> [fd : Numbers, hup : BOOLEAN]]
      /\ DOMAIN batch' \subseteq DOMAIN batch /\ hot' \in {None, ServerFd}
  BY <1>1, PollScans
<1>3. UNCHANGED poolVars
  BY PollSame DEF Poll!new_client
<1>4. CASE UNCHANGED <<fds, client_fds>> /\ UNCHANGED sockVars
  <2>1. ServerSound'
    BY <1>2, <1>3, <1>4, StutterSound DEF mainVars
  <2>2. \A gd \in Numbers : AtOnce(gd) => AtOnce(gd)'
    BY <1>2, <1>4 DEF AtOnce, Readable, Unread, Gone, sockVars
  <2>3. PollBatch' /\ PollStopped'
    BY <1>1, <1>4, <2>2, PollRemains DEF sockVars
  <2>4. PollTyped' /\ PollBooks'
    BY <1>2, <1>4 DEF PollInv, PollTyped, PollBooks, Open, sockVars, Numbers
  <2> QED  BY <1>4, <2>1, <2>3, <2>4, SameTableDropsNobody DEF PollKept, PollInv, sockVars
<1>5. CASE \E c \in backlog, fd \in FreeFds :
             /\ Accepts(c, fd, HeldFds)
             /\ fds' = Append(fds, fd) /\ client_fds' = client_fds \cup {fd}
  <2>1. PICK c \in backlog, fd \in FreeFds :
          /\ Accepts(c, fd, HeldFds)
          /\ fds' = Append(fds, fd) /\ client_fds' = client_fds \cup {fd}
    BY <1>5
  <2>2. fd \in Fds /\ fdtab[fd] = None /\ c \in Conns /\ c # None /\ ServerSound'
    <3>1. UNCHANGED <<is_running, mpc, ret>>
      BY <1>2
    <3> QED  BY <1>3, <2>1, <3>1, AcceptsSound
  <2>4. Open' = Open \cup {fd}
    BY <2>1, <2>2 DEF Open, Accepts, ServerSound, SockTypeOK
  <2>5. fds \in Seq(Numbers) /\ \A i \in DOMAIN fds : fds[i] # fd
    BY <1>2, <2>2 DEF PollInv, PollTyped, PollBooks, Open
  <2>6. /\ fds' \in Seq(Numbers)
        /\ \A gd \in Fds : (\E i \in DOMAIN fds' : fds'[i] = gd)
                             <=> gd = fd \/ \E i \in DOMAIN fds : fds[i] = gd
        /\ \A i, j \in DOMAIN fds' : fds'[i] = fds'[j] => i = j
    <3>1. fds' \in Seq(Numbers) /\ Len(fds') = Len(fds) + 1 /\ Len(fds) \in Nat
      BY <2>1, <2>2, <2>5 DEF Numbers
    <3>2. /\ DOMAIN fds = 1..Len(fds) /\ DOMAIN fds' = 1..(Len(fds) + 1)
          /\ fds'[Len(fds) + 1] = fd /\ \A i \in 1..Len(fds) : fds'[i] = fds[i]
      BY <2>1, <2>5, <3>1
    <3>3. \A i \in DOMAIN fds' : i \in DOMAIN fds \/ i = Len(fds) + 1
      BY <3>1, <3>2
    <3>4. \A i \in DOMAIN fds : i \in DOMAIN fds'
      BY <3>1, <3>2
    <3>5. Len(fds) + 1 \in DOMAIN fds'
      BY <3>1, <3>2
    <3>6. \A i, j \in DOMAIN fds' : fds'[i] = fds'[j] => i = j
      BY <1>2, <2>5, <3>2, <3>3 DEF PollInv, PollBooks
    <3> QED  BY <3>1, <3>2, <3>3, <3>4, <3>5, <3>6
  <2>7. PollTyped'
    BY <1>2, <2>1, <2>2, <2>6 DEF PollInv, PollTyped, Numbers
  <2>8. PollBooks'
    BY <1>2, <2>1, <2>4, <2>6 DEF PollInv, PollBooks
  <2>9. PollBatch' /\ PollStopped'
    <3>1. \A gd \in Numbers : gd # ServerFd /\ AtOnce(gd) => AtOnce(gd)'
      BY <2>1, <2>2, AcceptsKeepsReadable DEF AtOnce, ServerSound, Numbers
    <3>2. \A gd \in Fds : fdtab[gd] # None => fdtab'[gd] = fdtab[gd]
      BY <2>1, <2>2 DEF Accepts, ServerSound, SockTypeOK
    <3>3. UNCHANGED peer
      BY <2>1 DEF Accepts
    <3> QED  BY <1>1, <3>1, <3>2, <3>3, PollRemains
  <2> QED  BY <2>1, <2>2, <2>7, <2>8, <2>9, AcceptsDropsNobody DEF PollKept, PollInv, ServerSound
<1>6. \/ UNCHANGED <<fds, client_fds>> /\ UNCHANGED sockVars
      \/ \E c \in backlog, fd \in FreeFds :
           /\ Accepts(c, fd, HeldFds)
           /\ fds' = Append(fds, fd) /\ client_fds' = client_fds \cup {fd}
  BY PollSame DEF Poll!new_client
<1> QED  BY <1>4, <1>5, <1>6

\* client_communicate takes what recv returns and hands it to the pool.
LEMMA PollReceives ==
  ASSUME ServerSound, PollInv, NEW fd \in Fds, Poll!Communicate(fd)
  PROVE  PollKept
<1>1. fd \in Numbers /\ fd # ServerFd /\ Poll!Scans(fd)
  BY NumbersNat DEF Numbers, Poll!Communicate
<1>2. /\ mpc = "scan" /\ AtOnce(fd) /\ UNCHANGED <<is_running, mpc, ret>>
      /\ batch' \in [DOMAIN batch' -> [fd : Numbers, hup : BOOLEAN]]
      /\ DOMAIN batch' \subseteq DOMAIN batch /\ hot' \in {None, fd}
  BY <1>1, PollScans
<1>3. Receives(fd) /\ Submit(fd, <<NextChunk(fd)>>) /\ UNCHANGED <<fds, client_fds>>
  BY PollSame DEF Poll!Communicate
<1>4. fdtab[fd] \in Conns /\ fdtab[fd] # None
  BY <1>1, <1>2, OpenIsConn DEF AtOnce, Readable, ServerSound
<1>5. ServerSound'
  BY <1>2, <1>3, <1>4, ReceivesSound
<1>6. UNCHANGED <<fdtab, backlog, peer>>
  BY <1>3 DEF Receives
<1>7. PollBatch' /\ PollStopped'
  <2>1. ASSUME NEW gd \in Numbers, gd # fd, AtOnce(gd) PROVE AtOnce(gd)'
    <3>1. CASE gd = ServerFd
      BY <1>2, <1>6, <2>1, <3>1 DEF AtOnce
    <3>2. CASE gd # ServerFd
      BY <1>3, <1>4, <2>1, <3>2, ReceivesKeepsReadable DEF AtOnce, ServerSound, Numbers
    <3> QED  BY <3>1, <3>2
  <2> QED  BY <1>1, <1>6, <2>1, PollRemains
<1>8. PollTyped' /\ PollBooks'
  BY <1>1, <1>2, <1>3, <1>6 DEF PollInv, PollTyped, PollBooks, Open
<1> QED  BY <1>5, <1>6, <1>7, <1>8, SameTableDropsNobody DEF PollKept, PollInv

\* A number is forgotten: the books agree again.
LEMMA PollForgetsBooks ==
  ASSUME ServerSound, PollInv, NEW fd \in Numbers, Poll!Forget(fd), mpc = "scan"
  PROVE  /\ fds' \in Seq(Numbers) /\ client_fds' \subseteq Fds /\ PollBooks'
         /\ UNCHANGED <<backlog, peer>>
         /\ \A gd \in Fds : fdtab[gd] # None => fdtab'[gd] = fdtab[gd] \/ (gd = fd /\ fdtab'[gd] = None)
         /\ UNCHANGED sockVars \/ (fd \in Fds /\ Closes({fd}))
<1>1. PollTyped /\ PollBooks
  BY DEF PollInv
<1>2. \A i, j \in DOMAIN fds : fds[i] = fds[j] => i = j
  BY <1>1 DEF PollBooks
<1>3. /\ fds' \in Seq(Numbers)
      /\ \A gd \in Numbers : (\E i \in DOMAIN fds' : fds'[i] = gd)
                               <=> gd # fd /\ \E i \in DOMAIN fds : fds[i] = gd
      /\ \A i, j \in DOMAIN fds' : fds'[i] = fds'[j] => i = j
      /\ client_fds' = client_fds \ {fd}
  BY <1>1, <1>2, PollForgets
<1>4. CASE fd = ServerFd
  <2>1. UNCHANGED sockVars
    BY <1>4, PollSame DEF Poll!Forget
  <2> QED  BY <1>1, <1>3, <1>4, <2>1, NumbersNat DEF PollTyped, PollBooks, Open, sockVars, Numbers
<1>5. CASE fd # ServerFd
  <2>1. fd \in Fds /\ Closes({fd})
    BY <1>5, PollSame DEF Poll!Forget, Numbers
  <2>2. Open' = Open \ {fd}
    BY <2>1 DEF Open, Closes
  <2>3. PollBooks' /\ client_fds' \subseteq Fds
    BY <1>1, <1>3, <2>2 DEF PollTyped, PollBooks, Numbers
  <2>4. /\ UNCHANGED <<backlog, peer>>
        /\ \A gd \in Fds : fdtab[gd] # None => fdtab'[gd] = fdtab[gd] \/ (gd = fd /\ fdtab'[gd] = None)
    BY <2>1 DEF Closes
  <2> QED  BY <1>3, <2>1, <2>3, <2>4
<1> QED  BY <1>4, <1>5

\* client_communicate closes a number whose client has gone.
LEMMA PollHangsUp ==
  ASSUME ServerSound, PollInv, NEW fd \in Fds, Poll!Disconnect(fd)
  PROVE  PollKept
<1>1. fd \in Numbers /\ fd # ServerFd /\ Poll!Scans(fd)
  BY NumbersNat DEF Numbers, Poll!Disconnect
<1>2. /\ mpc = "scan" /\ AtOnce(fd) /\ UNCHANGED <<is_running, mpc, ret>>
      /\ batch' \in [DOMAIN batch' -> [fd : Numbers, hup : BOOLEAN]]
      /\ DOMAIN batch' \subseteq DOMAIN batch /\ hot' \in {None, fd}
  BY <1>1, PollScans
<1>3. EndOfStream(fd) /\ Poll!Forget(fd) /\ UNCHANGED poolVars
  BY PollSame DEF Poll!Disconnect
<1>4. /\ fds' \in Seq(Numbers) /\ client_fds' \subseteq Fds /\ PollBooks'
      /\ UNCHANGED <<backlog, peer>>
      /\ \A gd \in Fds : fdtab[gd] # None => fdtab'[gd] = fdtab[gd] \/ (gd = fd /\ fdtab'[gd] = None)
  BY <1>1, <1>2, <1>3, PollForgetsBooks
<1>5. Closes({fd})
  BY <1>1, <1>3, PollSame DEF Poll!Forget
<1>6. ServerSound'
  <2>1. UNCHANGED <<is_running, ret>> /\ mpc' = mpc
    BY <1>2
  <2> QED  BY <1>3, <1>5, <2>1, ClosesSound
<1>7. PollBatch' /\ PollStopped'
  <2>1. ASSUME NEW gd \in Numbers, gd # fd, AtOnce(gd) PROVE AtOnce(gd)'
    <3>1. CASE gd = ServerFd
      BY <1>2, <1>4, <2>1, <3>1 DEF AtOnce
    <3>2. CASE gd # ServerFd
      <4>1. gd \in Fds /\ gd \notin {fd} /\ Readable(gd)
        BY <2>1, <3>2 DEF AtOnce, Numbers
      <4> QED  BY <1>5, <3>2, <4>1, ClosesKeepsReadable DEF AtOnce
    <3> QED  BY <3>1, <3>2
  <2> QED  BY <1>1, <1>4, <2>1, PollRemains
<1>8. PollTyped'
  BY <1>1, <1>2, <1>4 DEF PollInv, PollTyped
<1>9. DropsNobody
  BY <1>3, <1>5, ClosesDropsNobody DEF EndOfStream
<1> QED  BY <1>4, <1>6, <1>7, <1>8, <1>9 DEF PollKept, PollInv

\* The error branch closes the number it was reported for, open or not.
LEMMA PollErrs ==
  ASSUME ServerSound, PollInv, Poll!HandleError
  PROVE  PollKept
<1>1. /\ mpc = "scan" /\ hot \in Numbers /\ Poll!Forget(hot) /\ hot' = None
      /\ UNCHANGED <<is_running, mpc, ret, batch>> /\ UNCHANGED poolVars
  BY PollSame DEF Poll!HandleError, mainVars, PollInv, PollTyped
<1>2. /\ fds' \in Seq(Numbers) /\ client_fds' \subseteq Fds /\ PollBooks'
      /\ UNCHANGED <<backlog, peer>>
      /\ \A gd \in Fds : fdtab[gd] # None => fdtab'[gd] = fdtab[gd] \/ (gd = hot /\ fdtab'[gd] = None)
      /\ UNCHANGED sockVars \/ (hot \in Fds /\ Closes({hot}))
  BY <1>1, PollForgetsBooks
<1>3. ServerSound'
  <2>1. CASE UNCHANGED sockVars
    BY <1>1, <2>1, StutterSound DEF mainVars
  <2>2. CASE hot \in Fds /\ Closes({hot})
    <3>1. UNCHANGED <<is_running, ret>> /\ mpc' = mpc
      BY <1>1
    <3> QED  BY <1>1, <2>2, <3>1, ClosesSound
  <2> QED  BY <1>2, <2>1, <2>2
<1>4. \A gd \in Numbers : gd # hot /\ AtOnce(gd) => AtOnce(gd)'
  <2>1. CASE UNCHANGED sockVars
    BY <1>1, <2>1 DEF AtOnce, Readable, Unread, Gone, sockVars
  <2>2. CASE Closes({hot})
    <3> SUFFICES ASSUME NEW gd \in Numbers, gd # hot, AtOnce(gd) PROVE AtOnce(gd)'
      OBVIOUS
    <3>1. CASE gd = ServerFd
      BY <1>1, <1>2, <3>1 DEF AtOnce
    <3>2. CASE gd # ServerFd
      <4>1. gd \in Fds /\ gd \notin {hot} /\ Readable(gd)
        BY <3>2 DEF AtOnce, Numbers
      <4> QED  BY <2>2, <3>2, <4>1, ClosesKeepsReadable DEF AtOnce
    <3> QED  BY <3>1, <3>2
  <2> QED  BY <1>2, <2>1, <2>2
<1>5. PollBatch'
  <2>1. None \notin Numbers
    BY SocketsAssumption DEF Numbers, Fds
  <2>2. ASSUME NEW i \in DOMAIN batch
        PROVE  /\ AtOnce(batch[i].fd)' /\ batch[i].fd # None
               /\ batch[i].hup /\ batch[i].fd # ServerFd => Gone(fdtab[batch[i].fd])'
    <3>1. PICK gd \in Numbers : gd = batch[i].fd /\ gd # hot /\ AtOnce(gd)
      BY <2>2 DEF PollInv, PollTyped, PollBatch
    <3>2. AtOnce(batch[i].fd)'
      <4>1. AtOnce(gd)' /\ batch'[i].fd = gd
        BY <1>1, <1>4, <3>1
      <4> QED  BY <4>1 DEF AtOnce, Readable, Unread, Gone
    <3>3. batch[i].hup /\ batch[i].fd # ServerFd => Gone(fdtab[batch[i].fd])'
      <4> SUFFICES ASSUME batch[i].hup, gd # ServerFd PROVE Gone(fdtab[batch[i].fd])'
        BY <3>1
      <4>1. Gone(fdtab[gd]) /\ gd \in Fds
        BY <3>1 DEF PollInv, PollBatch, Numbers
      <4>2. fdtab[gd] # None /\ fdtab'[gd] = fdtab[gd]
        BY <1>2, <3>1, <4>1, NumbersNat DEF AtOnce, Readable
      <4> QED  BY <1>1, <1>2, <3>1, <4>1, <4>2 DEF Gone
    <3> QED  BY <2>1, <3>1, <3>2, <3>3
  <2>3. batch' = batch /\ hot' = None /\ hot' \notin Fds /\ Scanning'
    BY <1>1, SocketsAssumption DEF Fds, Scanning
  <2>4. \A i \in DOMAIN batch' : 
          /\ AtOnce(batch[i].fd)' /\ batch'[i].fd # hot'
          /\ batch'[i].hup /\ batch'[i].fd # ServerFd => Gone(fdtab[batch[i].fd])'
    BY <2>2, <2>3
  <2> QED  BY <2>3, <2>4 DEF PollInv, PollBatch
<1>6. PollTyped' /\ PollStopped'
  BY <1>1, <1>2 DEF PollInv, PollTyped, PollStopped
<1>7. DropsNobody
  <2>1. hot \in Fds /\ fdtab[hot] # None => Gone(fdtab[hot])
    BY DEF PollInv, PollBatch
  <2> QED  BY <1>2, <2>1 DEF DropsNobody
<1> QED  BY <1>2, <1>3, <1>5, <1>6, <1>7 DEF PollKept, PollInv

\* The destructor closes every client.
LEMMA PollCloses ==
  ASSUME ServerSound, PollInv, Poll!DtorClose
  PROVE  PollKept
<1>1. /\ mpc = "dtor_close" /\ mpc' = "exit" /\ Closes(client_fds) /\ client_fds' = {}
      /\ fds' = <<>>
      /\ UNCHANGED <<is_running, ret, batch, hot>> /\ UNCHANGED poolVars
  BY PollSame DEF Poll!DtorClose, Poll!Goto
<1>2. ServerSound'
  BY <1>1, ClosesSound DEF PollInv, PollTyped
<1>3. DOMAIN batch = {} /\ hot = None /\ hot \notin Fds
  <2>1. DOMAIN batch = {} /\ hot = None
    BY <1>1 DEF PollInv, PollBatch, Scanning
  <2> QED  BY <2>1, SocketsAssumption DEF Fds
<1>4. PollBatch' /\ PollBooks' /\ PollStopped'
  BY <1>1, <1>3 DEF PollInv, PollBatch, PollBooks, PollStopped
<1>5. PollTyped'
  <2>1. fds' \in Seq(Numbers)
    BY <1>1
  <2> QED  BY <1>1, <2>1 DEF PollInv, PollTyped
<1> QED  BY <1>1, <1>2, <1>4, <1>5 DEF PollKept, PollInv

\* A worker or a client does something; the main thread and its records stay.
LEMMA PollElsewhere ==
  ASSUME ServerSound, PollInv, UNCHANGED <<fds, client_fds, batch, hot>>,
         \/ \E w \in Workers : Worker(w)
         \/ /\ \E c \in Conns : Client(c)
            /\ UNCHANGED <<is_running, poolVars, mainVars>>
  PROVE  PollKept
<1>1. /\ ServerSound' /\ UNCHANGED <<fdtab, reused, is_running, mpc, ret>>
      /\ backlog \subseteq backlog'
      /\ \A fd \in Fds : Readable(fd) => Readable(fd)'
      /\ \A c \in Conns : Gone(c) => Gone(c)'
  BY ElsewhereKeeps
<1>2. \A fd \in Numbers : AtOnce(fd) => AtOnce(fd)'
  BY <1>1 DEF AtOnce, Numbers
<1>3. \A fd \in Fds : fdtab[fd] # None /\ Gone(fdtab[fd]) => Gone(fdtab[fd])'
  <2> SUFFICES ASSUME NEW fd \in Fds, fdtab[fd] # None, Gone(fdtab[fd]) PROVE Gone(fdtab[fd])'
    OBVIOUS
  <2>1. PICK c \in Conns : c = fdtab[fd] /\ Gone(c)'
    BY <1>1, OpenIsConn DEF ServerSound
  <2> QED  BY <1>1, <2>1 DEF Gone
<1>4. PollBatch'
  <2>1. ASSUME NEW i \in DOMAIN batch
        PROVE  /\ AtOnce(batch[i].fd)'
               /\ batch[i].hup /\ batch[i].fd # ServerFd => Gone(fdtab[batch[i].fd])'
    <3>1. PICK gd \in Numbers : gd = batch[i].fd /\ gd # hot /\ AtOnce(gd)
      BY <2>1 DEF PollInv, PollTyped, PollBatch
    <3>2. AtOnce(batch[i].fd)'
      <4>1. AtOnce(gd)' /\ batch'[i].fd = gd
        BY <1>2, <3>1
      <4> QED  BY <4>1 DEF AtOnce, Readable, Unread, Gone
    <3>3. batch[i].hup /\ batch[i].fd # ServerFd => Gone(fdtab[batch[i].fd])'
      <4> SUFFICES ASSUME batch[i].hup, gd # ServerFd PROVE Gone(fdtab[batch[i].fd])'
        BY <3>1
      <4>1. Gone(fdtab[gd]) /\ gd \in Fds /\ fdtab[gd] # None
        BY <3>1 DEF PollInv, PollBatch, Numbers, AtOnce, Readable
      <4>2. Gone(fdtab[gd])' /\ batch'[i].fd = gd
        BY <1>3, <3>1, <4>1
      <4> QED  BY <4>2 DEF Gone
    <3> QED  BY <3>2, <3>3
  <2>2. hot \in Fds /\ fdtab'[hot] # None => Gone(fdtab[hot])'
    BY <1>1, <1>3 DEF PollInv, PollBatch
  <2>3. \A i \in DOMAIN batch' : 
          /\ AtOnce(batch[i].fd)' /\ batch'[i].fd # hot'
          /\ batch'[i].hup /\ batch'[i].fd # ServerFd => Gone(fdtab[batch[i].fd])'
    BY <2>1 DEF PollInv, PollBatch
  <2>4. DOMAIN batch' # {} \/ hot' # None => Scanning'
    BY <1>1 DEF PollInv, PollBatch, Scanning
  <2> QED  BY <2>2, <2>3, <2>4 DEF PollInv, PollBatch
<1>5. PollTyped' /\ PollBooks' /\ PollStopped'
  BY <1>1 DEF PollInv, PollTyped, PollBooks, PollStopped, Open
<1> QED  BY <1>1, <1>4, <1>5, SameTableDropsNobody DEF PollKept, PollInv

\* Its workers leave the array alone.
LEMMA PollWorkerSame ==
  ASSUME NEW w \in Workers, Poll!Pool(w)
  PROVE  Worker(w) /\ UNCHANGED <<fds, client_fds, batch, hot>>
<1>1. Poll!Respond(w) => Respond(w)
  BY PollSame DEF Poll!Respond, Respond
<1> QED  BY <1>1, PollSame DEF Poll!Pool, Poll!Worker, Worker, Poll!loopVars

\* Every step of the poll server.
LEMMA PollStep ==
  ASSUME ServerSound, PollInv, Poll!Next PROVE PollKept
<1>1. CASE \/ Poll!Poll
           \/ Poll!PollTimeout \/ Poll!EndScan \/ Poll!DtorStopAgain
  BY <1>1, PollWaits
<1>2. CASE Poll!new_client
  BY <1>2, PollAccepts
<1>3. CASE Poll!client_communicate
  BY <1>3, PollReceives, PollHangsUp, PollSame DEF Poll!client_communicate
<1>4. CASE Poll!HandleError
  BY <1>4, PollErrs
<1>5. CASE Poll!DtorClose
  BY <1>5, PollCloses
<1>6. CASE (Poll!Loop \/ Poll!HandlerReturns \/ Poll!Signal) /\ UNCHANGED Poll!loopVars
  BY <1>6, PollMain, PollSame DEF Poll!loopVars
<1>7. CASE \E w \in Workers : Poll!Pool(w)
  BY <1>7, PollWorkerSame, PollElsewhere
<1>8. CASE Poll!Clients
  <2>1. /\ \E c \in Conns : Client(c)
        /\ UNCHANGED <<is_running, poolVars, mainVars>>
        /\ UNCHANGED <<fds, client_fds, batch, hot>>
    BY <1>8, PollSame DEF Poll!Clients, Poll!loopVars
  <2> QED  BY <2>1, PollElsewhere
<1>9. CASE Poll!Rest
  <2>1. /\ UNCHANGED <<is_running, mpc, ret, fds, client_fds, batch, hot>>
        /\ UNCHANGED sockVars /\ UNCHANGED <<poolVars, mainVars>>
    BY <1>9, PollSame DEF Poll!Rest, Poll!vars, Poll!loopVars, mainVars
  <2>2. PollStopped' /\ (Scanning => Scanning')
    BY <2>1 DEF PollInv, PollStopped, Scanning
  <2> QED  BY <2>1, <2>2, PollMoves, StutterSound DEF PollInv, PollBatch
<1> QED  BY <1>1, <1>2, <1>3, <1>4, <1>5, <1>6, <1>7, <1>8, <1>9
         DEF Poll!Next, Poll!Main, Poll!Interrupt

-----------------------------------------------------------------------------
(* epollthread_tp.cpp                                                      *)

EpollKept == ServerSound' /\ EpollInv' /\ (~reused => DropsNobody)

\* Only where the main thread is changes.
LEMMA EpollMoves ==
  ASSUME ServerSound, EpollInv, ServerSound', UNCHANGED <<watched, batch>>,
         UNCHANGED sockVars, UNCHANGED poolVars
  PROVE  EpollKept
<1>1. BatchIsReadable(batch)' /\ FailedAreGone'
  BY DEF EpollInv, BatchIsReadable, FailedAreGone, Readable, Unread, Gone, sockVars, poolVars
<1>2. EpollTyped' /\ EpollBooks'
  BY DEF EpollInv, EpollTyped, EpollBooks, Open, sockVars
<1> QED  BY <1>1, <1>2, SameTableDropsNobody DEF EpollKept, EpollInv, sockVars

\* epoll_wait returns: the batch is what is readable now.
LEMMA EpollWaits ==
  ASSUME ServerSound, EpollInv, Epoll!EpollWait
  PROVE  EpollKept
<1>1. /\ UNCHANGED <<is_running, ret, watched>> /\ UNCHANGED poolVars /\ UNCHANGED sockVars
      /\ mpc = "wait" /\ mpc' = "scan"
  BY EpollSame DEF Epoll!EpollWait, Epoll!Goto
<1>2. ServerSound'
  BY <1>1, MoveSound, SockStutters, SameNumbers
  DEF ServerSound, PoolSound, poolVars, sockVars, LoopLabels
<1>3. batch' \subseteq watched \cup {ServerFd} /\ \A fd \in batch' \ {ServerFd} : Readable(fd)
  BY EpollSame DEF Epoll!EpollWait, Epoll!Ready
<1>4. BatchIsReadable(batch)' /\ FailedAreGone'
  BY <1>1, <1>3 DEF EpollInv, BatchIsReadable, FailedAreGone, Readable, Unread, Gone, sockVars, poolVars
<1>5. EpollTyped' /\ EpollBooks'
  BY <1>1, <1>3 DEF EpollInv, EpollTyped, EpollBooks, Open, sockVars, Numbers
<1> QED  BY <1>1, <1>2, <1>4, <1>5, SameTableDropsNobody DEF EpollKept, EpollInv, sockVars

\* What epoll_tp.cpp does with SIGINT, the loop and the destructor leaves the epoll
\* set to the descriptors it watches.
LEMMA EpollMain ==
  ASSUME ServerSound, EpollInv,
         \/ Epoll!EpollFails \/ Epoll!EndScan \/ Epoll!DtorClose
         \/ /\ Loop \/ Unlock \/ Signal \/ HandlerReturns \/ DtorStop \/ DtorWait
            /\ UNCHANGED <<watched, batch>>
  PROVE  EpollKept
<1>1. CASE /\ Loop \/ Unlock \/ Signal \/ HandlerReturns \/ DtorStop \/ DtorWait
           /\ UNCHANGED <<watched, batch>>
  <2>1. ServerSound' /\ UNCHANGED sockVars /\ UNCHANGED poolVars
    BY <1>1, MainStepSound
  <2> QED  BY <1>1, <2>1, EpollMoves
<1>2. CASE Epoll!EpollFails \/ Epoll!EndScan \/ Epoll!DtorClose
  <2>1. /\ UNCHANGED <<is_running, ret, watched, batch>> /\ UNCHANGED poolVars /\ UNCHANGED sockVars
        /\ \/ mpc \in LoopLabels /\ mpc' \in LoopLabels \cup {"dtor_stop"}
           \/ mpc = "dtor_close" /\ mpc' = "exit"
    BY <1>2, EpollSame DEF Epoll!EpollFails, Epoll!EndScan, Epoll!DtorClose, Epoll!Goto, LoopLabels
  <2>2. ServerSound'
    BY <2>1, MoveSound, SockStutters, SameNumbers DEF ServerSound, PoolSound, poolVars, sockVars
  <2> QED  BY <2>1, <2>2, EpollMoves
<1> QED  BY <1>1, <1>2

\* What the loop takes out of the batch.
LEMMA EpollScans ==
  ASSUME NEW fd, NEW label, Epoll!Scans(fd, label)
  PROVE  /\ mpc = "scan" /\ mpc' = label /\ fd \in batch /\ batch' = batch \ {fd}
         /\ UNCHANGED <<is_running, ret>>
  BY DEF Epoll!Scans, Epoll!Goto

\* A new client's number was free, so it was not watched yet.
LEMMA EpollAccepts ==
  ASSUME ServerSound, EpollInv, Epoll!new_client
  PROVE  EpollKept
<1>1. /\ batch' = batch \ {ServerFd} /\ UNCHANGED <<is_running, ret>>
      /\ mpc = "scan" /\ mpc' \in {"scan", "unlock"}
      /\ UNCHANGED poolVars
  BY EpollScans, EpollSame DEF Epoll!new_client
<1>2. CASE mpc' = "scan" /\ UNCHANGED watched /\ UNCHANGED sockVars
  <2>1. ServerSound'
    BY <1>1, <1>2, StutterSound DEF mainVars
  <2>2. BatchIsReadable(batch)' /\ FailedAreGone'
    BY <1>1, <1>2
    DEF EpollInv, BatchIsReadable, FailedAreGone, Readable, Unread, Gone, sockVars, poolVars
  <2>3. EpollTyped' /\ EpollBooks'
    BY <1>1, <1>2 DEF EpollInv, EpollTyped, EpollBooks, Open, sockVars
  <2> QED  BY <1>2, <2>1, <2>2, <2>3, SameTableDropsNobody DEF EpollKept, EpollInv, sockVars
<1>3. CASE \E c \in backlog, fd \in FreeFds :
             Accepts(c, fd, HeldFds \cup batch) /\ watched' = watched \cup {fd}
  <2>1. PICK c \in backlog, fd \in FreeFds :
          Accepts(c, fd, HeldFds \cup batch) /\ watched' = watched \cup {fd}
    BY <1>3
  <2>2. /\ ServerSound'
        /\ fd \in Fds /\ fdtab[fd] = None /\ c \in Conns /\ c # None
        /\ \A gd \in Fds : fdtab'[gd] = IF gd = fd THEN c ELSE fdtab[gd]
    BY <1>1, <2>1, AcceptsSound DEF LoopLabels
  <2>3. /\ reused' = (reused \/ fd \in HeldFds \cup batch)
        /\ UNCHANGED <<peer, sent, got>>
    BY <2>1 DEF Accepts
  <2>4. BatchIsReadable(batch)'
    <3> SUFFICES ASSUME ~reused', NEW gd \in batch' \ {ServerFd}, fdtab'[gd] # None
                 PROVE  Readable(gd)'
      BY DEF BatchIsReadable
    <3>1. gd \in Fds /\ gd \in batch /\ gd # fd
      BY <1>1, <2>3 DEF EpollInv, EpollTyped, Numbers
    <3> QED  BY <2>2, <2>3, <3>1 DEF EpollInv, BatchIsReadable, Readable, Unread, Gone
  <2>5. FailedAreGone'
    <3>1. UNCHANGED <<wpc, doing>>
      BY <1>1 DEF poolVars
    <3>2. \A w \in Workers : wpc'[w] = "close" =>
            \/ reused'
            \/ fdtab'[doing[w].fd] \in {None, fdtab[doing[w].fd]}
      <4> SUFFICES ASSUME ~reused', NEW w \in Workers, wpc'[w] = "close"
                   PROVE  fdtab'[doing[w].fd] = fdtab[doing[w].fd]
        OBVIOUS
      <4>1. doing[w].fd \in HeldFds /\ doing[w].fd \in Fds
        BY <3>1 DEF HeldFds, ServerSound, PoolSound, Callables
      <4> QED  BY <2>2, <2>3, <4>1
    <3>3. (reused => reused') /\ \A d \in Conns : Gone(d) => Gone(d)'
      BY <2>3 DEF Gone
    <3> QED  BY <3>1, <3>2, <3>3, FailedStayGone DEF EpollInv
  <2>6. EpollTyped' /\ EpollBooks'
    BY <1>1, <2>1, <2>2 DEF EpollInv, EpollTyped, EpollBooks, Open
  <2> QED  BY <2>1, <2>2, <2>4, <2>5, <2>6, AcceptsDropsNobody DEF EpollKept, EpollInv, ServerSound
<1>4. \/ mpc' = "scan" /\ UNCHANGED watched /\ UNCHANGED sockVars
      \/ \E c \in backlog, fd \in FreeFds :
           Accepts(c, fd, HeldFds \cup batch) /\ watched' = watched \cup {fd}
  BY EpollScans, EpollSame DEF Epoll!new_client
<1> QED  BY <1>2, <1>3, <1>4

\* What is submitted holds the number that is still the client's.
LEMMA EpollReceives ==
  ASSUME ServerSound, EpollInv, NEW fd \in Fds, Epoll!Communicate(fd)
  PROVE  EpollKept
<1>1. /\ batch' = batch \ {fd} /\ UNCHANGED <<is_running, mpc, ret>>
      /\ fdtab[fd] # None /\ Receives(fd) /\ Submit(fd, <<NextChunk(fd)>>) /\ UNCHANGED watched
  BY EpollScans, EpollSame DEF Epoll!Communicate
<1>2. fdtab[fd] \in Conns
  BY <1>1, OpenIsConn DEF ServerSound
<1>3. ServerSound'
  BY <1>1, <1>2, ReceivesSound
<1>4. UNCHANGED <<fdtab, peer, reused, wpc, doing>>
  BY <1>1 DEF Receives, Submit
<1>5. BatchIsReadable(batch)'
  <2> SUFFICES ASSUME ~reused', NEW gd \in batch' \ {ServerFd}, fdtab'[gd] # None
               PROVE  Readable(gd)'
    BY DEF BatchIsReadable
  <2>1. gd \in Fds /\ gd # fd /\ Readable(gd)
    BY <1>1, <1>4 DEF EpollInv, EpollTyped, BatchIsReadable, Numbers
  <2> QED  BY <1>1, <1>2, <2>1, ReceivesKeepsReadable DEF ServerSound
<1>6. FailedAreGone'
  BY <1>4 DEF EpollInv, FailedAreGone, Gone
<1>7. EpollTyped' /\ EpollBooks'
  BY <1>1, <1>4 DEF EpollInv, EpollTyped, EpollBooks, Open
<1> QED  BY <1>3, <1>4, <1>5, <1>6, <1>7, SameTableDropsNobody DEF EpollKept, EpollInv

\* A number is closed and its registration removed: every record still agrees.
LEMMA EpollCloses ==
  ASSUME ServerSound, EpollInv, NEW fd \in Fds, Epoll!close_fd(fd), batch' \subseteq batch,
         \A w \in Workers : wpc'[w] = "close" => wpc[w] = "close" /\ doing'[w] = doing[w]
  PROVE  EpollInv'
<1>1. Closes({fd}) /\ watched' = watched \ {fd}
  BY EpollSame DEF Epoll!close_fd
<1>2. /\ UNCHANGED <<reused, peer, sent, got>>
      /\ \A gd \in Fds : fdtab'[gd] = IF gd = fd THEN None ELSE fdtab[gd]
  BY <1>1 DEF Closes
<1>3. BatchIsReadable(batch)'
  <2> SUFFICES ASSUME ~reused', NEW gd \in batch' \ {ServerFd}, fdtab'[gd] # None
               PROVE  Readable(gd)'
    BY DEF BatchIsReadable
  <2>1. gd \in Fds /\ gd # fd /\ fdtab'[gd] = fdtab[gd]
    BY <1>2 DEF EpollInv, EpollTyped, Numbers
  <2> QED  BY <1>2, <2>1 DEF EpollInv, BatchIsReadable, Readable, Unread, Gone
<1>4. FailedAreGone'
  <2>1. \A w \in Workers : wpc'[w] = "close" =>
          \/ reused'
          \/ fdtab'[doing[w].fd] \in {None, fdtab[doing[w].fd]}
    BY <1>2 DEF ServerSound, PoolSound, Callables
  <2>2. (reused => reused') /\ \A d \in Conns : Gone(d) => Gone(d)'
    BY <1>2 DEF Gone
  <2> QED  BY <2>1, <2>2, FailedStayGone DEF EpollInv
<1>5. Open' = Open \ {fd}
  BY <1>2 DEF Open
<1> QED  BY <1>1, <1>3, <1>4, <1>5 DEF EpollInv, EpollTyped, EpollBooks

\* The main loop closes only the number whose event it dispatches.
LEMMA EpollHangsUp ==
  ASSUME ServerSound, EpollInv, NEW fd \in Fds, Epoll!Disconnect(fd)
  PROVE  EpollKept
<1>1. /\ batch' = batch \ {fd} /\ UNCHANGED <<is_running, ret>>
      /\ mpc = "scan" /\ mpc' = "unlock"
      /\ fdtab[fd] # None => EndOfStream(fd)
      /\ Epoll!close_fd(fd) /\ UNCHANGED poolVars
  BY EpollScans, EpollSame DEF Epoll!Disconnect
<1>2. Closes({fd})
  BY <1>1, EpollSame DEF Epoll!close_fd
<1>3. ServerSound'
  BY <1>1, <1>2, ClosesSound DEF LoopLabels
<1>4. EpollInv'
  BY <1>1, EpollCloses DEF poolVars
<1>5. DropsNobody
  BY <1>1, <1>2, ClosesDropsNobody DEF EndOfStream
<1> QED  BY <1>3, <1>4, <1>5 DEF EpollKept

\* Nothing but clients' messages and the pool changes.
LEMMA EpollElsewhere ==
  ASSUME ServerSound, EpollInv, ServerSound', UNCHANGED <<watched, batch>>, UNCHANGED <<fdtab, reused>>,
         \A fd \in Fds : Readable(fd) => Readable(fd)',
         \A c \in Conns : Gone(c) => Gone(c)',
         \A w \in Workers : wpc'[w] = "close" =>
            /\ doing'[w] = doing[w]
            /\ wpc[w] = "close" \/ (wpc[w] = "send" /\ SendFails(doing[w].fd))
  PROVE  EpollKept
<1>1. BatchIsReadable(batch)'
  BY DEF EpollInv, EpollTyped, BatchIsReadable, Numbers
<1>2. FailedAreGone'
  BY FailedStayGone DEF EpollInv
<1>3. EpollTyped' /\ EpollBooks'
  BY DEF EpollInv, EpollTyped, EpollBooks, Open
<1> QED  BY <1>1, <1>2, <1>3, SameTableDropsNobody DEF EpollKept, EpollInv

\* A worker that sends changes no descriptor.
LEMMA EpollSends ==
  ASSUME ServerSound, EpollInv, NEW w \in Workers, Epoll!Send(w),
         UNCHANGED <<is_running, mpc, ret>>, UNCHANGED batch
  PROVE  EpollKept
<1>1. PICK to \in {"finish", "close"} :
        /\ wpc' = [wpc EXCEPT ![w] = to]
        /\ to = "close" => SendFails(doing[w].fd)
  BY EpollSame DEF Epoll!Send
<1>2. /\ wpc[w] = "send" /\ UNCHANGED <<queue, doing, watched>>
      /\ \/ Sends(doing[w].fd, doing[w].chunks)
         \/ UNCHANGED sockVars
  BY EpollSame DEF Epoll!Send
<1>3. ServerSound' /\ UNCHANGED <<fdtab, backlog, peer, sent, got, reused>>
  BY <1>1, <1>2, SendOrFailSound
<1>4. /\ \A fd \in Fds : Readable(fd) => Readable(fd)'
      /\ \A c \in Conns : Gone(c) => Gone(c)'
  BY <1>3 DEF Readable, Unread, Gone
<1>5. \A v \in Workers : wpc'[v] = "close" =>
        /\ doing'[v] = doing[v]
        /\ wpc[v] = "close" \/ (wpc[v] = "send" /\ SendFails(doing[v].fd))
  BY <1>1, <1>2 DEF ServerSound, PoolSound
<1> QED  BY <1>2, <1>3, <1>4, <1>5, EpollElsewhere

\* Every step of a worker; the one that closes a number takes it out of the table
\* and out of the epoll set at once.
LEMMA EpollWorks ==
  ASSUME ServerSound, EpollInv, NEW w \in Workers, Epoll!Pool(w)
  PROVE  EpollKept
<1>1. UNCHANGED <<is_running, mpc, ret>> /\ UNCHANGED batch /\ UNCHANGED <<is_running, mainVars>>
  BY EpollSame DEF Epoll!Pool, mainVars
<1>2. CASE (Epoll!Take(w) \/ Epoll!Test(w) \/ Epoll!Finish(w)) /\ UNCHANGED watched
  <2>1. (Take(w) \/ Test(w) \/ Finish(w)) /\ UNCHANGED watched
    BY <1>2, EpollSame
  <2>2. ServerSound' /\ UNCHANGED <<fdtab, backlog, peer, sent, got, reused>>
    BY <1>1, <2>1, WorkerSound DEF Worker
  <2>3. \A v \in Workers : wpc'[v] = "close" => doing'[v] = doing[v] /\ wpc[v] = "close"
    BY <2>1 DEF Take, Test, Finish, ServerSound, PoolSound
  <2>4. /\ \A fd \in Fds : Readable(fd) => Readable(fd)'
        /\ \A c \in Conns : Gone(c) => Gone(c)'
    BY <2>2 DEF Readable, Unread, Gone
  <2> QED  BY <1>1, <2>1, <2>2, <2>3, <2>4, EpollElsewhere
<1>3. CASE Epoll!Send(w)
  BY <1>1, <1>3, EpollSends
<1>4. CASE Epoll!CloseFailed(w)
  <2>1. /\ wpc[w] = "close" /\ Epoll!close_fd(doing[w].fd)
        /\ wpc' = [wpc EXCEPT ![w] = "finish"] /\ UNCHANGED <<queue, doing>>
    BY <1>4 DEF Epoll!CloseFailed
  <2>2. Closes({doing[w].fd})
    BY <2>1, EpollSame DEF Epoll!close_fd
  <2>3. ServerSound' /\ doing[w].fd \in Fds
    BY <1>1, <2>1, <2>2, WorkerClosesSound
  <2>4. \A v \in Workers : wpc'[v] = "close" => wpc[v] = "close" /\ doing'[v] = doing[v]
    BY <2>1 DEF ServerSound, PoolSound
  <2>5. EpollInv'
    BY <1>1, <2>1, <2>3, <2>4, EpollCloses
  <2>6. ~reused => DropsNobody
    <3>1. ~reused /\ fdtab[doing[w].fd] # None => Gone(fdtab[doing[w].fd])
      BY <2>1 DEF EpollInv, FailedAreGone
    <3> QED  BY <2>2, <3>1, ClosesDropsNobody
  <2> QED  BY <2>3, <2>5, <2>6 DEF EpollKept
<1> QED  BY <1>2, <1>3, <1>4 DEF Epoll!Pool

\* Every step of the epoll server.
LEMMA EpollStep ==
  ASSUME ServerSound, EpollInv, Epoll!Next PROVE EpollKept
<1>1. CASE Epoll!EpollWait
  BY <1>1, EpollWaits
<1>2. CASE \/ Epoll!EpollFails \/ Epoll!EndScan \/ Epoll!DtorClose
           \/ /\ \/ Epoll!Loop \/ Epoll!Unlock \/ Epoll!Signal
                 \/ Epoll!HandlerReturns \/ Epoll!DtorStop \/ Epoll!DtorWait
              /\ UNCHANGED <<watched, batch>>
  BY <1>2, EpollMain, EpollSame
<1>3. CASE Epoll!new_client
  BY <1>3, EpollAccepts
<1>4. CASE Epoll!client_communicate
  BY <1>4, EpollReceives, EpollHangsUp, EpollSame DEF Epoll!client_communicate
<1>5. CASE \E w \in Workers : Epoll!Pool(w)
  BY <1>5, EpollWorks
<1>6. CASE Epoll!Clients
  <2>1. /\ \E c \in Conns : Client(c)
        /\ UNCHANGED <<is_running, poolVars, mainVars>>
        /\ UNCHANGED <<watched, batch>>
    BY <1>6, EpollSame DEF Epoll!Clients
  <2>2. /\ ServerSound' /\ UNCHANGED <<fdtab, reused>>
        /\ \A fd \in Fds : Readable(fd) => Readable(fd)'
        /\ \A c \in Conns : Gone(c) => Gone(c)'
    BY <2>1, ElsewhereKeeps
  <2>3. UNCHANGED <<wpc, doing>>
    BY <2>1 DEF poolVars
  <2> QED  BY <2>1, <2>2, <2>3, EpollElsewhere
<1>7. CASE Epoll!Rest
  <2>1. /\ UNCHANGED <<is_running, watched, batch>>
        /\ UNCHANGED sockVars /\ UNCHANGED poolVars /\ UNCHANGED mainVars
    BY <1>7, EpollSame DEF Epoll!Rest, Epoll!vars
  <2>2. ServerSound'
    BY <2>1, StutterSound
  <2> QED  BY <2>1, <2>2, EpollMoves
<1> QED  BY <1>1, <1>2, <1>3, <1>4, <1>5, <1>6, <1>7
         DEF Epoll!Next, Epoll!Main, Epoll!Interrupt

-----------------------------------------------------------------------------
(* The three of them                                                       *)

\* All three programs start in the invariant.
LEMMA InitIInv == Init => IInv
<1> SUFFICES ASSUME Init PROVE IInv
  OBVIOUS
<1>1. ServerInit
  BY SelectSame, PollSame, EpollSame DEF Init, Select!Init, Poll!Init, Epoll!Init
<1>2. ServerSound
  BY <1>1, InitSound
<1>3. mpc = "loop" /\ Open = {} /\ \A w \in Workers : wpc[w] = "idle"
  BY <1>1 DEF ServerInit, SockInit, Open
<1>4. CASE program = "select"
  <2>1. watched = {ServerFd} /\ max_fd = ServerFd /\ client_fds = {} /\ batch = {}
    BY <1>4 DEF Init, Select!Init
  <2>2. SelectInv
    BY <1>3, <2>1, NumbersNat DEF SelectInv, SelectTyped, SelectBooks, SelectBatch, Numbers
  <2> QED  BY <1>2, <1>4, <2>2 DEF IInv
<1>5. CASE program = "poll"
  <2>1. fds = <<ServerFd>> /\ client_fds = {} /\ batch = <<>> /\ hot = None
    BY <1>5 DEF Init, Poll!Init
  <2>2. fds \in Seq(Numbers) /\ DOMAIN fds = {1} /\ fds[1] = ServerFd
    BY <2>1 DEF Numbers
  <2>3. DOMAIN batch = {} /\ batch \in [DOMAIN batch -> [fd : Numbers, hup : BOOLEAN]]
    BY <2>1
  <2>4. hot \notin Fds
    BY <2>1, SocketsAssumption DEF Fds
  <2>5. PollTyped /\ PollBooks /\ PollBatch /\ PollStopped
    BY <1>3, <2>1, <2>2, <2>3, <2>4, NumbersNat DEF PollTyped, PollBooks, PollBatch, PollStopped
  <2> QED  BY <1>2, <1>5, <2>5 DEF IInv, PollInv
<1>6. CASE program = "epoll"
  <2>1. watched = {} /\ batch = {}
    BY <1>6 DEF Init, Epoll!Init
  <2>2. EpollInv
    BY <1>3, <2>1 DEF EpollInv, EpollTyped, EpollBooks, BatchIsReadable, FailedAreGone
  <2> QED  BY <1>2, <1>6, <2>2 DEF IInv
<1> QED  BY <1>4, <1>5, <1>6 DEF Init

\* A step keeps the invariant and hangs up on nobody who is still there.
LEMMA NextIInv ==
  ASSUME IInv, Next
  PROVE  IInv' /\ (~reused /\ mpc # "dtor_close" => DropsNobody)
<1>1. program \in {"select", "poll", "epoll"} /\ UNCHANGED program
  BY DEF IInv, Next, SelectRuns, PollRuns, EpollRuns, Runs
<1>2. CASE program = "select"
  <2>1. SelectKept
    BY <1>2, SelectStep DEF IInv, Next, SelectRuns, PollRuns, EpollRuns, Runs
  <2> QED  BY <1>1, <1>2, <2>1 DEF IInv, SelectKept
<1>3. CASE program = "poll"
  <2>1. PollKept
    BY <1>3, PollStep DEF IInv, Next, SelectRuns, PollRuns, EpollRuns, Runs
  <2> QED  BY <1>1, <1>3, <2>1 DEF IInv, PollKept
<1>4. CASE program = "epoll"
  <2>1. EpollKept
    BY <1>4, EpollStep DEF IInv, Next, SelectRuns, PollRuns, EpollRuns, Runs
  <2> QED  BY <1>1, <1>4, <2>1 DEF IInv, EpollKept
<1> QED  BY <1>1, <1>2, <1>3, <1>4

\* A stuttering step keeps the invariant and drops nobody.
LEMMA StutterIInv ==
  ASSUME IInv, UNCHANGED vars PROVE IInv' /\ DropsNobody
<1>1. /\ UNCHANGED <<program, is_running, watched, fds, client_fds, max_fd, batch, hot>>
      /\ UNCHANGED <<mpc, ret>>
      /\ UNCHANGED sockVars /\ UNCHANGED poolVars /\ UNCHANGED mainVars
  BY DEF vars, bookVars, mainVars
<1>2. ServerSound'
  BY <1>1, StutterSound DEF IInv
<1>3. Scanning => Scanning'
  BY <1>1 DEF Scanning
<1>4. program = "select" => SelectKept
  <2>1. SelectInv /\ program = "select" => SelectKept
    BY <1>1, <1>2, <1>3, SelectMoves DEF IInv, SelectInv, SelectBatch
  <2> QED  BY <2>1 DEF IInv
<1>5. program = "poll" => PollKept
  <2>1. PollInv => PollStopped'
    BY <1>1 DEF PollInv, PollStopped
  <2>2. PollInv /\ program = "poll" => PollKept
    BY <1>1, <1>2, <1>3, <2>1, PollMoves DEF IInv, PollInv, PollBatch
  <2> QED  BY <2>2 DEF IInv
<1>6. program = "epoll" => EpollKept
  BY <1>1, <1>2, EpollMoves DEF IInv
<1>7. IInv'
  BY <1>1, <1>2, <1>4, <1>5, <1>6 DEF IInv, SelectKept, PollKept, EpollKept
<1> QED  BY <1>1, <1>7, SameTableDropsNobody DEF sockVars

\* The inductive invariant holds of the three servers.
THEOREM Inductive == Spec => []IInv
<1>1. IInv /\ [Next]_vars => IInv'
  BY NextIInv, StutterIInv
<1> QED  BY InitIInv, <1>1, PTL DEF Spec

-----------------------------------------------------------------------------
(* What follows                                                            *)

\* The instances' type invariant is that of ServerPool.
LEMMA SameTypes ==
  /\ Select!ServerTypeOK <=> ServerTypeOK
  /\ Poll!ServerTypeOK <=> ServerTypeOK
  /\ Epoll!ServerTypeOK <=> ServerTypeOK
<1>1. Select!ServerTypeOK <=> ServerTypeOK
  BY DEF Select!ServerTypeOK, ServerTypeOK, Select!SockTypeOK, SockTypeOK, Select!Fds, Fds,
         Select!Chunks, Chunks, Select!Callables, Callables, Select!LoopLabels, LoopLabels
<1>2. Poll!ServerTypeOK <=> ServerTypeOK
  BY DEF Poll!ServerTypeOK, ServerTypeOK, Poll!SockTypeOK, SockTypeOK, Poll!Fds, Fds,
         Poll!Chunks, Chunks, Poll!Callables, Callables, Poll!LoopLabels, LoopLabels
<1>3. Epoll!ServerTypeOK <=> ServerTypeOK
  BY DEF Epoll!ServerTypeOK, ServerTypeOK, Epoll!SockTypeOK, SockTypeOK, Epoll!Fds, Fds,
         Epoll!Chunks, Chunks, Epoll!Callables, Callables, Epoll!LoopLabels, LoopLabels
<1> QED  BY <1>1, <1>2, <1>3

\* The variables keep their types, whichever of the servers runs.
THEOREM TypeCorrect == Spec => []TypeOK
<1>1. IInv => TypeOK
  <2> SUFFICES ASSUME IInv PROVE TypeOK
    OBVIOUS
  <2>1. ServerTypeOK
    BY SoundIsTyped DEF IInv
  <2>2. CASE program = "select"
    <3>1. Select!TypeOK
      BY <2>1, <2>2, SameTypes, SelectSame DEF IInv, SelectInv, SelectTyped, Select!TypeOK, Numbers
    <3> QED  BY <2>2, <3>1 DEF TypeOK
  <2>3. CASE program = "poll"
    <3>1. Poll!TypeOK
      BY <2>1, <2>3, SameTypes, PollSame DEF IInv, PollInv, PollTyped, Poll!TypeOK, Numbers
    <3> QED  BY <2>3, <3>1 DEF TypeOK
  <2>4. CASE program = "epoll"
    <3>1. watched \subseteq Fds /\ batch \subseteq Fds \cup {ServerFd}
      BY <2>4 DEF IInv, EpollInv, EpollTyped, EpollBooks, Open, Numbers
    <3>2. Epoll!TypeOK
      BY <2>1, <3>1, SameTypes, EpollSame DEF Epoll!TypeOK
    <3> QED  BY <2>4, <3>2 DEF TypeOK
  <2> QED  BY <2>2, <2>3, <2>4 DEF IInv
<1> QED  BY <1>1, Inductive, PTL

\* The records a server keeps of its clients agree with the descriptor table,
\* although the loop, its error branch and workers close numbers.
THEOREM RecordsAgree == Spec => []Bookkeeping
<1>1. IInv => Bookkeeping
  <2> SUFFICES ASSUME IInv PROVE Bookkeeping
    OBVIOUS
  <2>1. CASE program = "select"
    <3>1. Select!Bookkeeping
      <4> SUFFICES ASSUME mpc # "exit"
                   PROVE  /\ client_fds = Open /\ watched = client_fds \cup {ServerFd}
                          /\ max_fd = Select!Max(watched)
        BY SelectSame DEF Select!Bookkeeping, Open
      <4>1. /\ client_fds = Open /\ watched = client_fds \cup {ServerFd}
            /\ max_fd \in watched /\ \A fd \in watched : fd <= max_fd
        BY <2>1 DEF IInv, SelectInv, SelectBooks
      <4>2. watched \in SUBSET (0..MaxFd) /\ watched # {} /\ MaxFd \in Nat
        BY <2>1, <4>1, NumbersNat DEF IInv, SelectInv, SelectTyped
      <4>3. Max(watched) \in watched /\ \A fd \in watched : fd <= Max(watched)
        BY <4>2, MaxOfNats
      <4>4. max_fd = Max(watched)
        BY <4>1, <4>2, <4>3
      <4>5. Select!Max(watched) = Max(watched)
        BY DEF Select!Max, Max
      <4> QED  BY <4>1, <4>4, <4>5
    <3> QED  BY <2>1, <3>1 DEF Bookkeeping
  <2>2. CASE program = "poll"
    <3>1. Poll!Bookkeeping
      <4> SUFFICES ASSUME mpc # "exit"
                   PROVE  /\ client_fds = Open
                          /\ Poll!ToSet(fds) \ {ServerFd} = client_fds
                          /\ Poll!IsInjective(fds)
        BY PollSame DEF Poll!Bookkeeping, Open
      <4>1. /\ client_fds = Open /\ fds \in Seq(Numbers) /\ client_fds \subseteq Fds
            /\ \A fd \in Fds : fd \in client_fds <=> \E i \in DOMAIN fds : fds[i] = fd
            /\ \A i, j \in DOMAIN fds : fds[i] = fds[j] => i = j
        BY <2>2 DEF IInv, PollInv, PollTyped, PollBooks
      <4>2. Poll!IsInjective(fds)
        BY <4>1 DEF Poll!IsInjective
      <4>3. \A fd : fd \in Poll!ToSet(fds) \ {ServerFd} <=> fd \in client_fds
        <5>1. \A fd : fd \in Poll!ToSet(fds) <=> \E i \in DOMAIN fds : fds[i] = fd
          BY DEF Poll!ToSet
        <5>2. \A i \in DOMAIN fds : fds[i] \in Fds \cup {ServerFd}
          BY <4>1 DEF Numbers
        <5>3. \A fd : fd \in client_fds => fd \in Fds /\ fd # ServerFd
          BY <4>1, NumbersNat
        <5> QED  BY <4>1, <5>1, <5>2, <5>3
      <4> QED  BY <4>1, <4>2, <4>3
    <3> QED  BY <2>2, <3>1 DEF Bookkeeping
  <2>3. CASE program = "epoll"
    <3>1. Epoll!Registered
      BY <2>3, EpollSame DEF IInv, EpollInv, EpollBooks, Epoll!Registered, Open
    <3> QED  BY <2>3, <3>1 DEF Bookkeeping
  <2> QED  BY <2>1, <2>2, <2>3 DEF IInv
<1> QED  BY <1>1, Inductive, PTL

\* The thread that serves everybody calls accept and recv only when they return at
\* once (epoll: until a number it still held is given out again).
THEOREM NeverBlocks == Spec => []NeverBlocksOnOne
<1>1. IInv => NeverBlocksOnOne
  <2> SUFFICES ASSUME IInv PROVE NeverBlocksOnOne
    OBVIOUS
  <2>1. CASE program = "select"
    <3>1. Select!NeverBlocksOnOne
      <4> SUFFICES ASSUME batch # {}, NEW fd, fd = Select!Scanned PROVE AtOnce(fd)
        BY SelectSame DEF Select!NeverBlocksOnOne, AtOnce
      <4>1. fd = Min(batch)
        BY DEF Select!Scanned, Select!Min, Min
      <4>2. fd \in batch
        BY <2>1, <4>1, MinOfNats, NumbersNat DEF IInv, SelectInv, SelectTyped
      <4> QED  BY <2>1, <4>2 DEF IInv, SelectInv, SelectBatch
    <3> QED  BY <2>1, <3>1 DEF NeverBlocksOnOne
  <2>2. CASE program = "poll"
    <3>1. \A i \in DOMAIN batch : AtOnce(batch[i].fd)
      BY <2>2 DEF IInv, PollInv, PollBatch
    <3>2. \A fd : Poll!In(fd) <=> AtOnce(fd)
      BY PollSame DEF Poll!In, AtOnce
    <3>3. Poll!NeverBlocksOnOne
      BY <3>1, <3>2 DEF Poll!NeverBlocksOnOne
    <3> QED  BY <2>2, <3>3 DEF NeverBlocksOnOne
  <2>3. CASE program = "epoll"
    <3>1. Epoll!NeverBlocksOnOne
      BY <2>3, EpollSame DEF IInv, EpollInv, BatchIsReadable, Epoll!NeverBlocksOnOne
    <3> QED  BY <2>3, <3>1 DEF NeverBlocksOnOne
  <2> QED  BY <2>1, <2>2, <2>3 DEF IInv
<1> QED  BY <1>1, Inductive, PTL

\* The poll server's destructor does not wait for the pool, but no callable is
\* about to send on a number it closes.
THEOREM SendsBeforeClose == Spec => []NoSendAfterClose
<1>1. IInv => NoSendAfterClose
  BY DEF IInv, PollInv, PollStopped, ServerSound, NoLateSend, NoSendAfterClose, Poll!NoSendAfterClose
<1> QED  BY <1>1, Inductive, PTL

\* No server closes the connection of a client who is still there, before it
\* closes all of them at its end, or a number it still held is given out again.
THEOREM DropsNoClient == Spec => NobodyDropped
<1>1. IInv /\ [Next]_vars =>
        [~reused /\ mpc # "dtor_close" =>
           \A fd \in Fds : fdtab[fd] # None /\ ~Gone(fdtab[fd]) => fdtab'[fd] = fdtab[fd]]_sockVars
  BY NextIInv, StutterIInv DEF DropsNobody
<1> QED  BY <1>1, Inductive, PTL DEF Spec, NobodyDropped

-----------------------------------------------------------------------------
(* The edge-triggered server                                               *)

Typed ==
    /\ interest = Open /\ edges \subseteq Open
    /\ events \subseteq Fds \cup {ServerFd}
    /\ errno \in {"EAGAIN", "other"}

\* Events are only left while the main thread looks at them.
ScanLabels == {"scan", "lock", "unlock"}
ETScanning == events # {} => mpc \in ScanLabels \/ (mpc = "handler" /\ ret \in ScanLabels)

\* What the loop and the workers may rely on.
Base == ServerSound /\ Typed /\ ETScanning /\ BatchIsReadable(events) /\ FailedAreGone

\* NoHangUpStranded needs that nobody got more answers than it sent chunks that
\* were received, and that needs to know where every received chunk is.
ETInv == Base /\ AnsweredOnce /\ OwnChunks /\ NoDataStranded /\ NoHangUpStranded

\* What a step keeps; DropsNobody is what it may not do.
Kept == ETInv' /\ (~reused => DropsNobody)

\* The edge-triggered server starts in the invariant.
LEMMA InitETInv == ETInit => ETInv
<1> SUFFICES ASSUME ETInit PROVE ETInv
  OBVIOUS
<1>1. ServerInit /\ interest = {} /\ edges = {} /\ events = {} /\ errno = "other"
  BY DEF ETInit
<1>2. ServerSound /\ AnsweredOnce /\ OwnChunks
  BY <1>1, InitSound, InitOnce
<1>3. (\A fd \in Fds : fdtab[fd] = None) /\ \A w \in Workers : wpc[w] = "idle"
  BY <1>1 DEF ServerInit, SockInit
<1>4. Base
  BY <1>1, <1>2, <1>3 DEF Base, Typed, Open, ETScanning, BatchIsReadable, FailedAreGone
<1> QED  BY <1>2, <1>3, <1>4 DEF ETInv, NoDataStranded, NoHangUpStranded

-----------------------------------------------------------------------------
(* The main thread                                                         *)

\* Only where the main thread is changes.
LEMMA Moves ==
  ASSUME ETInv, ServerSound', UNCHANGED <<interest, edges, errno, events>>,
         UNCHANGED sockVars, UNCHANGED poolVars, ETScanning', mpc = "exit" => mpc' = "exit"
  PROVE  Kept
<1>1. Base'
  BY DEF ETInv, Base, Typed, Open, BatchIsReadable, FailedAreGone, Readable, Unread, Gone, sockVars,
         poolVars
<1>2. UNCHANGED <<fdtab, peer, sent, got, out, reused>> /\ UNCHANGED <<queue, doing, wpc>>
  BY DEF sockVars, poolVars
<1>3. AnsweredOnce' /\ OwnChunks'
  <2>1. /\ \A w \in Workers : Running(w)' => Running(w) /\ doing'[w] = doing[w]
        /\ \A c \in Conns : got[c] <= got'[c]
        /\ \A fd \in HeldFds : reused' \/ fdtab'[fd] \in {None, fdtab[fd]}
    BY <1>2, SocketsAssumption DEF Running, ETInv, Base, ServerSound, SockTypeOK
  <2> QED  BY <1>2, <2>1, OnceStays, OwnStays DEF ETInv, Base
<1>4. NoDataStranded' /\ NoHangUpStranded'
  BY <1>2 DEF ETInv, NoDataStranded, NoHangUpStranded, Unread, Gone
<1> QED  BY <1>1, <1>2, <1>3, <1>4, SameTableDropsNobody DEF Kept, ETInv

\* The steps of the main thread that dispatch no event: those of the loop, of
\* SIGINT and of the destructor.
LEMMA MainMoves ==
  ASSUME ETInv,
         \/ EpollFails \/ EndScan \/ DtorClose
         \/ /\ Lock \/ Unlock \/ Loop \/ Signal \/ HandlerReturns \/ DtorStop \/ DtorWait
            /\ UNCHANGED <<etVars, events>>
  PROVE  Kept
<1>1. CASE /\ Unlock \/ Loop \/ Signal \/ HandlerReturns \/ DtorStop \/ DtorWait
           /\ UNCHANGED <<etVars, events>>
  <2>1. ServerSound' /\ UNCHANGED sockVars /\ UNCHANGED poolVars
    BY <1>1, MainStepSound DEF ETInv, Base
  <2>2. UNCHANGED <<interest, edges, errno, events>>
    BY <1>1 DEF etVars
  <2>3. ETScanning' /\ (mpc = "exit" => mpc' = "exit")
    BY <1>1, <2>2
    DEF ETInv, Base, ETScanning, ScanLabels, Unlock, Loop, Signal, HandlerReturns, DtorStop, DtorWait,
        Goto, LoopLabels
  <2> QED  BY <2>1, <2>2, <2>3, Moves
<1>2. CASE EpollFails \/ EndScan \/ DtorClose \/ (Lock /\ UNCHANGED <<etVars, events>>)
  <2>1. /\ UNCHANGED <<is_running, ret>> /\ UNCHANGED <<interest, edges, errno, events>>
        /\ UNCHANGED poolVars /\ UNCHANGED sockVars
        /\ \/ mpc \in LoopLabels /\ mpc' \in LoopLabels \cup {"dtor_stop"}
           \/ mpc = "dtor_close" /\ mpc' = "exit"
        /\ events = {} \/ mpc' = "unlock"
    BY <1>2 DEF EpollFails, EndScan, DtorClose, Lock, Goto, LoopLabels, etVars, ETInv, Base, ETScanning,
                ScanLabels
  <2>2. ServerSound'
    BY <2>1, MoveSound, SockStutters, SameNumbers
    DEF ETInv, Base, ServerSound, PoolSound, poolVars, sockVars
  <2>3. ETScanning' /\ (mpc = "exit" => mpc' = "exit")
    BY <2>1 DEF ETScanning, ScanLabels, LoopLabels
  <2> QED  BY <2>1, <2>2, <2>3, Moves
<1> QED  BY <1>1, <1>2

\* Nothing changes.
LEMMA StutterETInv ==
  ASSUME ETInv, UNCHANGED serverVars PROVE Kept
<1>1. /\ UNCHANGED <<interest, edges, errno, events>> /\ UNCHANGED <<mpc, ret>>
      /\ UNCHANGED sockVars /\ UNCHANGED poolVars /\ UNCHANGED <<is_running, poolVars, mainVars>>
  BY DEF serverVars, etVars, mainVars
<1>2. ServerSound' /\ ETScanning'
  BY <1>1, StutterSound DEF ETInv, Base, ETScanning
<1> QED  BY <1>1, <1>2, Moves

\* epoll_wait takes all changes, and what it leaves out of the batch has nothing
\* to be read.
LEMMA Waits ==
  ASSUME ETInv, EpollWait PROVE Kept
<1>1. /\ UNCHANGED <<is_running, ret, interest, errno>> /\ UNCHANGED poolVars /\ UNCHANGED sockVars
      /\ mpc = "wait" /\ mpc' = "scan" /\ edges' = {}
  BY DEF EpollWait, Goto
<1>2. /\ events' \subseteq edges \cup {ServerFd}
      /\ \A fd \in edges : Readable(fd) => fd \in events'
      /\ \A fd \in events' \ {ServerFd} : Readable(fd)
  BY DEF EpollWait
<1>3. UNCHANGED <<fdtab, peer, sent, got, out, reused>> /\ UNCHANGED <<queue, doing, wpc>>
  BY <1>1 DEF sockVars, poolVars
<1>4. ServerSound'
  BY <1>1, MoveSound, SockStutters, SameNumbers
  DEF ETInv, Base, ServerSound, PoolSound, poolVars, sockVars, LoopLabels
<1>5. Base'
  <2>1. Typed' /\ ETScanning'
    BY <1>1, <1>2, <1>3 DEF ETInv, Base, Typed, Open, ETScanning, ScanLabels
  <2>2. BatchIsReadable(events)' /\ FailedAreGone'
    BY <1>2, <1>3 DEF ETInv, Base, BatchIsReadable, FailedAreGone, Readable, Unread, Gone
  <2> QED  BY <1>4, <2>1, <2>2 DEF Base
<1>6. AnsweredOnce' /\ OwnChunks'
  <2>1. /\ \A w \in Workers : Running(w)' => Running(w) /\ doing'[w] = doing[w]
        /\ \A c \in Conns : got[c] <= got'[c]
        /\ \A fd \in HeldFds : reused' \/ fdtab'[fd] \in {None, fdtab[fd]}
    BY <1>3, SocketsAssumption DEF Running, ETInv, Base, ServerSound, SockTypeOK
  <2> QED  BY <1>3, <1>4, <2>1, OnceStays, OwnStays DEF ETInv, Base
<1>7. NoDataStranded' /\ NoHangUpStranded'
  <2>1. events = {}
    BY <1>1 DEF ETInv, Base, ETScanning, ScanLabels
  <2> QED  BY <1>1, <1>2, <1>3, <2>1
           DEF ETInv, NoDataStranded, NoHangUpStranded, Readable, Unread, Gone
<1> QED  BY <1>3, <1>5, <1>6, <1>7, SameTableDropsNobody DEF Kept, ETInv

\* new_client: the number it gives out is reported at once.
LEMMA Accepting ==
  ASSUME ETInv, new_client PROVE Kept
<1>1. /\ events' = events \ {ServerFd} /\ UNCHANGED <<is_running, ret>>
      /\ mpc = "scan" /\ mpc' \in {"scan", "lock"}
      /\ UNCHANGED poolVars /\ UNCHANGED <<queue, doing, wpc>>
  BY DEF new_client, Scans, Goto, poolVars
<1>2. ServerFd \notin Fds
  BY SocketsAssumption DEF Fds
<1>3. CASE mpc' = "scan" /\ errno' = "other" /\ UNCHANGED sockVars /\ UNCHANGED <<interest, edges>>
  <2>1. UNCHANGED <<fdtab, peer, sent, got, out, reused>>
    BY <1>3 DEF sockVars
  <2>2. ServerSound'
    BY <1>1, <1>3, StutterSound DEF ETInv, Base, mainVars
  <2>3. Base'
    <3>1. Typed' /\ ETScanning'
      BY <1>1, <1>3, <2>1 DEF ETInv, Base, Typed, Open, ETScanning, ScanLabels
    <3>2. BatchIsReadable(events)' /\ FailedAreGone'
      BY <1>1, <2>1 DEF ETInv, Base, BatchIsReadable, FailedAreGone, Readable, Unread, Gone
    <3> QED  BY <2>2, <3>1, <3>2 DEF Base
  <2>4. AnsweredOnce' /\ OwnChunks'
    <3>1. /\ \A w \in Workers : Running(w)' => Running(w) /\ doing'[w] = doing[w]
          /\ \A c \in Conns : got[c] <= got'[c]
          /\ \A fd \in HeldFds : reused' \/ fdtab'[fd] \in {None, fdtab[fd]}
      BY <1>1, <2>1, SocketsAssumption DEF Running, ETInv, Base, ServerSound, SockTypeOK
    <3> QED  BY <1>1, <2>1, <2>2, <3>1, OnceStays, OwnStays DEF ETInv, Base
  <2>5. NoDataStranded' /\ NoHangUpStranded'
    BY <1>1, <1>2, <1>3, <2>1 DEF ETInv, NoDataStranded, NoHangUpStranded, Unread, Gone
  <2> QED  BY <2>1, <2>3, <2>4, <2>5, SameTableDropsNobody DEF Kept, ETInv
<1>4. CASE \E c \in backlog, fd \in FreeFds :
             /\ Accepts(c, fd, HeldFds \cup events)
             /\ interest' = interest \cup {fd} /\ edges' = edges \cup {fd} /\ UNCHANGED errno
  <2>1. PICK c \in backlog, fd \in FreeFds :
             /\ Accepts(c, fd, HeldFds \cup events)
             /\ interest' = interest \cup {fd} /\ edges' = edges \cup {fd} /\ UNCHANGED errno
    BY <1>4
  <2>2. /\ ServerSound'
        /\ fd \in Fds /\ fdtab[fd] = None /\ c \in Conns /\ c # None
        /\ \A gd \in Fds : fdtab'[gd] = IF gd = fd THEN c ELSE fdtab[gd]
    BY <1>1, <2>1, AcceptsSound DEF ETInv, Base, LoopLabels
  <2>3. /\ reused' = (reused \/ fd \in HeldFds \cup events)
        /\ UNCHANGED <<peer, sent, got, out>>
    BY <2>1 DEF Accepts
  <2>4. \A gd \in HeldFds : reused' \/ fdtab'[gd] \in {None, fdtab[gd]}
    BY <2>2, <2>3, HeldAreFds DEF ETInv, Base
  <2>5. AnsweredOnce' /\ OwnChunks'
    <3>1. /\ \A w \in Workers : Running(w)' => Running(w) /\ doing'[w] = doing[w]
          /\ \A d \in Conns : got[d] <= got'[d]
      BY <1>1, <2>3, SocketsAssumption DEF Running, ETInv, Base, ServerSound, SockTypeOK
    <3> QED  BY <1>1, <2>2, <2>3, <2>4, <3>1, OnceStays, OwnStays DEF ETInv, Base
  <2>6. Typed' /\ ETScanning'
    BY <1>1, <2>1, <2>2 DEF ETInv, Base, Typed, Open, ETScanning, ScanLabels
  <2>7. BatchIsReadable(events)'
    <3> SUFFICES ASSUME ~reused', NEW gd \in events' \ {ServerFd}, fdtab'[gd] # None
                 PROVE  Readable(gd)'
      BY DEF BatchIsReadable
    <3>1. gd \in Fds /\ gd \in events /\ gd # fd
      BY <1>1, <2>3 DEF ETInv, Base, Typed, Open
    <3> QED  BY <2>2, <2>3, <3>1 DEF ETInv, Base, BatchIsReadable, Readable, Unread, Gone
  <2>8. FailedAreGone'
    <3>1. \A w \in Workers : wpc'[w] = "close" => doing[w].fd \in HeldFds
      BY <1>1 DEF HeldFds
    <3>2. (reused => reused') /\ \A d \in Conns : Gone(d) => Gone(d)'
      BY <2>3 DEF Gone
    <3> QED  BY <1>1, <2>4, <3>1, <3>2, FailedStayGone DEF ETInv, Base
  <2>9. NoDataStranded' /\ NoHangUpStranded'
    <3> SUFFICES ASSUME mpc # "exit", NEW gd \in Fds, gd # fd
                 PROVE  /\ fdtab'[gd] # None /\ Unread(fdtab[gd])' => gd \in edges' \cup events'
                        /\ ~reused' /\ fdtab'[gd] # None /\ Gone(fdtab[gd])'
                             /\ Len(out'[fdtab'[gd]]) = sent'[fdtab'[gd]]
                           => gd \in edges' \cup events'
      BY <1>1, <2>1 DEF NoDataStranded, NoHangUpStranded
    <3>1. fdtab'[gd] = fdtab[gd] /\ (gd \in edges \cup events => gd \in edges' \cup events')
      BY <1>1, <1>2, <2>1, <2>2
    <3> QED  BY <2>3, <3>1 DEF ETInv, NoDataStranded, NoHangUpStranded, Unread, Gone
  <2> QED  BY <2>1, <2>2, <2>5, <2>6, <2>7, <2>8, <2>9, AcceptsDropsNobody
           DEF Kept, ETInv, Base, ServerSound
<1>5. \/ mpc' = "scan" /\ errno' = "other" /\ UNCHANGED sockVars /\ UNCHANGED <<interest, edges>>
      \/ \E c \in backlog, fd \in FreeFds :
             /\ Accepts(c, fd, HeldFds \cup events)
             /\ interest' = interest \cup {fd} /\ edges' = edges \cup {fd} /\ UNCHANGED errno
  BY DEF new_client, Scans, Goto
<1> QED  BY <1>3, <1>4, <1>5

\* What one call of client_communicate collects: the chunks that were sent and
\* not received yet, each once.
LEMMA Collected ==
  ASSUME ServerSound, NEW fd \in Fds, fdtab[fd] \in Conns
  PROVE  /\ Unreads(fd) \in Seq(Chunks) /\ IsInjective(Unreads(fd))
         /\ Unreads(fd) # <<>> <=> Unread(fdtab[fd])
         /\ \A x : x \in ToSet(Unreads(fd)) <=>
              /\ x \in Chunks /\ x[1] = fdtab[fd]
              /\ got[fdtab[fd]] < x[2] /\ x[2] <= sent[fdtab[fd]]
<1>0. PICK c \in Conns : c = fdtab[fd] /\ c # None
  BY SocketsAssumption
<1> DEFINE n == sent[c] - got[c]  u == [i \in 1..n |-> <<c, got[c] + i>>]
<1>1. sent[c] \in 0..MaxChunks /\ got[c] \in 0..MaxChunks /\ MaxChunks \in Nat /\ n \in Int
  BY <1>0, SocketsAssumption DEF ServerSound, SockTypeOK
<1>2. Unreads(fd) = u
  BY <1>0 DEF Unreads
<1>3. \A i \in 1..n : got[c] + i \in 1..MaxChunks /\ u[i] = <<c, got[c] + i>> /\ u[i] \in Chunks
  BY <1>0, <1>1 DEF Chunks
<1>4. u \in Seq(Chunks)
  <2>1. CASE n \in Nat
    <3>1. u \in [1..n -> Chunks]
      BY <1>3
    <3> HIDE DEF u, n
    <3> QED  BY <2>1, <3>1
  <2>2. CASE n < 0
    <3>1. 1..n = {} /\ 1..0 = {}
      BY <1>1, <2>2
    <3>2. u \in [1..0 -> Chunks]
      BY <3>1
    <3> HIDE DEF u
    <3> QED  BY <3>2
  <2> QED  BY <1>1, <2>1, <2>2
<1>5. DOMAIN u = 1..n
  OBVIOUS
<1> HIDE DEF u
<1>6. IsInjective(u)
  BY <1>1, <1>3, <1>5 DEF IsInjective
<1>7. u # <<>> <=> Unread(c)
  <2>1. n > 0 <=> Unread(c)
    BY <1>1 DEF Unread
  <2>2. n > 0 <=> 1 \in DOMAIN u
    BY <1>1, <1>5
  <2>3. u # <<>> <=> 1 \in DOMAIN u
    <3>1. Len(u) \in Nat /\ DOMAIN u = 1..Len(u) /\ (u = <<>> <=> Len(u) = 0)
      BY <1>4
    <3> QED  BY <3>1
  <2> QED  BY <2>1, <2>2, <2>3
<1>8. \A x : x \in ToSet(u) <=> x \in Chunks /\ x[1] = c /\ got[c] < x[2] /\ x[2] <= sent[c]
  <2>1. ASSUME NEW x \in ToSet(u)
        PROVE  x \in Chunks /\ x[1] = c /\ got[c] < x[2] /\ x[2] <= sent[c]
    <3>1. PICK i \in 1..n : x = u[i]
      BY <1>5 DEF ToSet
    <3> QED  BY <1>1, <1>3, <3>1
  <2>2. ASSUME NEW x \in Chunks, x[1] = c, got[c] < x[2], x[2] <= sent[c]
        PROVE  x \in ToSet(u)
    <3>1. x = <<c, x[2]>> /\ x[2] \in Int
      BY <2>2, <1>1 DEF Chunks
    <3>2. x[2] - got[c] \in 1..n /\ got[c] + (x[2] - got[c]) = x[2]
      BY <1>1, <2>2, <3>1
    <3>3. u[x[2] - got[c]] = x
      BY <1>3, <3>1, <3>2
    <3> QED  BY <1>5, <3>2, <3>3 DEF ToSet
  <2> QED  BY <2>1, <2>2
<1> QED  BY <1>0, <1>2, <1>4, <1>6, <1>7, <1>8

\* client_communicate reads until nothing is left, and submits all of it.
LEMMA Communicating ==
  ASSUME ETInv, NEW fd \in Fds, Communicate(fd) PROVE Kept
<1> DEFINE c == fdtab[fd]
<1>1. /\ events' = events \ {fd} /\ UNCHANGED <<is_running, mpc, ret>> /\ mpc = "scan"
      /\ UNCHANGED <<interest, edges>> /\ HasMessage(fd) /\ errno' = LastErrno(fd)
      /\ UNCHANGED <<fdtab, backlog, peer, sent, out, reused>>
      /\ Submit(fd, Unreads(fd)) /\ UNCHANGED <<doing, wpc>>
      /\ got' = [got EXCEPT ![c] = sent[c]]
  BY DEF Communicate, Scans, Goto, Submit
<1>2. c \in Conns /\ c # None
  BY <1>1, OpenIsConn DEF HasMessage, Unreads, ETInv, Base, ServerSound
<1>3. /\ Unreads(fd) \in Seq(Chunks) /\ IsInjective(Unreads(fd)) /\ Unread(c)
      /\ \A x : x \in ToSet(Unreads(fd)) <=>
           x \in Chunks /\ x[1] = c /\ got[c] < x[2] /\ x[2] <= sent[c]
  BY <1>1, <1>2, Collected DEF HasMessage, ETInv, Base
<1>4. /\ sent \in [Conns -> 0..MaxChunks] /\ got \in [Conns -> 0..MaxChunks] /\ MaxChunks \in Nat
      /\ got' \in [Conns -> 0..MaxChunks]
      /\ got'[c] = sent[c] /\ \A d \in Conns \ {c} : got'[d] = got[d]
  BY <1>1, <1>2, SocketsAssumption DEF ETInv, Base, ServerSound, SockTypeOK
<1>5. got[c] < sent[c]
  BY <1>2, <1>3, <1>4 DEF Unread
<1>6. ServerSound'
  <2>1. SockTypeOK'
    BY <1>1, <1>4 DEF ETInv, Base, ServerSound, SockTypeOK
  <2>2. OneNumberEach'
    BY <1>1, SameNumbers DEF ETInv, Base, ServerSound
  <2>3. PoolSound'
    BY <1>1, <1>3, SubmitSound DEF ETInv, Base, ServerSound
  <2>4. MainSound' /\ NoLateSend'
    BY <1>1 DEF ETInv, Base, ServerSound, MainSound, NoLateSend
  <2> QED  BY <2>1, <2>2, <2>3, <2>4 DEF ServerSound
<1>7. AnsweredOnce' /\ OwnChunks'
  <2>1. \A d \in Conns : got[d] <= got'[d]
    BY <1>2, <1>4, <1>5
  <2>2. ToSet(Unreads(fd)) \cap Received = {}
    <3> SUFFICES ASSUME NEW x \in ToSet(Unreads(fd)), x \in Received PROVE FALSE
      OBVIOUS
    <3>1. x \in Chunks /\ x[1] = c /\ got[c] < x[2] /\ x[2] <= got[c]
      BY <1>3 DEF Received
    <3> QED  BY <1>2, <1>4, <3>1 DEF Chunks
  <2>3. ToSet(Unreads(fd)) \subseteq Received'
    BY <1>3, <1>4 DEF Received
  <2>4. \A x \in ToSet(Unreads(fd)) : x[1] = fdtab[fd]
    BY <1>3
  <2>5. AnsweredOnce'
    BY <1>1, <1>3, <1>6, <2>1, <2>2, <2>3, OnceSubmits DEF ETInv, Base
  <2>6. OwnChunks'
    BY <1>1, <1>3, <2>4, OwnSubmits DEF ETInv, Base
  <2> QED  BY <2>5, <2>6
<1>8. Base'
  <2>1. errno' \in {"EAGAIN", "other"}
    BY <1>1 DEF LastErrno, ETInv, Base, Typed, Open
  <2>2. Typed' /\ ETScanning'
    BY <1>1, <2>1 DEF ETInv, Base, Typed, Open, ETScanning
  <2>3. BatchIsReadable(events)'
    <3> SUFFICES ASSUME ~reused', NEW gd \in events' \ {ServerFd}, fdtab'[gd] # None
                 PROVE  Readable(gd)'
      BY DEF BatchIsReadable
    <3>1. gd \in Fds /\ gd # fd /\ Readable(gd) /\ fdtab[gd] # None
      BY <1>1 DEF ETInv, Base, Typed, Open, BatchIsReadable
    <3>2. fdtab[gd] # c /\ fdtab[gd] \in Conns
      BY <3>1, OpenIsConn DEF ETInv, Base, ServerSound, OneNumberEach
    <3> QED  BY <1>1, <1>4, <3>1, <3>2 DEF Readable, Unread, Gone
  <2>4. FailedAreGone'
    BY <1>1 DEF ETInv, Base, FailedAreGone, Gone
  <2> QED  BY <1>6, <2>2, <2>3, <2>4 DEF Base
<1>9. \A gd \in Fds : gd \in edges \cup events => gd = fd \/ gd \in edges' \cup events'
  BY <1>1
<1>10. NoDataStranded'
  <2> SUFFICES ASSUME mpc # "exit", NEW gd \in Fds, fdtab[gd] # None, Unread(fdtab[gd])'
               PROVE  gd \in edges' \cup events'
    BY <1>1 DEF NoDataStranded
  <2>1. fdtab[gd] # c /\ gd # fd
    BY <1>1, <1>2, <1>4 DEF Unread
  <2>2. fdtab[gd] \in Conns
    BY OpenIsConn DEF ETInv, Base, ServerSound
  <2>3. Unread(fdtab[gd])
    BY <1>1, <1>4, <2>1, <2>2 DEF Unread
  <2> QED  BY <1>9, <2>1, <2>3 DEF ETInv, NoDataStranded
<1>11. NoHangUpStranded'
  <2> SUFFICES ASSUME mpc # "exit", ~reused, NEW gd \in Fds, fdtab[gd] # None, Gone(fdtab[gd])',
                      Len(out[fdtab[gd]]) = sent[fdtab[gd]]
               PROVE  gd \in edges' \cup events'
    BY <1>1 DEF NoHangUpStranded
  <2>1. Len(out[c]) <= got[c] /\ Len(out[c]) \in Nat
    BY <1>2, AnswersBounded DEF ETInv, Base, ServerSound, SockTypeOK
  <2>2. gd # fd
    BY <1>2, <1>4, <1>5, <2>1
  <2>3. Gone(fdtab[gd])
    BY <1>1 DEF Gone
  <2> QED  BY <1>9, <2>2, <2>3 DEF ETInv, NoHangUpStranded
<1>12. DropsNobody
  BY <1>1, SameTableDropsNobody
<1> QED  BY <1>7, <1>8, <1>10, <1>11, <1>12 DEF Kept, ETInv

\* A number is closed and forgotten.
LEMMA Closing ==
  ASSUME ETInv, ServerSound', NEW fd \in Fds, close_fd(fd), errno' \in {"EAGAIN", "other"},
         events' = events \ {fd} \/ UNCHANGED events, UNCHANGED <<ret, queue, doing>>,
         UNCHANGED mpc \/ (mpc = "scan" /\ mpc' = "unlock"),
         \A w \in Workers : Running(w)' => Running(w),
         \A w \in Workers : wpc'[w] = "close" => wpc[w] = "close"
  PROVE  ETInv'
<1>1. Closes({fd}) /\ interest' = interest \ {fd} /\ edges' = edges \ {fd}
  BY DEF close_fd
<1>2. /\ UNCHANGED <<reused, peer, sent, got, out>>
      /\ \A gd \in Fds : fdtab'[gd] = IF gd = fd THEN None ELSE fdtab[gd]
  BY <1>1 DEF Closes
<1>3. AnsweredOnce' /\ OwnChunks'
  <2>1. /\ \A w \in Workers : Running(w)' => Running(w) /\ doing'[w] = doing[w]
        /\ \A c \in Conns : got[c] <= got'[c]
    BY <1>2, SocketsAssumption DEF ETInv, Base, ServerSound, SockTypeOK
  <2>2. \A gd \in HeldFds : reused' \/ fdtab'[gd] \in {None, fdtab[gd]}
    BY <1>2, HeldAreFds DEF ETInv, Base
  <2> QED  BY <1>2, <2>1, <2>2, OnceStays, OwnStays DEF ETInv, Base
<1>4. Typed' /\ ETScanning'
  BY <1>1, <1>2 DEF ETInv, Base, Typed, Open, ETScanning, ScanLabels
<1>5. BatchIsReadable(events)'
  <2> SUFFICES ASSUME ~reused', NEW gd \in events' \ {ServerFd}, fdtab'[gd] # None
               PROVE  Readable(gd)'
    BY DEF BatchIsReadable
  <2>1. gd \in Fds /\ gd # fd /\ fdtab'[gd] = fdtab[gd] /\ gd \in events
    BY <1>2 DEF ETInv, Base, Typed, Open
  <2> QED  BY <1>2, <2>1 DEF ETInv, Base, BatchIsReadable, Readable, Unread, Gone
<1>6. FailedAreGone'
  <2>1. \A w \in Workers : wpc'[w] = "close" =>
          \/ reused'
          \/ fdtab'[doing[w].fd] \in {None, fdtab[doing[w].fd]}
    BY <1>2 DEF ETInv, Base, ServerSound, PoolSound, Callables
  <2>2. (reused => reused') /\ \A d \in Conns : Gone(d) => Gone(d)'
    BY <1>2 DEF Gone
  <2> QED  BY <2>1, <2>2, FailedStayGone DEF ETInv, Base
<1>7. NoDataStranded' /\ NoHangUpStranded'
  <2> SUFFICES ASSUME mpc # "exit", NEW gd \in Fds, fdtab'[gd] # None
               PROVE  /\ Unread(fdtab[gd])' => gd \in edges' \cup events'
                      /\ ~reused' /\ Gone(fdtab[gd])'
                           /\ Len(out'[fdtab'[gd]]) = sent'[fdtab'[gd]]
                         => gd \in edges' \cup events'
    BY DEF NoDataStranded, NoHangUpStranded
  <2>1. fdtab'[gd] = fdtab[gd] /\ gd # fd /\ (gd \in edges \cup events => gd \in edges' \cup events')
    BY <1>1, <1>2
  <2> QED  BY <1>2, <2>1 DEF ETInv, NoDataStranded, NoHangUpStranded, Unread, Gone
<1> QED  BY <1>3, <1>4, <1>5, <1>6, <1>7 DEF ETInv, Base

\* What is taken for a disconnection is one: somebody who is still there has sent
\* something, and after the last of it recv fails with EAGAIN.
LEMMA Disconnecting ==
  ASSUME ETInv, NEW fd \in Fds, Disconnect(fd) PROVE Kept
<1>1. /\ events' = events \ {fd} /\ UNCHANGED <<is_running, ret>> /\ fd \in events
      /\ mpc = "scan" /\ mpc' = "unlock"
      /\ ~HasMessage(fd) /\ errno' = LastErrno(fd) /\ close_fd(fd)
      /\ UNCHANGED poolVars /\ UNCHANGED <<queue, doing, wpc>>
  BY DEF Disconnect, Scans, Goto, poolVars
<1>2. Closes({fd})
  BY <1>1 DEF close_fd
<1>3. ServerSound'
  BY <1>1, <1>2, ClosesSound DEF ETInv, Base, LoopLabels
<1>4. ETInv'
  <2>1. errno' \in {"EAGAIN", "other"}
    BY <1>1 DEF LastErrno, ETInv, Base, Typed, Open
  <2>2. \A w \in Workers : (Running(w)' => Running(w)) /\ (wpc'[w] = "close" => wpc[w] = "close")
    BY <1>1 DEF Running
  <2> QED  BY <1>1, <1>3, <2>1, <2>2, Closing
<1>5. ASSUME ~reused, fdtab[fd] # None PROVE Gone(fdtab[fd])
  <2> SUFFICES ASSUME ~Gone(fdtab[fd]) PROVE FALSE
    OBVIOUS
  <2>1. fdtab[fd] \in Conns
    BY <1>5, OpenIsConn DEF ETInv, Base, ServerSound
  <2>2. fd # ServerFd
    BY SocketsAssumption DEF Fds
  <2>3. Unread(fdtab[fd])
    BY <1>1, <1>5, <2>2 DEF ETInv, Base, BatchIsReadable, Readable
  <2>4. LastErrno(fd) = "EAGAIN"
    BY <1>5, <2>1 DEF LastErrno, Gone
  <2>5. Unreads(fd) # <<>>
    BY <2>1, <2>3, Collected DEF ETInv, Base
  <2> QED  BY <1>1, <2>4, <2>5 DEF HasMessage
<1>6. ~reused => DropsNobody
  BY <1>2, <1>5, ClosesDropsNobody
<1> QED  BY <1>4, <1>6 DEF Kept

-----------------------------------------------------------------------------
(* Workers and clients                                                     *)

\* A step that leaves the main thread, its batch and the table alone.  Where a
\* client does something its number has a change to be reported, and answers only
\* reach those who are there.
LEMMA Elsewhere ==
  ASSUME ETInv, ServerSound', AnsweredOnce', OwnChunks',
         UNCHANGED <<interest, errno, events, mpc, ret>>, UNCHANGED <<fdtab, reused>>,
         edges \subseteq edges', edges' \subseteq Open,
         \A fd \in Fds : Readable(fd) => Readable(fd)',
         \A c \in Conns : Gone(c) => Gone(c)',
         \A fd \in Fds : fdtab[fd] # None /\ fd \notin edges' =>
            /\ sent'[fdtab[fd]] = sent[fdtab[fd]] /\ got'[fdtab[fd]] = got[fdtab[fd]]
            /\ peer'[fdtab[fd]] = peer[fdtab[fd]]
            /\ Gone(fdtab[fd]) => out'[fdtab[fd]] = out[fdtab[fd]],
         \A w \in Workers : wpc'[w] = "close" =>
            /\ doing'[w] = doing[w]
            /\ wpc[w] = "close" \/ (wpc[w] = "send" /\ SendFails(doing[w].fd))
  PROVE  Kept
<1>1. Typed' /\ ETScanning'
  BY DEF ETInv, Base, Typed, Open, ETScanning
<1>2. BatchIsReadable(events)'
  BY DEF ETInv, Base, Typed, Open, BatchIsReadable
<1>3. FailedAreGone'
  BY FailedStayGone DEF ETInv, Base
<1>4. NoDataStranded' /\ NoHangUpStranded'
  <2> SUFFICES ASSUME mpc # "exit", NEW gd \in Fds, gd \notin edges', fdtab[gd] # None
               PROVE  /\ Unread(fdtab[gd])' => gd \in events
                      /\ ~reused /\ Gone(fdtab[gd])' /\ Len(out'[fdtab[gd]]) = sent'[fdtab[gd]]
                         => gd \in events
    BY DEF NoDataStranded, NoHangUpStranded
  <2>1. /\ Unread(fdtab[gd])' => Unread(fdtab[gd])
        /\ Gone(fdtab[gd])' => Gone(fdtab[gd])
    BY DEF Unread, Gone
  <2> QED  BY <2>1 DEF ETInv, NoDataStranded, NoHangUpStranded
<1> QED  BY <1>1, <1>2, <1>3, <1>4, SameTableDropsNobody DEF Kept, ETInv, Base

\* Take, Test and Finish leave the sockets alone.
LEMMA Working ==
  ASSUME ETInv, NEW w \in Workers, Take(w) \/ Test(w) \/ Finish(w), UNCHANGED etVars,
         UNCHANGED <<is_running, mainVars, events>>
  PROVE  Kept
<1>1. /\ UNCHANGED <<interest, edges, errno, events, mpc, ret>>
      /\ UNCHANGED sockVars
      /\ UNCHANGED <<fdtab, backlog, peer, sent, got, out, reused>>
  BY DEF etVars, mainVars, Take, Test, Finish, sockVars
<1>2. ServerSound'
  BY WorkerSound DEF Worker, ETInv, Base
<1>3. AnsweredOnce' /\ OwnChunks'
  <2>1. CASE Take(w)
    BY <2>1, OnceTakes, OwnTakes DEF ETInv, Base
  <2>2. CASE Test(w) \/ Finish(w)
    <3>1. UNCHANGED queue
      BY <2>2 DEF Test, Finish
    <3>2. \A v \in Workers : Running(v)' => Running(v) /\ doing'[v] = doing[v]
      BY <2>2 DEF Test, Finish, Running, ETInv, Base, ServerSound, PoolSound
    <3>3. /\ \A c \in Conns : got[c] <= got'[c]
          /\ \A fd \in HeldFds : reused' \/ fdtab'[fd] \in {None, fdtab[fd]}
      BY <1>1, SocketsAssumption DEF ETInv, Base, ServerSound, SockTypeOK
    <3> QED  BY <1>1, <1>2, <3>1, <3>2, <3>3, OnceStays, OwnStays DEF ETInv, Base
  <2> QED  BY <2>1, <2>2
<1>4. \A v \in Workers : wpc'[v] = "close" => doing'[v] = doing[v] /\ wpc[v] = "close"
  BY DEF Take, Test, Finish, ETInv, Base, ServerSound, PoolSound
<1>5. /\ \A fd \in Fds : Readable(fd) => Readable(fd)'
      /\ \A c \in Conns : Gone(c) => Gone(c)'
  BY <1>1 DEF Readable, Unread, Gone
<1>6. edges \subseteq edges' /\ edges' \subseteq Open
  BY <1>1 DEF ETInv, Base, Typed, Open
<1> QED  BY <1>1, <1>2, <1>3, <1>4, <1>5, <1>6, Elsewhere

\* send answers a client who is there, or is lost, or fails.
LEMMA Sending ==
  ASSUME ETInv, NEW w \in Workers, Send(w), UNCHANGED <<is_running, mainVars, events>>
  PROVE  Kept
<1>1. /\ wpc[w] = "send" /\ UNCHANGED <<queue, doing, interest, edges, errno, events>>
      /\ UNCHANGED <<is_running, mpc, ret>>
  BY DEF Send, etVars, mainVars
<1>2. PICK to \in {"finish", "close"} :
        /\ wpc' = [wpc EXCEPT ![w] = to]
        /\ \/ Sends(doing[w].fd, doing[w].chunks)
           \/ UNCHANGED sockVars
        /\ to = "close" => SendFails(doing[w].fd)
  BY DEF Send
<1>3. ServerSound' /\ UNCHANGED <<fdtab, backlog, peer, sent, got, reused>>
  BY <1>1, <1>2, SendOrFailSound DEF ETInv, Base
<1>4. AnsweredOnce' /\ OwnChunks'
  <2>1. CASE Sends(doing[w].fd, doing[w].chunks)
    BY <1>1, <1>2, <2>1, OnceSends, OwnSends DEF ETInv, Base
  <2>2. CASE UNCHANGED sockVars
    <3>1. UNCHANGED out
      BY <2>2 DEF sockVars
    <3>2. \A v \in Workers : Running(v)' => Running(v) /\ doing'[v] = doing[v]
      BY <1>1, <1>2 DEF Running, ETInv, Base, ServerSound, PoolSound
    <3>3. /\ \A c \in Conns : got[c] <= got'[c]
          /\ \A fd \in HeldFds : reused' \/ fdtab'[fd] \in {None, fdtab[fd]}
      BY <1>3, SocketsAssumption, SMTT(40) DEF ETInv, Base, ServerSound, SockTypeOK
    <3> QED  BY <1>1, <1>3, <3>1, <3>2, <3>3, OnceStays, OwnStays DEF ETInv, Base
  <2> QED  BY <1>2, <2>1, <2>2
<1>5. \A c \in Conns : Gone(c) => out'[c] = out[c]
  BY <1>2, Zenon DEF Sends, sockVars, Gone, ETInv, Base, ServerSound, SockTypeOK
<1>6. \A fd \in Fds : fdtab[fd] # None => fdtab[fd] \in Conns
  BY OpenIsConn DEF ETInv, Base, ServerSound
<1>7. \A v \in Workers : wpc'[v] = "close" =>
        /\ doing'[v] = doing[v]
        /\ wpc[v] = "close" \/ (wpc[v] = "send" /\ SendFails(doing[v].fd))
  BY <1>1, <1>2 DEF ETInv, Base, ServerSound, PoolSound
<1>8. /\ \A fd \in Fds : Readable(fd) => Readable(fd)'
      /\ \A c \in Conns : Gone(c) => Gone(c)'
  BY <1>3 DEF Readable, Unread, Gone
<1>9. edges \subseteq edges' /\ edges' \subseteq Open
  BY <1>1 DEF ETInv, Base, Typed, Open
<1> QED  BY <1>1, <1>3, <1>4, <1>5, <1>6, <1>7, <1>8, <1>9, Elsewhere

\* A worker whose send failed closes the number.
LEMMA Failing ==
  ASSUME ETInv, NEW w \in Workers, CloseFailed(w), UNCHANGED <<is_running, mainVars, events>>
  PROVE  Kept
<1>1. /\ wpc[w] = "close" /\ close_fd(doing[w].fd) /\ wpc' = [wpc EXCEPT ![w] = "finish"]
      /\ UNCHANGED <<queue, doing, errno>> /\ UNCHANGED <<is_running, mpc, ret>> /\ UNCHANGED events
  BY DEF CloseFailed, mainVars
<1>2. Closes({doing[w].fd})
  BY <1>1 DEF close_fd
<1>3. ServerSound' /\ doing[w].fd \in Fds
  BY <1>1, <1>2, WorkerClosesSound DEF ETInv, Base
<1>4. ETInv'
  <2>1. \A v \in Workers : (Running(v)' => Running(v)) /\ (wpc'[v] = "close" => wpc[v] = "close")
    BY <1>1 DEF Running, ETInv, Base, ServerSound, PoolSound
  <2>2. errno' \in {"EAGAIN", "other"}
    BY <1>1 DEF ETInv, Base, Typed, Open
  <2> QED  BY <1>1, <1>3, <2>1, <2>2, Closing
<1>5. ~reused => DropsNobody
  <2>1. ~reused /\ fdtab[doing[w].fd] # None => Gone(fdtab[doing[w].fd])
    BY <1>1 DEF ETInv, Base, FailedAreGone
  <2> QED  BY <1>2, <2>1, ClosesDropsNobody
<1> QED  BY <1>4, <1>5 DEF Kept

\* What a client does is a change of its number.
LEMMA ClientsMove ==
  ASSUME ETInv, Clients PROVE Kept
<1>1. PICK c \in Conns : Client(c) /\ edges' = edges \cup {fd \in Fds : fdtab[fd] = c}
  BY DEF Clients
<1>2. /\ UNCHANGED <<is_running, poolVars, mainVars>>
      /\ UNCHANGED <<interest, errno, events, mpc, ret>> /\ UNCHANGED <<queue, doing, wpc>>
  BY DEF Clients, mainVars, poolVars
<1>3. ServerSound' /\ UNCHANGED <<fdtab, got, out, reused>>
  BY <1>1, <1>2, ClientSound DEF ETInv, Base
<1>4. /\ \A fd \in Fds : Readable(fd) => Readable(fd)'
      /\ \A d \in Conns : Gone(d) => Gone(d)'
  BY <1>1, <1>2, ElsewhereKeeps DEF ETInv, Base
<1>5. AnsweredOnce' /\ OwnChunks'
  <2>1. /\ \A v \in Workers : Running(v)' => Running(v) /\ doing'[v] = doing[v]
        /\ \A d \in Conns : got[d] <= got'[d]
        /\ \A fd \in HeldFds : reused' \/ fdtab'[fd] \in {None, fdtab[fd]}
    BY <1>2, <1>3, SocketsAssumption DEF Running, ETInv, Base, ServerSound, SockTypeOK
  <2> QED  BY <1>2, <1>3, <2>1, OnceStays, OwnStays DEF ETInv, Base
<1>6. \A d \in Conns \ {c} : sent'[d] = sent[d] /\ peer'[d] = peer[d]
  BY <1>1 DEF Client, Connect, ClientSend, HangUp, Reset, ETInv, Base, ServerSound, SockTypeOK
<1>7. \A fd \in Fds : fdtab[fd] # None /\ fd \notin edges' => fdtab[fd] \in Conns \ {c}
  BY <1>1, OpenIsConn DEF ETInv, Base, ServerSound
<1>8. edges \subseteq edges' /\ edges' \subseteq Open
  BY <1>1, SocketsAssumption DEF ETInv, Base, Typed, Open
<1> QED  BY <1>2, <1>3, <1>4, <1>5, <1>6, <1>7, <1>8, Elsewhere

-----------------------------------------------------------------------------
(* Every step                                                              *)

\* No step leaves the invariant, or drops somebody who is still there.
LEMMA NextETInv ==
  ASSUME ETInv, ETNext PROVE Kept
<1>1. CASE EpollWait
  BY <1>1, Waits
<1>2. CASE \/ EpollFails \/ EndScan \/ DtorClose
           \/ /\ Lock \/ Unlock \/ Loop \/ Signal \/ HandlerReturns \/ DtorStop \/ DtorWait
              /\ UNCHANGED <<etVars, events>>
  BY <1>2, MainMoves
<1>3. CASE new_client
  BY <1>3, Accepting
<1>4. CASE client_communicate
  BY <1>4, Communicating, Disconnecting DEF client_communicate
<1>5. CASE \E w \in Workers : Pool(w)
  BY <1>5, Working, Sending, Failing DEF Pool
<1>6. CASE Clients
  BY <1>6, ClientsMove
<1>7. CASE Rest
  BY <1>7, StutterETInv DEF Rest
<1> QED  BY <1>1, <1>2, <1>3, <1>4, <1>5, <1>6, <1>7 DEF ETNext, ETMain, Interrupt

\* IInv is an invariant of the server.
THEOREM ETInductive == ETSpec => []ETInv
<1>1. ETInv /\ [ETNext]_serverVars => ETInv'
  BY NextETInv, StutterETInv DEF Kept
<1> QED  BY InitETInv, <1>1, PTL DEF ETSpec

-----------------------------------------------------------------------------
(* What follows                                                            *)

\* The variables keep their types.
THEOREM ETTypeCorrect == ETSpec => []ETTypeOK
<1>1. ETInv => ETTypeOK
  BY SoundIsTyped DEF ETInv, Base, Typed, Open, ETTypeOK
<1> QED  BY <1>1, ETInductive, PTL

\* Although two threads close numbers, every open client descriptor is registered
\* with epoll and nothing else is, and no change is pending for a closed one.
THEOREM ETRegistersOpen ==
  ETSpec => [](interest = {fd \in Fds : fdtab[fd] # None} /\ edges \subseteq interest)
<1>1. ETInv => interest = {fd \in Fds : fdtab[fd] # None} /\ edges \subseteq interest
  BY DEF ETInv, Base, Typed, Open
<1> QED  BY <1>1, ETInductive, PTL

\* Although a change is reported only once, and client_communicate and workers
\* close numbers meanwhile, every number with unread data is in the batch or will
\* be reported.
THEOREM StrandsNoData == ETSpec => []NoDataStranded
<1>1. ETInv => NoDataStranded
  BY DEF ETInv
<1> QED  BY <1>1, ETInductive, PTL

\* Nor is the hang-up of a client that was fully answered overlooked.
THEOREM StrandsNoHangUp == ETSpec => []NoHangUpStranded
<1>1. ETInv => NoHangUpStranded
  BY DEF ETInv
<1> QED  BY <1>1, ETInductive, PTL

\* Whoever gets them, no chunk is answered twice, and no answer is made up: what
\* the clients got, the workers have and the queue holds are different chunks, all
\* of them received.
THEOREM AnswersOnce == ETSpec => []AnsweredOnce
<1>1. ETInv => AnsweredOnce
  BY DEF ETInv
<1> QED  BY <1>1, ETInductive, PTL

\* errno tells a disconnection from data reliably enough that nobody who is still
\* there is hung up on, as long as no held number is given out again.
THEOREM ETDropsNoClient == ETSpec => NobodyDropped
<1>1. ETInv /\ [ETNext]_serverVars =>
        [~reused /\ mpc # "dtor_close" =>
           \A fd \in Fds : fdtab[fd] # None /\ ~Gone(fdtab[fd]) => fdtab'[fd] = fdtab[fd]]_sockVars
  BY NextETInv, StutterETInv DEF Kept, DropsNobody
<1> QED  BY <1>1, ETInductive, PTL DEF ETSpec, NobodyDropped
=============================================================================

------------------------------- MODULE Reactor -------------------------------
(***************************************************************************)
(* The reactor classes of multithread_reactor.cpp, single_reactor.cpp and  *)
(* reactor_server.cpp: event loops that dispatch to Channels, Connections  *)
(* that delete themselves, an Acceptor, and a pool that echoes.  What      *)
(* epoll returns is a Channel pointer, so an event names a Connection      *)
(* OBJECT, here the connection it was made for; the object uses its        *)
(* descriptor NUMBER.  Who runs which loop is left to the modules that use *)
(* this one.                                                               *)
(***************************************************************************)
EXTENDS Sockets

CONSTANTS
    Loops,       \* the EpollEventLoops, each run by a thread of its own
    Listener,    \* the Acceptor's Channel
    Workers      \* the pool's threads

ASSUME ReactorAssumption == Listener \notin Conns /\ None \notin Loops

VARIABLES
    number,      \* __fd of each Connection object, None before and after its life
    owner,       \* the loop a Connection was given to
    interest,    \* Channels registered with each loop's __epfd
    batch,       \* events of each loop not yet dispatched
    pc,          \* where each loop's thread is
    made,        \* the Connection a loop's thread is constructing or deleting
    queue,       \* callables in the pool: [fd, chunk]
    doing        \* the callable a worker runs, or None

poolVars == <<queue, doing>>
loopVars == <<interest, batch, pc, made>>
connVars == <<number, owner>>
reactorVars == <<sockVars, connVars, loopVars, poolVars>>

ReactorInit(acceptLoop) ==
    /\ SockInit
    /\ number = [c \in Conns |-> None] /\ owner = [c \in Conns |-> None]
    /\ interest = [l \in Loops |-> IF l = acceptLoop THEN {Listener} ELSE {}]
    /\ batch = [l \in Loops |-> {}]
    /\ pc = [l \in Loops |-> "wait"]
    /\ made = [l \in Loops |-> None]
    /\ queue = <<>> /\ doing = [w \in Workers |-> None]

ReactorTypeOK ==
    /\ SockTypeOK
    /\ number \in [Conns -> Fds \cup {None}] /\ owner \in [Conns -> Loops \cup {None}]
    /\ interest \in [Loops -> SUBSET (Conns \cup {Listener})]
    /\ batch \in [Loops -> SUBSET (Conns \cup {Listener})]
    /\ pc \in [Loops -> {"wait", "scan", "accept", "add", "delete"}]
    /\ made \in [Loops -> Conns \cup {None}]
    /\ queue \in Seq([fd : Fds, chunk : Chunks])
    /\ doing \in [Workers -> [fd : Fds, chunk : Chunks] \cup {None}]

\* The numbers that callables will still use.
HeldFds == {queue[i].fd : i \in DOMAIN queue}
             \cup {doing[w].fd : w \in {v \in Workers : doing[v] # None}}

Goes(l, from, to) == pc[l] = from /\ pc' = [pc EXCEPT ![l] = to]

-----------------------------------------------------------------------------
(* EpollEventLoop::loop                                                    *)

\* Level-triggered.
Ready(l) ==
    {ch \in interest[l] : IF ch = Listener THEN backlog # {} ELSE Unread(ch) \/ Gone(ch)}

EpollWait(l) ==
    /\ Ready(l) # {}
    /\ Goes(l, "wait", "scan")
    /\ batch' = [batch EXCEPT ![l] = Ready(l)]
    /\ UNCHANGED <<sockVars, connVars, poolVars, interest, made>>

EndScan(l) ==
    /\ batch[l] = {}
    /\ Goes(l, "scan", "wait")
    /\ UNCHANGED <<sockVars, connVars, poolVars, interest, batch, made>>

Dispatches(l, ch) == ch \in batch[l] /\ batch' = [batch EXCEPT ![l] = @ \ {ch}]

-----------------------------------------------------------------------------
(* Acceptor::HandleAccept                                                  *)

StartAccept(l) ==
    /\ Dispatches(l, Listener)
    /\ Goes(l, "scan", "accept")
    /\ UNCHANGED <<sockVars, connVars, poolVars, interest, made>>

\* accept, and the Connection's members up to AddChannel.
Accept(l, target) ==
    /\ \E c \in backlog, fd \in FreeFds :
         /\ Accepts(c, fd, HeldFds)
         /\ number' = [number EXCEPT ![c] = fd]
         /\ owner' = [owner EXCEPT ![c] = target]
         /\ made' = [made EXCEPT ![l] = c]
    /\ Goes(l, "accept", "add")
    /\ UNCHANGED <<interest, batch, poolVars>>

\* Mutant: the new Connection is registered with the accepting loop.
AddChannel_OwnLoop(l) ==
    /\ Goes(l, "add", "accept")
    /\ interest' = [interest EXCEPT ![l] = @ \cup {made[l]}]
    /\ made' = [made EXCEPT ![l] = None]
    /\ UNCHANGED <<sockVars, connVars, batch, poolVars>>

\* Mutant: it is registered with both.
AddChannel_Both(l) ==
    /\ Goes(l, "add", "accept")
    /\ interest' = [k \in Loops |-> IF k \in {l, owner[made[l]]} THEN interest[k] \cup {made[l]}
                                                             ELSE interest[k]]
    /\ made' = [made EXCEPT ![l] = None]
    /\ UNCHANGED <<sockVars, connVars, batch, poolVars>>

\* Mutant: it is not registered at all.
AddChannel_Missing(l) ==
    /\ Goes(l, "add", "accept")
    /\ made' = [made EXCEPT ![l] = None]
    /\ UNCHANGED <<sockVars, connVars, interest, batch, poolVars>>

\* AddChannel in the constructor: from now on the other thread may read, and
\* delete, the Connection.
AddChannel(l) ==
    /\ Goes(l, "add", "accept")
    /\ interest' = [interest EXCEPT ![owner[made[l]]] = @ \cup {made[l]}]
    /\ made' = [made EXCEPT ![l] = None]
    /\ UNCHANGED <<sockVars, connVars, batch, poolVars>>

\* accept returns -1: break.
EndAccept(l) ==
    /\ AcceptFails
    /\ Goes(l, "accept", "scan")
    /\ UNCHANGED <<sockVars, connVars, poolVars, interest, batch, made>>

-----------------------------------------------------------------------------
(* Connection::HandleRead                                                  *)

\* Mutant: the callable keeps the number of the chunk before.
Communicate_StaleBuffer(l, c) ==
    /\ pc[l] = "scan" /\ Dispatches(l, c)
    /\ Receives(number[c])
    /\ queue' = Append(queue, [fd |-> number[c], chunk |-> <<c, got[c]>>])
    /\ UNCHANGED <<connVars, interest, pc, made, doing>>

\* len > 0.
Communicate(l, c) ==
    /\ pc[l] = "scan" /\ Dispatches(l, c)
    /\ Receives(number[c])
    /\ queue' = Append(queue, [fd |-> number[c], chunk |-> NextChunk(number[c])])
    /\ UNCHANGED <<connVars, interest, pc, made, doing>>

\* len <= 0: DelChannel, by number.
DelChannel(l, c) ==
    /\ Dispatches(l, c)
    /\ EndOfStream(number[c])
    /\ Goes(l, "scan", "delete")
    /\ interest' = [interest EXCEPT ![l] = @ \ {fdtab[number[c]]}]
    /\ made' = [made EXCEPT ![l] = c]
    /\ UNCHANGED <<sockVars, connVars, poolVars>>

\* Mutant: the destructor does not close.
Delete_Leaks(l) ==
    /\ Goes(l, "delete", "scan")
    /\ number' = [number EXCEPT ![made[l]] = None]
    /\ made' = [made EXCEPT ![l] = None]
    /\ UNCHANGED <<sockVars, owner, interest, batch, poolVars>>

\* delete this: ~Connection closes the number, which would also end a
\* registration that is left.
Delete(l) ==
    /\ Goes(l, "delete", "scan")
    /\ Closes({number[made[l]]})
    /\ interest' = [k \in Loops |-> interest[k] \ {fdtab[number[made[l]]]}]
    /\ number' = [number EXCEPT ![made[l]] = None]
    /\ made' = [made EXCEPT ![l] = None]
    /\ UNCHANGED <<owner, batch, poolVars>>

HandleRead(l) == (\E c \in Conns : Communicate(l, c) \/ DelChannel(l, c)) \/ Delete(l)

-----------------------------------------------------------------------------
(* The pool                                                                *)

Take(w) ==
    /\ doing[w] = None /\ queue # <<>>
    /\ doing' = [doing EXCEPT ![w] = Head(queue)]
    /\ queue' = Tail(queue)
    /\ UNCHANGED <<sockVars, connVars, loopVars>>

\* send, whoever has the number by now; its result is ignored.
Respond(w) ==
    /\ doing[w] # None
    /\ \/ Sends(doing[w].fd, <<doing[w].chunk>>)
       \/ SendFails(doing[w].fd) /\ UNCHANGED sockVars
    /\ doing' = [doing EXCEPT ![w] = None]
    /\ UNCHANGED <<connVars, loopVars, queue>>

Pool(w) == Take(w) \/ Respond(w)

\* The clients are alike: it does not matter which connects next.
Clients ==
    /\ \/ LET strangers == {c \in Conns : peer[c] = "new"} IN
            strangers # {} /\ Connect(CHOOSE c \in strangers : TRUE)
       \/ \E c \in Conns : ClientSend(c) \/ HangUp(c) \/ Reset(c)
    /\ UNCHANGED <<connVars, loopVars, poolVars>>

-----------------------------------------------------------------------------
(* Properties                                                              *)

\* Connection objects that are fully constructed and not being deleted.
Alive == {c \in Conns : number[c] # None /\ \A l \in Loops : made[l] # c}

\* The objects, the descriptor table and the epoll sets agree: each open number
\* is one Connection's, each Connection is registered with its own loop and with
\* no other, and each registration is a Connection's (multithread_reactor.cpp:133).
Registered ==
    /\ \A fd \in Fds : fdtab[fd] # None => number[fdtab[fd]] = fd
    /\ \A c \in Conns : number[c] # None => fdtab[number[c]] = c
    /\ \A l \in Loops : interest[l] \ {Listener} = {c \in Alive : owner[c] = l}

\* An event that waits to be dispatched points to a Channel that exists: no loop
\* dispatches into a Connection that was deleted.
NoDanglingChannel == \A l \in Loops : batch[l] \ {Listener} \subseteq Alive

\* The clients do finitely many things, so what must happen in the end is stated
\* of the states in which the reactors stay.

\* A client that stays gets the answers to all it sent, whatever the others do,
\* unless a number a callable still held was given out again or the others hold
\* every descriptor there is.
AllAnswered ==
    <>[](\A c \in Conns :
           sent[c] = MaxChunks =>
             \/ Len(out[c]) = MaxChunks \/ Gone(c) \/ reused
             \/ c \in backlog /\ FreeFds = {})

\* The descriptor of a client that has gone is closed; it may go at any time.
GoneAreClosed == <>[](\A fd \in Fds : fdtab[fd] # None => ~Gone(fdtab[fd]))
=============================================================================

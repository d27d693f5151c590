---------------------------- MODULE ReactorsProof ----------------------------
(***************************************************************************)
(* Proofs about Reactors: for any number of clients, descriptors, workers  *)
(* and sub-reactors, the objects, the descriptor table and the epoll sets  *)
(* agree, and no loop dispatches into a Connection that was deleted; and   *)
(* no sub-reactor gets two connections more than another, if their number  *)
(* divides the range of the counter.                                       *)
(*                                                                         *)
(* A Connection that one thread is constructing or deleting must be no     *)
(* other thread's and in nobody's batch; that holds because an event is    *)
(* only ever in the batch of the loop that owns the Connection, which is   *)
(* the loop that deletes it.                                               *)
(***************************************************************************)
EXTENDS Reactors, SocketsProof

-----------------------------------------------------------------------------
(* The inductive invariant                                                 *)

\* A connection that is not accepted yet has no Connection object.
NotAcceptedYet ==
    \A c \in Conns : peer[c] = "new" \/ c \in backlog => number[c] = None
NewIsNotQueued == \A c \in Conns : c \in backlog => peer[c] # "new"

\* A thread has a Connection of its own while it constructs or deletes one, and
\* no two threads have the same.
OwnsMade ==
    /\ \A l \in Loops :
         IF pc[l] \in {"add", "delete"} THEN made[l] \in Conns /\ number[made[l]] # None
                                        ELSE made[l] = None
    /\ \A l, k \in Loops : made[l] # None /\ made[l] = made[k] => l = k

\* Every Connection was given to a loop.
HasOwner == \A c \in Conns : number[c] # None => owner[c] \in Loops

\* Only its own loop has events of a Connection.
OwnEvents == \A l \in Loops : \A c \in batch[l] \ {Listener} : c \in Alive /\ owner[c] = l

IInv ==
    /\ TypeOK /\ Registered
    /\ NotAcceptedYet /\ NewIsNotQueued /\ OwnsMade /\ HasOwner /\ OwnEvents

\* Everything of it that does not name the program: the steps of Reactor keep it.
Consistent ==
    /\ ReactorTypeOK /\ Registered
    /\ NotAcceptedYet /\ NewIsNotQueued /\ OwnsMade /\ HasOwner /\ OwnEvents

-----------------------------------------------------------------------------
(* The event loop                                                          *)

\* A loop's new batch has events of its own Connections only.
LEMMA EpollWaitKeeps ==
  ASSUME Consistent, NEW l \in Loops, EpollWait(l) PROVE Consistent'
<1> USE DEF EpollWait, Goes, sockVars, connVars, poolVars
<1>1. Ready(l) \subseteq interest[l]
  BY DEF Ready
<1>2. ReactorTypeOK'
  BY <1>1 DEF Consistent, ReactorTypeOK, SockTypeOK
<1>3. Registered' /\ NotAcceptedYet' /\ NewIsNotQueued' /\ HasOwner'
  BY DEF Consistent, Registered, Alive, NotAcceptedYet, NewIsNotQueued, HasOwner
<1>4. OwnsMade'
  BY DEF Consistent, OwnsMade, ReactorTypeOK
<1>5. OwnEvents'
  <2> SUFFICES ASSUME NEW k \in Loops, NEW c \in batch'[k] \ {Listener}
               PROVE  c \in Alive' /\ owner'[c] = k
    BY DEF OwnEvents
  <2>1. Alive' = Alive
    BY DEF Alive
  <2>2. CASE k = l
    BY <2>1, <2>2, <1>1 DEF Consistent, Registered, ReactorTypeOK
  <2>3. CASE k # l
    BY <2>1, <2>3 DEF Consistent, OwnEvents, ReactorTypeOK
  <2> QED  BY <2>2, <2>3
<1> QED  BY <1>2, <1>3, <1>4, <1>5 DEF Consistent

\* A loop that has dispatched its batch waits again.
LEMMA EndScanKeeps ==
  ASSUME Consistent, NEW l \in Loops, EndScan(l) PROVE Consistent'
<1> USE DEF EndScan, Goes, sockVars, connVars, poolVars
<1>1. ReactorTypeOK'
  BY DEF Consistent, ReactorTypeOK, SockTypeOK
<1>2. Registered' /\ NotAcceptedYet' /\ NewIsNotQueued' /\ HasOwner' /\ OwnEvents'
  BY DEF Consistent, Registered, Alive, NotAcceptedYet, NewIsNotQueued, HasOwner, OwnEvents
<1>3. OwnsMade'
  BY DEF Consistent, OwnsMade, ReactorTypeOK
<1> QED  BY <1>1, <1>2, <1>3 DEF Consistent

-----------------------------------------------------------------------------
(* The Acceptor                                                            *)

\* A loop that dispatches to the Acceptor has no Connection in the making.
LEMMA StartAcceptKeeps ==
  ASSUME Consistent, NEW l \in Loops, StartAccept(l) PROVE Consistent'
<1> USE DEF StartAccept, Dispatches, Goes, sockVars, connVars, poolVars
<1>1. ReactorTypeOK'
  BY DEF Consistent, ReactorTypeOK, SockTypeOK
<1>2. Registered' /\ NotAcceptedYet' /\ NewIsNotQueued' /\ HasOwner'
  BY DEF Consistent, Registered, Alive, NotAcceptedYet, NewIsNotQueued, HasOwner
<1>3. OwnsMade'
  BY DEF Consistent, OwnsMade, ReactorTypeOK
<1>4. OwnEvents'
  BY DEF Consistent, OwnEvents, Alive, ReactorTypeOK
<1> QED  BY <1>1, <1>2, <1>3, <1>4 DEF Consistent

\* accept returns -1: nothing is being constructed.
LEMMA EndAcceptKeeps ==
  ASSUME Consistent, NEW l \in Loops, EndAccept(l) PROVE Consistent'
<1> USE DEF EndAccept, Goes, sockVars, connVars, poolVars
<1>1. ReactorTypeOK'
  BY DEF Consistent, ReactorTypeOK, SockTypeOK
<1>2. Registered' /\ NotAcceptedYet' /\ NewIsNotQueued' /\ HasOwner' /\ OwnEvents'
  BY DEF Consistent, Registered, Alive, NotAcceptedYet, NewIsNotQueued, HasOwner, OwnEvents
<1>3. OwnsMade'
  BY DEF Consistent, OwnsMade, ReactorTypeOK
<1> QED  BY <1>1, <1>2, <1>3 DEF Consistent

\* The accepted connection had no Connection object, and the one that is made
\* now is not alive before it is registered.
LEMMA AcceptKeeps ==
  ASSUME Consistent, NEW l \in Loops, NEW target \in Loops, Accept(l, target)
  PROVE  Consistent'
<1>1. PICK c \in backlog, fd \in FreeFds :
        /\ Accepts(c, fd, HeldFds)
        /\ number' = [number EXCEPT ![c] = fd]
        /\ owner' = [owner EXCEPT ![c] = target]
        /\ made' = [made EXCEPT ![l] = c]
  BY DEF Accept
<1>2. /\ c \in Conns /\ fd \in Fds /\ fdtab[fd] = None
      /\ number[c] = None /\ peer[c] # "new"
  BY DEF Consistent, NotAcceptedYet, NewIsNotQueued, FreeFds, ReactorTypeOK, SockTypeOK
<1>3. /\ pc[l] = "accept" /\ pc' = [pc EXCEPT ![l] = "add"]
      /\ UNCHANGED <<interest, batch, queue, doing>>
      /\ fdtab' = [fdtab EXCEPT ![fd] = c] /\ backlog' = backlog \ {c} /\ peer' = peer
  BY <1>1 DEF Accept, Goes, poolVars, Accepts
<1>4. None \notin Conns /\ None \notin Fds
  BY SocketsAssumption DEF Fds
<1>5. made[l] = None /\ \A k \in Loops : made[k] # c
  BY <1>2, <1>3, <1>4 DEF Consistent, OwnsMade
<1>6. ReactorTypeOK'
  <2>1. SockTypeOK'
    BY <1>1, <1>2, AcceptsTypes DEF Consistent, ReactorTypeOK
  <2> QED  BY <2>1, <1>1, <1>2, <1>3 DEF Consistent, ReactorTypeOK
<1>7. Alive' = Alive
  <2> SUFFICES ASSUME NEW d \in Conns PROVE d \in Alive' <=> d \in Alive
    BY DEF Alive
  <2>1. CASE d = c
    BY <2>1, <1>1, <1>2 DEF Alive, Consistent, ReactorTypeOK
  <2>2. CASE d # c
    <3>1. number'[d] = number[d]
      BY <2>2, <1>1 DEF Consistent, ReactorTypeOK
    <3>2. (\A k \in Loops : made'[k] # d) <=> (\A k \in Loops : made[k] # d)
      BY <2>2, <1>1, <1>4, <1>5 DEF Consistent, ReactorTypeOK
    <3> QED  BY <3>1, <3>2 DEF Alive
  <2> QED  BY <2>1, <2>2
<1>8. c \notin Alive
  BY <1>2 DEF Alive
<1>9. Registered'
  <2>1. \A n \in Fds : fdtab'[n] # None => number'[fdtab'[n]] = n
    BY <1>1, <1>2, <1>3, <1>4 DEF Consistent, Registered, ReactorTypeOK, SockTypeOK
  <2>2. \A d \in Conns : number'[d] # None => fdtab'[number'[d]] = d
    BY <1>1, <1>2, <1>3, <1>4 DEF Consistent, Registered, ReactorTypeOK, SockTypeOK
  <2>3. \A k \in Loops : interest'[k] \ {Listener} = {d \in Alive' : owner'[d] = k}
    <3>1. \A d \in Alive : owner'[d] = owner[d]
      BY <1>1, <1>8 DEF Consistent, ReactorTypeOK, Alive
    <3> QED  BY <3>1, <1>3, <1>7 DEF Consistent, Registered
  <2> QED  BY <2>1, <2>2, <2>3 DEF Registered
<1>10. NotAcceptedYet' /\ NewIsNotQueued'
  BY <1>1, <1>2, <1>3 DEF Consistent, NotAcceptedYet, NewIsNotQueued, ReactorTypeOK, SockTypeOK
<1>11. OwnsMade'
  BY <1>1, <1>2, <1>3, <1>4, <1>5 DEF Consistent, OwnsMade, ReactorTypeOK
<1>12. HasOwner'
  BY <1>1, <1>2 DEF Consistent, HasOwner, ReactorTypeOK
<1>13. OwnEvents'
  BY <1>1, <1>3, <1>7, <1>8 DEF Consistent, OwnEvents, Alive, ReactorTypeOK
<1> QED  BY <1>6, <1>9, <1>10, <1>11, <1>12, <1>13 DEF Consistent

\* From here on the Connection is alive, and its own loop watches it.
LEMMA AddChannelKeeps ==
  ASSUME Consistent, NEW l \in Loops, AddChannel(l) PROVE Consistent'
<1> DEFINE c == made[l]
<1>1. /\ pc[l] = "add" /\ pc' = [pc EXCEPT ![l] = "accept"]
      /\ interest' = [interest EXCEPT ![owner[c]] = @ \cup {c}]
      /\ made' = [made EXCEPT ![l] = None]
      /\ UNCHANGED <<number, owner, batch, queue, doing>> /\ UNCHANGED sockVars
  BY DEF AddChannel, Goes, connVars, poolVars
<1>2. c \in Conns /\ number[c] # None /\ owner[c] \in Loops /\ c \notin Alive
  BY <1>1 DEF Consistent, OwnsMade, HasOwner, Alive
<1>3. \A k \in Loops : k # l => made[k] # c
  BY <1>2, SocketsAssumption DEF Consistent, OwnsMade
<1>4. None \notin Conns /\ c # Listener
  BY <1>2, SocketsAssumption, ReactorAssumption
<1>5. ReactorTypeOK'
  <2>1. SockTypeOK'
    BY <1>1, SockStutters DEF Consistent, ReactorTypeOK
  <2> QED  BY <2>1, <1>1, <1>2 DEF Consistent, ReactorTypeOK
<1>6. Alive' = Alive \cup {c}
  <2> SUFFICES ASSUME NEW d \in Conns PROVE d \in Alive' <=> d \in Alive \/ d = c
    BY <1>2 DEF Alive
  <2>1. CASE d = c
    BY <2>1, <1>1, <1>2, <1>3, <1>4 DEF Alive, Consistent, ReactorTypeOK
  <2>2. CASE d # c
    <3>1. (\A k \in Loops : made'[k] # d) <=> (\A k \in Loops : made[k] # d)
      BY <2>2, <1>1, <1>4 DEF Consistent, ReactorTypeOK
    <3> QED  BY <3>1, <2>2, <1>1 DEF Alive
  <2> QED  BY <2>1, <2>2
<1>7. Registered'
  <2> SUFFICES ASSUME NEW k \in Loops
               PROVE  interest'[k] \ {Listener} = {d \in Alive' : owner[d] = k}
    BY <1>1 DEF Consistent, Registered, sockVars
  <2>1. interest[k] \ {Listener} = {d \in Alive : owner[d] = k}
    BY DEF Consistent, Registered
  <2>2. CASE k = owner[c]
    <3>1. interest'[k] = interest[k] \cup {c}
      BY <2>2, <1>1 DEF Consistent, ReactorTypeOK
    <3> QED  BY <3>1, <2>1, <2>2, <1>4, <1>6
  <2>3. CASE k # owner[c]
    <3>1. interest'[k] = interest[k]
      BY <2>3, <1>1 DEF Consistent, ReactorTypeOK
    <3> QED  BY <3>1, <2>1, <2>3, <1>4, <1>6
  <2> QED  BY <2>2, <2>3
<1>8. NotAcceptedYet' /\ NewIsNotQueued' /\ HasOwner'
  BY <1>1 DEF Consistent, NotAcceptedYet, NewIsNotQueued, HasOwner, sockVars
<1>9. OwnsMade'
  BY <1>1, <1>3, <1>4 DEF Consistent, OwnsMade, ReactorTypeOK
<1>10. OwnEvents'
  BY <1>1, <1>6 DEF Consistent, OwnEvents
<1> QED  BY <1>5, <1>7, <1>8, <1>9, <1>10 DEF Consistent

-----------------------------------------------------------------------------
(* The Connections                                                         *)

\* The Connection that reads is alive, so what is submitted has its number and one
\* of its chunks.
LEMMA CommunicateKeeps ==
  ASSUME Consistent, NEW l \in Loops, NEW c \in Conns, Communicate(l, c)
  PROVE  Consistent'
<1> DEFINE fd == number[c]
<1>1. /\ pc[l] = "scan" /\ c \in batch[l] /\ batch' = [batch EXCEPT ![l] = @ \ {c}]
      /\ Receives(fd) /\ UNCHANGED <<fdtab, backlog, peer>>
      /\ queue' = Append(queue, [fd |-> fd, chunk |-> NextChunk(fd)])
      /\ UNCHANGED <<number, owner, interest, pc, made, doing>>
  BY DEF Communicate, Dispatches, connVars, Receives
<1>2. fd \in Fds /\ fdtab[fd] = c
  BY <1>1, ReactorAssumption DEF Consistent, OwnEvents, Alive, Registered, ReactorTypeOK
<1>3. NextChunk(fd) \in Chunks
  <2>1. Unread(fdtab[fd])
    BY <1>1 DEF Receives
  <2> QED  BY <2>1, <1>2, NextChunkType DEF Consistent, ReactorTypeOK
<1>4. SockTypeOK'
  BY <1>1, <1>2, ReceivesTypes DEF Consistent, ReactorTypeOK
<1>5. queue' \in Seq([fd : Fds, chunk : Chunks])
  BY <1>1, <1>2, <1>3 DEF Consistent, ReactorTypeOK
<1>6. ReactorTypeOK'
  BY <1>1, <1>4, <1>5 DEF Consistent, ReactorTypeOK
<1>7. Registered' /\ NotAcceptedYet' /\ NewIsNotQueued' /\ HasOwner' /\ OwnsMade'
  BY <1>1 DEF Consistent, Registered, Alive, NotAcceptedYet, NewIsNotQueued, HasOwner, OwnsMade
<1>8. OwnEvents'
  BY <1>1 DEF Consistent, OwnEvents, Alive, ReactorTypeOK
<1> QED  BY <1>6, <1>7, <1>8 DEF Consistent

\* The loop that deletes a Connection is the one that watched it.
LEMMA DelChannelKeeps ==
  ASSUME Consistent, NEW l \in Loops, NEW c \in Conns, DelChannel(l, c)
  PROVE  Consistent'
<1>1. /\ pc[l] = "scan" /\ pc' = [pc EXCEPT ![l] = "delete"]
      /\ c \in batch[l] /\ batch' = [batch EXCEPT ![l] = @ \ {c}]
      /\ interest' = [interest EXCEPT ![l] = @ \ {fdtab[number[c]]}]
      /\ made' = [made EXCEPT ![l] = c]
      /\ UNCHANGED <<number, owner, queue, doing>> /\ UNCHANGED sockVars
  BY DEF DelChannel, Dispatches, Goes, connVars, poolVars
<1>2. /\ c \in Alive /\ owner[c] = l /\ fdtab[number[c]] = c /\ c # Listener
      /\ made[l] = None /\ number[c] # None
  BY <1>1, ReactorAssumption DEF Consistent, OwnEvents, Registered, OwnsMade, Alive
<1>3. None \notin Conns
  BY SocketsAssumption
<1>4. ReactorTypeOK'
  <2>1. SockTypeOK'
    BY <1>1, SockStutters DEF Consistent, ReactorTypeOK
  <2> QED  BY <2>1, <1>1 DEF Consistent, ReactorTypeOK
<1>5. Alive' = Alive \ {c}
  <2> SUFFICES ASSUME NEW d \in Conns PROVE d \in Alive' <=> d \in Alive /\ d # c
    BY DEF Alive
  <2>1. CASE d = c
    BY <2>1, <1>1 DEF Alive, Consistent, ReactorTypeOK
  <2>2. CASE d # c
    <3>1. (\A k \in Loops : made'[k] # d) <=> (\A k \in Loops : made[k] # d)
      BY <2>2, <1>1, <1>2, <1>3 DEF Consistent, ReactorTypeOK
    <3> QED  BY <3>1, <2>2, <1>1 DEF Alive
  <2> QED  BY <2>1, <2>2
<1>6. Registered'
  <2> SUFFICES ASSUME NEW k \in Loops
               PROVE  interest'[k] \ {Listener} = {d \in Alive' : owner[d] = k}
    BY <1>1 DEF Consistent, Registered, sockVars
  <2>1. interest[k] \ {Listener} = {d \in Alive : owner[d] = k}
    BY DEF Consistent, Registered
  <2>2. CASE k = l
    <3>1. interest'[k] = interest[k] \ {c}
      BY <2>2, <1>1, <1>2 DEF Consistent, ReactorTypeOK
    <3> QED  BY <3>1, <2>1, <1>5
  <2>3. CASE k # l
    <3>1. interest'[k] = interest[k]
      BY <2>3, <1>1 DEF Consistent, ReactorTypeOK
    <3> QED  BY <3>1, <2>1, <2>3, <1>2, <1>5
  <2> QED  BY <2>2, <2>3
<1>7. NotAcceptedYet' /\ NewIsNotQueued' /\ HasOwner'
  BY <1>1 DEF Consistent, NotAcceptedYet, NewIsNotQueued, HasOwner, sockVars
<1>8. OwnsMade'
  BY <1>1, <1>2, <1>3 DEF Consistent, OwnsMade, Alive, ReactorTypeOK
<1>9. OwnEvents'
  <2> SUFFICES ASSUME NEW k \in Loops, NEW d \in batch'[k] \ {Listener}
               PROVE  d \in Alive' /\ owner[d] = k
    BY <1>1 DEF OwnEvents
  <2>1. d \in batch[k] \ {Listener} /\ (k = l => d # c)
    BY <1>1 DEF Consistent, ReactorTypeOK
  <2> QED  BY <2>1, <1>2, <1>5 DEF Consistent, OwnEvents
<1> QED  BY <1>4, <1>6, <1>7, <1>8, <1>9 DEF Consistent

\* Nothing in an epoll set or in a batch is the Connection that goes.
LEMMA DeleteKeeps ==
  ASSUME Consistent, NEW l \in Loops, Delete(l) PROVE Consistent'
<1> DEFINE c == made[l]  fd == number[c]
<1>1. /\ pc[l] = "delete" /\ pc' = [pc EXCEPT ![l] = "scan"]
      /\ Closes({fd})
      /\ fdtab' = [n \in Fds |-> IF n \in {fd} THEN None ELSE fdtab[n]]
      /\ interest' = [k \in Loops |-> interest[k] \ {fdtab[fd]}]
      /\ number' = [number EXCEPT ![c] = None]
      /\ made' = [made EXCEPT ![l] = None]
      /\ UNCHANGED <<owner, batch, queue, doing, backlog, peer>>
  BY DEF Delete, Goes, Closes, poolVars
<1>2. c \in Conns /\ fd # None /\ fdtab[fd] = c /\ c \notin Alive
  BY <1>1 DEF Consistent, OwnsMade, Registered, Alive
<1>3. None \notin Conns /\ c # Listener
  BY <1>2, SocketsAssumption, ReactorAssumption
<1>4. ReactorTypeOK'
  <2>1. SockTypeOK'
    BY <1>1, ClosesTypes DEF Consistent, ReactorTypeOK
  <2> QED  BY <2>1, <1>1 DEF Consistent, ReactorTypeOK
<1>5. Alive' = Alive
  <2> SUFFICES ASSUME NEW d \in Conns PROVE d \in Alive' <=> d \in Alive
    BY DEF Alive
  <2>1. CASE d = c
    BY <2>1, <1>1, <1>2 DEF Alive, Consistent, ReactorTypeOK
  <2>2. CASE d # c
    <3>1. (\A k \in Loops : made'[k] # d) <=> (\A k \in Loops : made[k] # d)
      BY <2>2, <1>1, <1>3 DEF Consistent, ReactorTypeOK
    <3> QED  BY <3>1, <2>2, <1>1 DEF Alive, Consistent, ReactorTypeOK
  <2> QED  BY <2>1, <2>2
<1>6. Registered'
  <2>1. \A n \in Fds : fdtab'[n] # None => number'[fdtab'[n]] = n
    BY <1>1, <1>2 DEF Consistent, Registered, ReactorTypeOK, SockTypeOK
  <2>2. \A d \in Conns : number'[d] # None => fdtab'[number'[d]] = d
    BY <1>1, <1>2 DEF Consistent, Registered, ReactorTypeOK, SockTypeOK
  <2>3. \A k \in Loops : interest'[k] \ {Listener} = {d \in Alive' : owner'[d] = k}
    BY <1>1, <1>2, <1>5 DEF Consistent, Registered
  <2> QED  BY <2>1, <2>2, <2>3 DEF Registered
<1>7. NotAcceptedYet' /\ NewIsNotQueued' /\ HasOwner'
  BY <1>1 DEF Consistent, NotAcceptedYet, NewIsNotQueued, HasOwner, ReactorTypeOK
<1>8. OwnsMade'
  BY <1>1, <1>2, <1>3 DEF Consistent, OwnsMade, ReactorTypeOK
<1>9. OwnEvents'
  BY <1>1, <1>5 DEF Consistent, OwnEvents
<1> QED  BY <1>4, <1>6, <1>7, <1>8, <1>9 DEF Consistent

-----------------------------------------------------------------------------
(* The pool and the clients                                                *)

\* What does not touch the objects, the epoll sets or the descriptor table only
\* has to keep the types.
LEMMA Untouched ==
  ASSUME Consistent, ReactorTypeOK',
         UNCHANGED <<connVars, loopVars, fdtab, backlog, peer>>
  PROVE  Consistent'
<1> USE DEF connVars, loopVars
<1>1. Registered' /\ OwnEvents'
  BY DEF Consistent, Registered, OwnEvents, Alive
<1>2. NotAcceptedYet' /\ NewIsNotQueued' /\ HasOwner' /\ OwnsMade'
  BY DEF Consistent, NotAcceptedYet, NewIsNotQueued, HasOwner, OwnsMade
<1> QED  BY <1>1, <1>2 DEF Consistent

\* A worker takes a callable from the queue.
LEMMA TakeKeeps ==
  ASSUME Consistent, NEW w \in Workers, Take(w) PROVE Consistent'
<1>1. /\ queue # <<>> /\ queue' = Tail(queue)
      /\ doing' = [doing EXCEPT ![w] = Head(queue)]
      /\ UNCHANGED <<connVars, loopVars>> /\ UNCHANGED sockVars
  BY DEF Take
<1>2. /\ Head(queue) \in [fd : Fds, chunk : Chunks]
      /\ Tail(queue) \in Seq([fd : Fds, chunk : Chunks])
  <2> DEFINE Callables == [fd : Fds, chunk : Chunks]
  <2>1. queue \in Seq(Callables)
    BY DEF Consistent, ReactorTypeOK
  <2> HIDE DEF Callables
  <2>2. Head(queue) \in Callables /\ Tail(queue) \in Seq(Callables)
    BY <1>1, <2>1
  <2> QED  BY <2>2 DEF Callables
<1>3. ReactorTypeOK'
  <2>1. SockTypeOK'
    BY <1>1, SockStutters DEF Consistent, ReactorTypeOK
  <2> QED  BY <2>1, <1>1, <1>2 DEF Consistent, ReactorTypeOK, connVars, loopVars
<1> QED  BY <1>1, <1>3, Untouched DEF sockVars

\* A worker's send reaches a client or fails; it touches no Connection.
LEMMA RespondKeeps ==
  ASSUME Consistent, NEW w \in Workers, Respond(w) PROVE Consistent'
<1>1. /\ doing[w] # None /\ doing' = [doing EXCEPT ![w] = None]
      /\ Sends(doing[w].fd, <<doing[w].chunk>>) \/ UNCHANGED sockVars
      /\ UNCHANGED <<connVars, loopVars, queue>>
  BY DEF Respond
<1>2. doing[w].fd \in Fds /\ doing[w].chunk \in Chunks
  BY <1>1 DEF Consistent, ReactorTypeOK
<1>3. <<doing[w].chunk>> \in Seq(Chunks)
  BY <1>2
<1>4. SockTypeOK' /\ UNCHANGED <<fdtab, backlog, peer>>
  <2>1. CASE UNCHANGED sockVars
    BY <2>1, SockStutters DEF Consistent, ReactorTypeOK, sockVars
  <2>2. CASE Sends(doing[w].fd, <<doing[w].chunk>>)
    BY <2>2, <1>2, <1>3, SendsTypes DEF Consistent, ReactorTypeOK, Sends
  <2> QED  BY <1>1, <2>1, <2>2
<1>5. ReactorTypeOK'
  BY <1>1, <1>4 DEF Consistent, ReactorTypeOK, connVars, loopVars
<1> QED  BY <1>1, <1>4, <1>5, Untouched

\* Only Connect changes what the objects depend on, and a client that connects
\* has no object.
LEMMA ClientsKeep ==
  ASSUME Consistent, Clients PROVE Consistent'
<1>1. PICK c \in Conns : Connect(c) \/ ClientSend(c) \/ HangUp(c) \/ Reset(c)
  BY DEF Clients
<1>2. UNCHANGED <<fdtab, number, owner, interest, batch, pc, made, queue, doing>>
  BY <1>1 DEF Clients, connVars, loopVars, poolVars, Connect, ClientSend, HangUp, Reset
<1>3. ReactorTypeOK'
  <2>1. SockTypeOK'
    BY <1>1, ClientTypes DEF Client, Consistent, ReactorTypeOK
  <2> QED  BY <2>1, <1>2 DEF Consistent, ReactorTypeOK
<1>4. NotAcceptedYet' /\ NewIsNotQueued'
  BY <1>1, <1>2 DEF Consistent, NotAcceptedYet, NewIsNotQueued, ReactorTypeOK, SockTypeOK,
                    Connect, ClientSend, HangUp, Reset
<1>5. Registered' /\ OwnEvents' /\ HasOwner' /\ OwnsMade'
  BY <1>2 DEF Consistent, Registered, Alive, OwnEvents, HasOwner, OwnsMade
<1> QED  BY <1>3, <1>4, <1>5 DEF Consistent

-----------------------------------------------------------------------------
(* The three programs                                                      *)

\* The counter stays an int, and what is made of it is the number of a
\* sub-reactor, also when the int is negative.
LEMMA IndexIsLoop ==
  ASSUME next_reactor \in 0..IntValues - 1
  PROVE  NextIndex \in Loops /\ (next_reactor + 1) % IntValues \in 0..IntValues - 1
<1>1. \A x, n \in Int : n > 0 => x % n \in 0..n - 1
  OBVIOUS
<1>2. ToSize(SignedInt(next_reactor)) \in Int
  BY MultiAssumption DEF ToSize, SignedInt
<1> QED  BY <1>1, <1>2, MultiAssumption DEF NextIndex

\* A reactor starts with no Connection and only the Acceptor's Channel registered.
LEMMA ReactorInitConsistent ==
  ASSUME NEW l \in Loops, ReactorInit(l) PROVE Consistent
<1>1. ReactorTypeOK
  <2>1. SockTypeOK
    BY SockInitTypes DEF ReactorInit
  <2>2. queue \in Seq([fd : Fds, chunk : Chunks])
    BY DEF ReactorInit
  <2> QED  BY <2>1, <2>2 DEF ReactorInit, ReactorTypeOK
<1>2. Registered
  BY DEF ReactorInit, SockInit, Registered, Alive
<1>3. NotAcceptedYet /\ NewIsNotQueued /\ OwnsMade /\ HasOwner /\ OwnEvents
  BY DEF ReactorInit, SockInit, NotAcceptedYet, NewIsNotQueued, OwnsMade, HasOwner, OwnEvents
<1> QED  BY <1>1, <1>2, <1>3 DEF Consistent

\* Single is about the same variables: its steps are those of Reactor.
LEMMA SingleSame ==
  /\ Single!ReactorInit(MainReactor) => ReactorInit(MainReactor)
  /\ Single!EpollWait(MainReactor) => EpollWait(MainReactor)
  /\ Single!EndScan(MainReactor) => EndScan(MainReactor)
  /\ Single!StartAccept(MainReactor) => StartAccept(MainReactor)
  /\ Single!Accept(MainReactor, MainReactor) => Accept(MainReactor, MainReactor)
  /\ Single!AddChannel(MainReactor) => AddChannel(MainReactor)
  /\ Single!EndAccept(MainReactor) => EndAccept(MainReactor)
  /\ \A c \in Conns : Single!Communicate(MainReactor, c) => Communicate(MainReactor, c)
  /\ \A c \in Conns : Single!DelChannel(MainReactor, c) => DelChannel(MainReactor, c)
  /\ Single!Delete(MainReactor) => Delete(MainReactor)
<1> USE DEF Single!Goes, Goes, Single!sockVars, sockVars, Single!connVars, connVars,
            Single!poolVars, poolVars, Single!Dispatches, Dispatches, Single!Fds, Fds,
            Single!FreeFds, FreeFds
<1>1. Single!ReactorInit(MainReactor) => ReactorInit(MainReactor)
  BY DEF Single!ReactorInit, ReactorInit, Single!SockInit, SockInit
<1>2. Single!EpollWait(MainReactor) => EpollWait(MainReactor)
  BY DEF Single!EpollWait, EpollWait, Single!Ready, Ready, Single!Unread, Unread, Single!Gone, Gone
<1>3. Single!EndScan(MainReactor) => EndScan(MainReactor)
  BY DEF Single!EndScan, EndScan
<1>4. Single!StartAccept(MainReactor) => StartAccept(MainReactor)
  BY DEF Single!StartAccept, StartAccept
<1>5. Single!Accept(MainReactor, MainReactor) => Accept(MainReactor, MainReactor)
  BY DEF Single!Accept, Accept, Single!Accepts, Accepts, Single!HeldFds, HeldFds, Single!Min, Min
<1>6. Single!AddChannel(MainReactor) => AddChannel(MainReactor)
  BY DEF Single!AddChannel, AddChannel
<1>7. Single!EndAccept(MainReactor) => EndAccept(MainReactor)
  BY DEF Single!EndAccept, EndAccept, Single!AcceptFails, AcceptFails
<1>8. \A c \in Conns : Single!Communicate(MainReactor, c) => Communicate(MainReactor, c)
  BY DEF Single!Communicate, Communicate, Single!Receives, Receives, Single!Unread, Unread,
         Single!NextChunk, NextChunk
<1>9. \A c \in Conns : Single!DelChannel(MainReactor, c) => DelChannel(MainReactor, c)
  BY DEF Single!DelChannel, DelChannel, Single!EndOfStream, EndOfStream, Single!Unread, Unread,
         Single!Gone, Gone
<1>10. Single!Delete(MainReactor) => Delete(MainReactor)
  BY DEF Single!Delete, Delete, Single!Closes, Closes
<1> QED  BY <1>1, <1>2, <1>3, <1>4, <1>5, <1>6, <1>7, <1>8, <1>9, <1>10

\* Server is about the same variables: its steps are those of Reactor.
LEMMA ServerSame ==
  /\ Server!ReactorInit(MainReactor) => ReactorInit(MainReactor)
  /\ Server!EpollWait(MainReactor) => EpollWait(MainReactor)
  /\ Server!EndScan(MainReactor) => EndScan(MainReactor)
  /\ Server!StartAccept(MainReactor) => StartAccept(MainReactor)
  /\ Server!Accept(MainReactor, MainReactor) => Accept(MainReactor, MainReactor)
  /\ Server!AddChannel(MainReactor) => AddChannel(MainReactor)
  /\ Server!EndAccept(MainReactor) => EndAccept(MainReactor)
  /\ \A c \in Conns : Server!Communicate(MainReactor, c) => Communicate(MainReactor, c)
  /\ \A c \in Conns : Server!DelChannel(MainReactor, c) => DelChannel(MainReactor, c)
  /\ Server!Delete(MainReactor) => Delete(MainReactor)
<1> USE DEF Server!Goes, Goes, Server!sockVars, sockVars, Server!connVars, connVars,
            Server!poolVars, poolVars, Server!Dispatches, Dispatches, Server!Fds, Fds,
            Server!FreeFds, FreeFds
<1>1. Server!ReactorInit(MainReactor) => ReactorInit(MainReactor)
  BY DEF Server!ReactorInit, ReactorInit, Server!SockInit, SockInit
<1>2. Server!EpollWait(MainReactor) => EpollWait(MainReactor)
  BY DEF Server!EpollWait, EpollWait, Server!Ready, Ready, Server!Unread, Unread, Server!Gone, Gone
<1>3. Server!EndScan(MainReactor) => EndScan(MainReactor)
  BY DEF Server!EndScan, EndScan
<1>4. Server!StartAccept(MainReactor) => StartAccept(MainReactor)
  BY DEF Server!StartAccept, StartAccept
<1>5. Server!Accept(MainReactor, MainReactor) => Accept(MainReactor, MainReactor)
  BY DEF Server!Accept, Accept, Server!Accepts, Accepts, Server!HeldFds, HeldFds, Server!Min, Min
<1>6. Server!AddChannel(MainReactor) => AddChannel(MainReactor)
  BY DEF Server!AddChannel, AddChannel
<1>7. Server!EndAccept(MainReactor) => EndAccept(MainReactor)
  BY DEF Server!EndAccept, EndAccept, Server!AcceptFails, AcceptFails
<1>8. \A c \in Conns : Server!Communicate(MainReactor, c) => Communicate(MainReactor, c)
  BY DEF Server!Communicate, Communicate, Server!Receives, Receives, Server!Unread, Unread,
         Server!NextChunk, NextChunk
<1>9. \A c \in Conns : Server!DelChannel(MainReactor, c) => DelChannel(MainReactor, c)
  BY DEF Server!DelChannel, DelChannel, Server!EndOfStream, EndOfStream, Server!Unread, Unread,
         Server!Gone, Gone
<1>10. Server!Delete(MainReactor) => Delete(MainReactor)
  BY DEF Server!Delete, Delete, Server!Closes, Closes
<1> QED  BY <1>1, <1>2, <1>3, <1>4, <1>5, <1>6, <1>7, <1>8, <1>9, <1>10

\* Each of the three programs starts in the invariant.
LEMMA IInvInit == InitAny => IInv
<1> SUFFICES ASSUME InitAny PROVE IInv
  OBVIOUS
<1>1. MainReactor \in Loops /\ 0 \in 0..IntValues - 1
  BY MultiAssumption
<1>2. ReactorInit(MainReactor) /\ next_reactor \in 0..IntValues - 1
  BY <1>1, SingleSame, ServerSame DEF InitAny, Init, Single!Init, Server!Init
<1>3. Consistent
  BY <1>1, <1>2, ReactorInitConsistent
<1> QED  BY <1>2, <1>3 DEF IInv, Consistent, TypeOK, InitAny

\* What a loop's thread does apart from accepting.
LEMMA LoopKeeps ==
  ASSUME Consistent, NEW l \in Loops, EpollWait(l) \/ EndScan(l) \/ HandleRead(l)
  PROVE  Consistent'
  BY EpollWaitKeeps, EndScanKeeps, CommunicateKeeps, DelChannelKeeps, DeleteKeeps DEF HandleRead

\* Each step of each program is one of the steps above.
LEMMA IInvNext == IInv /\ [Next]_vars => IInv'
<1> SUFFICES ASSUME IInv, [Next]_vars PROVE IInv'
  OBVIOUS
<1>1. Consistent /\ next_reactor \in 0..IntValues - 1
      /\ program \in {"multithread_reactor", "single_reactor", "reactor_server"}
  BY DEF IInv, Consistent, TypeOK
<1>2. MainReactor \in Loops
  BY MultiAssumption
<1>3. Consistent' /\ next_reactor' \in 0..IntValues - 1 /\ program' = program
  <2>1. ASSUME NEW l \in Loops, Thread(l)
        PROVE  Consistent' /\ next_reactor' \in 0..IntValues - 1 /\ program' = program
    <3>1. CASE program = "multithread_reactor" /\ Loop(l)
      <4>1. CASE HandleAccept /\ l = MainReactor
        BY <1>1, <1>2, <4>1, <2>1, IndexIsLoop, AcceptKeeps, StartAcceptKeeps, AddChannelKeeps,
           EndAcceptKeeps DEF HandleAccept, Thread
      <4>2. CASE (EpollWait(l) \/ EndScan(l) \/ HandleRead(l)) /\ UNCHANGED next_reactor
        BY <1>1, <2>1, <4>2, LoopKeeps DEF Thread
      <4> QED  BY <3>1, <4>1, <4>2 DEF Loop
    <3>2. CASE l = MainReactor /\ Single!loop /\ UNCHANGED next_reactor
      <4>1. \/ EpollWait(l) \/ EndScan(l) \/ HandleRead(l)
            \/ StartAccept(l) \/ Accept(l, l) \/ AddChannel(l) \/ EndAccept(l)
        BY <3>2, SingleSame DEF Single!loop, Single!HandleAccept, Single!ConnectionReads,
                                Single!HandleRead, HandleRead
      <4> QED  BY <1>1, <2>1, <3>2, <4>1, LoopKeeps, AcceptKeeps, StartAcceptKeeps,
                  AddChannelKeeps, EndAcceptKeeps DEF Thread
    <3>3. CASE l = MainReactor /\ Server!loop /\ UNCHANGED next_reactor
      <4>1. \/ EpollWait(l) \/ EndScan(l) \/ HandleRead(l)
            \/ StartAccept(l) \/ Accept(l, l) \/ AddChannel(l) \/ EndAccept(l)
        BY <3>3, ServerSame DEF Server!loop, Server!handleAccept, Server!handleRead,
                                Server!Echo, Server!Disconnect, HandleRead
      <4> QED  BY <1>1, <2>1, <3>3, <4>1, LoopKeeps, AcceptKeeps, StartAcceptKeeps,
                  AddChannelKeeps, EndAcceptKeeps DEF Thread
    <3> QED  BY <2>1, <3>1, <3>2, <3>3 DEF Thread
  <2>2. ASSUME NEW w \in Workers, Worker(w)
        PROVE  Consistent' /\ next_reactor' \in 0..IntValues - 1 /\ program' = program
    BY <1>1, <2>2, TakeKeeps, RespondKeeps DEF Worker, Pool
  <2>3. CASE Clients /\ UNCHANGED <<next_reactor, program>>
    BY <1>1, <2>3, ClientsKeep
  <2>4. CASE UNCHANGED vars
    <3>1. UNCHANGED <<connVars, loopVars, poolVars, next_reactor, program>> /\ UNCHANGED sockVars
      BY <2>4 DEF vars, reactorVars
    <3>2. ReactorTypeOK'
      BY <1>1, <3>1, SockStutters DEF Consistent, ReactorTypeOK, connVars, loopVars, poolVars
    <3> QED  BY <1>1, <3>1, <3>2, Untouched DEF sockVars
  <2> QED  BY <2>1, <2>2, <2>3, <2>4 DEF Next
<1> QED  BY <1>1, <1>3 DEF IInv, Consistent, TypeOK

\* The inductive invariant holds of the three programs.
LEMMA IInvariant == Spec => []IInv
  BY IInvInit, IInvNext, PTL DEF Spec

-----------------------------------------------------------------------------
(* Dealing connections out in turn                                         *)

\* The number of sub-reactors divides the ranges of int and of size_t: it is a
\* power of two.
WrapsEvenly == IntValues % SubReactors = 0 /\ SizeValues % SubReactors = 0

\* A connection that was not accepted yet was given to nobody.
NotGivenYet == \A c \in Conns : peer[c] = "new" \/ c \in backlog => owner[c] = None

\* The connections that were given to a loop, and the sub-reactors whose turn it
\* has been since that of first, when it is next's now.
Given(l) == {c \in Conns : owner[c] = l}
HadTurn(l, first, next) == IF first <= next THEN first <= l /\ l < next ELSE first <= l \/ l < next

\* After a number of full rounds, which began with first, those have one more
\* whose turn has come in this one.
Dealt(first, rounds) ==
    \A l \in 0..SubReactors - 1 :
      /\ IsFiniteSet(Given(l))
      /\ Cardinality(Given(l)) = IF HadTurn(l, first, NextIndex) THEN rounds + 1 ELSE rounds

InTurn == \E first \in 0..SubReactors - 1, rounds \in Nat : Dealt(first, rounds)

\* Division leaves a rest, and only one.
LEMMA RestExists ==
  ASSUME NEW x \in Int, NEW n \in Int, n > 0
  PROVE  \E q \in Int : x = n * q + (x % n)
  OBVIOUS

\* Without a rest it is a multiple.
LEMMA NoRest ==
  ASSUME NEW x \in Int, NEW n \in Int, n > 0, x % n = 0
  PROVE  \E q \in Int : x = n * q
<1>1. PICK q \in Int : x = n * q + (x % n)
  BY RestExists
<1>2. n * q \in Int
  OBVIOUS
<1>3. x = n * q
  BY <1>1, <1>2
<1> QED  BY <1>3

\* The rest is smaller than the divisor, also that of a negative number.
LEMMA RestInRange ==
  ASSUME NEW x \in Int, NEW n \in Int, n > 0
  PROVE  x % n \in 0..n - 1
  OBVIOUS

\* A number leaves one rest only.
LEMMA OneRest ==
  ASSUME NEW n \in Nat, n > 0, NEW q \in Int, NEW p \in Int,
         NEW r \in 0..n - 1, NEW s \in 0..n - 1, n * q + r = n * p + s
  PROVE  r = s
<1>1. (n * q + r) % n = r
  OBVIOUS
<1>2. (n * p + s) % n = s
  OBVIOUS
<1> QED  BY <1>1, <1>2

\* The index is the rest of the counter itself, negative or not.
RestOfCounter ==
  NextIndex \in 0..SubReactors - 1 /\ \E q \in Int : next_reactor = SubReactors * q + NextIndex
IsInt == next_reactor \in 0..IntValues - 1

\* NextIndex is the rest of the stored bits, whatever int and size_t make of them.
LEMMA IndexIsRest == WrapsEvenly /\ IsInt => RestOfCounter
<1> SUFFICES ASSUME WrapsEvenly, next_reactor \in 0..IntValues - 1
             PROVE  NextIndex \in 0..SubReactors - 1
                    /\ \E q \in Int : next_reactor = SubReactors * q + NextIndex
  BY DEF RestOfCounter, IsInt
<1> DEFINE v == ToSize(SignedInt(next_reactor))
<1>1. /\ SubReactors \in Nat /\ SubReactors > 0 /\ IntValues \in Nat \ {0} /\ SizeValues \in Nat
      /\ next_reactor \in Int
  BY MultiAssumption
<1>2. v \in Int /\ (v = next_reactor \/ v = next_reactor - IntValues + SizeValues)
  BY <1>1 DEF ToSize, SignedInt
<1>3. NextIndex = v % SubReactors
  BY DEF NextIndex
<1> HIDE DEF v
<1>4. NextIndex \in 0..SubReactors - 1 /\ \E q \in Int : v = SubReactors * q + NextIndex
  BY <1>1, <1>2, <1>3, RestExists, RestInRange
<1>5. PICK q \in Int : v = SubReactors * q + NextIndex
  BY <1>4
<1>6. PICK i \in Int : IntValues = SubReactors * i
  BY <1>1, NoRest DEF WrapsEvenly
<1>7. PICK j \in Int : SizeValues = SubReactors * j
  BY <1>1, NoRest DEF WrapsEvenly
<1>8. CASE v = next_reactor
  BY <1>4, <1>5, <1>8
<1>9. CASE v = next_reactor - IntValues + SizeValues
  <2>1. next_reactor = SubReactors * q + NextIndex + SubReactors * i - SubReactors * j
    BY <1>1, <1>4, <1>5, <1>6, <1>7, <1>9
  <2>2. /\ SubReactors * (q + i - j) = SubReactors * q + SubReactors * i - SubReactors * j
        /\ q + i - j \in Int
    BY <1>1
  <2>3. next_reactor = SubReactors * (q + i - j) + NextIndex
    BY <1>1, <1>4, <2>1, <2>2
  <2> QED  BY <1>4, <2>2, <2>3
<1> QED  BY <1>2, <1>8, <1>9

\* With each connection the index goes on to the next sub-reactor, or from the
\* last to the first, also where the counter wraps around.
LEMMA NextTurn ==
  ASSUME WrapsEvenly, next_reactor \in 0..IntValues - 1,
         next_reactor' = (next_reactor + 1) % IntValues
  PROVE  /\ NextIndex \in 0..SubReactors - 1
         /\ NextIndex' = IF NextIndex = SubReactors - 1 THEN 0 ELSE NextIndex + 1
<1>1. /\ SubReactors \in Nat /\ SubReactors > 0 /\ IntValues \in Nat \ {0}
      /\ next_reactor \in Int
  BY MultiAssumption
<1>2. /\ next_reactor' \in 0..IntValues - 1
      /\ next_reactor' = next_reactor + 1 \/ next_reactor' = next_reactor + 1 - IntValues
  BY <1>1
<1>3. RestOfCounter /\ RestOfCounter'
  <2>1. IsInt /\ IsInt' /\ WrapsEvenly /\ WrapsEvenly'
    BY <1>2 DEF IsInt, WrapsEvenly
  <2> QED  BY <2>1, IndexIsRest, PTL
<1> DEFINE r == NextIndex  s == NextIndex'
<1>4. r \in 0..SubReactors - 1 /\ s \in 0..SubReactors - 1
  BY <1>3 DEF RestOfCounter
<1>5. PICK q \in Int : next_reactor = SubReactors * q + r
  BY <1>3 DEF RestOfCounter
<1>6. PICK p \in Int : next_reactor' = SubReactors * p + s
  BY <1>3 DEF RestOfCounter
<1>7. PICK i \in Int : IntValues = SubReactors * i
  BY <1>1, NoRest DEF WrapsEvenly
<1> HIDE DEF r, s
<1>8. \E k \in Int : next_reactor + 1 = SubReactors * k + s
  <2>1. CASE next_reactor' = next_reactor + 1
    BY <1>6, <2>1
  <2>2. CASE next_reactor' = next_reactor + 1 - IntValues
    <3>1. SubReactors * (p + i) = SubReactors * p + SubReactors * i /\ p + i \in Int
      BY <1>1
    <3>2. next_reactor + 1 = SubReactors * (p + i) + s
      BY <1>1, <1>4, <1>6, <1>7, <2>2, <3>1
    <3> QED  BY <3>1, <3>2
  <2> QED  BY <1>2, <2>1, <2>2
<1>9. PICK k \in Int : SubReactors * q + r + 1 = SubReactors * k + s
  BY <1>5, <1>8
<1>10. CASE r = SubReactors - 1
  <2>1. SubReactors * (q + 1) = SubReactors * q + SubReactors /\ q + 1 \in Int
    BY <1>1
  <2>2. SubReactors * (q + 1) + 0 = SubReactors * k + s
    BY <1>1, <1>4, <1>9, <1>10, <2>1
  <2>3. s = 0
    BY <1>1, <1>4, <2>1, <2>2, OneRest
  <2> QED  BY <1>4, <1>10, <2>3 DEF r, s
<1>11. CASE r # SubReactors - 1
  <2>1. r + 1 \in 0..SubReactors - 1
    BY <1>1, <1>4, <1>11
  <2>2. SubReactors * q + (r + 1) = SubReactors * k + s
    BY <1>1, <1>4, <1>9
  <2>3. s = r + 1
    BY <1>1, <1>4, <2>1, <2>2, OneRest
  <2> QED  BY <1>4, <1>11, <2>3 DEF r, s
<1> QED  BY <1>10, <1>11

\* Only accept gives a connection to a loop.
LEMMA OthersGiveNone ==
  ASSUME NotGivenYet, NEW l \in Loops,
         \/ EpollWait(l) \/ EndScan(l) \/ HandleRead(l)
         \/ StartAccept(l) \/ AddChannel(l) \/ EndAccept(l)
  PROVE  UNCHANGED owner /\ NotGivenYet'
<1>1. UNCHANGED <<owner, backlog, peer>>
  BY DEF EpollWait, EndScan, HandleRead, StartAccept, AddChannel, EndAccept, Communicate,
         DelChannel, Delete, Receives, Closes, sockVars, connVars
<1> QED  BY <1>1 DEF NotGivenYet

\* It gives one that nobody had.
LEMMA AcceptGivesOne ==
  ASSUME Consistent, NotGivenYet, NEW l \in Loops, NEW target \in Loops, Accept(l, target)
  PROVE  /\ \E c \in Conns : owner[c] = None /\ owner' = [owner EXCEPT ![c] = target]
         /\ NotGivenYet'
<1>1. PICK c \in backlog, fd \in FreeFds :
        Accepts(c, fd, HeldFds) /\ owner' = [owner EXCEPT ![c] = target]
  BY DEF Accept
<1>2. c \in Conns /\ owner[c] = None /\ peer[c] # "new"
  BY DEF Consistent, ReactorTypeOK, SockTypeOK, NewIsNotQueued, NotGivenYet
<1>3. backlog' = backlog \ {c} /\ peer' = peer
  BY <1>1 DEF Accepts
<1>4. NotGivenYet'
  BY <1>1, <1>2, <1>3 DEF NotGivenYet, Consistent, ReactorTypeOK
<1> QED  BY <1>1, <1>2, <1>4

\* Either no connection is given to a sub-reactor, or one to the sub-reactor
\* whose turn it is.
NoneDealt == UNCHANGED next_reactor /\ \A l \in 0..SubReactors - 1 : Given(l)' = Given(l)
OneDealt ==
    /\ next_reactor' = (next_reactor + 1) % IntValues
    /\ \E c \in Conns : owner[c] = None /\ owner' = [owner EXCEPT ![c] = NextIndex]

\* The program with one loop gives its connections to that loop.
LEMMA OwnLoopDealsNone ==
  ASSUME Consistent, NotGivenYet, UNCHANGED next_reactor,
         LET l == MainReactor IN
           \/ EpollWait(l) \/ EndScan(l) \/ HandleRead(l)
           \/ StartAccept(l) \/ Accept(l, l) \/ AddChannel(l) \/ EndAccept(l)
  PROVE  NoneDealt /\ NotGivenYet'
<1>1. MainReactor \in Loops /\ \A l \in 0..SubReactors - 1 : l # MainReactor /\ l # None
  BY MultiAssumption, ReactorAssumption
<1>2. CASE Accept(MainReactor, MainReactor)
  <2>1. PICK c \in Conns : owner[c] = None /\ owner' = [owner EXCEPT ![c] = MainReactor]
    BY <1>1, <1>2, AcceptGivesOne
  <2>2. NotGivenYet'
    BY <1>1, <1>2, AcceptGivesOne
  <2>3. ASSUME NEW l \in 0..SubReactors - 1 PROVE Given(l)' = Given(l)
    BY <1>1, <2>1 DEF Given, Consistent, ReactorTypeOK
  <2> QED  BY <2>2, <2>3 DEF NoneDealt
<1>3. CASE ~Accept(MainReactor, MainReactor)
  BY <1>1, <1>3, OthersGiveNone DEF NoneDealt, Given
<1> QED  BY <1>2, <1>3

\* Every step of the three programs gives no connection to a sub-reactor, or one to
\* the sub-reactor whose turn it is.
LEMMA DealStep ==
  ASSUME IInv, NotGivenYet, [Next]_vars
  PROVE  (NoneDealt \/ OneDealt) /\ NotGivenYet'
<1>1. Consistent /\ next_reactor \in 0..IntValues - 1
  BY DEF IInv, Consistent, TypeOK
<1>2. MainReactor \in Loops
  BY MultiAssumption
<1>3. ASSUME NEW l \in Loops, Thread(l) PROVE (NoneDealt \/ OneDealt) /\ NotGivenYet'
  <2>1. CASE program = "multithread_reactor" /\ Loop(l)
    <3>1. CASE l = MainReactor /\ Accept(MainReactor, NextIndex)
               /\ next_reactor' = (next_reactor + 1) % IntValues
      BY <1>1, <1>2, <3>1, IndexIsLoop, AcceptGivesOne DEF OneDealt
    <3>2. CASE UNCHANGED next_reactor /\
               \/ EpollWait(l) \/ EndScan(l) \/ HandleRead(l)
               \/ StartAccept(l) \/ AddChannel(l) \/ EndAccept(l)
      BY <3>2, OthersGiveNone DEF NoneDealt, Given
    <3> QED  BY <2>1, <3>1, <3>2 DEF Loop, HandleAccept
  <2>2. CASE l = MainReactor /\ Single!loop /\ UNCHANGED next_reactor
    <3>1. \/ EpollWait(l) \/ EndScan(l) \/ HandleRead(l)
          \/ StartAccept(l) \/ Accept(l, l) \/ AddChannel(l) \/ EndAccept(l)
      BY <2>2, SingleSame DEF Single!loop, Single!HandleAccept, Single!ConnectionReads,
                              Single!HandleRead, HandleRead
    <3> QED  BY <1>1, <2>2, <3>1, OwnLoopDealsNone
  <2>3. CASE l = MainReactor /\ Server!loop /\ UNCHANGED next_reactor
    <3>1. \/ EpollWait(l) \/ EndScan(l) \/ HandleRead(l)
          \/ StartAccept(l) \/ Accept(l, l) \/ AddChannel(l) \/ EndAccept(l)
      BY <2>3, ServerSame DEF Server!loop, Server!handleAccept, Server!handleRead,
                              Server!Echo, Server!Disconnect, HandleRead
    <3> QED  BY <1>1, <2>3, <3>1, OwnLoopDealsNone
  <2> QED  BY <1>3, <2>1, <2>2, <2>3 DEF Thread
<1>4. CASE UNCHANGED <<owner, backlog, peer, next_reactor>>
  BY <1>4 DEF NoneDealt, Given, NotGivenYet
<1>5. ASSUME NEW w \in Workers, Worker(w) PROVE UNCHANGED <<owner, backlog, peer, next_reactor>>
  BY <1>5, Zenon DEF Worker, Pool, Take, Respond, Sends, sockVars, connVars
<1>6. CASE Clients /\ UNCHANGED <<next_reactor, program>>
  <2>1. PICK c \in Conns : Connect(c) \/ ClientSend(c) \/ HangUp(c) \/ Reset(c)
    BY <1>6 DEF Clients
  <2>2. UNCHANGED owner
    BY <1>6 DEF Clients, connVars
  <2>3. NotGivenYet'
    BY <1>1, <2>1, <2>2 DEF NotGivenYet, Consistent, ReactorTypeOK, SockTypeOK,
                            Connect, ClientSend, HangUp, Reset
  <2> QED  BY <1>6, <2>2, <2>3 DEF NoneDealt, Given
<1>7. CASE UNCHANGED vars
  BY <1>4, <1>7 DEF vars, reactorVars, sockVars, connVars
<1> QED  BY <1>3, <1>4, <1>5, <1>6, <1>7 DEF Next

\* A round that is full is followed by one that begins with the same
\* sub-reactor.
LEMMA InTurnNext ==
  ASSUME WrapsEvenly, IInv, NotGivenYet, InTurn, [Next]_vars
  PROVE  InTurn'
<1>1. PICK first \in 0..SubReactors - 1, rounds \in Nat : Dealt(first, rounds)
  BY DEF InTurn
<1>2. SubReactors \in Nat /\ SubReactors > 0 /\ \A l \in 0..SubReactors - 1 : l # None
  BY MultiAssumption, ReactorAssumption
<1>3. next_reactor \in 0..IntValues - 1 /\ owner \in [Conns -> Loops \cup {None}]
  BY DEF IInv, TypeOK, ReactorTypeOK
<1>4. CASE NoneDealt
  <2>1. NextIndex' = NextIndex
    BY <1>4 DEF NoneDealt, NextIndex, ToSize, SignedInt
  <2>2. Dealt(first, rounds)'
    BY <1>1, <1>4, <2>1 DEF NoneDealt, Dealt, HadTurn
  <2> QED  BY <2>2 DEF InTurn
<1>5. CASE OneDealt
  <2> DEFINE r == NextIndex  s == NextIndex'
  <2>1. PICK c \in Conns : owner[c] = None /\ owner' = [owner EXCEPT ![c] = r]
    BY <1>5 DEF OneDealt
  <2>2. r \in 0..SubReactors - 1 /\ s = IF r = SubReactors - 1 THEN 0 ELSE r + 1
    BY <1>3, <1>5, NextTurn DEF OneDealt
  <2>3. /\ c \notin {d \in Conns : owner[d] = r}
        /\ {d \in Conns : owner'[d] = r} = {d \in Conns : owner[d] = r} \cup {c}
    <3> HIDE DEF r
    <3> QED  BY <1>2, <1>3, <2>1, <2>2
  <2>4. ASSUME NEW l \in 0..SubReactors - 1, l # r PROVE Given(l)' = Given(l)
    BY <1>2, <1>3, <2>1, <2>4 DEF Given
  <2> DEFINE had(l) == HadTurn(l, first, r)  has(l) == HadTurn(l, first, s)
  <2>5. ~had(r) /\ (first # s => has(r))
    BY <1>2, <2>2 DEF HadTurn
  <2>6. ASSUME NEW l \in 0..SubReactors - 1, l # r
        PROVE  IF first = s THEN had(l) ELSE has(l) <=> had(l)
    BY <1>2, <2>2, <2>6 DEF HadTurn
  <2>7. \A l \in 0..SubReactors - 1 : first = s => ~has(l)
    BY DEF HadTurn
  <2>8. /\ IsFiniteSet(Given(r)) /\ Cardinality(Given(r)) = rounds
        /\ c \notin Given(r)
    BY <1>1, <2>2, <2>3, <2>5 DEF Dealt, Given
  <2>9. LET G == {d \in Conns : owner'[d] = r} IN
          IsFiniteSet(G) /\ Cardinality(G) = rounds + 1
    BY <2>3, <2>8, FS_AddElement DEF Given
  <2>10. ASSUME NEW l \in 0..SubReactors - 1
         PROVE  /\ IsFiniteSet(Given(l)')
                /\ Cardinality(Given(l)') = IF l = r \/ had(l) THEN rounds + 1 ELSE rounds
    <3>1. CASE l = r
      BY <2>9, <3>1 DEF Given
    <3>2. CASE l # r
      BY <1>1, <2>4, <3>2 DEF Dealt
    <3> QED  BY <3>1, <3>2
  <2> HIDE DEF r, s
  <2>11. CASE first # s
    <3>1. \A l \in 0..SubReactors - 1 : has(l) <=> l = r \/ had(l)
      BY <2>2, <2>5, <2>6, <2>11
    <3>2. Dealt(first, rounds)'
      BY <2>10, <3>1 DEF Dealt, r, s, HadTurn
    <3> QED  BY <3>2 DEF InTurn
  <2>12. CASE first = s
    <3>1. \A l \in 0..SubReactors - 1 : ~has(l) /\ (l = r \/ had(l))
      BY <2>6, <2>7, <2>12
    <3>2. Dealt(first, rounds + 1)'
      BY <2>10, <3>1 DEF Dealt, r, s, HadTurn
    <3> QED  BY <3>2 DEF InTurn
  <2> QED  BY <2>11, <2>12
<1> QED  BY <1>4, <1>5, DealStep

\* Before the first connection a round begins, wherever the counter is.
LEMMA InTurnInit == WrapsEvenly /\ InitAny => NotGivenYet /\ InTurn
<1> SUFFICES ASSUME WrapsEvenly, InitAny PROVE NotGivenYet /\ InTurn
  OBVIOUS
<1>1. /\ MainReactor \in Loops /\ 0 \in 0..IntValues - 1
      /\ \A l \in 0..SubReactors - 1 : l # None
  BY MultiAssumption, ReactorAssumption
<1>2. ReactorInit(MainReactor) /\ next_reactor \in 0..IntValues - 1
  BY <1>1, SingleSame, ServerSame DEF InitAny, Init, Single!Init, Server!Init
<1>3. owner = [c \in Conns |-> None]
  BY <1>2 DEF ReactorInit
<1>4. NextIndex \in 0..SubReactors - 1
  BY <1>2, IndexIsRest DEF IsInt, RestOfCounter
<1>5. \A l \in 0..SubReactors - 1 : Given(l) = {} /\ ~HadTurn(l, NextIndex, NextIndex)
  <2>1. ASSUME NEW l \in 0..SubReactors - 1 PROVE Given(l) = {}
    BY <1>1, <1>3 DEF Given
  <2>2. ASSUME NEW l \in Int, NEW n \in Int PROVE ~HadTurn(l, n, n)
    BY DEF HadTurn
  <2> QED  BY <1>1, <1>4, <2>1, <2>2, MultiAssumption
<1>6. Dealt(NextIndex, 0)
  BY <1>4, <1>5, FS_EmptySet DEF Dealt
<1> QED  BY <1>3, <1>4, <1>6 DEF NotGivenYet, InTurn

\* In a round some have had one connection more than others, never two.
LEMMA InTurnBalances == InTurn => Balanced
<1> SUFFICES ASSUME NEW first \in 0..SubReactors - 1, NEW rounds \in Nat, Dealt(first, rounds),
                    NEW l \in 0..SubReactors - 1, NEW k \in 0..SubReactors - 1
             PROVE  Cardinality(Given(l)) <= Cardinality(Given(k)) + 1
  BY DEF InTurn, Balanced, Given
<1> QED  BY DEF Dealt

-----------------------------------------------------------------------------
(* Theorems                                                                *)

\* Every variable stays in its type; the round-robin counter stays an int.
THEOREM TypeCorrect == Spec => []TypeOK
<1>1. IInv => TypeOK
  BY DEF IInv
<1> QED  BY <1>1, IInvariant, PTL

\* The objects, the descriptor table and the epoll sets agree
\* (multithread_reactor.cpp:133).
THEOREM SetsAgree == Spec => []Registered
<1>1. IInv => Registered
  BY DEF IInv
<1> QED  BY <1>1, IInvariant, PTL

\* No loop dispatches into a Connection that was deleted, although every
\* Connection deletes itself (multithread_reactor.cpp:147).
THEOREM DispatchesToLiving == Spec => []NoDanglingChannel
<1>1. IInv => NoDanglingChannel
  BY DEF IInv, OwnEvents, NoDanglingChannel
<1> QED  BY <1>1, IInvariant, PTL

\* No sub-reactor gets two connections more than another, also when the counter
\* wraps around (multithread_reactor.cpp:106), if their number divides the range
\* of the counter; for other numbers of sub-reactors it need not be so.
THEOREM DealsInTurn == WrapsEvenly => (Spec => []Balanced)
<1>1. WrapsEvenly /\ InitAny => IInv /\ NotGivenYet /\ InTurn
  BY IInvInit, InTurnInit
<1>2. WrapsEvenly /\ (IInv /\ NotGivenYet /\ InTurn) /\ [Next]_vars
        => (IInv /\ NotGivenYet /\ InTurn)'
  BY IInvNext, DealStep, InTurnNext
<1>3. IInv /\ NotGivenYet /\ InTurn => Balanced
  BY InTurnBalances
<1>4. WrapsEvenly => WrapsEvenly'
  BY DEF WrapsEvenly
<1> QED  BY <1>1, <1>2, <1>3, <1>4, PTL DEF Spec
=============================================================================

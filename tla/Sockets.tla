------------------------------- MODULE Sockets -------------------------------
(***************************************************************************)
(* The part of the operating system the servers of Cpp_WebPrograming use:  *)
(* the descriptor table of the server process, its listening socket and    *)
(* its connections.  External: modelled from how the servers call it.      *)
(*                                                                         *)
(* A connection is an identity that is used once.  What a client sends is  *)
(* a number of chunks, each what one recv returns: chunk k of connection c *)
(* is <<c, k>>.  accept gives the lowest free descriptor number, so a      *)
(* number is used again as soon as it was closed.  The servers keep         *)
(* numbers in callables and in batches of events; reused records that one  *)
(* of them was given to a new client while the server still held it for    *)
(* the old one.                                                            *)
(***************************************************************************)
EXTENDS Naturals, Sequences, FiniteSetsExt

CONSTANTS
    Conns,       \* client connections
    None,        \* no connection, no descriptor
    ServerFd,    \* the number of the listening descriptor
    MaxFd,       \* bound: the last descriptor number the process may open
    MaxChunks    \* bound: chunks one client sends

ASSUME SocketsAssumption ==
    /\ ServerFd \in Nat /\ MaxFd \in Nat /\ ServerFd < MaxFd
    /\ MaxChunks \in Nat
    /\ None \notin Conns \cup (ServerFd..MaxFd)

VARIABLES
    fdtab,       \* the connection behind each client descriptor
    backlog,     \* connections the kernel accepted and the server has not
    peer,        \* the client's side: "new", "up", "hup" or "reset"
    sent,        \* chunks the client has sent
    got,         \* chunks the server has received
    out,         \* the responses that reached the client
    reused       \* history: a number the server still held was accepted again

sockVars == <<fdtab, backlog, peer, sent, got, out, reused>>

Fds == (ServerFd + 1)..MaxFd
FreeFds == {fd \in Fds : fdtab[fd] = None}
Chunks == Conns \X (1..MaxChunks)

SockInit ==
    /\ fdtab = [fd \in Fds |-> None]
    /\ backlog = {}
    /\ peer = [c \in Conns |-> "new"]
    /\ sent = [c \in Conns |-> 0]
    /\ got = [c \in Conns |-> 0]
    /\ out = [c \in Conns |-> <<>>]
    /\ reused = FALSE

SockTypeOK ==
    /\ fdtab \in [Fds -> Conns \cup {None}]
    /\ backlog \subseteq Conns
    /\ peer \in [Conns -> {"new", "up", "hup", "reset"}]
    /\ sent \in [Conns -> 0..MaxChunks]
    /\ got \in [Conns -> 0..MaxChunks]
    /\ out \in [Conns -> Seq(Chunks)]
    /\ reused \in BOOLEAN

-----------------------------------------------------------------------------
(* Clients                                                                 *)

Connect(c) ==
    /\ peer[c] = "new"
    /\ peer' = [peer EXCEPT ![c] = "up"]
    /\ backlog' = backlog \cup {c}
    /\ UNCHANGED <<fdtab, sent, got, out, reused>>

ClientSend(c) ==
    /\ peer[c] = "up"
    /\ sent[c] < MaxChunks
    /\ sent' = [sent EXCEPT ![c] = @ + 1]
    /\ UNCHANGED <<fdtab, backlog, peer, got, out, reused>>

HangUp(c) ==
    /\ peer[c] = "up"
    /\ peer' = [peer EXCEPT ![c] = "hup"]
    /\ UNCHANGED <<fdtab, backlog, sent, got, out, reused>>

\* The connection is reset: what was sent and not yet received is lost.
Reset(c) ==
    /\ peer[c] = "up"
    /\ peer' = [peer EXCEPT ![c] = "reset"]
    /\ sent' = [sent EXCEPT ![c] = got[c]]
    /\ UNCHANGED <<fdtab, backlog, got, out, reused>>

Client(c) == Connect(c) \/ ClientSend(c) \/ HangUp(c) \/ Reset(c)

-----------------------------------------------------------------------------
(* System calls of the server                                              *)

Unread(c) == sent[c] > got[c]
Gone(c) == peer[c] \in {"hup", "reset"}

\* recv on fd returns at once: there is data, or the end of the stream.
Readable(fd) ==
    /\ fdtab[fd] # None
    /\ Unread(fdtab[fd]) \/ Gone(fdtab[fd])

\* accept succeeds with connection c on descriptor fd; held are the numbers
\* the server has kept somewhere.
Accepts(c, fd, held) ==
    /\ c \in backlog
    /\ FreeFds # {} /\ fd = Min(FreeFds)
    /\ fdtab' = [fdtab EXCEPT ![fd] = c]
    /\ backlog' = backlog \ {c}
    /\ reused' = (reused \/ fd \in held)
    /\ UNCHANGED <<peer, sent, got, out>>

\* accept fails: nobody is waiting any more, or no descriptor is free.
AcceptFails == backlog = {} \/ FreeFds = {}

\* The next chunk recv on fd returns, and its reception.
NextChunk(fd) == <<fdtab[fd], got[fdtab[fd]] + 1>>

Receives(fd) ==
    /\ Unread(fdtab[fd])
    /\ got' = [got EXCEPT ![fdtab[fd]] = @ + 1]
    /\ UNCHANGED <<fdtab, backlog, peer, sent, out, reused>>

\* recv returns 0 or -1: nothing is left to read and the client is gone.
EndOfStream(fd) == ~Unread(fdtab[fd]) /\ Gone(fdtab[fd])

Closes(S) ==
    /\ fdtab' = [fd \in Fds |-> IF fd \in S THEN None ELSE fdtab[fd]]
    /\ UNCHANGED <<backlog, peer, sent, got, out, reused>>

\* send(fd, response to the chunks ms) reaches whoever is behind the number now.
Sends(fd, ms) ==
    /\ fdtab[fd] # None
    /\ out' = IF peer[fdtab[fd]] = "up"
                THEN [out EXCEPT ![fdtab[fd]] = @ \o ms]
                ELSE out
    /\ UNCHANGED <<fdtab, backlog, peer, sent, got, reused>>

\* send returns -1: the number is closed, or the client is gone.
SendFails(fd) == fdtab[fd] # None => Gone(fdtab[fd])
=============================================================================

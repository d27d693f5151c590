----------------------------- MODULE SocketsProof -----------------------------
(***************************************************************************)
(* Lemmas about Sockets, for the proofs of the servers that use it: what   *)
(* each system call and each step of a client keeps.                       *)
(***************************************************************************)
EXTENDS Sockets, FiniteSetTheorems, TLAPS

-----------------------------------------------------------------------------
(* Descriptor numbers                                                      *)

\* The initial segments below its elements are ordered as the elements are.
LEMMA HasLeast ==
  ASSUME NEW S \in SUBSET Nat, S # {}
  PROVE  \E x \in S : \A y \in S : x <= y
<1> DEFINE Below(n) == 0..n - 1  T == {Below(n) : n \in S}
<1>1. T \subseteq FiniteSubsetsOf(Nat) /\ T # {}
  <2>1. \A n \in S : Below(n) \in FiniteSubsetsOf(Nat)
    <3> SUFFICES ASSUME NEW n \in S PROVE IsFiniteSet(Below(n)) /\ Below(n) \subseteq Nat
      BY DEF FiniteSubsetsOf
    <3>1. 0 \in Int /\ n - 1 \in Int
      OBVIOUS
    <3> QED  BY <3>1, FS_Interval
  <2> QED  BY <2>1
<1>2. \E X \in T : \A Y \in T : ~(<<Y, X>> \in StrictSubsetOrdering(Nat))
  <2> HIDE DEF T
  <2> QED  BY <1>1, FS_StrictSubsetOrderingWellFounded, WFMin
<1>3. PICK x \in S : \A y \in S : ~(<<Below(y), Below(x)>> \in StrictSubsetOrdering(Nat))
  BY <1>2
<1>4. ASSUME NEW y \in S, y < x PROVE FALSE
  <2>1. /\ Below(y) \subseteq Below(x) /\ Below(x) \subseteq Nat
        /\ y \in Below(x) /\ y \notin Below(y)
    BY <1>4
  <2> QED  BY <2>1, <1>3 DEF StrictSubsetOrdering
<1> QED  BY <1>4

\* A set of numbers that has an element has a least one.
LEMMA MinOfNats ==
  ASSUME NEW S \in SUBSET Nat, S # {}
  PROVE  Min(S) \in S /\ \A y \in S : Min(S) <= y
  BY HasLeast DEF Min

\* If it is bounded it also has a greatest one.
LEMMA MaxOfNats ==
  ASSUME NEW n \in Nat, NEW S \in SUBSET (0..n), S # {}
  PROVE  Max(S) \in S /\ \A y \in S : y <= Max(S)
<1> DEFINE T == {n - x : x \in S}
<1>1. PICK z \in T : \A y \in T : z <= y
  <2>1. T \in SUBSET Nat
    OBVIOUS
  <2>2. T # {}
    OBVIOUS
  <2> HIDE DEF T
  <2> QED  BY <2>1, <2>2, HasLeast
<1>2. PICK x \in S : \A y \in S : y <= x
  BY <1>1
<1> QED  BY <1>2 DEF Max

-----------------------------------------------------------------------------
(* Types                                                                   *)

\* At first nobody has connected and no descriptor is open.
LEMMA SockInitTypes == SockInit => SockTypeOK
<1> SUFFICES ASSUME SockInit PROVE SockTypeOK
  OBVIOUS
<1>1. out \in [Conns -> Seq(Chunks)]
  <2>1. <<>> \in Seq(Chunks)
    OBVIOUS
  <2> QED  BY <2>1 DEF SockInit
<1>2. 0 \in 0..MaxChunks
  BY SocketsAssumption
<1> QED  BY <1>1, <1>2 DEF SockInit, SockTypeOK

\* A chunk that can be received is one of the chunks a client may send.
LEMMA NextChunkType ==
  ASSUME SockTypeOK, NEW fd \in Fds, fdtab[fd] \in Conns, Unread(fdtab[fd])
  PROVE  NextChunk(fd) \in Chunks
<1> DEFINE c == fdtab[fd]
<1>1. c \in Conns /\ sent[c] \in 0..MaxChunks /\ got[c] \in 0..MaxChunks
  BY DEF SockTypeOK
<1>2. got[c] + 1 \in 1..MaxChunks
  BY <1>1, SocketsAssumption DEF Unread
<1> QED  BY <1>1, <1>2 DEF NextChunk, Chunks

\* An open descriptor belongs to a connection.
LEMMA OpenIsConn ==
  ASSUME SockTypeOK, NEW fd \in Fds, fdtab[fd] # None
  PROVE  fdtab[fd] \in Conns
  BY DEF SockTypeOK

-----------------------------------------------------------------------------
(* Clients                                                                 *)

\* The clients' actions keep the types.
LEMMA ConnectTypes ==
  ASSUME SockTypeOK, NEW c \in Conns, Connect(c) PROVE SockTypeOK'
  BY DEF SockTypeOK, Connect

\* A client sends at most MaxChunks.
LEMMA ClientSendTypes ==
  ASSUME SockTypeOK, NEW c \in Conns, ClientSend(c) PROVE SockTypeOK'
<1>1. sent[c] + 1 \in 0..MaxChunks
  BY SocketsAssumption DEF SockTypeOK, ClientSend
<1> QED  BY <1>1 DEF SockTypeOK, ClientSend

\* A client that hangs up is still a client.
LEMMA HangUpTypes ==
  ASSUME SockTypeOK, NEW c \in Conns, HangUp(c) PROVE SockTypeOK'
  BY DEF SockTypeOK, HangUp

\* After a reset what was received is all that was sent.
LEMMA ResetTypes ==
  ASSUME SockTypeOK, NEW c \in Conns, Reset(c) PROVE SockTypeOK'
  BY DEF SockTypeOK, Reset

\* Whatever a client does keeps the types.
LEMMA ClientTypes ==
  ASSUME SockTypeOK, NEW c \in Conns, Client(c) PROVE SockTypeOK'
  BY ConnectTypes, ClientSendTypes, HangUpTypes, ResetTypes DEF Client

-----------------------------------------------------------------------------
(* System calls                                                            *)

\* accept puts a client at a free number.
LEMMA AcceptsTypes ==
  ASSUME SockTypeOK, NEW c, NEW fd \in Fds, NEW held, Accepts(c, fd, held)
  PROVE  SockTypeOK'
<1>1. reused' \in BOOLEAN
  BY DEF Accepts
<1> QED  BY <1>1 DEF SockTypeOK, Accepts

\* recv returns no more than was sent.
LEMMA ReceivesTypes ==
  ASSUME SockTypeOK, NEW fd \in Fds, fdtab[fd] \in Conns, Receives(fd)
  PROVE  SockTypeOK'
<1>1. got[fdtab[fd]] + 1 \in 0..MaxChunks
  BY SocketsAssumption DEF SockTypeOK, Receives, Unread
<1> QED  BY <1>1 DEF SockTypeOK, Receives

\* close empties entries of the descriptor table.
LEMMA ClosesTypes ==
  ASSUME SockTypeOK, NEW S, Closes(S) PROVE SockTypeOK'
  BY DEF SockTypeOK, Closes

\* send appends chunks to what reached the client.
LEMMA SendsTypes ==
  ASSUME SockTypeOK, NEW fd \in Fds, NEW ms \in Seq(Chunks), Sends(fd, ms)
  PROVE  SockTypeOK'
<1> DEFINE c == fdtab[fd]
<1>1. c \in Conns /\ out[c] \in Seq(Chunks)
  BY DEF SockTypeOK, Sends
<1>2. out[c] \o ms \in Seq(Chunks)
  BY <1>1
<1>3. out' \in [Conns -> Seq(Chunks)]
  BY <1>1, <1>2 DEF SockTypeOK, Sends
<1> QED  BY <1>3 DEF SockTypeOK, Sends

\* A step that leaves the sockets alone keeps their types.
LEMMA SockStutters ==
  ASSUME SockTypeOK, UNCHANGED sockVars PROVE SockTypeOK'
  BY DEF SockTypeOK, sockVars

-----------------------------------------------------------------------------
(* Connections                                                             *)

\* A connection is behind one number at most, and behind none before it was
\* accepted.
OneNumberEach ==
    /\ \A c \in backlog : peer[c] # "new"
    /\ \A fd \in Fds : fdtab[fd] # None => fdtab[fd] \notin backlog /\ peer[fdtab[fd]] # "new"
    /\ \A fd, gd \in Fds : fdtab[fd] # None /\ fdtab[fd] = fdtab[gd] => fd = gd

\* At the start no connection has a number.
LEMMA InitOneNumber == SockInit => OneNumberEach
  BY DEF SockInit, OneNumberEach

\* The clients do not touch the descriptor table.
LEMMA ClientOneNumber ==
  ASSUME SockTypeOK, OneNumberEach, NEW c \in Conns, Client(c)
  PROVE  OneNumberEach'
<1>1. CASE Connect(c)
  BY <1>1 DEF Connect, SockTypeOK, OneNumberEach
<1>2. CASE ClientSend(c)
  BY <1>2 DEF ClientSend, OneNumberEach
<1>3. CASE HangUp(c) \/ Reset(c)
  BY <1>3 DEF HangUp, Reset, SockTypeOK, OneNumberEach
<1> QED  BY <1>1, <1>2, <1>3 DEF Client

\* A connection that is accepted was in the backlog, so it had no number yet.
LEMMA AcceptsOneNumber ==
  ASSUME SockTypeOK, OneNumberEach, NEW c, NEW fd \in Fds, NEW held, Accepts(c, fd, held)
  PROVE  OneNumberEach'
  BY DEF SockTypeOK, OneNumberEach, Accepts

\* close takes numbers away.
LEMMA ClosesOneNumber ==
  ASSUME OneNumberEach, NEW S, Closes(S) PROVE OneNumberEach'
  BY DEF OneNumberEach, Closes

\* What changes neither the table nor the state of a client.
LEMMA SameNumbers ==
  ASSUME OneNumberEach, UNCHANGED <<fdtab, backlog, peer>> PROVE OneNumberEach'
  BY DEF OneNumberEach

\* What is readable stays so, until it is received from or closed.
LEMMA ClientKeepsReadable ==
  ASSUME SockTypeOK, OneNumberEach, NEW c \in Conns, Client(c),
         NEW fd \in Fds, Readable(fd)
  PROVE  Readable(fd)'
<1> USE DEF Readable, Unread, Gone
<1>1. CASE Connect(c)
  BY <1>1 DEF Connect, SockTypeOK
<1>2. CASE ClientSend(c)
  BY <1>2, SocketsAssumption DEF ClientSend, SockTypeOK
<1>3. CASE HangUp(c) \/ Reset(c)
  BY <1>3, ZenonT(60) DEF HangUp, Reset, SockTypeOK
<1> QED  BY <1>1, <1>2, <1>3 DEF Client

\* accept leaves what other descriptors have to read.
LEMMA AcceptsKeepsReadable ==
  ASSUME SockTypeOK, NEW c, NEW new \in Fds, NEW held, Accepts(c, new, held), fdtab[new] = None,
         NEW fd \in Fds, Readable(fd)
  PROVE  Readable(fd)'
  BY DEF Accepts, SockTypeOK, Readable, Unread, Gone

\* recv on one descriptor leaves what the others have to read.
LEMMA ReceivesKeepsReadable ==
  ASSUME SockTypeOK, OneNumberEach, NEW gd \in Fds, fdtab[gd] # None, Receives(gd),
         NEW fd \in Fds, fd # gd, Readable(fd)
  PROVE  Readable(fd)'
  BY DEF Receives, SockTypeOK, OneNumberEach, Readable, Unread, Gone

\* close leaves the descriptors that stay open readable.
LEMMA ClosesKeepsReadable ==
  ASSUME NEW S, Closes(S), NEW fd \in Fds, fd \notin S, Readable(fd)
  PROVE  Readable(fd)'
  BY DEF Closes, Readable, Unread, Gone

\* send takes nothing away from what there is to read.
LEMMA SendsKeepsReadable ==
  ASSUME NEW gd, NEW ms, Sends(gd, ms), NEW fd \in Fds, Readable(fd)
  PROVE  Readable(fd)'
  BY DEF Sends, Readable, Unread, Gone
=============================================================================

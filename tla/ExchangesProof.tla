---------------------------- MODULE ExchangesProof ----------------------------
(***************************************************************************)
(* Proofs about Exchanges, for lines, buffers and lengths of any size,     *)
(* however the bytes are cut into pieces: as long as no datagram was       *)
(* copied and nobody took a part for the whole, what a client takes for    *)
(* the answer is the answer to the line it asked, of a datagram as much as *)
(* fits the buffers.                                                       *)
(***************************************************************************)
EXTENDS Exchanges, SequenceTheorems, TLAPS

-----------------------------------------------------------------------------
(* Sequences of bytes                                                      *)

\* The bytes there are: of lines, of what is put in front, and of lengths.
Bytes == Nat \cup UNION {{Package!Header(n)[i] : i \in 1..HeaderBytes} : n \in Nat}
Strings == Seq(Bytes)

\* What is taken from the front and what is left make up the whole.
LEMMA Cuts ==
  ASSUME NEW s \in Strings, NEW k \in 0..Len(s)
  PROVE  /\ First(s, k) \in Strings /\ Len(First(s, k)) = k
         /\ Rest(s, k) \in Strings /\ Len(Rest(s, k)) = Len(s) - k
         /\ First(s, k) \o Rest(s, k) = s
<1>1. Len(s) \in Nat /\ \A i \in 1..Len(s) : s[i] \in Bytes
  BY DEF Strings
<1>2. First(s, k) \in Strings /\ Len(First(s, k)) = k
  <2>1. \A i \in 1..k : s[i] \in Bytes
    BY <1>1
  <2> QED  BY <1>1, <2>1, SubSeqProperties DEF First, Strings
<1>3. Rest(s, k) \in Strings /\ Len(Rest(s, k)) = Len(s) - k
  <2>1. \A i \in (k + 1)..Len(s) : s[i] \in Bytes
    BY <1>1
  <2> QED  BY <1>1, <2>1, SubSeqProperties DEF Rest, Strings
<1>4. First(s, k) \o Rest(s, k) = s
  <2>1. /\ s \in Seq(Bytes) /\ 1 \in 1..(Len(s) + 1)
        /\ k \in (1 - 1)..Len(s) /\ Len(s) \in k..Len(s)
    BY <1>1 DEF Strings
  <2>2. SubSeq(s, 1, k) \o SubSeq(s, k + 1, Len(s)) = SubSeq(s, 1, Len(s))
    BY <2>1, ConcatAdjacentSubSeq
  <2> QED  BY <2>1, <2>2, SubSeqFull DEF First, Rest
<1> QED  BY <1>2, <1>3, <1>4

\* Taking everything leaves nothing.
LEMMA CutsAll ==
  ASSUME NEW s \in Strings
  PROVE  First(s, Len(s)) = s /\ Rest(s, Len(s)) = <<>>
<1>1. Len(s) \in Nat
  BY LenProperties DEF Strings
<1> QED  BY <1>1, SubSeqFull, SubSeqEmpty DEF First, Rest, Strings

\* A string has one beginning of each length.
LEMMA Splits ==
  ASSUME NEW a \in Strings, NEW b \in Strings, NEW c \in Strings, NEW d \in Strings,
         a \o b = c \o d, Len(a) = Len(c)
  PROVE  a = c /\ b = d
<1>1. a = c
  <2>1. \A i \in 1..Len(a) : a[i] = (a \o b)[i] /\ c[i] = (c \o d)[i]
    BY ConcatProperties, LenProperties DEF Strings
  <2> QED  BY <2>1, SeqEqual DEF Strings
<1>2. b = d
  BY <1>1, ConcatSimplifications DEF Strings
<1> QED  BY <1>1, <1>2

\* Strings are put together.
LEMMA Joins ==
  ASSUME NEW a \in Strings, NEW b \in Strings
  PROVE  /\ a \o b \in Strings /\ Len(a \o b) = Len(a) + Len(b)
         /\ a \o <<>> = a /\ <<>> \o a = a /\ <<>> \in Strings
         /\ Len(a) \in Nat /\ (Len(a) = 0 <=> a = <<>>)
  BY ConcatProperties, ConcatEmptySeq, EmptySeq, LenProperties DEF Strings

\* The order in which they are does not matter.
LEMMA Associates ==
  ASSUME NEW a \in Strings, NEW b \in Strings, NEW c \in Strings
  PROVE  (a \o b) \o c = a \o (b \o c)
  BY ConcatAssociative DEF Strings

\* Bytes that arrive are at the end of what is there and at the beginning of
\* what is missing.
LEMMA Moves ==
  ASSUME NEW a \in Strings, NEW s \in Strings, NEW k \in 0..Len(s)
  PROVE  (a \o First(s, k)) \o Rest(s, k) = a \o s
<1>1. /\ First(s, k) \in Strings /\ Rest(s, k) \in Strings
      /\ First(s, k) \o Rest(s, k) = s
  BY Cuts
<1>2. (a \o First(s, k)) \o Rest(s, k) = a \o (First(s, k) \o Rest(s, k))
  BY <1>1, Associates
<1> QED  BY <1>1, <1>2

\* Lines and what is put in front of them.
LEMMA Texts ==
  ASSUME NEW k \in Nat, NEW n \in Nat
  PROVE  Text(k, n) \in Strings /\ Len(Text(k, n)) = n
  BY DEF Text, Strings, Bytes

\* Lengths.
LEMMA Headers ==
  ASSUME NEW n \in Nat
  PROVE  Package!Header(n) \in Strings /\ Len(Package!Header(n)) = HeaderBytes
<1>1. Package!Header(n) = [i \in 1..HeaderBytes |-> Package!Header(n)[i]]
  BY DEF Package!Header
<1>2. \A i \in 1..HeaderBytes : Package!Header(n)[i] \in Bytes
  BY DEF Bytes
<1>3. HeaderBytes \in Nat
  BY BytesAssumption
<1> HIDE DEF Package!Header
<1> QED  BY <1>1, <1>2, <1>3 DEF Strings

\* The line asked last and the answer to it.
LEMMA Lines ==
  ASSUME asked \in Nat, size \in Nat
  PROVE  /\ Line \in Strings /\ Len(Line) = size
         /\ Reply(Line) \in Strings /\ Len(Reply(Line)) = Prefix + size
<1>1. Line \in Strings /\ Len(Line) = size
  BY Texts DEF Line
<1>2. Text(0, Prefix) \in Strings /\ Len(Text(0, Prefix)) = Prefix
  BY Texts, ExchangeAssumption
<1> QED  BY <1>1, <1>2, Joins DEF Reply

\* A side that has nothing to send and has read nothing, and one that has.
LEMMA Sides ==
  /\ \A pc : Side(pc).pc = pc /\ Side(pc).out = <<>> /\ Side(pc).in = <<>>
  /\ \A out : Sending(out).pc = "send" /\ Sending(out).out = out /\ Sending(out).in = <<>>
  BY DEF Side, Sending

-----------------------------------------------------------------------------
(* The inductive invariant                                                 *)

Clean == faults \cap {"cut", "copied"} = {}
Answered == answer \in {None, Reply(Line)}
UdpReply == Reply(UpTo(Buffer, Line))
UdpAnswered == answer \in {None, UpTo(Buffer, UdpReply)}
Counted == asked \in Nat /\ size \in 0..MaxSize
Quiet == up = <<>> /\ down = <<>>

\* A side has its four fields.
IsSide(s) == DOMAIN s = {"pc", "out", "in", "need"}
Shaped == IsSide(client) /\ IsSide(server)

-----------------------------------------------------------------------------
(* Datagrams                                                               *)

\* As much as fits.
LEMMA Fits ==
  ASSUME NEW s \in Strings
  PROVE  /\ UpTo(Buffer, s) \in Strings /\ Len(UpTo(Buffer, s)) = Least(Buffer, Len(s))
         /\ \A i \in 1..Least(Buffer, Len(s)) : UpTo(Buffer, s)[i] = s[i]
<1>1. Least(Buffer, Len(s)) \in 0..Len(s)
  BY Joins, BytesAssumption DEF Least
<1>2. \A i \in 1..Least(Buffer, Len(s)) : First(s, Least(Buffer, Len(s)))[i] = s[i]
  BY <1>1, Cuts DEF First
<1> QED  BY <1>1, <1>2, Cuts DEF UpTo

\* The answer to as much of the line as fits the server's buffer is cut by the
\* client's where the answer to the whole line would be.
LEMMA CutsOnce ==
  ASSUME Counted
  PROVE  UpTo(Buffer, UdpReply) = UpTo(Buffer, Reply(Line))
<1> DEFINE p == Text(0, Prefix)
           l == UpTo(Buffer, Line)
<1>1. /\ p \in Strings /\ Len(p) = Prefix /\ Prefix \in Nat
      /\ Line \in Strings /\ Len(Line) = size /\ size \in Nat
  BY Texts, Lines, ExchangeAssumption DEF Counted
<1>2. l \in Strings /\ Len(l) = Least(Buffer, size) /\ \A i \in 1..Len(l) : l[i] = Line[i]
  BY <1>1, Fits
<1> HIDE DEF p, l
<1>3. /\ p \o l \in Strings /\ Len(p \o l) = Prefix + Least(Buffer, size)
      /\ p \o Line \in Strings /\ Len(p \o Line) = Prefix + size
  BY <1>1, <1>2, Joins
<1> DEFINE n == Least(Buffer, Prefix + size)
<1>4. n = Least(Buffer, Len(p \o l)) /\ n = Least(Buffer, Len(p \o Line)) /\ n \in Nat
      /\ n <= Len(p \o l) /\ n <= Len(p \o Line)
  BY <1>1, <1>3, BytesAssumption DEF Least
<1>5. \A i \in 1..n : (p \o l)[i] = (p \o Line)[i]
  <2> SUFFICES ASSUME NEW i \in 1..n PROVE (p \o l)[i] = (p \o Line)[i]
    OBVIOUS
  <2>1. i \in Int /\ i \in 1..Len(p \o l) /\ i \in 1..Len(p \o Line)
    BY <1>3, <1>4
  <2>2. CASE i <= Prefix
    BY <1>1, <1>2, <2>1, <2>2, ConcatProperties DEF Strings
  <2>3. CASE i > Prefix
    <3>1. (p \o l)[i] = l[i - Prefix] /\ (p \o Line)[i] = Line[i - Prefix]
      <4>1. \A q \in Strings : \A j \in 1..(Len(p) + Len(q)) :
              j > Len(p) => (p \o q)[j] = q[j - Len(p)]
        BY <1>1, ConcatProperties DEF Strings
      <4> QED  BY <1>1, <1>2, <1>3, <2>1, <2>3, <4>1
    <3>2. i - Prefix \in 1..Len(l)
      <4>1. Len(p \o l) = Prefix + Len(l) /\ Len(l) \in Nat
        BY <1>1, <1>2, Joins
      <4>2. i \in Int /\ i <= Len(p \o l)
        BY <2>1, <1>1, <4>1
      <4> QED  BY <1>1, <2>3, <4>1, <4>2
    <3> QED  BY <1>2, <3>1, <3>2
  <2> QED  BY <1>1, <2>1, <2>2, <2>3
<1> HIDE DEF n
<1>6. /\ UpTo(Buffer, p \o l) \in Strings /\ Len(UpTo(Buffer, p \o l)) = n
      /\ UpTo(Buffer, p \o Line) \in Strings /\ Len(UpTo(Buffer, p \o Line)) = n
      /\ \A i \in 1..n : UpTo(Buffer, p \o l)[i] = UpTo(Buffer, p \o Line)[i]
  BY <1>3, <1>4, <1>5, Fits
<1>7. UpTo(Buffer, p \o l) = UpTo(Buffer, p \o Line)
  BY <1>6, SeqEqual DEF Strings
<1> QED  BY <1>7 DEF UdpReply, Reply, p, l

\* There is one datagram at most, or one that the server is about to send, and
\* the client waits for the answer to it.
UdpSound ==
    /\ client.pc \in {"start", "input", "send", "recv"}
    /\ client.pc = "send" => client.out = Line
    /\ \/ Quiet /\ server.pc \in {"init", "recv", "closed"}
       \/ /\ client.pc = "recv"
          /\ \/ up = <<Line>> /\ down = <<>> /\ server.pc \in {"recv", "closed"}
             \/ up = <<>> /\ down = <<UdpReply>> /\ server.pc \in {"recv", "closed"}
             \/ Quiet /\ server.pc = "send" /\ server.out = UdpReply

\* A queue of one datagram is empty when this is taken out of it.
LEMMA TakesOnly ==
  ASSUME NEW x, NEW i \in DOMAIN <<x>>
  PROVE  i = 1 /\ <<x>>[i] = x /\ Udp!RemoveAt(<<x>>, i) = <<>>
  BY DEF Udp!RemoveAt

\* The client is called once per line, and takes what comes.
LEMMA UdpClient ==
  ASSUME Counted, UdpSound, UdpAnswered, Udp!Client
  PROVE  Counted' /\ UdpSound' /\ UdpAnswered'
<1>1. CASE Udp!ClientStarts
  BY <1>1 DEF Udp!ClientStarts, Udp!Side, Counted, UdpSound, UdpAnswered, UdpReply, UpTo,
      Quiet, Line, Reply
<1>2. CASE Udp!ClientSendsTo
  <2>1. Quiet /\ client.out = Line /\ client'.pc = "recv" /\ UNCHANGED <<server, down, asked, size, answer>>
    BY <1>2 DEF Udp!ClientSendsTo, Udp!Side, UdpSound, Quiet
  <2>2. \/ up' = <<>> /\ server.pc \in {"init", "closed"}
        \/ up' = <<Line>> /\ server.pc = "recv"
    <3>1. Append(up, client.out) = <<Line>>
      BY <2>1 DEF Quiet
    <3> QED  BY <1>2, <2>1, <3>1 DEF Udp!ClientSendsTo, UdpSound, Quiet
  <2> QED  BY <2>1, <2>2 DEF Counted, UdpSound, UdpAnswered, UdpReply, UpTo, Quiet, Line, Reply
<1>3. CASE Udp!ClientReceives
  <2>1. PICK i \in DOMAIN down : answer' = UpTo(Buffer, down[i]) /\ down' = Udp!RemoveAt(down, i)
    BY <1>3 DEF Udp!ClientReceives, Udp!UpTo, UpTo, Udp!First, First, Udp!Least, Least
  <2>2. /\ client.pc = "recv" /\ client'.pc = "input" /\ UNCHANGED <<server, up, asked, size>>
    BY <1>3 DEF Udp!ClientReceives, Udp!Side
  <2>3. up = <<>> /\ down = <<UdpReply>> /\ server.pc \in {"recv", "closed"}
    BY <2>1, <2>2 DEF UdpSound, Quiet
  <2>4. answer' = UpTo(Buffer, UdpReply) /\ down' = <<>>
    BY <2>1, <2>3, TakesOnly
  <2> QED  BY <2>2, <2>3, <2>4 DEF Counted, UdpSound, UdpAnswered, UdpReply, UpTo, Quiet, Line, Reply
<1> QED  BY <1>1, <1>2, <1>3 DEF Udp!Client

\* The server answers what it receives, or skips it.
LEMMA UdpServer ==
  ASSUME Counted, UdpSound, UdpAnswered, Udp!Server
  PROVE  Counted' /\ UdpSound' /\ UdpAnswered'
<1>1. CASE Udp!ServerStarts("recv")
  BY <1>1 DEF Udp!ServerStarts, Udp!Side, Counted, UdpSound, UdpAnswered, UdpReply, UpTo,
      Quiet, Line, Reply
<1>2. CASE Udp!ServerReceives
  <2>1. PICK i \in DOMAIN up :
          /\ up' = Udp!RemoveAt(up, i)
          /\ server' = IF up[i] = <<>> THEN server ELSE Sending(Reply(UpTo(Buffer, up[i])))
    BY <1>2
    DEF Udp!ServerReceives, Udp!Sending, Sending, Udp!Side, Side, Udp!Reply, Reply, Udp!Text, Text,
        Udp!UpTo, UpTo, Udp!First, First, Udp!Least, Least
  <2>2. server.pc = "recv" /\ UNCHANGED <<client, down, asked, size, answer>>
    BY <1>2 DEF Udp!ServerReceives
  <2>3. client.pc = "recv" /\ up = <<Line>> /\ down = <<>>
    BY <2>1, <2>2 DEF UdpSound, Quiet
  <2>4. up' = <<>> /\ (server' = server \/ server' = Sending(UdpReply))
    BY <2>1, <2>3, TakesOnly DEF UdpReply
  <2>5. server'.pc = "recv" \/ (server'.pc = "send" /\ server'.out = UdpReply)
    BY <2>2, <2>4, Sides
  <2> QED  BY <2>2, <2>3, <2>4, <2>5 DEF Counted, UdpSound, UdpAnswered, UdpReply, UpTo, Quiet, Line, Reply
<1>3. CASE Udp!send_msg
  <2>1. /\ client.pc = "recv" /\ Quiet /\ server.out = UdpReply /\ server'.pc = "recv"
        /\ UNCHANGED <<client, up, asked, size, answer>>
    BY <1>3 DEF Udp!send_msg, Udp!Side, UdpSound, Quiet
  <2>2. down' = <<UdpReply>>
    BY <1>3, <2>1 DEF Udp!send_msg, Quiet
  <2> QED  BY <2>1, <2>2 DEF Counted, UdpSound, UdpAnswered, UdpReply, UpTo, Quiet, Line, Reply
<1> QED  BY <1>1, <1>2, <1>3 DEF Udp!Server

\* The user, the network and a server that dies.
LEMMA UdpOthers ==
  ASSUME Counted, UdpSound, UdpAnswered, Udp!Others, Clean', client'.pc # "closed"
  PROVE  Counted' /\ UdpSound' /\ UdpAnswered'
<1>1. CASE Udp!Types
  <2>1. PICK n \in 0..MaxSize : Udp!Asks(n, Udp!Text(asked + 1, n))
    BY <1>1 DEF Udp!Types, Udp!Leaves, Udp!Side
  <2>2. /\ client.pc = "input" /\ asked' = asked + 1 /\ size' = n /\ answer' = None
        /\ client'.pc = "send" /\ client'.out = Text(asked + 1, n)
        /\ UNCHANGED <<server, up, down>>
    BY <2>1 DEF Udp!Asks, Udp!Sending, Udp!Side, Udp!Text, Text
  <2> QED  BY <2>2 DEF Counted, UdpSound, UdpAnswered, UdpReply, UpTo, Quiet, Line, Reply
<1>2. CASE Udp!Loses
  <2>1. UNCHANGED <<client, server, asked, size, answer>>
    BY <1>2 DEF Udp!Loses
  <2>2. Quiet' /\ server.pc \in {"recv", "closed"}
    <3>1. CASE (\E i \in DOMAIN up : up' = Udp!RemoveAt(up, i)) /\ UNCHANGED down
      BY <3>1, TakesOnly DEF UdpSound, Quiet
    <3>2. CASE (\E i \in DOMAIN down : down' = Udp!RemoveAt(down, i)) /\ UNCHANGED up
      BY <3>2, TakesOnly DEF UdpSound, Quiet
    <3> QED  BY <1>2, <3>1, <3>2 DEF Udp!Loses
  <2> QED  BY <2>1, <2>2 DEF Counted, UdpSound, UdpAnswered, UdpReply, UpTo, Quiet, Line, Reply
<1>3. ~Udp!Copies
  BY DEF Udp!Copies, Clean
<1>4. CASE Udp!ServerDies
  BY <1>4 DEF Udp!ServerDies, Udp!Side, Counted, UdpSound, UdpAnswered, UdpReply, UpTo,
      Quiet, Line, Reply
<1> QED  BY <1>1, <1>2, <1>3, <1>4 DEF Udp!Others

-----------------------------------------------------------------------------
(* Sending piece by piece                                                  *)

\* What is left to send after k more bytes.
LEMMA SentPart ==
  ASSUME NEW side, IsSide(side), side.out \in Strings, NEW k \in 0..Len(side.out), NEW pc
  PROVE  /\ Sent(side, k, pc).out = Rest(side.out, k)
         /\ \/ Sent(side, k, pc) = Side(pc)
            \/ /\ Sent(side, k, pc).pc = side.pc /\ Sent(side, k, pc).in = side.in
               /\ Sent(side, k, pc).out # <<>> /\ Sent(side, k, pc).need = side.need
         /\ IsSide(Sent(side, k, pc))
<1>1. CASE k = Len(side.out)
  <2>1. Sent(side, k, pc) = Side(pc) /\ Rest(side.out, k) = <<>>
    BY <1>1, CutsAll DEF Sent
  <2> QED  BY <2>1 DEF IsSide, Side
<1>2. CASE k # Len(side.out)
  <2> DEFINE s == Sent(side, k, pc)
  <2>1. s = [side EXCEPT !.out = Rest(side.out, k)]
    BY <1>2 DEF Sent
  <2>2. /\ s.out = Rest(side.out, k) /\ s.pc = side.pc /\ s.in = side.in /\ s.need = side.need
        /\ IsSide(s)
    BY <2>1 DEF IsSide
  <2>3. Len(Rest(side.out, k)) # 0
    BY <1>2, Cuts, Joins
  <2>4. Rest(side.out, k) # <<>>
    BY <2>3, Joins
  <2> QED  BY <2>2, <2>4
<1> QED  BY <1>1, <1>2

\* The client's bytes are under way in the order they were.
LEMMA ClientSendsPart ==
  ASSUME IsSide(client), client.out \in Strings, up \in Strings,
         NEW pc, ClientSends(pc), client'.pc # "closed"
  PROVE  /\ client.pc = "send" /\ UNCHANGED <<server, down, asked, size, answer, faults>>
         /\ client'.out \in Strings /\ up' \in Strings
         /\ \/ client' = Side(pc)
            \/ client'.pc = "send" /\ client'.out # <<>> /\ client'.in = client.in
         /\ ~Closed(server) => up' \o client'.out = up \o client.out
<1>1. client.pc = "send" /\ UNCHANGED <<server, down, asked, size, answer, faults>>
  BY DEF ClientSends
<1>2. PICK k \in 0..Least(Len(client.out), Room - Len(up)) :
        /\ client' = Sent(client, k, pc)
        /\ up' = IF Closed(server) THEN up ELSE up \o First(client.out, k)
  BY DEF ClientSends, Side
<1>3. k \in 0..Len(client.out)
  BY Joins, ExchangeAssumption DEF Least
<1>4. /\ First(client.out, k) \in Strings /\ Rest(client.out, k) \in Strings
      /\ (up \o First(client.out, k)) \o Rest(client.out, k) = up \o client.out
  BY <1>3, Cuts, Moves
<1>5. /\ client'.out = Rest(client.out, k)
      /\ \/ client' = Side(pc)
         \/ client'.pc = client.pc /\ client'.out # <<>> /\ client'.in = client.in
  BY <1>2, <1>3, SentPart
<1> QED  BY <1>1, <1>2, <1>4, <1>5, Joins

\* And the server's.
LEMMA ServerSendsPart ==
  ASSUME IsSide(server), server.out \in Strings, down \in Strings,
         NEW pc, ServerSends(pc), ~Closed(client)
  PROVE  /\ server.pc = "send" /\ UNCHANGED <<client, up, asked, size, answer, faults>>
         /\ server'.out \in Strings /\ down' \in Strings
         /\ \/ server' = Side(pc)
            \/ server'.pc = "send" /\ server'.out # <<>>
         /\ down' \o server'.out = down \o server.out
<1>1. server.pc = "send" /\ UNCHANGED <<client, up, asked, size, answer, faults>>
  BY DEF ServerSends
<1>2. PICK k \in 0..Least(Len(server.out), Room - Len(down)) :
        server' = Sent(server, k, pc) /\ down' = down \o First(server.out, k)
  BY DEF ServerSends
<1>3. k \in 0..Len(server.out)
  BY Joins, ExchangeAssumption DEF Least
<1>4. /\ First(server.out, k) \in Strings /\ Rest(server.out, k) \in Strings
      /\ (down \o First(server.out, k)) \o Rest(server.out, k) = down \o server.out
  BY <1>3, Cuts, Moves
<1>5. /\ server'.out = Rest(server.out, k)
      /\ \/ server' = Side(pc)
         \/ server'.pc = server.pc /\ server'.out # <<>>
  BY <1>2, <1>3, SentPart
<1> QED  BY <1>1, <1>2, <1>4, <1>5, Joins

-----------------------------------------------------------------------------
(* Text over a stream                                                      *)

\* The line is on its way to the server.
StreamAsks ==
    /\ client.pc \in {"send", "recv"}
    /\ client.pc = "recv" => client.out = <<>>
    /\ client.pc = "send" => client.out # <<>> \/ up = <<>>
    /\ {up, client.out} \subseteq Strings
    /\ server.pc = "recv" /\ up \o client.out = Line /\ down = <<>>

\* The answer is on its way to the client.
StreamReplies ==
    /\ client.pc = "recv" /\ up = <<>>
    /\ \/ server.pc = "recv" /\ down = Reply(Line)
       \/ /\ server.pc = "send" /\ {down, server.out} \subseteq Strings /\ server.out # <<>>
          /\ down \o server.out = Reply(Line)

\* The answer is longer than the client's buffer, which is what becomes of a line
\* the server reads beyond.
StreamOverflows ==
    /\ client.pc = "recv" /\ up = <<>> /\ server.pc \in {"recv", "send"}
    /\ {down, server.out} \subseteq Strings /\ down \o server.out # <<>>
    /\ Len(down \o server.out) > Buffer
    /\ server.pc = "recv" => server.out = <<>>

StreamSound ==
    \/ server.pc = "closed"
    \/ client.pc = "start" /\ Quiet /\ server.pc \in {"init", "accept"}
    \/ client.pc = "input" /\ Quiet /\ server.pc = "recv"
    \/ StreamAsks
    \/ StreamReplies
    \/ StreamOverflows

StreamClient == Connects("recv") \/ ClientSends("recv") \/ Tcp!ClientRecv \/ ClientMeetsEnd({"recv"})
StreamServer ==
    ServerStarts("accept") \/ TcpC!ServerRecv \/ ServerSends("recv") \/ ServerMeetsEnd({"recv"})
StreamOthers ==
    (\E n \in 0..MaxSize : Asks(n, Text(asked + 1, n))) \/ Leaves \/ ServerDies
StreamStep == StreamClient \/ StreamServer \/ StreamOthers

\* Both pairs of programs do this; they differ in what becomes of an empty line.
LEMMA StreamSteps ==
  Tcp!Client \/ Tcp!Server \/ Tcp!Others \/ TcpC!Client \/ TcpC!Server \/ TcpC!Others => StreamStep
<1>1. Tcp!Client => StreamClient
  BY DEF Tcp!Client, Tcp!communicateClient, StreamClient,
         Tcp!Connects, Connects, Tcp!ClientSends, ClientSends, Tcp!ClientMeetsEnd, ClientMeetsEnd,
         Tcp!Side, Side, Tcp!Sent, Sent, Tcp!Rest, Rest, Tcp!First, First, Tcp!Least, Least,
         Tcp!Closed, Closed
<1>2. TcpC!Client => StreamClient
  BY DEF TcpC!Client, TcpC!communicateClient, StreamClient,
         TcpC!Connects, Connects, TcpC!ClientSends, ClientSends, TcpC!ClientMeetsEnd, ClientMeetsEnd,
         TcpC!ClientRecv, Tcp!ClientRecv, TcpC!Cut, Tcp!Cut,
         TcpC!Side, Side, TcpC!Sent, Sent, TcpC!Rest, Rest, TcpC!First, First, TcpC!Least, Least,
         TcpC!Closed, Closed, Tcp!Rest, Tcp!First, Tcp!Least, Tcp!Closed, Tcp!Side
<1>3. Tcp!Server => StreamServer
  BY DEF Tcp!Server, Tcp!communicateServer, StreamServer,
         Tcp!ServerRecv, TcpC!ServerRecv, Tcp!InBuffer, TcpC!InBuffer, Tcp!Cut, TcpC!Cut,
         Tcp!Sending, TcpC!Sending, Tcp!Reply, TcpC!Reply, Tcp!Text, TcpC!Text,
         TcpC!Side, TcpC!Rest, TcpC!First, TcpC!Least, TcpC!Closed,
         Tcp!ServerStarts, ServerStarts, Tcp!ServerSends, ServerSends, Tcp!ServerMeetsEnd, ServerMeetsEnd,
         Tcp!Side, Side, Tcp!Sent, Sent, Tcp!Rest, Rest, Tcp!First, First, Tcp!Least, Least,
         Tcp!Closed, Closed
<1>4. TcpC!Server => StreamServer
  BY DEF TcpC!Server, TcpC!communicateServer, StreamServer,
         TcpC!ServerStarts, ServerStarts, TcpC!ServerSends, ServerSends, TcpC!ServerMeetsEnd, ServerMeetsEnd,
         TcpC!Side, Side, TcpC!Sent, Sent, TcpC!Rest, Rest, TcpC!First, First, TcpC!Least, Least,
         TcpC!Closed, Closed
<1>5. Tcp!Others => StreamOthers
  BY DEF Tcp!Others, Tcp!Types, StreamOthers, Tcp!Asks, Asks, Tcp!Text, Text, Tcp!Leaves, Leaves,
         Tcp!ServerDies, ServerDies, Tcp!Sending, Sending, Tcp!Side, Side
<1>6. TcpC!Others => StreamOthers
  BY DEF TcpC!Others, TcpC!Types, StreamOthers, TcpC!Asks, Asks, TcpC!Text, Text, TcpC!Leaves, Leaves,
         TcpC!ServerDies, ServerDies, TcpC!Sending, Sending, TcpC!Side, Side
<1> QED  BY <1>1, <1>2, <1>3, <1>4, <1>5, <1>6 DEF StreamStep

\* The client that takes all there is when the server has sent all has the answer.
LEMMA StreamClientStep ==
  ASSUME Counted, Shaped, StreamSound, Answered, StreamClient, Clean', client'.pc # "closed"
  PROVE  Counted' /\ StreamSound' /\ Answered'
<1>1. CASE Connects("recv")
  <2>1. /\ client.pc = "start" /\ server.pc = "accept" /\ client' = Side("input")
        /\ server' = Side("recv") /\ UNCHANGED <<up, down, asked, size, answer>>
    BY <1>1, Sides DEF Connects
  <2>2. Quiet
    BY <2>1 DEF StreamSound, StreamAsks, StreamReplies, StreamOverflows
  <2> QED  BY <2>1, <2>2, Sides DEF Counted, StreamSound, Answered, Quiet, Line, Reply
<1>2. CASE ClientSends("recv")
  <2>1. client.pc = "send" /\ UNCHANGED <<server, down, asked, size, answer>>
    BY <1>2 DEF ClientSends
  <2>2. CASE server.pc = "closed"
    BY <2>1, <2>2 DEF Counted, StreamSound, Answered, Line, Reply
  <2>3. CASE server.pc # "closed"
    <3>1. StreamAsks /\ ~Closed(server)
      BY <2>1, <2>3 DEF StreamSound, StreamReplies, StreamOverflows, Closed
    <3>2. /\ client'.out \in Strings /\ up' \in Strings /\ up' \o client'.out = Line
          /\ \/ client' = Side("recv")
             \/ client'.pc = "send" /\ client'.out # <<>>
      BY <1>2, <3>1, ClientSendsPart DEF StreamAsks, Shaped
    <3>3. StreamAsks'
      BY <2>1, <3>1, <3>2, Sides DEF StreamAsks, Line
    <3> QED  BY <2>1, <3>3 DEF Counted, StreamSound, Answered, Line, Reply
  <2> QED  BY <2>2, <2>3
<1>3. CASE Tcp!ClientRecv
  <2> DEFINE k == Least(Buffer, Len(down))
  <2>1. /\ client.pc = "recv" /\ down # <<>> /\ client' = Side("input")
        /\ answer' = First(down, k) /\ down' = Rest(down, k)
        /\ UNCHANGED <<server, up, asked, size>>
    BY <1>3 DEF Tcp!ClientRecv, Tcp!Least, Tcp!First, Tcp!Rest, Tcp!Side, Least, First, Rest, Side
  <2>2. ~(k < Len(down)) /\ server.out = <<>> /\ server.pc # "closed"
    BY <1>3 DEF Tcp!ClientRecv, Tcp!Cut, Tcp!Closed, Tcp!Least, Least, Clean
  <2>7. ~StreamOverflows
    <3> SUFFICES ASSUME StreamOverflows PROVE FALSE
      OBVIOUS
    <3>1. down \in Strings /\ down \o <<>> = down
      BY Joins DEF StreamOverflows
    <3>2. Len(down) > Buffer
      BY <2>2, <3>1 DEF StreamOverflows
    <3> QED  BY <2>2, <3>1, <3>2, Joins, BytesAssumption DEF Least
  <2>3. StreamReplies /\ server.pc = "recv" /\ down = Reply(Line)
    BY <2>1, <2>2, <2>7 DEF StreamSound, StreamAsks, StreamReplies, StreamOverflows
  <2>4. down \in Strings /\ Len(down) \in Nat
    BY <2>3, Lines, Joins DEF Counted
  <2>5. k = Len(down)
    BY <2>2, <2>4, BytesAssumption DEF Least
  <2>6. answer' = Reply(Line) /\ down' = <<>> /\ up = <<>>
    BY <2>1, <2>3, <2>4, <2>5, CutsAll DEF StreamReplies
  <2> QED  BY <2>1, <2>3, <2>6, Sides DEF Counted, StreamSound, Answered, Quiet, Line, Reply
<1>4. ~ClientMeetsEnd({"recv"})
  BY Sides DEF ClientMeetsEnd
<1> QED  BY <1>1, <1>2, <1>3, <1>4 DEF StreamClient

\* The server that takes all there is when the client has sent all has the line.
LEMMA StreamServerStep ==
  ASSUME Counted, Shaped, StreamSound, Answered, StreamServer, Clean', client.pc # "closed"
  PROVE  Counted' /\ StreamSound' /\ Answered'
<1> SUFFICES ASSUME server'.pc # "closed" PROVE Counted' /\ StreamSound' /\ Answered'
  BY DEF StreamServer, ServerStarts, TcpC!ServerRecv, ServerSends, ServerMeetsEnd,
         Counted, StreamSound, Answered, Line, Reply
<1>1. CASE ServerStarts("accept")
  <2>1. /\ server.pc = "init" /\ server' = Side("accept")
        /\ UNCHANGED <<client, up, down, asked, size, answer>>
    BY <1>1, Sides DEF ServerStarts
  <2>2. client.pc = "start" /\ Quiet
    BY <2>1 DEF StreamSound, StreamAsks, StreamReplies, StreamOverflows
  <2> QED  BY <2>1, <2>2, Sides DEF Counted, StreamSound, Answered, Quiet, Line, Reply
<1>2. CASE TcpC!ServerRecv
  <2> DEFINE k == Least(Buffer, Len(up))
  <2>1. PICK text \in {First(up, k), First(up, k) \o Text(0, 1)} :
          /\ server' = Sending(Reply(text))
          /\ Len(First(up, k)) < Buffer => text = First(up, k)
    BY <1>2
    DEF TcpC!ServerRecv, TcpC!InBuffer, TcpC!Least, TcpC!First, TcpC!Side, TcpC!Sending,
        TcpC!Reply, TcpC!Text, Least, First, Side, Sending, Reply, Text
  <2>2. /\ server.pc = "recv" /\ up # <<>>
        /\ up' = Rest(up, k) /\ UNCHANGED <<client, down, asked, size, answer>>
    BY <1>2 DEF TcpC!ServerRecv, TcpC!Least, TcpC!Rest, Least, Rest
  <2>3. ~(k < Len(up)) /\ client.out = <<>>
    BY <1>2 DEF TcpC!ServerRecv, TcpC!Cut, TcpC!Closed, TcpC!Least, Least, Clean
  <2>4. StreamAsks /\ client.pc = "recv"
    BY <2>2, <2>3 DEF StreamSound, StreamAsks, StreamReplies, StreamOverflows, Quiet
  <2>5. up \in Strings /\ Len(up) \in Nat /\ up = Line
    BY <2>3, <2>4, Joins DEF StreamAsks
  <2>6. k = Len(up) /\ k <= Buffer
    BY <2>3, <2>5, BytesAssumption DEF Least
  <2>7. First(up, k) = Line /\ Len(Line) = k /\ up' = <<>> /\ down = <<>>
    BY <2>2, <2>4, <2>5, <2>6, CutsAll DEF StreamAsks
  <2>8. server'.pc = "send" /\ server'.out = Reply(text) /\ client'.pc = "recv" /\ down' = <<>>
    BY <2>1, <2>2, <2>4, <2>7, Sides
  <2>9. Reply(Line) \in Strings /\ Reply(Line) # <<>>
    BY <2>2, <2>5, Lines, Joins, ExchangeAssumption DEF Counted
  <2>10. CASE text = Line
    <3>1. <<>> \in Strings /\ <<>> \o Reply(Line) = Reply(Line)
      BY <2>9, Joins
    <3>2. StreamReplies'
      BY <2>2, <2>7, <2>8, <2>9, <2>10, <3>1 DEF StreamReplies, Line, Reply
    <3> QED  BY <2>2, <3>2 DEF Counted, StreamSound, Answered, Line, Reply
  <2>11. CASE text # Line
    <3>1. text = Line \o Text(0, 1) /\ Len(Line) = Buffer
      BY <2>1, <2>6, <2>7, <2>11, BytesAssumption
    <3>2. text \in Strings /\ Len(text) = Buffer + 1
      <4>1. Text(0, 1) \in Strings /\ Len(Text(0, 1)) = 1
        BY Texts
      <4> QED  BY <2>5, <3>1, <4>1, Joins
    <3>3. Reply(text) \in Strings /\ Len(Reply(text)) = Prefix + Buffer + 1
      <4>1. /\ Text(0, Prefix) \in Strings /\ Len(Text(0, Prefix)) = Prefix
            /\ Prefix \in Nat /\ Buffer \in Nat
        BY Texts, ExchangeAssumption, BytesAssumption
      <4>2. Reply(text) \in Strings /\ Len(Reply(text)) = Prefix + Len(text)
        BY <3>2, <4>1, Joins DEF Reply
      <4> QED  BY <3>2, <4>1, <4>2
    <3>4. <<>> \in Strings /\ <<>> \o Reply(text) = Reply(text) /\ Reply(text) # <<>>
      BY <3>3, Joins, ExchangeAssumption, BytesAssumption
    <3>5. Len(Reply(text)) > Buffer
      BY <3>3, ExchangeAssumption, BytesAssumption
    <3>6. StreamOverflows'
      BY <2>7, <2>8, <3>3, <3>4, <3>5 DEF StreamOverflows
    <3> QED  BY <2>2, <3>6 DEF Counted, StreamSound, Answered, Line, Reply
  <2> QED  BY <2>10, <2>11
<1>3. CASE ServerSends("recv")
  <2>1. server.pc = "send" /\ UNCHANGED <<client, up, asked, size, answer>>
    BY <1>3 DEF ServerSends
  <2>2. StreamReplies \/ StreamOverflows
    BY <2>1 DEF StreamSound, StreamAsks
  <2>3. client.pc = "recv" /\ up = <<>> /\ {down, server.out} \subseteq Strings /\ ~Closed(client)
    BY <2>1, <2>2 DEF StreamReplies, StreamOverflows, Closed
  <2>4. /\ server'.out \in Strings /\ down' \in Strings
        /\ down' \o server'.out = down \o server.out
        /\ \/ server' = Side("recv")
           \/ server'.pc = "send" /\ server'.out # <<>>
    BY <1>3, <2>3, ServerSendsPart DEF Shaped
  <2>5. CASE StreamReplies
    <3>1. down' \o server'.out = Reply(Line)
      BY <2>1, <2>4, <2>5 DEF StreamReplies
    <3>2. StreamReplies'
      <4>1. CASE server' = Side("recv")
        <5>1. server'.pc = "recv" /\ down' = Reply(Line)
          BY <2>4, <3>1, <4>1, Sides, Joins
        <5> QED  BY <2>1, <2>3, <5>1 DEF StreamReplies, Line, Reply
      <4>2. CASE server'.pc = "send" /\ server'.out # <<>>
        BY <2>1, <2>3, <2>4, <3>1, <4>2 DEF StreamReplies, Line, Reply
      <4> QED  BY <2>4, <4>1, <4>2
    <3> QED  BY <2>1, <3>2 DEF Counted, StreamSound, Answered, Line, Reply
  <2>6. CASE StreamOverflows
    <3>1. StreamOverflows'
      BY <2>1, <2>3, <2>4, <2>6, Sides DEF StreamOverflows
    <3> QED  BY <2>1, <3>1 DEF Counted, StreamSound, Answered, Line, Reply
  <2> QED  BY <2>2, <2>5, <2>6
<1>4. ~ServerMeetsEnd({"recv"})
  BY Sides DEF ServerMeetsEnd
<1> QED  BY <1>1, <1>2, <1>3, <1>4 DEF StreamServer

\* A new line is asked when the old one is done with.
LEMMA StreamOthersStep ==
  ASSUME Counted, Shaped, StreamSound, Answered, StreamOthers, client'.pc # "closed"
  PROVE  Counted' /\ StreamSound' /\ Answered'
<1>1. CASE \E n \in 0..MaxSize : Asks(n, Text(asked + 1, n))
  <2>1. PICK n \in 0..MaxSize : Asks(n, Text(asked + 1, n))
    BY <1>1
  <2>2. /\ client.pc = "input" /\ asked' = asked + 1 /\ size' = n /\ answer' = None
        /\ client' = Sending(Text(asked + 1, n)) /\ UNCHANGED <<server, up, down>>
    BY <2>1 DEF Asks
  <2>3. Text(asked + 1, n) \in Strings /\ Line' = Text(asked + 1, n) /\ n \in 0..MaxSize
    BY <2>2, Texts DEF Counted, Line
  <2>4. server.pc # "closed" => StreamAsks'
    <3> SUFFICES ASSUME server.pc # "closed" PROVE StreamAsks'
      OBVIOUS
    <3>1. Quiet /\ server.pc = "recv"
      BY <2>2 DEF StreamSound, StreamAsks, StreamReplies, StreamOverflows
    <3>2. client'.pc = "send" /\ client'.out = Line' /\ up' = <<>> /\ down' = <<>>
      BY <2>2, <2>3, <3>1, Sides DEF Quiet
    <3>3. <<>> \in Strings /\ <<>> \o Line' = Line'
      BY <2>3, Joins
    <3> QED  BY <2>2, <2>3, <3>1, <3>2, <3>3 DEF StreamAsks
  <2> QED  BY <2>2, <2>3, <2>4 DEF Counted, StreamSound, Answered
<1>2. ~Leaves
  BY Sides DEF Leaves
<1>3. CASE ServerDies
  BY <1>3, Sides DEF ServerDies, Counted, StreamSound, Answered, Line, Reply
<1> QED  BY <1>1, <1>2, <1>3 DEF StreamOthers

-----------------------------------------------------------------------------
(* Packets                                                                 *)

\* The line is on its way to the server, which has read a part of it.
PacketAsks ==
    /\ client.pc \in {"send", "head"}
    /\ client.pc = "send" <=> client.out # <<>>
    /\ client.in = <<>> /\ down = <<>>
    /\ client.out \in Strings
    /\ \/ server.pc = "head" /\ up \o client.out = Package!Packet(Line)
       \/ /\ server.pc = "body" /\ server.in \in Strings
          /\ (server.in \o up) \o client.out = Line
          /\ server.need = size /\ Len(server.in) < size

\* What client c has read, what is on its way, and the rest that is not sent yet
\* are the packet of the text.
Reading(c, chan, rest, text) ==
    /\ {c.in, chan, rest} \subseteq Strings
    /\ \/ /\ c.pc = "head" /\ (c.in \o chan) \o rest = Package!Packet(text)
          /\ Len(c.in) < HeaderBytes
       \/ /\ c.pc = "body" /\ (c.in \o chan) \o rest = text
          /\ c.need = Len(text) /\ Len(c.in) < c.need

\* The answer is on its way to the client; if the server died the client never
\* sees the rest.
PacketReplies ==
    \/ up = <<>> /\ server.pc = "head" /\ Reading(client, down, <<>>, Reply(Line))
    \/ /\ up = <<>> /\ server.pc = "send" /\ server.out # <<>>
       /\ Reading(client, down, server.out, Reply(Line))
    \/ server.pc = "closed" /\ \E rest \in Strings : Reading(client, down, rest, Reply(Line))

PacketSound ==
    /\ up \in Strings
    /\ \/ client.pc = "start" /\ Quiet /\ server.pc \in {"init", "accept", "closed"}
       \/ client.pc = "input" /\ Quiet /\ server.pc = "head"
       \/ PacketAsks
       \/ PacketReplies
       \/ /\ client.pc \in {"input", "send"} /\ down = <<>> /\ server.pc = "closed"
          /\ client.pc = "send" => client.out \in Strings

\* A packet is never empty.
LEMMA Packeted ==
  ASSUME NEW text \in Strings
  PROVE  /\ Package!Packet(text) = Package!Header(Len(text)) \o text
         /\ Package!Header(Len(text)) \in Strings /\ Len(Package!Header(Len(text))) = HeaderBytes
         /\ Package!Packet(text) \in Strings /\ Package!Packet(text) # <<>>
<1>1. Package!Header(Len(text)) \in Strings /\ Len(Package!Header(Len(text))) = HeaderBytes
  BY Joins, Headers
<1>2. Package!Packet(text) = Package!Header(Len(text)) \o text
  BY DEF Package!Packet
<1>3. Package!Packet(text) \in Strings /\ Len(Package!Packet(text)) = HeaderBytes + Len(text)
  BY <1>1, <1>2, Joins
<1>4. Len(Package!Packet(text)) # 0
  BY <1>3, Joins, BytesAssumption
<1> QED  BY <1>1, <1>2, <1>3, <1>4, Joins

\* A client that waits for a packet has the whole of it before it.
LEMMA StartsReading ==
  ASSUME NEW text \in Strings, NEW c, c.pc = "head", c.in = <<>>
  PROVE  Reading(c, <<>>, Package!Packet(text), text)
<1>1. /\ <<>> \in Strings /\ Package!Packet(text) \in Strings
      /\ (<<>> \o <<>>) \o Package!Packet(text) = Package!Packet(text) /\ Len(<<>>) = 0
  BY Packeted, Joins
<1> QED  BY <1>1, BytesAssumption DEF Reading

\* One more recv for n bytes of which a is read, when s has arrived.
LEMMA Takes ==
  ASSUME NEW a \in Strings, NEW s \in Strings, NEW n \in Nat, Len(a) < n
  PROVE  LET k == Least(n - Len(a), Len(s))
             in == a \o First(s, k)
         IN  /\ in \in Strings /\ Rest(s, k) \in Strings /\ in \o Rest(s, k) = a \o s
             /\ Len(in) \in Nat /\ Len(in) <= n
<1> DEFINE k == Least(n - Len(a), Len(s))
<1>1. Len(a) \in Nat /\ Len(s) \in Nat
  BY Joins
<1>2. k \in 0..Len(s) /\ k <= n - Len(a)
  BY <1>1 DEF Least
<1> HIDE DEF k
<1>3. First(s, k) \in Strings /\ Rest(s, k) \in Strings /\ Len(First(s, k)) = k
  BY <1>2, Cuts
<1>4. a \o First(s, k) \in Strings /\ Len(a \o First(s, k)) = Len(a) + k
  BY <1>3, Joins
<1>5. (a \o First(s, k)) \o Rest(s, k) = a \o s
  BY <1>2, Moves
<1>6. Len(a \o First(s, k)) \in Nat /\ Len(a \o First(s, k)) <= n
  BY <1>1, <1>2, <1>4
<1> QED  BY <1>3, <1>4, <1>5, <1>6 DEF k

\* The client collects the length in pieces, and knows then how much to wait for.
LEMMA HeadReads ==
  ASSUME NEW rest, NEW text \in Strings, Len(text) \in 0..Prefix + MaxSize,
         IsSide(client), Reading(client, down, rest, text),
         Package!ClientHead, client'.pc # "closed"
  PROVE  \/ Reading(client', down', rest, text) /\ UNCHANGED answer
         \/ client' = Side("input") /\ answer' = text /\ down' = <<>> /\ rest = <<>>
<1> DEFINE k == Least(HeaderBytes - Len(client.in), Len(down))
           in == client.in \o First(down, k)
<1>1. client.pc = "head" /\ down' = Rest(down, k)
  BY DEF Package!ClientHead, Package!ClientReads, Package!Least, Package!Rest, Least, Rest
<1>2. \/ Len(in) < HeaderBytes /\ client' = [client EXCEPT !.in = in] /\ UNCHANGED answer
      \/ Len(in) = HeaderBytes /\ Package!ClientHas(<<>>, Package!Number(in))
  <2>1. in = client.in \o Package!First(down, Package!Least(HeaderBytes - Len(client.in), Len(down)))
    BY DEF Package!Least, Package!First, Least, First
  <2> HIDE DEF in
  <2> QED  BY <2>1, Sides DEF Package!ClientHead, Package!Side, Side
<1>3. /\ client.in \in Strings /\ down \in Strings /\ rest \in Strings
      /\ Len(client.in) < HeaderBytes
      /\ (client.in \o down) \o rest = Package!Packet(text)
  BY <1>1 DEF Reading
<1>4. /\ in \in Strings /\ down' \in Strings /\ in \o down' = client.in \o down
      /\ Len(in) \in Nat /\ Len(in) <= HeaderBytes
  <2>1. HeaderBytes \in Nat
    BY BytesAssumption
  <2> QED  BY <1>1, <1>3, <2>1, Takes
<1>5. (in \o down') \o rest = Package!Packet(text)
  BY <1>3, <1>4
<1> HIDE DEF in
<1>6. CASE Len(in) < HeaderBytes
  <2>1. client' = [client EXCEPT !.in = in] /\ UNCHANGED answer
    BY <1>2, <1>4, <1>6, BytesAssumption
  <2>2. client'.pc = "head" /\ client'.in = in
    BY <1>1, <2>1 DEF IsSide
  <2> QED  BY <1>3, <1>4, <1>5, <1>6, <2>1, <2>2 DEF Reading
<1>7. CASE Len(in) = HeaderBytes
  <2>1. /\ in \o (down' \o rest) = Package!Header(Len(text)) \o text /\ down' \o rest \in Strings
        /\ Package!Header(Len(text)) \in Strings /\ Len(Package!Header(Len(text))) = HeaderBytes
    <3>1. (in \o down') \o rest = in \o (down' \o rest)
      BY <1>3, <1>4, Associates
    <3>2. down' \o rest \in Strings
      BY <1>3, <1>4, Joins
    <3> QED  BY <1>5, <3>1, <3>2, Packeted
  <2>2. in = Package!Header(Len(text)) /\ down' \o rest = text
    BY <1>4, <1>7, <2>1, Splits
  <2>3. Package!Number(in) = Len(text)
    BY <2>2, LengthAssumption
  <2>4. Package!ClientHas(<<>>, Len(text))
    BY <1>2, <1>7, <2>3, BytesAssumption
  <2>5. CASE Len(text) = 0
    <3>1. client' = Side("input") /\ answer' = <<>>
      BY <2>4, <2>5, Joins DEF Package!ClientHas, Package!Side, Side
    <3>2. text = <<>> /\ down' \o rest = <<>>
      BY <2>2, <2>5, Joins
    <3>3. down' = <<>> /\ rest = <<>>
      BY <1>3, <1>4, <3>2, ConcatSimplifications DEF Strings
    <3> QED  BY <3>1, <3>2, <3>3
  <2>6. CASE Len(text) # 0
    <3>1. /\ client' = [Package!Side("body") EXCEPT !.in = <<>>, !.need = Len(text)]
          /\ UNCHANGED answer
      BY <2>4, <2>6, Joins DEF Package!ClientHas
    <3>2. client'.pc = "body" /\ client'.in = <<>> /\ client'.need = Len(text)
      BY <3>1 DEF Package!Side
    <3>3. /\ <<>> \in Strings /\ <<>> \o down' = down' /\ Len(<<>>) = 0
          /\ Len(text) \in Nat
      BY <1>4, Joins
    <3> QED  BY <1>3, <1>4, <2>2, <2>6, <3>1, <3>2, <3>3 DEF Reading
  <2> QED  BY <2>5, <2>6
<1> QED  BY <1>4, <1>6, <1>7, BytesAssumption

\* Then it collects the text.
LEMMA BodyReads ==
  ASSUME NEW rest, NEW text \in Strings, IsSide(client), Reading(client, down, rest, text),
         Package!ClientBody
  PROVE  \/ Reading(client', down', rest, text) /\ UNCHANGED answer
         \/ client' = Side("input") /\ answer' = text /\ down' = <<>> /\ rest = <<>>
<1> DEFINE k == Least(client.need - Len(client.in), Len(down))
           in == client.in \o First(down, k)
<1>1. client.pc = "body" /\ down' = Rest(down, k) /\ Package!ClientHas(in, client.need)
  BY DEF Package!ClientBody, Package!ClientReads, Package!Least, Package!First, Package!Rest,
         Least, First, Rest
<1>2. /\ client.in \in Strings /\ down \in Strings /\ rest \in Strings
      /\ Len(client.in) < client.need
      /\ (client.in \o down) \o rest = text /\ client.need = Len(text)
  BY <1>1 DEF Reading
<1>3. Len(text) \in Nat
  BY Joins
<1>4. /\ in \in Strings /\ down' \in Strings /\ in \o down' = client.in \o down
      /\ Len(in) \in Nat /\ Len(in) <= Len(text)
  <2>1. client.in \in Strings /\ down \in Strings /\ Len(client.in) < Len(text)
    BY <1>2
  <2>2. in = client.in \o First(down, Least(Len(text) - Len(client.in), Len(down)))
    BY <1>2
  <2>3. down' = Rest(down, Least(Len(text) - Len(client.in), Len(down)))
    BY <1>1, <1>2
  <2> HIDE DEF in
  <2> QED  BY <1>3, <2>1, <2>2, <2>3, Takes
<1>5. (in \o down') \o rest = text
  BY <1>2, <1>4
<1> HIDE DEF in
<1>6. CASE Len(in) = Len(text)
  <2>1. client' = Side("input") /\ answer' = in
    BY <1>1, <1>2, <1>6 DEF Package!ClientHas, Package!Side, Side
  <2>2. in \o (down' \o rest) = text \o <<>> /\ down' \o rest \in Strings /\ <<>> \in Strings
    <3>1. (in \o down') \o rest = in \o (down' \o rest)
      <4>1. in \in Strings /\ down' \in Strings /\ rest \in Strings
        BY <1>2, <1>4
      <4> QED  BY <4>1, Associates
    <3>2. down' \o rest \in Strings
      BY <1>2, <1>4, Joins
    <3>3. text \o <<>> = text /\ <<>> \in Strings
      BY Joins
    <3> QED  BY <1>5, <3>1, <3>2, <3>3
  <2>3. in = text /\ down' \o rest = <<>>
    BY <1>4, <1>6, <2>2, Splits
  <2>4. down' = <<>> /\ rest = <<>>
    BY <1>2, <1>4, <2>3, ConcatSimplifications DEF Strings
  <2> QED  BY <2>1, <2>3, <2>4
<1>7. CASE Len(in) # Len(text)
  <2>1. /\ client' = [Package!Side("body") EXCEPT !.in = in, !.need = client.need]
        /\ UNCHANGED answer
    BY <1>1, <1>2, <1>7 DEF Package!ClientHas
  <2>2. client'.pc = "body" /\ client'.in = in /\ client'.need = client.need
    BY <2>1 DEF Package!Side
  <2>3. Len(in) < Len(text)
    BY <1>3, <1>4, <1>7
  <2> QED  BY <1>2, <1>4, <1>5, <2>1, <2>2, <2>3 DEF Reading
<1> QED  BY <1>6, <1>7

PacketClient == Connects("head") \/ ClientSends("head") \/ Package!ClientHead \/ Package!ClientBody
                \/ ClientMeetsEnd({"head", "body"})
PacketServer == ServerStarts("accept") \/ Package!ServerHead \/ Package!ServerBody \/ ServerSends("head")
                \/ ServerMeetsEnd({"head", "body"})
PacketOthers ==
    (\E n \in 0..MaxSize : Asks(n, Package!Packet(Text(asked + 1, n)))) \/ Leaves \/ ServerDies
PacketStep == PacketClient \/ PacketServer \/ PacketOthers

\* The steps of the pair of programs in the terms they share with the others.
LEMMA PacketSteps == Package!Client \/ Package!Server \/ Package!Others => PacketStep
<1>1. Package!Client => PacketClient
  BY DEF Package!Client, Package!ClientGetsPacket, PacketClient,
         Package!Connects, Connects, Package!ClientSends, ClientSends,
         Package!ClientMeetsEnd, ClientMeetsEnd,
         Package!Side, Side, Package!Sent, Sent, Package!Rest, Rest, Package!First, First,
         Package!Least, Least, Package!Closed, Closed
<1>2. Package!Server => PacketServer
  BY DEF Package!Server, Package!ServerGetsPacket, PacketServer,
         Package!ServerStarts, ServerStarts, Package!ServerSends, ServerSends,
         Package!ServerMeetsEnd, ServerMeetsEnd,
         Package!Side, Side, Package!Sent, Sent, Package!Rest, Rest, Package!First, First,
         Package!Least, Least, Package!Closed, Closed
<1>3. Package!Others => PacketOthers
  BY DEF Package!Others, Package!Types, PacketOthers, Package!Asks, Asks, Package!Text, Text,
         Package!Leaves, Leaves, Package!ServerDies, ServerDies, Package!Sending, Sending,
         Package!Side, Side
<1> QED  BY <1>1, <1>2, <1>3 DEF PacketStep

\* The client sends its line and reads the answer.
LEMMA PacketClientStep ==
  ASSUME Counted, Shaped, PacketSound, Answered, PacketClient, client'.pc # "closed"
  PROVE  Counted' /\ PacketSound' /\ Answered'
<1>1. CASE Connects("head")
  <2>1. /\ client.pc = "start" /\ server.pc = "accept" /\ client' = Side("input")
        /\ server' = Side("head") /\ UNCHANGED <<up, down, asked, size, answer>>
    BY <1>1, Sides DEF Connects
  <2>2. Quiet
    BY <2>1 DEF PacketSound, PacketAsks, PacketReplies
  <2> QED  BY <2>1, <2>2, Sides DEF Counted, PacketSound, Answered, Quiet, Line, Reply
<1>2. CASE ClientSends("head")
  <2>1. client.pc = "send" /\ UNCHANGED <<server, down, asked, size, answer>>
    BY <1>2 DEF ClientSends
  <2>2. down = <<>> /\ client.out \in Strings /\ (PacketAsks \/ server.pc = "closed")
    BY <2>1 DEF PacketSound, PacketAsks, PacketReplies, Reading
  <2>3. /\ client'.out \in Strings /\ up' \in Strings
        /\ \/ client' = Side("head")
           \/ client'.pc = "send" /\ client'.out # <<>> /\ client'.in = client.in
        /\ ~Closed(server) => up' \o client'.out = up \o client.out
    BY <1>2, <2>2, ClientSendsPart DEF PacketSound, Shaped
  <2>4. CASE server.pc = "closed"
    <3>1. CASE client' = Side("head")
      <4>1. Reply(Line) \in Strings /\ client'.pc = "head" /\ client'.in = <<>>
        BY <3>1, Lines, Sides DEF Counted
      <4>2. Reading(client', <<>>, Package!Packet(Reply(Line)), Reply(Line))
        BY <4>1, StartsReading
      <4>3. Package!Packet(Reply(Line)) \in Strings
        BY <4>1, Packeted
      <4>4. PacketReplies'
        BY <2>1, <2>2, <2>4, <4>2, <4>3 DEF PacketReplies, Line, Reply
      <4> QED  BY <2>1, <2>3, <4>4 DEF Counted, PacketSound, Answered, Line, Reply
    <3>2. CASE client'.pc = "send"
      BY <2>1, <2>2, <2>3, <2>4, <3>2 DEF Counted, PacketSound, Answered, Line, Reply
    <3> QED  BY <2>3, <3>1, <3>2
  <2>5. CASE server.pc # "closed"
    <3>1. PacketAsks /\ up' \o client'.out = up \o client.out
      BY <2>2, <2>3, <2>5 DEF Closed
    <3>2. /\ client'.pc \in {"send", "head"} /\ (client'.pc = "send" <=> client'.out # <<>>)
          /\ client'.in = <<>>
      BY <2>3, <3>1, Sides DEF PacketAsks
    <3>3. server.pc = "head" => up' \o client'.out = Package!Packet(Line)
      BY <3>1 DEF PacketAsks
    <3>4. server.pc = "body" => (server.in \o up') \o client'.out = Line
      <4> SUFFICES ASSUME server.pc = "body" PROVE (server.in \o up') \o client'.out = Line
        OBVIOUS
      <4>1. /\ server.in \in Strings /\ up \in Strings /\ client.out \in Strings
            /\ (server.in \o up) \o client.out = Line
        BY <3>1 DEF PacketAsks, PacketSound
      <4>2. (server.in \o up) \o client.out = server.in \o (up \o client.out)
        BY <4>1, Associates
      <4>3. (server.in \o up') \o client'.out = server.in \o (up' \o client'.out)
        BY <2>3, <4>1, Associates
      <4> QED  BY <3>1, <4>1, <4>2, <4>3
    <3>5. PacketAsks'
      BY <2>1, <2>2, <2>3, <3>1, <3>2, <3>3, <3>4 DEF PacketAsks, Line
    <3> QED  BY <2>1, <2>3, <3>5 DEF Counted, PacketSound, Answered, Line, Reply
  <2> QED  BY <2>4, <2>5
<1>3. CASE Package!ClientHead \/ Package!ClientBody
  <2>1. /\ client.pc \in {"head", "body"} /\ down # <<>>
        /\ UNCHANGED <<server, up, asked, size>>
    BY <1>3 DEF Package!ClientHead, Package!ClientBody, Package!ClientReads
  <2>2. PacketReplies
    BY <2>1 DEF PacketSound, PacketAsks, Quiet
  <2>3. PICK rest \in Strings :
          /\ Reading(client, down, rest, Reply(Line))
          /\ \/ up = <<>> /\ server.pc = "head" /\ rest = <<>>
             \/ up = <<>> /\ server.pc = "send" /\ server.out # <<>> /\ rest = server.out
             \/ server.pc = "closed"
    BY <2>2, Joins DEF PacketReplies, Reading
  <2>4. Reply(Line) \in Strings /\ Len(Reply(Line)) \in 0..Prefix + MaxSize
    BY Lines, ExchangeAssumption DEF Counted
  <2>5. \/ Reading(client', down', rest, Reply(Line)) /\ UNCHANGED answer
        \/ client' = Side("input") /\ answer' = Reply(Line) /\ down' = <<>> /\ rest = <<>>
    BY <1>3, <2>3, <2>4, HeadReads, BodyReads DEF Shaped
  <2>6. CASE Reading(client', down', rest, Reply(Line)) /\ UNCHANGED answer
    <3>1. PacketReplies'
      BY <2>1, <2>3, <2>6 DEF PacketReplies, Line, Reply
    <3> QED  BY <2>1, <2>6, <3>1 DEF Counted, PacketSound, Answered, Line, Reply
  <2>7. CASE client' = Side("input") /\ answer' = Reply(Line) /\ down' = <<>> /\ rest = <<>>
    BY <2>1, <2>3, <2>7, Sides DEF Counted, PacketSound, Quiet, Answered, Line, Reply
  <2> QED  BY <2>5, <2>6, <2>7
<1>4. ~ClientMeetsEnd({"head", "body"})
  BY Sides DEF ClientMeetsEnd
<1> QED  BY <1>1, <1>2, <1>3, <1>4 DEF PacketClient

\* A server that has the whole line sends the answer.
LEMMA ServerReplies ==
  ASSUME Counted, Shaped, PacketSound, client.in = <<>>, client.out = <<>>, client.pc = "head",
         UNCHANGED <<client, down, asked, size, answer>>, down = <<>>, up' = <<>>,
         server' = Sending(Package!Packet(Reply(Line)))
  PROVE  PacketSound'
<1>1. Reply(Line) \in Strings /\ server'.pc = "send" /\ server'.out = Package!Packet(Reply(Line))
  BY Lines, Sides DEF Counted
<1>2. /\ Reading(client, <<>>, Package!Packet(Reply(Line)), Reply(Line))
      /\ Package!Packet(Reply(Line)) # <<>> /\ <<>> \in Strings
  BY <1>1, StartsReading, Packeted, Joins
<1>3. PacketReplies'
  BY <1>1, <1>2 DEF PacketReplies, Line, Reply
<1> QED  BY <1>2, <1>3 DEF PacketSound

\* The server that gets a whole length in one recv reads just one packet.
LEMMA PacketServerStep ==
  ASSUME Counted, Shaped, PacketSound, Answered, PacketServer, Clean', client.pc # "closed"
  PROVE  Counted' /\ PacketSound' /\ Answered'
<1>1. CASE ServerStarts("accept")
  <2>1. /\ server.pc = "init" /\ server' \in {Side("accept"), Side("closed")}
        /\ UNCHANGED <<client, up, down, asked, size, answer>>
    BY <1>1 DEF ServerStarts
  <2>2. client.pc = "start" /\ Quiet
    BY <2>1 DEF PacketSound, PacketAsks, PacketReplies
  <2> QED  BY <2>1, <2>2, Sides DEF Counted, PacketSound, Answered, Quiet, Line, Reply
<1>2. CASE Package!ServerHead
  <2> DEFINE k == Least(HeaderBytes, Len(up))
  <2>1. /\ server.pc = "head" /\ up # <<>> /\ up' = Rest(up, k)
        /\ UNCHANGED <<client, down, asked, size, answer>>
    BY <1>2 DEF Package!ServerHead, Package!ServerReads, Package!Least, Package!Rest, Least, Rest
  <2>2. Package!ServerHas(<<>>, Package!Number(First(up, k)))
    BY <1>2 DEF Package!ServerHead, Package!Least, Package!First, Least, First
  <2>3. ~(k < HeaderBytes)
    BY <1>2 DEF Package!ServerHead, Package!Least, Least, Clean
  <2>4. PacketAsks /\ up \o client.out = Package!Packet(Line)
    BY <2>1 DEF PacketSound, PacketAsks, PacketReplies, Quiet
  <2>5. up \in Strings /\ client.out \in Strings /\ Line \in Strings /\ Len(Line) = size
    BY <2>4, Lines DEF PacketSound, PacketAsks, Counted
  <2>6. k = HeaderBytes /\ k \in 0..Len(up)
    BY <2>3, <2>5, Joins, BytesAssumption DEF Least
  <2> HIDE DEF k
  <2>7. /\ First(up, k) \in Strings /\ up' \in Strings /\ Len(First(up, k)) = HeaderBytes
        /\ First(up, k) \o up' = up
    BY <2>1, <2>5, <2>6, Cuts
  <2>8. First(up, k) \o (up' \o client.out) = Package!Packet(Line) /\ up' \o client.out \in Strings
    <3>1. (First(up, k) \o up') \o client.out = First(up, k) \o (up' \o client.out)
      BY <2>5, <2>7, Associates
    <3> QED  BY <2>4, <2>5, <2>7, <3>1, Joins
  <2>9. First(up, k) = Package!Header(size) /\ up' \o client.out = Line
    <3>1. /\ Package!Packet(Line) = Package!Header(size) \o Line
          /\ Package!Header(size) \in Strings /\ Len(Package!Header(size)) = HeaderBytes
      BY <2>5, Packeted
    <3>2. First(up, k) \o (up' \o client.out) = Package!Header(size) \o Line
      BY <2>8, <3>1
    <3>3. /\ First(up, k) \in Strings /\ up' \o client.out \in Strings /\ Line \in Strings
          /\ Len(First(up, k)) = Len(Package!Header(size))
      BY <2>5, <2>7, <2>8, <3>1
    <3> QED  BY <3>1, <3>2, <3>3, Splits
  <2>10. Package!Number(First(up, k)) = size /\ size \in Nat
    BY <2>9, LengthAssumption, ExchangeAssumption DEF Counted
  <2>11. CASE size = 0
    <3>1. Line = <<>>
      BY <2>5, <2>11, Joins
    <3>2. up' = <<>> /\ client.out = <<>>
      BY <2>5, <2>7, <2>9, <3>1, ConcatSimplifications DEF Strings
    <3>3. server' = Sending(Package!Packet(Reply(Line)))
      BY <2>2, <2>10, <2>11, <3>1, Joins
      DEF Package!ServerHas, Package!Sending, Package!Side, Package!Reply, Package!Text,
          Sending, Side, Reply, Text
    <3>4. client.pc = "head" /\ client.in = <<>> /\ down = <<>>
      BY <2>4, <3>2 DEF PacketAsks
    <3>5. PacketSound'
      BY <2>1, <3>2, <3>3, <3>4, ServerReplies
    <3> QED  BY <2>1, <3>5 DEF Counted, Answered, Line, Reply
  <2>12. CASE size # 0
    <3>1. server' = [Package!Side("body") EXCEPT !.in = <<>>, !.need = size]
      BY <2>2, <2>10, <2>12, Joins DEF Package!ServerHas
    <3>2. server'.pc = "body" /\ server'.in = <<>> /\ server'.need = size
      BY <3>1 DEF Package!Side
    <3>3. <<>> \in Strings /\ <<>> \o up' = up' /\ Len(<<>>) = 0
      BY <2>7, Joins
    <3>4. PacketAsks'
      BY <2>1, <2>4, <2>9, <2>10, <2>12, <3>2, <3>3 DEF PacketAsks, Line
    <3> QED  BY <2>1, <2>7, <3>4 DEF Counted, PacketSound, Answered, Line, Reply
  <2> QED  BY <2>11, <2>12
<1>3. CASE Package!ServerBody
  <2> DEFINE k == Least(server.need - Len(server.in), Len(up))
             in == server.in \o First(up, k)
  <2>1. /\ server.pc = "body" /\ up # <<>> /\ up' = Rest(up, k)
        /\ UNCHANGED <<client, down, asked, size, answer>>
    BY <1>3 DEF Package!ServerBody, Package!ServerReads, Package!Least, Package!Rest, Least, Rest
  <2>2. Package!ServerHas(in, server.need)
    BY <1>3 DEF Package!ServerBody, Package!Least, Package!First, Least, First
  <2>3. /\ PacketAsks /\ server.in \in Strings /\ server.need = size /\ Len(server.in) < size
        /\ (server.in \o up) \o client.out = Line
    BY <2>1 DEF PacketSound, PacketAsks, PacketReplies, Quiet
  <2>4. /\ up \in Strings /\ client.out \in Strings /\ Line \in Strings /\ Len(Line) = size
        /\ size \in Nat
    <3>1. size \in Nat /\ asked \in Nat
      BY DEF Counted
    <3> QED  BY <2>3, <3>1, Lines DEF PacketSound, PacketAsks
  <2>5. /\ in \in Strings /\ up' \in Strings /\ in \o up' = server.in \o up
        /\ Len(in) \in Nat /\ Len(in) <= size
    <3>1. in = server.in \o First(up, Least(size - Len(server.in), Len(up)))
      BY <2>3
    <3>2. up' = Rest(up, Least(size - Len(server.in), Len(up)))
      BY <2>1, <2>3
    <3>3. server.in \in Strings /\ up \in Strings /\ size \in Nat /\ Len(server.in) < size
      BY <2>3, <2>4
    <3> HIDE DEF in
    <3> QED  BY <3>1, <3>2, <3>3, Takes
  <2> HIDE DEF in
  <2>6. (in \o up') \o client.out = Line
    BY <2>3, <2>5
  <2>7. CASE Len(in) = size
    <3>1. in \o (up' \o client.out) = Line \o <<>> /\ up' \o client.out \in Strings /\ <<>> \in Strings
      <4>1. (in \o up') \o client.out = in \o (up' \o client.out)
        BY <2>4, <2>5, Associates
      <4>2. up' \o client.out \in Strings
        BY <2>4, <2>5, Joins
      <4>3. Line \o <<>> = Line /\ <<>> \in Strings
        BY <2>4, Joins
      <4> QED  BY <2>6, <4>1, <4>2, <4>3
    <3>2. in = Line /\ up' \o client.out = <<>>
      <4>1. in \in Strings /\ Line \in Strings /\ Len(in) = Len(Line)
        BY <2>4, <2>5, <2>7
      <4> QED  BY <3>1, <4>1, Splits
    <3>3. up' = <<>> /\ client.out = <<>>
      BY <2>4, <2>5, <3>2, ConcatSimplifications DEF Strings
    <3>4. server' = Sending(Package!Packet(Reply(Line)))
      BY <2>2, <2>3, <2>7, <3>2
      DEF Package!ServerHas, Package!Sending, Package!Side, Package!Reply, Package!Text,
          Sending, Side, Reply, Text
    <3>5. client.pc = "head" /\ client.in = <<>> /\ down = <<>>
      BY <2>3, <3>3 DEF PacketAsks
    <3>6. PacketSound'
      BY <2>1, <3>3, <3>4, <3>5, ServerReplies
    <3> QED  BY <2>1, <3>6 DEF Counted, Answered, Line, Reply
  <2>8. CASE Len(in) # size
    <3>1. server' = [Package!Side("body") EXCEPT !.in = in, !.need = size]
      BY <2>2, <2>3, <2>8 DEF Package!ServerHas
    <3>2. server'.pc = "body" /\ server'.in = in /\ server'.need = size
      BY <3>1 DEF Package!Side
    <3>3. Len(in) < size
      BY <2>4, <2>5, <2>8
    <3>4. PacketAsks'
      BY <2>1, <2>3, <2>5, <2>6, <3>2, <3>3 DEF PacketAsks, Line
    <3> QED  BY <2>1, <2>5, <3>4 DEF Counted, PacketSound, Answered, Line, Reply
  <2> QED  BY <2>7, <2>8
<1>4. CASE ServerSends("head")
  <2>1. server.pc = "send" /\ UNCHANGED <<client, up, asked, size, answer>>
    BY <1>4 DEF ServerSends
  <2>2. /\ up = <<>> /\ Reading(client, down, server.out, Reply(Line)) /\ ~Closed(client)
    BY <2>1 DEF PacketSound, PacketAsks, PacketReplies, Closed
  <2>3. client.in \in Strings /\ down \in Strings /\ server.out \in Strings
    BY <2>2 DEF Reading
  <2>4. /\ server'.out \in Strings /\ down' \in Strings
        /\ down' \o server'.out = down \o server.out
        /\ \/ server' = Side("head")
           \/ server'.pc = "send" /\ server'.out # <<>>
    BY <1>4, <2>2, <2>3, ServerSendsPart DEF Shaped
  <2>5. (client.in \o down') \o server'.out = (client.in \o down) \o server.out
    <3>1. (client.in \o down') \o server'.out = client.in \o (down' \o server'.out)
      BY <2>3, <2>4, Associates
    <3>2. (client.in \o down) \o server.out = client.in \o (down \o server.out)
      BY <2>3, Associates
    <3> QED  BY <2>4, <3>1, <3>2
  <2>6. Reading(client, down', server'.out, Reply(Line))
    BY <2>2, <2>4, <2>5 DEF Reading
  <2>7. CASE server' = Side("head")
    <3>1. server'.pc = "head" /\ server'.out = <<>>
      BY <2>7, Sides
    <3>2. PacketReplies'
      BY <2>1, <2>2, <2>6, <3>1 DEF PacketReplies, Line, Reply
    <3> QED  BY <2>1, <3>2 DEF Counted, PacketSound, Answered, Line, Reply
  <2>8. CASE server'.pc = "send" /\ server'.out # <<>>
    <3>1. PacketReplies'
      BY <2>1, <2>2, <2>6, <2>8 DEF PacketReplies, Line, Reply
    <3> QED  BY <2>1, <3>1 DEF Counted, PacketSound, Answered, Line, Reply
  <2> QED  BY <2>4, <2>7, <2>8
<1>5. ~ServerMeetsEnd({"head", "body"})
  BY DEF ServerMeetsEnd, Closed
<1> QED  BY <1>1, <1>2, <1>3, <1>4, <1>5 DEF PacketServer

\* A new line is asked when the old one is done with; a server that dies takes
\* the rest of the answer with it.
LEMMA PacketOthersStep ==
  ASSUME Counted, Shaped, PacketSound, Answered, PacketOthers, client'.pc # "closed"
  PROVE  Counted' /\ PacketSound' /\ Answered'
<1>1. CASE \E n \in 0..MaxSize : Asks(n, Package!Packet(Text(asked + 1, n)))
  <2>1. PICK n \in 0..MaxSize : Asks(n, Package!Packet(Text(asked + 1, n)))
    BY <1>1
  <2>2. /\ client.pc = "input" /\ asked' = asked + 1 /\ size' = n /\ answer' = None
        /\ client' = Sending(Package!Packet(Text(asked + 1, n))) /\ UNCHANGED <<server, up, down>>
    BY <2>1 DEF Asks
  <2>3. Text(asked + 1, n) \in Strings /\ Line' = Text(asked + 1, n)
    BY <2>2, Texts DEF Counted, Line
  <2>4. /\ client'.pc = "send" /\ client'.out = Package!Packet(Line') /\ client'.in = <<>>
        /\ client'.out \in Strings /\ client'.out # <<>>
    BY <2>2, <2>3, Sides, Packeted
  <2>5. down = <<>> /\ up \in Strings
    BY <2>2 DEF PacketSound, PacketAsks, PacketReplies, Quiet, Reading
  <2>6. server.pc # "closed" => PacketAsks'
    <3> SUFFICES ASSUME server.pc # "closed" PROVE PacketAsks'
      OBVIOUS
    <3>1. Quiet /\ server.pc = "head"
      BY <2>2 DEF PacketSound, PacketAsks, PacketReplies, Reading
    <3>2. <<>> \o client'.out = client'.out
      BY <2>4, Joins
    <3> QED  BY <2>2, <2>4, <3>1, <3>2 DEF PacketAsks, Quiet
  <2> QED  BY <2>2, <2>4, <2>5, <2>6 DEF Counted, PacketSound, Answered
<1>2. ~Leaves
  BY Sides DEF Leaves
<1>3. CASE ServerDies
  <2>1. /\ server.pc \notin {"init", "closed"} /\ server'.pc = "closed" /\ up' = <<>>
        /\ down' \in {down, <<>>} /\ UNCHANGED <<client, asked, size, answer>>
    BY <1>3, Sides DEF ServerDies
  <2>2. Reply(Line) \in Strings /\ <<>> \in Strings
    BY Lines, Joins DEF Counted
  <2>3. CASE client.pc \in {"start", "input", "send"}
    BY <2>1, <2>2, <2>3 DEF Counted, PacketSound, PacketAsks, PacketReplies, Reading, Quiet, Answered, Line, Reply
  <2>4. CASE PacketAsks /\ client.pc = "head"
    <3>1. Reading(client, <<>>, Package!Packet(Reply(Line)), Reply(Line)) /\ down' = <<>>
      BY <2>1, <2>2, <2>4, StartsReading DEF PacketAsks
    <3>2. Package!Packet(Reply(Line)) \in Strings
      BY <2>2, Packeted
    <3>3. PacketReplies'
      BY <2>1, <3>1, <3>2 DEF PacketReplies, Line, Reply
    <3> QED  BY <2>1, <2>2, <3>3 DEF Counted, PacketSound, Answered, Line, Reply
  <2>5. CASE PacketReplies
    <3>1. PICK rest \in Strings : Reading(client, down, rest, Reply(Line))
      BY <2>2, <2>5 DEF PacketReplies, Reading
    <3>2. client.in \in Strings /\ down \in Strings
      BY <3>1 DEF Reading
    <3>3. \E left \in Strings : Reading(client, down', left, Reply(Line))
      <4>1. CASE down' = down
        BY <3>1, <4>1
      <4>2. CASE down' = <<>>
        <5>1. down \o rest \in Strings /\ client.in \o <<>> = client.in
          BY <3>2, Joins
        <5>2. (client.in \o <<>>) \o (down \o rest) = (client.in \o down) \o rest
          <6>1. (client.in \o down) \o rest = client.in \o (down \o rest)
            BY <3>2, Associates
          <6> QED  BY <5>1, <6>1
        <5>3. Reading(client, <<>>, down \o rest, Reply(Line))
          BY <2>2, <3>1, <5>1, <5>2 DEF Reading
        <5> QED  BY <4>2, <5>1, <5>3
      <4> QED  BY <2>1, <4>1, <4>2
    <3>4. PacketReplies'
      BY <2>1, <3>3 DEF PacketReplies, Line, Reply
    <3> QED  BY <2>1, <2>2, <3>4 DEF Counted, PacketSound, Answered, Line, Reply
  <2> QED  BY <2>3, <2>4, <2>5 DEF PacketSound, PacketAsks
<1> QED  BY <1>1, <1>2, <1>3 DEF PacketOthers

-----------------------------------------------------------------------------
(* Every step                                                              *)

Sound ==
    CASE program = "udp" -> UdpSound
      [] program = "package" -> PacketSound
      [] program \in {"tcp", "tcp_c"} -> StreamSound

AnswerSound == IF program = "udp" THEN UdpAnswered ELSE Answered

\* As long as nothing went wrong that one of the programs does not notice, what
\* is on its way belongs to the line asked last.
IInv ==
    /\ program \in {"package", "udp", "tcp", "tcp_c"}
    /\ Shaped /\ Counted
    /\ Clean => AnswerSound /\ (client.pc # "closed" => Sound)

\* A step of one of the pairs of programs.
UdpStep == Udp!Client \/ Udp!Server \/ Udp!Others
ExchangeStep ==
    \/ program = "udp" /\ UdpStep
    \/ program = "package" /\ PacketStep
    \/ program \in {"tcp", "tcp_c"} /\ StreamStep

\* Nothing else happens.
LEMMA Steps == Next => UNCHANGED program /\ ExchangeStep
  BY StreamSteps, PacketSteps
  DEF Next, Client, Server, Others, ExchangeStep, UdpStep

\* What a side becomes is a side.
LEMMA BecomesSide ==
  /\ \A pc : IsSide(Side(pc)) /\ IsSide(Udp!Side(pc)) /\ IsSide(Tcp!Side(pc))
  /\ \A out : IsSide(Sending(out)) /\ IsSide(Udp!Sending(out)) /\ IsSide(TcpC!Sending(out))
  /\ \A out : IsSide(Package!Sending(out)) /\ IsSide(Package!Side(out))
  /\ \A side, in : IsSide(side) => IsSide([side EXCEPT !.in = in])
  /\ \A in, need : IsSide([Package!Side("body") EXCEPT !.in = in, !.need = need])
  /\ \A side, k, pc : IsSide(side) => IsSide(Sent(side, k, pc))
<1>1. \A side, in : IsSide(side) =>
        IsSide([side EXCEPT !.in = in]) /\ IsSide([side EXCEPT !.out = in])
  BY DEF IsSide
<1>2. \A pc : /\ IsSide(Side(pc)) /\ IsSide(Udp!Side(pc)) /\ IsSide(Tcp!Side(pc))
                /\ IsSide(TcpC!Side(pc)) /\ IsSide(Package!Side(pc))
  BY DEF IsSide, Side, Udp!Side, Tcp!Side, TcpC!Side, Package!Side
<1>3. \A out : /\ IsSide(Sending(out)) /\ IsSide(Udp!Sending(out)) /\ IsSide(TcpC!Sending(out))
               /\ IsSide(Package!Sending(out))
  BY <1>1, <1>2 DEF Sending, Udp!Sending, TcpC!Sending, Package!Sending
<1>4. ASSUME NEW in, NEW need
      PROVE  IsSide([Package!Side("body") EXCEPT !.in = in, !.need = need])
  BY <1>2 DEF IsSide
<1>5. ASSUME NEW side, NEW k, NEW pc, IsSide(side) PROVE IsSide(Sent(side, k, pc))
  <2>1. CASE k = Len(side.out)
    BY <1>2, <2>1 DEF Sent
  <2>2. CASE k # Len(side.out)
    <3>1. Sent(side, k, pc) = [side EXCEPT !.out = Rest(side.out, k)]
      BY <2>2 DEF Sent
    <3>2. IsSide([side EXCEPT !.out = Rest(side.out, k)])
      BY <1>5 DEF IsSide
    <3> QED  BY <3>1, <3>2
  <2> QED  BY <2>1, <2>2
<1> QED  BY <1>1, <1>2, <1>3, <1>4, <1>5

\* The programs keep the two sides what they are.
LEMMA ShapedStep == ASSUME Shaped, ExchangeStep PROVE Shaped'
<1> USE DEF Shaped
<1>1. CASE UdpStep
  <2>1. CASE Udp!Client
    BY <2>1, BecomesSide DEF Udp!Client, Udp!ClientStarts, Udp!ClientSendsTo, Udp!ClientReceives
  <2>2. CASE Udp!ServerReceives
    <3>1. UNCHANGED client /\ \E out : server' \in {server, Udp!Sending(out)}
      BY <2>2 DEF Udp!ServerReceives
    <3> QED  BY <3>1, BecomesSide
  <2>3. CASE Udp!ServerStarts("recv") \/ Udp!send_msg
    BY <2>3, BecomesSide DEF Udp!ServerStarts, Udp!send_msg
  <2>4. CASE Udp!Others
    BY <2>4, BecomesSide
    DEF Udp!Others, Udp!Types, Udp!Asks, Udp!Leaves, Udp!Loses, Udp!Copies, Udp!ServerDies
  <2> QED  BY <1>1, <2>1, <2>2, <2>3, <2>4 DEF UdpStep, Udp!Server
<1>2. CASE Connects("recv") \/ Connects("head") \/ ClientMeetsEnd({"recv"}) \/ ClientMeetsEnd({"head", "body"})
  BY <1>2, BecomesSide DEF Connects, ClientMeetsEnd
<1>3. CASE ClientSends("recv") \/ ClientSends("head")
  <2>1. UNCHANGED server
    BY <1>3 DEF ClientSends
  <2>2. PICK k, pc : client' = Sent(client, k, pc) \/ client' = Side("closed")
    BY <1>3 DEF ClientSends
  <2>3. IsSide(Sent(client, k, pc)) /\ IsSide(Side("closed"))
    BY BecomesSide
  <2> QED  BY <2>1, <2>2, <2>3
<1>4. CASE ServerSends("recv") \/ ServerSends("head")
  <2>1. UNCHANGED client
    BY <1>4 DEF ServerSends
  <2>2. PICK k, pc : server' = Sent(server, k, pc) \/ server' = Side("closed")
    BY <1>4 DEF ServerSends
  <2>3. IsSide(Sent(server, k, pc)) /\ IsSide(Side("closed"))
    BY BecomesSide
  <2> QED  BY <2>1, <2>2, <2>3
<1>5. CASE ServerStarts("accept") \/ ServerMeetsEnd({"recv"}) \/ ServerMeetsEnd({"head", "body"})
  BY <1>5, BecomesSide DEF ServerStarts, ServerMeetsEnd
<1>6. CASE Tcp!ClientRecv
  BY <1>6, BecomesSide DEF Tcp!ClientRecv
<1>7. CASE TcpC!ServerRecv
  <2>1. UNCHANGED client /\ \E out : server' = TcpC!Sending(out)
    BY <1>7 DEF TcpC!ServerRecv
  <2> QED  BY <2>1, BecomesSide
<1>8. CASE Package!ClientHead \/ Package!ClientBody
  <2>1. /\ UNCHANGED server
        /\ \/ \E in : client' = [client EXCEPT !.in = in]
           \/ \E pc : client' = Package!Side(pc)
           \/ \E in, need : client' = [Package!Side("body") EXCEPT !.in = in, !.need = need]
    BY <1>8 DEF Package!ClientHead, Package!ClientBody, Package!ClientReads, Package!ClientHas
  <2>2. CASE \E in : client' = [client EXCEPT !.in = in]
    <3>1. PICK in : client' = [client EXCEPT !.in = in]
      BY <2>2
    <3>2. IsSide([client EXCEPT !.in = in])
      BY BecomesSide
    <3> QED  BY <2>1, <3>1, <3>2
  <2>3. CASE \E pc : client' = Package!Side(pc)
    BY <2>1, <2>3, BecomesSide
  <2>4. CASE \E in, need : client' = [Package!Side("body") EXCEPT !.in = in, !.need = need]
    <3>1. PICK in, need : client' = [Package!Side("body") EXCEPT !.in = in, !.need = need]
      BY <2>4
    <3>2. IsSide([Package!Side("body") EXCEPT !.in = in, !.need = need])
      BY BecomesSide
    <3> QED  BY <2>1, <3>1, <3>2
  <2> QED  BY <2>1, <2>2, <2>3, <2>4
<1>9. CASE Package!ServerHead \/ Package!ServerBody
  <2>1. /\ UNCHANGED client
        /\ \/ \E out : server' = Package!Sending(out)
           \/ \E in, need : server' = [Package!Side("body") EXCEPT !.in = in, !.need = need]
    BY <1>9 DEF Package!ServerHead, Package!ServerBody, Package!ServerReads, Package!ServerHas
  <2>2. CASE \E out : server' = Package!Sending(out)
    BY <2>1, <2>2, BecomesSide
  <2>3. CASE \E in, need : server' = [Package!Side("body") EXCEPT !.in = in, !.need = need]
    <3>1. PICK in, need : server' = [Package!Side("body") EXCEPT !.in = in, !.need = need]
      BY <2>3
    <3>2. IsSide([Package!Side("body") EXCEPT !.in = in, !.need = need])
      BY BecomesSide
    <3> QED  BY <2>1, <3>1, <3>2
  <2> QED  BY <2>1, <2>2, <2>3
<1>10. CASE StreamOthers \/ PacketOthers
  BY <1>10, BecomesSide DEF StreamOthers, PacketOthers, Asks, Leaves, ServerDies
<1> QED  BY <1>1, <1>2, <1>3, <1>4, <1>5, <1>6, <1>7, <1>8, <1>9, <1>10
  DEF ExchangeStep, StreamStep, StreamClient, StreamServer, PacketStep, PacketClient, PacketServer

\* Lines are counted, and what went wrong is not forgotten.
LEMMA CountedStep == ASSUME Counted, ExchangeStep PROVE Counted' /\ (Clean' => Clean)
<1>1. /\ faults \subseteq faults'
      /\ \/ UNCHANGED <<asked, size>>
         \/ asked' = asked + 1 /\ size' \in 0..MaxSize
  <2>1. CASE UdpStep
    BY <2>1
    DEF UdpStep, Udp!Client, Udp!Server, Udp!Others, Udp!ClientStarts, Udp!ClientSendsTo,
        Udp!ClientReceives, Udp!ServerStarts, Udp!ServerReceives, Udp!send_msg,
        Udp!Types, Udp!Asks, Udp!Leaves, Udp!Loses, Udp!Copies, Udp!ServerDies
  <2>2. CASE StreamStep
    BY <2>2
    DEF StreamStep, StreamClient, StreamServer, StreamOthers, Connects, ClientSends, Tcp!ClientRecv,
        ClientMeetsEnd, ServerStarts, TcpC!ServerRecv, ServerSends, ServerMeetsEnd, Asks, Leaves,
        ServerDies, Tcp!Cut, TcpC!Cut
  <2>3. CASE PacketStep
    BY <2>3
    DEF PacketStep, PacketClient, PacketServer, PacketOthers, Connects, ClientSends,
        Package!ClientHead, Package!ClientBody, Package!ClientReads,
        Package!ServerHead, Package!ServerBody, Package!ServerReads,
        ClientMeetsEnd, ServerStarts, ServerSends, ServerMeetsEnd, Asks, Leaves, ServerDies
  <2> QED  BY <2>1, <2>2, <2>3 DEF ExchangeStep
<1> QED  BY <1>1 DEF Counted, Clean

\* A client that has left takes no more answers, nor does one that leaves.
LEMMA LeavesStep ==
  ASSUME Shaped, ExchangeStep, client.pc = "closed" \/ client'.pc = "closed"
  PROVE  client'.pc = "closed" /\ UNCHANGED <<asked, size, answer>>
<1>1. CASE UdpStep
  BY <1>1
  DEF UdpStep, Udp!Client, Udp!Server, Udp!Others, Udp!ClientStarts, Udp!ClientSendsTo,
      Udp!ClientReceives, Udp!ServerStarts, Udp!ServerReceives, Udp!send_msg, Udp!Side, Udp!Sending,
      Udp!Types, Udp!Asks, Udp!Leaves, Udp!Loses, Udp!Copies, Udp!ServerDies
<1>2. CASE StreamStep
  <2>1. CASE Tcp!ClientRecv
    BY <2>1 DEF Tcp!ClientRecv, Tcp!Side
  <2>2. CASE ~Tcp!ClientRecv
    BY <1>2, <2>2, Sides
    DEF StreamStep, StreamClient, StreamServer, StreamOthers, Connects, ClientSends,
        ClientMeetsEnd, ServerStarts, TcpC!ServerRecv, ServerSends, ServerMeetsEnd, Asks, Leaves, ServerDies
  <2> QED  BY <2>1, <2>2
<1>3. CASE PacketStep
  <2>1. CASE Package!ClientHead \/ Package!ClientBody
    <3>1. /\ client.pc # "closed" /\ UNCHANGED <<asked, size>>
          /\ \/ client' = Package!Side("closed") /\ UNCHANGED answer
             \/ \E in : client.pc = "head" /\ client' = [client EXCEPT !.in = in] /\ UNCHANGED answer
             \/ client' = Package!Side("input")
             \/ \E in, need : client' = [Package!Side("body") EXCEPT !.in = in, !.need = need]
      BY <2>1 DEF Package!ClientHead, Package!ClientBody, Package!ClientReads, Package!ClientHas
    <3>2. \A pc : Package!Side(pc).pc = pc
      BY DEF Package!Side
    <3>3. \A in, need : [Package!Side("body") EXCEPT !.in = in, !.need = need].pc = "body"
      BY DEF Package!Side
    <3>4. \A in : [client EXCEPT !.in = in].pc = client.pc
      BY DEF Shaped, IsSide
    <3> QED  BY <3>1, <3>2, <3>3, <3>4
  <2>2. CASE ~(Package!ClientHead \/ Package!ClientBody)
    BY <1>3, <2>2, Sides
    DEF PacketStep, PacketClient, PacketServer, PacketOthers, Connects, ClientSends,
        Package!ServerHead, Package!ServerBody, Package!ServerReads,
        ClientMeetsEnd, ServerStarts, ServerSends, ServerMeetsEnd, Asks, Leaves, ServerDies
  <2> QED  BY <2>1, <2>2
<1> QED  BY <1>1, <1>2, <1>3 DEF ExchangeStep

\* While the client stays, what is under way stays the line asked last and its answer.
LEMMA SoundStep ==
  ASSUME program \in {"package", "udp", "tcp", "tcp_c"}, UNCHANGED program, Shaped, Counted,
         AnswerSound, Sound, ExchangeStep, Clean', client.pc # "closed", client'.pc # "closed"
  PROVE  AnswerSound' /\ Sound'
<1>1. CASE program = "udp"
  <2>1. UdpSound /\ UdpStep
    BY <1>1 DEF Sound, ExchangeStep
  <2>2. UdpSound' /\ UdpAnswered'
    BY <1>1, <2>1, UdpClient, UdpServer, UdpOthers DEF UdpStep, AnswerSound
  <2> QED  BY <1>1, <2>2 DEF Sound, AnswerSound
<1>2. CASE program = "package"
  <2>1. PacketSound /\ PacketStep
    BY <1>2 DEF Sound, ExchangeStep
  <2>2. PacketSound' /\ Answered'
    BY <1>2, <2>1, PacketClientStep, PacketServerStep, PacketOthersStep DEF PacketStep, AnswerSound
  <2> QED  BY <1>2, <2>2 DEF Sound, AnswerSound
<1>3. CASE program \in {"tcp", "tcp_c"}
  <2>1. StreamSound /\ StreamStep
    BY <1>3 DEF Sound, ExchangeStep
  <2>2. StreamSound' /\ Answered'
    BY <1>3, <2>1, StreamClientStep, StreamServerStep, StreamOthersStep DEF StreamStep, AnswerSound
  <2> QED  BY <1>3, <2>2 DEF Sound, AnswerSound
<1> QED  BY <1>1, <1>2, <1>3

\* The programs start in the invariant.
LEMMA InitIInv == Init => IInv
<1> SUFFICES ASSUME Init PROVE IInv
  OBVIOUS
<1>1. Shaped /\ client.pc = "start" /\ server.pc = "init"
  BY BecomesSide, Sides DEF Init, ExchangeInit, Shaped
<1>2. Counted /\ AnswerSound /\ Quiet /\ up \in Strings
  BY ExchangeAssumption, EmptySeq
  DEF Init, ExchangeInit, Counted, AnswerSound, Answered, UdpAnswered, Quiet, Strings
<1>3. Sound
  BY <1>1, <1>2 DEF Init, Sound, UdpSound, PacketSound, StreamSound
<1> QED  BY <1>1, <1>2, <1>3 DEF IInv, Init

\* Every step keeps it.
LEMMA NextIInv == IInv /\ [Next]_allVars => IInv'
<1> SUFFICES ASSUME IInv, [Next]_allVars PROVE IInv'
  OBVIOUS
<1>1. CASE Next
  <2>1. UNCHANGED program /\ ExchangeStep
    BY <1>1, Steps
  <2>2. Shaped' /\ Counted' /\ (Clean' => Clean)
    BY <2>1, ShapedStep, CountedStep DEF IInv
  <2>3. SUFFICES ASSUME Clean' PROVE AnswerSound' /\ (client'.pc # "closed" => Sound')
    BY <2>1, <2>2 DEF IInv
  <2>4. AnswerSound /\ (client.pc # "closed" => Sound)
    BY <2>2, <2>3 DEF IInv
  <2>5. CASE client.pc = "closed" \/ client'.pc = "closed"
    <3>1. client'.pc = "closed" /\ UNCHANGED <<asked, size, answer>>
      BY <2>1, <2>5, LeavesStep DEF IInv
    <3> QED  BY <2>1, <2>4, <3>1 DEF AnswerSound, Answered, UdpAnswered, UdpReply, UpTo, Line, Reply
  <2>6. CASE client.pc # "closed" /\ client'.pc # "closed"
    BY <2>1, <2>3, <2>4, <2>6, SoundStep DEF IInv
  <2> QED  BY <2>5, <2>6
<1>2. CASE UNCHANGED allVars
  <2>1. UNCHANGED <<client, server, up, down, asked, size, answer, faults, program>>
    BY <1>2 DEF allVars, vars
  <2>2. UNCHANGED <<Shaped, Counted, Clean, AnswerSound>>
    BY <2>1
    DEF Shaped, Counted, Clean, AnswerSound, Answered, UdpAnswered, UdpReply, UpTo, Line, Reply
  <2>3. UNCHANGED UdpSound
    BY <2>1 DEF UdpSound, UdpReply, UpTo, Quiet, Line, Reply
  <2>4. UNCHANGED StreamSound
    BY <2>1 DEF StreamSound, StreamAsks, StreamReplies, StreamOverflows, Quiet, Line, Reply
  <2>5. UNCHANGED PacketSound
    BY <2>1 DEF PacketSound, PacketAsks, PacketReplies, Quiet, Line, Reply
  <2>6. UNCHANGED Sound
    BY <2>1, <2>3, <2>4, <2>5 DEF Sound
  <2> QED  BY <2>1, <2>2, <2>6 DEF IInv
<1> QED  BY <1>1, <1>2

-----------------------------------------------------------------------------
(* What the user relies on                                                 *)

\* The invariant holds throughout.
LEMMA Inductive == Spec => []IInv
<1>1. Init => IInv
  BY InitIInv
<1>2. IInv /\ [Next]_allVars => IInv'
  BY NextIInv
<1> QED  BY <1>1, <1>2, PTL DEF Spec

\* What the client of any of the pairs of programs takes for the answer to a line
\* is the answer to that line as long as no datagram was copied and nobody took a
\* part for the whole, also when datagrams are lost and when the server dies in the
\* middle of an answer: the whole of it, but of a datagram just what fits the
\* client's buffer, also if the line did not fit the server's.
THEOREM AnswersAreRight == Spec => []RightAnswers
<1>1. IInv => RightAnswers
  <2> SUFFICES ASSUME IInv, Clean PROVE answer \in {None, RightAnswer}
    BY DEF Clean, RightAnswers
  <2>1. UpTo(Buffer, UdpReply) = UpTo(Buffer, Reply(Line))
    BY CutsOnce DEF IInv
  <2> QED  BY <2>1 DEF IInv, AnswerSound, Answered, UdpAnswered, RightAnswer
<1> QED  BY <1>1, Inductive, PTL
=============================================================================

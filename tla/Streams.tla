------------------------------- MODULE Streams -------------------------------
(***************************************************************************)
(* TCP_ClientCommunicate(Cpp).cpp and TCP_ServerCommunicate(Cpp).cpp: text *)
(* over a stream without any framing.  ClientRetype.cpp and                *)
(* ServerRetype.cpp are copies.  What recv returns is taken for the whole  *)
(* of what the other side sends.                                           *)
(***************************************************************************)
EXTENDS Exchange

CONSTANTS
    Buffer,        \* bytes recv returns at most
    EmptyEnds,     \* an empty line ends the client, as TCP_ClientCommunicateCpp.cpp does
    Terminates     \* the server puts a zero behind the text, as TCP_ServerCommunicateCpp.cpp does

\* TCP_ClientCommunicate.cpp sends an empty line, that is nothing, and is
\* ended from outside.
Types ==
    \/ \E n \in 0..MaxSize : (n = 0 => ~EmptyEnds) /\ Asks(n, Text(asked + 1, n))
    \/ Leaves

\* recv returns before the other side has sent all (it may have died over it),
\* or does not return it all.
Cut(k, chan, side) ==
    faults' = IF k < Len(chan) \/ side.out # <<>> \/ Closed(side)
              THEN faults \cup {"cut"} ELSE faults

ClientRecv ==
    /\ client.pc = "recv" /\ down # <<>>
    /\ LET k == Least(Buffer, Len(down)) IN
         Cut(k, down, server) /\ answer' = First(down, k) /\ down' = Rest(down, k)
    /\ client' = Side("input")
    /\ UNCHANGED <<server, up, asked, size>>

\* What the server reads in its buffer: text that fills it and has no zero behind
\* it is read on until one follows, here for a byte at most.
InBuffer(text) ==
    IF Terminates \/ Len(text) < Buffer THEN {text} ELSE {text, text \o Text(0, 1)}

ServerRecv ==
    /\ server.pc = "recv" /\ up # <<>>
    /\ LET k == Least(Buffer, Len(up)) IN
         /\ Cut(k, up, client)
         /\ \E text \in InBuffer(First(up, k)) : server' = Sending(Reply(text))
         /\ up' = Rest(up, k)
    /\ UNCHANGED <<client, down, asked, size, answer>>

communicateClient == ClientSends("recv") \/ ClientRecv \/ ClientMeetsEnd({"recv"})
communicateServer == ServerRecv \/ ServerSends("recv") \/ ServerMeetsEnd({"recv"})

Client == Connects("recv") \/ communicateClient
Server == ServerStarts("accept") \/ communicateServer
Others == Types \/ ServerDies
=============================================================================

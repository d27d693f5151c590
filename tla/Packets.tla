------------------------------- MODULE Packets -------------------------------
(***************************************************************************)
(* package_client.cpp and package_sticking.cpp: every packet is preceded   *)
(* by its length, a fixed number of bytes, the most significant first.     *)
(* The client reads a length in as many pieces as it comes in; the server  *)
(* takes what one recv returns for the whole length.                       *)
(***************************************************************************)
EXTENDS Exchange, FiniteSetsExt

CONSTANTS
    HeaderBytes,    \* bytes of a length
    Base,           \* values of a byte
    Limit           \* the longest packet the client accepts

\* send_packet
Header(n) == [i \in 1..HeaderBytes |-> (n \div Base^(HeaderBytes - i)) % Base]
Packet(text) == Header(Len(text)) \o text

\* ntohl of a variable that was 0 before recv: bytes that are missing are 0.
Number(bytes) ==
    MapThenSumSet(LAMBDA i : bytes[i] * Base^(HeaderBytes - i), DOMAIN bytes)

-----------------------------------------------------------------------------
(* package_client.cpp                                                      *)

\* The user types a line, "exit" ends the client.
Types == (\E n \in 0..MaxSize : Asks(n, Packet(Text(asked + 1, n)))) \/ Leaves

\* k more bytes of the length or of the packet.
ClientReads(k) ==
    /\ down' = Rest(down, k)
    /\ UNCHANGED <<server, up, asked, size, faults>>

\* What the client does with the bytes of a packet it has.
ClientHas(in, need) ==
    IF Len(in) = need THEN client' = Side("input") /\ answer' = in
    ELSE client' = [Side("body") EXCEPT !.in = in, !.need = need] /\ UNCHANGED answer

\* Mutant: one recv for the length, as in the server.
ClientHead_OneRecv ==
    /\ client.pc = "head" /\ down # <<>>
    /\ LET k == Least(HeaderBytes, Len(down)) IN
         ClientReads(k) /\ ClientHas(<<>>, Number(First(down, k)))

\* A packet that is too long ends the client.
ClientHead ==
    /\ client.pc = "head" /\ down # <<>>
    /\ LET k == Least(HeaderBytes - Len(client.in), Len(down))
           in == client.in \o First(down, k) IN
         /\ ClientReads(k)
         /\ \/ /\ Len(in) < HeaderBytes
               /\ client' = [client EXCEPT !.in = in] /\ UNCHANGED answer
            \/ /\ Len(in) = HeaderBytes /\ Number(in) > Limit
               /\ client' = Side("closed") /\ UNCHANGED answer
            \/ Len(in) = HeaderBytes /\ Number(in) <= Limit /\ ClientHas(<<>>, Number(in))

ClientBody ==
    /\ client.pc = "body" /\ down # <<>>
    /\ LET k == Least(client.need - Len(client.in), Len(down)) IN
         ClientReads(k) /\ ClientHas(client.in \o First(down, k), client.need)

ClientGetsPacket == ClientHead \/ ClientBody \/ ClientMeetsEnd({"head", "body"})

-----------------------------------------------------------------------------
(* package_sticking.cpp                                                    *)

ServerReads(k) ==
    /\ up' = Rest(up, k)
    /\ UNCHANGED <<client, down, asked, size, answer>>

ServerHas(in, need) ==
    server' = IF Len(in) = need THEN Sending(Packet(Reply(in)))
              ELSE [Side("body") EXCEPT !.in = in, !.need = need]

\* Mutant: a packet without bytes is waited for.
ServerHead_WaitsForBody ==
    /\ server.pc = "head" /\ up # <<>>
    /\ LET k == Least(HeaderBytes, Len(up)) IN
         /\ ServerReads(k)
         /\ server' = [Side("body") EXCEPT !.need = Number(First(up, k))]
         /\ faults' = IF k < HeaderBytes THEN faults \cup {"cut"} ELSE faults

\* recv is called once.
ServerHead ==
    /\ server.pc = "head" /\ up # <<>>
    /\ LET k == Least(HeaderBytes, Len(up)) IN
         /\ ServerReads(k) /\ ServerHas(<<>>, Number(First(up, k)))
         /\ faults' = IF k < HeaderBytes THEN faults \cup {"cut"} ELSE faults

ServerBody ==
    /\ server.pc = "body" /\ up # <<>>
    /\ LET k == Least(server.need - Len(server.in), Len(up)) IN
         ServerReads(k) /\ ServerHas(server.in \o First(up, k), server.need)
    /\ UNCHANGED faults

ServerGetsPacket == ServerHead \/ ServerBody \/ ServerMeetsEnd({"head", "body"})

-----------------------------------------------------------------------------
Client == Connects("head") \/ ClientSends("head") \/ ClientGetsPacket
Server == ServerStarts("accept") \/ ServerGetsPacket \/ ServerSends("head")
Others == Types \/ ServerDies
=============================================================================

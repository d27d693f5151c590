------------------------------ MODULE Datagrams ------------------------------
(***************************************************************************)
(* UDP_Client.cpp and UDP_Server.cpp: up and down hold datagrams, which    *)
(* may be lost, duplicated and overtaken.                                  *)
(***************************************************************************)
EXTENDS Exchange, SequencesExt

CONSTANT Buffer        \* bytes recvfrom returns at most

\* A client needs no server to start.
ClientStarts ==
    /\ client.pc = "start"
    /\ client' = Side("input")
    /\ UNCHANGED <<server, up, down, asked, size, answer, faults>>

\* send_and_receive; an empty line is an empty datagram.  Without a server that
\* is bound to the port it is lost.
Types == (\E n \in 0..MaxSize : Asks(n, Text(asked + 1, n))) \/ Leaves

ClientSendsTo ==
    /\ client.pc = "send"
    /\ client' = Side("recv")
    /\ \/ server.pc \in {"recv", "send"} /\ up' = Append(up, client.out) /\ UNCHANGED faults
       \/ server.pc \in {"init", "closed"} /\ faults' = faults \cup {"lost"} /\ UNCHANGED up
    /\ UNCHANGED <<server, down, asked, size, answer>>

\* Whatever comes first is the answer, as far as it fits the buffer: recvfrom
\* throws away what is left of a datagram.
ClientReceives ==
    /\ client.pc = "recv"
    /\ \E i \in DOMAIN down : answer' = UpTo(Buffer, down[i]) /\ down' = RemoveAt(down, i)
    /\ client' = Side("input")
    /\ UNCHANGED <<server, up, asked, size, faults>>

\* An empty message is skipped.
ServerReceives ==
    /\ server.pc = "recv"
    /\ \E i \in DOMAIN up :
         /\ up' = RemoveAt(up, i)
         /\ server' = IF up[i] = <<>> THEN server ELSE Sending(Reply(UpTo(Buffer, up[i])))
    /\ UNCHANGED <<client, down, asked, size, answer, faults>>

send_msg ==
    /\ server.pc = "send"
    /\ down' = Append(down, server.out)
    /\ server' = Side("recv")
    /\ UNCHANGED <<client, up, asked, size, answer, faults>>

\* The network.  A datagram that sendto fails to send goes the same way as one
\* that is lost; one datagram is duplicated.
Loses ==
    /\ \/ (\E i \in DOMAIN up : up' = RemoveAt(up, i)) /\ UNCHANGED down
       \/ (\E i \in DOMAIN down : down' = RemoveAt(down, i)) /\ UNCHANGED up
    /\ faults' = faults \cup {"lost"}
    /\ UNCHANGED <<client, server, asked, size, answer>>

Copies ==
    /\ "copied" \notin faults
    /\ \/ (\E i \in DOMAIN up : up' = Append(up, up[i])) /\ UNCHANGED down
       \/ (\E i \in DOMAIN down : down' = Append(down, down[i])) /\ UNCHANGED up
    /\ faults' = faults \cup {"copied"}
    /\ UNCHANGED <<client, server, asked, size, answer>>

Client == ClientStarts \/ ClientSendsTo \/ ClientReceives
Server == ServerStarts("recv") \/ ServerReceives \/ send_msg
Others == Types \/ Loses \/ Copies \/ ServerDies
=============================================================================

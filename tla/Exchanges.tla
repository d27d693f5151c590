------------------------------ MODULE Exchanges ------------------------------
(***************************************************************************)
(* The pairs of small client and server programs side by side: program     *)
(* says which pair runs.                                                   *)
(***************************************************************************)
EXTENDS Exchange

CONSTANTS HeaderBytes, Base, Limit, Buffer

VARIABLES program      \* "package", "udp", "tcp" or "tcp_c"

allVars == <<vars, program>>

ASSUME BytesAssumption == {HeaderBytes, Buffer} \subseteq Nat \ {0} /\ Limit \in Nat

Package == INSTANCE Packets
Udp == INSTANCE Datagrams
Tcp == INSTANCE Streams WITH EmptyEnds <- TRUE, Terminates <- TRUE
TcpC == INSTANCE Streams WITH EmptyEnds <- FALSE, Terminates <- FALSE

\* htonl and ntohl: what is sent for the length of an answer is read as that length.
ASSUME LengthAssumption ==
    \A n \in 0..Prefix + MaxSize : Package!Number(Package!Header(n)) = n

Init == ExchangeInit /\ program \in {"package", "udp", "tcp", "tcp_c"}

Client ==
    /\ \/ program = "package" /\ Package!Client
       \/ program = "udp" /\ Udp!Client
       \/ program = "tcp" /\ Tcp!Client
       \/ program = "tcp_c" /\ TcpC!Client
    /\ UNCHANGED program

Server ==
    /\ \/ program = "package" /\ Package!Server
       \/ program = "udp" /\ Udp!Server
       \/ program = "tcp" /\ Tcp!Server
       \/ program = "tcp_c" /\ TcpC!Server
    /\ UNCHANGED program

\* The users, the network and a server that dies.
Others ==
    /\ \/ program = "package" /\ Package!Others
       \/ program = "udp" /\ Udp!Others
       \/ program = "tcp" /\ Tcp!Others
       \/ program = "tcp_c" /\ TcpC!Others
    /\ UNCHANGED program

Next == Client \/ Server \/ Others

Spec == Init /\ [][Next]_allVars

\* The two programs run; nobody has to type, nothing has to be lost.
FairSpec == Spec /\ WF_allVars(Client) /\ WF_allVars(Server)

-----------------------------------------------------------------------------
(* Properties                                                              *)

\* The answer to a line (package_sticking.cpp:98); of a datagram it is as much as
\* fits the client's buffer.
RightAnswer == IF program = "udp" THEN UpTo(Buffer, Reply(Line)) ELSE Reply(Line)

\* What the client takes for the answer to a line is the answer to that line.
\* Only after a datagram was duplicated, a recv without framing returned a part,
\* or the server took a part of a length for the length, can it be another.
RightAnswers ==
    faults \cap {"cut", "copied"} = {} => answer \in {None, RightAnswer}

\* The client is not left waiting: neither for an answer nor, with the server,
\* for room to send, also when the server dies.  Excepted are a datagram that
\* is lost and an empty line, which UDP_Server.cpp skips and
\* TCP_ClientCommunicate.cpp does not send.
NobodyWaits ==
    <>[](\/ client.pc \in {"input", "closed"}
         \/ "cut" \in faults
         \/ program = "udp" /\ (faults # {} \/ size = 0)
         \/ program = "tcp_c" /\ size = 0)

\* When the client has left, the server that served it ends.
ServerEnds ==
    <>[](client.pc = "closed" /\ program # "udp" => Closed(server) \/ "refused" \in faults)
=============================================================================

------------------------------ MODULE Exchange ------------------------------
(***************************************************************************)
(* What the small client and server programs of Cpp_WebPrograming share: a *)
(* client whose user types lines, one server, and what is on its way       *)
(* between them.  The client sends a line and waits for one answer, the    *)
(* line with something in front of it; nothing has a timeout.              *)
(*                                                                         *)
(* A byte of line k is the number k, a byte of what the server puts in     *)
(* front is 0.  A blocking send hands its bytes to the kernel in pieces of *)
(* any size, as there is room; recv returns what is there, as far as it    *)
(* fits.  The server process may die at any time.                          *)
(***************************************************************************)
EXTENDS Naturals, Sequences

CONSTANTS
    MaxAsks,    \* bound: lines the user types
    MaxSize,    \* bound: bytes of a line
    Prefix,     \* bytes of what the server puts in front of an answer
    Room,       \* bytes the kernel buffers in each direction
    None        \* no answer yet

ASSUME ExchangeAssumption ==
    {MaxAsks, MaxSize, Prefix} \subseteq Nat /\ Room \in Nat \ {0}

VARIABLES
    client, server,   \* where each is, what it is sending and has read so far
    up, down,         \* on the way to the server and to the client
    asked, size,      \* the number and the length of the line asked last
    answer,           \* what the client took for its answer
    faults            \* history: what went wrong on the way

vars == <<client, server, up, down, asked, size, answer, faults>>

Side(pc) == [pc |-> pc, out |-> <<>>, in |-> <<>>, need |-> 0]
Sending(out) == [Side("send") EXCEPT !.out = out]

Text(k, n) == [i \in 1..n |-> k]
Line == Text(asked, size)
Reply(text) == Text(0, Prefix) \o text

First(s, k) == SubSeq(s, 1, k)
Rest(s, k) == SubSeq(s, k + 1, Len(s))
Least(a, b) == IF a < b THEN a ELSE b
UpTo(n, s) == First(s, Least(n, Len(s)))

ExchangeInit ==
    /\ client = Side("start") /\ server = Side("init")
    /\ up = <<>> /\ down = <<>>
    /\ asked = 0 /\ size = 0 /\ answer = None
    /\ faults = {}

Closed(side) == side.pc = "closed"

-----------------------------------------------------------------------------
\* socket, bind and listen succeed, or the program ends.
ServerStarts(pc) ==
    /\ server.pc = "init"
    /\ server' \in {Side(pc), Side("closed")}
    /\ UNCHANGED <<client, up, down, asked, size, answer, faults>>

\* connect finds a listening server, which accepts, or is refused.
Connects(pc) ==
    /\ client.pc = "start"
    /\ \/ server.pc = "accept" /\ client' = Side("input") /\ server' = Side(pc) /\ UNCHANGED faults
       \/ /\ server.pc \in {"init", "closed"} /\ client' = Side("closed") /\ UNCHANGED server
          /\ faults' = faults \cup {"refused"}
    /\ UNCHANGED <<up, down, asked, size, answer>>

\* The user types a line of n bytes, and these are sent.
Asks(n, out) ==
    /\ client.pc = "input" /\ asked < MaxAsks
    /\ asked' = asked + 1 /\ size' = n /\ answer' = None
    /\ client' = Sending(out)
    /\ UNCHANGED <<server, up, down, faults>>

\* The user ends the client.
Leaves ==
    /\ client.pc = "input"
    /\ client' = Side("closed")
    /\ UNCHANGED <<server, up, down, asked, size, answer, faults>>

\* k more bytes are sent; after the last one it goes on at pc.
Sent(side, k, pc) ==
    IF k = Len(side.out) THEN Side(pc) ELSE [side EXCEPT !.out = Rest(@, k)]

\* send to an end that is closed is lost, or fails and ends the program (also
\* by SIGPIPE).
ClientSends(pc) ==
    /\ client.pc = "send"
    /\ \/ \E k \in 0..Least(Len(client.out), Room - Len(up)) :
            /\ k > 0 \/ client.out = <<>>
            /\ client' = Sent(client, k, pc)
            /\ up' = IF Closed(server) THEN up ELSE up \o First(client.out, k)
       \/ Closed(server) /\ client' = Side("closed") /\ UNCHANGED up
    /\ UNCHANGED <<server, down, asked, size, answer, faults>>

ServerSends(pc) ==
    /\ server.pc = "send"
    /\ \/ \E k \in 0..Least(Len(server.out), Room - Len(down)) :
            /\ k > 0 \/ server.out = <<>>
            /\ server' = Sent(server, k, pc)
            /\ down' = IF Closed(client) THEN down ELSE down \o First(server.out, k)
       \/ Closed(client) /\ server' = Side("closed") /\ UNCHANGED down
    /\ UNCHANGED <<client, up, asked, size, answer, faults>>

\* Mutant: the end of the stream is not noticed.
ServerMeetsEnd_Continues(pcs) ==
    /\ server.pc \in pcs /\ up = <<>> /\ Closed(client)
    /\ server' = [server EXCEPT !.in = <<>>]
    /\ UNCHANGED <<client, up, down, asked, size, answer, faults>>

\* recv returns 0, or -1: the program ends.
ServerMeetsEnd(pcs) ==
    /\ server.pc \in pcs /\ up = <<>> /\ Closed(client)
    /\ server' = Side("closed")
    /\ UNCHANGED <<client, up, down, asked, size, answer, faults>>

ClientMeetsEnd(pcs) ==
    /\ client.pc \in pcs /\ down = <<>> /\ Closed(server)
    /\ client' = Side("closed")
    /\ UNCHANGED <<server, up, down, asked, size, answer, faults>>

\* The server process dies; what it sent may be lost with the connection.
ServerDies ==
    /\ server.pc \notin {"init", "closed"}
    /\ server' = Side("closed")
    /\ up' = <<>> /\ down' \in {down, <<>>}
    /\ faults' = faults \cup {"died"}
    /\ UNCHANGED <<client, asked, size, answer>>
=============================================================================

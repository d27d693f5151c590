---------------------------- MODULE SingleReactor ----------------------------
(***************************************************************************)
(* single_reactor.cpp: one loop in the main thread.  The event of the      *)
(* listening socket and those of the clients are dispatched from one       *)
(* batch, so numbers are closed and opened again in the middle of it.      *)
(***************************************************************************)
EXTENDS Reactor

CONSTANT TheLoop     \* __epoll

Init == ReactorInit(TheLoop)

\* The Connection is registered with the loop that accepts it.
HandleAccept ==
    StartAccept(TheLoop) \/ Accept(TheLoop, TheLoop) \/ AddChannel(TheLoop) \/ EndAccept(TheLoop)

\* Connection::HandleRead.
ConnectionReads == HandleRead(TheLoop)

loop == EpollWait(TheLoop) \/ EndScan(TheLoop) \/ HandleAccept \/ ConnectionReads
=============================================================================

---------------------------- MODULE ReactorServer ----------------------------
(***************************************************************************)
(* reactor_server.cpp: one loop in the main thread, as in                  *)
(* single_reactor.cpp.  handleRead logs the buffer before it tests what    *)
(* recv returned; the log is not modelled.                                 *)
(***************************************************************************)
EXTENDS Reactor

CONSTANT TheLoop     \* __loop

Init == ReactorInit(TheLoop)

handleAccept ==
    StartAccept(TheLoop) \/ Accept(TheLoop, TheLoop) \/ AddChannel(TheLoop) \/ EndAccept(TheLoop)

\* n > 0: the callable keeps the number and the message.
Echo(c) == Communicate(TheLoop, c)

\* n <= 0: removeChannel, delete this, and the close in ~Connection.
Disconnect == (\E c \in Conns : DelChannel(TheLoop, c)) \/ Delete(TheLoop)

handleRead == (\E c \in Conns : Echo(c)) \/ Disconnect

loop == EpollWait(TheLoop) \/ EndScan(TheLoop) \/ handleAccept \/ handleRead
=============================================================================

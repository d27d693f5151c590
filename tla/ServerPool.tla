----------------------------- MODULE ServerPool -----------------------------
(***************************************************************************)
(* What the servers selectthread_tp.cpp, pollthread_tp.cpp and             *)
(* epollthread_tp.cpp have in common: the thread pool as they use it, the  *)
(* callable they submit, the SIGINT handler and the shutdown.              *)
(*                                                                         *)
(* A callable is a descriptor NUMBER and the chunks it answers.  The pool  *)
(* is reduced to what ThreadPool shows of it: callables are queued, taken  *)
(* in order by any worker, and counted until they have returned.  One      *)
(* SIGINT reaches the main thread anywhere in its loop but inside submit   *)
(* (that, and the other threads, are the subject of SignalStop).           *)
(*                                                                         *)
(* TCPServer::mtx: what the main thread does in a critical section is seen *)
(* by nobody before it unlocks, so it is one step.  In the epoll servers,  *)
(* where workers take the mutex too, that step ends at "unlock" with the   *)
(* mutex held, and a SIGINT may land there.  In the select and poll        *)
(* servers nobody but the main thread takes it.                            *)
(*                                                                         *)
(* The actions leave the server's own variables to the module that uses    *)
(* them.                                                                   *)
(***************************************************************************)
EXTENDS Sockets, SequencesExt

CONSTANTS Workers   \* the pool's threads

VARIABLES
    is_running,    \* the server's atomic flag
    queue,         \* callables in the pool: [fd, chunks]
    doing,         \* the callable a worker runs, or None
    wpc,           \* where the worker is in it
    mpc,           \* where the main thread is
    ret            \* where the signal handler returns to

poolVars == <<queue, doing, wpc>>
mainVars == <<mpc, ret>>

Callables == [fd : Fds, chunks : Seq(Chunks)]

ASSUME PoolAssumption == IsFiniteSet(Workers) /\ None \notin Callables

\* The numbers that callables will still use.
HeldFds ==
    {queue[i].fd : i \in DOMAIN queue}
      \cup {doing[w].fd : w \in {v \in Workers : wpc[v] \in {"test", "send", "close"}}}

\* task_count: queued or running.
Outstanding == Len(queue) + Cardinality({w \in Workers : doing[w] # None})

ServerInit ==
    /\ SockInit
    /\ is_running = TRUE
    /\ mpc = "loop" /\ ret = "loop"
    /\ queue = <<>>
    /\ doing = [w \in Workers |-> None]
    /\ wpc = [w \in Workers |-> "idle"]

\* For TLC: connections and workers are interchangeable.
Symmetry == Permutations(Conns) \cup Permutations(Workers)

LoopLabels == {"loop", "wait", "scan", "lock", "unlock"}

ServerTypeOK ==
    /\ SockTypeOK
    /\ is_running \in BOOLEAN
    /\ mpc \in LoopLabels \cup {"handler", "dtor_stop", "dtor_wait", "dtor_close", "exit"}
    /\ ret \in LoopLabels
    /\ queue \in Seq(Callables)
    /\ doing \in [Workers -> Callables \cup {None}]
    /\ wpc \in [Workers -> {"idle", "test", "send", "close", "finish"}]

-----------------------------------------------------------------------------
(* The callables                                                           *)

\* pool.submit([this, fd, msg] { ... }): msg was made from the chunks ms.
Submit(fd, ms) ==
    /\ queue' = Append(queue, [fd |-> fd, chunks |-> ms])
    /\ UNCHANGED <<doing, wpc>>

Take(w) ==
    /\ wpc[w] = "idle" /\ queue # <<>>
    /\ doing' = [doing EXCEPT ![w] = Head(queue)]
    /\ queue' = Tail(queue)
    /\ wpc' = [wpc EXCEPT ![w] = "test"]
    /\ UNCHANGED sockVars

\* if(is_running)
Test(w) ==
    /\ wpc[w] = "test"
    /\ wpc' = [wpc EXCEPT ![w] = IF is_running THEN "send" ELSE "finish"]
    /\ UNCHANGED <<sockVars, queue, doing>>

\* send; its result is ignored.
Respond(w) ==
    /\ wpc[w] = "send"
    /\ \/ Sends(doing[w].fd, doing[w].chunks)
       \/ SendFails(doing[w].fd) /\ UNCHANGED sockVars
    /\ wpc' = [wpc EXCEPT ![w] = "finish"]
    /\ UNCHANGED <<queue, doing>>

\* Mutant: a callable that has returned stays counted.
Finish_StaysCounted(w) ==
    /\ wpc[w] = "finish"
    /\ wpc' = [wpc EXCEPT ![w] = "idle"]
    /\ UNCHANGED <<sockVars, queue, doing>>

\* The callable returns and task_count is decremented.
Finish(w) ==
    /\ wpc[w] = "finish"
    /\ doing' = [doing EXCEPT ![w] = None]
    /\ wpc' = [wpc EXCEPT ![w] = "idle"]
    /\ UNCHANGED <<sockVars, queue>>

\* The servers whose callables ignore the result of send.
Worker(w) ==
    /\ Take(w) \/ Test(w) \/ Respond(w) \/ Finish(w)
    /\ UNCHANGED <<is_running, mainVars>>

-----------------------------------------------------------------------------
(* The main thread's loop and its end                                      *)

Goto(label) == mpc' = label

\* while(is_running)
Loop ==
    /\ mpc = "loop"
    /\ Goto(IF is_running THEN "wait" ELSE "dtor_stop")
    /\ UNCHANGED <<sockVars, is_running, poolVars, ret>>

\* The main thread holds TCPServer::mtx, perhaps under the signal handler.
MtxHeld == mpc = "unlock" \/ (mpc = "handler" /\ ret = "unlock")

\* The end of a critical section.
Unlock ==
    /\ mpc = "unlock"
    /\ Goto("scan")
    /\ UNCHANGED <<sockVars, is_running, poolVars, ret>>

\* SIGINT: the handler's stop() up to its wait for the pool.
Signal ==
    /\ mpc \in LoopLabels /\ is_running
    /\ is_running' = FALSE
    /\ ret' = mpc
    /\ Goto("handler")
    /\ UNCHANGED <<sockVars, poolVars>>

\* Mutant: the handler does not wait for the pool.
HandlerReturns_NoWait ==
    /\ mpc = "handler"
    /\ Goto(ret) \/ (ret = "wait" /\ Goto("loop"))
    /\ UNCHANGED <<sockVars, is_running, poolVars, ret>>

\* The wait of stop() ends.  A select, poll or epoll_wait that was interrupted
\* fails with EINTR and the loop condition is tested; one that was not called
\* yet is called now.
HandlerReturns ==
    /\ mpc = "handler" /\ Outstanding = 0
    /\ Goto(ret) \/ (ret = "wait" /\ Goto("loop"))
    /\ UNCHANGED <<sockVars, is_running, poolVars, ret>>

\* ~TCPServer calls stop() once more.
DtorStop ==
    /\ mpc = "dtor_stop"
    /\ is_running' = FALSE
    /\ Goto("dtor_wait")
    /\ UNCHANGED <<sockVars, poolVars, ret>>

DtorWait ==
    /\ mpc = "dtor_wait" /\ Outstanding = 0
    /\ Goto("dtor_close")
    /\ UNCHANGED <<sockVars, is_running, poolVars, ret>>

-----------------------------------------------------------------------------
(* Properties several servers share                                        *)

\* Each descriptor is one client (selectthread_tp.cpp:207): a client receives
\* responses to its own chunks only.
RightClient == \A c \in Conns : \A i \in DOMAIN out[c] : out[c][i][1] = c

\* The server hangs up on nobody who is still there.  Only after a number it
\* still held was given out again can a close hit the wrong client.
NobodyDropped ==
    [][~reused /\ mpc # "dtor_close" =>
         \A fd \in Fds :
           fdtab[fd] # None /\ ~Gone(fdtab[fd]) => fdtab'[fd] = fdtab[fd]]_sockVars

\* A deadlock of the code (epollthread_tp.cpp:145, 160): the handler interrupted
\* the main thread inside a critical section and waits for a worker that waits
\* for the mutex.
HandlerHoldsMtx ==
    mpc = "handler" /\ ret = "unlock" /\ \E w \in Workers : wpc[w] = "close"

\* The clients do finitely many things, so what must happen in the end is stated
\* of the states in which the server stays.

\* A client that stays gets the answers to all it sent, whatever the others do,
\* unless the server is shut down, or tries to and hangs, or a held number was
\* given out again.
AllAnswered ==
    <>[](\A c \in Conns :
           sent[c] = MaxChunks =>
             \/ Len(out[c]) = MaxChunks \/ Gone(c)
             \/ mpc = "exit" \/ HandlerHoldsMtx \/ reused)

\* A descriptor is not left open after its client has gone.
GoneAreClosed ==
    <>[](\A fd \in Fds :
           fdtab[fd] # None /\ Gone(fdtab[fd]) =>
             mpc = "exit" \/ HandlerHoldsMtx \/ reused)
=============================================================================

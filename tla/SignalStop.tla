----------------------------- MODULE SignalStop -----------------------------
(***************************************************************************)
(* SIGINT in epollthread_tp.cpp: signals() runs stop() on the thread the   *)
(* signal interrupts, and stop() waits on end_cv for the pool.  Where that *)
(* thread was, and which mutexes it holds there, decides whether the wait  *)
(* can end.  (The workers of the select and poll servers do not take       *)
(* TCPServer::mtx; those of epollthread_tpet.cpp take it for each send.)   *)
(*                                                                         *)
(* Linux gives the signal to the main thread unless it blocks SIGINT,      *)
(* which signal() makes it do while its handler runs; then a worker gets   *)
(* it.  A condition variable is the set of the threads waiting on it; a    *)
(* thread whose handler runs inside its wait is still in that set.         *)
(***************************************************************************)
EXTENDS Naturals, FiniteSets

CONSTANTS
    Workers,       \* the pool's threads
    Main,          \* the thread of epoll_loop
    None,          \* nobody, nowhere
    MaxTasks,      \* bound: events of epoll
    MaxSignals,    \* bound: SIGINTs
    Where          \* the labels at which a SIGINT may find the main thread

MainLabels ==
    {"loop", "enter", "wait", "scan", "s_lock", "s_emplace", "s_count", "s_unlock", "s_notify",
     "c_lock", "c_epoll", "exit"}
WorkerLabels ==
    {"lock", "test", "asleep", "run", "w_lock", "w_close", "dec", "end_lock", "end_notify"}
StopLabels == {"stop", "stop_lock", "stop_test", "stop_sleep", "stop_asleep"}

Threads == Workers \cup {Main}

ASSUME SignalAssumption ==
    /\ IsFiniteSet(Workers) /\ Workers # {} /\ Main \notin Workers
    /\ None \notin Threads \cup MainLabels \cup WorkerLabels
    /\ MaxTasks \in Nat /\ MaxSignals \in Nat

VARIABLES
    is_running,
    mtx, end_mtx,      \* the pool's mutexes: the thread that holds it, or None
    server_mtx,        \* TCPServer::mtx, likewise
    cv, end_cv,        \* the threads waiting on the condition variable
    queue,             \* number of callables in task_queue
    task_count,
    tasks, signals,    \* events and signals so far
    pc,
    return             \* where stop() returns to, None when not in stop()

poolVars == <<queue, task_count>>
locks == <<mtx, end_mtx>>
conds == <<cv, end_cv>>
counters == <<tasks, signals>>
vars == <<is_running, locks, server_mtx, conds, poolVars, counters, pc, return>>

Init ==
    /\ is_running = TRUE
    /\ mtx = None /\ end_mtx = None /\ server_mtx = None
    /\ cv = {} /\ end_cv = {}
    /\ queue = 0 /\ task_count = 0
    /\ tasks = 0 /\ signals = 0
    /\ pc = [t \in Threads |-> IF t = Main THEN "loop" ELSE "lock"]
    /\ return = [t \in Threads |-> None]

Goes(t, from, to) == pc[t] = from /\ pc' = [pc EXCEPT ![t] = to]

\* notify_one on the condition variable with waiters S.
NotifyOne(S, Sp) == IF S = {} THEN Sp = {} ELSE \E t \in S : Sp = S \ {t}

-----------------------------------------------------------------------------
(* The main thread                                                         *)

\* while(is_running.load()), and ~TCPServer, which calls stop() again.
Loop ==
    /\ IF is_running THEN Goes(Main, "loop", "enter") /\ UNCHANGED return
                     ELSE /\ Goes(Main, "loop", "stop")
                          /\ return' = [return EXCEPT ![Main] = "exit"]
    /\ UNCHANGED <<is_running, server_mtx, locks, conds, poolVars, counters>>

\* The call of epoll_wait: a signal just before it interrupts nothing.
Enter ==
    /\ Goes(Main, "enter", "wait")
    /\ UNCHANGED <<is_running, server_mtx, locks, conds, poolVars, counters, return>>

\* Mutant: stop() leaves the listening socket alone; epoll_wait returns for
\* clients only.
EpollWait_ByClients ==
    /\ tasks < MaxTasks
    /\ Goes(Main, "wait", "scan")
    /\ UNCHANGED <<is_running, server_mtx, locks, conds, poolVars, counters, return>>

\* epoll_wait returns for clients, and for the listening socket that stop() has
\* shut down, even if the main thread enters it afterwards.
EpollWait ==
    /\ tasks < MaxTasks \/ ~is_running
    /\ Goes(Main, "wait", "scan")
    /\ UNCHANGED <<is_running, server_mtx, locks, conds, poolVars, counters, return>>

EndScan ==
    /\ Goes(Main, "scan", "loop")
    /\ UNCHANGED <<is_running, server_mtx, locks, conds, poolVars, counters, return>>

\* An event leads to label.
Scans(label) ==
    /\ tasks < MaxTasks
    /\ Goes(Main, "scan", label)
    /\ tasks' = tasks + 1
    /\ UNCHANGED <<is_running, server_mtx, locks, conds, poolVars, signals, return>>

\* client_communicate receives a chunk and calls submit.
Receive == Scans("s_lock")

\* new_client has accepted, or client_communicate received nothing.
Client == Scans("c_lock")

\* What they do with the epoll set they do under TCPServer::mtx.
CLock ==
    /\ server_mtx = None
    /\ Goes(Main, "c_lock", "c_epoll")
    /\ server_mtx' = Main
    /\ UNCHANGED <<is_running, locks, conds, poolVars, counters, return>>

CUnlock ==
    /\ Goes(Main, "c_epoll", "scan")
    /\ server_mtx' = None
    /\ UNCHANGED <<is_running, locks, conds, poolVars, counters, return>>

SLock ==
    /\ mtx = None
    /\ Goes(Main, "s_lock", "s_emplace")
    /\ mtx' = Main
    /\ UNCHANGED <<is_running, server_mtx, end_mtx, conds, poolVars, counters, return>>

SEmplace ==
    /\ Goes(Main, "s_emplace", "s_count")
    /\ queue' = queue + 1
    /\ UNCHANGED <<is_running, server_mtx, locks, conds, task_count, counters, return>>

SCount ==
    /\ Goes(Main, "s_count", "s_unlock")
    /\ task_count' = task_count + 1
    /\ UNCHANGED <<is_running, server_mtx, locks, conds, queue, counters, return>>

SUnlock ==
    /\ Goes(Main, "s_unlock", "s_notify")
    /\ mtx' = None
    /\ UNCHANGED <<is_running, server_mtx, end_mtx, conds, poolVars, counters, return>>

SNotify ==
    /\ Goes(Main, "s_notify", "scan")
    /\ NotifyOne(cv, cv')
    /\ UNCHANGED <<is_running, server_mtx, locks, end_cv, poolVars, counters, return>>

MainStep ==
    \/ Loop \/ Enter \/ EpollWait \/ EndScan
    \/ Receive \/ SLock \/ SEmplace \/ SCount \/ SUnlock \/ SNotify
    \/ Client \/ CLock \/ CUnlock

-----------------------------------------------------------------------------
(* A worker of the pool                                                    *)

WLock(w) ==
    /\ mtx = None
    /\ Goes(w, "lock", "test")
    /\ mtx' = w
    /\ UNCHANGED <<is_running, server_mtx, end_mtx, conds, poolVars, counters, return>>

WTake(w) ==
    /\ queue > 0
    /\ Goes(w, "test", "run")
    /\ queue' = queue - 1
    /\ mtx' = None
    /\ UNCHANGED <<is_running, server_mtx, end_mtx, conds, task_count, counters, return>>

WSleep(w) ==
    /\ queue = 0
    /\ Goes(w, "test", "asleep")
    /\ cv' = cv \cup {w}
    /\ mtx' = None
    /\ UNCHANGED <<is_running, server_mtx, end_mtx, end_cv, poolVars, counters, return>>

WWake(w) ==
    /\ w \notin cv
    /\ Goes(w, "asleep", "lock")
    /\ UNCHANGED <<is_running, server_mtx, locks, conds, poolVars, counters, return>>

\* The callable: the server has been stopped, or send succeeds.
WRun(w) ==
    /\ Goes(w, "run", "dec")
    /\ UNCHANGED <<is_running, server_mtx, locks, conds, poolVars, counters, return>>

\* The client has gone: send fails.
WSendFails(w) ==
    /\ is_running
    /\ Goes(w, "run", "w_lock")
    /\ UNCHANGED <<is_running, server_mtx, locks, conds, poolVars, counters, return>>

WCloseLock(w) ==
    /\ server_mtx = None
    /\ Goes(w, "w_lock", "w_close")
    /\ server_mtx' = w
    /\ UNCHANGED <<is_running, locks, conds, poolVars, counters, return>>

WCloseUnlock(w) ==
    /\ Goes(w, "w_close", "dec")
    /\ server_mtx' = None
    /\ UNCHANGED <<is_running, locks, conds, poolVars, counters, return>>

WDec(w) ==
    /\ Goes(w, "dec", IF task_count = 1 THEN "end_lock" ELSE "lock")
    /\ task_count' = task_count - 1
    /\ UNCHANGED <<is_running, server_mtx, locks, conds, queue, counters, return>>

\* Mutant: end_cv is notified without end_mtx.
WEndLock_NotifyUnlocked(w) ==
    /\ Goes(w, "end_lock", "lock")
    /\ NotifyOne(end_cv, end_cv')
    /\ UNCHANGED <<is_running, server_mtx, locks, cv, poolVars, counters, return>>

WEndLock(w) ==
    /\ end_mtx = None
    /\ Goes(w, "end_lock", "end_notify")
    /\ end_mtx' = w
    /\ UNCHANGED <<is_running, server_mtx, mtx, conds, poolVars, counters, return>>

WEndNotify(w) ==
    /\ Goes(w, "end_notify", "lock")
    /\ NotifyOne(end_cv, end_cv')
    /\ end_mtx' = None
    /\ UNCHANGED <<is_running, server_mtx, mtx, cv, poolVars, counters, return>>

WorkerStep(w) ==
    \/ WLock(w) \/ WTake(w) \/ WSleep(w) \/ WWake(w)
    \/ WRun(w) \/ WSendFails(w) \/ WCloseLock(w) \/ WCloseUnlock(w)
    \/ WDec(w) \/ WEndLock(w) \/ WEndNotify(w)

-----------------------------------------------------------------------------
(* stop(), on any thread                                                   *)

StopStore(t) ==
    /\ Goes(t, "stop", "stop_lock")
    /\ is_running' = FALSE
    /\ UNCHANGED <<server_mtx, locks, conds, poolVars, counters, return>>

StopLock(t) ==
    /\ end_mtx = None
    /\ Goes(t, "stop_lock", "stop_test")
    /\ end_mtx' = t
    /\ UNCHANGED <<is_running, server_mtx, mtx, conds, poolVars, counters, return>>

\* The predicate does not hold yet.
StopTest(t) ==
    /\ task_count # 0
    /\ Goes(t, "stop_test", "stop_sleep")
    /\ UNCHANGED <<is_running, server_mtx, locks, conds, poolVars, counters, return>>

StopSleep(t) ==
    /\ Goes(t, "stop_sleep", "stop_asleep")
    /\ end_cv' = end_cv \cup {t}
    /\ end_mtx' = None
    /\ UNCHANGED <<is_running, server_mtx, mtx, cv, poolVars, counters, return>>

StopWake(t) ==
    /\ t \notin end_cv
    /\ Goes(t, "stop_asleep", "stop_lock")
    /\ UNCHANGED <<is_running, server_mtx, locks, conds, poolVars, counters, return>>

\* stop() returns, and with it the handler.
StopReturn(t) ==
    /\ task_count = 0
    /\ Goes(t, "stop_test", return[t])
    /\ return' = [return EXCEPT ![t] = None]
    /\ end_mtx' = None
    /\ UNCHANGED <<is_running, server_mtx, mtx, conds, poolVars, counters>>

Stop(t) ==
    \/ StopStore(t) \/ StopLock(t) \/ StopTest(t) \/ StopSleep(t)
    \/ StopWake(t) \/ StopReturn(t)

-----------------------------------------------------------------------------
(* Signals                                                                 *)

\* A thread that runs stop() has SIGINT blocked; a signal during ~TCPServer is
\* left out.
Interruptible(t) == return[t] = None /\ pc[t] # "exit"

\* The thread the kernel chooses.
Target(t) ==
    /\ Interruptible(t)
    /\ t = Main => pc[Main] \in Where
    /\ t # Main => ~Interruptible(Main) /\ pc[Main] # "exit"

\* SIGINT: signals() calls stop().  An epoll_wait that was interrupted fails
\* with EINTR.
Signal(t) ==
    /\ signals < MaxSignals /\ Target(t)
    /\ signals' = signals + 1
    /\ pc' = [pc EXCEPT ![t] = "stop"]
    /\ return' = [return EXCEPT ![t] = IF pc[t] = "wait" THEN "loop" ELSE pc[t]]
    /\ UNCHANGED <<is_running, server_mtx, locks, conds, poolVars, tasks>>

\* A wait returns although nobody has notified.
Spurious ==
    /\ \/ \E t \in cv : cv' = cv \ {t} /\ UNCHANGED end_cv
       \/ \E t \in end_cv : end_cv' = end_cv \ {t} /\ UNCHANGED cv
    /\ UNCHANGED <<is_running, server_mtx, locks, poolVars, counters, pc, return>>

Rest == pc[Main] = "exit" /\ UNCHANGED vars

Next ==
    \/ MainStep \/ (\E w \in Workers : WorkerStep(w)) \/ (\E t \in Threads : Stop(t))
    \/ (\E t \in Threads : Signal(t)) \/ Spurious \/ Rest

Spec == Init /\ [][Next]_vars

\* Every thread that can take a step again and again takes it, even if spurious
\* wakeups make others compete for a mutex; nobody has to send, to press ^C or to
\* be woken without reason.
FairSpec ==
    /\ Spec
    /\ SF_vars(MainStep \/ Stop(Main))
    /\ \A w \in Workers : SF_vars(WorkerStep(w) \/ Stop(w))

-----------------------------------------------------------------------------
(* Properties                                                              *)

TypeOK ==
    /\ is_running \in BOOLEAN
    /\ {mtx, end_mtx, server_mtx} \subseteq Threads \cup {None}
    /\ cv \subseteq Workers /\ end_cv \subseteq Threads
    /\ queue \in Nat /\ task_count \in Nat
    /\ tasks \in 0..MaxTasks /\ signals \in 0..MaxSignals
    /\ pc \in [Threads -> MainLabels \cup WorkerLabels \cup StopLabels]
    /\ return \in [Threads -> MainLabels \cup WorkerLabels \cup {None}]

\* The signal that ends the wait of stop() is not lost (Project Journey:848):
\* the main thread does not sleep on end_cv with no task left unless a worker
\* is about to notify.
DrainSignalPending ==
    Main \in end_cv /\ task_count = 0 =>
      \E w \in Workers : {pc[w], return[w]} \cap {"end_lock", "end_notify"} # {}

\* Graceful shutdown (epollthread_tp.cpp:216): once stop() was called the main
\* thread gets through it and through ~TCPServer.
ShutsDown == ~is_running ~> pc[Main] = "exit"
=============================================================================

---------------------------- MODULE SignalStopProof ----------------------------
(***************************************************************************)
(* Proofs about SignalStop, for any number of workers, callables and       *)
(* signals, wherever a signal finds the main thread: stop() returns only   *)
(* when the pool is dry, and the first signal never loses the notification *)
(* it waits for.  If signals do not find the main thread in the critical   *)
(* sections of submit and of the epoll set, nor before submit's            *)
(* notify_one, the handler waits with no mutex in hand, and while it       *)
(* waits a worker can go on.                                               *)
(***************************************************************************)
EXTENDS SignalStop, TLAPS, FiniteSetTheorems

-----------------------------------------------------------------------------
(* The inductive invariant                                                 *)

\* Where a thread is, or is going back to once stop() returns.
At(t) == IF return[t] = None THEN pc[t] ELSE return[t]
WorkersAt(labels) == {w \in Workers : At(w) \in labels}

Typed ==
    /\ is_running \in BOOLEAN
    /\ mtx \in Threads \cup {None} /\ end_mtx \in Threads \cup {None}
    /\ server_mtx \in Threads \cup {None}
    /\ cv \subseteq Workers /\ end_cv \subseteq Threads
    /\ tasks \in 0..MaxTasks /\ signals \in 0..MaxSignals
    /\ pc \in [Threads -> MainLabels \cup WorkerLabels \cup StopLabels]
    /\ return \in [Threads -> MainLabels \cup WorkerLabels \cup {None}]

\* A thread has somewhere to return to just while it is in stop().
Places ==
    /\ \A t \in Threads : return[t] # None <=> pc[t] \in StopLabels
    /\ At(Main) \in MainLabels
    /\ \A w \in Workers : At(w) \in WorkerLabels

\* Who holds a mutex, the threads a signal interrupted inside of it included.
Mutexes ==
    /\ \A t \in Threads : mtx = t <=> At(t) \in {"test", "s_emplace", "s_count", "s_unlock"}
    /\ \A t \in Threads : server_mtx = t <=> At(t) \in {"c_epoll", "w_close"}
    /\ \A t \in Threads :
         /\ end_mtx = t <=> pc[t] \in {"stop_test", "stop_sleep"} \/ At(t) = "end_notify"
         /\ pc[t] \in {"stop_test", "stop_sleep"} => At(t) # "end_notify"

Waiters ==
    /\ \A w \in cv : At(w) = "asleep"
    /\ \A t \in end_cv : pc[t] = "stop_asleep"

Uncounted == IF At(Main) = "s_count" THEN 1 ELSE 0

\* task_count is what is queued or running but for what submit has not counted.
CountInv ==
    /\ queue \in Nat /\ task_count \in Int
    /\ task_count = queue + Cardinality(WorkersAt({"run", "w_lock", "w_close", "dec"})) - Uncounted
    /\ At(Main) = "s_count" => queue > 0

\* stop() is not run before the first signal, and the first one is not a
\* worker's.
FirstSignal ==
    /\ ~is_running \/ return[Main] # None => signals > 0
    /\ signals <= 1 => \A w \in Workers : return[w] = None

\* Main has found tasks left and sleeps, or is about to.
MainSleeps == Main \in end_cv \/ pc[Main] = "stop_sleep"

\* If there are none left any more a worker is about to say so.
Pending ==
    signals <= 1 /\ MainSleeps /\ task_count = 0 =>
      \E w \in Workers : pc[w] \in {"end_lock", "end_notify"}

\* The workers that will look at the queue.
Awake == {w \in Workers : At(w) \in {"lock", "test"} \/ (At(w) = "asleep" /\ w \notin cv)}
AboutToNotify == IF At(Main) \in {"s_count", "s_unlock", "s_notify"} THEN 1 ELSE 0

\* While a worker sleeps every queued callable has somebody to see to it.
Conserving == cv # {} => queue <= Cardinality(Awake) + AboutToNotify

\* The handler and ~TCPServer go back to where a signal may find the main thread,
\* to the loop, and out.
ReturnsThere == return[Main] \in {None, "exit", "loop"} \cup Where

Base == Typed /\ Places /\ Mutexes /\ Waiters
IInv == Base /\ CountInv /\ FirstSignal /\ Pending /\ Conserving /\ ReturnsThere

-----------------------------------------------------------------------------
(* Where a step leads                                                      *)

\* What the threads but t do not notice.
OthersStay(t) ==
    \A u \in Threads \ {t} : pc'[u] = pc[u] /\ return'[u] = return[u] /\ At(u)' = At(u)

\* A thread that is not in stop() goes from one label of its own to another.
LEMMA OwnGoes ==
  ASSUME Typed, Places, NEW t \in Threads, NEW a, NEW b,
         {a, b} \subseteq IF t = Main THEN MainLabels ELSE WorkerLabels,
         Goes(t, a, b), UNCHANGED return
  PROVE  /\ pc' \in [Threads -> MainLabels \cup WorkerLabels \cup StopLabels]
         /\ Places' /\ OthersStay(t)
         /\ At(t) = a /\ At(t)' = b /\ pc'[t] = b /\ return'[t] = None /\ return[t] = None
<1>1. pc[t] = a /\ pc' = [pc EXCEPT ![t] = b]
  BY DEF Goes
<1>2. pc' \in [Threads -> MainLabels \cup WorkerLabels \cup StopLabels] /\ pc'[t] = b
  BY <1>1 DEF Typed
<1>3. return[t] = None /\ a \notin StopLabels /\ b \notin StopLabels
  BY <1>1 DEF Places, MainLabels, WorkerLabels, StopLabels
<1>4. OthersStay(t) /\ At(t) = a /\ At(t)' = b
  BY <1>1, <1>2, <1>3 DEF OthersStay, At, Typed
<1>5. Places'
  <2>1. \A u \in Threads : (return[u] # None <=> pc[u] \in StopLabels)'
    BY <1>2, <1>3, <1>4 DEF Places, OthersStay
  <2>2. At(Main)' \in MainLabels /\ \A w \in Workers : At(w)' \in WorkerLabels
    BY <1>4, SignalAssumption DEF Places, OthersStay, Threads
  <2> QED  BY <2>1, <2>2 DEF Places
<1> QED  BY <1>2, <1>3, <1>4, <1>5

\* A step inside stop() leaves the place to return to alone.
LEMMA StopGoes ==
  ASSUME Typed, Places, NEW t \in Threads, NEW a \in StopLabels, NEW b \in StopLabels,
         Goes(t, a, b), UNCHANGED return
  PROVE  /\ pc' \in [Threads -> MainLabels \cup WorkerLabels \cup StopLabels]
         /\ Places' /\ OthersStay(t) /\ pc'[t] = b /\ return[t] # None /\ At(t)' = At(t)
<1>1. pc[t] = a /\ pc' = [pc EXCEPT ![t] = b]
  BY DEF Goes
<1>2. pc' \in [Threads -> MainLabels \cup WorkerLabels \cup StopLabels] /\ pc'[t] = b
  BY <1>1 DEF Typed
<1>3. return[t] # None /\ At(t)' = At(t)
  BY <1>1 DEF Places, At
<1>4. OthersStay(t)
  BY <1>1, <1>2 DEF OthersStay, At, Typed
<1>5. Places'
  BY <1>2, <1>3, <1>4, SignalAssumption DEF Places, OthersStay, Threads
<1> QED  BY <1>2, <1>3, <1>4, <1>5

\* A thread enters stop(), from the loop's end or by a signal.
LEMMA Enters ==
  ASSUME Typed, Places, NEW t \in Threads, NEW b,
         b \in IF t = Main THEN MainLabels ELSE WorkerLabels,
         pc' = [pc EXCEPT ![t] = "stop"], return' = [return EXCEPT ![t] = b]
  PROVE  /\ pc' \in [Threads -> MainLabels \cup WorkerLabels \cup StopLabels]
         /\ return' \in [Threads -> MainLabels \cup WorkerLabels \cup {None}]
         /\ Places' /\ OthersStay(t) /\ pc'[t] = "stop" /\ return'[t] = b /\ At(t)' = b
<1>1. /\ pc' \in [Threads -> MainLabels \cup WorkerLabels \cup StopLabels] /\ pc'[t] = "stop"
      /\ return' \in [Threads -> MainLabels \cup WorkerLabels \cup {None}] /\ return'[t] = b
  BY DEF Typed, StopLabels
<1>2. b # None /\ At(t)' = b
  BY <1>1, SignalAssumption DEF At
<1>3. OthersStay(t)
  BY <1>1 DEF OthersStay, At, Typed
<1>4. Places'
  <2>1. \A u \in Threads : (return[u] # None <=> pc[u] \in StopLabels)'
    BY <1>1, <1>2, <1>3 DEF Places, OthersStay, StopLabels
  <2>2. At(Main)' \in MainLabels /\ \A w \in Workers : At(w)' \in WorkerLabels
    BY <1>2, <1>3, SignalAssumption DEF Places, OthersStay, Threads
  <2> QED  BY <2>1, <2>2 DEF Places
<1> QED  BY <1>1, <1>2, <1>3, <1>4

\* A thread leaves stop().
LEMMA Returns ==
  ASSUME Typed, Places, NEW t \in Threads, StopReturn(t)
  PROVE  /\ pc' \in [Threads -> MainLabels \cup WorkerLabels \cup StopLabels]
         /\ return' \in [Threads -> MainLabels \cup WorkerLabels \cup {None}]
         /\ Places' /\ OthersStay(t) /\ pc[t] = "stop_test" /\ return[t] # None
         /\ return'[t] = None /\ pc'[t] = At(t) /\ At(t)' = At(t)
<1>1. /\ pc[t] = "stop_test" /\ pc' = [pc EXCEPT ![t] = return[t]]
      /\ return' = [return EXCEPT ![t] = None]
  BY DEF StopReturn, Goes
<1>2. return[t] # None /\ return[t] = At(t)
  BY <1>1 DEF Places, StopLabels, At
<1>3. /\ pc' \in [Threads -> MainLabels \cup WorkerLabels \cup StopLabels] /\ pc'[t] = At(t)
      /\ return' \in [Threads -> MainLabels \cup WorkerLabels \cup {None}] /\ return'[t] = None
  BY <1>1, <1>2 DEF Typed
<1>4. At(t)' = At(t) /\ OthersStay(t)
  BY <1>1, <1>3 DEF At, OthersStay, Typed
<1>5. Places'
  <2>1. At(t) \notin StopLabels
    BY SignalAssumption DEF Places, Threads, MainLabels, WorkerLabels, StopLabels
  <2>2. \A u \in Threads : (return[u] # None <=> pc[u] \in StopLabels)'
    BY <1>3, <1>4, <2>1 DEF Places, OthersStay
  <2>3. At(Main)' \in MainLabels /\ \A w \in Workers : At(w)' \in WorkerLabels
    BY <1>4, SignalAssumption DEF Places, OthersStay, Threads
  <2> QED  BY <2>2, <2>3 DEF Places
<1> QED  BY <1>1, <1>2, <1>3, <1>4, <1>5

-----------------------------------------------------------------------------
(* Mutexes and wait sets                                                   *)

\* No thread is nobody.
LEMMA SomeThread == None \notin Threads /\ Main \in Threads /\ Workers \subseteq Threads
  BY SignalAssumption DEF Threads

\* Notifying one takes at most one thread out of the waiters.
LEMMA NotifyTakesOne ==
  ASSUME NEW S, NEW R, NotifyOne(S, R)
  PROVE  R \subseteq S /\ \A t : S = {t} => R = {}
  BY DEF NotifyOne

\* A step t takes outside of stop(), from a to b: it holds a mutex just in its
\* critical sections, sleeps on cv just at "asleep", and puts nobody to sleep on end_cv.
OwnStep(t, a, b) ==
    LET Holds(l) == l \in {"test", "s_emplace", "s_count", "s_unlock"}
        HoldsServer(l) == l \in {"c_epoll", "w_close"} IN
      /\ Goes(t, a, b) /\ UNCHANGED <<return, is_running, signals>>
      /\ mtx' = IF Holds(b) THEN t ELSE IF Holds(a) THEN None ELSE mtx
      /\ Holds(b) /\ ~Holds(a) => mtx = None
      /\ server_mtx' = IF HoldsServer(b) THEN t ELSE IF HoldsServer(a) THEN None ELSE server_mtx
      /\ HoldsServer(b) => server_mtx = None
      /\ end_mtx' = IF b = "end_notify" THEN t ELSE IF a = "end_notify" THEN None ELSE end_mtx
      /\ b = "end_notify" => end_mtx = None
      /\ cv' \subseteq IF b = "asleep" THEN cv \cup {t} ELSE cv
      /\ (a = "asleep" => t \notin cv) /\ (b = "asleep" => t # Main)
      /\ end_cv' \subseteq end_cv
      /\ tasks' \in 0..MaxTasks

\* Such a step keeps what is known of places, mutexes and wait sets.
LEMMA OwnBase ==
  ASSUME Base, NEW t \in Threads, NEW a, NEW b,
         {a, b} \subseteq IF t = Main THEN MainLabels ELSE WorkerLabels,
         OwnStep(t, a, b)
  PROVE  /\ Base' /\ OthersStay(t)
         /\ At(t) = a /\ At(t)' = b /\ pc[t] = a /\ pc'[t] = b /\ return[t] = None
<1> USE SomeThread DEF Base
<1>1. Goes(t, a, b) /\ UNCHANGED <<return, is_running, signals>> /\ tasks' \in 0..MaxTasks
  BY DEF OwnStep
<1>2. /\ pc' \in [Threads -> MainLabels \cup WorkerLabels \cup StopLabels]
      /\ Places' /\ OthersStay(t) /\ return[t] = None
      /\ At(t) = a /\ At(t)' = b /\ pc[t] = a /\ pc'[t] = b
  <2>1. pc[t] = a
    BY <1>1 DEF Goes
  <2> QED  BY <1>1, <2>1, OwnGoes
<1>3. a \notin StopLabels /\ b \notin StopLabels
  BY DEF MainLabels, WorkerLabels, StopLabels
<1>4. Mutexes'
  <2>1. \A u \in Threads : mtx' = u <=> At(u)' \in {"test", "s_emplace", "s_count", "s_unlock"}
    BY <1>2 DEF OwnStep, Mutexes, OthersStay
  <2>3. \A u \in Threads : server_mtx' = u <=> At(u)' \in {"c_epoll", "w_close"}
    BY <1>2 DEF OwnStep, Mutexes, OthersStay
  <2>2. \A u \in Threads :
          /\ end_mtx' = u <=> pc'[u] \in {"stop_test", "stop_sleep"} \/ At(u)' = "end_notify"
          /\ pc'[u] \in {"stop_test", "stop_sleep"} => At(u)' # "end_notify"
    BY <1>2, <1>3 DEF OwnStep, Mutexes, OthersStay, StopLabels
  <2> QED  BY <2>1, <2>2, <2>3 DEF Mutexes
<1>5. Waiters'
  <2>1. \A w \in cv' : At(w)' = "asleep"
    BY <1>2 DEF OwnStep, Waiters, OthersStay, Typed
  <2>2. \A u \in end_cv' : pc'[u] = "stop_asleep"
    BY <1>2, <1>3 DEF OwnStep, Waiters, OthersStay, Typed, StopLabels
  <2> QED  BY <2>1, <2>2 DEF Waiters
<1>6. Typed'
  <2>1. cv' \subseteq Workers /\ end_cv' \subseteq Threads
    BY DEF OwnStep, Typed, Threads
  <2>2. {mtx, end_mtx, server_mtx}' \subseteq Threads \cup {None}
    BY DEF OwnStep, Typed
  <2> QED  BY <1>1, <1>2, <2>1, <2>2 DEF Typed
<1> QED  BY <1>2, <1>4, <1>5, <1>6

\* The main thread's own steps but that into ~TCPServer.
LEMMA MainOwn ==
  ASSUME Base, MainStep, pc'[Main] # "stop"
  PROVE  \E a, b \in MainLabels : OwnStep(Main, a, b)
<1> USE DEF Goes, MainLabels, locks, conds, counters
<1>1. CASE Loop
  <2>1. is_running
    BY <1>1, SomeThread DEF Loop, Base, Typed
  <2>2. OwnStep(Main, "loop", "enter")
    BY <1>1, <2>1 DEF Loop, OwnStep, Base, Typed
  <2> QED  BY <2>2
<1>2. CASE Enter
  <2>1. OwnStep(Main, "enter", "wait")
    BY <1>2 DEF Enter, OwnStep, Base, Typed
  <2> QED  BY <2>1
<1>3. CASE EpollWait
  <2>1. OwnStep(Main, "wait", "scan")
    BY <1>3 DEF EpollWait, OwnStep, Base, Typed
  <2> QED  BY <2>1
<1>4. CASE EndScan
  <2>1. OwnStep(Main, "scan", "loop")
    BY <1>4 DEF EndScan, OwnStep, Base, Typed
  <2> QED  BY <2>1
<1>5. CASE Receive \/ Client
  <2>1. PICK b \in {"s_lock", "c_lock"} : Scans(b)
    BY <1>5 DEF Receive, Client
  <2>2. OwnStep(Main, "scan", b)
    BY <2>1, SignalAssumption DEF Scans, OwnStep, Base, Typed
  <2> QED  BY <2>2
<1>6. CASE SLock
  <2>1. OwnStep(Main, "s_lock", "s_emplace")
    BY <1>6 DEF SLock, OwnStep, Base, Typed
  <2> QED  BY <2>1
<1>7. CASE SEmplace
  <2>1. mtx = Main
    BY <1>7, SomeThread DEF SEmplace, Base, Mutexes, Places, At, StopLabels
  <2>2. OwnStep(Main, "s_emplace", "s_count")
    BY <1>7, <2>1 DEF SEmplace, OwnStep, Base, Typed
  <2> QED  BY <2>2
<1>8. CASE SCount
  <2>1. mtx = Main
    BY <1>8, SomeThread DEF SCount, Base, Mutexes, Places, At, StopLabels
  <2>2. OwnStep(Main, "s_count", "s_unlock")
    BY <1>8, <2>1 DEF SCount, OwnStep, Base, Typed
  <2> QED  BY <2>2
<1>9. CASE SUnlock
  <2>1. OwnStep(Main, "s_unlock", "s_notify")
    BY <1>9 DEF SUnlock, OwnStep, Base, Typed
  <2> QED  BY <2>1
<1>10. CASE SNotify
  <2>1. OwnStep(Main, "s_notify", "scan")
    BY <1>10, NotifyTakesOne DEF SNotify, OwnStep, Base, Typed
  <2> QED  BY <2>1
<1>11. CASE CLock
  <2>1. OwnStep(Main, "c_lock", "c_epoll")
    BY <1>11 DEF CLock, OwnStep, Base, Typed
  <2> QED  BY <2>1
<1>12. CASE CUnlock
  <2>1. OwnStep(Main, "c_epoll", "scan")
    BY <1>12 DEF CUnlock, OwnStep, Base, Typed
  <2> QED  BY <2>1
<1> QED
  BY <1>1, <1>2, <1>3, <1>4, <1>5, <1>6, <1>7, <1>8, <1>9, <1>10, <1>11, <1>12 DEF MainStep

\* Only the loop leads the main thread into stop().
LEMMA StopsByLoop ==
  ASSUME Base, MainStep, pc'[Main] = "stop" PROVE Loop /\ ~is_running
<1>1. ~(Enter \/ EpollWait \/ EndScan \/ Receive \/ Client \/ CLock \/ CUnlock)
  BY SomeThread
  DEF Enter, EpollWait, EndScan, Receive, Client, Scans, CLock, CUnlock, Goes, Base, Typed
<1>2. ~(SLock \/ SEmplace \/ SCount \/ SUnlock \/ SNotify)
  BY SomeThread DEF SLock, SEmplace, SCount, SUnlock, SNotify, Goes, Base, Typed
<1>3. Loop
  BY <1>1, <1>2 DEF MainStep
<1> QED  BY <1>3, SomeThread DEF Loop, Goes, Base, Typed

\* Every step of a worker outside of stop().
LEMMA WorkerOwn ==
  ASSUME Base, NEW w \in Workers, WorkerStep(w)
  PROVE  \E a, b \in WorkerLabels : OwnStep(w, a, b)
<1> USE SignalAssumption DEF Goes, WorkerLabels, locks, conds, counters
<1>1. CASE WLock(w)
  <2>1. OwnStep(w, "lock", "test")
    BY <1>1 DEF WLock, OwnStep, Base, Typed
  <2> QED  BY <2>1
<1>2. CASE WTake(w)
  <2>1. OwnStep(w, "test", "run")
    BY <1>2 DEF WTake, OwnStep, Base, Typed
  <2> QED  BY <2>1
<1>3. CASE WSleep(w)
  <2>1. OwnStep(w, "test", "asleep")
    BY <1>3 DEF WSleep, OwnStep, Base, Typed
  <2> QED  BY <2>1
<1>4. CASE WWake(w)
  <2>1. OwnStep(w, "asleep", "lock")
    BY <1>4 DEF WWake, OwnStep, Base, Typed
  <2> QED  BY <2>1
<1>5. CASE WRun(w)
  <2>1. OwnStep(w, "run", "dec")
    BY <1>5 DEF WRun, OwnStep, Base, Typed
  <2> QED  BY <2>1
<1>6. CASE WSendFails(w)
  <2>1. OwnStep(w, "run", "w_lock")
    BY <1>6 DEF WSendFails, OwnStep, Base, Typed
  <2> QED  BY <2>1
<1>7. CASE WCloseLock(w)
  <2>1. OwnStep(w, "w_lock", "w_close")
    BY <1>7 DEF WCloseLock, OwnStep, Base, Typed
  <2> QED  BY <2>1
<1>8. CASE WCloseUnlock(w)
  <2>1. OwnStep(w, "w_close", "dec")
    BY <1>8 DEF WCloseUnlock, OwnStep, Base, Typed
  <2> QED  BY <2>1
<1>9. CASE WDec(w)
  <2>1. PICK b \in {"end_lock", "lock"} : Goes(w, "dec", b)
    BY <1>9 DEF WDec
  <2>2. OwnStep(w, "dec", b)
    BY <1>9, <2>1 DEF WDec, OwnStep, Base, Typed
  <2> QED  BY <2>2
<1>10. CASE WEndLock(w)
  <2>1. OwnStep(w, "end_lock", "end_notify")
    BY <1>10 DEF WEndLock, OwnStep, Base, Typed
  <2> QED  BY <2>1
<1>11. CASE WEndNotify(w)
  <2>1. OwnStep(w, "end_notify", "lock")
    BY <1>11, NotifyTakesOne DEF WEndNotify, OwnStep, Base, Typed
  <2> QED  BY <2>1
<1> QED
  BY <1>1, <1>2, <1>3, <1>4, <1>5, <1>6, <1>7, <1>8, <1>9, <1>10, <1>11 DEF WorkerStep

\* ~TCPServer calls stop().
LEMMA LeavesLoop ==
  ASSUME Base, Loop, ~is_running
  PROVE  /\ Base' /\ OthersStay(Main) /\ At(Main)' = "exit" /\ pc'[Main] = "stop"
         /\ pc[Main] = "loop" /\ At(Main) = "loop" /\ return[Main] = None
<1> USE SomeThread DEF Base
<1>1. /\ pc[Main] = "loop" /\ pc' = [pc EXCEPT ![Main] = "stop"]
      /\ return' = [return EXCEPT ![Main] = "exit"]
      /\ UNCHANGED <<is_running, locks, server_mtx, conds, counters>>
  BY DEF Loop, Goes
<1>2. /\ pc' \in [Threads -> MainLabels \cup WorkerLabels \cup StopLabels]
      /\ return' \in [Threads -> MainLabels \cup WorkerLabels \cup {None}]
      /\ Places' /\ OthersStay(Main) /\ At(Main)' = "exit" /\ pc'[Main] = "stop"
  BY <1>1, Enters DEF MainLabels
<1>3. At(Main) = "loop" /\ return[Main] = None
  BY <1>1 DEF At, Places, StopLabels
<1>4. Mutexes' /\ Waiters' /\ Typed'
  BY <1>1, <1>2, <1>3 DEF Mutexes, Waiters, OthersStay, Typed, locks, conds, counters
<1> QED  BY <1>1, <1>2, <1>3, <1>4

\* The steps of stop() move the thread nowhere else.
LEMMA StopBase ==
  ASSUME Base, NEW t \in Threads, Stop(t)
  PROVE  /\ Base' /\ OthersStay(t) /\ At(t)' = At(t)
         /\ return[t] # None /\ return'[t] \in {None, return[t]}
<1> USE SomeThread DEF Base
<1>1. CASE StopStore(t) \/ StopLock(t) \/ StopTest(t) \/ StopSleep(t) \/ StopWake(t)
  <2>1. PICK a \in StopLabels, b \in StopLabels : Goes(t, a, b) /\ UNCHANGED return
    BY <1>1 DEF StopStore, StopLock, StopTest, StopSleep, StopWake, StopLabels
  <2>2. /\ pc' \in [Threads -> MainLabels \cup WorkerLabels \cup StopLabels]
        /\ Places' /\ OthersStay(t) /\ pc'[t] = b /\ return[t] # None /\ At(t)' = At(t)
    BY <2>1, StopGoes
  <2>3. pc[t] = a /\ pc'[t] = b
    BY <2>1, <2>2 DEF Goes
  <2>4. Typed'
    <3>1. /\ UNCHANGED counters /\ is_running' \in BOOLEAN
          /\ UNCHANGED <<mtx, server_mtx, cv>> /\ end_mtx' \in {end_mtx, None, t}
          /\ end_cv' \subseteq end_cv \cup {t}
      BY <1>1 DEF StopStore, StopLock, StopTest, StopSleep, StopWake, Typed, locks, conds
    <3> QED  BY <2>1, <2>2, <3>1 DEF Typed, counters
  <2>5. Mutexes'
    <3>1. /\ UNCHANGED <<mtx, server_mtx>>
          /\ \/ UNCHANGED end_mtx /\ (a \in {"stop_test", "stop_sleep"} <=> b \in {"stop_test", "stop_sleep"})
             \/ end_mtx = None /\ end_mtx' = t /\ b = "stop_test"
             \/ end_mtx' = None /\ a = "stop_sleep" /\ b = "stop_asleep"
      BY <1>1, <2>3 DEF StopStore, StopLock, StopTest, StopSleep, StopWake, Goes, locks, Typed
    <3>2. \A u \in Threads :
            /\ mtx' = u <=> At(u)' \in {"test", "s_emplace", "s_count", "s_unlock"}
            /\ server_mtx' = u <=> At(u)' \in {"c_epoll", "w_close"}
      BY <2>2, <3>1 DEF Mutexes, OthersStay
    <3>3. \A u \in Threads \ {t} :
            /\ end_mtx' = u <=> pc'[u] \in {"stop_test", "stop_sleep"} \/ At(u)' = "end_notify"
            /\ pc'[u] \in {"stop_test", "stop_sleep"} => At(u)' # "end_notify"
      BY <2>2, <2>3, <3>1 DEF Mutexes, OthersStay
    <3>4. /\ end_mtx' = t <=> pc'[t] \in {"stop_test", "stop_sleep"} \/ At(t)' = "end_notify"
          /\ pc'[t] \in {"stop_test", "stop_sleep"} => At(t)' # "end_notify"
      BY <2>2, <2>3, <3>1 DEF Mutexes
    <3> QED  BY <3>2, <3>3, <3>4 DEF Mutexes
  <2>6. Waiters'
    <3>1. /\ UNCHANGED cv
          /\ \/ UNCHANGED end_cv /\ (t \in end_cv => a # "stop_asleep")
             \/ end_cv' = end_cv \cup {t} /\ b = "stop_asleep"
      BY <1>1, <2>3 DEF StopStore, StopLock, StopTest, StopSleep, StopWake, Goes, conds, Typed
    <3> QED  BY <2>2, <2>3, <3>1 DEF Waiters, OthersStay, Typed, Threads
  <2> QED  BY <2>1, <2>2, <2>4, <2>5, <2>6
<1>2. CASE StopReturn(t)
  <2>1. /\ pc' \in [Threads -> MainLabels \cup WorkerLabels \cup StopLabels]
        /\ return' \in [Threads -> MainLabels \cup WorkerLabels \cup {None}]
        /\ Places' /\ OthersStay(t) /\ pc[t] = "stop_test" /\ return[t] # None
        /\ return'[t] = None /\ pc'[t] = At(t) /\ At(t)' = At(t)
    BY <1>2, Returns
  <2>2. UNCHANGED <<is_running, mtx, server_mtx, cv, end_cv, tasks, signals>> /\ end_mtx' = None
    BY <1>2 DEF StopReturn, conds, counters
  <2>3. Typed'
    BY <2>1, <2>2 DEF Typed
  <2>4. At(t) # "end_notify" /\ end_mtx = t /\ pc'[t] \notin StopLabels
    BY <2>1 DEF Mutexes, Places
  <2>5. Mutexes'
    BY <2>1, <2>2, <2>4 DEF Mutexes, OthersStay, StopLabels
  <2>6. Waiters'
    BY <2>1, <2>2 DEF Waiters, OthersStay, Typed, Threads
  <2> QED  BY <2>1, <2>3, <2>5, <2>6
<1> QED  BY <1>1, <1>2 DEF Stop

\* A signal sends a thread that is not there yet into stop(), which returns to
\* where the thread was, or past the epoll_wait it interrupts.
LEMMA SignalBase ==
  ASSUME Base, NEW t \in Threads, Signal(t)
  PROVE  /\ Base' /\ OthersStay(t) /\ pc'[t] = "stop"
         /\ return[t] = None /\ At(t) = pc[t]
         /\ At(t)' = IF pc[t] = "wait" THEN "loop" ELSE pc[t]
<1> USE SomeThread DEF Base
<1> DEFINE b == IF pc[t] = "wait" THEN "loop" ELSE pc[t]
<1>1. /\ return[t] = None
      /\ pc' = [pc EXCEPT ![t] = "stop"] /\ return' = [return EXCEPT ![t] = b]
      /\ UNCHANGED <<is_running, locks, server_mtx, conds, tasks>>
      /\ signals' = signals + 1 /\ signals < MaxSignals
  BY DEF Signal, Target, Interruptible
<1>2. At(t) = pc[t] /\ pc[t] \notin StopLabels
  BY <1>1 DEF At, Places
<1>3. b \in IF t = Main THEN MainLabels ELSE WorkerLabels
  BY <1>2 DEF Places, Threads, MainLabels, WorkerLabels
<1>4. /\ pc' \in [Threads -> MainLabels \cup WorkerLabels \cup StopLabels]
      /\ return' \in [Threads -> MainLabels \cup WorkerLabels \cup {None}]
      /\ Places' /\ OthersStay(t) /\ pc'[t] = "stop" /\ return'[t] = b /\ At(t)' = b
  <2> HIDE DEF b
  <2> QED  BY <1>1, <1>3, Enters
<1>5. Typed'
  BY <1>1, <1>4, SignalAssumption DEF Typed, locks, conds
<1>6. Mutexes' /\ Waiters'
  BY <1>1, <1>2, <1>4 DEF Mutexes, Waiters, OthersStay, Typed, Threads, StopLabels, locks, conds
<1> QED  BY <1>1, <1>2, <1>4, <1>5, <1>6

\* Nobody moves, and nobody is put to sleep: wakeups without reason, and the end.
LEMMA StillBase ==
  ASSUME Base, UNCHANGED <<is_running, locks, server_mtx, counters, pc, return>>,
         cv' \subseteq cv, end_cv' \subseteq end_cv
  PROVE  Base' /\ \A t : At(t)' = At(t)
<1>1. \A t : At(t)' = At(t)
  BY DEF At
<1> QED  BY <1>1 DEF Base, Typed, Places, Mutexes, Waiters, locks, counters

-----------------------------------------------------------------------------
(* Counting                                                                *)

Running == WorkersAt({"run", "w_lock", "w_close", "dec"})

\* Finitely many workers run a callable.
LEMMA RunningFinite == IsFiniteSet(Running) /\ Cardinality(Running) \in Nat
<1>1. Running \subseteq Workers
  BY DEF Running, WorkersAt
<1> QED  BY <1>1, SignalAssumption, FS_Subset, FS_CardinalityType

\* The places of the threads but t are as before, and t does not start or end
\* a callable.
LEMMA SameRunning ==
  ASSUME NEW t, OthersStay(t),
         t \in Workers => (At(t)' \in {"run", "w_lock", "w_close", "dec"} <=>
                            At(t) \in {"run", "w_lock", "w_close", "dec"})
  PROVE  Running' = Running
  BY DEF Running, WorkersAt, OthersStay, Threads

\* Nothing is queued, taken, finished or counted.
LEMMA SameCount ==
  ASSUME CountInv, UNCHANGED poolVars, Running' = Running,
         At(Main)' = "s_count" <=> At(Main) = "s_count"
  PROVE  CountInv'
  BY DEF CountInv, poolVars, Uncounted, Running

\* submit puts a callable in the queue before it counts it.
LEMMA MainCount == ASSUME Base, CountInv, MainStep PROVE CountInv'
<1>1. CASE pc'[Main] = "stop"
  <2>1. Loop /\ ~is_running
    BY <1>1, StopsByLoop
  <2>2. OthersStay(Main) /\ At(Main) = "loop" /\ At(Main)' = "exit" /\ UNCHANGED poolVars
    BY <2>1, LeavesLoop DEF Loop
  <2> QED  BY <2>2, SameRunning, SameCount, SignalAssumption
<1>2. CASE pc'[Main] # "stop"
  <2>1. PICK a, b \in MainLabels : OwnStep(Main, a, b)
    BY <1>2, MainOwn
  <2>2. /\ OthersStay(Main) /\ At(Main) = a /\ At(Main)' = b /\ pc[Main] = a /\ pc'[Main] = b
    BY <2>1, SomeThread, OwnBase
  <2>3. Running' = Running
    BY <2>2, SameRunning, SignalAssumption
  <2>4. CASE \/ Loop \/ Enter \/ EpollWait \/ EndScan \/ Receive \/ Client \/ CLock \/ CUnlock
             \/ SLock \/ SUnlock \/ SNotify
    <3>1. a # "s_count" /\ b # "s_count" /\ UNCHANGED poolVars
      BY <2>2, <2>4, SomeThread
      DEF Loop, Enter, EpollWait, EndScan, Receive, Client, Scans, CLock, CUnlock,
          SLock, SUnlock, SNotify, Goes, Base, Typed
    <3> QED  BY <2>2, <2>3, <3>1, SameCount
  <2>5. CASE SEmplace
    <3>1. /\ a = "s_emplace" /\ b = "s_count"
          /\ queue' = queue + 1 /\ UNCHANGED task_count
      BY <2>2, <2>5, SomeThread DEF SEmplace, Goes, Base, Typed
    <3> QED  BY <2>2, <2>3, <3>1, RunningFinite DEF CountInv, Uncounted, Running
  <2>6. CASE SCount
    <3>1. /\ a = "s_count" /\ b = "s_unlock"
          /\ task_count' = task_count + 1 /\ UNCHANGED queue
      BY <2>2, <2>6, SomeThread DEF SCount, Goes, Base, Typed
    <3> QED  BY <2>2, <2>3, <3>1, RunningFinite DEF CountInv, Uncounted, Running
  <2> QED  BY <2>4, <2>5, <2>6 DEF MainStep
<1> QED  BY <1>1, <1>2

\* A worker that takes a callable runs it until it counts it out.
LEMMA WorkerCount == ASSUME Base, CountInv, NEW w \in Workers, WorkerStep(w) PROVE CountInv'
<1>1. PICK a, b \in WorkerLabels : OwnStep(w, a, b)
  BY WorkerOwn
<1>2. w \in Threads /\ w # Main
  BY SignalAssumption DEF Threads
<1>3. OthersStay(w) /\ At(w) = a /\ At(w)' = b /\ pc[w] = a /\ pc'[w] = b
  BY <1>1, <1>2, SomeThread, OwnBase
<1>4. At(Main)' = At(Main)
  BY <1>2, <1>3, SomeThread DEF OthersStay
<1>5. CASE \/ WLock(w) \/ WSleep(w) \/ WWake(w) \/ WRun(w) \/ WSendFails(w) \/ WCloseLock(w)
           \/ WCloseUnlock(w) \/ WEndLock(w) \/ WEndNotify(w)
  <2>1. /\ UNCHANGED poolVars
        /\ a \in {"run", "w_lock", "w_close", "dec"} <=> b \in {"run", "w_lock", "w_close", "dec"}
    BY <1>2, <1>3, <1>5
    DEF WLock, WSleep, WWake, WRun, WSendFails, WCloseLock, WCloseUnlock, WEndLock, WEndNotify,
        Goes, Base, Typed
  <2> QED  BY <1>3, <1>4, <2>1, SameRunning, SameCount
<1>6. CASE WTake(w)
  <2>1. /\ a = "test" /\ b = "run" /\ queue > 0
        /\ queue' = queue - 1 /\ UNCHANGED task_count
    BY <1>2, <1>3, <1>6 DEF WTake, Goes, Base, Typed
  <2>2. At(Main) # "s_count"
    BY <1>2, <1>3, <2>1, SomeThread DEF Base, Mutexes
  <2>3. Running' = Running \cup {w} /\ w \notin Running
    BY <1>3, <2>1, SomeThread DEF Running, WorkersAt, OthersStay
  <2>4. Cardinality(Running') = Cardinality(Running) + 1
    BY <2>3, RunningFinite, FS_AddElement
  <2> QED  BY <1>4, <2>1, <2>2, <2>4, RunningFinite DEF CountInv, Uncounted, Running
<1>7. CASE WDec(w)
  <2>1. a = "dec" /\ b \in {"end_lock", "lock"} /\ task_count' = task_count - 1 /\ UNCHANGED queue
    BY <1>2, <1>3, <1>7 DEF WDec, Goes, Base, Typed
  <2>2. Running' = Running \ {w} /\ w \in Running
    BY <1>3, <2>1, SomeThread DEF Running, WorkersAt, OthersStay
  <2>3. Cardinality(Running') = Cardinality(Running) - 1
    BY <2>2, RunningFinite, FS_RemoveElement
  <2> QED  BY <1>4, <2>1, <2>3, RunningFinite DEF CountInv, Uncounted, Running
<1> QED  BY <1>5, <1>6, <1>7 DEF WorkerStep

\* What is queued but not counted is one callable at most, so that a count of 0
\* means that nothing is running, and nothing queued but that one.
LEMMA ZeroMeansDry ==
  ASSUME CountInv
  PROVE  /\ task_count \in Nat
         /\ task_count = 0 => Running = {} /\ queue = Uncounted
<1>1. Uncounted \in {0, 1} /\ Uncounted <= queue
  BY DEF CountInv, Uncounted
<1>2. /\ task_count = queue + Cardinality(Running) - Uncounted
      /\ queue \in Nat /\ Cardinality(Running) \in Nat
  BY RunningFinite DEF CountInv, Running
<1>3. task_count \in Nat
  BY <1>1, <1>2
<1>4. ASSUME task_count = 0 PROVE Running = {} /\ queue = Uncounted
  <2>1. Cardinality(Running) = 0 /\ queue = Uncounted
    BY <1>1, <1>2, <1>4
  <2> QED  BY <2>1, RunningFinite, FS_EmptySet
<1> QED  BY <1>3, <1>4

-----------------------------------------------------------------------------
(* The first signal                                                        *)

\* A step outside of stop() neither signals nor stops.
LEMMA OwnPending ==
  ASSUME Base, FirstSignal, NEW t \in Threads, NEW a, NEW b,
         {a, b} \subseteq IF t = Main THEN MainLabels ELSE WorkerLabels,
         OwnStep(t, a, b)
  PROVE  /\ FirstSignal'
         /\ MainSleeps' => MainSleeps /\ t # Main
<1>1. /\ OthersStay(t) /\ return[t] = None /\ pc[t] = a /\ pc'[t] = b
      /\ UNCHANGED <<return, is_running, signals>> /\ end_cv' \subseteq end_cv
  BY OwnBase DEF OwnStep
<1>2. FirstSignal'
  BY <1>1 DEF FirstSignal
<1>3. ASSUME MainSleeps' PROVE MainSleeps /\ t # Main
  <2>1. t # Main => pc'[Main] = pc[Main]
    BY <1>1, SomeThread DEF OthersStay
  <2>2. pc[Main] = "stop_asleep" \/ pc'[Main] = "stop_sleep"
    BY <1>1, <1>3 DEF MainSleeps, Base, Waiters
  <2>3. t # Main
    BY <1>1, <2>2 DEF MainLabels
  <2> QED  BY <1>1, <1>3, <2>1, <2>3 DEF MainSleeps
<1> QED  BY <1>2, <1>3

\* The main thread has to be in stop() to sleep there.
LEMMA MainPending ==
  ASSUME Base, FirstSignal, MainStep
  PROVE  FirstSignal' /\ Pending'
<1>1. CASE pc'[Main] # "stop"
  <2>1. PICK a, b \in MainLabels : OwnStep(Main, a, b)
    BY <1>1, MainOwn
  <2>2. FirstSignal' /\ ~MainSleeps'
    BY <2>1, SomeThread, OwnPending
  <2> QED  BY <2>2 DEF Pending
<1>2. CASE pc'[Main] = "stop"
  <2>1. Loop /\ ~is_running
    BY <1>2, StopsByLoop
  <2>2. OthersStay(Main) /\ pc[Main] = "loop" /\ UNCHANGED <<signals, end_cv, is_running>>
    BY <2>1, LeavesLoop DEF Loop, conds, counters
  <2>3. signals > 0
    BY <2>1 DEF FirstSignal
  <2>4. FirstSignal'
    BY <2>2, <2>3, SignalAssumption DEF FirstSignal, OthersStay, Threads
  <2>5. ~MainSleeps'
    BY <1>2, <2>2 DEF MainSleeps, Base, Waiters
  <2> QED  BY <2>4, <2>5 DEF Pending
<1> QED  BY <1>1, <1>2

\* The worker that counts the last callable out is about to notify, and when it
\* does nobody but the main thread is there to be notified.
LEMMA WorkerPending ==
  ASSUME Base, CountInv, FirstSignal, Pending, NEW w \in Workers, WorkerStep(w)
  PROVE  FirstSignal' /\ Pending'
<1>1. PICK a, b \in WorkerLabels : OwnStep(w, a, b)
  BY WorkerOwn
<1>2. w \in Threads /\ w # Main
  BY SignalAssumption DEF Threads
<1>3. FirstSignal' /\ (MainSleeps' => MainSleeps)
  BY <1>1, <1>2, OwnPending
<1>4. /\ OthersStay(w) /\ At(w) = a /\ pc[w] = a /\ pc'[w] = b
      /\ UNCHANGED <<return, signals>>
  BY <1>1, <1>2, OwnBase DEF OwnStep
<1>5. SUFFICES ASSUME signals <= 1, MainSleeps', task_count' = 0
               PROVE  \E u \in Workers : pc'[u] \in {"end_lock", "end_notify"}
  BY <1>3, <1>4 DEF Pending
<1>6. CASE WDec(w)
  <2>1. task_count = 1
    BY <1>5, <1>6 DEF WDec, CountInv
  <2>2. pc'[w] = "end_lock"
    BY <1>2, <1>6, <2>1 DEF WDec, Goes, Base, Typed
  <2> QED  BY <2>2
<1>7. CASE WEndLock(w)
  <2>1. pc'[w] = "end_notify"
    BY <1>2, <1>7 DEF WEndLock, Goes, Base, Typed
  <2> QED  BY <2>1
<1>8. CASE WEndNotify(w)
  <2>1. At(w) = "end_notify" /\ NotifyOne(end_cv, end_cv')
    BY <1>4, <1>8 DEF WEndNotify, Goes
  <2>2. end_mtx = w
    BY <1>2, <2>1 DEF Base, Mutexes
  <2>3. pc[Main] # "stop_sleep"
    BY <1>2, <2>2, SomeThread DEF Base, Mutexes
  <2>4. Main \in end_cv
    BY <1>3, <1>5, <2>3 DEF MainSleeps
  <2>5. end_cv = {Main}
    <3>1. \A u \in Workers : u \notin end_cv
      BY <1>5 DEF FirstSignal, Base, Waiters, Places, StopLabels, Threads
    <3> QED  BY <2>4, <3>1 DEF Base, Typed, Threads
  <2>6. end_cv' = {}
    BY <2>1, <2>5, NotifyTakesOne
  <2>7. pc'[Main] = pc[Main]
    BY <1>2, <1>4, SomeThread DEF OthersStay
  <2> QED  BY <1>5, <2>3, <2>6, <2>7 DEF MainSleeps
<1>9. CASE \/ WLock(w) \/ WTake(w) \/ WSleep(w) \/ WWake(w)
           \/ WRun(w) \/ WSendFails(w) \/ WCloseLock(w) \/ WCloseUnlock(w)
  <2>1. task_count' = task_count /\ a \notin {"end_lock", "end_notify"}
    BY <1>4, <1>9
    DEF WLock, WTake, WSleep, WWake, WRun, WSendFails, WCloseLock, WCloseUnlock, Goes, poolVars
  <2>2. PICK u \in Workers : pc[u] \in {"end_lock", "end_notify"}
    BY <1>3, <1>5, <2>1 DEF Pending
  <2>3. pc'[u] = pc[u]
    BY <1>4, <2>1, <2>2 DEF OthersStay, Threads
  <2> QED  BY <2>2, <2>3
<1> QED  BY <1>6, <1>7, <1>8, <1>9 DEF WorkerStep

\* Only the main thread stops before the second signal, and it goes to sleep
\* only if it has found a task.
LEMMA StopPending ==
  ASSUME Base, FirstSignal, Pending, NEW t \in Threads, Stop(t)
  PROVE  FirstSignal' /\ Pending'
<1>1. /\ OthersStay(t) /\ return[t] # None /\ return'[t] \in {None, return[t]}
      /\ pc[t] \in StopLabels
  BY StopBase DEF Base, Places
<1>2. UNCHANGED signals /\ UNCHANGED poolVars
  BY DEF Stop, StopStore, StopLock, StopTest, StopSleep, StopWake, StopReturn, counters
<1>3. signals > 0 /\ (signals <= 1 => t = Main)
  BY <1>1, SignalAssumption DEF FirstSignal, Threads, Base, Typed
<1>4. FirstSignal'
  BY <1>1, <1>2, <1>3, SignalAssumption DEF FirstSignal, OthersStay, Threads
<1>5. SUFFICES ASSUME signals <= 1, MainSleeps', task_count = 0
               PROVE  \E w \in Workers : pc'[w] \in {"end_lock", "end_notify"}
  BY <1>2, <1>4 DEF Pending, poolVars
<1>6. t = Main /\ \A w \in Workers : pc'[w] = pc[w]
  BY <1>1, <1>3, <1>5, SignalAssumption DEF OthersStay, Threads
<1>7. MainSleeps
  <2>1. ~StopTest(t)
    BY <1>5 DEF StopTest
  <2>2. CASE StopSleep(t)
    BY <1>6, <2>2 DEF StopSleep, Goes, MainSleeps
  <2>3. CASE StopStore(t) \/ StopLock(t) \/ StopWake(t)
    <3>1. pc[Main] # "stop_asleep" \/ Main \notin end_cv
      BY <1>6, <2>3 DEF StopStore, StopLock, StopWake, Goes
    <3>2. pc'[Main] # "stop_sleep" /\ UNCHANGED end_cv
      BY <1>6, <2>3, SomeThread DEF StopStore, StopLock, StopWake, Goes, conds, Base, Typed
    <3> QED  BY <1>5, <3>1, <3>2 DEF MainSleeps, Base, Waiters
  <2>4. CASE StopReturn(t)
    <3>1. pc[Main] = "stop_test" /\ UNCHANGED end_cv /\ pc'[Main] = At(Main)
      BY <1>6, <2>4, Returns, SomeThread DEF StopReturn, conds, Base
    <3>2. pc'[Main] # "stop_sleep"
      BY <3>1 DEF Base, Places, MainLabels
    <3> QED  BY <1>5, <3>1, <3>2 DEF MainSleeps, Base, Waiters
  <2> QED  BY <2>1, <2>2, <2>3, <2>4 DEF Stop
<1> QED  BY <1>2, <1>5, <1>6, <1>7 DEF Pending

\* A worker is in stop() after a second signal only.
LEMMA SignalPending ==
  ASSUME Base, FirstSignal, Pending, NEW t \in Threads, Signal(t)
  PROVE  FirstSignal' /\ Pending'
<1>1. /\ OthersStay(t) /\ pc'[t] = "stop" /\ return[t] = None
      /\ signals' = signals + 1 /\ signals \in Nat /\ UNCHANGED <<is_running, end_cv>>
  <2>1. OthersStay(t) /\ pc'[t] = "stop" /\ return[t] = None
    BY SignalBase
  <2>2. signals' = signals + 1 /\ signals \in Nat
    BY DEF Signal, Base, Typed
  <2> QED  BY <2>1, <2>2 DEF Signal, conds
<1>2. t # Main => signals > 0
  BY DEF Signal, Target, Interruptible, FirstSignal
<1>3. signals' > 0 /\ (signals' <= 1 => t = Main)
  BY <1>1, <1>2
<1>4. FirstSignal'
  <2>1. signals' <= 1 => \A w \in Workers : return'[w] = None
    BY <1>1, <1>3, SignalAssumption DEF FirstSignal, OthersStay, Threads
  <2> QED  BY <1>3, <2>1 DEF FirstSignal
<1>5. signals' <= 1 => ~MainSleeps'
  <2> SUFFICES ASSUME t = Main PROVE ~MainSleeps'
    BY <1>3
  <2>1. Main \notin end_cv
    BY <1>1, SomeThread DEF Base, Places, Waiters, StopLabels
  <2> QED  BY <1>1, <2>1 DEF MainSleeps
<1> QED  BY <1>4, <1>5 DEF Pending

\* Nor do the steps in which nobody moves lose the notification.
LEMMA StillPending ==
  ASSUME FirstSignal, Pending,
         UNCHANGED <<is_running, counters, poolVars, pc, return>>, end_cv' \subseteq end_cv
  PROVE  FirstSignal' /\ Pending'
  BY DEF FirstSignal, Pending, MainSleeps, counters, poolVars

-----------------------------------------------------------------------------
(* Somebody sees to what is queued                                         *)

\* Finitely many will look at the queue.
LEMMA AwakeFinite == IsFiniteSet(Awake) /\ Cardinality(Awake) \in Nat
<1>1. Awake \subseteq Workers
  BY DEF Awake
<1> QED  BY <1>1, SignalAssumption, FS_Subset, FS_CardinalityType

\* And so after a step.
LEMMA AwakeFiniteNext == IsFiniteSet(Awake') /\ Cardinality(Awake') \in Nat
<1>1. Awake' \subseteq Workers
  BY DEF Awake
<1> QED  BY <1>1, SignalAssumption, FS_Subset, FS_CardinalityType

\* No worker less is awake, and nothing is put in the queue.
LEMMA NoFewerAwake ==
  ASSUME Conserving, queue \in Nat, queue' = queue, cv # {}, Awake \subseteq Awake',
         AboutToNotify' = AboutToNotify
  PROVE  Conserving'
<1>1. Cardinality(Awake) <= Cardinality(Awake')
  BY AwakeFiniteNext, FS_Subset
<1>2. AboutToNotify \in Nat
  BY DEF AboutToNotify
<1>3. queue <= Cardinality(Awake') + AboutToNotify
  BY <1>1, <1>2, AwakeFinite, AwakeFiniteNext DEF Conserving
<1> QED  BY <1>3 DEF Conserving

\* What the threads but t do, and who sleeps among them, does not change.
LEMMA OthersAwake ==
  ASSUME NEW t, OthersStay(t), cv' \subseteq cv \cup {t},
         t \in Workers => (t \in Awake => t \in Awake')
  PROVE  Awake \subseteq Awake'
<1> SUFFICES ASSUME NEW u \in Awake, u # t PROVE u \in Awake'
  BY DEF Awake
<1>1. u \in Workers /\ At(u)' = At(u)
  BY DEF Awake, OthersStay, Threads
<1> QED  BY <1>1 DEF Awake

\* A worker that takes a callable is one less to see to the queue; one that goes
\* to sleep has found it empty.
LEMMA WorkerConserves ==
  ASSUME Base, CountInv, Conserving, NEW w \in Workers, WorkerStep(w)
  PROVE  Conserving'
<1>1. PICK a, b \in WorkerLabels : OwnStep(w, a, b)
  BY WorkerOwn
<1>2. w \in Threads /\ w # Main
  BY SignalAssumption DEF Threads
<1>3. OthersStay(w) /\ At(w) = a /\ At(w)' = b /\ pc[w] = a /\ pc'[w] = b
  BY <1>1, <1>2, SomeThread, OwnBase
<1>4. AboutToNotify' = AboutToNotify
  BY <1>2, <1>3, SomeThread DEF OthersStay, AboutToNotify
<1>5. CASE WSleep(w)
  BY <1>5, <1>4, AwakeFiniteNext DEF WSleep, Conserving, AboutToNotify, poolVars
<1>6. CASE WTake(w)
  <2>1. a = "test" /\ b = "run" /\ queue' = queue - 1 /\ UNCHANGED cv
    BY <1>2, <1>3, <1>6 DEF WTake, Goes, conds, Base, Typed
  <2>2. Awake' = Awake \ {w} /\ w \in Awake
    BY <1>3, <2>1, SomeThread DEF Awake, OthersStay
  <2>3. Cardinality(Awake') = Cardinality(Awake) - 1
    BY <2>2, AwakeFinite, FS_RemoveElement
  <2>4. AboutToNotify \in Nat /\ queue \in Nat
    BY DEF AboutToNotify, CountInv
  <2> QED  BY <1>4, <2>1, <2>3, <2>4, AwakeFinite DEF Conserving
<1>7. CASE \/ WLock(w) \/ WWake(w) \/ WRun(w) \/ WSendFails(w) \/ WCloseLock(w)
           \/ WCloseUnlock(w) \/ WDec(w) \/ WEndLock(w) \/ WEndNotify(w)
  <2>1. /\ queue' = queue /\ UNCHANGED cv
        /\ b \in {"lock", "test"} \/ a \in {"run", "w_lock", "w_close", "dec", "end_lock"}
    BY <1>2, <1>3, <1>7
    DEF WLock, WWake, WRun, WSendFails, WCloseLock, WCloseUnlock, WDec, WEndLock, WEndNotify,
        Goes, conds, poolVars, Base, Typed
  <2>2. w \in Awake => w \in Awake'
    BY <1>3, <2>1 DEF Awake
  <2>3. Awake \subseteq Awake'
    BY <1>3, <2>1, <2>2, OthersAwake
  <2>4. CASE cv = {}
    BY <2>1, <2>4 DEF Conserving
  <2>5. CASE cv # {}
    BY <1>4, <2>1, <2>3, <2>5, NoFewerAwake DEF CountInv
  <2> QED  BY <2>4, <2>5
<1> QED  BY <1>5, <1>6, <1>7 DEF WorkerStep

\* Who puts a callable in the queue notifies a worker, if one is asleep.
LEMMA MainConserves == ASSUME Base, CountInv, Conserving, MainStep PROVE Conserving'
<1>1. CASE pc'[Main] = "stop"
  <2>1. Loop /\ ~is_running
    BY <1>1, StopsByLoop
  <2>2. /\ OthersStay(Main) /\ At(Main) = "loop" /\ At(Main)' = "exit"
        /\ UNCHANGED <<queue, cv>>
    BY <2>1, LeavesLoop DEF Loop, poolVars, conds
  <2>3. Awake \subseteq Awake' /\ AboutToNotify' = AboutToNotify
    BY <2>2, OthersAwake, SignalAssumption DEF AboutToNotify
  <2> QED  BY <2>2, <2>3, NoFewerAwake DEF CountInv, Conserving
<1>2. CASE pc'[Main] # "stop"
  <2>1. PICK a, b \in MainLabels : OwnStep(Main, a, b)
    BY <1>2, MainOwn
  <2>2. /\ OthersStay(Main) /\ At(Main) = a /\ At(Main)' = b /\ pc[Main] = a /\ pc'[Main] = b
    BY <2>1, SomeThread, OwnBase
  <2>3. CASE \/ Loop \/ Enter \/ EpollWait \/ EndScan \/ Receive \/ Client \/ CLock \/ CUnlock
             \/ SLock \/ SCount \/ SUnlock
    <3>1. /\ a \in {"s_count", "s_unlock", "s_notify"} <=> b \in {"s_count", "s_unlock", "s_notify"}
          /\ UNCHANGED <<queue, cv>>
      BY <2>2, <2>3, SomeThread
      DEF Loop, Enter, EpollWait, EndScan, Receive, Client, Scans, CLock, CUnlock,
          SLock, SCount, SUnlock, Goes, Base, Typed, poolVars, conds
    <3>2. Awake \subseteq Awake' /\ AboutToNotify' = AboutToNotify
      BY <2>2, <3>1, OthersAwake, SignalAssumption DEF AboutToNotify
    <3> QED  BY <3>1, <3>2, NoFewerAwake DEF CountInv, Conserving
  <2>4. CASE SEmplace
    <3>1. a = "s_emplace" /\ b = "s_count" /\ queue' = queue + 1 /\ UNCHANGED cv
      BY <2>2, <2>4, SomeThread DEF SEmplace, Goes, Base, Typed, conds
    <3>2. Awake' = Awake
      BY <2>2, <3>1, SignalAssumption DEF Awake, OthersStay, Threads
    <3>3. AboutToNotify = 0 /\ AboutToNotify' = 1
      BY <2>2, <3>1 DEF AboutToNotify
    <3> QED  BY <3>1, <3>2, <3>3, AwakeFinite DEF Conserving, CountInv
  <2>5. CASE SNotify
    <3>1. a = "s_notify" /\ b = "scan" /\ UNCHANGED queue /\ NotifyOne(cv, cv')
      BY <2>2, <2>5, SomeThread DEF SNotify, Goes, Base, Typed, poolVars
    <3>2. AboutToNotify = 1 /\ AboutToNotify' = 0
      BY <2>2, <3>1 DEF AboutToNotify
    <3>3. CASE cv = {}
      BY <3>1, <3>3 DEF NotifyOne, Conserving
    <3>4. CASE cv # {}
      <4>1. PICK w \in cv : cv' = cv \ {w}
        BY <3>1, <3>4 DEF NotifyOne
      <4>2. w \in Workers /\ At(w) = "asleep"
        BY DEF Base, Typed, Waiters
      <4>3. Awake' = Awake \cup {w} /\ w \notin Awake
        BY <2>2, <4>1, <4>2, SignalAssumption DEF Awake, OthersStay, Threads
      <4>4. Cardinality(Awake') = Cardinality(Awake) + 1
        BY <4>3, AwakeFinite, FS_AddElement
      <4> QED  BY <3>1, <3>2, <3>4, <4>4, AwakeFinite DEF Conserving, CountInv
    <3> QED  BY <3>3, <3>4
  <2> QED  BY <2>3, <2>4, <2>5 DEF MainStep
<1> QED  BY <1>1, <1>2

\* The other steps put nothing in the queue and nobody to sleep.
LEMMA OtherConserves ==
  ASSUME Conserving, CountInv, NEW t, OthersStay(t),
         At(t)' = At(t) \/ (At(t) = "wait" /\ At(t)' = "loop"),
         UNCHANGED poolVars, cv' \subseteq cv
  PROVE  Conserving'
<1>1. AboutToNotify' = AboutToNotify
  BY SomeThread DEF AboutToNotify, OthersStay
<1>2. Awake \subseteq Awake'
  BY OthersAwake DEF Awake
<1>3. CASE cv = {}
  BY <1>3 DEF Conserving
<1>4. CASE cv # {}
  BY <1>1, <1>2, <1>4, NoFewerAwake DEF CountInv, poolVars
<1> QED  BY <1>3, <1>4

-----------------------------------------------------------------------------
(* Every step                                                              *)

\* The program starts in the invariant.
LEMMA InitIInv == Init => IInv
<1> SUFFICES ASSUME Init PROVE IInv
  OBVIOUS
<1>1. At(Main) = "loop" /\ \A w \in Workers : At(w) = "lock"
  BY SignalAssumption DEF Init, At, Threads
<1>2. \A t \in Threads : return[t] = None /\ pc[t] \in {"loop", "lock"} /\ At(t) \in {"loop", "lock"}
  BY <1>1 DEF Init, Threads
<1>3. Typed
  BY SignalAssumption DEF Init, Typed, MainLabels, WorkerLabels
<1>4. Places
  BY <1>1, <1>2 DEF Places, MainLabels, WorkerLabels, StopLabels
<1>5. Mutexes /\ Waiters
  BY <1>2, SomeThread DEF Init, Mutexes, Waiters
<1>6. CountInv
  <2>1. WorkersAt({"run", "w_lock", "w_close", "dec"}) = {}
    BY <1>1 DEF WorkersAt
  <2>2. Uncounted = 0
    BY <1>1 DEF Uncounted
  <2> QED  BY <1>1, <2>1, <2>2, FS_EmptySet DEF Init, CountInv
<1>7. FirstSignal /\ Pending /\ Conserving /\ ReturnsThere
  BY <1>2, SomeThread DEF Init, FirstSignal, Pending, MainSleeps, Conserving, ReturnsThere
<1> QED  BY <1>3, <1>4, <1>5, <1>6, <1>7 DEF IInv, Base

\* Every step keeps it.
LEMMA NextIInv == IInv /\ [Next]_vars => IInv'
<1> SUFFICES ASSUME IInv, [Next]_vars PROVE IInv'
  OBVIOUS
<1> USE DEF IInv
<1>1. CASE MainStep
  <2>1. Base' /\ return'[Main] \in {return[Main], "exit"}
    <3>1. CASE pc'[Main] = "stop"
      <4>1. Loop /\ ~is_running
        BY <1>1, <3>1, StopsByLoop
      <4>2. return'[Main] = "exit"
        BY <4>1, SomeThread DEF Loop, Base, Typed
      <4> QED  BY <4>1, <4>2, LeavesLoop
    <3>2. CASE pc'[Main] # "stop"
      <4>1. PICK a, b \in MainLabels : OwnStep(Main, a, b)
        BY <1>1, <3>2, MainOwn
      <4>2. UNCHANGED return
        BY <4>1 DEF OwnStep
      <4> QED  BY <4>1, <4>2, SomeThread, OwnBase
    <3> QED  BY <3>1, <3>2
  <2> QED  BY <1>1, <2>1, MainCount, MainPending, MainConserves DEF ReturnsThere
<1>2. ASSUME NEW w \in Workers, WorkerStep(w) PROVE IInv'
  <2>1. PICK a, b \in WorkerLabels : OwnStep(w, a, b)
    BY <1>2, WorkerOwn
  <2>2. Base' /\ UNCHANGED return
    BY <2>1, OwnBase, SignalAssumption DEF OwnStep, Threads
  <2> QED  BY <1>2, <2>2, WorkerCount, WorkerPending, WorkerConserves DEF ReturnsThere
<1>3. ASSUME NEW t \in Threads, Stop(t) PROVE IInv'
  <2>1. /\ Base' /\ OthersStay(t) /\ At(t)' = At(t) /\ return'[t] \in {None, return[t]}
    BY <1>3, StopBase
  <2>2. UNCHANGED poolVars /\ UNCHANGED cv
    BY <1>3 DEF Stop, StopStore, StopLock, StopTest, StopSleep, StopWake, StopReturn, conds
  <2>3. CountInv' /\ Conserving'
    <3>1. Running' = Running
      BY <2>1, SameRunning
    <3>2. At(Main)' = At(Main)
      BY <2>1, SomeThread DEF OthersStay
    <3> QED  BY <2>1, <2>2, <3>1, <3>2, SameCount, OtherConserves
  <2>4. ReturnsThere'
    BY <2>1, SomeThread DEF OthersStay, ReturnsThere
  <2> QED  BY <1>3, <2>1, <2>3, <2>4, StopPending
<1>4. ASSUME NEW t \in Threads, Signal(t) PROVE IInv'
  <2>1. /\ Base' /\ OthersStay(t) /\ return[t] = None /\ At(t) = pc[t]
        /\ At(t)' = IF pc[t] = "wait" THEN "loop" ELSE pc[t]
    BY <1>4, SignalBase
  <2>2. UNCHANGED poolVars /\ UNCHANGED cv
    BY <1>4 DEF Signal, conds
  <2>3. CountInv' /\ Conserving'
    <3>1. Running' = Running
      BY <2>1, SameRunning
    <3>2. At(Main)' = "s_count" <=> At(Main) = "s_count"
      BY <2>1, SomeThread DEF OthersStay
    <3> QED  BY <2>1, <2>2, <3>1, <3>2, SameCount, OtherConserves
  <2>4. ReturnsThere'
    BY <1>4, <2>1, SomeThread DEF Signal, Target, Base, Typed, OthersStay, ReturnsThere
  <2> QED  BY <1>4, <2>1, <2>3, <2>4, SignalPending
<1>5. CASE Spurious \/ Rest \/ UNCHANGED vars
  <2>1. /\ UNCHANGED <<is_running, locks, server_mtx, counters, poolVars, pc, return>>
        /\ cv' \subseteq cv /\ end_cv' \subseteq end_cv
    BY <1>5 DEF Spurious, Rest, vars, conds
  <2>2. Base' /\ \A t : At(t)' = At(t)
    BY <2>1, StillBase
  <2>3. OthersStay(None) /\ Running' = Running
    BY <2>1, <2>2 DEF OthersStay, Running, WorkersAt
  <2>4. CountInv' /\ Conserving'
    BY <2>1, <2>2, <2>3, SameCount, OtherConserves
  <2>5. FirstSignal' /\ Pending' /\ ReturnsThere'
    BY <2>1, StillPending DEF ReturnsThere
  <2> QED  BY <2>2, <2>4, <2>5
<1> QED  BY <1>1, <1>2, <1>3, <1>4, <1>5 DEF Next

-----------------------------------------------------------------------------
(* What the server relies on                                               *)

\* The invariant holds throughout.
LEMMA Inductive == Spec => []IInv
<1>1. Init => IInv
  BY InitIInv
<1>2. IInv /\ [Next]_vars => IInv'
  BY NextIInv
<1> QED  BY <1>1, <1>2, PTL DEF Spec

\* Whatever is interrupted where, every variable stays in its type: task_count
\* never goes below zero, although submit counts a callable after it queues it.
THEOREM TypeCorrect == Spec => []TypeOK
<1>1. IInv => TypeOK
  <2> SUFFICES ASSUME IInv PROVE TypeOK
    OBVIOUS
  <2>1. task_count \in Nat
    BY ZeroMeansDry DEF IInv
  <2> QED  BY <2>1 DEF IInv, Base, Typed, CountInv, TypeOK
<1> QED  BY <1>1, Inductive, PTL

\* The first SIGINT never loses the notification it waits for: while the main
\* thread waits in stop() and nothing is left to do, a worker is about to notify.
THEOREM LosesNoEndSignal == Spec => [](signals <= 1 => DrainSignalPending)
<1>1. IInv => (signals <= 1 => DrainSignalPending)
  <2> SUFFICES ASSUME IInv, signals <= 1, Main \in end_cv, task_count = 0
               PROVE  \E w \in Workers : {pc[w], return[w]} \cap {"end_lock", "end_notify"} # {}
    BY DEF DrainSignalPending
  <2>1. PICK w \in Workers : pc[w] \in {"end_lock", "end_notify"}
    BY DEF IInv, Pending, MainSleeps
  <2> QED  BY <2>1
<1> QED  BY <1>1, Inductive, PTL

\* stop() returns only when the pool is dry: no callable runs, and none is queued
\* but one the interrupted submit has emplaced and not counted yet.
DriesFirst ==
    \A t \in Threads : return[t] # None /\ return'[t] = None =>
      Running = {} /\ queue = Uncounted

\* Graceful shutdown, the safety half of it.
THEOREM StopWaitsForPool == Spec => [][DriesFirst]_vars
<1>1. IInv /\ [Next]_vars => [DriesFirst]_vars
  <2> SUFFICES ASSUME IInv, [Next]_vars, NEW t \in Threads, return[t] # None, return'[t] = None
               PROVE  Running = {} /\ queue = Uncounted
    BY DEF DriesFirst
  <2> USE DEF IInv
  <2>1. CASE \E u \in Threads : Stop(u)
    <3>1. PICK u \in Threads : Stop(u)
      BY <2>1
    <3>2. u = t
      BY <3>1, StopBase DEF OthersStay
    <3>3. StopReturn(t)
      BY <3>1, <3>2 DEF Stop, StopStore, StopLock, StopTest, StopSleep, StopWake
    <3> QED  BY <3>3, ZeroMeansDry DEF StopReturn
  <2>2. CASE MainStep
    <3>1. return' = return \/ return' = [return EXCEPT ![Main] = "exit"]
      BY <2>2
      DEF MainStep, Loop, Enter, EpollWait, EndScan, Receive, Client, Scans, CLock, CUnlock,
          SLock, SEmplace, SCount, SUnlock, SNotify
    <3> QED  BY <3>1, SignalAssumption DEF MainLabels, Base, Typed
  <2>3. CASE \E w \in Workers : WorkerStep(w)
    BY <2>3
    DEF WorkerStep, WLock, WTake, WSleep, WWake, WRun, WSendFails, WCloseLock, WCloseUnlock,
        WDec, WEndLock, WEndNotify
  <2>4. CASE \E u \in Threads : Signal(u)
    <3>1. PICK u \in Threads : Signal(u)
      BY <2>4
    <3>2. u = t
      BY <3>1, SignalBase DEF OthersStay
    <3> QED  BY <3>1, <3>2, SignalBase
  <2>5. CASE Spurious \/ Rest \/ UNCHANGED vars
    BY <2>5 DEF Spurious, Rest, vars
  <2> QED  BY <2>1, <2>2, <2>3, <2>4, <2>5 DEF Next
<1> QED  BY <1>1, Inductive, PTL DEF Spec

\* A thread in stop() holds neither the pool's mtx nor TCPServer::mtx, and
\* end_mtx only where the predicate is tested.
WaitsUnlocked ==
    \A t \in Threads : pc[t] \in StopLabels =>
      /\ mtx # t /\ server_mtx # t
      /\ end_mtx = t => pc[t] \in {"stop_test", "stop_sleep"}

\* One SIGINT does not make its handler wait with a mutex in hand, if it does not
\* find the main thread inside the critical section of submit or one of the epoll
\* set's.
THEOREM HandlerHoldsNothing ==
  ASSUME Where \cap {"s_emplace", "s_count", "s_unlock", "c_epoll"} = {}
  PROVE  Spec => [](signals <= 1 => WaitsUnlocked)
<1>1. IInv => (signals <= 1 => WaitsUnlocked)
  <2> SUFFICES ASSUME IInv, signals <= 1, NEW t \in Threads, pc[t] \in StopLabels
               PROVE  /\ mtx # t /\ server_mtx # t
                      /\ end_mtx = t => pc[t] \in {"stop_test", "stop_sleep"}
    BY DEF WaitsUnlocked
  <2> USE DEF IInv, Base
  <2>1. return[t] # None /\ t = Main
    BY DEF Places, FirstSignal, Threads
  <2>2. At(Main) = return[Main] /\ At(Main) \in MainLabels
    BY <2>1 DEF At, Places
  <2>3. At(Main) \notin {"test", "s_emplace", "s_count", "s_unlock", "c_epoll", "w_close", "end_notify"}
    BY <2>1, <2>2 DEF ReturnsThere, MainLabels
  <2> QED  BY <2>1, <2>3 DEF Mutexes
<1> QED  BY <1>1, Inductive, PTL

\* Nothing holds worker w up where it is: not a mutex, a condition variable or the
\* end of stop().
CanGo(w) ==
    /\ pc[w] \notin StopLabels
    /\ pc[w] = "lock" => mtx = None
    /\ pc[w] = "asleep" => w \notin cv
    /\ pc[w] = "w_lock" => server_mtx = None
    /\ pc[w] = "end_lock" => end_mtx = None

\* While the main thread sleeps in stop() a mutex is not its own.
LEMMA MainHoldsNothing ==
  ASSUME IInv, signals <= 1, Main \in end_cv,
         Where \cap {"s_emplace", "s_count", "s_unlock", "s_notify", "c_epoll"} = {}
  PROVE  /\ Main \notin {mtx, server_mtx, end_mtx}
         /\ \A w \in Workers : At(w) = pc[w] /\ pc[w] \in WorkerLabels
         /\ AboutToNotify = 0 /\ Uncounted = 0
<1> USE SomeThread DEF IInv, Base
<1>1. pc[Main] = "stop_asleep" /\ return[Main] # None
  BY DEF Waiters, Places, StopLabels
<1>2. At(Main) = return[Main] /\ At(Main) \in MainLabels
  BY <1>1 DEF At, Places
<1>3. At(Main) \notin {"test", "s_emplace", "s_count", "s_unlock", "s_notify",
                       "c_epoll", "w_close", "end_notify"}
  BY <1>1, <1>2 DEF ReturnsThere, MainLabels
<1>4. Main \notin {mtx, server_mtx, end_mtx}
  BY <1>1, <1>3 DEF Mutexes
<1>5. \A w \in Workers : At(w) = pc[w] /\ pc[w] \in WorkerLabels
  BY DEF FirstSignal, At, Places
<1> QED  BY <1>3, <1>4, <1>5 DEF AboutToNotify, Uncounted

\* Then a worker that is not waiting on cv can go on, or the worker can that holds
\* the mutex it waits for.
LEMMA WorkerOrHolder ==
  ASSUME IInv, signals <= 1, Main \in end_cv, NEW w \in Workers, w \notin cv,
         Where \cap {"s_emplace", "s_count", "s_unlock", "s_notify", "c_epoll"} = {}
  PROVE  \E u \in Workers : CanGo(u)
<1> USE SomeThread DEF IInv, Base
<1>1. /\ Main \notin {mtx, server_mtx, end_mtx}
      /\ \A u \in Workers : At(u) = pc[u] /\ pc[u] \in WorkerLabels
  BY MainHoldsNothing
<1>2. \A u \in Workers : pc[u] \notin StopLabels
  BY <1>1 DEF WorkerLabels, StopLabels
<1>3. \A u \in Workers : u \in {mtx, server_mtx, end_mtx} => CanGo(u)
  <2> SUFFICES ASSUME NEW u \in Workers, u \in {mtx, server_mtx, end_mtx} PROVE CanGo(u)
    OBVIOUS
  <2>1. u \in Threads /\ At(u) = pc[u] /\ pc[u] \notin StopLabels
    BY <1>1, <1>2
  <2>2. pc[u] \notin {"stop_test", "stop_sleep"}
    BY <2>1 DEF StopLabels
  <2>3. pc[u] \in {"test", "s_emplace", "s_count", "s_unlock", "c_epoll", "w_close", "end_notify"}
    BY <2>1, <2>2 DEF Mutexes
  <2> QED  BY <2>1, <2>3 DEF CanGo
<1>4. {mtx, server_mtx, end_mtx} \subseteq Workers \cup {None}
  BY <1>1 DEF Typed, Threads
<1>5. CASE mtx = None /\ server_mtx = None /\ end_mtx = None
  BY <1>2, <1>5 DEF CanGo
<1> QED  BY <1>3, <1>4, <1>5

\* The handler of the first signal does not wait for ever: while the main thread
\* sleeps in stop() some worker can go on, whatever the workers hold and wait for.
SomeoneCanGo == signals <= 1 /\ Main \in end_cv => \E w \in Workers : CanGo(w)

\* The handler and the pool do not lock each other up, if the signal finds the
\* main thread neither between emplacing a callable and notifying a worker nor
\* in the critical sections of the epoll set.
THEOREM HandlerAndPoolGoOn ==
  ASSUME Where \cap {"s_emplace", "s_count", "s_unlock", "s_notify", "c_epoll"} = {}
  PROVE  Spec => []SomeoneCanGo
<1>1. IInv => SomeoneCanGo
  <2> SUFFICES ASSUME IInv, signals <= 1, Main \in end_cv
               PROVE  \E w \in Workers : CanGo(w)
    BY DEF SomeoneCanGo
  <2> USE DEF IInv
  <2>1. /\ \A w \in Workers : At(w) = pc[w]
        /\ AboutToNotify = 0 /\ Uncounted = 0
    BY MainHoldsNothing
  <2>2. SUFFICES \E w \in Workers : w \notin cv
    BY WorkerOrHolder
  <2>3. CASE task_count = 0
    <3>1. PICK w \in Workers : pc[w] \in {"end_lock", "end_notify"}
      BY <2>3 DEF Pending, MainSleeps
    <3> QED  BY <2>1, <3>1 DEF Base, Waiters
  <2>4. CASE task_count # 0 /\ queue = 0
    <3>1. Cardinality(Running) # 0
      BY <2>1, <2>4, RunningFinite DEF CountInv, Running
    <3>2. PICK w \in Running : TRUE
      BY <3>1, FS_EmptySet
    <3> QED  BY <3>2 DEF Running, WorkersAt, Base, Waiters
  <2>5. CASE queue # 0 /\ cv # {}
    <3>1. Cardinality(Awake) # 0
      BY <2>1, <2>5, AwakeFinite DEF CountInv, Conserving
    <3>2. PICK w \in Awake : TRUE
      BY <3>1, FS_EmptySet
    <3> QED  BY <3>2 DEF Awake, Base, Waiters
  <2>6. CASE cv = {}
    BY <2>6, SignalAssumption
  <2> QED  BY <2>3, <2>4, <2>5, <2>6
<1> QED  BY <1>1, Inductive, PTL
=============================================================================

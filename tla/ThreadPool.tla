------------------------------ MODULE ThreadPool ------------------------------
(***************************************************************************)
(* The fixed-size pool of Cpp_WebPrograming/threadpool.h (the same class   *)
(* is pasted into every *_tp.cpp server and into multithread_reactor.cpp). *)
(*                                                                         *)
(* One worker loop per element of Workers (NewThread), threads that call   *)
(* submit, threads that wait on end_cv until task_count is 0 (the server's *)
(* stop()), and one thread, Owner, that runs ~ThreadPool.  A mutex is the  *)
(* identity of its holder or None.  The wait set of a condition variable   *)
(* is the set of threads whose program counter is the waiting label, so a  *)
(* notification is a choice of one member, and a member may also wake on   *)
(* its own (a spurious wakeup).                                            *)
(*                                                                         *)
(* What a task does is outside this module: running task t only counts one *)
(* more execution of it in runs[t], and tasks are assumed to terminate.    *)
(***************************************************************************)
EXTENDS Integers, Sequences, FiniteSets

CONSTANTS
    Workers,      \* the threads the constructor starts
    Submitters,   \* threads that call submit
    Drainers,     \* threads that wait for task_count = 0 under end_mtx
    Owner,        \* the thread that destroys the pool
    Tasks,        \* the callables; each is submitted at most once (the bound)
    None,         \* no thread, no task
    LateSubmit    \* TRUE: submit may still be called while ~ThreadPool runs

ASSUME RolesAssumption ==
    /\ IsFiniteSet(Workers) /\ IsFiniteSet(Submitters) /\ IsFiniteSet(Drainers)
    /\ Workers # {}
    /\ Workers \cap Submitters = {}
    /\ Workers \cap Drainers = {}
    /\ Submitters \cap Drainers = {}
    /\ Owner \notin Workers \cup Submitters \cup Drainers
    /\ None \notin Workers \cup Submitters \cup Drainers \cup {Owner}
    /\ None \notin Tasks
    /\ LateSubmit \in BOOLEAN

VARIABLES
    mtx,          \* holder of the queue mutex
    task_queue,   \* the queued callables
    stop,         \* the atomic stop flag
    task_count,   \* the atomic count of queued and running callables
    end_mtx,      \* holder of the mutex of end_cv
    wpc,          \* where each worker is in NewThread
    task,         \* the callable a worker has taken
    spc,          \* where each submitter is in submit
    arg,          \* the callable a submitter is handing over
    epc,          \* where each drainer is in its wait on end_cv
    dpc,          \* where the owner is in the pool's life
    runs          \* how often each callable was executed (observation only)

queueVars == <<mtx, task_queue>>
countVars == <<task_count, end_mtx>>
workerVars == <<wpc, task>>
submitVars == <<spc, arg>>
vars == <<queueVars, stop, countVars, workerVars, submitVars, epc, dpc, runs>>

Threads == Workers \cup Submitters \cup Drainers \cup {Owner}

WorkerLabels == {"lock", "check", "block", "wait", "run", "dec", "endlock",
                 "endnotify", "exited"}
SubmitLabels == {"idle", "check", "lock", "emplace", "count", "notify"}
DrainLabels == {"idle", "lock", "check", "block", "wait"}
OwnerLabels == {"alive", "lock", "store", "notify", "join", "gone"}

CvWaiters == {w \in Workers : wpc[w] = "wait"}
EndWaiters == {d \in Drainers : epc[d] = "wait"}

WorkerAt(labels) == {w \in Workers : wpc[w] \in labels}
SubmitterAt(labels) == {s \in Submitters : spc[s] \in labels}

\* The callables some thread or the queue still holds.
Queued == {task_queue[i] : i \in 1..Len(task_queue)}
Held == {task[w] : w \in WorkerAt({"run"})}
Handed == {arg[s] : s \in SubmitterAt({"check", "lock", "emplace"})}

Init ==
    /\ mtx = None
    /\ task_queue = <<>>
    /\ stop = FALSE
    /\ task_count = 0
    /\ end_mtx = None
    /\ wpc = [w \in Workers |-> "lock"]
    /\ task = [w \in Workers |-> None]
    /\ spc = [s \in Submitters |-> "idle"]
    /\ arg = [s \in Submitters |-> None]
    /\ epc = [d \in Drainers |-> "idle"]
    /\ dpc = "alive"
    /\ runs = [t \in Tasks |-> 0]

-----------------------------------------------------------------------------
(* NewThread                                                               *)

\* std::unique_lock lock(mtx), also the relock inside cv.wait.
WLock(w) ==
    /\ wpc[w] = "lock"
    /\ mtx = None
    /\ mtx' = w
    /\ wpc' = [wpc EXCEPT ![w] = "check"]
    /\ UNCHANGED <<task_queue, stop, countVars, task, submitVars, epc, dpc, runs>>

\* cv.wait: the predicate is false.
WSleep(w) ==
    /\ wpc[w] = "check"
    /\ task_queue = <<>> /\ ~stop
    /\ wpc' = [wpc EXCEPT ![w] = "block"]
    /\ UNCHANGED <<queueVars, stop, countVars, task, submitVars, epc, dpc, runs>>

\* cv.wait releases the mutex and joins the wait set in one step.
WBlock(w) ==
    /\ wpc[w] = "block"
    /\ mtx' = None
    /\ wpc' = [wpc EXCEPT ![w] = "wait"]
    /\ UNCHANGED <<task_queue, stop, countVars, task, submitVars, epc, dpc, runs>>

\* Mutant: leaves as soon as stop is set, whatever is still queued.
WExit_DropsQueue(w) ==
    /\ wpc[w] = "check"
    /\ stop
    /\ mtx' = None
    /\ wpc' = [wpc EXCEPT ![w] = "exited"]
    /\ UNCHANGED <<task_queue, stop, countVars, task, submitVars, epc, dpc, runs>>

\* if(stop and task_queue.empty()) break;
WExit(w) ==
    /\ wpc[w] = "check"
    /\ task_queue = <<>> /\ stop
    /\ mtx' = None
    /\ wpc' = [wpc EXCEPT ![w] = "exited"]
    /\ UNCHANGED <<task_queue, stop, countVars, task, submitVars, epc, dpc, runs>>

\* Move the front callable out, pop, unlock.
WTake(w) ==
    /\ wpc[w] = "check"
    /\ task_queue # <<>>
    /\ task' = [task EXCEPT ![w] = Head(task_queue)]
    /\ task_queue' = Tail(task_queue)
    /\ mtx' = None
    /\ wpc' = [wpc EXCEPT ![w] = "run"]
    /\ UNCHANGED <<stop, countVars, submitVars, epc, dpc, runs>>

\* task();
WRun(w) ==
    /\ wpc[w] = "run"
    /\ runs' = [runs EXCEPT ![task[w]] = @ + 1]
    /\ wpc' = [wpc EXCEPT ![w] = "dec"]
    /\ UNCHANGED <<queueVars, stop, countVars, task, submitVars, epc, dpc>>

\* if(task_count.fetch_sub(1) == 1)
WDec(w) ==
    /\ wpc[w] = "dec"
    /\ task_count' = task_count - 1
    /\ task' = [task EXCEPT ![w] = None]
    /\ wpc' = [wpc EXCEPT ![w] = IF task_count = 1 THEN "endlock" ELSE "lock"]
    /\ UNCHANGED <<queueVars, stop, end_mtx, submitVars, epc, dpc, runs>>

\* Mutant: notifies end_cv without taking end_mtx.
WEndLock_NotifyUnlocked(w) ==
    /\ wpc[w] = "endlock"
    /\ \/ EndWaiters = {} /\ UNCHANGED epc
       \/ \E d \in EndWaiters : epc' = [epc EXCEPT ![d] = "lock"]
    /\ wpc' = [wpc EXCEPT ![w] = "lock"]
    /\ UNCHANGED <<queueVars, stop, countVars, task, submitVars, dpc, runs>>

WEndLock(w) ==
    /\ wpc[w] = "endlock"
    /\ end_mtx = None
    /\ end_mtx' = w
    /\ wpc' = [wpc EXCEPT ![w] = "endnotify"]
    /\ UNCHANGED <<queueVars, stop, task_count, task, submitVars, epc, dpc, runs>>

\* end_cv.notify_one() with end_mtx held, then the end of its scope.
WEndNotify(w) ==
    /\ wpc[w] = "endnotify"
    /\ \/ EndWaiters = {} /\ UNCHANGED epc
       \/ \E d \in EndWaiters : epc' = [epc EXCEPT ![d] = "lock"]
    /\ end_mtx' = None
    /\ wpc' = [wpc EXCEPT ![w] = "lock"]
    /\ UNCHANGED <<queueVars, stop, task_count, task, submitVars, dpc, runs>>

\* A wakeup of cv nobody asked for; the predicate is evaluated again.
WSpurious(w) ==
    /\ wpc[w] = "wait"
    /\ wpc' = [wpc EXCEPT ![w] = "lock"]
    /\ UNCHANGED <<queueVars, stop, countVars, task, submitVars, epc, dpc, runs>>

WStep(w) == \/ WLock(w) \/ WSleep(w) \/ WBlock(w) \/ WExit(w) \/ WTake(w)
            \/ WRun(w) \/ WDec(w) \/ WEndLock(w) \/ WEndNotify(w)

-----------------------------------------------------------------------------
(* submit                                                                  *)

\* A caller enters submit with a callable no earlier submit has accepted.
SCall(s, t) ==
    /\ spc[s] = "idle"
    /\ runs[t] = 0 /\ t \notin Queued \cup Held \cup Handed
    /\ IF LateSubmit THEN dpc # "gone" ELSE dpc = "alive"
    /\ spc' = [spc EXCEPT ![s] = "check"]
    /\ arg' = [arg EXCEPT ![s] = t]
    /\ UNCHANGED <<queueVars, stop, countVars, workerVars, epc, dpc, runs>>

\* if(stop.load() == true) return;  the flag is read without the mutex.
SCheck(s) ==
    /\ spc[s] = "check"
    /\ IF stop
         THEN /\ spc' = [spc EXCEPT ![s] = "idle"]
              /\ arg' = [arg EXCEPT ![s] = None]
         ELSE /\ spc' = [spc EXCEPT ![s] = "lock"]
              /\ UNCHANGED arg
    /\ UNCHANGED <<queueVars, stop, countVars, workerVars, epc, dpc, runs>>

SLock(s) ==
    /\ spc[s] = "lock"
    /\ mtx = None
    /\ mtx' = s
    /\ spc' = [spc EXCEPT ![s] = "emplace"]
    /\ UNCHANGED <<task_queue, stop, countVars, workerVars, arg, epc, dpc, runs>>

\* Mutant: the callable was moved away before it is put in the queue.
SEmplace_UseAfterMove(s) ==
    /\ spc[s] = "emplace"
    /\ task_queue' = Append(task_queue, None)
    /\ spc' = [spc EXCEPT ![s] = "count"]
    /\ arg' = [arg EXCEPT ![s] = None]
    /\ UNCHANGED <<mtx, stop, countVars, workerVars, epc, dpc, runs>>

SEmplace(s) ==
    /\ spc[s] = "emplace"
    /\ task_queue' = Append(task_queue, arg[s])
    /\ spc' = [spc EXCEPT ![s] = "count"]
    /\ arg' = [arg EXCEPT ![s] = None]
    /\ UNCHANGED <<mtx, stop, countVars, workerVars, epc, dpc, runs>>

\* Mutant: the callable is queued but not counted.
SCount_NotCounted(s) ==
    /\ spc[s] = "count"
    /\ mtx' = None
    /\ spc' = [spc EXCEPT ![s] = "notify"]
    /\ UNCHANGED <<task_queue, stop, countVars, workerVars, arg, epc, dpc, runs>>

\* task_count.fetch_add(1), then the lock goes out of scope.
SCount(s) ==
    /\ spc[s] = "count"
    /\ task_count' = task_count + 1
    /\ mtx' = None
    /\ spc' = [spc EXCEPT ![s] = "notify"]
    /\ UNCHANGED <<task_queue, stop, end_mtx, workerVars, arg, epc, dpc, runs>>

\* Mutant: notifies only when the queue was empty before.
SNotify_OnlyFirst(s) ==
    /\ spc[s] = "notify"
    /\ \/ (CvWaiters = {} \/ Len(task_queue) > 1) /\ UNCHANGED wpc
       \/ /\ Len(task_queue) <= 1
          /\ \E w \in CvWaiters : wpc' = [wpc EXCEPT ![w] = "lock"]
    /\ spc' = [spc EXCEPT ![s] = "idle"]
    /\ UNCHANGED <<queueVars, stop, countVars, task, arg, epc, dpc, runs>>

\* cv.notify_one() without the mutex.
SNotify(s) ==
    /\ spc[s] = "notify"
    /\ \/ CvWaiters = {} /\ UNCHANGED wpc
       \/ \E w \in CvWaiters : wpc' = [wpc EXCEPT ![w] = "lock"]
    /\ spc' = [spc EXCEPT ![s] = "idle"]
    /\ UNCHANGED <<queueVars, stop, countVars, task, arg, epc, dpc, runs>>

SStep(s) == SCheck(s) \/ SLock(s) \/ SEmplace(s) \/ SCount(s) \/ SNotify(s)

-----------------------------------------------------------------------------
(* Waiting for the pool to run dry: unique_lock endlock(pool.end_mtx);     *)
(* pool.end_cv.wait(endlock, [this]{ return pool.task_count == 0; });      *)

ECall(d) ==
    /\ epc[d] = "idle"
    /\ dpc = "alive"
    /\ epc' = [epc EXCEPT ![d] = "lock"]
    /\ UNCHANGED <<queueVars, stop, countVars, workerVars, submitVars, dpc, runs>>

ELock(d) ==
    /\ epc[d] = "lock"
    /\ end_mtx = None
    /\ end_mtx' = d
    /\ epc' = [epc EXCEPT ![d] = "check"]
    /\ UNCHANGED <<queueVars, stop, task_count, workerVars, submitVars, dpc, runs>>

\* Mutant: waits for an empty queue instead of a zero count.
EReturn_QueueEmpty(d) ==
    /\ epc[d] = "check"
    /\ task_queue = <<>>
    /\ end_mtx' = None
    /\ epc' = [epc EXCEPT ![d] = "idle"]
    /\ UNCHANGED <<queueVars, stop, task_count, workerVars, submitVars, dpc, runs>>

EReturn(d) ==
    /\ epc[d] = "check"
    /\ task_count = 0
    /\ end_mtx' = None
    /\ epc' = [epc EXCEPT ![d] = "idle"]
    /\ UNCHANGED <<queueVars, stop, task_count, workerVars, submitVars, dpc, runs>>

\* The count is atomic and changes without end_mtx: between this test and
\* the next step it may reach 0.
ESleep(d) ==
    /\ epc[d] = "check"
    /\ task_count # 0
    /\ epc' = [epc EXCEPT ![d] = "block"]
    /\ UNCHANGED <<queueVars, stop, countVars, workerVars, submitVars, dpc, runs>>

EBlock(d) ==
    /\ epc[d] = "block"
    /\ end_mtx' = None
    /\ epc' = [epc EXCEPT ![d] = "wait"]
    /\ UNCHANGED <<queueVars, stop, task_count, workerVars, submitVars, dpc, runs>>

ESpurious(d) ==
    /\ epc[d] = "wait"
    /\ epc' = [epc EXCEPT ![d] = "lock"]
    /\ UNCHANGED <<queueVars, stop, countVars, workerVars, submitVars, dpc, runs>>

EStep(d) == ELock(d) \/ EReturn(d) \/ ESleep(d) \/ EBlock(d)

-----------------------------------------------------------------------------
(* ~ThreadPool                                                             *)

\* The owner destroys the pool when no other thread is inside one of its
\* functions; with LateSubmit, submitters are not waited for.
DCall ==
    /\ dpc = "alive"
    /\ \A d \in Drainers : epc[d] = "idle"
    /\ LateSubmit \/ \A s \in Submitters : spc[s] = "idle"
    /\ dpc' = "lock"
    /\ UNCHANGED <<queueVars, stop, countVars, workerVars, submitVars, epc, runs>>

\* Mutant: stores stop without taking the mutex.
DLock_StoreUnlocked ==
    /\ dpc = "lock"
    /\ stop' = TRUE
    /\ dpc' = "notify"
    /\ UNCHANGED <<queueVars, countVars, workerVars, submitVars, epc, runs>>

DLock ==
    /\ dpc = "lock"
    /\ mtx = None
    /\ mtx' = Owner
    /\ dpc' = "store"
    /\ UNCHANGED <<task_queue, stop, countVars, workerVars, submitVars, epc, runs>>

DStore ==
    /\ dpc = "store"
    /\ stop' = TRUE
    /\ mtx' = None
    /\ dpc' = "notify"
    /\ UNCHANGED <<task_queue, countVars, workerVars, submitVars, epc, runs>>

\* Mutant: notify_one instead of notify_all.
DNotify_One ==
    /\ dpc = "notify"
    /\ \/ CvWaiters = {} /\ UNCHANGED wpc
       \/ \E w \in CvWaiters : wpc' = [wpc EXCEPT ![w] = "lock"]
    /\ dpc' = "join"
    /\ UNCHANGED <<queueVars, stop, countVars, task, submitVars, epc, runs>>

\* cv.notify_all(): every waiter leaves the wait set.
DNotify ==
    /\ dpc = "notify"
    /\ wpc' = [w \in Workers |-> IF wpc[w] = "wait" THEN "lock" ELSE wpc[w]]
    /\ dpc' = "join"
    /\ UNCHANGED <<queueVars, stop, countVars, task, submitVars, epc, runs>>

\* join returns once every worker has left NewThread.
DJoin ==
    /\ dpc = "join"
    /\ \A w \in Workers : wpc[w] = "exited"
    /\ dpc' = "gone"
    /\ UNCHANGED <<queueVars, stop, countVars, workerVars, submitVars, epc, runs>>

DStep == DLock \/ DStore \/ DNotify \/ DJoin

-----------------------------------------------------------------------------
\* The program may stop for good only when the pool is destroyed.
Terminated ==
    /\ dpc = "gone"
    /\ \A s \in Submitters : spc[s] = "idle"
    /\ UNCHANGED vars

Next ==
    \/ \E w \in Workers : WStep(w) \/ WSpurious(w)
    \/ \E s \in Submitters : SStep(s) \/ \E t \in Tasks : SCall(s, t)
    \/ \E d \in Drainers : EStep(d) \/ ECall(d) \/ ESpurious(d)
    \/ DStep \/ DCall
    \/ Terminated

Spec == Init /\ [][Next]_vars

\* A thread inside a pool function takes its next step; a mutex that is free
\* again and again is not refused for ever (a spurious wakeup may take it any
\* number of times in between).  Nobody is obliged to call a function.
Fairness ==
    /\ \A w \in Workers : /\ WF_vars(WStep(w))
                          /\ SF_vars(WLock(w))
                          /\ SF_vars(WEndLock(w))
    /\ \A s \in Submitters : WF_vars(SStep(s)) /\ SF_vars(SLock(s))
    /\ \A d \in Drainers : WF_vars(EStep(d)) /\ SF_vars(ELock(d))
    /\ WF_vars(DStep) /\ SF_vars(DLock)

FairSpec == Spec /\ Fairness

-----------------------------------------------------------------------------
(* Properties                                                              *)

TypeOK ==
    /\ mtx \in Threads \cup {None}
    /\ task_queue \in Seq(Tasks)
    /\ stop \in BOOLEAN
    /\ task_count \in Int
    /\ end_mtx \in Threads \cup {None}
    /\ wpc \in [Workers -> WorkerLabels]
    /\ task \in [Workers -> Tasks \cup {None}]
    /\ spc \in [Submitters -> SubmitLabels]
    /\ arg \in [Submitters -> Tasks \cup {None}]
    /\ epc \in [Drainers -> DrainLabels]
    /\ dpc \in OwnerLabels
    /\ runs \in [Tasks -> Nat]

\* task_count, which stop() waits on, is exactly the number of callables that
\* are queued or executing, except for one a submitter has queued but not yet
\* counted: fetch_add is ordered before any worker can take the callable.
CountExact ==
    task_count = Len(task_queue) + Cardinality(WorkerAt({"run", "dec"}))
                                 - Cardinality(SubmitterAt({"count"}))

\* notify_one without the mutex loses no work: while a worker sleeps, every
\* queued callable has its own messenger, either a submitter about to notify
\* or a worker on its way to look at the queue.
WorkConserving ==
    CvWaiters # {} =>
      Len(task_queue) <= Cardinality(SubmitterAt({"count", "notify"}))
                           + Cardinality(WorkerAt({"lock", "check"}))

\* Storing stop under the mutex before notify_all means that no worker is, or
\* is about to be, asleep once the destructor is joining.
NoSleeperAtJoin ==
    dpc \in {"join", "gone"} => WorkerAt({"block", "wait"}) = {}

\* notify_one under end_mtx loses no completion: when a single thread sleeps
\* (or is between its test and its sleep) and the pool is dry, the worker that
\* took the last callable has its notification still ahead of it.
DrainSignalPending ==
    \A d \in Drainers :
      epc[d] \in {"block", "wait"} /\ task_count = 0 =>
        WorkerAt({"endlock", "endnotify"}) # {}

\* ~ThreadPool returns only when every callable that was accepted has been run.
DestroyedDrained ==
    dpc = "gone" => task_queue = <<>> /\ task_count = 0

\* Whoever waited for the pool returns at a moment when no callable is being
\* executed and none is queued but one that is not counted yet.
DrainedStep ==
    \A d \in Drainers :
      epc[d] # "idle" /\ epc'[d] = "idle" =>
        /\ WorkerAt({"run", "dec"}) = {}
        /\ Len(task_queue) = Cardinality(SubmitterAt({"count"}))

ReturnsDrained == [][DrainedStep]_vars

\* A queued callable is executed.
QueuedRuns == \A t \in Tasks : t \in Queued ~> runs[t] = 1

\* A thread that waits for the pool to run dry gets its answer.
DrainReturns == \A d \in Drainers : epc[d] # "idle" ~> epc[d] = "idle"

\* ~ThreadPool terminates.
DestructorReturns == dpc = "lock" ~> dpc = "gone"
=============================================================================

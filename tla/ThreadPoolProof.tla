--------------------------- MODULE ThreadPoolProof ---------------------------
(***************************************************************************)
(* Proofs about ThreadPool, for any finite sets of workers, submitters and *)
(* drainers and any set of callables: its safety properties, and that it   *)
(* implements TaskService, fairness aside.                                 *)
(***************************************************************************)
EXTENDS MCThreadPool, TLAPS, FiniteSetTheorems

USE DEF queueVars, countVars, workerVars, submitVars

-----------------------------------------------------------------------------
(* Types                                                                   *)

\* A thread that is about to use a callable has one.
HandOK ==
    /\ \A s \in Submitters : spc[s] \in {"check", "lock", "emplace"} => arg[s] \in Tasks
    /\ \A w \in Workers : wpc[w] \in {"run", "dec"} => task[w] \in Tasks

TypeInv == TypeOK /\ HandOK

\* The types hold at the start.
LEMMA TypeInvInit == Init => TypeInv
<1> SUFFICES ASSUME Init PROVE TypeInv
  OBVIOUS
<1> USE DEF Init
<1>1. TypeOK
  <2>1. mtx \in Threads \cup {None} /\ end_mtx \in Threads \cup {None}
    OBVIOUS
  <2>2. task_queue \in Seq(Tasks) /\ task_count \in Int
    OBVIOUS
  <2>6. stop \in BOOLEAN
    OBVIOUS
  <2>3. wpc \in [Workers -> WorkerLabels] /\ task \in [Workers -> Tasks \cup {None}]
    BY DEF WorkerLabels
  <2>4. spc \in [Submitters -> SubmitLabels] /\ arg \in [Submitters -> Tasks \cup {None}]
    BY DEF SubmitLabels
  <2>5. epc \in [Drainers -> DrainLabels] /\ dpc \in OwnerLabels /\ runs \in [Tasks -> Nat]
    BY DEF DrainLabels, OwnerLabels
  <2> QED
    BY <2>1, <2>2, <2>3, <2>4, <2>5, <2>6 DEF TypeOK
<1>2. HandOK
  BY DEF HandOK
<1> QED
  BY <1>1, <1>2 DEF TypeInv

\* Every step of the pool keeps the types and leaves a thread its callable.
LEMMA TypeInvNext == TypeInv /\ [Next]_vars => TypeInv'
<1> SUFFICES ASSUME TypeInv, [Next]_vars PROVE TypeInv'
  OBVIOUS
<1> USE DEF TypeInv, TypeOK, HandOK, WorkerLabels, SubmitLabels, DrainLabels,
        OwnerLabels, Threads
<1>1. ASSUME NEW w \in Workers, WLock(w) PROVE TypeInv'
  BY <1>1 DEF WLock
<1>2. ASSUME NEW w \in Workers, WSleep(w) PROVE TypeInv'
  BY <1>2 DEF WSleep
<1>3. ASSUME NEW w \in Workers, WBlock(w) PROVE TypeInv'
  BY <1>3 DEF WBlock
<1>4. ASSUME NEW w \in Workers, WExit(w) PROVE TypeInv'
  BY <1>4 DEF WExit
<1>5. ASSUME NEW w \in Workers, WTake(w) PROVE TypeInv'
  <2>1. Head(task_queue) \in Tasks /\ Tail(task_queue) \in Seq(Tasks)
    BY <1>5 DEF WTake
  <2> QED
    BY <1>5, <2>1 DEF WTake
<1>6. ASSUME NEW w \in Workers, WRun(w) PROVE TypeInv'
  BY <1>6 DEF WRun
<1>7. ASSUME NEW w \in Workers, WDec(w) PROVE TypeInv'
  BY <1>7 DEF WDec
<1>8. ASSUME NEW w \in Workers, WEndLock(w) PROVE TypeInv'
  BY <1>8 DEF WEndLock
<1>9. ASSUME NEW w \in Workers, WEndNotify(w) PROVE TypeInv'
  BY <1>9 DEF WEndNotify, EndWaiters
<1>10. ASSUME NEW w \in Workers, WSpurious(w) PROVE TypeInv'
  BY <1>10 DEF WSpurious
<1>11. ASSUME NEW s \in Submitters, NEW t \in Tasks, SCall(s, t) PROVE TypeInv'
  BY <1>11 DEF SCall
<1>12. ASSUME NEW s \in Submitters, SCheck(s) PROVE TypeInv'
  BY <1>12 DEF SCheck
<1>13. ASSUME NEW s \in Submitters, SLock(s) PROVE TypeInv'
  BY <1>13 DEF SLock
<1>14. ASSUME NEW s \in Submitters, SEmplace(s) PROVE TypeInv'
  <2>1. Append(task_queue, arg[s]) \in Seq(Tasks)
    BY <1>14 DEF SEmplace
  <2> QED
    BY <1>14, <2>1 DEF SEmplace
<1>15. ASSUME NEW s \in Submitters, SCount(s) PROVE TypeInv'
  BY <1>15 DEF SCount
<1>16. ASSUME NEW s \in Submitters, SNotify(s) PROVE TypeInv'
  BY <1>16, ZenonT(60) DEF SNotify, CvWaiters
<1>17. ASSUME NEW d \in Drainers, ECall(d) \/ ELock(d) \/ EReturn(d) \/ ESleep(d)
                                  \/ EBlock(d) \/ ESpurious(d)
       PROVE TypeInv'
  BY <1>17 DEF ECall, ELock, EReturn, ESleep, EBlock, ESpurious
<1>18. ASSUME DCall \/ DLock \/ DStore \/ DJoin PROVE TypeInv'
  BY <1>18 DEF DCall, DLock, DStore, DJoin
<1>19. ASSUME DNotify PROVE TypeInv'
  BY <1>19 DEF DNotify
<1>20. ASSUME UNCHANGED vars PROVE TypeInv'
  BY <1>20 DEF vars
<1> QED
  BY <1>1, <1>2, <1>3, <1>4, <1>5, <1>6, <1>7, <1>8, <1>9, <1>10, <1>11, <1>12,
     <1>13, <1>14, <1>15, <1>16, <1>17, <1>18, <1>19, <1>20
     DEF Next, WStep, SStep, EStep, DStep, Terminated

\* Every variable keeps its type: in particular a callable is never queued or
\* run after it was moved away (threadpool.h:36 and :93).
THEOREM TypeCorrect == Spec => []TypeOK
<1>1. TypeInv => TypeOK
  BY DEF TypeInv
<1> QED
  BY <1>1, TypeInvInit, TypeInvNext, PTL DEF Spec

-----------------------------------------------------------------------------
(* Mutual exclusion                                                        *)

\* A mutex is held exactly by the thread that is inside its critical section.
LockInv ==
    /\ \A w \in Workers : mtx = w <=> wpc[w] \in {"check", "block"}
    /\ \A s \in Submitters : mtx = s <=> spc[s] \in {"emplace", "count"}
    /\ mtx = Owner <=> dpc = "store"
    /\ \A w \in Workers : end_mtx = w <=> wpc[w] = "endnotify"
    /\ \A d \in Drainers : end_mtx = d <=> epc[d] \in {"check", "block"}

\* Nobody has the lock at the start.
LEMMA LockInvInit == Init => LockInv
BY RolesAssumption DEF Init, LockInv

\* Every step keeps the lock with the one thread that is inside.
LEMMA LockInvNext == TypeInv /\ LockInv /\ [Next]_vars => LockInv'
<1> SUFFICES ASSUME TypeInv, LockInv, [Next]_vars PROVE LockInv'
  OBVIOUS
<1> USE RolesAssumption DEF TypeInv, TypeOK, LockInv
<1>1. ASSUME NEW w \in Workers, WLock(w) PROVE LockInv'
  BY <1>1 DEF WLock
<1>2. ASSUME NEW w \in Workers, WSleep(w) PROVE LockInv'
  BY <1>2 DEF WSleep
<1>3. ASSUME NEW w \in Workers, WBlock(w) PROVE LockInv'
  BY <1>3 DEF WBlock
<1>4. ASSUME NEW w \in Workers, WExit(w) PROVE LockInv'
  BY <1>4 DEF WExit
<1>5. ASSUME NEW w \in Workers, WTake(w) PROVE LockInv'
  BY <1>5 DEF WTake
<1>6. ASSUME NEW w \in Workers, WRun(w) PROVE LockInv'
  BY <1>6 DEF WRun
<1>7. ASSUME NEW w \in Workers, WDec(w) PROVE LockInv'
  BY <1>7 DEF WDec
<1>8. ASSUME NEW w \in Workers, WEndLock(w) PROVE LockInv'
  BY <1>8 DEF WEndLock
<1>9. ASSUME NEW w \in Workers, WEndNotify(w) PROVE LockInv'
  BY <1>9 DEF WEndNotify, EndWaiters
<1>10. ASSUME NEW w \in Workers, WSpurious(w) PROVE LockInv'
  BY <1>10 DEF WSpurious
<1>11. ASSUME NEW s \in Submitters, NEW t \in Tasks, SCall(s, t) PROVE LockInv'
  BY <1>11 DEF SCall
<1>12. ASSUME NEW s \in Submitters, SCheck(s) PROVE LockInv'
  BY <1>12 DEF SCheck
<1>13. ASSUME NEW s \in Submitters, SLock(s) PROVE LockInv'
  BY <1>13 DEF SLock
<1>14. ASSUME NEW s \in Submitters, SEmplace(s) PROVE LockInv'
  BY <1>14 DEF SEmplace
<1>15. ASSUME NEW s \in Submitters, SCount(s) PROVE LockInv'
  BY <1>15 DEF SCount
<1>16. ASSUME NEW s \in Submitters, SNotify(s) PROVE LockInv'
  BY <1>16 DEF SNotify, CvWaiters
<1>17. ASSUME NEW d \in Drainers, ECall(d) PROVE LockInv'
  BY <1>17 DEF ECall
<1>18. ASSUME NEW d \in Drainers, ELock(d) PROVE LockInv'
  BY <1>18 DEF ELock
<1>19. ASSUME NEW d \in Drainers, EReturn(d) PROVE LockInv'
  BY <1>19 DEF EReturn
<1>20. ASSUME NEW d \in Drainers, ESleep(d) PROVE LockInv'
  BY <1>20 DEF ESleep
<1>21. ASSUME NEW d \in Drainers, EBlock(d) PROVE LockInv'
  BY <1>21 DEF EBlock
<1>22. ASSUME NEW d \in Drainers, ESpurious(d) PROVE LockInv'
  BY <1>22 DEF ESpurious
<1>23. ASSUME DCall PROVE LockInv'
  BY <1>23 DEF DCall
<1>24. ASSUME DLock PROVE LockInv'
  BY <1>24 DEF DLock
<1>25. ASSUME DStore PROVE LockInv'
  BY <1>25 DEF DStore
<1>26. ASSUME DNotify PROVE LockInv'
  BY <1>26 DEF DNotify
<1>27. ASSUME DJoin PROVE LockInv'
  BY <1>27 DEF DJoin
<1>28. ASSUME UNCHANGED vars PROVE LockInv'
  BY <1>28 DEF vars
<1> QED
  BY <1>1, <1>2, <1>3, <1>4, <1>5, <1>6, <1>7, <1>8, <1>9, <1>10, <1>11, <1>12,
     <1>13, <1>14, <1>15, <1>16, <1>17, <1>18, <1>19, <1>20, <1>21, <1>22, <1>23, <1>24,
     <1>25, <1>26, <1>27, <1>28
     DEF Next, WStep, SStep, EStep, DStep, Terminated

-----------------------------------------------------------------------------
(* The stop flag                                                           *)

\* stop is set once the destructor left its critical section; a worker about
\* to sleep saw it clear, and an empty queue, under the same mutex.
StopInv ==
    /\ stop <=> dpc \in {"notify", "join", "gone"}
    /\ \A w \in Workers : wpc[w] = "block" => ~stop /\ task_queue = <<>>
    /\ dpc \in {"join", "gone"} => \A w \in Workers : wpc[w] # "wait"

\* The pool starts running.
LEMMA StopInvInit == Init => StopInv
BY DEF Init, StopInv

\* Every step keeps what is known of a pool that stops.
LEMMA StopInvNext == TypeInv /\ LockInv /\ StopInv /\ [Next]_vars => StopInv'
<1> SUFFICES ASSUME TypeInv, LockInv, StopInv, [Next]_vars PROVE StopInv'
  OBVIOUS
<1> USE RolesAssumption DEF TypeInv, TypeOK, LockInv, StopInv, OwnerLabels
<1>1. ASSUME NEW w \in Workers, WLock(w) PROVE StopInv'
  BY <1>1 DEF WLock
<1>2. ASSUME NEW w \in Workers, WSleep(w) PROVE StopInv'
  BY <1>2 DEF WSleep
<1>3. ASSUME NEW w \in Workers, WBlock(w) PROVE StopInv'
  BY <1>3 DEF WBlock
<1>4. ASSUME NEW w \in Workers, WExit(w) PROVE StopInv'
  BY <1>4 DEF WExit
<1>5. ASSUME NEW w \in Workers, WTake(w) PROVE StopInv'
  BY <1>5 DEF WTake
<1>6. ASSUME NEW w \in Workers, WRun(w) PROVE StopInv'
  BY <1>6 DEF WRun
<1>7. ASSUME NEW w \in Workers, WDec(w) PROVE StopInv'
  BY <1>7 DEF WDec
<1>8. ASSUME NEW w \in Workers, WEndLock(w) PROVE StopInv'
  BY <1>8 DEF WEndLock
<1>9. ASSUME NEW w \in Workers, WEndNotify(w) PROVE StopInv'
  BY <1>9 DEF WEndNotify, EndWaiters
<1>10. ASSUME NEW w \in Workers, WSpurious(w) PROVE StopInv'
  BY <1>10 DEF WSpurious
<1>11. ASSUME NEW s \in Submitters, NEW t \in Tasks, SCall(s, t) PROVE StopInv'
  BY <1>11 DEF SCall
<1>12. ASSUME NEW s \in Submitters, SCheck(s) PROVE StopInv'
  BY <1>12 DEF SCheck
<1>13. ASSUME NEW s \in Submitters, SLock(s) PROVE StopInv'
  BY <1>13 DEF SLock
<1>14. ASSUME NEW s \in Submitters, SEmplace(s) PROVE StopInv'
  BY <1>14 DEF SEmplace
<1>15. ASSUME NEW s \in Submitters, SCount(s) PROVE StopInv'
  BY <1>15 DEF SCount
<1>16. ASSUME NEW s \in Submitters, SNotify(s) PROVE StopInv'
  BY <1>16 DEF SNotify, CvWaiters
<1>17. ASSUME NEW d \in Drainers, ECall(d) PROVE StopInv'
  BY <1>17 DEF ECall
<1>18. ASSUME NEW d \in Drainers, ELock(d) PROVE StopInv'
  BY <1>18 DEF ELock
<1>19. ASSUME NEW d \in Drainers, EReturn(d) PROVE StopInv'
  BY <1>19 DEF EReturn
<1>20. ASSUME NEW d \in Drainers, ESleep(d) PROVE StopInv'
  BY <1>20 DEF ESleep
<1>21. ASSUME NEW d \in Drainers, EBlock(d) PROVE StopInv'
  BY <1>21 DEF EBlock
<1>22. ASSUME NEW d \in Drainers, ESpurious(d) PROVE StopInv'
  BY <1>22 DEF ESpurious
<1>23. ASSUME DCall PROVE StopInv'
  BY <1>23 DEF DCall
<1>24. ASSUME DLock PROVE StopInv'
  BY <1>24 DEF DLock
<1>25. ASSUME DStore PROVE StopInv'
  BY <1>25 DEF DStore
<1>26. ASSUME DNotify PROVE StopInv'
  BY <1>26 DEF DNotify
<1>27. ASSUME DJoin PROVE StopInv'
  BY <1>27 DEF DJoin
<1>28. ASSUME UNCHANGED vars PROVE StopInv'
  BY <1>28 DEF vars
<1> QED
  BY <1>1, <1>2, <1>3, <1>4, <1>5, <1>6, <1>7, <1>8, <1>9, <1>10, <1>11, <1>12,
     <1>13, <1>14, <1>15, <1>16, <1>17, <1>18, <1>19, <1>20, <1>21, <1>22, <1>23, <1>24,
     <1>25, <1>26, <1>27, <1>28
     DEF Next, WStep, SStep, EStep, DStep, Terminated

\* No worker is asleep, or about to be, while the destructor joins: storing
\* stop under the mutex (threadpool.h:71-72) makes notify_all reach them all.
THEOREM NoSleeper == Spec => []NoSleeperAtJoin
<1>1. StopInv => NoSleeperAtJoin
  BY DEF StopInv, NoSleeperAtJoin, WorkerAt
<1> QED
  BY <1>1, TypeInvInit, TypeInvNext, LockInvInit, LockInvNext, StopInvInit,
     StopInvNext, PTL DEF Spec

-----------------------------------------------------------------------------
(* The queue                                                               *)

\* A callable is counted before the mutex is released, so it is still queued.
\* Unless submit may overlap the destructor, no thread is in submit once the
\* destructor started, and no worker leaves while something is queued.
QueueInv ==
    /\ \A s \in Submitters : spc[s] = "count" => task_queue # <<>>
    /\ dpc = "gone" => \A w \in Workers : wpc[w] = "exited"
    /\ ~LateSubmit /\ dpc # "alive" => \A s \in Submitters : spc[s] = "idle"
    /\ \A w \in Workers :
         ~LateSubmit /\ wpc[w] = "exited" => dpc # "alive" /\ task_queue = <<>>

\* The queue starts empty.
LEMMA QueueInvInit == Init => QueueInv
BY DEF Init, QueueInv

\* Every step keeps what is known of the queue.
LEMMA QueueInvNext ==
    TypeInv /\ LockInv /\ StopInv /\ QueueInv /\ [Next]_vars => QueueInv'
<1> SUFFICES ASSUME TypeInv, LockInv, StopInv, QueueInv, [Next]_vars PROVE QueueInv'
  OBVIOUS
<1> USE RolesAssumption DEF TypeInv, TypeOK, LockInv, StopInv, QueueInv, OwnerLabels
<1>1. ASSUME NEW w \in Workers, WLock(w) PROVE QueueInv'
  BY <1>1 DEF WLock
<1>2. ASSUME NEW w \in Workers, WSleep(w) PROVE QueueInv'
  BY <1>2 DEF WSleep
<1>3. ASSUME NEW w \in Workers, WBlock(w) PROVE QueueInv'
  BY <1>3 DEF WBlock
<1>4. ASSUME NEW w \in Workers, WExit(w) PROVE QueueInv'
  BY <1>4 DEF WExit
<1>5. ASSUME NEW w \in Workers, WTake(w) PROVE QueueInv'
  BY <1>5 DEF WTake
<1>6. ASSUME NEW w \in Workers, WRun(w) PROVE QueueInv'
  BY <1>6 DEF WRun
<1>7. ASSUME NEW w \in Workers, WDec(w) PROVE QueueInv'
  BY <1>7 DEF WDec
<1>8. ASSUME NEW w \in Workers, WEndLock(w) PROVE QueueInv'
  BY <1>8 DEF WEndLock
<1>9. ASSUME NEW w \in Workers, WEndNotify(w) PROVE QueueInv'
  BY <1>9 DEF WEndNotify, EndWaiters
<1>10. ASSUME NEW w \in Workers, WSpurious(w) PROVE QueueInv'
  BY <1>10 DEF WSpurious
<1>11. ASSUME NEW s \in Submitters, NEW t \in Tasks, SCall(s, t) PROVE QueueInv'
  BY <1>11 DEF SCall
<1>12. ASSUME NEW s \in Submitters, SCheck(s) PROVE QueueInv'
  BY <1>12 DEF SCheck
<1>13. ASSUME NEW s \in Submitters, SLock(s) PROVE QueueInv'
  BY <1>13 DEF SLock
<1>14. ASSUME NEW s \in Submitters, SEmplace(s) PROVE QueueInv'
  BY <1>14 DEF SEmplace
<1>15. ASSUME NEW s \in Submitters, SCount(s) PROVE QueueInv'
  BY <1>15 DEF SCount
<1>16. ASSUME NEW s \in Submitters, SNotify(s) PROVE QueueInv'
  BY <1>16 DEF SNotify, CvWaiters
<1>17. ASSUME NEW d \in Drainers, ECall(d) PROVE QueueInv'
  BY <1>17 DEF ECall
<1>18. ASSUME NEW d \in Drainers, ELock(d) PROVE QueueInv'
  BY <1>18 DEF ELock
<1>19. ASSUME NEW d \in Drainers, EReturn(d) PROVE QueueInv'
  BY <1>19 DEF EReturn
<1>20. ASSUME NEW d \in Drainers, ESleep(d) PROVE QueueInv'
  BY <1>20 DEF ESleep
<1>21. ASSUME NEW d \in Drainers, EBlock(d) PROVE QueueInv'
  BY <1>21 DEF EBlock
<1>22. ASSUME NEW d \in Drainers, ESpurious(d) PROVE QueueInv'
  BY <1>22 DEF ESpurious
<1>23. ASSUME DCall PROVE QueueInv'
  BY <1>23 DEF DCall
<1>24. ASSUME DLock PROVE QueueInv'
  BY <1>24 DEF DLock
<1>25. ASSUME DStore PROVE QueueInv'
  BY <1>25 DEF DStore
<1>26. ASSUME DNotify PROVE QueueInv'
  BY <1>26 DEF DNotify
<1>27. ASSUME DJoin PROVE QueueInv'
  BY <1>27 DEF DJoin
<1>28. ASSUME UNCHANGED vars PROVE QueueInv'
  BY <1>28 DEF vars
<1> QED
  BY <1>1, <1>2, <1>3, <1>4, <1>5, <1>6, <1>7, <1>8, <1>9, <1>10, <1>11, <1>12,
     <1>13, <1>14, <1>15, <1>16, <1>17, <1>18, <1>19, <1>20, <1>21, <1>22, <1>23, <1>24,
     <1>25, <1>26, <1>27, <1>28
     DEF Next, WStep, SStep, EStep, DStep, Terminated

-----------------------------------------------------------------------------
(* The count                                                               *)

\* Only finitely many workers are at one place.
LEMMA WorkersFinite == ASSUME NEW L PROVE IsFiniteSet(WorkerAt(L))
BY RolesAssumption, FS_Subset DEF WorkerAt

\* Only finitely many submitters are at one place.
LEMMA SubmittersFinite == ASSUME NEW L PROVE IsFiniteSet(SubmitterAt(L))
BY RolesAssumption, FS_Subset DEF SubmitterAt

\* A set does not shrink when an element is added.
LEMMA CardinalityGrows ==
  ASSUME NEW S, NEW x, IsFiniteSet(S) PROVE Cardinality(S \cup {x}) >= Cardinality(S)
<1>1. Cardinality(S) \in Nat
  BY FS_CardinalityType
<1>2. Cardinality(S \cup {x}) \in {Cardinality(S), Cardinality(S) + 1}
  BY FS_AddElement
<1> QED
  BY <1>1, <1>2

Running == WorkerAt({"run", "dec"})
Counting == SubmitterAt({"count"})

\* task_count starts with nothing to count.
LEMMA CountInit == Init => CountExact
<1> SUFFICES ASSUME Init PROVE CountExact
  OBVIOUS
<1>1. WorkerAt({"run", "dec"}) = {} /\ SubmitterAt({"count"}) = {}
  BY DEF Init, WorkerAt, SubmitterAt
<1>2. Len(task_queue) = 0 /\ task_count = 0
  BY DEF Init
<1>3. Cardinality(WorkerAt({"run", "dec"})) = 0 /\ Cardinality(SubmitterAt({"count"})) = 0
  BY <1>1, FS_EmptySet
<1> QED
  BY <1>2, <1>3 DEF CountExact

\* Every step changes task_count with what it counts.
LEMMA CountNext == TypeInv /\ CountExact /\ [Next]_vars => CountExact'
<1> SUFFICES ASSUME TypeInv, CountExact, [Next]_vars PROVE CountExact'
  OBVIOUS
<1> USE DEF TypeInv, TypeOK
<1> DEFINE Same == /\ Running' = Running /\ Counting' = Counting
                   /\ task_queue' = task_queue /\ task_count' = task_count
<1>a. Same => CountExact'
  BY DEF CountExact, Running, Counting
<1>b. /\ IsFiniteSet(Running) /\ Cardinality(Running) \in Nat
      /\ IsFiniteSet(Counting) /\ Cardinality(Counting) \in Nat
  BY WorkersFinite, SubmittersFinite, FS_CardinalityType DEF Running, Counting
<1>c. /\ task_count = Len(task_queue) + Cardinality(Running) - Cardinality(Counting)
      /\ Len(task_queue) \in Nat
  BY DEF CountExact, Running, Counting
<1> HIDE DEF Same
<1>1. ASSUME NEW w \in Workers, WLock(w) PROVE CountExact'
  BY <1>1, <1>a DEF WLock, Same, Running, Counting, WorkerAt, SubmitterAt
<1>2. ASSUME NEW w \in Workers, WSleep(w) PROVE CountExact'
  BY <1>2, <1>a DEF WSleep, Same, Running, Counting, WorkerAt, SubmitterAt
<1>3. ASSUME NEW w \in Workers, WBlock(w) PROVE CountExact'
  BY <1>3, <1>a DEF WBlock, Same, Running, Counting, WorkerAt, SubmitterAt
<1>4. ASSUME NEW w \in Workers, WExit(w) PROVE CountExact'
  BY <1>4, <1>a DEF WExit, Same, Running, Counting, WorkerAt, SubmitterAt
<1>5. ASSUME NEW w \in Workers, WTake(w) PROVE CountExact'
  <2>1. Running' = Running \cup {w} /\ w \notin Running /\ Counting' = Counting
    BY <1>5 DEF WTake, Running, Counting, WorkerAt, SubmitterAt
  <2>2. Cardinality(Running') = Cardinality(Running) + 1
    BY <2>1, <1>b, FS_AddElement
  <2>3. Len(task_queue') = Len(task_queue) - 1 /\ task_count' = task_count
    BY <1>5 DEF WTake
  <2> QED
    BY <1>b, <1>c, <2>1, <2>2, <2>3 DEF CountExact, Running, Counting
<1>6. ASSUME NEW w \in Workers, WRun(w) PROVE CountExact'
  BY <1>6, <1>a DEF WRun, Same, Running, Counting, WorkerAt, SubmitterAt
<1>7. ASSUME NEW w \in Workers, WDec(w) PROVE CountExact'
  <2>1. Running' = Running \ {w} /\ w \in Running /\ Counting' = Counting
    BY <1>7 DEF WDec, Running, Counting, WorkerAt, SubmitterAt
  <2>2. Cardinality(Running') = Cardinality(Running) - 1
    BY <2>1, <1>b, FS_RemoveElement
  <2>3. task_queue' = task_queue /\ task_count' = task_count - 1
    BY <1>7 DEF WDec
  <2> QED
    BY <1>b, <1>c, <2>1, <2>2, <2>3 DEF CountExact, Running, Counting
<1>8. ASSUME NEW w \in Workers, WEndLock(w) PROVE CountExact'
  BY <1>8, <1>a DEF WEndLock, Same, Running, Counting, WorkerAt, SubmitterAt
<1>9. ASSUME NEW w \in Workers, WEndNotify(w) PROVE CountExact'
  BY <1>9, <1>a DEF WEndNotify, EndWaiters, Same, Running, Counting, WorkerAt, SubmitterAt
<1>10. ASSUME NEW w \in Workers, WSpurious(w) PROVE CountExact'
  BY <1>10, <1>a DEF WSpurious, Same, Running, Counting, WorkerAt, SubmitterAt
<1>11. ASSUME NEW s \in Submitters, NEW t \in Tasks, SCall(s, t) PROVE CountExact'
  BY <1>11, <1>a DEF SCall, Same, Running, Counting, WorkerAt, SubmitterAt
<1>12. ASSUME NEW s \in Submitters, SCheck(s) PROVE CountExact'
  BY <1>12, <1>a DEF SCheck, Same, Running, Counting, WorkerAt, SubmitterAt
<1>13. ASSUME NEW s \in Submitters, SLock(s) PROVE CountExact'
  BY <1>13, <1>a DEF SLock, Same, Running, Counting, WorkerAt, SubmitterAt
<1>14. ASSUME NEW s \in Submitters, SEmplace(s) PROVE CountExact'
  <2>1. Counting' = Counting \cup {s} /\ s \notin Counting /\ Running' = Running
    BY <1>14 DEF SEmplace, Running, Counting, WorkerAt, SubmitterAt
  <2>2. Cardinality(Counting') = Cardinality(Counting) + 1
    BY <2>1, <1>b, FS_AddElement
  <2>3. Len(task_queue') = Len(task_queue) + 1 /\ task_count' = task_count
    BY <1>14 DEF SEmplace, HandOK
  <2>4. task_count' = Len(task_queue') + Cardinality(Running') - Cardinality(Counting')
    <3> HIDE DEF TypeInv, TypeOK
    <3> QED
      BY <1>b, <1>c, <2>1, <2>2, <2>3
  <2> QED
    BY <2>4 DEF CountExact, Running, Counting
<1>15. ASSUME NEW s \in Submitters, SCount(s) PROVE CountExact'
  <2>1. Counting' = Counting \ {s} /\ s \in Counting /\ Running' = Running
    BY <1>15 DEF SCount, Running, Counting, WorkerAt, SubmitterAt
  <2>2. Cardinality(Counting') = Cardinality(Counting) - 1
    BY <2>1, <1>b, FS_RemoveElement
  <2>3. task_queue' = task_queue /\ task_count' = task_count + 1
    BY <1>15 DEF SCount
  <2> QED
    BY <1>b, <1>c, <2>1, <2>2, <2>3 DEF CountExact, Running, Counting
<1>16. ASSUME NEW s \in Submitters, SNotify(s) PROVE CountExact'
  BY <1>16, <1>a DEF SNotify, CvWaiters, Same, Running, Counting, WorkerAt, SubmitterAt
<1>17. ASSUME NEW d \in Drainers, ECall(d) PROVE CountExact'
  BY <1>17, <1>a DEF ECall, Same, Running, Counting, WorkerAt, SubmitterAt
<1>18. ASSUME NEW d \in Drainers, ELock(d) PROVE CountExact'
  BY <1>18, <1>a DEF ELock, Same, Running, Counting, WorkerAt, SubmitterAt
<1>19. ASSUME NEW d \in Drainers, EReturn(d) PROVE CountExact'
  BY <1>19, <1>a DEF EReturn, Same, Running, Counting, WorkerAt, SubmitterAt
<1>20. ASSUME NEW d \in Drainers, ESleep(d) PROVE CountExact'
  BY <1>20, <1>a DEF ESleep, Same, Running, Counting, WorkerAt, SubmitterAt
<1>21. ASSUME NEW d \in Drainers, EBlock(d) PROVE CountExact'
  BY <1>21, <1>a DEF EBlock, Same, Running, Counting, WorkerAt, SubmitterAt
<1>22. ASSUME NEW d \in Drainers, ESpurious(d) PROVE CountExact'
  BY <1>22, <1>a DEF ESpurious, Same, Running, Counting, WorkerAt, SubmitterAt
<1>23. ASSUME DCall PROVE CountExact'
  BY <1>23, <1>a DEF DCall, Same, Running, Counting, WorkerAt, SubmitterAt
<1>24. ASSUME DLock PROVE CountExact'
  BY <1>24, <1>a DEF DLock, Same, Running, Counting, WorkerAt, SubmitterAt
<1>25. ASSUME DStore PROVE CountExact'
  BY <1>25, <1>a DEF DStore, Same, Running, Counting, WorkerAt, SubmitterAt
<1>26. ASSUME DNotify PROVE CountExact'
  BY <1>26, <1>a DEF DNotify, Same, Running, Counting, WorkerAt, SubmitterAt
<1>27. ASSUME DJoin PROVE CountExact'
  BY <1>27, <1>a DEF DJoin, Same, Running, Counting, WorkerAt, SubmitterAt
<1>28. ASSUME UNCHANGED vars PROVE CountExact'
  BY <1>28, <1>a DEF vars, Same, Running, Counting, WorkerAt, SubmitterAt
<1> QED
  BY <1>1, <1>2, <1>3, <1>4, <1>5, <1>6, <1>7, <1>8, <1>9, <1>10, <1>11, <1>12,
     <1>13, <1>14, <1>15, <1>16, <1>17, <1>18, <1>19, <1>20, <1>21, <1>22, <1>23, <1>24,
     <1>25, <1>26, <1>27, <1>28
     DEF Next, WStep, SStep, EStep, DStep, Terminated

\* The number stop() waits on is exact: fetch_add happens under the mutex before
\* any worker can take the callable (threadpool.h:93-94), fetch_sub after it ran.
THEOREM CountIsExact == Spec => []CountExact
BY TypeInvInit, TypeInvNext, CountInit, CountNext, PTL DEF Spec

IInv == TypeInv /\ LockInv /\ StopInv /\ QueueInv /\ CountExact

\* The inductive invariant holds of the pool.
LEMMA IInvariant == Spec => []IInv
<1>1. Init => IInv
  BY TypeInvInit, LockInvInit, StopInvInit, QueueInvInit, CountInit DEF IInv
<1>2. IInv /\ [Next]_vars => IInv'
  BY TypeInvNext, LockInvNext, StopInvNext, QueueInvNext, CountNext DEF IInv
<1> QED
  BY <1>1, <1>2, PTL DEF Spec

\* At most one submitter is between emplace and fetch_add, and then the queue is
\* not empty.
LEMMA CountingQueued ==
  ASSUME IInv PROVE Cardinality(SubmitterAt({"count"})) <= Len(task_queue)
<1> USE DEF IInv, TypeInv, TypeOK
<1>1. CASE Counting = {}
  <2>1. Cardinality(Counting) = 0
    BY <1>1, FS_EmptySet
  <2> QED
    BY <2>1 DEF Counting
<1>2. CASE Counting # {}
  <2>1. PICK s \in Counting : TRUE
    BY <1>2
  <2>2. Counting = {s} /\ task_queue # <<>>
    BY <2>1 DEF Counting, SubmitterAt, LockInv, QueueInv
  <2>3. Cardinality(Counting) = 1
    BY <2>2, FS_Singleton
  <2> QED
    BY <2>2, <2>3 DEF Counting
<1> QED
  BY <1>1, <1>2

\* task_count never becomes negative.
LEMMA CountNatural == IInv => task_count \in Nat
<1> SUFFICES ASSUME IInv PROVE task_count \in Nat
  OBVIOUS
<1>1. Cardinality(Running) \in Nat /\ Cardinality(Counting) \in Nat
  BY WorkersFinite, SubmittersFinite, FS_CardinalityType DEF Running, Counting
<1>2. Cardinality(Counting) <= Len(task_queue) /\ Len(task_queue) \in Nat
  BY CountingQueued DEF IInv, TypeInv, TypeOK, Counting
<1>3. task_count = Len(task_queue) + Cardinality(Running) - Cardinality(Counting)
  BY DEF IInv, CountExact, Running, Counting
<1> QED
  BY <1>1, <1>2, <1>3

\* A zero count means that nothing counted is queued or running.
LEMMA ZeroMeansDry ==
  ASSUME IInv, task_count = 0
  PROVE  WorkerAt({"run", "dec"}) = {} /\ Len(task_queue) = Cardinality(SubmitterAt({"count"}))
<1> USE DEF IInv, TypeInv, TypeOK
<1>b. /\ IsFiniteSet(Running) /\ Cardinality(Running) \in Nat
      /\ IsFiniteSet(Counting) /\ Cardinality(Counting) \in Nat
  BY WorkersFinite, SubmittersFinite, FS_CardinalityType DEF Running, Counting
<1>1. Cardinality(Counting) <= Len(task_queue)
  BY CountingQueued DEF Counting
<1>2. Cardinality(Running) = 0 /\ Len(task_queue) = Cardinality(Counting)
  BY <1>b, <1>1 DEF CountExact, Running, Counting
<1>3. Running = {}
  BY <1>b, <1>2, FS_EmptySet
<1> QED
  BY <1>2, <1>3 DEF Running, Counting

\* stop()'s wait on end_cv returns only at a moment when no callable is running
\* and none is queued, but for one that is not counted yet (selectthread_tp.cpp:267).
THEOREM DrainIsDry == Spec => ReturnsDrained
<1>1. IInv /\ [Next]_vars => [DrainedStep]_vars
  <2> SUFFICES ASSUME IInv, Next, NEW d \in Drainers, epc[d] # "idle", epc'[d] = "idle"
               PROVE /\ WorkerAt({"run", "dec"}) = {}
                     /\ Len(task_queue) = Cardinality(SubmitterAt({"count"}))
    BY DEF DrainedStep
  <2>1. task_count = 0
    <3> USE DEF IInv, TypeInv, TypeOK
    <3>1. ASSUME NEW w \in Workers, WStep(w) \/ WSpurious(w) PROVE task_count = 0
      BY <3>1 DEF WStep, WLock, WSleep, WBlock, WExit, WTake, WRun, WDec, WEndLock,
         WEndNotify, WSpurious, EndWaiters
    <3>2. ASSUME NEW s \in Submitters, SStep(s) \/ \E t \in Tasks : SCall(s, t)
          PROVE task_count = 0
      BY <3>2 DEF SStep, SCall, SCheck, SLock, SEmplace, SCount, SNotify
    <3>3. ASSUME NEW e \in Drainers, EStep(e) \/ ECall(e) \/ ESpurious(e)
          PROVE task_count = 0
      BY <3>3 DEF EStep, ECall, ELock, EReturn, ESleep, EBlock, ESpurious
    <3>4. ASSUME DStep \/ DCall PROVE task_count = 0
      BY <3>4 DEF DStep, DCall, DLock, DStore, DNotify, DJoin
    <3> QED
      BY <3>1, <3>2, <3>3, <3>4 DEF Next, Terminated, vars
  <2> QED
    BY <2>1, ZeroMeansDry
<1> QED
  BY <1>1, IInvariant, PTL DEF Spec, ReturnsDrained

\* When every submit has returned before ~ThreadPool starts, it leaves no callable
\* behind, queued or counted (threadpool.h:32-33 and :75-79).
THEOREM DestructorDrains == ~LateSubmit => (Spec => []DestroyedDrained)
<1> SUFFICES ASSUME ~LateSubmit PROVE Spec => []DestroyedDrained
  OBVIOUS
<1>1. IInv => DestroyedDrained
  <2> SUFFICES ASSUME IInv, dpc = "gone" PROVE task_queue = <<>> /\ task_count = 0
    BY DEF DestroyedDrained
  <2>1. task_queue = <<>> /\ Len(task_queue) = 0
    BY RolesAssumption DEF IInv, QueueInv
  <2>2. WorkerAt({"run", "dec"}) = {} /\ SubmitterAt({"count"}) = {}
    BY DEF IInv, QueueInv, WorkerAt, SubmitterAt
  <2>3. Cardinality(WorkerAt({"run", "dec"})) = 0 /\ Cardinality(SubmitterAt({"count"})) = 0
    BY <2>2, FS_EmptySet
  <2>4. task_count = 0
    BY <2>1, <2>3 DEF IInv, CountExact
  <2> QED
    BY <2>1, <2>4
<1> QED
  BY <1>1, IInvariant, PTL

-----------------------------------------------------------------------------
(* No lost wakeup of a worker                                              *)

Messengers == SubmitterAt({"count", "notify"})
Onlookers == WorkerAt({"lock", "check"})
Conserving ==
    CvWaiters # {} => Len(task_queue) <= Cardinality(Messengers) + Cardinality(Onlookers)

\* At the start nothing was submitted.
LEMMA ConservingInit == Init => Conserving
BY DEF Init, Conserving, CvWaiters

\* No step loses or doubles a callable.
LEMMA ConservingNext ==
    TypeInv /\ StopInv /\ Conserving /\ [Next]_vars => Conserving'
<1> SUFFICES ASSUME TypeInv, StopInv, Conserving, [Next]_vars PROVE Conserving'
  OBVIOUS
<1> USE DEF TypeInv, TypeOK
<1> DEFINE Same == /\ Messengers' = Messengers /\ Onlookers' = Onlookers
                   /\ task_queue' = task_queue /\ CvWaiters' \subseteq CvWaiters
<1>a. Same => Conserving'
  BY DEF Conserving
<1>b. IsFiniteSet(Messengers) /\ IsFiniteSet(Onlookers)
  BY WorkersFinite, SubmittersFinite DEF Messengers, Onlookers
<1>c. Cardinality(Messengers) \in Nat /\ Cardinality(Onlookers) \in Nat
      /\ Len(task_queue) \in Nat
  BY <1>b, FS_CardinalityType
<1>d. /\ CvWaiters # {} => Len(task_queue) <= Cardinality(Messengers) + Cardinality(Onlookers)
      /\ (CvWaiters' # {} => Len(task_queue') <= Cardinality(Messengers') + Cardinality(Onlookers'))
         => Conserving'
  BY DEF Conserving
<1>n. /\ Cardinality(Messengers') \in Nat /\ Cardinality(Onlookers') \in Nat
      /\ Len(task_queue') = 0 => Conserving'
  <2>1. IsFiniteSet(Messengers') /\ IsFiniteSet(Onlookers')
    <3>1. Messengers' \subseteq Submitters /\ Onlookers' \subseteq Workers
      BY DEF Messengers, Onlookers, WorkerAt, SubmitterAt
    <3> QED
      BY <3>1, RolesAssumption, FS_Subset
  <2>2. Cardinality(Messengers') \in Nat /\ Cardinality(Onlookers') \in Nat
    BY <2>1, FS_CardinalityType
  <2> QED
    BY <2>2, <1>d
<1> HIDE DEF Same
<1>1. ASSUME NEW w \in Workers, WLock(w) PROVE Conserving'
  BY <1>1, <1>a DEF WLock, Same, Messengers, Onlookers, CvWaiters, WorkerAt, SubmitterAt
<1>2. ASSUME NEW w \in Workers, WSleep(w) PROVE Conserving'
  <2>1. Len(task_queue') = 0
    BY <1>2 DEF WSleep, StopInv
  <2> QED
    BY <2>1, <1>n
<1>3. ASSUME NEW w \in Workers, WBlock(w) PROVE Conserving'
  <2>1. Len(task_queue') = 0
    BY <1>3 DEF WBlock, StopInv
  <2> QED
    BY <2>1, <1>n
<1>4. ASSUME NEW w \in Workers, WExit(w) PROVE Conserving'
  <2>1. Len(task_queue') = 0
    BY <1>4 DEF WExit, StopInv
  <2> QED
    BY <2>1, <1>n
<1>5. ASSUME NEW w \in Workers, WTake(w) PROVE Conserving'
  <2>1. Onlookers' = Onlookers \ {w} /\ w \in Onlookers /\ Messengers' = Messengers
    BY <1>5 DEF WTake, Onlookers, Messengers, WorkerAt, SubmitterAt
  <2>2. Cardinality(Onlookers') = Cardinality(Onlookers) - 1
    BY <2>1, <1>b, FS_RemoveElement
  <2>3. Len(task_queue') = Len(task_queue) - 1 /\ CvWaiters' = CvWaiters
    BY <1>5 DEF WTake, CvWaiters
  <2> QED
    BY <1>c, <1>d, <2>1, <2>2, <2>3
<1>6. ASSUME NEW w \in Workers, WRun(w) PROVE Conserving'
  BY <1>6, <1>a DEF WRun, Same, Messengers, Onlookers, CvWaiters, WorkerAt, SubmitterAt
<1>7. ASSUME NEW w \in Workers, WDec(w) PROVE Conserving'
  <2>1. Messengers' = Messengers /\ task_queue' = task_queue /\ CvWaiters' = CvWaiters
    BY <1>7 DEF WDec, Messengers, SubmitterAt, CvWaiters
  <2>2. Onlookers' = Onlookers \/ Onlookers' = Onlookers \cup {w}
    BY <1>7 DEF WDec, Onlookers, WorkerAt
  <2>3. Cardinality(Onlookers') >= Cardinality(Onlookers)
    <3>1. Cardinality(Onlookers \cup {w}) >= Cardinality(Onlookers)
      BY <1>b, CardinalityGrows
    <3>2. CASE Onlookers' = Onlookers
      BY <3>2, <1>c
    <3>3. CASE Onlookers' = Onlookers \cup {w}
      BY <3>3, <3>1
    <3> QED
      BY <2>2, <3>2, <3>3
  <2> QED
    BY <1>c, <1>d, <1>n, <2>1, <2>3
<1>8. ASSUME NEW w \in Workers, WEndLock(w) PROVE Conserving'
  BY <1>8, <1>a DEF WEndLock, Same, Messengers, Onlookers, CvWaiters, WorkerAt, SubmitterAt
<1>9. ASSUME NEW w \in Workers, WEndNotify(w) PROVE Conserving'
  <2>1. Onlookers' = Onlookers \cup {w} /\ Messengers' = Messengers
    BY <1>9 DEF WEndNotify, Onlookers, Messengers, WorkerAt, SubmitterAt
  <2>2. Cardinality(Onlookers') >= Cardinality(Onlookers)
    BY <2>1, <1>b, CardinalityGrows
  <2>3. task_queue' = task_queue /\ CvWaiters' \subseteq CvWaiters
    BY <1>9 DEF WEndNotify, CvWaiters
  <2> QED
    BY <1>c, <1>d, <1>n, <2>1, <2>2, <2>3
<1>10. ASSUME NEW w \in Workers, WSpurious(w) PROVE Conserving'
  <2>1. Onlookers' = Onlookers \cup {w} /\ Messengers' = Messengers
    BY <1>10 DEF WSpurious, Onlookers, Messengers, WorkerAt, SubmitterAt
  <2>2. Cardinality(Onlookers') >= Cardinality(Onlookers)
    BY <2>1, <1>b, CardinalityGrows
  <2>3. task_queue' = task_queue /\ CvWaiters' \subseteq CvWaiters
    BY <1>10 DEF WSpurious, CvWaiters
  <2> QED
    BY <1>c, <1>d, <1>n, <2>1, <2>2, <2>3
<1>11. ASSUME NEW s \in Submitters, NEW t \in Tasks, SCall(s, t) PROVE Conserving'
  BY <1>11, <1>a DEF SCall, Same, Messengers, Onlookers, CvWaiters, WorkerAt, SubmitterAt
<1>12. ASSUME NEW s \in Submitters, SCheck(s) PROVE Conserving'
  BY <1>12, <1>a DEF SCheck, Same, Messengers, Onlookers, CvWaiters, WorkerAt, SubmitterAt
<1>13. ASSUME NEW s \in Submitters, SLock(s) PROVE Conserving'
  BY <1>13, <1>a DEF SLock, Same, Messengers, Onlookers, CvWaiters, WorkerAt, SubmitterAt
<1>14. ASSUME NEW s \in Submitters, SEmplace(s) PROVE Conserving'
  <2>1. Messengers' = Messengers \cup {s} /\ s \notin Messengers /\ Onlookers' = Onlookers
    BY <1>14 DEF SEmplace, Onlookers, Messengers, WorkerAt, SubmitterAt
  <2>2. Cardinality(Messengers') = Cardinality(Messengers) + 1
    BY <2>1, <1>b, FS_AddElement
  <2>3. Len(task_queue') = Len(task_queue) + 1 /\ CvWaiters' = CvWaiters
    BY <1>14 DEF SEmplace, CvWaiters, HandOK
  <2> QED
    BY <1>c, <1>d, <2>1, <2>2, <2>3
<1>15. ASSUME NEW s \in Submitters, SCount(s) PROVE Conserving'
  BY <1>15, <1>a DEF SCount, Same, Messengers, Onlookers, CvWaiters, WorkerAt, SubmitterAt
<1>16. ASSUME NEW s \in Submitters, SNotify(s) PROVE Conserving'
  <2>1. Messengers' = Messengers \ {s} /\ s \in Messengers /\ task_queue' = task_queue
    BY <1>16 DEF SNotify, Messengers, SubmitterAt
  <2>2. Cardinality(Messengers') = Cardinality(Messengers) - 1
    BY <2>1, <1>b, FS_RemoveElement
  <2>3. CASE CvWaiters = {} /\ UNCHANGED wpc
    BY <2>3 DEF CvWaiters, Conserving
  <2>4. ASSUME NEW w \in CvWaiters, wpc' = [wpc EXCEPT ![w] = "lock"]
        PROVE Conserving'
    <3>1. Onlookers' = Onlookers \cup {w} /\ w \notin Onlookers
      BY <2>4 DEF Onlookers, WorkerAt, CvWaiters
    <3>2. Cardinality(Onlookers') = Cardinality(Onlookers) + 1
      BY <3>1, <1>b, FS_AddElement
    <3> QED
      BY <1>c, <1>d, <2>1, <2>2, <2>4, <3>2
  <2> QED
    BY <1>16, <2>3, <2>4 DEF SNotify
<1>17. ASSUME NEW d \in Drainers, ECall(d) PROVE Conserving'
  BY <1>17, <1>a DEF ECall, Same, Messengers, Onlookers, CvWaiters, WorkerAt, SubmitterAt
<1>18. ASSUME NEW d \in Drainers, ELock(d) PROVE Conserving'
  BY <1>18, <1>a DEF ELock, Same, Messengers, Onlookers, CvWaiters, WorkerAt, SubmitterAt
<1>19. ASSUME NEW d \in Drainers, EReturn(d) PROVE Conserving'
  BY <1>19, <1>a DEF EReturn, Same, Messengers, Onlookers, CvWaiters, WorkerAt, SubmitterAt
<1>20. ASSUME NEW d \in Drainers, ESleep(d) PROVE Conserving'
  BY <1>20, <1>a DEF ESleep, Same, Messengers, Onlookers, CvWaiters, WorkerAt, SubmitterAt
<1>21. ASSUME NEW d \in Drainers, EBlock(d) PROVE Conserving'
  BY <1>21, <1>a DEF EBlock, Same, Messengers, Onlookers, CvWaiters, WorkerAt, SubmitterAt
<1>22. ASSUME NEW d \in Drainers, ESpurious(d) PROVE Conserving'
  BY <1>22, <1>a DEF ESpurious, Same, Messengers, Onlookers, CvWaiters, WorkerAt, SubmitterAt
<1>23. ASSUME DCall PROVE Conserving'
  BY <1>23, <1>a DEF DCall, Same, Messengers, Onlookers, CvWaiters, WorkerAt, SubmitterAt
<1>24. ASSUME DLock PROVE Conserving'
  BY <1>24, <1>a DEF DLock, Same, Messengers, Onlookers, CvWaiters, WorkerAt, SubmitterAt
<1>25. ASSUME DStore PROVE Conserving'
  BY <1>25, <1>a DEF DStore, Same, Messengers, Onlookers, CvWaiters, WorkerAt, SubmitterAt
<1>26. ASSUME DNotify PROVE Conserving'
  <2>1. CvWaiters' = {}
    BY <1>26 DEF DNotify, CvWaiters
  <2> QED
    BY <2>1 DEF Conserving
<1>27. ASSUME DJoin PROVE Conserving'
  BY <1>27, <1>a DEF DJoin, Same, Messengers, Onlookers, CvWaiters, WorkerAt, SubmitterAt
<1>28. ASSUME UNCHANGED vars PROVE Conserving'
  BY <1>28, <1>a DEF vars, Same, Messengers, Onlookers, CvWaiters, WorkerAt, SubmitterAt
<1> QED
  BY <1>1, <1>2, <1>3, <1>4, <1>5, <1>6, <1>7, <1>8, <1>9, <1>10, <1>11, <1>12,
     <1>13, <1>14, <1>15, <1>16, <1>17, <1>18, <1>19, <1>20, <1>21, <1>22, <1>23, <1>24,
     <1>25, <1>26, <1>27, <1>28
     DEF Next, WStep, SStep, EStep, DStep, Terminated

\* Notifying cv after the mutex is released (threadpool.h:96) loses no wakeup:
\* there is never a sleeping worker and a queued callable nobody will look at.
THEOREM NoLostWakeup == Spec => []WorkConserving
<1>1. Conserving => WorkConserving
  BY DEF Conserving, WorkConserving, Messengers, Onlookers
<1> QED
  BY <1>1, TypeInvInit, TypeInvNext, LockInvInit, LockInvNext, StopInvInit,
     StopInvNext, ConservingInit, ConservingNext, PTL DEF Spec

-----------------------------------------------------------------------------
(* No lost wakeup of the thread that drains the pool                       *)

\* At the start nobody waits for the pool.
LEMMA SignalInit == Init => DrainSignalPending
BY DEF Init, DrainSignalPending

\* No step loses the signal a waiting thread needs, if only one thread waits.
LEMMA SignalNext ==
    ASSUME \A d, e \in Drainers : d = e
    PROVE  IInv /\ DrainSignalPending /\ [Next]_vars => DrainSignalPending'
<1> SUFFICES ASSUME IInv, DrainSignalPending, [Next]_vars PROVE DrainSignalPending'
  OBVIOUS
<1>n. task_count \in Nat
  BY CountNatural
<1> USE RolesAssumption
        DEF IInv, TypeInv, TypeOK, LockInv, WorkerLabels, DrainLabels,
            DrainSignalPending, WorkerAt
<1>1. ASSUME NEW w \in Workers, WLock(w) PROVE DrainSignalPending'
  BY <1>1 DEF WLock
<1>2. ASSUME NEW w \in Workers, WSleep(w) PROVE DrainSignalPending'
  BY <1>2 DEF WSleep
<1>3. ASSUME NEW w \in Workers, WBlock(w) PROVE DrainSignalPending'
  BY <1>3, ZenonT(60) DEF WBlock
<1>4. ASSUME NEW w \in Workers, WExit(w) PROVE DrainSignalPending'
  BY <1>4 DEF WExit
<1>5. ASSUME NEW w \in Workers, WTake(w) PROVE DrainSignalPending'
  BY <1>5 DEF WTake
<1>6. ASSUME NEW w \in Workers, WRun(w) PROVE DrainSignalPending'
  BY <1>6, ZenonT(60) DEF WRun
<1>7. ASSUME NEW w \in Workers, WDec(w) PROVE DrainSignalPending'
  BY <1>7 DEF WDec
<1>8. ASSUME NEW w \in Workers, WEndLock(w) PROVE DrainSignalPending'
  BY <1>8 DEF WEndLock
<1>9. ASSUME NEW w \in Workers, WEndNotify(w) PROVE DrainSignalPending'
  BY <1>9 DEF WEndNotify, EndWaiters
<1>10. ASSUME NEW w \in Workers, WSpurious(w) PROVE DrainSignalPending'
  BY <1>10 DEF WSpurious
<1>11. ASSUME NEW s \in Submitters, NEW t \in Tasks, SCall(s, t) PROVE DrainSignalPending'
  BY <1>11 DEF SCall
<1>12. ASSUME NEW s \in Submitters, SCheck(s) PROVE DrainSignalPending'
  BY <1>12 DEF SCheck
<1>13. ASSUME NEW s \in Submitters, SLock(s) PROVE DrainSignalPending'
  BY <1>13 DEF SLock
<1>14. ASSUME NEW s \in Submitters, SEmplace(s) PROVE DrainSignalPending'
  BY <1>14 DEF SEmplace
<1>15. ASSUME NEW s \in Submitters, SCount(s) PROVE DrainSignalPending'
  BY <1>15, <1>n DEF SCount
<1>16. ASSUME NEW s \in Submitters, SNotify(s) PROVE DrainSignalPending'
  BY <1>16 DEF SNotify, CvWaiters
<1>17. ASSUME NEW d \in Drainers, ECall(d) PROVE DrainSignalPending'
  BY <1>17 DEF ECall
<1>18. ASSUME NEW d \in Drainers, ELock(d) PROVE DrainSignalPending'
  BY <1>18 DEF ELock
<1>19. ASSUME NEW d \in Drainers, EReturn(d) PROVE DrainSignalPending'
  BY <1>19 DEF EReturn
<1>20. ASSUME NEW d \in Drainers, ESleep(d) PROVE DrainSignalPending'
  BY <1>20 DEF ESleep
<1>21. ASSUME NEW d \in Drainers, EBlock(d) PROVE DrainSignalPending'
  BY <1>21 DEF EBlock
<1>22. ASSUME NEW d \in Drainers, ESpurious(d) PROVE DrainSignalPending'
  BY <1>22 DEF ESpurious
<1>23. ASSUME DCall PROVE DrainSignalPending'
  BY <1>23 DEF DCall
<1>24. ASSUME DLock PROVE DrainSignalPending'
  BY <1>24 DEF DLock
<1>25. ASSUME DStore PROVE DrainSignalPending'
  BY <1>25 DEF DStore
<1>26. ASSUME DNotify PROVE DrainSignalPending'
  BY <1>26, ZenonT(60) DEF DNotify
<1>27. ASSUME DJoin PROVE DrainSignalPending'
  BY <1>27 DEF DJoin
<1>28. ASSUME UNCHANGED vars PROVE DrainSignalPending'
  BY <1>28 DEF vars
<1> QED
  BY <1>1, <1>2, <1>3, <1>4, <1>5, <1>6, <1>7, <1>8, <1>9, <1>10, <1>11, <1>12,
     <1>13, <1>14, <1>15, <1>16, <1>17, <1>18, <1>19, <1>20, <1>21, <1>22, <1>23, <1>24,
     <1>25, <1>26, <1>27, <1>28
     DEF Next, WStep, SStep, EStep, DStep, Terminated

\* With a single thread in stop(), taking end_mtx before notify_one
\* (threadpool.h:42-43) is enough: the notification is still to come whenever
\* that thread sleeps, or is about to, and the count is 0.
THEOREM NoLostDrainSignal ==
  (\A d, e \in Drainers : d = e) => (Spec => []DrainSignalPending)
<1> SUFFICES ASSUME \A d, e \in Drainers : d = e PROVE Spec => []DrainSignalPending
  OBVIOUS
<1>1. IInv /\ DrainSignalPending /\ [Next]_vars => DrainSignalPending'
  BY SignalNext
<1> QED
  BY <1>1, SignalInit, IInvariant, PTL DEF Spec

-----------------------------------------------------------------------------
(* Every callable is executed at most once                                 *)

Busy == WorkerAt({"run", "dec"})
Bearers == SubmitterAt({"check", "lock", "emplace"})

\* A callable is in one place only: on its way into the queue, in the queue, or
\* with the worker that took it; it was executed exactly when that worker is
\* past the call.
OnceInv ==
    /\ \A i, j \in 1..Len(task_queue) : task_queue[i] = task_queue[j] => i = j
    /\ \A i \in 1..Len(task_queue), w \in Busy : task_queue[i] # task[w]
    /\ \A w, v \in Busy : task[w] = task[v] => w = v
    /\ \A s \in Bearers : /\ \A i \in 1..Len(task_queue) : task_queue[i] # arg[s]
                          /\ \A w \in Busy : task[w] # arg[s]
                          /\ \A r \in Bearers : arg[r] = arg[s] => r = s
                          /\ runs[arg[s]] = 0
    /\ \A i \in 1..Len(task_queue) : runs[task_queue[i]] = 0
    /\ \A w \in Busy : runs[task[w]] = IF wpc[w] = "run" THEN 0 ELSE 1
    /\ \A t \in Tasks : runs[t] <= 1

\* Nothing has been submitted when the pool is constructed.
LEMMA OnceInit == Init => OnceInv
BY DEF Init, OnceInv, Busy, Bearers, WorkerAt, SubmitterAt

\* Every step moves a callable from one place to the next.
LEMMA OnceNext == TypeInv /\ OnceInv /\ [Next]_vars => OnceInv'
<1> SUFFICES ASSUME TypeInv, OnceInv, [Next]_vars PROVE OnceInv'
  OBVIOUS
<1> USE DEF TypeInv, TypeOK, HandOK, OnceInv, Busy, Bearers, WorkerAt, SubmitterAt
<1>1. ASSUME NEW w \in Workers,
             WLock(w) \/ WSleep(w) \/ WBlock(w) \/ WExit(w) \/ WEndLock(w) \/ WSpurious(w)
      PROVE OnceInv'
  BY <1>1 DEF WLock, WSleep, WBlock, WExit, WEndLock, WSpurious
<1>2. ASSUME NEW w \in Workers, WEndNotify(w) PROVE OnceInv'
  BY <1>2 DEF WEndNotify
<1>3. ASSUME NEW w \in Workers, WTake(w) PROVE OnceInv'
  <2>1. /\ wpc[w] = "check" /\ wpc' = [wpc EXCEPT ![w] = "run"]
        /\ task' = [task EXCEPT ![w] = task_queue[1]]
        /\ UNCHANGED <<spc, arg, runs>>
    BY <1>3 DEF WTake
  <2>2. /\ task_queue # <<>> /\ Len(task_queue) \in Nat \ {0}
        /\ Len(task_queue') = Len(task_queue) - 1
        /\ \A i \in 1..Len(task_queue') : task_queue'[i] = task_queue[i + 1]
    BY <1>3 DEF WTake
  <2>3. /\ 1 \in 1..Len(task_queue)
        /\ \A i \in 1..Len(task_queue') : i + 1 \in 1..Len(task_queue) /\ i + 1 # 1
    BY <2>2
  <2>4. task'[w] = task_queue[1] /\ \A v \in Workers : v # w => task'[v] = task[v]
    BY <2>1
  <2>5. wpc'[w] = "run" /\ \A v \in Workers : v # w => wpc'[v] = wpc[v]
    BY <2>1
  <2>a. \A i, j \in 1..Len(task_queue') : task_queue'[i] = task_queue'[j] => i = j
    <3> SUFFICES ASSUME NEW i \in 1..Len(task_queue'), NEW j \in 1..Len(task_queue'),
                        task_queue'[i] = task_queue'[j]
                 PROVE i = j
      OBVIOUS
    <3>1. i + 1 = j + 1
      BY <2>2, <2>3, SMTT(40)
    <3> QED
      BY <3>1
  <2>b. \A i \in 1..Len(task_queue'), v \in Busy' : task_queue'[i] # task'[v]
    BY <2>2, <2>3, <2>4, <2>5
  <2>c. \A u, v \in Busy' : task'[u] = task'[v] => u = v
    BY <2>3, <2>4, <2>5
  <2>d. Bearers' = Bearers /\ arg' = arg /\ runs' = runs
    BY <2>1
  <2>e. \A s \in Bearers : /\ \A i \in 1..Len(task_queue') : task_queue'[i] # arg[s]
                           /\ \A v \in Busy' : task'[v] # arg[s]
    BY <2>2, <2>3, <2>4, <2>5
  <2>f. \A i \in 1..Len(task_queue') : runs[task_queue'[i]] = 0
    BY <2>2, <2>3
  <2>g. \A v \in Busy' : runs[task'[v]] = IF wpc'[v] = "run" THEN 0 ELSE 1
    BY <2>3, <2>4, <2>5
  <2> QED
    BY <2>a, <2>b, <2>c, <2>d, <2>e, <2>f, <2>g
<1>4. ASSUME NEW w \in Workers, WRun(w) PROVE OnceInv'
  <2>1. /\ wpc[w] = "run" /\ wpc' = [wpc EXCEPT ![w] = "dec"] /\ task[w] \in Tasks
        /\ runs' = [runs EXCEPT ![task[w]] = @ + 1]
        /\ UNCHANGED <<task_queue, task, spc, arg>>
    BY <1>4 DEF WRun
  <2>2. runs'[task[w]] = 1 /\ \A t \in Tasks : t # task[w] => runs'[t] = runs[t]
    BY <2>1
  <2>3. Busy' = Busy /\ Bearers' = Bearers /\ w \in Busy
    BY <2>1
  <2>4. \A i \in 1..Len(task_queue) : task_queue[i] \in Tasks /\ task_queue[i] # task[w]
    BY <2>3
  <2>5. \A s \in Bearers : arg[s] \in Tasks /\ arg[s] # task[w]
    BY <2>3
  <2>6. \A v \in Busy : task[v] \in Tasks /\ (v # w => task[v] # task[w])
    BY <2>3
  <2>a. \A i \in 1..Len(task_queue) : runs'[task_queue[i]] = 0
    BY <2>2, <2>4
  <2>b. \A s \in Bearers : runs'[arg[s]] = 0
    BY <2>2, <2>5
  <2>c. \A v \in Busy : runs'[task[v]] = IF wpc'[v] = "run" THEN 0 ELSE 1
    <3> SUFFICES ASSUME NEW v \in Busy
                 PROVE runs'[task[v]] = IF wpc'[v] = "run" THEN 0 ELSE 1
      OBVIOUS
    <3>1. CASE v = w
      BY <3>1, <2>1, <2>2
    <3>2. CASE v # w
      <4>1. wpc'[v] = wpc[v] /\ runs'[task[v]] = runs[task[v]]
        BY <3>2, <2>1, <2>2, <2>6
      <4> QED
        BY <4>1
    <3> QED
      BY <3>1, <3>2
  <2>d. \A t \in Tasks : runs'[t] <= 1
    BY <2>2
  <2> QED
    BY <2>1, <2>3, <2>a, <2>b, <2>c, <2>d
<1>5. ASSUME NEW w \in Workers, WDec(w) PROVE OnceInv'
  <2>1. /\ wpc[w] = "dec" /\ wpc'[w] \notin {"run", "dec"}
        /\ UNCHANGED <<task_queue, spc, arg, runs>>
        /\ \A v \in Workers : v # w => wpc'[v] = wpc[v] /\ task'[v] = task[v]
    BY <1>5 DEF WDec
  <2>2. /\ \A v \in Busy' : v \in Busy /\ task'[v] = task[v] /\ wpc'[v] = wpc[v]
        /\ Bearers' = Bearers
    BY <2>1
  <2> QED
    BY <2>1, <2>2
<1>6. ASSUME NEW s \in Submitters, NEW t \in Tasks, SCall(s, t) PROVE OnceInv'
  <2>1. /\ spc[s] = "idle" /\ spc'[s] = "check" /\ arg'[s] = t /\ runs[t] = 0
        /\ UNCHANGED <<task_queue, wpc, task, runs>>
        /\ \A r \in Submitters : r # s => spc'[r] = spc[r] /\ arg'[r] = arg[r]
    BY <1>6 DEF SCall
  <2>2. /\ \A i \in 1..Len(task_queue) : task_queue[i] # t
        /\ \A r \in Bearers : arg[r] # t
    BY <1>6 DEF SCall, Queued, Handed
  <2>3. \A w \in Busy : task[w] # t
    <3> SUFFICES ASSUME NEW w \in Busy, task[w] = t PROVE FALSE
      OBVIOUS
    <3>1. wpc[w] = "run"
      BY <2>1
    <3> QED
      BY <1>6, <3>1 DEF SCall, Held
  <2>4. /\ \A r \in Bearers' : r # s => r \in Bearers
        /\ Busy' = Busy
    BY <2>1
  <2>5. \A r \in Bearers' : r # s => /\ arg'[r] = arg[r] /\ arg'[r] # t
    BY <2>1, <2>2, <2>4
  <2>a. \A r \in Bearers' : /\ \A i \in 1..Len(task_queue) : task_queue[i] # arg'[r]
                            /\ \A w \in Busy : task[w] # arg'[r]
                            /\ runs[arg'[r]] = 0
    BY <2>1, <2>2, <2>3, <2>4, <2>5
  <2>b. \A q, r \in Bearers' : arg'[r] = arg'[q] => r = q
    BY <2>1, <2>4, <2>5
  <2> QED
    BY <2>1, <2>4, <2>a, <2>b
<1>7. ASSUME NEW s \in Submitters, SCheck(s) PROVE OnceInv'
  <2>1. /\ UNCHANGED <<task_queue, wpc, task, runs>>
        /\ Bearers' \subseteq Bearers
        /\ \A r \in Bearers' : arg'[r] = arg[r]
    BY <1>7 DEF SCheck
  <2> QED
    BY <2>1
<1>8. ASSUME NEW s \in Submitters, SLock(s) PROVE OnceInv'
  BY <1>8 DEF SLock
<1>9. ASSUME NEW s \in Submitters, SEmplace(s) PROVE OnceInv'
  <2>1. /\ s \in Bearers /\ arg[s] \in Tasks
        /\ task_queue' = Append(task_queue, arg[s])
        /\ UNCHANGED <<wpc, task, runs>>
        /\ spc'[s] = "count"
        /\ \A r \in Submitters : r # s => spc'[r] = spc[r] /\ arg'[r] = arg[r]
    BY <1>9 DEF SEmplace
  <2>2. PICK n \in Nat : n = Len(task_queue)
    OBVIOUS
  <2>3. /\ Len(task_queue') = n + 1 /\ task_queue'[n + 1] = arg[s]
        /\ \A i \in 1..n : task_queue'[i] = task_queue[i]
    BY <2>1, <2>2
  <2>4. \A i \in 1..(n + 1) : i = n + 1 \/ i \in 1..n
    BY <2>2
  <2>5. Busy' = Busy /\ \A r \in Bearers' : r \in Bearers /\ r # s /\ arg'[r] = arg[r]
    BY <2>1
  <2>a. \A i, j \in 1..(n + 1) : task_queue'[i] = task_queue'[j] => i = j
    BY <2>1, <2>2, <2>3, <2>4
  <2>b. \A i \in 1..(n + 1) : /\ \A w \in Busy : task_queue'[i] # task[w]
                              /\ \A r \in Bearers' : task_queue'[i] # arg'[r]
                              /\ runs[task_queue'[i]] = 0
    BY <2>1, <2>2, <2>3, <2>4, <2>5
  <2>c. \A r \in Bearers' : /\ \A w \in Busy : task[w] # arg'[r]
                            /\ \A q \in Bearers' : arg'[q] = arg'[r] => q = r
                            /\ runs[arg'[r]] = 0
    BY <2>5
  <2> QED
    BY <2>1, <2>3, <2>5, <2>a, <2>b, <2>c
<1>10. ASSUME NEW s \in Submitters, SCount(s) PROVE OnceInv'
  BY <1>10 DEF SCount
<1>11. ASSUME NEW s \in Submitters, SNotify(s) PROVE OnceInv'
  BY <1>11 DEF SNotify, CvWaiters
<1>12. ASSUME NEW d \in Drainers, EStep(d) \/ ECall(d) \/ ESpurious(d) PROVE OnceInv'
  BY <1>12 DEF EStep, ECall, ELock, EReturn, ESleep, EBlock, ESpurious
<1>13. ASSUME DCall \/ DLock \/ DStore \/ DJoin PROVE OnceInv'
  BY <1>13 DEF DCall, DLock, DStore, DJoin
<1>14. ASSUME DNotify PROVE OnceInv'
  BY <1>14 DEF DNotify
<1>15. ASSUME UNCHANGED vars PROVE OnceInv'
  BY <1>15 DEF vars
<1> QED
  BY <1>1, <1>2, <1>3, <1>4, <1>5, <1>6, <1>7, <1>8, <1>9, <1>10, <1>11, <1>12,
     <1>13, <1>14, <1>15
     DEF Next, WStep, SStep, DStep, Terminated

\* No callable is executed twice: the worker that takes it pops it under the
\* mutex (threadpool.h:34-36).
THEOREM RunsOnce == Spec => [](\A t \in Tasks : runs[t] <= 1)
<1>1. OnceInv => \A t \in Tasks : runs[t] <= 1
  BY DEF OnceInv
<1> QED
  BY <1>1, TypeInvInit, TypeInvNext, OnceInit, OnceNext, PTL DEF Spec

-----------------------------------------------------------------------------
(* The pool implements TaskService                                         *)

RInv == IInv /\ OnceInv

\* The invariant the refinement needs holds of the pool.
LEMMA RInvariant == Spec => []RInv
<1>1. Init => RInv
  BY TypeInvInit, LockInvInit, StopInvInit, QueueInvInit, CountInit, OnceInit DEF IInv, RInv
<1>2. RInv /\ [Next]_vars => RInv'
  BY TypeInvNext, LockInvNext, StopInvNext, QueueInvNext, CountNext, OnceNext
     DEF IInv, RInv
<1> QED
  BY <1>1, <1>2, PTL DEF Spec

\* How much of the queue is counted: all of it, but for the last callable while
\* a submitter is between emplace and fetch_add.
LEMMA CountedLength ==
  ASSUME IInv
  PROVE  Len(task_queue) - Cardinality(SubmitterAt({"count"}))
           = IF \E s \in Submitters : spc[s] = "count"
             THEN Len(task_queue) - 1 ELSE Len(task_queue)
<1> USE DEF IInv, TypeInv, TypeOK
<1>1. CASE Counting = {}
  <2>1. Cardinality(Counting) = 0 /\ ~\E s \in Submitters : spc[s] = "count"
    BY <1>1, FS_EmptySet DEF Counting, SubmitterAt
  <2> QED
    BY <2>1 DEF Counting
<1>2. CASE Counting # {}
  <2>1. PICK s \in Counting : TRUE
    BY <1>2
  <2>2. Counting = {s} /\ spc[s] = "count" /\ s \in Submitters
    BY <2>1 DEF Counting, SubmitterAt, LockInv
  <2>3. Cardinality(Counting) = 1
    BY <2>2, FS_Singleton
  <2> QED
    BY <2>2, <2>3 DEF Counting
<1> QED
  BY <1>1, <1>2

\* Unfinished, read off the queue and the workers without counting.
UnfinishedFacts ==
    \A t \in Tasks :
      t \in Unfinished <=>
        \/ \E i \in 1..Len(task_queue) :
             /\ task_queue[i] = t
             /\ i = Len(task_queue) => \A s \in Submitters : spc[s] # "count"
        \/ \E w \in Busy : task[w] = t

\* The callables that are unfinished are those queued and counted, and those
\* a worker executes or has yet to count off.
LEMMA Unfinisheds == IInv => UnfinishedFacts
<1> SUFFICES ASSUME IInv, NEW t \in Tasks
             PROVE  t \in Unfinished <=>
                      \/ \E i \in 1..Len(task_queue) :
                           /\ task_queue[i] = t
                           /\ i = Len(task_queue) => \A s \in Submitters : spc[s] # "count"
                      \/ \E w \in Busy : task[w] = t
  BY DEF UnfinishedFacts
<1>1. Len(task_queue) \in Nat
  BY DEF IInv, TypeInv, TypeOK
<1>2. t \in Counted <=>
        \E i \in 1..Len(task_queue) :
          /\ task_queue[i] = t
          /\ i = Len(task_queue) => \A s \in Submitters : spc[s] # "count"
  <2>1. CASE \E s \in Submitters : spc[s] = "count"
    <3>1. t \in Counted <=> \E i \in 1..(Len(task_queue) - 1) : task_queue[i] = t
      BY <2>1, CountedLength DEF Counted
    <3> QED
      BY <1>1, <2>1, <3>1
  <2>2. CASE ~\E s \in Submitters : spc[s] = "count"
    <3>1. t \in Counted <=> \E i \in 1..Len(task_queue) : task_queue[i] = t
      BY <2>2, CountedLength DEF Counted
    <3> QED
      BY <1>1, <2>2, <3>1
  <2> QED
    BY <2>1, <2>2
<1> QED
  BY <1>2 DEF Unfinished, Busy

\* The same after a step.
LEMMA UnfinishedsNext == ASSUME RInv, RInv' PROVE UnfinishedFacts /\ UnfinishedFacts'
<1>1. IInv /\ IInv'
  BY DEF RInv
<1>2. UnfinishedFacts
  BY <1>1, Unfinisheds
<1>3. UnfinishedFacts'
  BY <1>1, Unfinisheds, PTL
<1> QED
  BY <1>2, <1>3

\* A step after which the same callables are unfinished, and no other was
\* executed, leaves every status alone.
LEMMA StatusKept ==
  ASSUME \A t \in Tasks : /\ t \in Unfinished' <=> t \in Unfinished
                          /\ t \notin Unfinished => runs'[t] = runs[t]
  PROVE  Status' = Status
BY DEF Status

\* A step that moves one callable moves one status.
LEMMA StatusMoves ==
  ASSUME NEW t \in Tasks, NEW new, Status'[t] = new, UNCHANGED runs,
         \A u \in Tasks : u # t => (u \in Unfinished' <=> u \in Unfinished)
  PROVE  Status' = [Status EXCEPT ![t] = new]
<1>1. \A u \in Tasks : u # t => Status'[u] = Status[u]
  BY DEF Status
<1>2. Status' = [u \in Tasks |-> Status'[u]]
  BY DEF Status
<1>3. Status = [u \in Tasks |-> Status[u]]
  BY DEF Status
<1> HIDE DEF Status
<1> QED
  BY <1>1, <1>2, <1>3

\* A step that touches neither the queue nor who executes what keeps it too.
LEMMA StatusUntouched ==
  ASSUME RInv, RInv', UNCHANGED <<task_queue, runs>>, Busy' = Busy,
         \A w \in Busy : task'[w] = task[w],
         \A s \in Submitters : spc'[s] = "count" <=> spc[s] = "count"
  PROVE  Status' = Status
<1>1. \A t \in Tasks : t \in Unfinished' <=> t \in Unfinished
  BY UnfinishedsNext DEF UnfinishedFacts
<1> QED
  BY <1>1, StatusKept

\* What a submitter counts is accepted.
LEMMA CountAccepts ==
  ASSUME RInv, RInv', ~LateSubmit, NEW s \in Submitters, SCount(s)
  PROVE  \E t \in Tasks : Service!Accept(t)
<1> USE DEF RInv, IInv, TypeInv, TypeOK
<1>1. PICK n \in Nat : n = Len(task_queue)
  OBVIOUS
<1>2. /\ spc[s] = "count" /\ task_queue # <<>> /\ n \in 1..n
      /\ UNCHANGED <<task_queue, runs, task, wpc, epc, dpc>>
      /\ \A r \in Submitters : spc'[r] # "count"
  BY <1>1, RolesAssumption DEF SCount, QueueInv, LockInv
<1>3. PICK t \in Tasks : t = task_queue[n]
  BY <1>1, <1>2
<1>4. Busy' = Busy /\ \A w \in Busy : task'[w] = task[w] /\ task[w] # t
  BY <1>1, <1>2, <1>3 DEF OnceInv, Busy, WorkerAt
<1>5. /\ t \notin Unfinished /\ runs[t] = 0 /\ t \in Unfinished'
      /\ \A u \in Tasks : u # t => (u \in Unfinished' <=> u \in Unfinished)
  <2>1. \A i \in 1..n : task_queue[i] = t => i = n
    BY <1>1, <1>2, <1>3 DEF OnceInv
  <2>2. \A u \in Tasks : u \in Unfinished <=>
          (\E i \in 1..n : task_queue[i] = u /\ i # n) \/ \E w \in Busy : task[w] = u
    BY <1>1, <1>2, UnfinishedsNext DEF UnfinishedFacts
  <2>3. \A u \in Tasks : u \in Unfinished' <=>
          (\E i \in 1..n : task_queue[i] = u) \/ \E w \in Busy : task[w] = u
    BY <1>1, <1>2, <1>4, UnfinishedsNext DEF UnfinishedFacts
  <2>4. t \notin Unfinished
    BY <1>4, <2>1, <2>2
  <2>5. t \in Unfinished'
    BY <1>2, <1>3, <2>3
  <2>6. runs[t] = 0
    BY <1>1, <1>2, <1>3 DEF OnceInv
  <2>7. \A u \in Tasks : u # t => (u \in Unfinished' <=> u \in Unfinished)
    BY <1>3, <2>2, <2>3
  <2> QED
    BY <2>4, <2>5, <2>6, <2>7
<1>6. Status[t] = "new" /\ Status' = [Status EXCEPT ![t] = "pending"]
  <2>1. Status[t] = "new" /\ Status'[t] = "pending"
    BY <1>5 DEF Status
  <2> QED
    BY <1>2, <1>5, <2>1, StatusMoves
<1>7. Waiting' = Waiting /\ Phase' = Phase /\ Phase # "closed"
  BY <1>2, RolesAssumption DEF Waiting, Phase, QueueInv
<1> QED
  BY <1>6, <1>7 DEF Service!Accept

\* What a worker counts off is finished.
LEMMA DecFinishes ==
  ASSUME RInv, RInv', NEW w \in Workers, WDec(w)
  PROVE  \E t \in Tasks : Service!Finish(t)
<1> USE DEF RInv, IInv, TypeInv, TypeOK, Busy, WorkerAt
<1>1. /\ wpc[w] = "dec" /\ wpc'[w] \notin {"run", "dec"}
      /\ UNCHANGED <<task_queue, spc, epc, dpc, runs>>
      /\ \A v \in Workers : v # w => wpc'[v] = wpc[v] /\ task'[v] = task[v]
  BY DEF WDec
<1>2. PICK t \in Tasks : t = task[w] /\ runs[t] = 1
  BY <1>1 DEF HandOK, OnceInv
<1>3. /\ \A i \in 1..Len(task_queue) : task_queue[i] # t
      /\ \A v \in Busy : v # w => task[v] # t
      /\ \A v \in Busy' : v \in Busy /\ v # w /\ task'[v] = task[v]
  BY <1>1, <1>2 DEF OnceInv
<1>4. /\ t \in Unfinished /\ t \notin Unfinished'
      /\ \A u \in Tasks : u # t => (u \in Unfinished' <=> u \in Unfinished)
  <2>1. \A u \in Tasks : u \in Unfinished <=>
          (\E i \in 1..Len(task_queue) :
             /\ task_queue[i] = u
             /\ i = Len(task_queue) => \A s \in Submitters : spc[s] # "count")
          \/ \E v \in Busy : task[v] = u
    BY UnfinishedsNext DEF UnfinishedFacts
  <2>2. \A u \in Tasks : u \in Unfinished' <=>
          (\E i \in 1..Len(task_queue) :
             /\ task_queue[i] = u
             /\ i = Len(task_queue) => \A s \in Submitters : spc[s] # "count")
          \/ \E v \in Busy : v # w /\ task[v] = u
    <3>1. \A u : (\E v \in Busy' : task'[v] = u) <=> \E v \in Busy : v # w /\ task[v] = u
      BY <1>1, <1>3
    <3>2. \A u \in Tasks : u \in Unfinished' <=>
          (\E i \in 1..Len(task_queue') :
             /\ task_queue'[i] = u
             /\ i = Len(task_queue') => \A s \in Submitters : spc'[s] # "count")
          \/ \E v \in Busy' : task'[v] = u
      BY UnfinishedsNext DEF UnfinishedFacts
    <3> HIDE DEF RInv, Busy
    <3> QED
      BY <1>1, <3>1, <3>2
  <2>3. t \in Unfinished
    BY <1>1, <1>2, <2>1
  <2>4. t \notin Unfinished'
    BY <1>3, <2>2
  <2>5. \A u \in Tasks : u # t => (u \in Unfinished' <=> u \in Unfinished)
    BY <1>2, <2>1, <2>2
  <2> QED
    BY <2>3, <2>4, <2>5
<1>5. Status[t] = "pending" /\ Status' = [Status EXCEPT ![t] = "done"]
  <2>1. Status[t] = "pending" /\ Status'[t] = "done"
    BY <1>1, <1>2, <1>4 DEF Status
  <2> QED
    BY <1>1, <1>4, <2>1, StatusMoves
<1>6. Waiting' = Waiting /\ Phase' = Phase
  BY <1>1 DEF Waiting, Phase
<1> QED
  BY <1>5, <1>6 DEF Service!Finish

\* Between its pop and its fetch_sub a worker carries what it took.
LEMMA TakeKeeps ==
  ASSUME RInv, RInv', NEW w \in Workers, WTake(w)
  PROVE  Status' = Status
<1> USE DEF RInv, IInv, TypeInv, TypeOK, Busy, WorkerAt
<1>1. /\ wpc[w] = "check" /\ wpc'[w] = "run" /\ task'[w] = task_queue[1]
      /\ UNCHANGED <<spc, runs>>
      /\ \A v \in Workers : v # w => wpc'[v] = wpc[v] /\ task'[v] = task[v]
  BY DEF WTake
<1>2. PICK n \in Nat : n = Len(task_queue)
  OBVIOUS
<1>3. /\ n > 0 /\ Len(task_queue') = n - 1
      /\ \A i \in 1..(n - 1) : task_queue'[i] = task_queue[i + 1]
  BY <1>2 DEF WTake
<1>4. \A s \in Submitters : spc[s] # "count"
  BY <1>1, RolesAssumption DEF LockInv
<1>5. w \notin Busy /\ w \in Busy' /\ \A v \in Workers : v # w => (v \in Busy' <=> v \in Busy)
  BY <1>1
<1>6. \A t \in Tasks : t \in Unfinished <=>
        (\E i \in 1..n : task_queue[i] = t) \/ \E v \in Busy : task[v] = t
  BY <1>2, <1>4, UnfinishedsNext DEF UnfinishedFacts
<1>7. \A t \in Tasks : t \in Unfinished' <=>
        (\E i \in 1..(n - 1) : task_queue[i + 1] = t)
          \/ (\E v \in Busy : task[v] = t) \/ task_queue[1] = t
  <2>1. \A u : (\E v \in Busy' : task'[v] = u)
                 <=> (\E v \in Busy : task[v] = u) \/ task_queue[1] = u
    BY <1>1, <1>5
  <2>2. \A u : (\E i \in 1..(n - 1) : task_queue'[i] = u)
                 <=> \E i \in 1..(n - 1) : task_queue[i + 1] = u
    BY <1>3
  <2>3. \A u \in Tasks : u \in Unfinished' <=>
          (\E i \in 1..(n - 1) : task_queue'[i] = u) \/ \E v \in Busy' : task'[v] = u
    <3>1. \A u \in Tasks : u \in Unfinished' <=>
          (\E i \in 1..Len(task_queue') :
             /\ task_queue'[i] = u
             /\ i = Len(task_queue') => \A s \in Submitters : spc'[s] # "count")
          \/ \E v \in Busy' : task'[v] = u
      BY UnfinishedsNext DEF UnfinishedFacts
    <3>2. \A s \in Submitters : spc'[s] # "count"
      BY <1>1, <1>4
    <3> HIDE DEF RInv, Busy
    <3> QED
      BY <1>3, <3>1, <3>2
  <2> QED
    BY <2>1, <2>2, <2>3
<1>8. \A t \in Tasks :
        (\E i \in 1..n : task_queue[i] = t)
          <=> (\E i \in 1..(n - 1) : task_queue[i + 1] = t) \/ task_queue[1] = t
  <2>1. ASSUME NEW t \in Tasks, NEW i \in 1..n, task_queue[i] = t, i # 1
        PROVE  \E j \in 1..(n - 1) : task_queue[j + 1] = t
    <3>1. i - 1 \in 1..(n - 1) /\ (i - 1) + 1 = i
      BY <1>2, <1>3, <2>1
    <3> QED
      BY <2>1, <3>1
  <2>2. ASSUME NEW t \in Tasks, NEW i \in 1..(n - 1), task_queue[i + 1] = t
        PROVE  \E j \in 1..n : task_queue[j] = t
    <3>1. i + 1 \in 1..n
      BY <1>2, <1>3
    <3> QED
      BY <2>2, <3>1
  <2>3. 1 \in 1..n
    BY <1>2, <1>3
  <2> QED
    BY <2>1, <2>2, <2>3
<1> QED
  BY <1>1, <1>6, <1>7, <1>8, StatusKept

\* A callable that is executed was unfinished and stays so.
LEMMA RunKeeps ==
  ASSUME RInv, RInv', NEW w \in Workers, WRun(w)
  PROVE  Status' = Status
<1> USE DEF RInv, IInv, TypeInv, TypeOK, Busy, WorkerAt
<1>1. /\ wpc[w] = "run" /\ task[w] \in Tasks /\ UNCHANGED <<task_queue, task, spc>>
      /\ \A t \in Tasks : t # task[w] => runs'[t] = runs[t]
      /\ Busy' = Busy
  BY DEF WRun, HandOK
<1>2. task[w] \in Unfinished
  <2>1. UnfinishedFacts
    BY UnfinishedsNext
  <2> QED
    BY <1>1, <2>1 DEF UnfinishedFacts
<1>3. \A t \in Tasks : t \in Unfinished' <=> t \in Unfinished
  <2>1. UnfinishedFacts /\ UnfinishedFacts'
    BY UnfinishedsNext
  <2> HIDE DEF RInv, Busy
  <2> QED
    BY <1>1, <2>1 DEF UnfinishedFacts
<1> QED
  BY <1>1, <1>2, <1>3, StatusKept

\* A callable that is queued is new until it is counted.
LEMMA EmplaceKeeps ==
  ASSUME RInv, RInv', NEW s \in Submitters, SEmplace(s)
  PROVE  Status' = Status
<1> USE DEF RInv, IInv, TypeInv, TypeOK, Busy, WorkerAt
<1>1. PICK n \in Nat : n = Len(task_queue)
  OBVIOUS
<1>2. /\ spc[s] = "emplace" /\ spc'[s] = "count" /\ UNCHANGED <<wpc, task, runs>>
      /\ Len(task_queue') = n + 1
      /\ \A i \in 1..n : task_queue'[i] = task_queue[i]
  BY <1>1 DEF SEmplace
<1>3. \A r \in Submitters : spc[r] # "count"
  BY <1>2, RolesAssumption DEF LockInv
<1>4. \A t \in Tasks : t \in Unfinished <=>
        (\E i \in 1..n : task_queue[i] = t) \/ \E v \in Busy : task[v] = t
  BY <1>1, <1>3, UnfinishedsNext DEF UnfinishedFacts
<1>5. \A t \in Tasks : t \in Unfinished' <=>
        (\E i \in 1..(n + 1) : task_queue'[i] = t /\ i # n + 1) \/ \E v \in Busy : task[v] = t
  BY <1>2, UnfinishedsNext DEF UnfinishedFacts
<1>6. \A t \in Tasks :
        (\E i \in 1..(n + 1) : task_queue'[i] = t /\ i # n + 1)
          <=> \E i \in 1..n : task_queue[i] = t
  <2>1. \A i : i \in 1..(n + 1) /\ i # n + 1 <=> i \in 1..n
    BY <1>1
  <2> QED
    BY <1>2, <2>1
<1> QED
  BY <1>2, <1>4, <1>5, <1>6, StatusKept

\* Nothing is pending once nothing is executed and nothing counted is queued.
LEMMA DryMeansNonePending ==
  ASSUME RInv, Busy = {}, Len(task_queue) = Cardinality(SubmitterAt({"count"}))
  PROVE  Service!Pending = {}
<1>1. Unfinished = {}
  BY DEF Unfinished, Counted, Busy, RInv, IInv, TypeInv, TypeOK
<1> QED
  BY <1>1 DEF Service!Pending, Status

\* Every step of the pool is a step of the service, or none its users can see.
LEMMA StepImplements ==
  ASSUME RInv, RInv', ~LateSubmit, [Next]_vars
  PROVE  [Service!Next]_(Service!svars)
<1> DEFINE Stays == Status' = Status /\ Waiting' = Waiting /\ Phase' = Phase
<1>s. Stays => UNCHANGED Service!svars
  BY DEF Service!svars
<1> HIDE DEF Stays
<1>t. TypeInv
  BY DEF RInv, IInv
<1>1. ASSUME NEW w \in Workers,
             WLock(w) \/ WSleep(w) \/ WBlock(w) \/ WExit(w) \/ WEndLock(w) \/ WSpurious(w)
      PROVE Stays
  <2>1. /\ UNCHANGED <<task_queue, runs, task, spc, epc, dpc>> /\ Busy' = Busy
    BY <1>t, <1>1 DEF WLock, WSleep, WBlock, WExit, WEndLock, WSpurious, Busy, WorkerAt,
       TypeInv, TypeOK
  <2> QED
    BY <2>1, StatusUntouched DEF Stays, Waiting, Phase
<1>2. ASSUME NEW w \in Workers, WEndNotify(w) PROVE Stays
  <2>1. /\ UNCHANGED <<task_queue, runs, task, spc, dpc>> /\ Busy' = Busy
        /\ \A d \in Drainers : epc'[d] # "idle" <=> epc[d] # "idle"
    BY <1>t, <1>2 DEF WEndNotify, EndWaiters, Busy, WorkerAt, TypeInv, TypeOK
  <2> QED
    BY <2>1, StatusUntouched DEF Stays, Waiting, Phase
<1>3. ASSUME NEW w \in Workers, WTake(w) PROVE Stays
  BY <1>3, TakeKeeps DEF WTake, Stays, Waiting, Phase
<1>4. ASSUME NEW w \in Workers, WRun(w) PROVE Stays
  BY <1>4, RunKeeps DEF WRun, Stays, Waiting, Phase
<1>5. ASSUME NEW w \in Workers, WDec(w) PROVE Service!Next
  BY <1>5, DecFinishes DEF Service!Next
<1>6. ASSUME NEW s \in Submitters, NEW t \in Tasks, SCall(s, t) PROVE Stays
  <2>1. /\ UNCHANGED <<task_queue, runs, wpc, task, epc, dpc>>
        /\ \A r \in Submitters : spc'[r] = "count" <=> spc[r] = "count"
    BY <1>t, <1>6 DEF SCall, TypeInv, TypeOK
  <2> QED
    BY <2>1, StatusUntouched DEF Stays, Waiting, Phase, Busy, WorkerAt
<1>7. ASSUME NEW s \in Submitters, SCheck(s) \/ SLock(s) PROVE Stays
  <2>1. /\ UNCHANGED <<task_queue, runs, wpc, task, epc, dpc>>
        /\ \A r \in Submitters : spc'[r] = "count" <=> spc[r] = "count"
    BY <1>t, <1>7 DEF SCheck, SLock, TypeInv, TypeOK
  <2> QED
    BY <2>1, StatusUntouched DEF Stays, Waiting, Phase, Busy, WorkerAt
<1>8. ASSUME NEW s \in Submitters, SEmplace(s) PROVE Stays
  BY <1>8, EmplaceKeeps DEF SEmplace, Stays, Waiting, Phase
<1>9. ASSUME NEW s \in Submitters, SCount(s) PROVE Service!Next
  BY <1>9, CountAccepts DEF Service!Next
<1>10. ASSUME NEW s \in Submitters, SNotify(s) PROVE Stays
  <2>1. /\ UNCHANGED <<task_queue, runs, task, epc, dpc>>
        /\ \A r \in Submitters : spc'[r] = "count" <=> spc[r] = "count"
        /\ Busy' = Busy
    BY <1>t, <1>10 DEF SNotify, CvWaiters, TypeInv, TypeOK, Busy, WorkerAt
  <2> QED
    BY <2>1, StatusUntouched DEF Stays, Waiting, Phase
<1>11. ASSUME NEW d \in Drainers, ECall(d) PROVE Service!Next
  <2>1. /\ UNCHANGED <<task_queue, runs, wpc, task, spc, dpc>> /\ dpc = "alive"
        /\ epc[d] = "idle" /\ epc' = [epc EXCEPT ![d] = "lock"]
    BY <1>11 DEF ECall
  <2>2. d \notin Waiting /\ Waiting' = Waiting \cup {d}
    BY <1>t, <2>1 DEF Waiting, TypeInv, TypeOK
  <2>3. Status' = Status
    BY <2>1, StatusUntouched DEF Busy, WorkerAt
  <2>4. Phase = "open" /\ Phase' = Phase
    BY <2>1 DEF Phase
  <2> QED
    BY <2>2, <2>3, <2>4 DEF Service!Next, Service!StartWait
<1>12. ASSUME NEW d \in Drainers, ELock(d) \/ ESleep(d) \/ EBlock(d) \/ ESpurious(d)
       PROVE Stays
  <2>1. /\ UNCHANGED <<task_queue, runs, wpc, task, spc, dpc>>
        /\ \A e \in Drainers : epc'[e] # "idle" <=> epc[e] # "idle"
    BY <1>t, <1>12 DEF ELock, ESleep, EBlock, ESpurious, TypeInv, TypeOK
  <2> QED
    BY <2>1, StatusUntouched DEF Stays, Waiting, Phase, Busy, WorkerAt
<1>13. ASSUME NEW d \in Drainers, EReturn(d) PROVE Service!Next
  <2>1. /\ UNCHANGED <<task_queue, runs, wpc, task, spc, dpc>> /\ task_count = 0
        /\ epc[d] = "check" /\ epc' = [epc EXCEPT ![d] = "idle"]
    BY <1>13 DEF EReturn
  <2>2. d \in Waiting /\ Waiting' = Waiting \ {d}
    BY <1>t, <2>1 DEF Waiting, TypeInv, TypeOK
  <2>3. Status' = Status
    BY <2>1, StatusUntouched DEF Busy, WorkerAt
  <2>4. Phase' = Phase
    BY <2>1 DEF Phase
  <2>5. Service!Pending = {}
    BY <2>1, ZeroMeansDry, DryMeansNonePending DEF RInv, Busy
  <2> QED
    BY <2>2, <2>3, <2>4, <2>5 DEF Service!Next, Service!EndWait
<1>14. ASSUME DCall PROVE Service!Next
  <2>1. /\ UNCHANGED <<task_queue, runs, wpc, task, spc, epc>>
        /\ dpc = "alive" /\ dpc' = "lock" /\ Waiting = {}
    BY <1>14 DEF DCall, Waiting
  <2>2. Status' = Status
    BY <2>1, StatusUntouched DEF Busy, WorkerAt
  <2> QED
    BY <2>1, <2>2 DEF Service!Next, Service!StartClose, Phase, Waiting
<1>15. ASSUME DLock \/ DStore PROVE Stays
  <2>1. /\ UNCHANGED <<task_queue, runs, wpc, task, spc, epc>>
        /\ dpc \in {"lock", "store"} /\ dpc' \in {"store", "notify"}
    BY <1>15 DEF DLock, DStore
  <2> QED
    BY <2>1, StatusUntouched DEF Stays, Waiting, Phase, Busy, WorkerAt
<1>16. ASSUME DNotify PROVE Stays
  <2>1. /\ UNCHANGED <<task_queue, runs, task, spc, epc>> /\ Busy' = Busy
        /\ dpc = "notify" /\ dpc' = "join"
    BY <1>t, <1>16 DEF DNotify, Busy, WorkerAt, TypeInv, TypeOK
  <2> QED
    BY <2>1, StatusUntouched DEF Stays, Waiting, Phase
<1>17. ASSUME DJoin PROVE Service!Next
  <2>1. /\ UNCHANGED <<task_queue, runs, wpc, task, spc, epc>>
        /\ dpc = "join" /\ dpc' = "gone" /\ \A w \in Workers : wpc[w] = "exited"
    BY <1>17 DEF DJoin
  <2>2. Status' = Status /\ Waiting' = Waiting
    BY <2>1, StatusUntouched DEF Busy, WorkerAt, Waiting
  <2>3. Phase = "closing" /\ Phase' = "closed"
    BY <2>1 DEF Phase
  <2>4. task_queue = <<>> /\ \A s \in Submitters : spc[s] = "idle"
    BY <2>1, RolesAssumption DEF RInv, IInv, QueueInv
  <2>5. Busy = {} /\ SubmitterAt({"count"}) = {}
    BY <2>1, <2>4 DEF Busy, WorkerAt, SubmitterAt
  <2>6. Len(task_queue) = 0 /\ Cardinality(SubmitterAt({"count"})) = 0
    BY <2>4, <2>5, FS_EmptySet
  <2>7. Service!Pending = {}
    BY <2>5, <2>6, DryMeansNonePending
  <2> QED
    BY <2>2, <2>3, <2>7 DEF Service!Next, Service!Close
<1>18. ASSUME UNCHANGED vars PROVE Stays
  BY <1>18, StatusUntouched DEF vars, Stays, Waiting, Phase, Busy, WorkerAt
<1> QED
  BY <1>s, <1>1, <1>2, <1>3, <1>4, <1>5, <1>6, <1>7, <1>8, <1>9, <1>10, <1>11, <1>12,
     <1>13, <1>14, <1>15, <1>16, <1>17, <1>18
     DEF Next, WStep, SStep, EStep, DStep, Terminated

\* When every submit has returned before ~ThreadPool starts, the users of the
\* pool cannot tell it from TaskService: what is counted is finished once, a
\* wait on end_cv ends and the destructor returns only when nothing is pending.
THEOREM KeepsPromises == ~LateSubmit => (Spec => Service!Spec)
<1> SUFFICES ASSUME ~LateSubmit PROVE Spec => Service!Spec
  OBVIOUS
<1>1. Init => Service!Init
  <2> SUFFICES ASSUME Init PROVE Service!Init
    OBVIOUS
  <2>1. Unfinished = {}
    <3>1. SubmitterAt({"count"}) = {} /\ WorkerAt({"run", "dec"}) = {}
      BY DEF Init, SubmitterAt, WorkerAt
    <3>2. Cardinality(SubmitterAt({"count"})) = 0 /\ Len(task_queue) = 0
      BY <3>1, FS_EmptySet DEF Init
    <3> QED
      BY <3>1, <3>2 DEF Unfinished, Counted
  <2> QED
    BY <2>1 DEF Init, Service!Init, Status, Waiting, Phase
<1>2. RInv /\ RInv' /\ [Next]_vars => [Service!Next]_(Service!svars)
  BY StepImplements
<1> QED
  BY <1>1, <1>2, RInvariant, PTL DEF Spec, Service!Spec
=============================================================================

---------------------------- MODULE MCThreadPool ----------------------------
(* Instances of ThreadPool for TLC and its refinement of TaskService.       *)
EXTENDS ThreadPool

\* A callable is pending from fetch_add until fetch_sub.
Counted == {task_queue[i] :
              i \in 1..(Len(task_queue) - Cardinality(SubmitterAt({"count"})))}
Unfinished == Counted \cup {task[w] : w \in WorkerAt({"run", "dec"})}

Status == [t \in Tasks |-> IF t \in Unfinished THEN "pending"
                           ELSE IF runs[t] > 0 THEN "done" ELSE "new"]

Waiting == {d \in Drainers : epc[d] # "idle"}

Phase == CASE dpc = "alive" -> "open"
           [] dpc = "gone"  -> "closed"
           [] OTHER         -> "closing"

Service == INSTANCE TaskService WITH
    Callables <- Tasks,
    Waiters <- Drainers,
    status <- Status,
    waiting <- Waiting,
    phase <- Phase

\* The pool keeps the promises of TaskService, the eventual ones included:
\* accepted callables finish once, waits end only when nothing is pending,
\* and the destructor returns only when nothing is pending.
KeepsService == Service!FairSpec
=============================================================================

----------------------------- MODULE TaskService -----------------------------
(***************************************************************************)
(* What the users of the thread pool are promised, without queue, locks,   *)
(* condition variables or workers.  A callable handed to submit is either  *)
(* accepted or refused; it is refused only after the pool began to close;  *)
(* an accepted callable finishes, once; a wait for the pool to run dry     *)
(* ends at a moment when nothing is pending; the pool is closed only when  *)
(* nothing is pending.                                                     *)
(***************************************************************************)
CONSTANTS Callables, Waiters

VARIABLES
    status,    \* "new", "pending" or "done"
    waiting,   \* the threads waiting for the pool to run dry
    phase      \* "open", "closing" or "closed"

svars == <<status, waiting, phase>>

Pending == {t \in Callables : status[t] = "pending"}

Init ==
    /\ status = [t \in Callables |-> "new"]
    /\ waiting = {}
    /\ phase = "open"

Accept(t) ==
    /\ status[t] = "new"
    /\ phase # "closed"
    /\ status' = [status EXCEPT ![t] = "pending"]
    /\ UNCHANGED <<waiting, phase>>

Finish(t) ==
    /\ status[t] = "pending"
    /\ status' = [status EXCEPT ![t] = "done"]
    /\ UNCHANGED <<waiting, phase>>

StartWait(d) ==
    /\ d \notin waiting
    /\ phase = "open"
    /\ waiting' = waiting \cup {d}
    /\ UNCHANGED <<status, phase>>

EndWait(d) ==
    /\ d \in waiting
    /\ Pending = {}
    /\ waiting' = waiting \ {d}
    /\ UNCHANGED <<status, phase>>

StartClose ==
    /\ phase = "open"
    /\ waiting = {}
    /\ phase' = "closing"
    /\ UNCHANGED <<status, waiting>>

Close ==
    /\ phase = "closing"
    /\ Pending = {}
    /\ phase' = "closed"
    /\ UNCHANGED <<status, waiting>>

Next ==
    \/ \E t \in Callables : Accept(t) \/ Finish(t)
    \/ \E d \in Waiters : StartWait(d) \/ EndWait(d)
    \/ StartClose \/ Close

Spec == Init /\ [][Next]_svars

\* Everything that was begun is ended; nobody has to begin anything.
Fairness ==
    /\ \A t \in Callables : WF_svars(Finish(t))
    /\ \A d \in Waiters : WF_svars(EndWait(d))
    /\ WF_svars(Close)

FairSpec == Spec /\ Fairness
=============================================================================

------------------------------ MODULE Reactors ------------------------------
(***************************************************************************)
(* The three reactor programs side by side: program says which of them     *)
(* runs.  What they promise is in Reactor.                                 *)
(***************************************************************************)
EXTENDS MultiReactor

VARIABLES program      \* which of the executables runs

vars == <<reactorVars, next_reactor, program>>

Single == INSTANCE SingleReactor WITH TheLoop <- MainReactor
Server == INSTANCE ReactorServer WITH TheLoop <- MainReactor

InitAny ==
    \/ program = "multithread_reactor" /\ Init
    \/ program = "single_reactor" /\ Single!Init /\ next_reactor = 0
    \/ program = "reactor_server" /\ Server!Init /\ next_reactor = 0

Thread(l) ==
    /\ \/ program = "multithread_reactor" /\ Loop(l)
       \/ program = "single_reactor" /\ l = MainReactor /\ Single!loop /\ UNCHANGED next_reactor
       \/ program = "reactor_server" /\ l = MainReactor /\ Server!loop /\ UNCHANGED next_reactor
    /\ UNCHANGED program

Worker(w) == Pool(w) /\ UNCHANGED <<next_reactor, program>>

Next ==
    \/ \E l \in Loops : Thread(l)
    \/ \E w \in Workers : Worker(w)
    \/ Clients /\ UNCHANGED <<next_reactor, program>>

Spec == InitAny /\ [][Next]_vars

\* The threads of the loops and of the pool run.
FairSpec ==
    /\ Spec
    /\ \A l \in Loops : WF_vars(Thread(l))
    /\ \A w \in Workers : WF_vars(Worker(w))

-----------------------------------------------------------------------------
TypeOK ==
    /\ ReactorTypeOK
    /\ program \in {"multithread_reactor", "single_reactor", "reactor_server"}
    /\ next_reactor \in 0..IntValues - 1
=============================================================================

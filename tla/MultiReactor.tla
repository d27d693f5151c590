----------------------------- MODULE MultiReactor -----------------------------
(***************************************************************************)
(* multithread_reactor.cpp: the main reactor accepts and gives each        *)
(* connection to the next of the sub-reactors, each with a thread of its   *)
(* own.                                                                    *)
(***************************************************************************)
EXTENDS Reactor

CONSTANTS
    MainReactor,     \* __main_reactor
    SubReactors,     \* their number
    IntValues,       \* 2^w of the w-bit int in __next_reactor
    SizeValues       \* 2^w of size_t, to which it is converted

ASSUME MultiAssumption ==
    /\ SubReactors \in Nat \ {0}
    /\ IntValues \in Nat \ {0} /\ SizeValues \in Nat /\ IntValues < SizeValues
    /\ Loops = {MainReactor} \cup (0..SubReactors - 1)
    /\ MainReactor \notin 0..SubReactors - 1

VARIABLES
    next_reactor     \* __next_reactor, as the bits it is stored in

\* Earlier connections may have come and gone: next_reactor starts anywhere.
Init == ReactorInit(MainReactor) /\ next_reactor \in 0..IntValues - 1

\* The value of the int, and its conversion to the unsigned size_t.
SignedInt(bits) == IF 2 * bits < IntValues THEN bits ELSE bits - IntValues
ToSize(i) == IF i < 0 THEN i + SizeValues ELSE i

\* __next_reactor.fetch_add(1) % __sub_reactors.size()
NextIndex == ToSize(SignedInt(next_reactor)) % SubReactors

\* Mutant: the counter is read, not advanced.
HandleAccept_Loads ==
    /\ \/ Accept(MainReactor, NextIndex)
       \/ StartAccept(MainReactor) \/ AddChannel(MainReactor) \/ EndAccept(MainReactor)
    /\ UNCHANGED next_reactor

HandleAccept ==
    \/ /\ Accept(MainReactor, NextIndex)
       /\ next_reactor' = (next_reactor + 1) % IntValues
    \/ /\ StartAccept(MainReactor) \/ AddChannel(MainReactor) \/ EndAccept(MainReactor)
       /\ UNCHANGED next_reactor

\* The thread of one of the loops.
Loop(l) ==
    \/ l = MainReactor /\ HandleAccept
    \/ (EpollWait(l) \/ EndScan(l) \/ HandleRead(l)) /\ UNCHANGED next_reactor

\* Connections are dealt out in turn (multithread_reactor.cpp:106): no
\* sub-reactor gets two more than another, also when the counter wraps around.
Balanced ==
    \A l, k \in 0..(SubReactors - 1) :
      Cardinality({c \in Conns : owner[c] = l})
        <= Cardinality({c \in Conns : owner[c] = k}) + 1
=============================================================================

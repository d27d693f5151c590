------------------------------ MODULE Ownership ------------------------------
(***************************************************************************)
(* What owning pointers promise: an object lives exactly as long as a      *)
(* pointer holds it, is destroyed once, and some pointers share nothing.   *)
(***************************************************************************)
EXTENDS Naturals

CONSTANTS
    Handles,      \* the pointers
    Exclusive,    \* those that do not share
    Objects,
    None          \* no object

VARIABLES
    holds,        \* the object each pointer owns
    life          \* of each object: "unborn", "alive" or "dead"

vars == <<holds, life>>

Init ==
    /\ holds = [h \in Handles |-> None]
    /\ life = [o \in Objects |-> "unborn"]

Owners(o) == {h \in Handles : holds[h] = o}

\* h lets go of what it held and takes o, which is new or already owned.
Takes(h, o) ==
    /\ o = None \/ life[o] = "unborn"
         \/ (Owners(o) # {} /\ Owners(o) \cap Exclusive = {} /\ h \notin Exclusive)
    /\ holds' = [holds EXCEPT ![h] = o]

\* h lets go of what it held and takes over from g.
TakesOver(h, g) ==
    /\ h # g /\ (h \in Exclusive <=> g \in Exclusive)
    /\ holds' = [holds EXCEPT ![h] = holds[g], ![g] = None]

\* An object that nobody holds any more dies in the same step.
LivesWhileHeld ==
    life' = [o \in Objects |->
               IF Owners(o)' # {} THEN "alive"
               ELSE IF life[o] = "unborn" THEN "unborn" ELSE "dead"]

Next ==
    /\ \E h \in Handles :
         (\E o \in Objects \cup {None} : Takes(h, o)) \/ (\E g \in Handles : TakesOver(h, g))
    /\ LivesWhileHeld

Spec == Init /\ [][Next]_vars
=============================================================================

---------------------------- MODULE SmartPointers ----------------------------
(***************************************************************************)
(* unique_ptr and shared_ptr of smartpointer.hpp, used by a program that   *)
(* calls their operations in any order.                                    *)
(*                                                                         *)
(* mem is the memory they share: the pointers' members, the counters and   *)
(* what was deleted.  An operation of the source is a function from mem to *)
(* mem, so that release() can be followed by the rest of an assignment.    *)
(* The counter of a shared object is named by the object.  What the        *)
(* program would do after a counter was used that is freed, or something   *)
(* was deleted twice, is undefined: it stops there.                        *)
(***************************************************************************)
EXTENDS Integers, FiniteSets

CONSTANTS
    Unique, Shared,      \* the program's unique_ptr and shared_ptr variables
    Objects,             \* what it can allocate
    None,                \* nullptr
    ResetWhileShared     \* does it call reset() while others own the object too?

\* A program has finitely many variables.
ASSUME SmartAssumption ==
    /\ IsFiniteSet(Shared)
    /\ Unique \cap Shared = {} /\ None \notin Objects
    /\ ResetWhileShared \in BOOLEAN

VARIABLES
    scope,     \* the pointers that are constructed and not yet destructed
    mem        \* what the pointers and the counters hold, and what is deleted or freed

vars == <<scope, mem>>

Pointers == Unique \cup Shared

Init ==
    /\ scope = {}
    /\ mem = [ptr |-> [p \in Pointers |-> None],
              shared_count |-> [p \in Shared |-> None],
              count |-> [o \in Objects |-> 0],
              made |-> {},            \* objects allocated
              deleted |-> {},         \* objects deleted
              freed |-> {},           \* objects whose counter was deleted
              broken |-> FALSE]       \* something freed was used or deleted

New == Objects \ mem.made
Constructs(p) == p \notin scope /\ scope' = scope \cup {p}
Uses(p) == p \in scope /\ UNCHANGED scope
Destructs(p) == p \in scope /\ scope' = scope \ {p}

-----------------------------------------------------------------------------
(* Functions on the memory                                                 *)

\* delete m.ptr[p]; of a null pointer it does nothing.
Deleted(m, p) ==
    IF m.ptr[p] = None THEN m
    ELSE [m EXCEPT !.deleted = @ \cup {m.ptr[p]}, !.broken = @ \/ m.ptr[p] \in m.deleted]

\* p points to o, which is new or null.
Points(m, p, o) ==
    [m EXCEPT !.ptr[p] = o, !.made = IF o = None THEN @ ELSE @ \cup {o}]

\* The raw pointer is taken over and the source set to null.
Stolen(m, p, q) == [m EXCEPT !.ptr[p] = m.ptr[q], !.ptr[q] = None]

\* (*shared_count)-- and (*shared_count)++ of the counter of o.
Decremented(m, o) == [m EXCEPT !.count[o] = @ - 1, !.broken = @ \/ o \in m.freed]
Incremented(m, o) == [m EXCEPT !.count[o] = @ + 1, !.broken = @ \/ o \in m.freed]

\* release(): the last owner deletes the object and the counter and becomes
\* null; any other keeps both pointers.
release(m, p) ==
    LET o == m.shared_count[p]
        n == Decremented(m, o) IN
      IF o = None THEN m
      ELSE IF n.count[o] # 0 THEN n
      ELSE [Deleted(n, p) EXCEPT !.freed = @ \cup {o}, !.ptr[p] = None, !.shared_count[p] = None]

\* p becomes a copy of q and is counted.
Copied(m, p, q) ==
    LET o == m.shared_count[q]
        n == [m EXCEPT !.ptr[p] = m.ptr[q], !.shared_count[p] = o] IN
      IF o = None THEN n ELSE Incremented(n, o)

\* p takes both pointers of q, which becomes null.
Moved(m, p, q) ==
    [Stolen(m, p, q) EXCEPT !.shared_count[p] = m.shared_count[q], !.shared_count[q] = None]

\* A new counter, if there is something to count.
Adopts(m, p, o) ==
    IF o = None THEN Points([m EXCEPT !.shared_count[p] = None], p, o)
    ELSE [Points(m, p, o) EXCEPT !.shared_count[p] = o, !.count[o] = 1]

\* The variable is gone.
Cleared(m, p) ==
    IF p \in Shared THEN [m EXCEPT !.ptr[p] = None, !.shared_count[p] = None]
    ELSE [m EXCEPT !.ptr[p] = None]

-----------------------------------------------------------------------------
(* unique_ptr                                                              *)

\* The constructor, and make_unique.
ConstructUnique(u) ==
    \E o \in New \cup {None} : Constructs(u) /\ mem' = Points(mem, u, o)

MoveConstructUnique(u, v) == u # v /\ v \in scope /\ Constructs(u) /\ mem' = Stolen(mem, u, v)

\* Mutant: what the pointer held is not deleted.
MoveAssignUnique_Leaks(u, v) ==
    /\ Uses(u) /\ v \in scope
    /\ mem' = IF u = v THEN mem ELSE Stolen(mem, u, v)

MoveAssignUnique(u, v) ==
    /\ Uses(u) /\ v \in scope
    /\ mem' = IF u = v THEN mem ELSE Stolen(Deleted(mem, u), u, v)

ResetUnique(u) ==
    \E o \in New \cup {None} : Uses(u) /\ mem' = Points(Deleted(mem, u), u, o)

DestructUnique(u) == Destructs(u) /\ mem' = Cleared(Deleted(mem, u), u)

-----------------------------------------------------------------------------
(* shared_ptr                                                              *)

\* The constructor, and make_shared.
ConstructShared(s) ==
    \E o \in New \cup {None} : Constructs(s) /\ mem' = Adopts(mem, s, o)

\* Mutant: the copy is not counted.
CopyConstruct_Uncounted(s, t) ==
    /\ s # t /\ t \in scope /\ Constructs(s)
    /\ mem' = [mem EXCEPT !.ptr[s] = mem.ptr[t], !.shared_count[s] = mem.shared_count[t]]

CopyConstruct(s, t) == s # t /\ t \in scope /\ Constructs(s) /\ mem' = Copied(mem, s, t)

MoveConstruct(s, t) == s # t /\ t \in scope /\ Constructs(s) /\ mem' = Moved(mem, s, t)

CopyAssign(s, t) ==
    /\ Uses(s) /\ t \in scope
    /\ mem' = IF s = t THEN mem ELSE Copied(release(mem, s), s, t)

\* Mutant: what the pointer held is not released.
MoveAssign_NoRelease(s, t) ==
    /\ Uses(s) /\ t \in scope
    /\ mem' = IF s = t THEN mem ELSE Moved(mem, s, t)

MoveAssign(s, t) ==
    /\ Uses(s) /\ t \in scope
    /\ mem' = IF s = t THEN mem ELSE Moved(release(mem, s), s, t)

\* reset() is release(): a pointer that is not the last owner keeps pointing to
\* the object, and will be counted out once more.
reset(s) ==
    /\ Uses(s)
    /\ mem.shared_count[s] # None /\ mem.count[mem.shared_count[s]] > 1 => ResetWhileShared
    /\ mem' = release(mem, s)

DestructShared(s) == Destructs(s) /\ mem' = Cleared(release(mem, s), s)

-----------------------------------------------------------------------------
Next ==
    /\ ~mem.broken
    /\ \/ \E u \in Unique : ConstructUnique(u) \/ ResetUnique(u) \/ DestructUnique(u)
       \/ \E u, v \in Unique : MoveConstructUnique(u, v) \/ MoveAssignUnique(u, v)
       \/ \E s \in Shared : ConstructShared(s) \/ reset(s) \/ DestructShared(s)
       \/ \E s, t \in Shared :
            CopyConstruct(s, t) \/ MoveConstruct(s, t) \/ CopyAssign(s, t) \/ MoveAssign(s, t)

Spec == Init /\ [][Next]_vars

-----------------------------------------------------------------------------
(* Properties                                                              *)

\* get_count(): the counter of an object is the number of shared_ptrs that point
\* to it, after any sequence of copies, moves and assignments.
CountsOwners ==
    \A s \in Shared :
      LET o == mem.shared_count[s] IN
        o # None =>
          /\ o = mem.ptr[s] /\ o \notin mem.freed
          /\ mem.count[o] = Cardinality({t \in Shared : mem.ptr[t] = o})

\* No pointer in scope points to an object that was deleted, and nothing is
\* deleted, and no counter freed, twice (smartpointer.hpp:51).
NoDangling == ~mem.broken /\ \A p \in scope : mem.ptr[p] \notin mem.deleted

\* The pointers implement ownership: an object lives exactly as long as one of
\* them holds it, so nothing leaks, and a unique_ptr shares with nobody.
Owns == INSTANCE Ownership WITH
          Handles <- Pointers, Exclusive <- Unique,
          holds <- mem.ptr,
          life <- [o \in Objects |-> IF o \notin mem.made THEN "unborn"
                                     ELSE IF o \in mem.deleted THEN "dead" ELSE "alive"]
KeepsOwnership == Owns!Spec
=============================================================================

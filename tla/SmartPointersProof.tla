-------------------------- MODULE SmartPointersProof --------------------------
(***************************************************************************)
(* Proofs about SmartPointers: for any set of unique_ptrs, any finite set  *)
(* of shared_ptrs and any objects, a program that does not call reset()    *)
(* on a pointer whose object has other owners keeps the counters right,    *)
(* never touches a deleted object, and implements Ownership.               *)
(*                                                                         *)
(* The source assigns in two halves: it lets go of what the left side      *)
(* owned, then takes over from the right side.  In between the left side   *)
(* may still hold a pointer it does not own any more.  Sound(m, L) says    *)
(* that memory m is right but for the loose pointers L; one lemma per      *)
(* function on the memory says what it does to the loose pointer, and an   *)
(* operation is sound because its halves fit together.                     *)
(***************************************************************************)
EXTENDS SmartPointers, TLAPS, FiniteSetTheorems

-----------------------------------------------------------------------------
(* Sound memories                                                          *)

Memories ==
    [ptr : [Pointers -> Objects \cup {None}],
     shared_count : [Shared -> Objects \cup {None}],
     count : [Objects -> Int],
     made : SUBSET Objects, deleted : SUBSET Objects, freed : SUBSET Objects,
     broken : BOOLEAN]

\* f changed at one argument.
With(f, p, x) == [f EXCEPT ![p] = x]

Sharers(m, L, o) == {t \in Shared \ L : m.ptr[t] = o}

\* What was deleted was made, and a counter is freed with its object.
DeletedOnce(m) == ~m.broken /\ m.freed \subseteq m.deleted /\ m.deleted \subseteq m.made

\* A pointer points to nothing or to a live object, and every live object has
\* a pointer that owns it.
HoldsLive(m, L) ==
    /\ \A p \in Pointers \ L : m.ptr[p] # None => m.ptr[p] \in m.made \ m.deleted
    /\ \A o \in m.made \ m.deleted : \E p \in Pointers \ L : m.ptr[p] = o

\* What a unique_ptr owns no other pointer owns.
NotShared(m, L) ==
    \A u \in Unique \ L, p \in Pointers \ L :
      m.ptr[u] = m.ptr[p] /\ m.ptr[u] # None => p = u

\* A shared_ptr has the counter of its object, which counts the owners.
Counted(m, L) ==
    \A s \in Shared \ L :
      /\ m.shared_count[s] = m.ptr[s]
      /\ m.ptr[s] # None => m.count[m.ptr[s]] = Cardinality(Sharers(m, L, m.ptr[s]))

Sound(m, L) ==
    m \in Memories /\ DeletedOnce(m) /\ HoldsLive(m, L) /\ NotShared(m, L) /\ Counted(m, L)

\* A pointer that is not constructed holds nothing.
OutOfScopeIsNull == \A p \in Pointers \ scope : mem.ptr[p] = None

Inv == scope \subseteq Pointers /\ Sound(mem, {}) /\ OutOfScopeIsNull

-----------------------------------------------------------------------------
(* Counting owners                                                         *)

\* Only finitely many pointers share an object.
LEMMA SharersFinite ==
  ASSUME NEW m, NEW L, NEW o
  PROVE  /\ IsFiniteSet(Sharers(m, L, o))
         /\ Cardinality(Sharers(m, L, o)) \in Nat
<1>1. IsFiniteSet(Sharers(m, L, o))
  BY SmartAssumption, FS_Subset, Sharers(m, L, o) \subseteq Shared DEF Sharers
<1> QED
  BY <1>1, FS_CardinalityType

\* An object whose last sharer lets go has no other.
LEMMA LastSharer ==
  ASSUME NEW m, NEW s \in Shared, NEW o, m.ptr[s] = o
  PROVE  Cardinality(Sharers(m, {s}, o)) = Cardinality(Sharers(m, {}, o)) - 1
<1>1. Sharers(m, {s}, o) = Sharers(m, {}, o) \ {s} /\ s \in Sharers(m, {}, o)
  BY DEF Sharers
<1> QED
  BY <1>1, SharersFinite, FS_RemoveElement, ZenonT(60)

-----------------------------------------------------------------------------
(* Memories stay memories                                                  *)

\* A memory with one field replaced is a memory.
LEMMA MemoryFields ==
  ASSUME NEW m \in Memories
  PROVE  /\ \A f \in [Pointers -> Objects \cup {None}] : [m EXCEPT !.ptr = f] \in Memories
         /\ \A f \in [Shared -> Objects \cup {None}] : [m EXCEPT !.shared_count = f] \in Memories
         /\ \A f \in [Objects -> Int] : [m EXCEPT !.count = f] \in Memories
         /\ \A S \in SUBSET Objects : [m EXCEPT !.made = S] \in Memories
         /\ \A S \in SUBSET Objects : [m EXCEPT !.deleted = S] \in Memories
         /\ \A S \in SUBSET Objects : [m EXCEPT !.freed = S] \in Memories
         /\ \A b \in BOOLEAN : [m EXCEPT !.broken = b] \in Memories
  BY DEF Memories

\* Counting out changes the counter only, if it was not freed.
LEMMA DecrementedFields ==
  ASSUME NEW m \in Memories, NEW o \in Objects \ m.freed
  PROVE  LET n == Decremented(m, o) IN
           /\ n \in Memories
           /\ n.ptr = m.ptr /\ n.shared_count = m.shared_count
           /\ n.count = [m.count EXCEPT ![o] = m.count[o] - 1]
           /\ n.made = m.made /\ n.deleted = m.deleted /\ n.freed = m.freed
           /\ n.broken = m.broken
<1> DEFINE n == Decremented(m, o)
           counted == [m EXCEPT !.count = [m.count EXCEPT ![o] = m.count[o] - 1]]
<1>1. /\ n.ptr = m.ptr /\ n.shared_count = m.shared_count
      /\ n.count = [m.count EXCEPT ![o] = m.count[o] - 1]
      /\ n.made = m.made /\ n.deleted = m.deleted /\ n.freed = m.freed
  BY DEF Decremented, Memories
<1>2. n.broken = (m.broken \/ o \in m.freed) /\ m.broken \in BOOLEAN
  BY DEF Decremented, Memories
<1>3. counted \in Memories
  <2>1. [m.count EXCEPT ![o] = m.count[o] - 1] \in [Objects -> Int]
    BY DEF Memories
  <2> QED
    BY <2>1, MemoryFields
<1>4. n = [counted EXCEPT !.broken = m.broken \/ o \in m.freed]
  BY DEF Decremented
<1> HIDE DEF counted
<1>5. n \in Memories
  BY <1>2, <1>3, <1>4, MemoryFields
<1> QED
  BY <1>1, <1>2, <1>5

\* What incrementing the count changes.
LEMMA IncrementedFields ==
  ASSUME NEW m \in Memories, NEW o \in Objects \ m.freed
  PROVE  LET n == Incremented(m, o) IN
           /\ n \in Memories
           /\ n.ptr = m.ptr /\ n.shared_count = m.shared_count
           /\ n.count = With(m.count, o, m.count[o] + 1)
           /\ n.made = m.made /\ n.deleted = m.deleted /\ n.freed = m.freed
           /\ n.broken = m.broken
<1> DEFINE n == Incremented(m, o)
           counted == [m EXCEPT !.count = [m.count EXCEPT ![o] = m.count[o] + 1]]
<1>1. /\ n.ptr = m.ptr /\ n.shared_count = m.shared_count
      /\ n.count = With(m.count, o, m.count[o] + 1)
      /\ n.made = m.made /\ n.deleted = m.deleted /\ n.freed = m.freed
  BY DEF Incremented, Memories, With
<1>2. n.broken = (m.broken \/ o \in m.freed) /\ m.broken \in BOOLEAN
  BY DEF Incremented, Memories
<1>3. counted \in Memories
  <2>1. [m.count EXCEPT ![o] = m.count[o] + 1] \in [Objects -> Int]
    BY DEF Memories
  <2> QED
    BY <2>1, MemoryFields
<1>4. n = [counted EXCEPT !.broken = m.broken \/ o \in m.freed]
  BY DEF Incremented
<1> HIDE DEF counted
<1>5. n \in Memories
  BY <1>2, <1>3, <1>4, MemoryFields
<1> QED
  BY <1>1, <1>2, <1>5

\* delete of an object that is alive, and the counter and both pointers after it.
LEMMA DeletedFields ==
  ASSUME NEW m \in Memories, NEW p \in Pointers, m.ptr[p] # None, m.ptr[p] \notin m.deleted
  PROVE  LET n == Deleted(m, p) IN
           /\ n \in Memories
           /\ n.ptr = m.ptr /\ n.shared_count = m.shared_count /\ n.count = m.count
           /\ n.made = m.made /\ n.freed = m.freed
           /\ n.deleted = m.deleted \cup {m.ptr[p]} /\ n.broken = m.broken
<1> DEFINE n == Deleted(m, p)
           gone == [m EXCEPT !.deleted = m.deleted \cup {m.ptr[p]}]
<1>1. /\ n.ptr = m.ptr /\ n.shared_count = m.shared_count /\ n.count = m.count
      /\ n.made = m.made /\ n.freed = m.freed
      /\ n.deleted = m.deleted \cup {m.ptr[p]}
  BY DEF Deleted, Memories
<1>2. n.broken = (m.broken \/ m.ptr[p] \in m.deleted) /\ m.broken \in BOOLEAN
  BY DEF Deleted, Memories
<1>3. gone \in Memories
  <2>1. m.deleted \cup {m.ptr[p]} \in SUBSET Objects
    BY DEF Memories
  <2> QED
    BY <2>1, MemoryFields
<1>4. n = [gone EXCEPT !.broken = m.broken \/ m.ptr[p] \in m.deleted]
  BY DEF Deleted
<1> HIDE DEF gone
<1>5. n \in Memories
  BY <1>2, <1>3, <1>4, MemoryFields
<1> QED
  BY <1>1, <1>2, <1>5

\* The last owner frees the counter of o and is made null.
Freed(m, s, o) == [m EXCEPT !.freed = @ \cup {o}, !.ptr[s] = None, !.shared_count[s] = None]

\* What release changes when the last owner lets go.
LEMMA FreedFields ==
  ASSUME NEW m \in Memories, NEW s \in Shared, NEW o \in Objects
  PROVE  LET n == Freed(m, s, o) IN
           /\ n \in Memories
           /\ n.ptr = [m.ptr EXCEPT ![s] = None]
           /\ n.shared_count = [m.shared_count EXCEPT ![s] = None]
           /\ n.count = m.count
           /\ n.made = m.made /\ n.freed = m.freed \cup {o}
           /\ n.deleted = m.deleted /\ n.broken = m.broken
<1> DEFINE n == Freed(m, s, o)
           a == [m EXCEPT !.freed = m.freed \cup {o}]
           b == [a EXCEPT !.ptr = [a.ptr EXCEPT ![s] = None]]
<1>1. /\ n.ptr = [m.ptr EXCEPT ![s] = None]
      /\ n.shared_count = [m.shared_count EXCEPT ![s] = None]
      /\ n.count = m.count /\ n.made = m.made /\ n.freed = m.freed \cup {o}
      /\ n.deleted = m.deleted /\ n.broken = m.broken
  BY DEF Freed, Memories
<1>2. a \in Memories
  <2>1. m.freed \cup {o} \in SUBSET Objects
    BY DEF Memories
  <2> QED
    BY <2>1, MemoryFields
<1> HIDE DEF a
<1>3. b \in Memories
  <2>1. [a.ptr EXCEPT ![s] = None] \in [Pointers -> Objects \cup {None}]
    BY <1>2 DEF Memories
  <2> QED
    BY <1>2, <2>1, MemoryFields
<1>4. n = [b EXCEPT !.shared_count = [b.shared_count EXCEPT ![s] = None]]
  BY DEF Freed, a
<1> HIDE DEF b
<1>5. n \in Memories
  <2>1. [b.shared_count EXCEPT ![s] = None] \in [Shared -> Objects \cup {None}]
    BY <1>3 DEF Memories
  <2> QED
    BY <1>3, <1>4, <2>1, MemoryFields
<1> QED
  BY <1>1, <1>5

\* What setting __ptr changes.
LEMMA PointsFields ==
  ASSUME NEW m \in Memories, NEW p \in Pointers, NEW o \in Objects \cup {None}
  PROVE  /\ Points(m, p, o) \in Memories
         /\ Points(m, p, o).ptr = With(m.ptr, p, o)
         /\ Points(m, p, o).shared_count = m.shared_count
         /\ Points(m, p, o).count = m.count
         /\ Points(m, p, o).made = IF o = None THEN m.made ELSE m.made \cup {o}
         /\ Points(m, p, o).freed = m.freed
         /\ Points(m, p, o).deleted = m.deleted
         /\ Points(m, p, o).broken = m.broken
<1> DEFINE n == Points(m, p, o)
           a == [m EXCEPT !.ptr = [m.ptr EXCEPT ![p] = o]]
           S == IF o = None THEN m.made ELSE m.made \cup {o}
<1>1. /\ n.ptr = With(m.ptr, p, o) /\ n.made = S
      /\ n.shared_count = m.shared_count /\ n.count = m.count /\ n.freed = m.freed
      /\ n.deleted = m.deleted /\ n.broken = m.broken
  BY DEF Points, Memories, With
<1>2. a \in Memories /\ a.made = m.made
  <2>1. [m.ptr EXCEPT ![p] = o] \in [Pointers -> Objects \cup {None}]
    BY DEF Memories
  <2> QED
    BY <2>1, MemoryFields, ZenonT(60) DEF Memories
<1>3. S \in SUBSET Objects
  BY DEF Memories
<1>4. n = [a EXCEPT !.made = S]
  BY <1>2 DEF Points
<1> HIDE DEF a, S
<1>5. n \in Memories
  BY <1>2, <1>3, <1>4, MemoryFields
<1> QED
  BY <1>1, <1>5 DEF S

\* Both pointers of s are set.
Paired(m, s, x, y) == [m EXCEPT !.ptr[s] = x, !.shared_count[s] = y]

\* What setting __ptr and __shared_count changes.
LEMMA PairedFields ==
  ASSUME NEW m \in Memories, NEW s \in Shared,
         NEW x \in Objects \cup {None}, NEW y \in Objects \cup {None}
  PROVE  /\ Paired(m, s, x, y) \in Memories
         /\ Paired(m, s, x, y).ptr = With(m.ptr, s, x)
         /\ Paired(m, s, x, y).shared_count = With(m.shared_count, s, y)
         /\ Paired(m, s, x, y).count = m.count
         /\ Paired(m, s, x, y).made = m.made
         /\ Paired(m, s, x, y).freed = m.freed
         /\ Paired(m, s, x, y).deleted = m.deleted
         /\ Paired(m, s, x, y).broken = m.broken
<1> DEFINE n == Paired(m, s, x, y)
           a == [m EXCEPT !.ptr = [m.ptr EXCEPT ![s] = x]]
<1>1. /\ n.ptr = With(m.ptr, s, x) /\ n.shared_count = With(m.shared_count, s, y)
      /\ n.count = m.count /\ n.made = m.made /\ n.freed = m.freed
      /\ n.deleted = m.deleted /\ n.broken = m.broken
  BY DEF Paired, Memories, With
<1>2. a \in Memories
  <2>1. [m.ptr EXCEPT ![s] = x] \in [Pointers -> Objects \cup {None}]
    BY DEF Memories
  <2> QED
    BY <2>1, MemoryFields
<1>3. n = [a EXCEPT !.shared_count = [a.shared_count EXCEPT ![s] = y]]
  BY DEF Paired
<1> HIDE DEF a
<1>4. n \in Memories
  <2>1. [a.shared_count EXCEPT ![s] = y] \in [Shared -> Objects \cup {None}]
    BY <1>2 DEF Memories
  <2> QED
    BY <1>2, <1>3, <2>1, MemoryFields
<1> QED
  BY <1>1, <1>4

-----------------------------------------------------------------------------
(* What each function on the memory does to the loose pointer              *)

\* A pointer that holds nothing may be taken for loose, and back.
LEMMA NullIsLoose ==
  ASSUME NEW m, NEW p \in Pointers, m.ptr[p] = None
  PROVE  Sound(m, {}) => Sound(m, {p})
<1> SUFFICES ASSUME Sound(m, {}) PROVE Sound(m, {p})
  OBVIOUS
<1> USE DEF Sound
<1>1. HoldsLive(m, {p})
  BY SmartAssumption DEF HoldsLive, Memories
<1>2. NotShared(m, {p})
  BY DEF NotShared
<1>3. Counted(m, {p})
  <2> SUFFICES ASSUME NEW s \in Shared \ {p}, m.ptr[s] # None
               PROVE  m.count[m.ptr[s]] = Cardinality(Sharers(m, {p}, m.ptr[s]))
    BY DEF Counted
  <2>1. Sharers(m, {p}, m.ptr[s]) = Sharers(m, {}, m.ptr[s])
    BY DEF Sharers
  <2> QED
    BY <2>1 DEF Counted
<1> QED
  BY <1>1, <1>2, <1>3

\* A pointer that is null owns nothing, so it need not be excepted.
LEMMA LooseIsNull ==
  ASSUME NEW m, NEW p \in Pointers, m.ptr[p] = None,
         p \in Shared => m.shared_count[p] = None
  PROVE  Sound(m, {p}) => Sound(m, {})
<1> SUFFICES ASSUME Sound(m, {p}) PROVE Sound(m, {})
  OBVIOUS
<1> USE DEF Sound
<1>1. HoldsLive(m, {})
  BY SmartAssumption DEF HoldsLive, Memories
<1>2. NotShared(m, {})
  BY DEF NotShared
<1>3. Counted(m, {})
  <2> SUFFICES ASSUME NEW s \in Shared, m.ptr[s] # None
               PROVE  m.shared_count[s] = m.ptr[s]
                      /\ m.count[m.ptr[s]] = Cardinality(Sharers(m, {}, m.ptr[s]))
    BY DEF Counted
  <2>1. Sharers(m, {p}, m.ptr[s]) = Sharers(m, {}, m.ptr[s])
    BY DEF Sharers
  <2> QED
    BY <2>1 DEF Counted
<1> QED
  BY <1>1, <1>2, <1>3

\* delete: the object dies with the pointer that owned it alone.
LEMMA DeletedSound ==
  ASSUME NEW m, NEW u \in Unique, Sound(m, {})
  PROVE  /\ Sound(Deleted(m, u), {u})
         /\ Deleted(m, u).ptr = m.ptr /\ Deleted(m, u).made = m.made
<1>1. CASE m.ptr[u] = None
  BY <1>1, NullIsLoose DEF Deleted, Pointers
<1>2. CASE m.ptr[u] # None
  <2> DEFINE o == m.ptr[u]
             n == Deleted(m, u)
  <2>1. m \in Memories /\ u \in Pointers /\ u \notin Shared /\ o \in m.made \ m.deleted
    BY <1>2, SmartAssumption DEF Sound, HoldsLive, Pointers
  <2>2. /\ n \in Memories
        /\ n.ptr = m.ptr /\ n.shared_count = m.shared_count /\ n.count = m.count
        /\ n.made = m.made /\ n.freed = m.freed
        /\ n.deleted = m.deleted \cup {o} /\ n.broken = m.broken
    BY <1>2, <2>1, DeletedFields
  <2> HIDE DEF n
  <2>3. DeletedOnce(n)
    BY <2>1, <2>2 DEF Sound, DeletedOnce
  <2>4. \A p \in Pointers \ {u} : m.ptr[p] # o
    BY <1>2, <2>1 DEF Sound, NotShared
  <2>5. HoldsLive(n, {u})
    BY <2>1, <2>2, <2>4 DEF Sound, HoldsLive
  <2>6. NotShared(n, {u})
    BY <2>2 DEF Sound, NotShared
  <2>7. Counted(n, {u})
    <3>1. \A x : Sharers(n, {u}, x) = Sharers(m, {}, x)
      BY <2>1, <2>2 DEF Sharers
    <3> QED
      BY <2>1, <2>2, <3>1 DEF Sound, Counted
  <2> QED
    BY <2>2, <2>3, <2>5, <2>6, <2>7 DEF n, Sound
<1> QED
  BY <1>1, <1>2

\* A loose unique_ptr takes a new object, or none.
LEMMA PointsSound ==
  ASSUME NEW m, NEW u \in Unique, Sound(m, {u}),
         NEW o \in (Objects \ m.made) \cup {None}
  PROVE  /\ Sound(Points(m, u, o), {})
         /\ Points(m, u, o).ptr = With(m.ptr, u, o)
         /\ Points(m, u, o).made = IF o = None THEN m.made ELSE m.made \cup {o}
<1> DEFINE n == Points(m, u, o)
<1>1. m \in Memories /\ u \in Pointers /\ u \notin Shared
  BY SmartAssumption DEF Sound, Pointers
<1>2. /\ n \in Memories
      /\ n.ptr = With(m.ptr, u, o)
      /\ n.shared_count = m.shared_count /\ n.count = m.count
      /\ n.made = IF o = None THEN m.made ELSE m.made \cup {o}
      /\ n.freed = m.freed /\ n.deleted = m.deleted /\ n.broken = m.broken
  BY <1>1, PointsFields
<1> HIDE DEF n
<1>3. n.ptr[u] = o /\ \A p \in Pointers \ {u} : n.ptr[p] = m.ptr[p]
  BY <1>1, <1>2 DEF Memories, With
<1>4. DeletedOnce(n)
  BY <1>2 DEF Sound, DeletedOnce
<1>5. HoldsLive(n, {})
  BY <1>1, <1>2, <1>3, SmartAssumption DEF Sound, HoldsLive, DeletedOnce
<1>6. NotShared(n, {})
  BY <1>1, <1>2, <1>3, SmartAssumption DEF Sound, NotShared, HoldsLive, DeletedOnce, Pointers
<1>7. Counted(n, {})
  <2>1. \A x : Sharers(n, {}, x) = Sharers(m, {u}, x)
    BY <1>1, <1>3 DEF Sharers, Pointers
  <2> QED
    BY <1>1, <1>2, <1>3, <2>1 DEF Sound, Counted, Pointers
<1> QED
  BY <1>2, <1>4, <1>5, <1>6, <1>7 DEF n, Sound, With

\* A loose unique_ptr takes over from another one.
LEMMA StolenSound ==
  ASSUME NEW m, NEW u \in Unique, NEW v \in Unique \ {u}, Sound(m, {u})
  PROVE  /\ Sound(Stolen(m, u, v), {})
         /\ Stolen(m, u, v).ptr = With(With(m.ptr, u, m.ptr[v]), v, None)
         /\ Stolen(m, u, v).made = m.made
<1> DEFINE n == Stolen(m, u, v)
<1>1. m \in Memories /\ {u, v} \subseteq Pointers /\ u \notin Shared /\ v \notin Shared
  BY SmartAssumption DEF Sound, Pointers
<1>2. /\ n \in Memories
      /\ n.ptr = [m.ptr EXCEPT ![u] = m.ptr[v], ![v] = None]
      /\ n.shared_count = m.shared_count /\ n.count = m.count
      /\ n.made = m.made
      /\ n.freed = m.freed /\ n.deleted = m.deleted /\ n.broken = m.broken
  BY <1>1 DEF Stolen, Memories
<1> HIDE DEF n
<1>3. /\ n.ptr[u] = m.ptr[v] /\ n.ptr[v] = None
      /\ \A p \in Pointers \ {u, v} : n.ptr[p] = m.ptr[p]
  BY <1>1, <1>2 DEF Memories
<1>4. DeletedOnce(n)
  BY <1>2 DEF Sound, DeletedOnce
<1>5. HoldsLive(n, {})
  BY <1>1, <1>2, <1>3, SmartAssumption DEF Sound, HoldsLive, Memories
<1>6. NotShared(n, {})
  BY <1>1, <1>3 DEF Sound, NotShared, Pointers
<1>7. Counted(n, {})
  <2>1. \A x : Sharers(n, {}, x) = Sharers(m, {u}, x)
    BY <1>1, <1>3 DEF Sharers, Pointers
  <2> QED
    BY <1>1, <1>2, <1>3, <2>1 DEF Sound, Counted, Pointers
<1> QED
  BY <1>2, <1>4, <1>5, <1>6, <1>7 DEF n, Sound, With

\* release(): the pointer stops being an owner.  Only the last owner is made
\* null; any other is loose afterwards.
LEMMA ReleaseSound ==
  ASSUME NEW m, NEW s \in Shared, Sound(m, {})
  PROVE  /\ Sound(release(m, s), {s})
         /\ release(m, s).made = m.made
         /\ \/ release(m, s) = m /\ m.ptr[s] = None
            \/ /\ m.shared_count[s] # None /\ m.count[m.shared_count[s]] > 1
               /\ release(m, s).ptr = m.ptr
            \/ /\ m.shared_count[s] # None /\ release(m, s).shared_count[s] = None
               /\ release(m, s).ptr = With(m.ptr, s, None)
<1> DEFINE o == m.shared_count[s]
           n == release(m, s)
<1>1. m \in Memories /\ s \in Pointers /\ o = m.ptr[s]
  BY DEF Sound, Counted, Pointers
<1>2. CASE o = None
  BY <1>1, <1>2, NullIsLoose DEF release
<1>3. CASE o # None
  <2> DEFINE k == Cardinality(Sharers(m, {s}, o))
  <2>1. o \in m.made \ m.deleted /\ o \notin m.freed /\ o \in Objects
    BY <1>1, <1>3 DEF Sound, HoldsLive, DeletedOnce, Memories
  <2>2. k \in Nat /\ m.count[o] = k + 1
    <3>1. m.count[o] = Cardinality(Sharers(m, {}, o))
      BY <1>1, <1>3 DEF Sound, Counted
    <3>2. k = Cardinality(Sharers(m, {}, o)) - 1
      BY <1>1, LastSharer
    <3>3. k \in Nat /\ Cardinality(Sharers(m, {}, o)) \in Nat
      BY SharersFinite
    <3> HIDE DEF k
    <3> QED
      BY <3>1, <3>2, <3>3
  <2>3. \A p \in Unique : m.ptr[p] # o
    BY <1>1, <1>3, SmartAssumption DEF Sound, NotShared, Pointers
  <2> HIDE DEF k
  <2> DEFINE d == Decremented(m, o)
  <2>6. /\ d \in Memories
        /\ d.ptr = m.ptr /\ d.shared_count = m.shared_count
        /\ d.count = [m.count EXCEPT ![o] = k]
        /\ d.made = m.made /\ d.deleted = m.deleted /\ d.freed = m.freed
        /\ d.broken = m.broken
    BY <1>1, <2>1, <2>2, DecrementedFields
  <2>7. d.count[o] = k
    BY <1>1, <2>1, <2>6 DEF Memories
  <2>8. n = IF d.count[o] # 0 THEN d
            ELSE Freed(Deleted(d, s), s, o)
    BY <1>3 DEF release, Freed
  <2> HIDE DEF d, n
  <2>4. CASE k # 0
    <3>1. n = d
      BY <2>4, <2>7, <2>8
    <3>2. /\ n \in Memories
          /\ n.ptr = m.ptr /\ n.shared_count = m.shared_count
          /\ n.count = [m.count EXCEPT ![o] = k]
          /\ n.made = m.made /\ n.freed = m.freed /\ n.deleted = m.deleted
          /\ ~n.broken
      BY <2>2, <2>6, <3>1 DEF Sound, DeletedOnce
    <3> HIDE DEF n
    <3>3. \E t \in Shared \ {s} : m.ptr[t] = o
      BY <2>4, FS_EmptySet DEF k, Sharers
    <3>4. DeletedOnce(n)
      BY <3>2 DEF Sound, DeletedOnce
    <3>5. HoldsLive(n, {s})
      BY <1>1, <3>2, <3>3 DEF Sound, HoldsLive, Pointers
    <3>6. NotShared(n, {s})
      BY <3>2 DEF Sound, NotShared
    <3>7. Counted(n, {s})
      <4> SUFFICES ASSUME NEW t \in Shared \ {s}
                   PROVE  /\ n.shared_count[t] = n.ptr[t]
                          /\ n.ptr[t] # None => n.count[n.ptr[t]] = Cardinality(Sharers(n, {s}, n.ptr[t]))
        BY DEF Counted
      <4>1. CASE n.ptr[t] = o
        <5>1. Sharers(n, {s}, o) = Sharers(m, {s}, o)
          BY <3>2 DEF Sharers
        <5> QED
          BY <1>1, <2>1, <3>2, <4>1, <5>1 DEF Sound, Counted, Memories, k
      <4>2. CASE n.ptr[t] # o
        <5>1. Sharers(n, {s}, n.ptr[t]) = Sharers(m, {}, m.ptr[t])
          BY <1>1, <3>2, <4>2 DEF Sharers
        <5>2. n.ptr[t] # None => n.count[n.ptr[t]] = m.count[n.ptr[t]]
          BY <1>1, <3>2, <4>2 DEF Memories, Pointers
        <5> QED
          BY <3>2, <5>1, <5>2 DEF Sound, Counted
      <4> QED
        BY <4>1, <4>2
    <3>8. m.count[o] > 1
      BY <2>2, <2>4
    <3> QED
      BY <1>3, <3>2, <3>4, <3>5, <3>6, <3>7, <3>8 DEF Sound, n
  <2>5. CASE k = 0
    <3> DEFINE e == Deleted(d, s)
    <3>8. n = Freed(e, s, o)
      BY <2>5, <2>7, <2>8
    <3>9. /\ e \in Memories
          /\ e.ptr = m.ptr /\ e.shared_count = m.shared_count
          /\ e.count = [m.count EXCEPT ![o] = 0]
          /\ e.made = m.made /\ e.freed = m.freed
          /\ e.deleted = m.deleted \cup {o} /\ ~e.broken
      BY <1>1, <1>3, <2>1, <2>2, <2>5, <2>6, DeletedFields DEF Sound, DeletedOnce
    <3> HIDE DEF e, n
    <3>1. /\ n \in Memories
          /\ n.ptr = [m.ptr EXCEPT ![s] = None]
          /\ n.shared_count = [m.shared_count EXCEPT ![s] = None]
          /\ n.count = [m.count EXCEPT ![o] = 0]
          /\ n.made = m.made /\ n.freed = m.freed \cup {o} /\ n.deleted = m.deleted \cup {o}
          /\ ~n.broken
      BY <2>1, <3>8, <3>9, FreedFields
    <3>2. Sharers(m, {s}, o) = {}
      BY <2>5, SharersFinite, FS_EmptySet DEF k
    <3>3. \A p \in Pointers \ {s} : n.ptr[p] = m.ptr[p] /\ m.ptr[p] # o
      BY <1>1, <2>3, <3>1, <3>2 DEF Memories, Pointers, Sharers
    <3>4. DeletedOnce(n)
      BY <2>1, <3>1 DEF Sound, DeletedOnce
    <3>5. HoldsLive(n, {s})
      BY <1>1, <3>1, <3>3 DEF Sound, HoldsLive
    <3>6. NotShared(n, {s})
      BY <3>3 DEF Sound, NotShared, Pointers
    <3>7. Counted(n, {s})
      <4> SUFFICES ASSUME NEW t \in Shared \ {s}
                   PROVE  /\ n.shared_count[t] = n.ptr[t]
                          /\ n.ptr[t] # None => n.count[n.ptr[t]] = Cardinality(Sharers(n, {s}, n.ptr[t]))
        BY DEF Counted
      <4>1. n.ptr[t] = m.ptr[t] /\ m.ptr[t] # o /\ n.shared_count[t] = m.shared_count[t]
        BY <1>1, <3>1, <3>3 DEF Memories, Pointers
      <4>2. Sharers(n, {s}, n.ptr[t]) = Sharers(m, {}, m.ptr[t])
        BY <1>1, <3>3, <4>1 DEF Sharers, Pointers
      <4>3. n.ptr[t] # None => n.count[n.ptr[t]] = m.count[n.ptr[t]]
        BY <1>1, <3>1, <4>1 DEF Memories, Pointers
      <4> QED
        BY <4>1, <4>2, <4>3 DEF Sound, Counted
    <3> QED
      BY <1>1, <1>3, <3>1, <3>4, <3>5, <3>6, <3>7 DEF Sound, Memories, n, With
  <2> QED
    BY <2>4, <2>5
<1> QED
  BY <1>2, <1>3

\* The constructor of a shared_ptr: a counter of one for a new object.
LEMMA AdoptsSound ==
  ASSUME NEW m, NEW s \in Shared, Sound(m, {s}),
         NEW o \in (Objects \ m.made) \cup {None}
  PROVE  /\ Sound(Adopts(m, s, o), {})
         /\ Adopts(m, s, o).ptr = With(m.ptr, s, o)
         /\ Adopts(m, s, o).made = IF o = None THEN m.made ELSE m.made \cup {o}
<1> DEFINE n == Adopts(m, s, o)
<1>1. m \in Memories /\ s \in Pointers
  BY DEF Sound, Pointers
<1>2. /\ n \in Memories
      /\ n.ptr = With(m.ptr, s, o) /\ n.shared_count = With(m.shared_count, s, o)
      /\ n.count = IF o = None THEN m.count ELSE With(m.count, o, 1)
      /\ n.made = IF o = None THEN m.made ELSE m.made \cup {o}
      /\ n.freed = m.freed /\ n.deleted = m.deleted /\ n.broken = m.broken
  <2>1. CASE o = None
    <3> DEFINE a == [m EXCEPT !.shared_count = [m.shared_count EXCEPT ![s] = None]]
    <3>1. [m.shared_count EXCEPT ![s] = None] \in [Shared -> Objects \cup {None}]
      BY <1>1 DEF Memories
    <3>2. /\ a.ptr = m.ptr /\ a.shared_count = With(m.shared_count, s, o)
          /\ a.count = m.count /\ a.made = m.made
          /\ a.freed = m.freed /\ a.deleted = m.deleted /\ a.broken = m.broken
      BY <1>1, <2>1, <3>1 DEF Memories, With
    <3>4. a \in Memories
      BY <1>1, <3>1, MemoryFields
    <3>3. n = Points(a, s, None)
      BY <2>1 DEF Adopts
    <3> HIDE DEF a, n
    <3> QED
      BY <1>1, <2>1, <3>2, <3>3, <3>4, PointsFields, ZenonT(60)
  <2>2. CASE o # None
    <3> DEFINE a == Points(m, s, o)
               b == [a EXCEPT !.shared_count = [a.shared_count EXCEPT ![s] = o]]
    <3>1. /\ a \in Memories
          /\ a.ptr = With(m.ptr, s, o) /\ a.shared_count = m.shared_count
          /\ a.count = m.count /\ a.made = m.made \cup {o}
          /\ a.freed = m.freed /\ a.deleted = m.deleted /\ a.broken = m.broken
      <4> o \in Objects \cup {None}
        OBVIOUS
      <4> QED
        BY <1>1, <2>2, PointsFields, ZenonT(60)
    <3>2. n = [b EXCEPT !.count = [b.count EXCEPT ![o] = 1]]
      BY <2>2 DEF Adopts
    <3> HIDE DEF a
    <3>3. /\ b.ptr = a.ptr /\ b.shared_count = With(a.shared_count, s, o)
          /\ b.count = a.count /\ b.made = a.made
          /\ b.freed = a.freed /\ b.deleted = a.deleted /\ b.broken = a.broken
      BY <3>1 DEF Memories, With
    <3>4. b \in Memories
      <4>1. [a.shared_count EXCEPT ![s] = o] \in [Shared -> Objects \cup {None}]
        BY <2>2, <3>1 DEF Memories
      <4> QED
        BY <3>1, <4>1, MemoryFields
    <3> HIDE DEF b
    <3>5. /\ n.ptr = b.ptr /\ n.shared_count = b.shared_count
          /\ n.count = With(b.count, o, 1) /\ n.made = b.made
          /\ n.freed = b.freed /\ n.deleted = b.deleted /\ n.broken = b.broken
      BY <3>2, <3>4 DEF Memories, With
    <3>6. n \in Memories
      <4>1. [b.count EXCEPT ![o] = 1] \in [Objects -> Int]
        BY <2>2, <3>4 DEF Memories
      <4> QED
        BY <3>2, <3>4, <4>1, MemoryFields
    <3> HIDE DEF n
    <3> QED
      BY <2>2, <3>1, <3>3, <3>5, <3>6
  <2> QED
    BY <2>1, <2>2
<1> HIDE DEF n
<1>3. /\ n.ptr[s] = o /\ n.shared_count[s] = o
      /\ \A p \in Pointers \ {s} : n.ptr[p] = m.ptr[p]
      /\ \A t \in Shared \ {s} : n.shared_count[t] = m.shared_count[t]
      /\ \A x \in m.made : n.count[x] = m.count[x]
      /\ o # None => n.count[o] = 1
  BY <1>1, <1>2, SmartAssumption DEF Memories, With
<1>4. \A p \in Pointers \ {s} : m.ptr[p] # None => m.ptr[p] \in m.made /\ m.ptr[p] # o
  BY SmartAssumption DEF Sound, HoldsLive
<1>5. DeletedOnce(n)
  BY <1>2 DEF Sound, DeletedOnce
<1>6. HoldsLive(n, {})
  BY <1>1, <1>2, <1>3, SmartAssumption DEF Sound, HoldsLive, DeletedOnce
<1>7. NotShared(n, {})
  BY <1>1, <1>3, <1>4, SmartAssumption DEF Sound, NotShared, Pointers
<1>8. Counted(n, {})
  <2> SUFFICES ASSUME NEW t \in Shared
               PROVE  /\ n.shared_count[t] = n.ptr[t]
                      /\ n.ptr[t] # None => n.count[n.ptr[t]] = Cardinality(Sharers(n, {}, n.ptr[t]))
    BY DEF Counted
  <2>1. CASE t = s
    <3>1. o # None => Sharers(n, {}, o) = {s}
      BY <1>3, <1>4 DEF Sharers, Pointers
    <3> QED
      BY <1>3, <2>1, <3>1, FS_Singleton, ZenonT(60)
  <2>2. CASE t # s
    <3>1. n.ptr[t] # None => Sharers(n, {}, n.ptr[t]) = Sharers(m, {s}, m.ptr[t])
      BY <1>3, <1>4, <2>2 DEF Sharers, Pointers
    <3> QED
      BY <1>3, <1>4, <2>2, <3>1 DEF Sound, Counted, Pointers
  <2> QED
    BY <2>1, <2>2
<1> QED
  BY <1>2, <1>5, <1>6, <1>7, <1>8 DEF n, Sound, With

\* A loose shared_ptr becomes one more owner of what another owns.
LEMMA CopiedSound ==
  ASSUME NEW m, NEW s \in Shared, NEW t \in Shared \ {s}, Sound(m, {s})
  PROVE  /\ Sound(Copied(m, s, t), {})
         /\ Copied(m, s, t).ptr = With(m.ptr, s, m.ptr[t])
         /\ Copied(m, s, t).made = m.made
<1> DEFINE n == Copied(m, s, t)
           o == m.ptr[t]
<1>1. /\ m \in Memories /\ s \in Pointers /\ t \in Pointers
      /\ m.shared_count[t] = o /\ o \in Objects \cup {None}
      /\ o # None => o \in Objects /\ o \in m.made \ m.deleted /\ o \notin m.freed
  BY DEF Sound, Pointers, Counted, HoldsLive, DeletedOnce, Memories
<1>2. /\ n \in Memories
      /\ n.ptr = With(m.ptr, s, o) /\ n.shared_count = With(m.shared_count, s, o)
      /\ n.count = IF o = None THEN m.count ELSE With(m.count, o, m.count[o] + 1)
      /\ n.made = m.made /\ n.freed = m.freed /\ n.deleted = m.deleted
      /\ n.broken = m.broken
  <2> DEFINE c == Paired(m, s, m.ptr[t], m.shared_count[t])
  <2>1. /\ c \in Memories
        /\ c.ptr = With(m.ptr, s, o) /\ c.shared_count = With(m.shared_count, s, o)
        /\ c.count = m.count
        /\ c.made = m.made /\ c.freed = m.freed /\ c.deleted = m.deleted
        /\ c.broken = m.broken
    BY <1>1, PairedFields
  <2>2. n = IF o = None THEN c ELSE Incremented(c, o)
    BY <1>1 DEF Copied, Paired
  <2> HIDE DEF c, n
  <2>3. CASE o = None
    BY <2>1, <2>2, <2>3
  <2>4. CASE o # None
    BY <1>1, <2>1, <2>2, <2>4, IncrementedFields
  <2> QED
    BY <2>3, <2>4
<1> HIDE DEF n
<1>3. /\ n.ptr[s] = o /\ n.shared_count[s] = o
      /\ \A p \in Pointers \ {s} : n.ptr[p] = m.ptr[p]
      /\ \A p \in Shared \ {s} : n.shared_count[p] = m.shared_count[p]
      /\ \A x \in Objects \ {o} : n.count[x] = m.count[x]
      /\ o # None => n.count[o] = m.count[o] + 1
  BY <1>1, <1>2 DEF Memories, With
<1>4. DeletedOnce(n)
  BY <1>2 DEF Sound, DeletedOnce
<1>5. HoldsLive(n, {})
  BY <1>1, <1>2, <1>3 DEF Sound, HoldsLive
<1>6. NotShared(n, {})
  BY <1>1, <1>3, SmartAssumption DEF Sound, NotShared, Pointers
<1>7. Counted(n, {})
  <2> SUFFICES ASSUME NEW p \in Shared
               PROVE  /\ n.shared_count[p] = n.ptr[p]
                      /\ n.ptr[p] # None => n.count[n.ptr[p]] = Cardinality(Sharers(n, {}, n.ptr[p]))
    BY DEF Counted
  <2>1. n.shared_count[p] = n.ptr[p] /\ n.ptr[p] \in Objects \cup {None}
    BY <1>1, <1>2, <1>3 DEF Sound, Counted, Memories, Pointers
  <2>2. CASE n.ptr[p] = o /\ o # None
    <3>1. /\ Sharers(n, {}, o) = Sharers(m, {s}, o) \cup {s}
          /\ s \notin Sharers(m, {s}, o)
      BY <1>3 DEF Sharers, Pointers
    <3>2. Cardinality(Sharers(n, {}, o)) = Cardinality(Sharers(m, {s}, o)) + 1
      BY <3>1, SharersFinite, FS_AddElement
    <3>3. m.count[o] = Cardinality(Sharers(m, {s}, o))
      BY <2>2 DEF Sound, Counted
    <3> QED
      BY <1>3, <2>1, <2>2, <3>2, <3>3
  <2>3. CASE n.ptr[p] # o
    <3>1. p # s /\ n.ptr[p] = m.ptr[p]
      BY <1>3, <2>3 DEF Pointers
    <3>2. Sharers(n, {}, n.ptr[p]) = Sharers(m, {s}, m.ptr[p])
      BY <1>3, <2>3 DEF Sharers, Pointers
    <3> QED
      BY <1>3, <2>1, <2>3, <3>1, <3>2 DEF Sound, Counted
  <2> QED
    BY <2>1, <2>2, <2>3
<1> QED
  BY <1>2, <1>4, <1>5, <1>6, <1>7 DEF n, Sound, With

\* A loose shared_ptr takes over both pointers of another one.
LEMMA MovedSound ==
  ASSUME NEW m, NEW s \in Shared, NEW t \in Shared \ {s}, Sound(m, {s})
  PROVE  /\ Sound(Moved(m, s, t), {})
         /\ Moved(m, s, t).ptr = With(With(m.ptr, s, m.ptr[t]), t, None)
         /\ Moved(m, s, t).made = m.made
<1> DEFINE n == Moved(m, s, t)
           o == m.ptr[t]
<1>1. /\ m \in Memories /\ s \in Pointers /\ t \in Pointers
      /\ m.shared_count[t] = o /\ o \in Objects \cup {None}
  BY DEF Sound, Pointers, Counted, Memories
<1>2. /\ n.ptr = With(With(m.ptr, s, o), t, None)
      /\ n.shared_count = With(With(m.shared_count, s, o), t, None)
      /\ n.count = m.count /\ n.made = m.made
      /\ n.freed = m.freed /\ n.deleted = m.deleted /\ n.broken = m.broken
  BY <1>1 DEF Moved, Stolen, Memories, With
<1>3. n \in Memories
  <2> DEFINE a == [m EXCEPT !.ptr = [m.ptr EXCEPT ![s] = m.ptr[t]]]
             b == [a EXCEPT !.ptr = [a.ptr EXCEPT ![t] = None]]
             c == [b EXCEPT !.shared_count = [b.shared_count EXCEPT ![s] = m.shared_count[t]]]
  <2>1. n = [c EXCEPT !.shared_count = [c.shared_count EXCEPT ![t] = None]]
    BY DEF Moved, Stolen
  <2>2. a \in Memories
    <3>1. [m.ptr EXCEPT ![s] = m.ptr[t]] \in [Pointers -> Objects \cup {None}]
      BY <1>1 DEF Memories
    <3> QED
      BY <1>1, <3>1, MemoryFields
  <2> HIDE DEF a
  <2>3. b \in Memories
    <3>1. [a.ptr EXCEPT ![t] = None] \in [Pointers -> Objects \cup {None}]
      BY <2>2 DEF Memories
    <3> QED
      BY <2>2, <3>1, MemoryFields
  <2> HIDE DEF b
  <2>4. c \in Memories
    <3>1. [b.shared_count EXCEPT ![s] = m.shared_count[t]] \in [Shared -> Objects \cup {None}]
      BY <1>1, <2>3 DEF Memories
    <3> QED
      BY <2>3, <3>1, MemoryFields
  <2> HIDE DEF c, n
  <2>5. [c.shared_count EXCEPT ![t] = None] \in [Shared -> Objects \cup {None}]
    BY <2>4 DEF Memories
  <2> QED
    BY <2>1, <2>4, <2>5, MemoryFields
<1> HIDE DEF n
<1>4. /\ n.ptr[s] = o /\ n.shared_count[s] = o
      /\ n.ptr[t] = None /\ n.shared_count[t] = None
      /\ \A p \in Pointers \ {s, t} : n.ptr[p] = m.ptr[p]
      /\ \A p \in Shared \ {s, t} : n.shared_count[p] = m.shared_count[p]
  BY <1>1, <1>2, <1>3 DEF Memories, With
<1>5. DeletedOnce(n)
  BY <1>2 DEF Sound, DeletedOnce
<1>6. HoldsLive(n, {})
  BY <1>1, <1>2, <1>4, SmartAssumption DEF Sound, HoldsLive, Memories
<1>7. NotShared(n, {})
  BY <1>1, <1>4, SmartAssumption DEF Sound, NotShared, Pointers
<1>8. Counted(n, {})
  <2> SUFFICES ASSUME NEW p \in Shared
               PROVE  /\ n.shared_count[p] = n.ptr[p]
                      /\ n.ptr[p] # None => n.count[n.ptr[p]] = Cardinality(Sharers(n, {}, n.ptr[p]))
    BY DEF Counted
  <2>1. n.shared_count[p] = n.ptr[p]
    BY <1>4 DEF Sound, Counted, Pointers
  <2>2. CASE n.ptr[p] = o /\ o # None
    <3>1. /\ Sharers(n, {}, o) = (Sharers(m, {s}, o) \ {t}) \cup {s}
          /\ t \in Sharers(m, {s}, o) /\ s \notin Sharers(m, {s}, o)
      BY <1>4, <2>2 DEF Sharers, Pointers
    <3>2. Cardinality(Sharers(n, {}, o)) = Cardinality(Sharers(m, {s}, o))
      <4> DEFINE X == Sharers(m, {s}, o)
                 Y == X \ {t}
      <4>1. IsFiniteSet(X) /\ Cardinality(X) \in Nat
        BY SharersFinite
      <4>2. t \in X /\ s \notin Y /\ Sharers(n, {}, o) = Y \cup {s}
        BY <3>1
      <4> HIDE DEF X
      <4>3. IsFiniteSet(Y) /\ Cardinality(Y) = Cardinality(X) - 1
        BY <4>1, <4>2, FS_RemoveElement
      <4> HIDE DEF Y
      <4>4. Cardinality(Y \cup {s}) = Cardinality(Y) + 1
        BY <4>2, <4>3, FS_AddElement
      <4>5. Cardinality(Sharers(n, {}, o)) = Cardinality(Y \cup {s})
        BY <4>2, Zenon
      <4>6. Cardinality(Sharers(n, {}, o)) = Cardinality(X)
        BY <4>1, <4>3, <4>4, <4>5
      <4> QED
        BY <4>6 DEF X
    <3>3. m.count[o] = Cardinality(Sharers(m, {s}, o))
      BY <2>2 DEF Sound, Counted
    <3> QED
      BY <1>2, <2>1, <2>2, <3>2, <3>3
  <2>3. CASE n.ptr[p] # o /\ n.ptr[p] # None
    <3>1. p # s /\ p # t /\ n.ptr[p] = m.ptr[p]
      BY <1>4, <2>3 DEF Pointers
    <3>2. Sharers(n, {}, n.ptr[p]) = Sharers(m, {s}, m.ptr[p])
      BY <1>4, <2>3, <3>1 DEF Sharers, Pointers
    <3> QED
      BY <1>2, <2>1, <2>3, <3>1, <3>2 DEF Sound, Counted
  <2> QED
    BY <2>1, <2>2, <2>3
<1> QED
  BY <1>2, <1>3, <1>5, <1>6, <1>7, <1>8 DEF n, Sound

\* A variable that is destructed holds nothing any more.
LEMMA ClearedSound ==
  ASSUME NEW m, NEW p \in Pointers, Sound(m, {p})
  PROVE  /\ Sound(Cleared(m, p), {})
         /\ Cleared(m, p).ptr = With(m.ptr, p, None)
         /\ Cleared(m, p).made = m.made
<1> DEFINE n == Cleared(m, p)
<1>1. m \in Memories
  BY DEF Sound
<1>2. /\ n \in Memories
      /\ n.ptr = With(m.ptr, p, None)
      /\ \A t \in Shared \ {p} : n.shared_count[t] = m.shared_count[t]
      /\ p \in Shared => n.shared_count[p] = None
      /\ n.count = m.count /\ n.made = m.made
      /\ n.freed = m.freed /\ n.deleted = m.deleted /\ n.broken = m.broken
  <2>1. CASE p \in Shared
    <3>1. n = Paired(m, p, None, None)
      BY <2>1 DEF Cleared, Paired
    <3> HIDE DEF n
    <3>2. /\ n \in Memories
          /\ n.ptr = With(m.ptr, p, None) /\ n.shared_count = With(m.shared_count, p, None)
          /\ n.count = m.count /\ n.made = m.made
          /\ n.freed = m.freed /\ n.deleted = m.deleted /\ n.broken = m.broken
      BY <1>1, <2>1, <3>1, PairedFields
    <3>3. /\ \A t \in Shared \ {p} : n.shared_count[t] = m.shared_count[t]
          /\ n.shared_count[p] = None
      BY <1>1, <2>1, <3>2 DEF Memories, With
    <3> QED
      BY <3>2, <3>3
  <2>2. CASE p \notin Shared
    <3>1. n = [m EXCEPT !.ptr = [m.ptr EXCEPT ![p] = None]]
      BY <2>2 DEF Cleared
    <3>2. [m.ptr EXCEPT ![p] = None] \in [Pointers -> Objects \cup {None}]
      BY <1>1 DEF Memories
    <3>3. /\ n.ptr = With(m.ptr, p, None) /\ n.shared_count = m.shared_count
          /\ n.count = m.count /\ n.made = m.made
          /\ n.freed = m.freed /\ n.deleted = m.deleted /\ n.broken = m.broken
      BY <1>1, <2>2 DEF Cleared, Memories, With
    <3> HIDE DEF n
    <3>4. n \in Memories
      BY <1>1, <3>1, <3>2, MemoryFields
    <3> QED
      BY <2>2, <3>3, <3>4
  <2> QED
    BY <2>1, <2>2
<1> HIDE DEF n
<1>3. n.ptr[p] = None /\ \A q \in Pointers \ {p} : n.ptr[q] = m.ptr[q]
  BY <1>1, <1>2 DEF Memories, With
<1>4. Sound(n, {p})
  <2>1. DeletedOnce(n) /\ HoldsLive(n, {p}) /\ NotShared(n, {p})
    BY <1>2, <1>3 DEF Sound, DeletedOnce, HoldsLive, NotShared, Pointers
  <2>2. \A x : Sharers(n, {p}, x) = Sharers(m, {p}, x)
    BY <1>3 DEF Sharers, Pointers
  <2>3. Counted(n, {p})
    BY <1>2, <1>3, <2>2 DEF Sound, Counted, Pointers
  <2> QED
    BY <1>2, <2>1, <2>3 DEF Sound
<1> QED
  BY <1>2, <1>3, <1>4, LooseIsNull DEF n

-----------------------------------------------------------------------------
(* The operations                                                          *)

\* The program's promise: reset() is called by a last owner only.
ResetsAlone == ~ResetWhileShared

\* p holds o now: nothing, a new object, or one that the shared_ptr q owns.
Gives(p, o) ==
    /\ \/ o = None \/ o \in New
       \/ p \in Shared /\ \E q \in Shared : mem.ptr[q] = o
    /\ mem'.ptr = With(mem.ptr, p, o)
    /\ mem'.made = IF o = None \/ o \in mem.made THEN mem.made ELSE mem.made \cup {o}

\* p has taken over from q, of the same kind.
HandsOver(p, q) ==
    /\ p # q /\ (p \in Unique <=> q \in Unique)
    /\ mem'.ptr = With(With(mem.ptr, p, mem.ptr[q]), q, None)
    /\ mem'.made = mem.made

\* What any operation does to the pointers.
Effect ==
    \/ \E p \in Pointers, o \in Objects \cup {None} : Gives(p, o)
    \/ \E p, q \in Pointers : HandsOver(p, q)
    \/ mem'.ptr = mem.ptr /\ mem'.made = mem.made

\* Out of a sound memory, what an operation did to the pointers is an effect,
\* and the pointers out of scope hold nothing.
LEMMA GivesEffect ==
  ASSUME Inv, Sound(mem', {}),
         NEW p \in Pointers, NEW o \in Objects \cup {None}, Gives(p, o),
         p \in scope' \/ o = None,
         scope' = scope \cup {p} \/ scope' = scope \/ scope' = scope \ {p}
  PROVE  Inv' /\ Effect
<1>1. scope' \subseteq Pointers
  BY DEF Inv
<1>2. \A q \in Pointers \ scope' : mem'.ptr[q] = None
  BY DEF Inv, OutOfScopeIsNull, Sound, Memories, With, Gives
<1> QED
  BY <1>1, <1>2 DEF Inv, OutOfScopeIsNull, Effect

\* A move hands one object over and touches no count.
LEMMA HandsOverEffect ==
  ASSUME Inv, Sound(mem', {}),
         NEW p \in Pointers, NEW q \in Pointers, HandsOver(p, q),
         p \in scope', scope' = scope \cup {p} \/ scope' = scope
  PROVE  Inv' /\ Effect
<1>1. scope' \subseteq Pointers
  BY DEF Inv
<1>2. \A r \in Pointers \ scope' : mem'.ptr[r] = None
  BY DEF Inv, OutOfScopeIsNull, Sound, Memories, With, HandsOver
<1> QED
  BY <1>1, <1>2 DEF Inv, OutOfScopeIsNull, Effect

\* Self-assignment does nothing.
LEMMA NothingEffect ==
  ASSUME Inv, mem' = mem, scope' = scope
  PROVE  Inv' /\ Effect
  BY DEF Inv, OutOfScopeIsNull, Sound, DeletedOnce, HoldsLive, NotShared, Counted, Sharers, Effect

\* What is done to a pointer that was let go of is done to the pointer.
LEMMA WithWith ==
  ASSUME NEW m \in Memories, NEW p \in Pointers, NEW x
  PROVE  /\ With(With(m.ptr, p, None), p, x) = With(m.ptr, p, x)
         /\ \A q \in Pointers \ {p} : With(m.ptr, p, None)[q] = m.ptr[q]
  BY DEF Memories, With

\* The operations of one unique_ptr.
LEMMA UniqueNext ==
  ASSUME Inv, NEW u \in Unique,
         ConstructUnique(u) \/ ResetUnique(u) \/ DestructUnique(u)
  PROVE  Inv' /\ Effect
<1>1. /\ Sound(mem, {}) /\ mem \in Memories /\ u \in Pointers /\ None \notin mem.made
      /\ None \in Objects \cup {None}
  BY SmartAssumption DEF Inv, Sound, Pointers, Memories
<1>2. CASE ConstructUnique(u)
  <2>1. PICK o \in New \cup {None} : Constructs(u) /\ mem' = Points(mem, u, o)
    BY <1>2 DEF ConstructUnique
  <2>2. Sound(mem, {u})
    BY <1>1, <2>1, NullIsLoose DEF Inv, OutOfScopeIsNull, Constructs
  <2>3. o \in (Objects \ mem.made) \cup {None} /\ o \in Objects \cup {None}
    BY <2>1 DEF New
  <2>4. /\ Sound(mem', {}) /\ mem'.ptr = With(mem.ptr, u, o)
        /\ mem'.made = IF o = None THEN mem.made ELSE mem.made \cup {o}
    BY <2>1, <2>2, <2>3, PointsSound
  <2>5. Gives(u, o)
    BY <2>1, <2>3, <2>4 DEF Gives
  <2> QED
    BY <1>1, <2>1, <2>3, <2>4, <2>5, GivesEffect DEF Constructs
<1>3. CASE ResetUnique(u)
  <2>1. PICK o \in New \cup {None} : Uses(u) /\ mem' = Points(Deleted(mem, u), u, o)
    BY <1>3 DEF ResetUnique
  <2> DEFINE n == Deleted(mem, u)
  <2>2. Sound(n, {u}) /\ n.ptr = mem.ptr /\ n.made = mem.made
    BY <1>1, DeletedSound
  <2>3. o \in (Objects \ n.made) \cup {None} /\ o \in Objects \cup {None}
    BY <2>1, <2>2 DEF New
  <2> HIDE DEF n
  <2>4. /\ Sound(mem', {}) /\ mem'.ptr = With(n.ptr, u, o)
        /\ mem'.made = IF o = None THEN n.made ELSE n.made \cup {o}
    BY <2>1, <2>2, <2>3, PointsSound DEF n
  <2>5. Gives(u, o)
    BY <2>1, <2>2, <2>3, <2>4 DEF Gives
  <2> QED
    BY <1>1, <2>1, <2>3, <2>4, <2>5, GivesEffect DEF Uses
<1>4. CASE DestructUnique(u)
  <2> DEFINE n == Deleted(mem, u)
  <2>1. Destructs(u) /\ mem' = Cleared(n, u)
    BY <1>4 DEF DestructUnique
  <2>2. Sound(n, {u}) /\ n.ptr = mem.ptr /\ n.made = mem.made
    BY <1>1, DeletedSound
  <2> HIDE DEF n
  <2>3. Sound(mem', {}) /\ mem'.ptr = With(mem.ptr, u, None) /\ mem'.made = mem.made
    BY <1>1, <2>1, <2>2, ClearedSound
  <2>4. Gives(u, None)
    BY <1>1, <2>3 DEF Gives
  <2> QED
    BY <1>1, <2>1, <2>3, <2>4, GivesEffect DEF Destructs
<1> QED
  BY <1>2, <1>3, <1>4

\* The operations of two unique_ptrs.
LEMMA UniquePairNext ==
  ASSUME Inv, NEW u \in Unique, NEW v \in Unique,
         MoveConstructUnique(u, v) \/ MoveAssignUnique(u, v)
  PROVE  Inv' /\ Effect
<1>1. Sound(mem, {}) /\ mem \in Memories /\ u \in Pointers /\ v \in Pointers
  BY DEF Inv, Sound, Pointers
<1>2. CASE MoveConstructUnique(u, v)
  <2>1. u # v /\ v \in scope /\ u \notin scope /\ scope' = scope \cup {u} /\ mem' = Stolen(mem, u, v)
    BY <1>2 DEF MoveConstructUnique, Constructs
  <2>2. Sound(mem, {u})
    BY <1>1, <2>1, NullIsLoose DEF Inv, OutOfScopeIsNull
  <2>3. /\ Sound(mem', {}) /\ mem'.made = mem.made
        /\ mem'.ptr = With(With(mem.ptr, u, mem.ptr[v]), v, None)
    BY <2>1, <2>2, StolenSound
  <2>4. HandsOver(u, v)
    BY <2>1, <2>3 DEF HandsOver
  <2> QED
    BY <1>1, <2>1, <2>3, <2>4, HandsOverEffect
<1>3. CASE MoveAssignUnique(u, v)
  <2>1. u \in scope /\ scope' = scope
        /\ mem' = IF u = v THEN mem ELSE Stolen(Deleted(mem, u), u, v)
    BY <1>3 DEF MoveAssignUnique, Uses
  <2>2. CASE u = v
    BY <2>1, <2>2, NothingEffect
  <2>3. CASE u # v
    <3> DEFINE n == Deleted(mem, u)
    <3>1. Sound(n, {u}) /\ n.ptr = mem.ptr /\ n.made = mem.made
      BY <1>1, DeletedSound
    <3>2. mem' = Stolen(n, u, v)
      BY <2>1, <2>3
    <3> HIDE DEF n
    <3>3. /\ Sound(mem', {}) /\ mem'.made = n.made
          /\ mem'.ptr = With(With(n.ptr, u, n.ptr[v]), v, None)
      BY <2>3, <3>1, <3>2, StolenSound
    <3>4. HandsOver(u, v)
      BY <2>3, <3>1, <3>3 DEF HandsOver
    <3> QED
      BY <1>1, <2>1, <3>3, <3>4, HandsOverEffect
  <2> QED
    BY <2>2, <2>3
<1> QED
  BY <1>2, <1>3

\* What release() did to the pointer is undone by what the pointer is given.
LEMMA ReleasedWith ==
  ASSUME Sound(mem, {}), NEW s \in Shared
  PROVE  LET n == release(mem, s) IN
           /\ Sound(n, {s}) /\ n.made = mem.made
           /\ \A x : With(n.ptr, s, x) = With(mem.ptr, s, x)
           /\ \A t \in Pointers \ {s} : n.ptr[t] = mem.ptr[t]
<1> DEFINE n == release(mem, s)
<1>1. mem \in Memories /\ s \in Pointers
  BY DEF Sound, Pointers
<1>2. /\ Sound(n, {s}) /\ n.made = mem.made
      /\ n = mem \/ n.ptr = mem.ptr \/ n.ptr = With(mem.ptr, s, None)
  BY ReleaseSound
<1> HIDE DEF n
<1>3. /\ \A x : With(n.ptr, s, x) = With(mem.ptr, s, x)
      /\ \A t \in Pointers \ {s} : n.ptr[t] = mem.ptr[t]
  <2>1. CASE n = mem \/ n.ptr = mem.ptr
    BY <2>1
  <2>2. CASE n.ptr = With(mem.ptr, s, None)
    BY <1>1, <2>2, WithWith
  <2> QED
    BY <1>2, <2>1, <2>2
<1> QED
  BY <1>2, <1>3 DEF n

\* The operations of one shared_ptr.
LEMMA SharedNext ==
  ASSUME Inv, ResetsAlone, NEW s \in Shared,
         ConstructShared(s) \/ reset(s) \/ DestructShared(s)
  PROVE  Inv' /\ Effect
<1> DEFINE n == release(mem, s)
<1>1. /\ Sound(mem, {}) /\ mem \in Memories /\ s \in Pointers
      /\ None \in Objects \cup {None}
  BY DEF Inv, Sound, Pointers
<1>2. CASE ConstructShared(s)
  <2>1. PICK o \in New \cup {None} : Constructs(s) /\ mem' = Adopts(mem, s, o)
    BY <1>2 DEF ConstructShared
  <2>2. Sound(mem, {s})
    BY <1>1, <2>1, NullIsLoose DEF Inv, OutOfScopeIsNull, Constructs
  <2>3. o \in (Objects \ mem.made) \cup {None} /\ o \in Objects \cup {None}
    BY <2>1 DEF New
  <2>4. /\ Sound(mem', {}) /\ mem'.ptr = With(mem.ptr, s, o)
        /\ mem'.made = IF o = None THEN mem.made ELSE mem.made \cup {o}
    BY <2>1, <2>2, <2>3, AdoptsSound
  <2>5. Gives(s, o)
    BY <2>1, <2>3, <2>4 DEF Gives
  <2> QED
    BY <1>1, <2>1, <2>3, <2>4, <2>5, GivesEffect DEF Constructs
<1>3. CASE reset(s)
  <2>1. s \in scope /\ scope' = scope /\ mem' = n
        /\ (mem.shared_count[s] # None => ~(mem.count[mem.shared_count[s]] > 1))
    BY <1>3 DEF reset, Uses, ResetsAlone
  <2>2. /\ Sound(n, {s}) /\ n.made = mem.made
        /\ \/ n = mem
           \/ mem.shared_count[s] # None /\ n.shared_count[s] = None /\ n.ptr = With(mem.ptr, s, None)
    BY <1>1, <2>1, ReleaseSound
  <2> HIDE DEF n
  <2>3. CASE n = mem
    BY <2>1, <2>3, NothingEffect
  <2>4. CASE n.shared_count[s] = None /\ n.ptr = With(mem.ptr, s, None)
    <3>1. n.ptr[s] = None
      BY <1>1, <2>4 DEF Memories, With
    <3>2. Sound(mem', {})
      BY <1>1, <2>1, <2>2, <2>4, <3>1, LooseIsNull
    <3>3. Gives(s, None)
      BY <2>1, <2>2, <2>4 DEF Gives
    <3> QED
      BY <1>1, <2>1, <3>2, <3>3, GivesEffect
  <2> QED
    BY <2>2, <2>3, <2>4
<1>4. CASE DestructShared(s)
  <2>1. scope' = scope \ {s} /\ mem' = Cleared(n, s)
    BY <1>4 DEF DestructShared, Destructs
  <2>2. Sound(n, {s}) /\ n.made = mem.made /\ With(n.ptr, s, None) = With(mem.ptr, s, None)
    BY <1>1, ReleasedWith
  <2> HIDE DEF n
  <2>3. Sound(mem', {}) /\ mem'.ptr = With(mem.ptr, s, None) /\ mem'.made = mem.made
    BY <1>1, <2>1, <2>2, ClearedSound
  <2>4. Gives(s, None)
    BY <2>3 DEF Gives
  <2> QED
    BY <1>1, <2>1, <2>3, <2>4, GivesEffect
<1> QED
  BY <1>2, <1>3, <1>4

\* The operations of two shared_ptrs.
LEMMA SharedPairNext ==
  ASSUME Inv, NEW s \in Shared, NEW t \in Shared,
         CopyConstruct(s, t) \/ MoveConstruct(s, t) \/ CopyAssign(s, t) \/ MoveAssign(s, t)
  PROVE  Inv' /\ Effect
<1> DEFINE n == release(mem, s)
           o == mem.ptr[t]
<1>1. /\ Sound(mem, {}) /\ mem \in Memories /\ s \in Pointers /\ t \in Pointers
      /\ o \in Objects \cup {None} /\ (o # None => o \in mem.made)
      /\ s \notin Unique /\ t \notin Unique
  BY SmartAssumption DEF Inv, Sound, HoldsLive, Memories, Pointers
<1>2. Sound(n, {s}) /\ n.made = mem.made
      /\ (\A x : With(n.ptr, s, x) = With(mem.ptr, s, x))
      /\ (t # s => n.ptr[t] = o)
  BY <1>1, ReleasedWith
<1>3. s \notin scope => Sound(mem, {s})
  BY <1>1, NullIsLoose DEF Inv, OutOfScopeIsNull
<1> HIDE DEF n
<1>4. ASSUME s # t, mem'.ptr = With(mem.ptr, s, o), mem'.made = mem.made
      PROVE  Gives(s, o)
  BY <1>1, <1>4 DEF Gives
<1>5. ASSUME s # t, mem'.ptr = With(With(mem.ptr, s, o), t, None), mem'.made = mem.made
      PROVE  HandsOver(s, t)
  BY <1>1, <1>5 DEF HandsOver
<1>6. CASE CopyConstruct(s, t)
  <2>1. s # t /\ s \notin scope /\ scope' = scope \cup {s} /\ mem' = Copied(mem, s, t)
    BY <1>6 DEF CopyConstruct, Constructs
  <2>2. Sound(mem', {}) /\ mem'.ptr = With(mem.ptr, s, o) /\ mem'.made = mem.made
    BY <1>3, <2>1, CopiedSound
  <2> QED
    BY <1>1, <1>4, <2>1, <2>2, GivesEffect
<1>7. CASE MoveConstruct(s, t)
  <2>1. s # t /\ s \notin scope /\ scope' = scope \cup {s} /\ mem' = Moved(mem, s, t)
    BY <1>7 DEF MoveConstruct, Constructs
  <2>2. /\ Sound(mem', {}) /\ mem'.made = mem.made
        /\ mem'.ptr = With(With(mem.ptr, s, o), t, None)
    BY <1>3, <2>1, MovedSound
  <2> QED
    BY <1>1, <1>5, <2>1, <2>2, HandsOverEffect
<1>8. CASE CopyAssign(s, t)
  <2>1. s \in scope /\ scope' = scope /\ mem' = IF s = t THEN mem ELSE Copied(n, s, t)
    BY <1>8 DEF CopyAssign, Uses, n
  <2>2. CASE s = t
    BY <2>1, <2>2, NothingEffect
  <2>3. CASE s # t
    <3>1. Sound(mem', {}) /\ mem'.ptr = With(n.ptr, s, n.ptr[t]) /\ mem'.made = n.made
      BY <1>2, <2>1, <2>3, CopiedSound
    <3>2. mem'.ptr = With(mem.ptr, s, o) /\ mem'.made = mem.made
      BY <1>2, <2>3, <3>1
    <3> QED
      BY <1>1, <1>4, <2>1, <2>3, <3>1, <3>2, GivesEffect
  <2> QED
    BY <2>2, <2>3
<1>9. CASE MoveAssign(s, t)
  <2>1. s \in scope /\ scope' = scope /\ mem' = IF s = t THEN mem ELSE Moved(n, s, t)
    BY <1>9 DEF MoveAssign, Uses, n
  <2>2. CASE s = t
    BY <2>1, <2>2, NothingEffect
  <2>3. CASE s # t
    <3>1. /\ Sound(mem', {}) /\ mem'.made = n.made
          /\ mem'.ptr = With(With(n.ptr, s, n.ptr[t]), t, None)
      BY <1>2, <2>1, <2>3, MovedSound
    <3>2. mem'.ptr = With(With(mem.ptr, s, o), t, None) /\ mem'.made = mem.made
      BY <1>2, <2>3, <3>1
    <3> QED
      BY <1>1, <1>5, <2>1, <2>3, <3>1, <3>2, HandsOverEffect
  <2> QED
    BY <2>2, <2>3
<1> QED
  BY <1>6, <1>7, <1>8, <1>9

-----------------------------------------------------------------------------
(* The invariant                                                           *)

\* Without pointers nothing is owned.
LEMMA InvInit == Init => Inv
<1> SUFFICES ASSUME Init PROVE Inv
  OBVIOUS
<1>1. mem \in Memories
  BY DEF Init, Memories
<1>2. Sound(mem, {})
  BY <1>1 DEF Init, Sound, DeletedOnce, HoldsLive, NotShared, Counted, Pointers
<1> QED
  BY <1>2 DEF Init, Inv, OutOfScopeIsNull

\* Every operation keeps the invariant and hands over, makes or frees one object.
LEMMA InvNext == ResetsAlone /\ Inv /\ [Next]_vars => Inv' /\ (Effect \/ UNCHANGED vars)
<1> SUFFICES ASSUME ResetsAlone, Inv, [Next]_vars PROVE Inv' /\ (Effect \/ UNCHANGED vars)
  OBVIOUS
<1>1. CASE UNCHANGED vars
  BY <1>1, NothingEffect DEF vars
<1>2. CASE Next
  BY <1>2, UniqueNext, UniquePairNext, SharedNext, SharedPairNext DEF Next
<1> QED
  BY <1>1, <1>2

\* The invariant holds as long as reset(p) is given an object of its own.
LEMMA InvHolds ==
  ASSUME ResetsAlone PROVE Spec => []Inv
<1>1. Inv /\ [Next]_vars => Inv'
  BY InvNext
<1> QED
  BY <1>1, InvInit, PTL DEF Spec

-----------------------------------------------------------------------------
(* The theorems                                                            *)

\* get_count() is the number of owners: whatever the program copies, moves,
\* assigns, resets and destructs, the counter of an object is the number of
\* shared_ptrs that point to it.
THEOREM OwnersCounted ==
  ASSUME ResetsAlone PROVE Spec => []CountsOwners
<1>1. Inv => CountsOwners
  <2> SUFFICES ASSUME Inv, NEW s \in Shared, mem.shared_count[s] # None
               PROVE  LET o == mem.shared_count[s] IN
                        /\ o = mem.ptr[s] /\ o \notin mem.freed
                        /\ mem.count[o] = Cardinality({t \in Shared : mem.ptr[t] = o})
    BY DEF CountsOwners
  <2>1. mem.shared_count[s] = mem.ptr[s] /\ mem.ptr[s] \notin mem.freed
    BY DEF Inv, Sound, Counted, HoldsLive, DeletedOnce, Pointers
  <2>2. {t \in Shared : mem.ptr[t] = mem.ptr[s]} = Sharers(mem, {}, mem.ptr[s])
    BY DEF Sharers
  <2> QED
    BY <2>1, <2>2 DEF Inv, Sound, Counted
<1> QED
  BY <1>1, InvHolds, PTL

\* Nothing is deleted twice, no freed counter is used, and no pointer in scope
\* points to a deleted object.
THEOREM NeverDangles ==
  ASSUME ResetsAlone PROVE Spec => []NoDangling
<1>1. Inv => NoDangling
  BY SmartAssumption DEF Inv, Sound, HoldsLive, DeletedOnce, Memories, NoDangling
<1> QED
  BY <1>1, InvHolds, PTL

\* Every operation of unique_ptr and shared_ptr is a step of Ownership, or
\* changes nothing a user of the pointers can see.
THEOREM OwnershipKept ==
  ASSUME ResetsAlone PROVE Spec => KeepsOwnership
<1>1. Init => Owns!Init
  BY DEF Init, Owns!Init
<1>2. Inv /\ Inv' /\ (Effect \/ UNCHANGED vars) => [Owns!Next]_(Owns!vars)
  <2> SUFFICES ASSUME Inv, Inv', Effect \/ UNCHANGED vars PROVE [Owns!Next]_(Owns!vars)
    OBVIOUS
  <2> DEFINE Held(o) == \E p \in Pointers : mem.ptr[p] = o
             Lives(o) == IF o \notin mem.made THEN "unborn"
                         ELSE IF o \in mem.deleted THEN "dead" ELSE "alive"
  <2>1. \A o \in Objects : /\ Held(o) <=> o \in mem.made \ mem.deleted
                           /\ Held(o)' <=> o \in mem'.made \ mem'.deleted
    BY SmartAssumption DEF Inv, Sound, HoldsLive
  <2>2. mem \in Memories /\ mem' \in Memories
        /\ mem.deleted \subseteq mem.made /\ mem'.deleted \subseteq mem'.made
    BY DEF Inv, Sound, DeletedOnce
  <2>3. \A o \in Objects : ~Held(o)' => (o \in mem.made <=> o \in mem'.made)
    <3>1. ASSUME NEW p \in Pointers, NEW o \in Objects \cup {None}, Gives(p, o)
          PROVE  mem'.ptr[p] = o /\ (mem'.made = mem.made \/ mem'.made = mem.made \cup {o})
      BY <2>2, <3>1 DEF Gives, Memories, With
    <3>2. \A p, q \in Pointers : HandsOver(p, q) => mem'.made = mem.made
      BY DEF HandsOver
    <3>3. UNCHANGED vars => mem'.made = mem.made
      BY DEF vars
    <3> QED
      BY <3>1, <3>2, <3>3 DEF Effect
  <2>4. \A o \in Objects : Lives(o)' = IF Held(o)' THEN "alive"
                                       ELSE IF Lives(o) = "unborn" THEN "unborn" ELSE "dead"
    BY <2>1, <2>2, <2>3
  <2>5. Owns!LivesWhileHeld
    BY <2>4 DEF Owns!LivesWhileHeld, Owns!Owners
  <2>6. CASE mem'.ptr = mem.ptr
    <3>1. \A o \in Objects : Held(o)' <=> Held(o)
      BY <2>6
    <3>2. \A o \in Objects : Lives(o)' = Lives(o)
      BY <2>1, <2>2, <2>4, <3>1
    <3> QED
      BY <2>6, <3>2 DEF Owns!vars
  <2>7. ASSUME NEW p \in Pointers, NEW o \in Objects \cup {None}, Gives(p, o)
        PROVE  Owns!Takes(p, o)
    <3>1. mem'.ptr = [mem.ptr EXCEPT ![p] = o]
      BY <2>7 DEF Gives, With
    <3>2. CASE o = None
      BY <3>1, <3>2 DEF Owns!Takes
    <3>3. CASE o \in New
      BY <3>1, <3>3 DEF Owns!Takes, New
    <3>4. CASE o # None /\ p \in Shared /\ \E q \in Shared : mem.ptr[q] = o
      <4>1. PICK q \in Shared : mem.ptr[q] = o
        BY <3>4
      <4>2. \A u \in Unique : mem.ptr[u] # o
        BY <3>4, <4>1, SmartAssumption DEF Inv, Sound, NotShared, Pointers
      <4>3. Owns!Owners(o) # {} /\ Owns!Owners(o) \cap Unique = {} /\ p \notin Unique
        BY <3>4, <4>1, <4>2, SmartAssumption DEF Owns!Owners, Pointers
      <4> QED
        BY <3>1, <4>3 DEF Owns!Takes
    <3> QED
      BY <2>7, <3>2, <3>3, <3>4 DEF Gives
  <2>8. ASSUME NEW p \in Pointers, NEW q \in Pointers, HandsOver(p, q)
        PROVE  Owns!TakesOver(p, q)
    BY <2>8 DEF HandsOver, With, Owns!TakesOver
  <2>9. UNCHANGED vars => mem'.ptr = mem.ptr
    BY DEF vars
  <2> QED
    BY <2>5, <2>6, <2>7, <2>8, <2>9 DEF Effect, Owns!Next
<1> QED
  BY <1>1, <1>2, InvHolds, InvNext, PTL DEF Spec, KeepsOwnership, Owns!Spec
=============================================================================

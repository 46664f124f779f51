---------------------------- MODULE FLockProofs ----------------------------
(***************************************************************************)
(* For every set of connections and of regions: two locks that are held on *)
(* a common byte are both shared, and nobody waits without a lock whose    *)
(* release will look at it.  What granting and releasing a lock do to the  *)
(* invariant comes first, then the steps of the connections.               *)
(*                                                                         *)
(* The second half is about the lists of the connections: a lock is as     *)
(* often in the list of its connection, or on its way there, as it is held *)
(* or waited for.  A task waits once, and only while its request does: a   *)
(* request it makes later, or one on another list, finds it nowhere.       *)
(***************************************************************************)
EXTENDS FLock, FiniteSetTheorems, TLAPS

-----------------------------------------------------------------------------
(* Locks that may be held together.                                        *)

Apart(e, f) == Overlap(e.region, f.region) => ~Excludes(e, f)
Compatible(q) == \A i, j \in DOMAIN q : i # j => Apart(q[i], q[j])

\* Regions with a common byte overlap for is_region_overlap.
LEMMA MeetOverlap ==
    \A r, s \in Region : Meet(r, s) => Overlap(r, s)
BY RegionAssumption DEF Meet, Overlap

\* The order of the two does not matter.
LEMMA ApartSymmetric == \A e, f \in FTask : Apart(e, f) => Apart(f, e)
<1>1. \A r, s \in Region : Overlap(r, s) => Overlap(s, r)
  BY Zenon, RegionAssumption DEF Overlap
<1> QED BY Zenon, <1>1 DEF Apart, Excludes, FTask

\* A task without a conflicting region is compatible with all that are locked.
LEMMA NoConflictApart ==
    ASSUME NEW held \in Seq(FTask), NEW queues, NEW f \in FTask,
           ConflictRegions(held, queues, f) = {}
    PROVE  \A i \in DOMAIN held : Apart(held[i], f) /\ Apart(f, held[i])
<1> SUFFICES ASSUME NEW i \in DOMAIN held PROVE Apart(f, held[i])
  BY ApartSymmetric
<1>1. held[i] \in FTask /\ held[i].region \in Region
  <2>1. held[i] \in FTask
    OBVIOUS
  <2> QED BY Zenon, <2>1 DEF FTask
<1>2. held[i].region \notin ConflictRegions(held, queues, f)
  BY Zenon
<1>3. Overlap(f.region, held[i].region) => ~Excludes(held[i], f)
  BY Zenon, <1>1, <1>2 DEF ConflictRegions
<1> QED BY Zenon, <1>3 DEF Apart, Excludes

-----------------------------------------------------------------------------
(* Sequences.                                                              *)

\* What the ends of a list hold.
LEMMA ListFacts ==
    ASSUME NEW S, NEW s \in Seq(S)
    PROVE  /\ \A e \in S : Append(s, e) \in Seq(S) /\ Append(s, e) # <<>>
           /\ s # <<>> => /\ Head(s) \in S /\ Tail(s) \in Seq(S)
                          /\ Len(s) # 1 => Tail(s) # <<>>
<1>1. ASSUME NEW e \in S
      PROVE  Append(s, e) \in Seq(S) /\ Append(s, e) # <<>>
  <2>1. Append(s, e) \in Seq(S) /\ Len(Append(s, e)) = Len(s) + 1
    BY <1>1
  <2>2. Len(Append(s, e)) # 0
    BY <2>1, Len(s) \in Nat
  <2>3. Len(<<>>) = 0
    BY Zenon
  <2> QED BY Zenon, <2>1, <2>2, <2>3
<1>2. ASSUME s # <<>>
      PROVE  /\ Head(s) \in S /\ Tail(s) \in Seq(S)
             /\ Len(s) # 1 => Tail(s) # <<>>
  <2>1. /\ Head(s) \in S /\ Tail(s) \in Seq(S)
        /\ Len(Tail(s)) = Len(s) - 1 /\ Len(s) \in Nat
    BY <1>2
  <2>2. ASSUME Len(s) # 1 PROVE Len(Tail(s)) # 0
    BY <2>1, <2>2
  <2>3. Len(s) # 1 => Tail(s) # <<>>
    BY Zenon, <2>1, <2>2
  <2> QED BY Zenon, <2>1, <2>3
<1> QED BY Zenon, <1>1, <1>2

\* What the first tasks of a queue are, and the others.
LEMMA TakenFacts ==
    ASSUME NEW S, NEW q \in Seq(S), NEW k \in 0 .. Len(q)
    PROVE  /\ Taken(q, k) \in Seq(S) /\ Len(Taken(q, k)) = k
           /\ \A i \in 1 .. k : Taken(q, k)[i] = q[i]
BY DEF Taken

\* The rest of a queue.
LEMMA LeftFacts ==
    ASSUME NEW S, NEW q \in Seq(S), NEW k \in 0 .. Len(q)
    PROVE  /\ Left(q, k) \in Seq(S) /\ Len(Left(q, k)) = Len(q) - k
           /\ \A i \in DOMAIN Left(q, k) : /\ k + i \in DOMAIN q
                                           /\ Left(q, k)[i] = q[k + i]
BY DEF Left

\* One list after another.
LEMMA ConcatFacts ==
    ASSUME NEW S, NEW p \in Seq(S), NEW q \in Seq(S)
    PROVE  /\ p \o q \in Seq(S) /\ Len(p \o q) = Len(p) + Len(q)
           /\ \A i \in 1 .. Len(p) : (p \o q)[i] = p[i]
           /\ \A i \in 1 .. Len(q) : (p \o q)[Len(p) + i] = q[i]
OBVIOUS

\* The first tasks of a queue after those that are locked.
LEMMA AwakedFacts ==
    ASSUME NEW S, NEW held \in Seq(S), NEW q \in Seq(S), NEW k \in 0 .. Len(q)
    PROVE  /\ held \o Taken(q, k) \in Seq(S)
           /\ Len(held \o Taken(q, k)) = Len(held) + k
           /\ \A i \in 1 .. Len(held) : (held \o Taken(q, k))[i] = held[i]
           /\ \A i \in 1 .. k : (held \o Taken(q, k))[Len(held) + i] = q[i]
<1> DEFINE t == Taken(q, k)
<1>1. t \in Seq(S) /\ Len(t) = k /\ \A i \in 1 .. k : t[i] = q[i]
  BY Zenon, TakenFacts
<1> HIDE DEF t
<1> DEFINE c == held \o t
<1>2. /\ c \in Seq(S) /\ Len(c) = Len(held) + Len(t)
      /\ \A i \in 1 .. Len(held) : c[i] = held[i]
      /\ \A i \in 1 .. Len(t) : c[Len(held) + i] = t[i]
  <2>1. c \in Seq(S) /\ Len(c) = Len(held) + Len(t)
    <3>1. t \in Seq(S)
      BY Zenon, <1>1
    <3> QED BY Zenon, <3>1, ConcatFacts
  <2>2. \A i \in 1 .. Len(held) : c[i] = held[i]
    BY <1>1
  <2>3. \A i \in 1 .. Len(t) : c[Len(held) + i] = t[i]
    BY <1>1
  <2> QED BY Zenon, <2>1, <2>2, <2>3
<1> HIDE DEF c
<1>3. /\ c \in Seq(S) /\ Len(c) = Len(held) + k
      /\ \A i \in 1 .. Len(held) : c[i] = held[i]
      /\ \A i \in 1 .. k : c[Len(held) + i] = q[i]
  BY Zenon, <1>1, <1>2
<1> QED BY Zenon, <1>3 DEF c, t

\* Taking a task out keeps the others, in different places.
LEMMA RemoveFacts ==
    ASSUME NEW S, NEW q \in Seq(S), NEW k \in DOMAIN q
    PROVE  /\ RemoveAt(q, k) \in Seq(S)
           /\ \A i \in DOMAIN RemoveAt(q, k) :
                  /\ IF i < k THEN i \in DOMAIN q ELSE i + 1 \in DOMAIN q
                  /\ RemoveAt(q, k)[i] = IF i < k THEN q[i] ELSE q[i + 1]
           /\ \A x \in DOMAIN q : x # k =>
                  \E i \in DOMAIN RemoveAt(q, k) : RemoveAt(q, k)[i] = q[x]
<1> DEFINE a == SubSeq(q, 1, k - 1)
           b == SubSeq(q, k + 1, Len(q))
<1>1. /\ a \in Seq(S) /\ Len(a) = k - 1
      /\ \A i \in 1 .. k - 1 : a[i] = q[i]
  OBVIOUS
<1>2. /\ b \in Seq(S) /\ Len(b) = Len(q) - k
      /\ \A i \in 1 .. Len(q) - k : b[i] = q[k + i]
  OBVIOUS
<1>3. RemoveAt(q, k) = a \o b
  BY Zenon DEF RemoveAt
<1> HIDE DEF a, b
<1> DEFINE c == a \o b
<1>4. /\ c \in Seq(S) /\ DOMAIN c = 1 .. Len(q) - 1
      /\ \A i \in 1 .. k - 1 : c[i] = a[i]
      /\ \A i \in k .. Len(q) - 1 : c[i] = b[i - (k - 1)]
  <2>1. /\ c \in Seq(S) /\ Len(c) = Len(a) + Len(b)
        /\ \A i \in 1 .. Len(a) : c[i] = a[i]
        /\ \A i \in 1 .. Len(b) : c[Len(a) + i] = b[i]
    <3>1. a \in Seq(S) /\ b \in Seq(S)
      BY Zenon, <1>1, <1>2
    <3>2. c \in Seq(S) /\ Len(c) = Len(a) + Len(b)
      BY Zenon, <3>1, ConcatFacts
    <3>3. \A i \in 1 .. Len(a) : c[i] = a[i]
      BY <3>1
    <3>4. \A i \in 1 .. Len(b) : c[Len(a) + i] = b[i]
      BY <3>1
    <3> QED BY Zenon, <3>2, <3>3, <3>4
  <2> HIDE DEF c
  <2>2. /\ k \in Nat /\ Len(q) \in Nat /\ Len(c) = Len(q) - 1 /\ DOMAIN c = 1 .. Len(q) - 1
        /\ Len(a) = k - 1 /\ Len(b) = Len(q) - k
    BY <1>1, <1>2, <2>1
  <2>3. ASSUME NEW i \in k .. Len(q) - 1 PROVE c[i] = b[i - (k - 1)]
    <3>1. i - (k - 1) \in 1 .. Len(q) - k /\ (k - 1) + (i - (k - 1)) = i
      OBVIOUS
    <3>2. c[Len(a) + (i - (k - 1))] = b[i - (k - 1)]
      BY Zenon, <2>1, <2>2, <3>1
    <3> QED BY Zenon, <2>2, <3>1, <3>2
  <2> QED BY Zenon, <1>1, <2>1, <2>2, <2>3
<1> HIDE DEF c
<1>5. ASSUME NEW i \in k .. Len(q) - 1 PROVE c[i] = q[i + 1]
  <2>1. i - (k - 1) \in 1 .. Len(q) - k /\ k + (i - (k - 1)) = i + 1
    OBVIOUS
  <2> QED BY Zenon, <1>2, <1>4, <2>1
<1>6. ASSUME NEW i \in 1 .. Len(q) - 1
      PROVE  /\ IF i < k THEN i \in DOMAIN q ELSE i + 1 \in DOMAIN q
             /\ c[i] = IF i < k THEN q[i] ELSE q[i + 1]
  <2>1. CASE i < k
    <3>1. i \in 1 .. k - 1 /\ i \in DOMAIN q
      BY <2>1
    <3> QED BY Zenon, <1>1, <1>4, <2>1, <3>1
  <2>2. CASE ~(i < k)
    <3>1. i \in k .. Len(q) - 1 /\ i + 1 \in DOMAIN q
      BY <2>2
    <3> QED BY Zenon, <1>5, <2>2, <3>1
  <2> QED BY Zenon, <2>1, <2>2
<1>7. ASSUME NEW x \in DOMAIN q, x # k
      PROVE  \E i \in 1 .. Len(q) - 1 : c[i] = q[x]
  <2>1. CASE x < k
    <3>1. x \in 1 .. Len(q) - 1
      BY <2>1
    <3> QED BY Zenon, <1>6, <2>1, <3>1
  <2>2. CASE ~(x < k)
    <3>1. x - 1 \in 1 .. Len(q) - 1 /\ ~(x - 1 < k) /\ (x - 1) + 1 = x
      BY <1>7, <2>2
    <3> QED BY ZenonT(30), <1>6, <3>1
  <2> QED BY Zenon, <2>1, <2>2
<1>8. RemoveAt(q, k) = c
  BY Zenon, <1>3 DEF c
<1> QED BY ZenonT(30), <1>4, <1>6, <1>7, <1>8

\* What is left was there before.
LEMMA RemoveSubset ==
    ASSUME NEW S, NEW q \in Seq(S), NEW k \in DOMAIN q
    PROVE  \A x \in DOMAIN RemoveAt(q, k) :
               \E y \in DOMAIN q : RemoveAt(q, k)[x] = q[y]
<1> SUFFICES ASSUME NEW x \in DOMAIN RemoveAt(q, k)
             PROVE  \E y \in DOMAIN q : RemoveAt(q, k)[x] = q[y]
  BY Zenon
<1>1. CASE x < k
  BY Zenon, <1>1, RemoveFacts
<1>2. CASE ~(x < k)
  BY ZenonT(20), <1>2, RemoveFacts
<1> QED BY Zenon, <1>1, <1>2

-----------------------------------------------------------------------------
(* How often a lock is in a list.                                          *)

One(e, f) == IF e = f THEN 1 ELSE 0

\* It is a number.
LEMMA CountType ==
    ASSUME NEW S, NEW q \in Seq(S), NEW f
    PROVE  /\ IsFiniteSet({i \in DOMAIN q : q[i] = f})
           /\ Count(q, f) \in Nat
<1> DEFINE P == {i \in DOMAIN q : q[i] = f}
<1>1. P \subseteq 1 .. Len(q) /\ Len(q) \in Int
  OBVIOUS
<1>2. IsFiniteSet(1 .. Len(q))
  BY <1>1, FS_Interval
<1> HIDE DEF P
<1>3. IsFiniteSet(P) /\ Cardinality(P) \in Nat
  BY Zenon, <1>1, <1>2, FS_Subset, FS_CardinalityType
<1> QED BY Zenon, <1>3 DEF P, Count

\* Sets of places that are shifted have the same size.
LEMMA ShiftSize ==
    ASSUME NEW P \in SUBSET Int, IsFiniteSet(P), NEW n \in Int,
           NEW T, T = {n + i : i \in P}
    PROVE  IsFiniteSet(T) /\ Cardinality(T) = Cardinality(P)
<1> DEFINE g == [i \in P |-> n + i]
<1>1. g \in Bijection(P, T)
  <2>1. g \in [P -> T]
    BY Zenon
  <2>2. \A i, j \in P : g[i] = g[j] => i = j
    OBVIOUS
  <2>3. \A x \in T : \E i \in P : g[i] = x
    BY Zenon
  <2> HIDE DEF g
  <2> QED BY ZenonT(30), <2>1, <2>2, <2>3
           DEF Bijection, Injection, Surjection, IsInjective
<1>2. ExistsBijection(P, T)
  BY Zenon, <1>1 DEF ExistsBijection
<1> QED BY Zenon, <1>2, FS_Bijection

\* One list after another has what both have.
LEMMA CountConcat ==
    ASSUME NEW S, NEW p \in Seq(S), NEW q \in Seq(S), NEW f
    PROVE  Count(p \o q, f) = Count(p, f) + Count(q, f)
<1> DEFINE c == p \o q
           P == {i \in DOMAIN p : p[i] = f}
           Q == {i \in DOMAIN q : q[i] = f}
           C == {i \in DOMAIN c : c[i] = f}
           T == {Len(p) + i : i \in Q}
<1>1. /\ c \in Seq(S) /\ Len(c) = Len(p) + Len(q)
      /\ \A i \in 1 .. Len(p) : c[i] = p[i]
      /\ \A i \in 1 .. Len(q) : c[Len(p) + i] = q[i]
  BY ConcatFacts
<1>2. DOMAIN c = 1 .. Len(p) + Len(q) /\ Len(p) \in Nat /\ Len(q) \in Nat
  BY <1>1
<1>3. /\ IsFiniteSet(P) /\ IsFiniteSet(Q)
      /\ Q \in SUBSET Int /\ P \subseteq 1 .. Len(p)
  <2>1. IsFiniteSet(P) /\ IsFiniteSet(Q)
    BY Zenon, CountType
  <2>2. Q \in SUBSET Int /\ P \subseteq 1 .. Len(p)
    OBVIOUS
  <2> QED BY Zenon, <2>1, <2>2
<1>4. IsFiniteSet(T) /\ Cardinality(T) = Cardinality(Q)
  <2>1. T = {Len(p) + i : i \in Q} /\ Len(p) \in Int
    BY <1>2
  <2> HIDE DEF Q, T
  <2> QED BY Zenon, <1>3, <2>1, ShiftSize
<1> HIDE DEF c
<1>5. C = P \cup T
  <2>1. ASSUME NEW x \in C PROVE x \in P \cup T
    <3>1. CASE x <= Len(p)
      BY <1>1, <1>2, <3>1
    <3>2. CASE ~(x <= Len(p))
      <4> DEFINE y == x - Len(p)
      <4>1. y \in 1 .. Len(q) /\ x = Len(p) + y
        BY <1>2, <3>2
      <4> HIDE DEF y
      <4>2. q[y] = f
        BY Zenon, <1>1, <4>1
      <4>3. y \in Q
        BY <4>1, <4>2
      <4> QED BY Zenon, <4>1, <4>3
    <3> QED BY Zenon, <3>1, <3>2
  <2>2. ASSUME NEW x \in P \cup T PROVE x \in C
    <3>1. CASE x \in P
      <4>1. x \in 1 .. Len(p) /\ p[x] = f
        BY <3>1
      <4>2. c[x] = f
        BY Zenon, <1>1, <4>1
      <4>3. x \in DOMAIN c
        BY <1>2, <4>1
      <4> QED BY Zenon, <4>2, <4>3
    <3>2. CASE x \in T
      <4>1. PICK y \in Q : x = Len(p) + y
        BY Zenon, <3>2
      <4>2. y \in 1 .. Len(q) /\ q[y] = f
        OBVIOUS
      <4> QED BY <1>1, <1>2, <4>1, <4>2
    <3> QED BY Zenon, <3>1, <3>2
  <2> QED BY Zenon, <2>1, <2>2
<1>6. P \cap T = {}
  BY <1>2
<1> HIDE DEF P, Q, T, C
<1>7. Cardinality(P \cup T) = Cardinality(P) + Cardinality(T) - Cardinality(P \cap T)
  BY Zenon, <1>3, <1>4, FS_Union
<1>8. Cardinality({}) = 0 /\ Cardinality(P) \in Nat /\ Cardinality(T) \in Nat
  BY Zenon, <1>3, <1>4, FS_EmptySet, FS_CardinalityType
<1>9. Cardinality(C) = Cardinality(P) + Cardinality(Q)
  <2>1. /\ Cardinality(C) = Cardinality(P) + Cardinality(T) - Cardinality(P \cap T)
        /\ Cardinality(P \cap T) = 0
    BY Zenon, <1>5, <1>6, <1>7, <1>8
  <2> QED BY <1>4, <1>8, <2>1
<1> QED BY Zenon, <1>9 DEF Count, P, Q, C, c

\* A list of one lock, or none.
LEMMA CountOne == \A e, f : Count(<<e>>, f) = One(e, f) /\ Count(<<>>, f) = 0
<1> TAKE e, f
<1>1. Count(<<>>, f) = 0
  <2>1. {i \in DOMAIN <<>> : <<>>[i] = f} = {}
    OBVIOUS
  <2> QED BY Zenon, <2>1, FS_EmptySet DEF Count
<1>2. CASE e = f
  <2>1. {i \in DOMAIN <<e>> : <<e>>[i] = f} = {1}
    BY <1>2
  <2>2. Cardinality({1}) = 1
    BY ZenonT(20), FS_Singleton
  <2> QED BY Zenon, <1>1, <1>2, <2>1, <2>2 DEF Count, One
<1>3. CASE e # f
  <2>1. {i \in DOMAIN <<e>> : <<e>>[i] = f} = {}
    BY <1>3
  <2> QED BY Zenon, <1>1, <1>3, <2>1, FS_EmptySet DEF Count, One
<1> QED BY Zenon, <1>2, <1>3

\* A lock that is put at the end.
LEMMA CountAppend ==
    ASSUME NEW S, NEW q \in Seq(S), NEW e \in S, NEW f
    PROVE  Count(Append(q, e), f) = Count(q, f) + One(e, f)
<1>1. Append(q, e) = q \o <<e>> /\ <<e>> \in Seq(S)
  OBVIOUS
<1>2. Count(q \o <<e>>, f) = Count(q, f) + Count(<<e>>, f)
  BY Zenon, <1>1, CountConcat
<1>3. Count(<<e>>, f) = One(e, f)
  BY Zenon, CountOne
<1> HIDE DEF One
<1> QED BY Zenon, <1>1, <1>2, <1>3

\* Lists with the same elements.
LEMMA SameList ==
    ASSUME NEW S, NEW p \in Seq(S), NEW q \in Seq(S), Len(p) = Len(q),
           \A i \in 1 .. Len(p) : p[i] = q[i]
    PROVE  p = q
OBVIOUS

\* Taking tasks from the front of a queue.
LEMMA CountTaken ==
    ASSUME NEW S, NEW q \in Seq(S), NEW k \in 0 .. Len(q), NEW f
    PROVE  Count(q, f) = Count(Taken(q, k), f) + Count(Left(q, k), f)
<1> DEFINE a == Taken(q, k)
           b == Left(q, k)
           c == a \o b
<1>1. /\ a \in Seq(S) /\ Len(a) = k /\ b \in Seq(S) /\ Len(b) = Len(q) - k
      /\ \A i \in 1 .. k : a[i] = q[i]
      /\ \A i \in 1 .. Len(q) - k : b[i] = q[k + i]
  BY DEF Taken, Left
<1> HIDE DEF a, b
<1>2. /\ c \in Seq(S) /\ Len(c) = Len(a) + Len(b)
      /\ \A i \in 1 .. Len(a) : c[i] = a[i]
      /\ \A i \in 1 .. Len(b) : c[Len(a) + i] = b[i]
  BY <1>1, ConcatFacts
<1>3. Count(c, f) = Count(a, f) + Count(b, f)
  BY Zenon, <1>1, CountConcat
<1> HIDE DEF c
<1>4. Len(c) = Len(q)
  BY <1>1, <1>2
<1>5. ASSUME NEW i \in 1 .. Len(c) PROVE c[i] = q[i]
  <2>1. CASE i <= k
    BY <1>1, <1>2, <2>1
  <2>2. CASE ~(i <= k)
    <3> DEFINE j == i - k
    <3>1. j \in 1 .. Len(q) - k /\ i = k + j
      BY <1>4, <2>2
    <3> HIDE DEF j
    <3> QED BY Zenon, <1>1, <1>2, <3>1
  <2> QED BY Zenon, <2>1, <2>2
<1>6. c = q
  BY Zenon, <1>2, <1>4, <1>5, SameList
<1> QED BY Zenon, <1>3, <1>6 DEF a, b

\* Taking one task out.
LEMMA CountRemove ==
    ASSUME NEW S, NEW q \in Seq(S), NEW k \in DOMAIN q, NEW f
    PROVE  Count(q, f) = Count(RemoveAt(q, k), f) + One(q[k], f)
<1> DEFINE a == Taken(q, k - 1)
           b == Left(q, k)
           t == Taken(q, k)
           e == q[k]
<1>1. /\ a \in Seq(S) /\ b \in Seq(S) /\ t \in Seq(S) /\ e \in S
      /\ Len(t) = k /\ Len(a) = k - 1 /\ t[k] = e
      /\ \A i \in 1 .. k - 1 : t[i] = a[i]
  BY DEF Taken, Left
<1>2. RemoveAt(q, k) = a \o b
  BY Zenon DEF RemoveAt, Taken, Left
<1>3. Count(q, f) = Count(t, f) + Count(b, f)
  <2>1. k \in 0 .. Len(q)
    OBVIOUS
  <2> QED BY Zenon, <2>1, CountTaken
<1> HIDE DEF a, b, t, e
<1>4. t = Append(a, e)
  <2>1. /\ Append(a, e) \in Seq(S) /\ Len(Append(a, e)) = k
        /\ \A i \in 1 .. k : t[i] = Append(a, e)[i]
    BY <1>1
  <2> QED BY Zenon, <1>1, <2>1, SameList
<1>5. Count(a \o b, f) = Count(a, f) + Count(b, f)
  BY Zenon, <1>1, CountConcat
<1>6. Count(Append(a, e), f) = Count(a, f) + One(e, f)
  <2>1. a \in Seq(S) /\ e \in S
    BY Zenon, <1>1
  <2> QED BY Zenon, <2>1, CountAppend
<1>7. Count(a, f) \in Nat /\ Count(b, f) \in Nat
  BY Zenon, <1>1, CountType
<1>8. One(e, f) \in Nat
  BY Zenon DEF One
<1>9. Count(q, f) = Count(RemoveAt(q, k), f) + One(e, f)
  <2>1. /\ Count(RemoveAt(q, k), f) = Count(a, f) + Count(b, f)
        /\ Count(t, f) = Count(a, f) + One(e, f)
    BY Zenon, <1>2, <1>4, <1>5, <1>6
  <2> HIDE DEF One
  <2> QED BY <1>3, <1>7, <1>8, <2>1
<1> QED BY Zenon, <1>9 DEF e

-----------------------------------------------------------------------------
(* What granting and releasing do to the locks that are held.              *)

\* Compatible locks stay so when one is released,
LEMMA CompatibleRemove ==
    ASSUME NEW q \in Seq(FTask), Compatible(q), NEW k \in DOMAIN q
    PROVE  Compatible(RemoveAt(q, k))
<1> SUFFICES ASSUME NEW i \in DOMAIN RemoveAt(q, k),
                    NEW j \in DOMAIN RemoveAt(q, k), i # j
             PROVE  Apart(RemoveAt(q, k)[i], RemoveAt(q, k)[j])
  BY Zenon DEF Compatible
<1> DEFINE f(x) == IF x < k THEN x ELSE x + 1
<1>1. \A x \in DOMAIN RemoveAt(q, k) :
         f(x) \in DOMAIN q /\ RemoveAt(q, k)[x] = q[f(x)]
  BY RemoveFacts
<1>2. f(i) # f(j)
  <2>1. i \in Int /\ j \in Int /\ k \in Int
    BY RemoveFacts
  <2> QED BY <2>1
<1> QED BY Zenon, <1>1, <1>2 DEF Compatible

\* and when one that is apart from all of them is granted.
LEMMA CompatibleAppend ==
    ASSUME NEW q \in Seq(FTask), Compatible(q), NEW queues, NEW f \in FTask,
           ConflictRegions(q, queues, f) = {}
    PROVE  Compatible(Append(q, f))
<1> DEFINE c == Append(q, f)
<1>1. /\ DOMAIN c = DOMAIN q \cup {Len(q) + 1}
      /\ \A i \in DOMAIN q : c[i] = q[i]
      /\ c[Len(q) + 1] = f
  OBVIOUS
<1>2. \A i \in DOMAIN q : Apart(q[i], f) /\ Apart(f, q[i])
  BY Zenon, NoConflictApart
<1> HIDE DEF c
<1>3. Compatible(c)
  BY Zenon, <1>1, <1>2 DEF Compatible
<1> QED BY Zenon, <1>3 DEF c

\* awake_waiting_tasks: a task that is awaked is compared with those that were
\* awaked before it.
LEMMA CompatibleAwake ==
    ASSUME NEW held \in Seq(FTask), Compatible(held), NEW queues,
           NEW q \in Seq(FTask), NEW k \in 0 .. Len(q),
           Awakes(held, queues, q, k)
    PROVE  held \o Taken(q, k) \in Seq(FTask) /\ Compatible(held \o Taken(q, k))
<1> DEFINE c == held \o Taken(q, k)
<1>1. /\ c \in Seq(FTask) /\ Len(c) = Len(held) + k
      /\ \A i \in 1 .. Len(held) : c[i] = held[i]
      /\ \A i \in 1 .. k : c[Len(held) + i] = q[i]
  BY AwakedFacts
<1> HIDE DEF c
<1>2. ASSUME NEW m \in 1 .. k, NEW i \in 1 .. Len(held) + m - 1
      PROVE  Apart(c[i], q[m]) /\ Apart(q[m], c[i])
  <2> DEFINE d == held \o Taken(q, m - 1)
  <2>1. ConflictRegions(d, queues, q[m]) = {}
    BY ZenonT(30) DEF Awakes, Taken
  <2>2. /\ d \in Seq(FTask) /\ Len(d) = Len(held) + m - 1
        /\ \A j \in 1 .. Len(held) : d[j] = held[j]
        /\ \A j \in 1 .. m - 1 : d[Len(held) + j] = q[j]
    <3> DEFINE n == m - 1
    <3>1. n \in 0 .. Len(q)
      OBVIOUS
    <3> HIDE DEF n
    <3>2. LET e == held \o Taken(q, n) IN
          /\ e \in Seq(FTask) /\ Len(e) = Len(held) + n
          /\ \A j \in 1 .. Len(held) : e[j] = held[j]
          /\ \A j \in 1 .. n : e[Len(held) + j] = q[j]
      BY <3>1, AwakedFacts
    <3> QED BY Zenon, <3>2 DEF n
  <2> HIDE DEF d
  <2>3. i \in DOMAIN d /\ d[i] = c[i]
    <3>1. CASE i \in 1 .. Len(held)
      BY <1>1, <2>2, <3>1
    <3>2. CASE ~(i \in 1 .. Len(held))
      <4> DEFINE j == i - Len(held)
      <4>1. /\ j \in 1 .. m - 1 /\ j \in 1 .. k /\ i = Len(held) + j
            /\ i \in 1 .. Len(held) + m - 1
        BY <3>2
      <4> HIDE DEF j
      <4>2. d[i] = q[j] /\ c[i] = q[j]
        BY Zenon, <1>1, <2>2, <4>1
      <4> QED BY <2>2, <4>1, <4>2
    <3> QED BY Zenon, <3>1, <3>2
  <2>4. q[m] \in FTask
    OBVIOUS
  <2> QED BY ZenonT(30), <2>1, <2>2, <2>3, <2>4, NoConflictApart
<1>3. ASSUME NEW i \in DOMAIN c, NEW j \in DOMAIN c, i < j
      PROVE  Apart(c[i], c[j]) /\ Apart(c[j], c[i])
  <2>1. i \in 1 .. Len(held) + k /\ j \in 1 .. Len(held) + k
    BY <1>1
  <2>2. CASE j <= Len(held)
    <3>1. i \in DOMAIN held /\ j \in DOMAIN held
      BY <1>3, <2>1, <2>2
    <3> QED BY <1>1, <1>3, <2>1, <3>1 DEF Compatible
  <2>3. CASE ~(j <= Len(held))
    <3> DEFINE m == j - Len(held)
    <3>1. m \in 1 .. k /\ j = Len(held) + m /\ i \in 1 .. Len(held) + m - 1
      BY <1>3, <2>1, <2>3
    <3> HIDE DEF m
    <3>2. c[j] = q[m]
      BY Zenon, <1>1, <3>1
    <3> QED BY ZenonT(20), <1>2, <3>1, <3>2
  <2> QED BY Zenon, <2>2, <2>3
<1>4. DOMAIN c \subseteq Int
  BY <1>1
<1>5. Compatible(c)
  BY <1>3, <1>4 DEF Compatible
<1> QED BY Zenon, <1>1, <1>5 DEF c

-----------------------------------------------------------------------------
(* The inductive invariant, of the tasks that are locked (l), that wait for *)
(* their region (w) and that wait for several (g).                          *)

\* Who waits for a region is only kept out by who holds that region.
LocalOK(l, w) == \A r \in Region : \A j \in DOMAIN w[r] :
    /\ w[r][j].region = r
    /\ \A i \in DOMAIN l : l[i].region # r => Apart(l[i], w[r][j])
\* Of two regions that overlap only one has tasks that wait for it.
OneQueue(w) == \A r, s \in Region :
                   r # s /\ Overlap(r, s) => w[r] = <<>> \/ w[s] = <<>>
RegionHeld(l, r) == \E i \in DOMAIN l : l[i].region = r
HolderOK(l, w) == \A r \in Region : w[r] # <<>> => RegionHeld(l, r)

RegionOK(l, w) == /\ l \in Seq(FTask) /\ w \in [Region -> Seq(FTask)]
                  /\ Compatible(l) /\ LocalOK(l, w) /\ OneQueue(w)
                  /\ HolderOK(l, w)
LockOK(l, w, g) == /\ RegionOK(l, w)
                   /\ g \in Seq(FTask) /\ (g # <<>> => l # <<>>)

\* A task that comes without conflict with the locked and the waiting tasks.
LEMMA GrantLocal ==
    ASSUME NEW l \in Seq(FTask), NEW w \in [Region -> Seq(FTask)],
           LocalOK(l, w), NEW f \in FTask, NEW h,
           ConflictRegions(h, w, f) = {}
    PROVE  \A r \in Region : \A j \in DOMAIN w[r] : Apart(f, w[r][j])
<1> SUFFICES ASSUME NEW r \in Region, NEW j \in DOMAIN w[r]
             PROVE  Apart(f, w[r][j])
  BY Zenon
<1>1. w[r][j].region = r
  BY Zenon DEF LocalOK
<1>2. w[r] # <<>>
  OBVIOUS
<1>3. ~Overlap(f.region, r)
  <2>1. r \notin ConflictRegions(h, w, f) /\ r \in DOMAIN w
    BY Zenon
  <2> QED BY Zenon, <1>2, <2>1 DEF ConflictRegions
<1> QED BY Zenon, <1>1, <1>3 DEF Apart

\* flock_apply grants the lock.
LEMMA ApplyLocked ==
    ASSUME NEW l, NEW w, NEW g, LockOK(l, w, g), NEW f \in FTask,
           ConflictRegions(l, w, f) = {}
    PROVE  LockOK(Append(l, f), w, g)
<1> DEFINE c == Append(l, f)
<1>1. l \in Seq(FTask) /\ w \in [Region -> Seq(FTask)] /\ LocalOK(l, w)
  BY Zenon DEF LockOK, RegionOK
<1>2. /\ c \in Seq(FTask) /\ c # <<>>
      /\ DOMAIN c = DOMAIN l \cup {Len(l) + 1}
      /\ \A i \in DOMAIN l : c[i] = l[i]
      /\ c[Len(l) + 1] = f
  BY <1>1
<1>3. Compatible(c)
  BY ZenonT(30), <1>1, CompatibleAppend DEF LockOK, RegionOK
<1> HIDE DEF c
<1>4. LocalOK(c, w)
  <2>1. \A r \in Region : \A j \in DOMAIN w[r] : Apart(f, w[r][j])
    BY ZenonT(30), <1>1, GrantLocal
  <2> QED BY Zenon, <1>1, <1>2, <2>1 DEF LocalOK
<1>5. HolderOK(c, w)
  BY <1>2 DEF LockOK, RegionOK, HolderOK, RegionHeld
<1>6. LockOK(c, w, g)
  BY Zenon, <1>2, <1>3, <1>4, <1>5 DEF LockOK, RegionOK
<1> QED BY Zenon, <1>6 DEF c

\* flock_release, first part: a locked task leaves and the first of those who
\* wait for its region are awaked.
LEMMA ReleaseRegion ==
    ASSUME NEW l, NEW w, RegionOK(l, w), NEW i \in DOMAIN l,
           NEW r \in Region, l[i].region = r, NEW k \in 0 .. Len(w[r]),
           Awakes(RemoveAt(l, i), NoQueues, w[r], k)
    PROVE  RegionOK(RemoveAt(l, i) \o Taken(w[r], k),
                    [w EXCEPT ![r] = Left(@, k)])
<1> DEFINE h == RemoveAt(l, i)
           c == h \o Taken(w[r], k)
           v == [w EXCEPT ![r] = Left(@, k)]
<1>0. /\ l \in Seq(FTask) /\ w \in [Region -> Seq(FTask)]
      /\ Compatible(l) /\ LocalOK(l, w) /\ OneQueue(w) /\ HolderOK(l, w)
      /\ w[r] \in Seq(FTask)
  BY Zenon DEF RegionOK
<1>1. /\ h \in Seq(FTask)
      /\ \A x \in DOMAIN h : \E y \in DOMAIN l : h[x] = l[y]
      /\ \A x \in DOMAIN l : x # i => \E y \in DOMAIN h : h[y] = l[x]
  BY SMTT(30), <1>0, RemoveFacts, RemoveSubset
<1>2. Compatible(h)
  BY ZenonT(30), <1>0, CompatibleRemove
<1>3. c \in Seq(FTask) /\ Compatible(c)
  BY ZenonT(30), <1>0, <1>1, <1>2, CompatibleAwake
<1>4. /\ DOMAIN c = 1 .. Len(h) + k /\ DOMAIN h = 1 .. Len(h)
      /\ Len(h) \in Nat
      /\ \A x \in DOMAIN h : c[x] = h[x]
      /\ \A x \in 1 .. k : c[Len(h) + x] = w[r][x]
  <2>1. Len(h) \in Nat /\ DOMAIN h = 1 .. Len(h)
    BY <1>1
  <2>2. /\ Len(c) = Len(h) + k
        /\ \A x \in 1 .. Len(h) : c[x] = h[x]
        /\ \A x \in 1 .. k : c[Len(h) + x] = w[r][x]
    BY <1>0, <1>1, AwakedFacts
  <2>3. DOMAIN c = 1 .. Len(c)
    BY <1>3
  <2> QED BY Zenon, <2>1, <2>2, <2>3
<1>5. /\ v \in [Region -> Seq(FTask)]
      /\ \A s \in Region : s # r => v[s] = w[s]
      /\ v[r] = Left(w[r], k)
      /\ \A x \in DOMAIN v[r] : k + x \in DOMAIN w[r] /\ v[r][x] = w[r][k + x]
      /\ Len(v[r]) = Len(w[r]) - k
  <2>1. /\ Left(w[r], k) \in Seq(FTask)
        /\ Len(Left(w[r], k)) = Len(w[r]) - k
        /\ \A x \in DOMAIN Left(w[r], k) :
              k + x \in DOMAIN w[r] /\ Left(w[r], k)[x] = w[r][k + x]
    BY <1>0, LeftFacts
  <2>2. v[r] = Left(w[r], k) /\ \A s \in Region : s # r => v[s] = w[s]
    BY Zenon, <1>0
  <2>3. v \in [Region -> Seq(FTask)]
    BY Zenon, <1>0, <2>1
  <2> QED BY Zenon, <2>1, <2>2, <2>3
<1>6. Awakes(h, NoQueues, w[r], k)
  BY Zenon
<1> HIDE DEF h, v
<1>7. \A x \in DOMAIN c : \/ \E y \in DOMAIN l : c[x] = l[y]
                         \/ \E y \in DOMAIN w[r] : c[x] = w[r][y]
  <2> SUFFICES ASSUME NEW x \in DOMAIN c, x \notin DOMAIN h
               PROVE  \E y \in DOMAIN w[r] : c[x] = w[r][y]
    BY <1>1, <1>4
  <2> DEFINE y == x - Len(h)
  <2>1. y \in 1 .. k /\ x = Len(h) + y
    BY <1>4
  <2>2. y \in DOMAIN w[r]
    BY <1>0, <2>1
  <2> HIDE DEF y
  <2> QED BY Zenon, <1>4, <2>1, <2>2
<1>8. \A x \in DOMAIN l : x # i => \E y \in DOMAIN c : c[y] = l[x]
  <2>1. DOMAIN h \subseteq DOMAIN c
    BY <1>4
  <2> QED BY <1>1, <1>4, <2>1
<1> HIDE DEF c
<1>9. LocalOK(c, v)
  <2> SUFFICES ASSUME NEW s \in Region, NEW j \in DOMAIN v[s]
               PROVE  /\ v[s][j].region = s
                      /\ \A x \in DOMAIN c :
                            c[x].region # s => Apart(c[x], v[s][j])
    BY Zenon DEF LocalOK
  <2>1. PICK m \in DOMAIN w[s] : v[s][j] = w[s][m]
    <3>1. CASE s # r
      BY Zenon, <1>5, <3>1
    <3>2. CASE s = r
      <4>1. k + j \in DOMAIN w[r] /\ v[r][j] = w[r][k + j]
        BY Zenon, <1>5, <3>2
      <4> QED BY Zenon, <3>2, <4>1
    <3> QED BY Zenon, <3>1, <3>2
  <2>2. /\ v[s][j].region = s
        /\ \A y \in DOMAIN l : l[y].region # s => Apart(l[y], v[s][j])
    BY Zenon, <1>0, <2>1 DEF LocalOK
  <2>3. ASSUME NEW y \in DOMAIN w[r], r # s PROVE Apart(w[r][y], v[s][j])
    <3>1. w[r] # <<>> /\ w[s] # <<>> /\ w[r][y].region = r
      BY <1>0, <2>1 DEF LocalOK
    <3>2. ~Overlap(r, s)
      BY Zenon, <1>0, <2>3, <3>1 DEF OneQueue
    <3> QED BY Zenon, <2>2, <3>1, <3>2 DEF Apart
  <2>4. \A y \in DOMAIN w[r] : w[r][y].region = r
    BY Zenon, <1>0 DEF LocalOK
  <2>5. ASSUME NEW x \in DOMAIN c, c[x].region # s PROVE Apart(c[x], v[s][j])
    <3>1. CASE \E y \in DOMAIN l : c[x] = l[y]
      BY Zenon, <2>2, <2>5, <3>1
    <3>2. CASE \E y \in DOMAIN w[r] : c[x] = w[r][y]
      BY Zenon, <2>3, <2>4, <2>5, <3>2
    <3> QED BY Zenon, <1>7, <3>1, <3>2
  <2> QED BY Zenon, <2>2, <2>5
<1>10. OneQueue(v)
  <2>1. \A s \in Region : w[s] = <<>> => v[s] = <<>>
    <3>1. w[r] = <<>> => v[r] = <<>>
      BY <1>0, <1>5
    <3> QED BY Zenon, <1>5, <3>1
  <2> QED BY Zenon, <1>0, <2>1 DEF OneQueue
<1>11. HolderOK(c, v)
  <2> SUFFICES ASSUME NEW s \in Region, v[s] # <<>> PROVE RegionHeld(c, s)
    BY Zenon DEF HolderOK
  <2>1. CASE s # r
    <3>1. PICK x \in DOMAIN l : l[x].region = s
      BY Zenon, <1>0, <1>5, <2>1 DEF HolderOK, RegionHeld
    <3> QED BY Zenon, <1>8, <2>1, <3>1 DEF RegionHeld
  <2>2. CASE s = r
    <3>1. k < Len(w[r]) /\ k + 1 \in DOMAIN w[r]
      BY <1>0, <1>5, <2>2
    <3>2. ConflictRegions(c, NoQueues, w[r][k + 1]) # {}
      <4>1. (k + 1) - 1 = k
        OBVIOUS
      <4> QED BY ZenonT(30), <1>6, <3>1, <4>1 DEF Awakes, c
    <3>3. PICK x \in DOMAIN c : /\ Overlap(w[r][k + 1].region, c[x].region)
                               /\ Excludes(c[x], w[r][k + 1])
      BY Zenon, <3>2 DEF ConflictRegions, NoQueues
    <3>4. 1 \in DOMAIN v[r] /\ v[r][1] = w[r][k + 1]
      BY <1>0, <1>5, <3>1
    <3>5. c[x].region # r => Apart(c[x], w[r][k + 1])
      BY Zenon, <1>9, <3>4 DEF LocalOK
    <3>6. c[x] \in FTask /\ w[r][k + 1] \in FTask
      BY <1>0, <1>3, <3>1
    <3>7. Apart(c[x], w[r][k + 1]) => Apart(w[r][k + 1], c[x])
      BY Zenon, <3>6, ApartSymmetric
    <3> QED BY Zenon, <2>2, <3>3, <3>5, <3>7 DEF Apart, Excludes, RegionHeld
  <2> QED BY Zenon, <2>1, <2>2
<1>12. RegionOK(c, v)
  BY Zenon, <1>3, <1>5, <1>9, <1>10, <1>11 DEF RegionOK
<1> QED BY Zenon, <1>12 DEF c, v, h

\* flock_release, second part: the first of those who wait for several regions
\* are awaked.
LEMMA ReleaseGlobal ==
    ASSUME NEW l, NEW w, RegionOK(l, w), NEW g \in Seq(FTask),
           NEW n \in 0 .. Len(g), Awakes(l, w, g, n)
    PROVE  LockOK(l \o Taken(g, n), w, Left(g, n))
<1> DEFINE c == l \o Taken(g, n)
<1>0. /\ l \in Seq(FTask) /\ w \in [Region -> Seq(FTask)]
      /\ Compatible(l) /\ LocalOK(l, w) /\ OneQueue(w) /\ HolderOK(l, w)
  BY Zenon DEF RegionOK
<1>1. c \in Seq(FTask) /\ Compatible(c)
  BY ZenonT(30), <1>0, CompatibleAwake
<1>2. /\ DOMAIN c = 1 .. Len(l) + n /\ DOMAIN l = 1 .. Len(l)
      /\ Len(l) \in Nat
      /\ \A x \in DOMAIN l : c[x] = l[x]
      /\ \A x \in 1 .. n : c[Len(l) + x] = g[x]
  <2>1. Len(l) \in Nat /\ DOMAIN l = 1 .. Len(l)
    BY <1>0
  <2>2. /\ Len(c) = Len(l) + n
        /\ \A x \in 1 .. Len(l) : c[x] = l[x]
        /\ \A x \in 1 .. n : c[Len(l) + x] = g[x]
    BY SMTT(30), <1>0, AwakedFacts
  <2>3. DOMAIN c = 1 .. Len(c)
    BY <1>1
  <2> QED BY Zenon, <2>1, <2>2, <2>3
<1>3. ASSUME NEW m \in 1 .. n
      PROVE  \A r \in Region : \A j \in DOMAIN w[r] : Apart(g[m], w[r][j])
  <2>1. ConflictRegions(l \o Taken(g, m - 1), w, g[m]) = {}
    BY ZenonT(30) DEF Awakes
  <2>2. g[m] \in FTask
    OBVIOUS
  <2> QED BY ZenonT(30), <1>0, <2>1, <2>2, GrantLocal
<1>4. n < Len(g) => ConflictRegions(c, w, g[n + 1]) # {}
  <2>1. (n + 1) - 1 = n
    OBVIOUS
  <2> QED BY ZenonT(30), <2>1 DEF Awakes
<1> HIDE DEF c
<1>5. LocalOK(c, w)
  <2> SUFFICES ASSUME NEW r \in Region, NEW j \in DOMAIN w[r],
                      NEW x \in DOMAIN c, c[x].region # r
               PROVE  Apart(c[x], w[r][j])
    BY Zenon, <1>0 DEF LocalOK
  <2>1. CASE x \in DOMAIN l
    BY Zenon, <1>0, <1>2, <2>1 DEF LocalOK
  <2>2. CASE x \notin DOMAIN l
    <3> DEFINE m == x - Len(l)
    <3>1. m \in 1 .. n /\ x = Len(l) + m
      BY <1>2, <2>2
    <3> HIDE DEF m
    <3> QED BY ZenonT(30), <1>2, <1>3, <3>1
  <2> QED BY Zenon, <2>1, <2>2
<1>6. HolderOK(c, w)
  <2>1. DOMAIN l \subseteq DOMAIN c
    BY <1>2
  <2>2. \A r : RegionHeld(l, r) => RegionHeld(c, r)
    BY Zenon, <1>2, <2>1 DEF RegionHeld
  <2> QED BY Zenon, <1>0, <2>2 DEF HolderOK
<1>7. Left(g, n) \in Seq(FTask) /\ Len(Left(g, n)) = Len(g) - n
  BY Zenon, LeftFacts
<1>8. Left(g, n) # <<>> => c # <<>>
  <2> SUFFICES ASSUME Left(g, n) # <<>> PROVE \E x : x \in DOMAIN c
    BY <1>1
  <2>1. n < Len(g)
    BY <1>7
  <2>2. PICK r \in Region : \/ w[r] # <<>>
                           \/ \E x \in DOMAIN c : c[x].region = r
    BY Zenon, <1>4, <2>1 DEF ConflictRegions
  <2> QED BY Zenon, <1>6, <2>2 DEF HolderOK, RegionHeld
<1>9. LockOK(c, w, Left(g, n))
  BY Zenon, <1>0, <1>1, <1>5, <1>6, <1>7, <1>8 DEF LockOK, RegionOK
<1> QED BY Zenon, <1>9 DEF c

\* flock_release of a task that waits for its region.
LEMMA LeaveRegion ==
    ASSUME NEW l, NEW w, NEW g, LockOK(l, w, g), NEW r \in Region,
           NEW i \in DOMAIN w[r]
    PROVE  LockOK(l, [w EXCEPT ![r] = RemoveAt(@, i)], g)
<1> DEFINE v == [w EXCEPT ![r] = RemoveAt(@, i)]
<1>0. /\ l \in Seq(FTask) /\ w \in [Region -> Seq(FTask)]
      /\ LocalOK(l, w) /\ OneQueue(w) /\ HolderOK(l, w)
      /\ w[r] \in Seq(FTask)
  BY Zenon DEF LockOK, RegionOK
<1>1. /\ RemoveAt(w[r], i) \in Seq(FTask)
      /\ \A x \in DOMAIN RemoveAt(w[r], i) :
             \E y \in DOMAIN w[r] : RemoveAt(w[r], i)[x] = w[r][y]
  BY <1>0, RemoveFacts, RemoveSubset
<1>2. v[r] = RemoveAt(w[r], i) /\ \A s \in Region : s # r => v[s] = w[s]
  BY Zenon, <1>0
<1>3. v \in [Region -> Seq(FTask)]
  BY Zenon, <1>0, <1>1
<1> HIDE DEF v
<1>4. \A s \in Region : \A x \in DOMAIN v[s] :
         \E y \in DOMAIN w[s] : v[s][x] = w[s][y]
  BY <1>1, <1>2
<1>5. LocalOK(l, v)
  BY <1>0, <1>4 DEF LocalOK
<1>6. \A s \in Region : v[s] # <<>> => w[s] # <<>>
  <2>1. w[r] # <<>>
    BY <1>0
  <2> QED BY Zenon, <1>2, <2>1
<1>7. OneQueue(v) /\ HolderOK(l, v)
  BY Zenon, <1>0, <1>6 DEF OneQueue, HolderOK
<1>8. LockOK(l, v, g)
  BY Zenon, <1>3, <1>5, <1>7 DEF LockOK, RegionOK
<1> QED BY Zenon, <1>8 DEF v

\* flock_release of a task that waits for several regions.
LEMMA LeaveGlobal ==
    ASSUME NEW l, NEW w, NEW g, LockOK(l, w, g), NEW i \in DOMAIN g
    PROVE  LockOK(l, w, RemoveAt(g, i))
<1>1. g \in Seq(FTask) /\ g # <<>>
  BY DEF LockOK
<1>2. RemoveAt(g, i) \in Seq(FTask)
  BY Zenon, <1>1, RemoveFacts
<1> QED BY Zenon, <1>1, <1>2 DEF LockOK

\* flock_apply makes a task wait for its region.
LEMMA WaitRegion ==
    ASSUME NEW l, NEW w, NEW g, LockOK(l, w, g), NEW f \in FTask,
           ConflictRegions(l, w, f) = {f.region}
    PROVE  LockOK(l, [w EXCEPT ![f.region] = Append(@, f)], g)
<1> DEFINE r == f.region
           v == [w EXCEPT ![r] = Append(@, f)]
<1>0. /\ l \in Seq(FTask) /\ w \in [Region -> Seq(FTask)]
      /\ LocalOK(l, w) /\ OneQueue(w) /\ HolderOK(l, w)
      /\ r \in Region /\ w[r] \in Seq(FTask)
  BY ZenonT(30) DEF LockOK, RegionOK, FTask
<1>1. /\ \A s \in Region : s # r /\ Overlap(r, s) => w[s] = <<>>
      /\ \A i \in DOMAIN l : l[i].region # r => Apart(l[i], f)
      /\ w[r] # <<>> \/ RegionHeld(l, r)
  <2>1. \A s \in Region : s # r => s \notin ConflictRegions(l, w, f)
    BY Zenon
  <2>2. \A s \in Region : s # r /\ Overlap(r, s) => w[s] = <<>>
    BY <1>0, <2>1 DEF ConflictRegions
  <2>3. ASSUME NEW i \in DOMAIN l, l[i].region # r PROVE Apart(l[i], f)
    <3>1. l[i] \in FTask /\ l[i].region \in Region
      <4>1. l[i] \in FTask
        BY <1>0
      <4> QED BY Zenon, <4>1 DEF FTask
    <3>2. Overlap(r, l[i].region) => ~Excludes(l[i], f)
      BY Zenon, <2>1, <2>3, <3>1 DEF ConflictRegions
    <3>3. Apart(f, l[i])
      BY Zenon, <3>2 DEF Apart, Excludes
    <3> QED BY Zenon, <3>1, <3>3, ApartSymmetric
  <2>4. w[r] # <<>> \/ RegionHeld(l, r)
    <3>1. r \in ConflictRegions(l, w, f)
      BY Zenon
    <3> QED BY Zenon, <3>1 DEF ConflictRegions, RegionHeld
  <2> QED BY Zenon, <2>2, <2>3, <2>4
<1>2. /\ v \in [Region -> Seq(FTask)] /\ v[r] = Append(w[r], f)
      /\ \A s \in Region : s # r => v[s] = w[s]
  BY <1>0
<1>3. /\ DOMAIN v[r] = DOMAIN w[r] \cup {Len(w[r]) + 1}
      /\ \A j \in DOMAIN w[r] : v[r][j] = w[r][j]
      /\ v[r][Len(w[r]) + 1] = f
  BY <1>0, <1>2
<1> HIDE DEF v
<1>4. LocalOK(l, v)
  <2> SUFFICES ASSUME NEW s \in Region, NEW j \in DOMAIN v[s]
               PROVE  /\ v[s][j].region = s
                      /\ \A i \in DOMAIN l :
                            l[i].region # s => Apart(l[i], v[s][j])
    BY Zenon DEF LocalOK
  <2>1. CASE s = r /\ j = Len(w[r]) + 1
    BY Zenon, <1>1, <1>3, <2>1
  <2>2. CASE ~(s = r /\ j = Len(w[r]) + 1)
    <3>1. j \in DOMAIN w[s] /\ v[s][j] = w[s][j]
      BY ZenonT(30), <1>2, <1>3, <2>2
    <3> QED BY Zenon, <1>0, <3>1 DEF LocalOK
  <2> QED BY Zenon, <2>1, <2>2
<1>5. \A s \in Region : Overlap(r, s) <=> Overlap(s, r)
  BY Zenon, <1>0, RegionAssumption DEF Overlap
<1>6. OneQueue(v)
  BY ZenonT(20), <1>0, <1>1, <1>2, <1>5 DEF OneQueue
<1>7. HolderOK(l, v)
  BY Zenon, <1>0, <1>1, <1>2 DEF HolderOK
<1>8. LockOK(l, v, g)
  BY Zenon, <1>2, <1>4, <1>6, <1>7 DEF LockOK, RegionOK
<1> QED BY Zenon, <1>8 DEF v

-----------------------------------------------------------------------------
(* The inductive invariant.                                                *)

SysOK == /\ sys_locked \in Task \cup {NULL} /\ sys_waiting \in Seq(Task)
         /\ sys_waiting # <<>> => sys_locked # NULL

\* A request in the queue is there, a connection being closed has a lock.
Pending == \A t \in Task : /\ stage[t] = "queued" => request[t] # NULL
                           /\ conn[t] = "closing" => ftasks[t] # <<>>

TaskOK ==
    /\ conn \in [Task -> {"open", "closing", "last", "closed"}]
    /\ ftasks \in [Task -> Seq(FTask)] /\ sys_task \in [Task -> BOOLEAN]
    /\ request \in [Task -> Request \cup {NULL}]
    /\ stage \in [Task -> {"idle", "queued", "waiting", "notified"}]
    /\ handing \in Handing \cup {NULL}
    /\ requests \in 0 .. MaxRequests /\ closes \in 0 .. MaxCloses
    /\ Pending

IInv == LockOK(locked, waiting, waiting_tasks) /\ SysOK /\ TaskOK

\* A file without locks, and no connection.
LEMMA InvInit == Init => IInv
<1> SUFFICES ASSUME Init PROVE IInv
  BY Zenon
<1>1. /\ locked = <<>> /\ waiting_tasks = <<>>
      /\ waiting = [r \in Region |-> <<>>]
  BY Zenon DEF Init
<1>2. RegionOK(locked, waiting)
  BY <1>1 DEF RegionOK, Compatible, LocalOK, OneQueue, HolderOK
<1>3. LockOK(locked, waiting, waiting_tasks)
  BY <1>1, <1>2 DEF LockOK
<1>4. SysOK
  BY DEF Init, SysOK
<1>5. TaskOK
  BY BoundsAssumption DEF Init, TaskOK, Pending
<1> QED BY Zenon, <1>3, <1>4, <1>5 DEF IInv

-----------------------------------------------------------------------------
(* Applying for a lock.                                                    *)

\* flock_apply finds somebody in conflict only when a lock is held.
LEMMA ConflictHeld ==
    ASSUME LockOK(locked, waiting, waiting_tasks), NEW f \in FTask,
           ~NoConflict(f)
    PROVE  locked # <<>>
<1>1. CASE ConflictRegions(locked, waiting, f) # {}
  <2>1. PICK r \in Region : \/ waiting[r] # <<>>
                            \/ \E x \in DOMAIN locked : locked[x].region = r
    BY Zenon, <1>1 DEF ConflictRegions
  <2>2. RegionHeld(locked, r)
    BY Zenon, <2>1 DEF LockOK, RegionOK, HolderOK, RegionHeld
  <2> QED BY <2>2 DEF RegionHeld
<1>2. CASE Overlapping(f) # {}
  <2>1. waiting_tasks # <<>>
    BY <1>2 DEF Overlapping
  <2> QED BY Zenon, <2>1 DEF LockOK
<1> QED BY Zenon, <1>1, <1>2 DEF NoConflict

\* A task that need not wait for several regions is in conflict with its own.
LEMMA ConflictLocal ==
    ASSUME NEW f \in FTask, ~NoConflict(f), ~Conflict(f).global
    PROVE  ConflictRegions(locked, waiting, f) = {f.region}
<1> DEFINE regions == ConflictRegions(locked, waiting, f)
           first == CHOOSE r \in regions : \A q \in regions : Before(r, q)
<1>1. /\ ~(Cardinality(regions) > 1) /\ Overlapping(f) = {}
      /\ first = f.region
  BY ZenonT(30) DEF Conflict
<1>2. regions # {}
  BY Zenon, <1>1 DEF NoConflict
<1>3. regions \subseteq Region
  BY Zenon DEF ConflictRegions
<1> HIDE DEF regions
<1>4. IsFiniteSet(regions)
  BY Zenon, <1>3, RegionAssumption, FS_Subset
<1>5. Cardinality(regions) \in Nat /\ Cardinality(regions) # 0
  BY ZenonT(20), <1>2, <1>4, FS_CardinalityType, FS_EmptySet
<1>6. Cardinality(regions) = 1
  BY <1>1, <1>5
<1>7. PICK x : regions = {x}
  BY ZenonT(30), <1>4, <1>6, FS_Singleton
<1>8. Before(x, x)
  <2>1. x \in [offset : Nat, length : Nat]
    BY Zenon, <1>3, <1>7, RegionAssumption
  <2> QED BY <2>1 DEF Before
<1>9. first = x
  BY Zenon, <1>7, <1>8
<1> QED BY ZenonT(30), <1>1, <1>7, <1>9 DEF regions

-----------------------------------------------------------------------------
(* Releasing.                                                              *)

\* What a step does to the stages of the tasks when it awakes some.
StageOK == /\ stage' \in [Task -> {"idle", "queued", "waiting", "notified"}]
           /\ \A t \in Task : stage'[t] = "queued" => stage[t] = "queued"

\* Notifying the awaked tasks ends their waiting.
LEMMA NotifyStage ==
    ASSUME NEW tasks, Notify(tasks), TaskOK
    PROVE  StageOK
BY Zenon DEF Notify, StageOK, TaskOK

\* flock_release keeps the lists of the file in order.
LEMMA ReleaseStep ==
    ASSUME IInv, NEW f \in FTask, Release(f)
    PROVE  LockOK(locked', waiting', waiting_tasks') /\ StageOK
<1>0. LockOK(locked, waiting, waiting_tasks) /\ TaskOK /\ f.region \in Region
  BY Zenon DEF IInv, FTask
<1>1. CASE ReleaseLocked(f)
  <2> DEFINE q == waiting[f.region]
  <2>1. PICK i \in DOMAIN locked, k \in 0 .. Len(q),
             n \in 0 .. Len(waiting_tasks) :
          /\ At(locked, f, i) /\ Awakes(RemoveAt(locked, i), NoQueues, q, k)
          /\ Awakes(RemoveAt(locked, i) \o Taken(q, k),
                    [waiting EXCEPT ![f.region] = Left(@, k)], waiting_tasks, n)
          /\ locked' = RemoveAt(locked, i) \o Taken(q, k) \o Taken(waiting_tasks, n)
          /\ waiting' = [waiting EXCEPT ![f.region] = Left(@, k)]
          /\ waiting_tasks' = Left(waiting_tasks, n)
          /\ NotifyAll(Taken(q, k) \o Taken(waiting_tasks, n))
    BY ZenonT(30), <1>1 DEF ReleaseLocked
  <2>2. locked[i].region = f.region
    BY Zenon, <2>1 DEF At
  <2>3. RegionOK(locked, waiting) /\ waiting_tasks \in Seq(FTask)
    BY Zenon, <1>0 DEF LockOK
  <2>4. RegionOK(RemoveAt(locked, i) \o Taken(q, k), waiting')
    BY ZenonT(30), <1>0, <2>1, <2>2, <2>3, ReleaseRegion
  <2>5. LockOK(locked', waiting', waiting_tasks')
    BY ZenonT(30), <2>1, <2>3, <2>4, ReleaseGlobal
  <2>6. StageOK
    BY Zenon, <1>0, <2>1, NotifyStage DEF NotifyAll
  <2> QED BY Zenon, <2>5, <2>6
<1>2. CASE ReleaseWaiting(f)
  <2>1. locked' = locked /\ stage' = stage
    BY Zenon, <1>2 DEF ReleaseWaiting
  <2>2. StageOK
    BY Zenon, <1>0, <2>1 DEF StageOK, TaskOK
  <2>3. CASE \E i \in DOMAIN waiting[f.region] :
               /\ At(waiting[f.region], f, i)
               /\ waiting' = [waiting EXCEPT ![f.region] = RemoveAt(@, i)]
               /\ UNCHANGED waiting_tasks
    <3>1. PICK i \in DOMAIN waiting[f.region] :
             waiting' = [waiting EXCEPT ![f.region] = RemoveAt(@, i)]
      BY ZenonT(30), <2>3
    <3>2. LockOK(locked, [waiting EXCEPT ![f.region] = RemoveAt(@, i)],
                 waiting_tasks)
      BY Zenon, <1>0, LeaveRegion
    <3> QED BY ZenonT(30), <2>1, <2>2, <2>3, <3>1, <3>2
  <2>4. CASE \E i \in DOMAIN waiting_tasks :
               /\ At(waiting_tasks, f, i)
               /\ waiting_tasks' = RemoveAt(waiting_tasks, i)
               /\ UNCHANGED waiting
    BY ZenonT(30), <1>0, <2>1, <2>2, <2>4, LeaveGlobal
  <2> QED BY ZenonT(30), <1>2, <2>3, <2>4 DEF ReleaseWaiting
<1> QED BY Zenon, <1>1, <1>2 DEF Release

\* sys_lock_release gives the lock to the next task.
LEMMA SysReleaseStep ==
    ASSUME IInv, NEW t \in Task, SysRelease(t)
    PROVE  SysOK'
<1>0. /\ sys_locked \in Task \cup {NULL} /\ sys_waiting \in Seq(Task)
      /\ sys_waiting # <<>> => sys_locked # NULL
  BY Zenon DEF IInv, SysOK
<1>1. CASE /\ sys_locked' = IF sys_waiting = <<>> THEN NULL ELSE Head(sys_waiting)
           /\ sys_waiting' = Left(sys_waiting, 1)
  <2>1. CASE sys_waiting = <<>>
    <3>1. sys_waiting' = <<>>
      BY <1>1, <2>1 DEF Left
    <3>2. <<>> \in Seq(Task)
      OBVIOUS
    <3> QED BY ZenonT(30), <1>1, <2>1, <3>1, <3>2 DEF SysOK
  <2>2. CASE sys_waiting # <<>>
    <3>1. Head(sys_waiting) \in Task /\ 1 \in 0 .. Len(sys_waiting)
      BY <1>0, <2>2
    <3>2. Left(sys_waiting, 1) \in Seq(Task)
      BY Zenon, <1>0, <3>1, LeftFacts
    <3> QED BY Zenon, <1>1, <2>2, <3>1, <3>2, NullAssumption DEF SysOK
  <2> QED BY Zenon, <2>1, <2>2
<1>2. CASE /\ \E i \in DOMAIN sys_waiting : sys_waiting' = RemoveAt(sys_waiting, i)
           /\ sys_locked' = sys_locked
  <2>1. PICK i \in DOMAIN sys_waiting : sys_waiting' = RemoveAt(sys_waiting, i)
    BY Zenon, <1>2
  <2>2. sys_waiting' \in Seq(Task)
    BY Zenon, <1>0, <2>1, RemoveFacts
  <2>3. sys_waiting # <<>>
    BY <1>0
  <2> QED BY Zenon, <1>0, <1>2, <2>2, <2>3 DEF SysOK
<1> QED BY Zenon, <1>1, <1>2 DEF SysRelease

-----------------------------------------------------------------------------
(* The invariant is inductive: requests.                                   *)

\* A connection that waits for an answer has its request pushed.
LEMMA PushStep ==
    ASSUME IInv, NEW t \in Task, NEW r \in Request, Push(t, r)
    PROVE  IInv'
<1>1. /\ request' = [request EXCEPT ![t] = r]
      /\ stage' = [stage EXCEPT ![t] = "queued"]
      /\ requests < MaxRequests /\ requests' = requests + 1
      /\ UNCHANGED <<locked, waiting, waiting_tasks, sys_locked, sys_waiting,
                     conn, ftasks, sys_task, handing, closes>>
  BY Zenon DEF Push, lock_vars, sys_vars
<1>2. NULL \notin Request
  BY Zenon, NullAssumption
<1>3. TaskOK'
  BY <1>1, <1>2, BoundsAssumption DEF IInv, TaskOK, Pending
<1> QED BY Zenon, <1>1, <1>3 DEF IInv, SysOK

\* A request goes to the data thread.
LEMMA ClientStep ==
    ASSUME IInv, NEW t \in Task,
           FlockRequest(t) \/ SysLockRequest(t) \/ SysUnlockRequest(t)
    PROVE  IInv'
<1>1. PICK r \in Request : Push(t, r)
  BY ZenonT(30) DEF FlockRequest, SysLockRequest, SysUnlockRequest, Request
<1> QED BY Zenon, <1>1, PushStep

\* flock_apply: the lock is granted, refused or waited for.
LEMMA FlockApplyStep ==
    ASSUME IInv, NEW t \in Task, FlockApply(t)
    PROVE  IInv'
<1> DEFINE f == [task |-> t, type |-> request[t].type,
                 region |-> request[t].region]
<1>1. /\ LockOK(locked, waiting, waiting_tasks) /\ SysOK /\ TaskOK
  BY Zenon DEF IInv
<1>2. f \in FTask /\ f.region \in Region
  <2>1. request[t] \in Request /\ request[t].op = "flock"
    BY Zenon, <1>1 DEF FlockApply, Deal, TaskOK, Pending
  <2>2. request[t].type \in Type /\ request[t].region \in Region
    BY ZenonT(20), <2>1 DEF Request
  <2> QED BY Zenon, <2>2 DEF FTask
<1>3. /\ request' = [request EXCEPT ![t] = NULL]
      /\ UNCHANGED <<sys_locked, sys_waiting, conn, ftasks, sys_task, requests,
                     closes>>
  BY ZenonT(20) DEF FlockApply, Deal, sys_vars
<1>4. \/ /\ NoConflict(f) /\ locked' = Append(locked, f)
         /\ HandOver(t, [op |-> "flock", ftask |-> f, granted |-> TRUE])
         /\ UNCHANGED <<waiting, waiting_tasks>>
      \/ Refuse(t) /\ UNCHANGED lock_vars
      \/ /\ ~NoConflict(f) /\ UNCHANGED locked
         /\ IF Conflict(f).global
            THEN /\ waiting_tasks' = Append(waiting_tasks, f)
                 /\ UNCHANGED waiting
            ELSE /\ waiting' = [waiting EXCEPT ![f.region] = Append(@, f)]
                 /\ UNCHANGED waiting_tasks
         /\ HandOver(t, [op |-> "flock", ftask |-> f, granted |-> FALSE])
  BY ZenonT(30) DEF FlockApply
<1> HIDE DEF f
<1>5. LockOK(locked', waiting', waiting_tasks')
  <2>1. CASE NoConflict(f) /\ locked' = Append(locked, f)
             /\ UNCHANGED <<waiting, waiting_tasks>>
    <3>1. ConflictRegions(locked, waiting, f) = {}
      BY Zenon, <2>1 DEF NoConflict
    <3> QED BY ZenonT(30), <1>1, <1>2, <2>1, <3>1, ApplyLocked
  <2>2. CASE UNCHANGED lock_vars
    BY Zenon, <1>1, <2>2 DEF lock_vars
  <2>3. CASE ~NoConflict(f) /\ UNCHANGED locked /\ Conflict(f).global
             /\ waiting_tasks' = Append(waiting_tasks, f) /\ UNCHANGED waiting
    <3>1. locked # <<>>
      BY ZenonT(20), <1>1, <1>2, <2>3, ConflictHeld
    <3> QED BY <1>1, <1>2, <2>3, <3>1 DEF LockOK
  <2>4. CASE ~NoConflict(f) /\ UNCHANGED locked /\ ~Conflict(f).global
             /\ waiting' = [waiting EXCEPT ![f.region] = Append(@, f)]
             /\ UNCHANGED waiting_tasks
    <3>1. ConflictRegions(locked, waiting, f) = {f.region}
      BY ZenonT(20), <1>2, <2>4, ConflictLocal
    <3> QED BY ZenonT(30), <1>1, <1>2, <2>4, <3>1, WaitRegion
  <2> QED BY ZenonT(30), <1>4, <2>1, <2>2, <2>3, <2>4
<1>6. TaskOK'
  <2>1. \/ handing' \in Handing /\ stage' = [stage EXCEPT ![t] = "waiting"]
        \/ handing' = handing /\ StageOK
    <3>1. \A b \in BOOLEAN :
             HandOver(t, [op |-> "flock", ftask |-> f, granted |-> b]) =>
                 /\ handing' \in Handing
                 /\ stage' = [stage EXCEPT ![t] = "waiting"]
      BY <1>2 DEF HandOver, Handing
    <3>2. Refuse(t) => handing' = handing /\ StageOK
      BY Zenon, <1>1, NotifyStage DEF Refuse
    <3> QED BY ZenonT(30), <1>4, <3>1, <3>2
  <2>2. /\ handing' \in Handing \cup {NULL}
        /\ stage' \in [Task -> {"idle", "queued", "waiting", "notified"}]
        /\ \A u \in Task : stage'[u] = "queued" => stage[u] = "queued"
    BY ZenonT(30), <1>1, <2>1 DEF StageOK, TaskOK
  <2>3. stage'[t] # "queued"
    <3>1. Refuse(t) => stage'[t] = "notified"
      BY Zenon DEF Refuse, Notify
    <3>2. \A h : HandOver(t, h) => stage'[t] = "waiting"
      BY Zenon, <1>1 DEF HandOver, TaskOK
    <3> QED BY Zenon, <1>4, <3>1, <3>2
  <2> QED BY ZenonT(30), <1>1, <1>3, <2>2, <2>3 DEF TaskOK, Pending
<1> QED BY Zenon, <1>1, <1>3, <1>5, <1>6 DEF IInv, SysOK

\* sys_lock_apply: the system lock is granted or waited for.
LEMMA SysLockApplyStep ==
    ASSUME IInv, NEW t \in Task, SysLockApply(t)
    PROVE  IInv'
<1>1. /\ LockOK(locked, waiting, waiting_tasks) /\ SysOK /\ TaskOK
  BY Zenon DEF IInv
<1>2. /\ request' = [request EXCEPT ![t] = NULL]
      /\ UNCHANGED <<locked, waiting, waiting_tasks, conn, ftasks, sys_task,
                     requests, closes>>
  BY Zenon DEF SysLockApply, Deal, lock_vars
<1>3. \/ /\ sys_locked = NULL /\ sys_locked' = t /\ UNCHANGED sys_waiting
         /\ HandOver(t, [op |-> "sys_lock", task |-> t, granted |-> TRUE])
      \/ Refuse(t) /\ UNCHANGED sys_vars
      \/ /\ sys_locked # NULL /\ UNCHANGED sys_locked
         /\ sys_waiting' = Append(sys_waiting, t)
         /\ HandOver(t, [op |-> "sys_lock", task |-> t, granted |-> FALSE])
  BY ZenonT(30) DEF SysLockApply
<1>4. SysOK'
  <2>1. CASE sys_locked' = t /\ UNCHANGED sys_waiting
    BY Zenon, <1>1, <2>1, NullAssumption DEF SysOK
  <2>2. CASE UNCHANGED sys_vars
    BY Zenon, <1>1, <2>2 DEF SysOK, sys_vars
  <2>3. CASE sys_locked # NULL /\ UNCHANGED sys_locked
             /\ sys_waiting' = Append(sys_waiting, t)
    BY <1>1, <2>3 DEF SysOK
  <2> QED BY ZenonT(30), <1>3, <2>1, <2>2, <2>3
<1>5. TaskOK'
  <2>1. \/ handing' \in Handing /\ stage' = [stage EXCEPT ![t] = "waiting"]
        \/ handing' = handing /\ StageOK
    <3>1. \A b \in BOOLEAN :
             HandOver(t, [op |-> "sys_lock", task |-> t, granted |-> b]) =>
                 /\ handing' \in Handing
                 /\ stage' = [stage EXCEPT ![t] = "waiting"]
      BY DEF HandOver, Handing
    <3>2. Refuse(t) => handing' = handing /\ StageOK
      BY Zenon, <1>1, NotifyStage DEF Refuse
    <3> QED BY ZenonT(30), <1>3, <3>1, <3>2
  <2>2. /\ handing' \in Handing \cup {NULL}
        /\ stage' \in [Task -> {"idle", "queued", "waiting", "notified"}]
        /\ \A u \in Task : stage'[u] = "queued" => stage[u] = "queued"
    BY ZenonT(30), <1>1, <2>1 DEF StageOK, TaskOK
  <2>3. stage'[t] # "queued"
    <3>1. Refuse(t) => stage'[t] = "notified"
      BY Zenon DEF Refuse, Notify
    <3>2. \A h : HandOver(t, h) => stage'[t] = "waiting"
      BY Zenon, <1>1 DEF HandOver, TaskOK
    <3> QED BY Zenon, <1>3, <3>1, <3>2
  <2> QED BY ZenonT(30), <1>1, <1>2, <2>2, <2>3 DEF TaskOK, Pending
<1> QED BY Zenon, <1>1, <1>2, <1>4, <1>5 DEF IInv

\* flock_done_notify: the lock is linked to its connection.
LEMMA FlockDoneStep ==
    ASSUME IInv, FlockDoneNotify
    PROVE  IInv'
<1>1. /\ LockOK(locked, waiting, waiting_tasks) /\ SysOK /\ TaskOK
  BY ZenonT(20) DEF IInv
<1>2. /\ handing \in Handing /\ handing' = NULL
      /\ UNCHANGED <<locked, waiting, waiting_tasks, sys_locked, sys_waiting,
                     conn, request, requests, closes>>
  BY ZenonT(20), <1>1 DEF FlockDoneNotify, TaskOK, lock_vars, sys_vars
<1>3. StageOK
  BY ZenonT(30), <1>1, NotifyStage DEF FlockDoneNotify
<1>4. /\ ftasks' \in [Task -> Seq(FTask)] /\ sys_task' \in [Task -> BOOLEAN]
      /\ \A t \in Task : ftasks[t] # <<>> => ftasks'[t] # <<>>
  <2>1. CASE handing.op = "flock"
    <3>1. handing.ftask \in FTask /\ handing.ftask.task \in Task
      <4>1. handing.ftask \in FTask
        BY Zenon, <1>2, <2>1 DEF Handing
      <4> QED BY Zenon, <4>1 DEF FTask
    <3>2. /\ ftasks' = [ftasks EXCEPT ![handing.ftask.task] =
                           Append(@, handing.ftask)]
          /\ sys_task' = sys_task
      BY Zenon, <2>1 DEF FlockDoneNotify
    <3> DEFINE f == handing.ftask
    <3> HIDE DEF f
    <3>3. /\ f \in FTask /\ f.task \in Task /\ sys_task' = sys_task
          /\ ftasks' = [ftasks EXCEPT ![f.task] = Append(@, f)]
          /\ ftasks \in [Task -> Seq(FTask)] /\ sys_task \in [Task -> BOOLEAN]
      BY ZenonT(30), <1>1, <3>1, <3>2 DEF f, TaskOK
    <3>4. /\ Append(ftasks[f.task], f) \in Seq(FTask)
          /\ Append(ftasks[f.task], f) # <<>>
      <4>1. ftasks[f.task] \in Seq(FTask)
        BY Zenon, <3>3
      <4> QED BY Zenon, <3>3, <4>1, ListFacts
    <3> QED BY Zenon, <3>3, <3>4
  <2>2. CASE handing.op = "sys_lock"
    <3>1. ftasks' = ftasks /\ sys_task' = [sys_task EXCEPT ![handing.task] = TRUE]
      BY Zenon, <2>2 DEF FlockDoneNotify
    <3> QED BY ZenonT(30), <1>1, <3>1 DEF TaskOK
  <2> QED BY ZenonT(20), <1>2, <2>1, <2>2 DEF Handing
<1>5. TaskOK'
  BY ZenonT(30), <1>1, <1>2, <1>3, <1>4 DEF TaskOK, Pending, StageOK
<1> QED BY Zenon, <1>1, <1>2, <1>5 DEF IInv, SysOK

\* The data thread releases the system lock.
LEMMA SysLockReleaseStep ==
    ASSUME IInv, NEW t \in Task, SysLockRelease(t)
    PROVE  IInv'
<1>1. /\ LockOK(locked, waiting, waiting_tasks) /\ SysOK /\ TaskOK
  BY Zenon DEF IInv
<1>2. /\ request' = [request EXCEPT ![t] = NULL]
      /\ UNCHANGED <<locked, waiting, waiting_tasks, conn, ftasks, handing,
                     requests, closes>>
  BY Zenon DEF SysLockRelease, Deal, lock_vars
<1>3. PICK tasks : Notify({t} \cup tasks)
  BY ZenonT(30) DEF SysLockRelease
<1>4. StageOK /\ stage'[t] # "queued"
  BY ZenonT(30), <1>1, <1>3, NotifyStage DEF Notify
<1>5. SysOK'
  <2>1. CASE SysRelease(t)
    BY ZenonT(20), <2>1, SysReleaseStep
  <2>2. CASE UNCHANGED sys_vars
    BY Zenon, <1>1, <2>2 DEF SysOK, sys_vars
  <2> QED BY ZenonT(30), <2>1, <2>2 DEF SysLockRelease
<1>6. sys_task' \in [Task -> BOOLEAN]
  BY ZenonT(30), <1>1 DEF SysLockRelease, TaskOK
<1>7. TaskOK'
  BY ZenonT(30), <1>1, <1>2, <1>4, <1>6 DEF TaskOK, Pending, StageOK
<1> QED BY Zenon, <1>1, <1>2, <1>5, <1>7 DEF IInv

-----------------------------------------------------------------------------
(* The invariant is inductive: unlocking and closing.                      *)

\* The answer is sent and the next request may come.
LEMMA ContinueStep ==
    ASSUME IInv, NEW t \in Task, Continue(t)
    PROVE  IInv'
<1>1. /\ stage' = [stage EXCEPT ![t] = "idle"]
      /\ UNCHANGED <<locked, waiting, waiting_tasks, sys_locked, sys_waiting,
                     conn, ftasks, sys_task, request, handing, requests, closes>>
  BY Zenon DEF Continue, lock_vars, sys_vars
<1>2. TaskOK'
  BY Zenon, <1>1 DEF IInv, TaskOK, Pending
<1> QED BY Zenon, <1>1, <1>2 DEF IInv, SysOK

\* flock_unlock_dentry: one lock of the connection is released.
LEMMA FlockUnlockStep ==
    ASSUME IInv, NEW t \in Task, FlockUnlock(t)
    PROVE  IInv'
<1>1. SysOK /\ TaskOK /\ ftasks[t] \in Seq(FTask)
  BY Zenon DEF IInv, TaskOK
<1>2. PICK i \in DOMAIN ftasks[t] :
         /\ ftasks' = [ftasks EXCEPT ![t] = RemoveAt(@, i)]
         /\ Release(ftasks[t][i])
  BY ZenonT(30) DEF FlockUnlock
<1>3. /\ conn[t] = "open"
      /\ UNCHANGED <<sys_locked, sys_waiting, conn, sys_task, request, handing,
                     requests, closes>>
  BY Zenon DEF FlockUnlock, sys_vars
<1>4. LockOK(locked', waiting', waiting_tasks') /\ StageOK
  <2>1. ftasks[t][i] \in FTask
    BY <1>1
  <2> QED BY Zenon, <1>2, <2>1, ReleaseStep
<1>5. /\ ftasks' \in [Task -> Seq(FTask)]
      /\ \A u \in Task : u # t => ftasks'[u] = ftasks[u]
  <2>1. RemoveAt(ftasks[t], i) \in Seq(FTask)
    BY Zenon, <1>1, RemoveFacts
  <2> QED BY ZenonT(20), <1>1, <1>2, <2>1 DEF TaskOK
<1>6. TaskOK'
  BY ZenonT(30), <1>1, <1>3, <1>4, <1>5 DEF TaskOK, Pending, StageOK
<1> QED BY ZenonT(20), <1>1, <1>3, <1>4, <1>6 DEF IInv, SysOK

\* sys_unlock_dentry: the system lock of the connection is released.
LEMMA SysUnlockStep ==
    ASSUME IInv, NEW t \in Task, SysUnlock(t)
    PROVE  IInv'
<1>1. /\ LockOK(locked, waiting, waiting_tasks) /\ TaskOK
  BY Zenon DEF IInv
<1>2. /\ SysRelease(t) /\ Notify(SysAwaked(t))
      /\ sys_task' = [sys_task EXCEPT ![t] = FALSE]
      /\ UNCHANGED <<locked, waiting, waiting_tasks, conn, ftasks, request,
                     handing, requests, closes>>
  BY Zenon DEF SysUnlock, lock_vars
<1>3. SysOK' /\ StageOK
  BY ZenonT(20), <1>1, <1>2, SysReleaseStep, NotifyStage
<1>4. TaskOK'
  BY ZenonT(30), <1>1, <1>2, <1>3 DEF TaskOK, Pending, StageOK
<1> QED BY Zenon, <1>1, <1>2, <1>3, <1>4 DEF IInv

\* The connection breaks.
LEMMA CloseStep ==
    ASSUME IInv, NEW t \in Task, Close(t)
    PROVE  IInv'
<1>1. /\ closes < MaxCloses /\ closes' = closes + 1
      /\ conn' = [conn EXCEPT ![t] =
                      IF ftasks[t] = <<>> THEN "last" ELSE "closing"]
      /\ UNCHANGED <<locked, waiting, waiting_tasks, sys_locked, sys_waiting,
                     ftasks, sys_task, request, stage, handing, requests>>
  BY Zenon DEF Close, lock_vars, sys_vars
<1>2. TaskOK'
  BY <1>1, BoundsAssumption DEF IInv, TaskOK, Pending
<1> QED BY Zenon, <1>1, <1>2 DEF IInv, SysOK

\* The cleanup releases the locks of the connection one by one,
LEMMA CleanupFlockStep ==
    ASSUME IInv, NEW t \in Task, CleanupFlock(t)
    PROVE  IInv'
<1>1. SysOK /\ TaskOK /\ ftasks[t] \in Seq(FTask) /\ ftasks[t] # <<>>
  BY Zenon DEF IInv, TaskOK, Pending, CleanupFlock
<1>2. /\ Release(Head(ftasks[t]))
      /\ ftasks' = [ftasks EXCEPT ![t] = Tail(@)]
      /\ conn' = [conn EXCEPT ![t] = IF Len(ftasks[t]) = 1 THEN "last" ELSE @]
      /\ UNCHANGED <<sys_locked, sys_waiting, sys_task, request, handing,
                     requests, closes>>
  BY Zenon DEF CleanupFlock, sys_vars
<1>3. /\ Head(ftasks[t]) \in FTask /\ Tail(ftasks[t]) \in Seq(FTask)
      /\ Len(ftasks[t]) # 1 => Tail(ftasks[t]) # <<>>
  BY Zenon, <1>1, ListFacts
<1>4. LockOK(locked', waiting', waiting_tasks') /\ StageOK
  BY Zenon, <1>2, <1>3, ReleaseStep
<1>5. /\ ftasks' \in [Task -> Seq(FTask)]
      /\ conn' \in [Task -> {"open", "closing", "last", "closed"}]
      /\ \A u \in Task : conn'[u] = "closing" => ftasks'[u] # <<>>
  BY Zenon, <1>1, <1>2, <1>3 DEF TaskOK, Pending
<1>6. TaskOK'
  BY ZenonT(30), <1>1, <1>2, <1>4, <1>5 DEF TaskOK, Pending, StageOK
<1> QED BY Zenon, <1>1, <1>2, <1>4, <1>6 DEF IInv, SysOK

\* and its system lock last.
LEMMA CleanupSysStep ==
    ASSUME IInv, NEW t \in Task, CleanupSys(t)
    PROVE  IInv'
<1>1. /\ LockOK(locked, waiting, waiting_tasks) /\ SysOK /\ TaskOK
  BY Zenon DEF IInv
<1>2. /\ sys_task' = [sys_task EXCEPT ![t] = FALSE]
      /\ conn' = [conn EXCEPT ![t] = "closed"]
      /\ UNCHANGED <<locked, waiting, waiting_tasks, ftasks, request, handing,
                     requests, closes>>
  BY Zenon DEF CleanupSys, lock_vars
<1>3. SysOK' /\ StageOK
  <2>1. CASE SysRelease(t) /\ Notify(SysAwaked(t))
    BY Zenon, <1>1, <2>1, SysReleaseStep, NotifyStage
  <2>2. CASE UNCHANGED <<sys_vars, stage>>
    BY Zenon, <1>1, <2>2 DEF SysOK, sys_vars, StageOK, TaskOK
  <2> QED BY ZenonT(30), <2>1, <2>2 DEF CleanupSys
<1>4. TaskOK'
  BY ZenonT(30), <1>1, <1>2, <1>3 DEF TaskOK, Pending, StageOK
<1> QED BY Zenon, <1>1, <1>2, <1>3, <1>4 DEF IInv

\* The task serves a new connection.
LEMMA AcceptStep ==
    ASSUME IInv, NEW t \in Task, Accept(t)
    PROVE  IInv'
<1>1. /\ conn' = [conn EXCEPT ![t] = "open"]
      /\ UNCHANGED <<locked, waiting, waiting_tasks, sys_locked, sys_waiting,
                     ftasks, sys_task, request, stage, handing, requests, closes>>
  BY Zenon DEF Accept, lock_vars, sys_vars
<1>2. TaskOK'
  BY Zenon, <1>1 DEF IInv, TaskOK, Pending
<1> QED BY Zenon, <1>1, <1>2 DEF IInv, SysOK

-----------------------------------------------------------------------------
(* The theorems.                                                           *)

\* Every step keeps the invariant.
LEMMA InvStep == IInv /\ [Next]_vars => IInv'
<1> SUFFICES ASSUME IInv, [Next]_vars PROVE IInv'
  BY Zenon
<1>1. CASE UNCHANGED vars
  BY Zenon, <1>1 DEF vars, lock_vars, sys_vars, IInv, SysOK, TaskOK, Pending
<1>2. CASE FlockDoneNotify
  BY Zenon, <1>2, FlockDoneStep
<1>3. ASSUME NEW t \in Task, Client(t) PROVE IInv'
  BY Zenon, <1>3, ClientStep, FlockUnlockStep, SysUnlockStep DEF Client
<1>4. ASSUME NEW t \in Task, DataThread(t) PROVE IInv'
  BY Zenon, <1>4, FlockApplyStep, SysLockApplyStep, SysLockReleaseStep DEF DataThread
<1>5. ASSUME NEW t \in Task,
             Continue(t) \/ Close(t) \/ Cleanup(t) \/ Accept(t)
      PROVE  IInv'
  BY Zenon, <1>5, ContinueStep, CloseStep, CleanupFlockStep, CleanupSysStep, AcceptStep
     DEF Cleanup
<1> QED BY Zenon, <1>1, <1>2, <1>3, <1>4, <1>5 DEF Next

\* The inductive invariant: who waits for a region is kept out by its holders
\* only, and of two overlapping regions one has no tasks that wait for it.
THEOREM Inductive == Spec => []IInv
BY InvInit, InvStep, PTL DEF Spec

\* Every list of the file and of the connections holds what it is for.
THEOREM TypeCorrect == Spec => []TypeOK
<1>1. IInv => TypeOK
  BY DEF IInv, LockOK, RegionOK, SysOK, TaskOK, TypeOK
<1> QED BY <1>1, Inductive, PTL

\* Two locks on a common byte are held together only if both are shared.
THEOREM Exclusion == Spec => []HoldersCompatible
<1>1. IInv => HoldersCompatible
  <2> SUFFICES ASSUME IInv, NEW i \in DOMAIN locked, NEW j \in DOMAIN locked,
                      i # j, Meet(locked[i].region, locked[j].region)
               PROVE  locked[i].type = "LOCK_SH" /\ locked[j].type = "LOCK_SH"
    BY Zenon DEF HoldersCompatible
  <2>1. locked \in Seq(FTask) /\ Compatible(locked)
    BY Zenon DEF IInv, LockOK, RegionOK
  <2>2. locked[i] \in FTask /\ locked[j] \in FTask
    BY <2>1
  <2>3. Overlap(locked[i].region, locked[j].region)
    BY Zenon, <2>2, MeetOverlap DEF FTask
  <2>4. ~Excludes(locked[i], locked[j])
    BY Zenon, <2>1, <2>3 DEF Compatible, Apart
  <2> QED BY <2>2, <2>4 DEF Excludes, FTask, Type
<1> QED BY <1>1, Inductive, PTL

\* Whoever waits, waits for a lock whose release will look at it: awaking stops
\* early only at a task that somebody keeps out who will awake it in turn.
THEOREM NoLostWakeup == Spec => []WaitersHaveHolder
<1>1. IInv => WaitersHaveHolder
  BY DEF IInv, LockOK, RegionOK, HolderOK, RegionHeld, SysOK, WaitersHaveHolder
<1> QED BY <1>1, Inductive, PTL

-----------------------------------------------------------------------------
(* What is counted.                                                        *)

\* How often a lock, or a task for the system lock, is in a queue.
Waits(f) == Count(waiting_tasks, f) + Count(waiting[f.region], f)
SysWaits(t) == Count(sys_waiting, t)
NotWaiting(t) == SysWaits(t) = 0 /\ \A f \in FTask : f.task = t => Waits(f) = 0

\* A task waits at one place, and only while its request does.
WaitsOnce ==
    /\ \A f \in FTask : Waits(f) > 0 =>
          /\ Waits(f) = 1 /\ stage[f.task] = "waiting" /\ SysWaits(f.task) = 0
          /\ \A g \in FTask : g.task = f.task /\ g # f => Waits(g) = 0
    /\ \A t \in Task :
          SysWaits(t) > 0 => SysWaits(t) = 1 /\ stage[t] = "waiting"

\* The task whose lock is handed over.  If it need not wait it is in no queue,
\* and one that gets the system lock does not have it.
HandedTask == IF handing.op = "flock" THEN handing.ftask.task ELSE handing.task
GrantedOK == handing # NULL /\ handing.granted =>
                 stage[HandedTask] = "waiting" /\ NotWaiting(HandedTask)
NewSysLock == handing # NULL /\ handing.op = "sys_lock" =>
                  ~sys_task[handing.task]

\* What a connection has is its own.
Owned == \A t \in Task : \A i \in DOMAIN ftasks[t] : ftasks[t][i].task = t

\* How often a lock is in the list of its connection or on its way there, and
\* how often it is held or waited for.
Listed(f) == Count(ftasks[f.task], f) + Count(FlockHanded, f)
Total(f) == Count(locked, f) + Waits(f)
SysListed(t) == (IF sys_task[t] THEN 1 ELSE 0) + Count(SysLockHanded, t)
SysTotal(t) == One(sys_locked, t) + SysWaits(t)

FlocksListed == \A f \in FTask : Listed(f) = Total(f)
SysLocksListed == \A t \in Task : SysListed(t) = SysTotal(t)
Registered == /\ WaitsOnce /\ GrantedOK /\ NewSysLock /\ Owned
              /\ FlocksListed /\ SysLocksListed

\* The lists of locks are lists of locks.
LEMMA Lists ==
    ASSUME IInv
    PROVE  /\ locked \in Seq(FTask) /\ waiting_tasks \in Seq(FTask)
           /\ \A f \in FTask : /\ f.task \in Task /\ f.region \in Region
                               /\ waiting[f.region] \in Seq(FTask)
                               /\ ftasks[f.task] \in Seq(FTask)
           /\ \A t \in Task : ftasks[t] \in Seq(FTask)
           /\ sys_locked \in Task \cup {NULL} /\ sys_waiting \in Seq(Task)
           /\ stage \in [Task -> {"idle", "queued", "waiting", "notified"}]
           /\ handing \in Handing \cup {NULL}
<1>1. \A f \in FTask : f.task \in Task /\ f.region \in Region
  BY Zenon DEF FTask
<1> QED BY ZenonT(30), <1>1 DEF IInv, LockOK, RegionOK, SysOK, TaskOK

\* The lock that is handed over.
LEMMA HandedFacts ==
    ASSUME IInv
    PROVE  /\ handing = NULL => FlockHanded = <<>> /\ SysLockHanded = <<>>
           /\ handing # NULL =>
                 /\ HandedTask \in Task
                 /\ handing.granted \in BOOLEAN
                 /\ \/ /\ handing.op = "flock" /\ handing.ftask \in FTask
                       /\ HandedTask = handing.ftask.task
                       /\ FlockHanded = <<handing.ftask>>
                       /\ SysLockHanded = <<>>
                    \/ /\ handing.op = "sys_lock" /\ handing.task \in Task
                       /\ HandedTask = handing.task
                       /\ FlockHanded = <<>>
                       /\ SysLockHanded = <<handing.task>>
           /\ FlockHanded \in Seq(FTask) /\ SysLockHanded \in Seq(Task)
<1>1. handing = NULL => FlockHanded = <<>> /\ SysLockHanded = <<>>
  BY Zenon DEF FlockHanded, SysLockHanded
<1>2. CASE handing = NULL
  BY <1>1, <1>2
<1>3. CASE handing # NULL
  <2>1. handing \in Handing
    BY Zenon, <1>3, Lists
  <2>2. \/ handing.op = "flock" /\ handing.ftask \in FTask
        \/ handing.op = "sys_lock" /\ handing.task \in Task
    BY Zenon, <2>1 DEF Handing
  <2>3. handing.granted \in BOOLEAN
    BY Zenon, <2>1 DEF Handing
  <2>4. CASE handing.op = "flock"
    <3>1. /\ handing.ftask \in FTask /\ HandedTask = handing.ftask.task
          /\ FlockHanded = <<handing.ftask>> /\ SysLockHanded = <<>>
      BY Zenon, <1>3, <2>2, <2>4 DEF HandedTask, FlockHanded, SysLockHanded
    <3>2. handing.ftask.task \in Task
      BY Zenon, <3>1, Lists
    <3>3. <<handing.ftask>> \in Seq(FTask) /\ <<>> \in Seq(Task)
      BY <3>1
    <3> QED BY Zenon, <1>3, <2>3, <2>4, <3>1, <3>2, <3>3
  <2>5. CASE handing.op = "sys_lock"
    <3>1. /\ handing.task \in Task /\ HandedTask = handing.task
          /\ SysLockHanded = <<handing.task>> /\ FlockHanded = <<>>
      BY Zenon, <1>3, <2>2, <2>5 DEF HandedTask, FlockHanded, SysLockHanded
    <3>2. <<handing.task>> \in Seq(Task) /\ <<>> \in Seq(FTask)
      BY <3>1
    <3> QED BY Zenon, <1>3, <2>3, <2>5, <3>1, <3>2
  <2> QED BY Zenon, <2>2, <2>4, <2>5
<1> QED BY Zenon, <1>2, <1>3

\* All that is counted is a number.
LEMMA CountNat ==
    ASSUME IInv
    PROVE  /\ \A f \in FTask :
                 /\ Count(locked, f) \in Nat /\ Count(waiting_tasks, f) \in Nat
                 /\ Count(waiting[f.region], f) \in Nat
                 /\ Count(ftasks[f.task], f) \in Nat
                 /\ Count(FlockHanded, f) \in Nat
                 /\ Waits(f) \in Nat
           /\ \A t \in Task : Count(SysLockHanded, t) \in Nat /\ SysWaits(t) \in Nat
<1>1. \A f \in FTask :
         /\ Count(locked, f) \in Nat /\ Count(waiting_tasks, f) \in Nat
         /\ Count(waiting[f.region], f) \in Nat
         /\ Count(ftasks[f.task], f) \in Nat
         /\ Count(FlockHanded, f) \in Nat
  BY ZenonT(30), Lists, HandedFacts, CountType
<1>2. \A f \in FTask : Waits(f) \in Nat
  BY <1>1 DEF Waits
<1>3. \A t \in Task : Count(SysLockHanded, t) \in Nat /\ SysWaits(t) \in Nat
  BY ZenonT(30), Lists, HandedFacts, CountType DEF SysWaits
<1> QED BY Zenon, <1>1, <1>2, <1>3

\* The property, in these terms.
LEMMA RegisteredProperty ==
    ASSUME IInv, FlocksListed, SysLocksListed
    PROVE  LocksRegistered
<1>1. ASSUME NEW f \in FTask
      PROVE  Count(ftasks[f.task], f) + Count(FlockHanded, f) =
                 Count(locked, f) + Count(waiting_tasks, f)
                     + Count(waiting[f.region], f)
  <2>1. Listed(f) = Total(f)
    BY Zenon DEF FlocksListed
  <2> QED BY <2>1, CountNat DEF Listed, Total, Waits
<1>2. ASSUME NEW t \in Task
      PROVE  Count(<<sys_locked>> \o sys_waiting, t) = SysTotal(t)
  <2>1. <<sys_locked>> \in Seq(Task \cup {NULL})
    BY Lists
  <2>2. sys_waiting \in Seq(Task \cup {NULL})
    BY Lists
  <2>3. Count(<<sys_locked>> \o sys_waiting, t) =
            Count(<<sys_locked>>, t) + Count(sys_waiting, t)
    BY Zenon, <2>1, <2>2, CountConcat
  <2>4. Count(<<sys_locked>>, t) = One(sys_locked, t)
    BY Zenon, CountOne
  <2> QED BY Zenon, <2>3, <2>4 DEF SysTotal, SysWaits
<1> QED BY Zenon, <1>1, <1>2 DEF SysLocksListed, SysListed, LocksRegistered

Numbers == /\ \A f \in FTask : Waits(f) \in Nat
           /\ \A t \in Task : SysWaits(t) \in Nat
\* So are they after a step.
LEMMA Measured == IInv => Numbers
BY Zenon, CountNat DEF Numbers

CountedNat == \A f \in FTask : /\ Count(locked, f) \in Nat /\ Waits(f) \in Nat
                               /\ Count(ftasks[f.task], f) \in Nat
\* The locks of a connection, too.
LEMMA Counted == IInv => CountedNat
BY Zenon, CountNat DEF CountedNat

\* A task that leaves the queues, or whose stage changes when it is in none.
LEMMA KeepWaits ==
    ASSUME IInv, IInv', WaitsOnce,
           \A f \in FTask : Waits(f)' <= Waits(f),
           \A t \in Task : SysWaits(t)' <= SysWaits(t),
           \A t \in Task : stage'[t] = stage[t] \/ NotWaiting(t)'
    PROVE  WaitsOnce'
<1>0. /\ \A f \in FTask : Waits(f) \in Nat /\ Waits(f)' \in Nat /\ f.task \in Task
      /\ \A t \in Task : SysWaits(t) \in Nat /\ SysWaits(t)' \in Nat
  <2>1. Numbers /\ Numbers'
    BY Measured, PTL
  <2>2. \A f \in FTask : f.task \in Task
    BY Zenon, Lists
  <2> QED BY Zenon, <2>1, <2>2 DEF Numbers
<1>1. ASSUME NEW f \in FTask, Waits(f)' > 0
      PROVE  /\ Waits(f)' = 1 /\ stage'[f.task] = "waiting"
             /\ SysWaits(f.task)' = 0
             /\ \A g \in FTask : g.task = f.task /\ g # f => Waits(g)' = 0
  <2>1. Waits(f) > 0
    BY <1>0, <1>1
  <2>2. /\ Waits(f) = 1 /\ stage[f.task] = "waiting" /\ SysWaits(f.task) = 0
        /\ \A g \in FTask : g.task = f.task /\ g # f => Waits(g) = 0
    BY Zenon, <2>1 DEF WaitsOnce
  <2>3. stage'[f.task] = stage[f.task]
    <3>1. ~NotWaiting(f.task)'
      BY <1>0, <1>1 DEF NotWaiting
    <3> QED BY Zenon, <1>0, <3>1
  <2>4. /\ Waits(f)' = 1 /\ SysWaits(f.task)' = 0
        /\ \A g \in FTask : g.task = f.task /\ g # f => Waits(g)' = 0
    BY <1>0, <1>1, <2>2
  <2> QED BY Zenon, <2>2, <2>3, <2>4
<1>2. ASSUME NEW t \in Task, SysWaits(t)' > 0
      PROVE  SysWaits(t)' = 1 /\ stage'[t] = "waiting"
  <2>1. SysWaits(t) > 0
    BY <1>0, <1>2
  <2>2. SysWaits(t) = 1 /\ stage[t] = "waiting"
    BY Zenon, <2>1 DEF WaitsOnce
  <2>3. stage'[t] = stage[t]
    <3>1. ~NotWaiting(t)'
      BY <1>0, <1>2 DEF NotWaiting
    <3> QED BY Zenon, <3>1
  <2>4. SysWaits(t)' = 1
    BY <1>0, <1>2, <2>2
  <2> QED BY Zenon, <2>2, <2>3, <2>4
<1> QED BY Zenon, <1>1, <1>2 DEF WaitsOnce

\* A lock that is being handed over and need not wait.
LEMMA KeepGranted ==
    ASSUME IInv, IInv', GrantedOK, handing' = handing,
           \A f \in FTask : Waits(f)' <= Waits(f),
           \A t \in Task : SysWaits(t)' <= SysWaits(t),
           \A t \in Task : stage'[t] = stage[t] \/ stage[t] # "waiting"
                                                \/ ~NotWaiting(t)
    PROVE  GrantedOK'
<1> SUFFICES ASSUME handing # NULL, handing.granted
             PROVE  stage'[HandedTask'] = "waiting" /\ NotWaiting(HandedTask)'
  BY Zenon DEF GrantedOK
<1>0. /\ \A f \in FTask : Waits(f) \in Nat /\ Waits(f)' \in Nat /\ f.task \in Task
      /\ \A t \in Task : SysWaits(t) \in Nat /\ SysWaits(t)' \in Nat
  <2>1. Numbers /\ Numbers'
    BY Measured, PTL
  <2>2. \A f \in FTask : f.task \in Task
    BY Zenon, Lists
  <2> QED BY Zenon, <2>1, <2>2 DEF Numbers
<1>1. PICK t \in Task : t = HandedTask /\ t = HandedTask'
  BY Zenon, HandedFacts DEF HandedTask
<1>2. stage[t] = "waiting" /\ NotWaiting(t)
  BY Zenon, <1>1 DEF GrantedOK, NotWaiting
<1>3. stage'[t] = "waiting"
  BY Zenon, <1>1, <1>2
<1>4. SysWaits(t)' = 0 /\ \A f \in FTask : f.task = t => Waits(f)' = 0
  <2>1. SysWaits(t) = 0 /\ \A f \in FTask : f.task = t => Waits(f) = 0
    BY Zenon, <1>2 DEF NotWaiting
  <2>2. SysWaits(t)' = 0
    BY <1>0, <1>1, <2>1
  <2>3. ASSUME NEW f \in FTask, f.task = t PROVE Waits(f)' = 0
    <3>1. Waits(f) = 0 /\ Waits(f)' <= Waits(f) /\ Waits(f)' \in Nat
      BY Zenon, <1>0, <2>1, <2>3
    <3> QED BY <3>1
  <2> QED BY Zenon, <2>2, <2>3
<1> QED BY Zenon, <1>1, <1>3, <1>4 DEF NotWaiting

\* A lock that is somewhere in a list is counted,
LEMMA CountSome ==
    ASSUME NEW S, NEW q \in Seq(S), NEW i \in DOMAIN q
    PROVE  Count(q, q[i]) >= 1
<1> DEFINE f == q[i]
<1>1. Count(q, f) = Count(RemoveAt(q, i), f) + One(q[i], f)
  BY Zenon, CountRemove
<1>2. RemoveAt(q, i) \in Seq(S)
  BY Zenon, RemoveFacts
<1>3. Count(RemoveAt(q, i), f) \in Nat
  BY Zenon, <1>2, CountType
<1>4. One(q[i], f) = 1
  BY Zenon DEF One
<1> HIDE DEF f
<1>5. Count(q, f) >= 1
  BY <1>1, <1>3, <1>4
<1> QED BY Zenon, <1>5 DEF f

\* and one that is nowhere is not.
LEMMA CountNone ==
    ASSUME NEW q, NEW f, \A i \in DOMAIN q : q[i] # f
    PROVE  Count(q, f) = 0
<1>1. {i \in DOMAIN q : q[i] = f} = {}
  BY Zenon
<1> QED BY Zenon, <1>1, FS_EmptySet DEF Count

\* awake_waiting_tasks and flock_release move tasks from the queues to the
\* locked list and take one lock away.
LEMMA ReleaseLockedCounts ==
    ASSUME IInv, NEW f \in FTask, ReleaseLocked(f)
    PROVE  \E aw \in Seq(FTask) :
               /\ NotifyAll(aw)
               /\ \A g \in FTask : /\ Total(g) = Total(g)' + One(f, g)
                                   /\ Waits(g)' + Count(aw, g) <= Waits(g)
<1> DEFINE q == waiting[f.region]
<1>0. /\ locked \in Seq(FTask) /\ waiting_tasks \in Seq(FTask)
      /\ f.region \in Region /\ q \in Seq(FTask)
      /\ waiting \in [Region -> Seq(FTask)]
      /\ \A g \in FTask : g.region \in Region
  BY Zenon, Lists DEF IInv, LockOK, RegionOK
<1>1. PICK i \in DOMAIN locked, k \in 0 .. Len(q),
           n \in 0 .. Len(waiting_tasks) :
        /\ At(locked, f, i)
        /\ locked' = RemoveAt(locked, i) \o Taken(q, k) \o Taken(waiting_tasks, n)
        /\ waiting' = [waiting EXCEPT ![f.region] = Left(@, k)]
        /\ waiting_tasks' = Left(waiting_tasks, n)
        /\ NotifyAll(Taken(q, k) \o Taken(waiting_tasks, n))
  BY ZenonT(30) DEF ReleaseLocked
<1> DEFINE h == RemoveAt(locked, i)
           a == Taken(q, k)
           b == Taken(waiting_tasks, n)
<1>2. h \in Seq(FTask) /\ a \in Seq(FTask) /\ b \in Seq(FTask)
  BY Zenon, <1>0, RemoveFacts, TakenFacts
<1>3. a \o b \in Seq(FTask) /\ h \o a \in Seq(FTask)
  BY Zenon, <1>2, ConcatFacts
<1>4. ASSUME NEW g \in FTask
      PROVE  /\ Count(locked, g) = Count(h, g) + One(f, g)
             /\ Count(q, g) = Count(a, g) + Count(Left(q, k), g)
             /\ Count(waiting_tasks, g) =
                    Count(b, g) + Count(Left(waiting_tasks, n), g)
  <2>1. Count(locked, g) = Count(h, g) + One(locked[i], g)
    BY Zenon, <1>0, CountRemove
  <2>2. locked[i] = f
    BY Zenon, <1>1 DEF At
  <2>3. Count(q, g) = Count(a, g) + Count(Left(q, k), g)
    BY Zenon, <1>0, CountTaken
  <2>4. Count(waiting_tasks, g) = Count(b, g) + Count(Left(waiting_tasks, n), g)
    BY Zenon, <1>0, CountTaken
  <2> QED BY Zenon, <2>1, <2>2, <2>3, <2>4
<1>5. /\ locked' = (h \o a) \o b
      /\ \A r \in Region : waiting'[r] = IF r = f.region THEN Left(q, k)
                                                         ELSE waiting[r]
      /\ waiting_tasks' = Left(waiting_tasks, n)
      /\ NotifyAll(a \o b)
  BY Zenon, <1>0, <1>1
<1>6. ASSUME NEW g \in FTask
      PROVE  /\ Count((h \o a) \o b, g) = Count(h, g) + Count(a, g) + Count(b, g)
             /\ Count(a \o b, g) = Count(a, g) + Count(b, g)
  <2>1. Count((h \o a) \o b, g) = Count(h \o a, g) + Count(b, g)
    BY Zenon, <1>2, <1>3, CountConcat
  <2>2. Count(h \o a, g) = Count(h, g) + Count(a, g)
    BY Zenon, <1>2, CountConcat
  <2>3. Count(a \o b, g) = Count(a, g) + Count(b, g)
    BY Zenon, <1>2, CountConcat
  <2> QED BY Zenon, <2>1, <2>2, <2>3
<1>7. Left(q, k) \in Seq(FTask) /\ Left(waiting_tasks, n) \in Seq(FTask)
  BY Zenon, <1>0, LeftFacts
<1>8. ASSUME NEW g \in FTask
      PROVE  Count(waiting[g.region], g) =
                 Count(a, g) + Count(waiting'[g.region], g)
  <2>1. CASE g.region = f.region
    BY Zenon, <1>0, <1>4, <1>5, <2>1
  <2>2. CASE g.region # f.region
    <3>1. \A j \in DOMAIN q : q[j] # g
      <4>1. LocalOK(locked, waiting) /\ f.region \in Region
        BY Zenon, <1>0 DEF IInv, LockOK, RegionOK
      <4>2. \A j \in DOMAIN q : q[j].region = f.region
        BY Zenon, <4>1 DEF LocalOK
      <4> QED BY Zenon, <2>2, <4>2
    <3>2. Count(q, g) = 0
      BY Zenon, <3>1, CountNone
    <3>3. Count(a, g) \in Nat /\ Count(Left(q, k), g) \in Nat
      BY Zenon, <1>2, <1>7, CountType
    <3>4. Count(a, g) = 0
      <4>1. Count(q, g) = Count(a, g) + Count(Left(q, k), g)
        BY Zenon, <1>4
      <4> HIDE DEF a, q
      <4> QED BY <3>2, <3>3, <4>1
    <3>5. waiting'[g.region] = waiting[g.region]
      BY Zenon, <1>0, <1>5, <2>2
    <3>6. Count(waiting[g.region], g) \in Nat
      BY Zenon, CountNat
    <3> HIDE DEF a
    <3> QED BY <3>4, <3>5, <3>6
  <2> QED BY Zenon, <2>1, <2>2
<1> HIDE DEF q, h, a, b
<1>9. ASSUME NEW g \in FTask
      PROVE  /\ Total(g) = Total(g)' + One(f, g)
             /\ Waits(g)' + Count(a \o b, g) <= Waits(g)
  <2> DEFINE lw == Left(waiting_tasks, n)
             v == waiting'[g.region]
             w == waiting[g.region]
             c == (h \o a) \o b
             d == a \o b
  <2>1. /\ Total(g) = Count(locked, g) + (Count(waiting_tasks, g) + Count(w, g))
        /\ Total(g)' = Count(c, g) + (Count(lw, g) + Count(v, g))
        /\ Waits(g) = Count(waiting_tasks, g) + Count(w, g)
        /\ Waits(g)' = Count(lw, g) + Count(v, g)
    BY Zenon, <1>5 DEF Total, Waits
  <2>2. v \in Seq(FTask)
    BY Zenon, <1>0, <1>5, <1>7
  <2>3. /\ Count(lw, g) \in Nat /\ Count(v, g) \in Nat /\ Count(a, g) \in Nat
        /\ Count(b, g) \in Nat /\ Count(h, g) \in Nat
    BY Zenon, <1>2, <1>7, <2>2, CountType
  <2>4. /\ Count(locked, g) = Count(h, g) + One(f, g)
        /\ Count(waiting_tasks, g) = Count(b, g) + Count(lw, g)
        /\ Count(w, g) = Count(a, g) + Count(v, g)
        /\ Count(c, g) = Count(h, g) + Count(a, g) + Count(b, g)
        /\ Count(d, g) = Count(a, g) + Count(b, g)
    BY Zenon, <1>4, <1>6, <1>8
  <2>5. One(f, g) \in Nat
    BY Zenon DEF One
  <2> HIDE DEF lw, v, w, c, d
  <2> DEFINE na == Count(a, g)
             nb == Count(b, g)
             nh == Count(h, g)
             nl == Count(lw, g)
             nv == Count(v, g)
             o == One(f, g)
  <2>6. /\ Total(g) = (nh + o) + ((nb + nl) + (na + nv))
        /\ Total(g)' = (nh + na + nb) + (nl + nv)
        /\ Waits(g) = (nb + nl) + (na + nv)
        /\ Waits(g)' = nl + nv
        /\ Count(d, g) = na + nb
    BY Zenon, <2>1, <2>4
  <2>7. /\ na \in Nat /\ nb \in Nat /\ nh \in Nat /\ nl \in Nat /\ nv \in Nat
        /\ o \in Nat
    BY Zenon, <2>3, <2>5
  <2> HIDE DEF na, nb, nh, nl, nv, o
  <2>8. /\ Total(g) = Total(g)' + o
        /\ Waits(g)' + Count(d, g) <= Waits(g)
    BY <2>6, <2>7
  <2> QED BY Zenon, <2>8 DEF d, o
<1> QED BY Zenon, <1>3, <1>5, <1>9

\* flock_release of a task that waits takes it out of its queue.
LEMMA ReleaseWaitingCounts ==
    ASSUME IInv, NEW f \in FTask, ReleaseWaiting(f)
    PROVE  \A g \in FTask : /\ Total(g) = Total(g)' + One(f, g)
                            /\ Waits(g)' <= Waits(g)
<1>0. /\ waiting_tasks \in Seq(FTask)
      /\ f.region \in Region /\ waiting[f.region] \in Seq(FTask)
      /\ waiting \in [Region -> Seq(FTask)]
      /\ \A g \in FTask : g.region \in Region
  BY Zenon, Lists DEF IInv, LockOK, RegionOK
<1>1. locked' = locked
  BY Zenon DEF ReleaseWaiting
<1>2. ASSUME NEW g \in FTask
      PROVE  \/ /\ waiting_tasks' = waiting_tasks
                /\ Count(waiting[g.region], g) =
                       Count(waiting'[g.region], g) + One(f, g)
                /\ Count(waiting'[g.region], g) \in Nat
             \/ /\ waiting' = waiting
                /\ Count(waiting_tasks, g) = Count(waiting_tasks', g) + One(f, g)
                /\ Count(waiting_tasks', g) \in Nat
  <2>1. ASSUME NEW i \in DOMAIN waiting[f.region], waiting[f.region][i] = f,
               waiting' = [waiting EXCEPT ![f.region] = RemoveAt(@, i)]
        PROVE  /\ Count(waiting[g.region], g) =
                      Count(waiting'[g.region], g) + One(f, g)
               /\ Count(waiting'[g.region], g) \in Nat
    <3>1. CASE g.region = f.region
      <4> DEFINE q == waiting[f.region]
      <4>1. waiting'[g.region] = RemoveAt(q, i) /\ q \in Seq(FTask)
        BY Zenon, <1>0, <2>1, <3>1
      <4>2. RemoveAt(q, i) \in Seq(FTask)
        BY Zenon, <1>0, RemoveFacts
      <4>3. Count(RemoveAt(q, i), g) \in Nat
        BY Zenon, <4>2, CountType
      <4>4. Count(q, g) = Count(RemoveAt(q, i), g) + One(q[i], g)
        BY Zenon, <4>1, CountRemove
      <4> QED BY Zenon, <2>1, <3>1, <4>1, <4>3, <4>4
    <3>2. CASE g.region # f.region
      <4>1. waiting'[g.region] = waiting[g.region]
        BY Zenon, <1>0, <2>1, <3>2
      <4>2. One(f, g) = 0
        BY Zenon, <3>2 DEF One
      <4>3. Count(waiting[g.region], g) \in Nat
        BY Zenon, CountNat
      <4> QED BY <4>1, <4>2, <4>3
    <3> QED BY Zenon, <3>1, <3>2
  <2>2. ASSUME NEW i \in DOMAIN waiting_tasks, waiting_tasks[i] = f,
               waiting_tasks' = RemoveAt(waiting_tasks, i)
        PROVE  /\ Count(waiting_tasks, g) = Count(waiting_tasks', g) + One(f, g)
               /\ Count(waiting_tasks', g) \in Nat
    <3>1. RemoveAt(waiting_tasks, i) \in Seq(FTask)
      BY Zenon, <1>0, RemoveFacts
    <3>2. Count(RemoveAt(waiting_tasks, i), g) \in Nat
      BY Zenon, <3>1, CountType
    <3>3. Count(waiting_tasks, g) =
              Count(RemoveAt(waiting_tasks, i), g) + One(waiting_tasks[i], g)
      BY Zenon, <1>0, CountRemove
    <3> QED BY Zenon, <2>2, <3>2, <3>3
  <2> QED BY ZenonT(30), <2>1, <2>2 DEF ReleaseWaiting, At
<1>3. ASSUME NEW g \in FTask
      PROVE  Total(g) = Total(g)' + One(f, g) /\ Waits(g)' <= Waits(g)
  <2> DEFINE nl == Count(locked, g)
             nw == Count(waiting[g.region], g)
             ng == Count(waiting_tasks, g)
             vw == Count(waiting'[g.region], g)
             vg == Count(waiting_tasks', g)
             o == One(f, g)
  <2>1. /\ Waits(g) = ng + nw /\ Waits(g)' = vg + vw
        /\ Total(g) = nl + (ng + nw) /\ Total(g)' = nl + (vg + vw)
    BY Zenon, <1>1 DEF Total, Waits
  <2>2. nl \in Nat /\ nw \in Nat /\ ng \in Nat /\ o \in Nat
    BY Zenon, CountNat DEF One
  <2>3. \/ vg = ng /\ nw = vw + o /\ vw \in Nat
        \/ vw = nw /\ ng = vg + o /\ vg \in Nat
    BY Zenon, <1>2
  <2> HIDE DEF nl, nw, ng, vw, vg, o
  <2>4. Total(g) = Total(g)' + o /\ Waits(g)' <= Waits(g)
    BY <2>1, <2>2, <2>3
  <2> QED BY Zenon, <2>4 DEF o
<1> QED BY Zenon, <1>3

\* flock_release takes a lock away, and those it awakes wait no longer.
LEMMA ReleaseListed ==
    ASSUME IInv, IInv', WaitsOnce, GrantedOK, NEW f \in FTask, Release(f),
           handing' = handing, sys_waiting' = sys_waiting
    PROVE  /\ WaitsOnce' /\ GrantedOK'
           /\ \A g \in FTask : Total(g) = Total(g)' + One(f, g)
<1>0. /\ \A g \in FTask : Waits(g) \in Nat /\ Waits(g)' \in Nat /\ g.task \in Task
      /\ \A t \in Task : SysWaits(t) \in Nat /\ SysWaits(t)' = SysWaits(t)
  <2>1. Numbers /\ Numbers'
    BY Measured, PTL
  <2>2. \A g \in FTask : g.task \in Task
    BY Zenon, Lists
  <2>3. \A t \in Task : SysWaits(t)' = SysWaits(t)
    BY Zenon DEF SysWaits
  <2> QED BY Zenon, <2>1, <2>2, <2>3 DEF Numbers
<1>1. CASE ReleaseWaiting(f)
  <2>1. \A g \in FTask : /\ Total(g) = Total(g)' + One(f, g)
                         /\ Waits(g)' <= Waits(g)
    BY Zenon, <1>1, ReleaseWaitingCounts
  <2>2. \A t \in Task : stage'[t] = stage[t]
    BY Zenon, <1>1 DEF ReleaseWaiting
  <2>3. \A t \in Task : SysWaits(t)' <= SysWaits(t)
    BY <1>0
  <2> QED BY Zenon, <2>1, <2>2, <2>3, KeepWaits, KeepGranted
<1>2. CASE ReleaseLocked(f)
  <2>1. PICK aw \in Seq(FTask) :
           /\ NotifyAll(aw)
           /\ \A g \in FTask : /\ Total(g) = Total(g)' + One(f, g)
                               /\ Waits(g)' + Count(aw, g) <= Waits(g)
    BY Zenon, <1>2, ReleaseLockedCounts
  <2>2. \A g \in FTask : Count(aw, g) \in Nat
    BY Zenon, CountType
  <2>3. \A g \in FTask : Waits(g)' <= Waits(g)
    BY <1>0, <2>1, <2>2
  <2>4. \A t \in Task : SysWaits(t)' <= SysWaits(t)
    BY <1>0
  <2>5. ASSUME NEW t \in Task, stage'[t] # stage[t]
        PROVE  NotWaiting(t)' /\ ~NotWaiting(t)
    <3>1. PICK i \in DOMAIN aw : aw[i].task = t
      BY Zenon, <2>1, <2>5 DEF NotifyAll, Notify
    <3>2. aw[i] \in FTask /\ Count(aw, aw[i]) >= 1
      BY CountSome
    <3> DEFINE e == aw[i]
    <3>3. e \in FTask /\ e.task = t /\ Count(aw, e) >= 1
      BY Zenon, <3>1, <3>2
    <3> HIDE DEF e
    <3>4. Waits(e) >= 1 /\ Waits(e)' + Count(aw, e) <= Waits(e)
      BY <1>0, <2>1, <2>2, <3>3
    <3>5. Waits(e) > 0
      BY <1>0, <3>3, <3>4
    <3>6. /\ Waits(e) = 1 /\ SysWaits(t) = 0
          /\ \A g \in FTask : g.task = t /\ g # e => Waits(g) = 0
      BY Zenon, <3>3, <3>5 DEF WaitsOnce
    <3>7. Waits(e)' = 0
      BY <1>0, <2>2, <3>3, <3>4, <3>6
    <3>8. ASSUME NEW g \in FTask, g.task = t PROVE Waits(g)' = 0
      <4>1. CASE g = e
        BY Zenon, <3>7, <4>1
      <4>2. CASE g # e
        <5>1. Waits(g) = 0 /\ Waits(g)' <= Waits(g) /\ Waits(g)' \in Nat
          BY Zenon, <1>0, <2>3, <3>6, <3>8, <4>2
        <5> QED BY <5>1
      <4> QED BY Zenon, <4>1, <4>2
    <3>9. SysWaits(t)' = 0
      BY ZenonT(20), <1>0, <3>6
    <3>10. NotWaiting(t)'
      BY Zenon, <3>8, <3>9 DEF NotWaiting
    <3>11. ~NotWaiting(t)
      <4>1. Waits(e) # 0
        BY <3>6
      <4> QED BY Zenon, <3>3, <4>1 DEF NotWaiting
    <3> QED BY Zenon, <3>10, <3>11
  <2>6. WaitsOnce'
    BY Zenon, <2>3, <2>4, <2>5, KeepWaits
  <2>7. GrantedOK'
    BY Zenon, <2>3, <2>4, <2>5, KeepGranted
  <2> QED BY Zenon, <2>1, <2>6, <2>7
<1> QED BY Zenon, <1>1, <1>2 DEF Release

\* A task whose request does not wait is in no queue.
LEMMA NotInQueues ==
    ASSUME IInv, WaitsOnce, NEW t \in Task, stage[t] # "waiting"
    PROVE  NotWaiting(t)
<1>1. Numbers
  BY Zenon, Measured
<1>2. SysWaits(t) = 0
  BY <1>1 DEF WaitsOnce, Numbers
<1>3. ASSUME NEW f \in FTask, f.task = t PROVE Waits(f) = 0
  <2>1. ~(Waits(f) > 0)
    BY Zenon, <1>3 DEF WaitsOnce
  <2>2. Waits(f) \in Nat
    BY Zenon, <1>1 DEF Numbers
  <2> QED BY <2>1, <2>2
<1> QED BY Zenon, <1>2, <1>3 DEF NotWaiting

\* A step that only changes the stage of a task that is in no queue.
LEMMA StageStep ==
    ASSUME IInv, IInv', Registered,
           UNCHANGED <<locked, waiting, waiting_tasks, sys_locked, sys_waiting,
                       ftasks, sys_task, handing>>,
           \A t \in Task : stage'[t] = stage[t] \/ stage[t] # "waiting"
    PROVE  Registered'
<1>0. WaitsOnce /\ GrantedOK /\ NewSysLock /\ Owned /\ FlocksListed /\ SysLocksListed
  BY Zenon DEF Registered
<1>1. /\ \A f \in FTask : Waits(f)' = Waits(f) /\ Total(f)' = Total(f)
      /\ \A t \in Task : SysWaits(t)' = SysWaits(t)
  BY Zenon DEF Waits, Total, SysWaits
<1>2. /\ \A f \in FTask : Waits(f)' <= Waits(f)
      /\ \A t \in Task : SysWaits(t)' <= SysWaits(t)
  <2>1. Numbers
    BY Zenon, Measured
  <2> QED BY <1>1, <2>1 DEF Numbers
<1>3. \A t \in Task : NotWaiting(t)' <=> NotWaiting(t)
  BY Zenon, <1>1 DEF NotWaiting
<1>4. WaitsOnce'
  BY Zenon, <1>0, <1>2, <1>3, NotInQueues, KeepWaits
<1>5. GrantedOK'
  BY Zenon, <1>0, <1>2, KeepGranted
<1>6. NewSysLock' /\ Owned'
  BY Zenon, <1>0 DEF NewSysLock, Owned
<1>7. FlocksListed' /\ SysLocksListed'
  <2>1. FlockHanded' = FlockHanded /\ SysLockHanded' = SysLockHanded
    BY Zenon DEF FlockHanded, SysLockHanded
  <2> QED BY Zenon, <1>0, <1>1, <2>1
           DEF FlocksListed, SysLocksListed, Listed, SysListed, SysTotal
<1> QED BY Zenon, <1>4, <1>5, <1>6, <1>7 DEF Registered

\* A connection unlocks, or the cleanup does.
LEMMA DropFlock ==
    ASSUME IInv, IInv', Registered, NEW t \in Task, NEW i \in DOMAIN ftasks[t],
           ftasks' = [ftasks EXCEPT ![t] = RemoveAt(@, i)],
           Release(ftasks[t][i]),
           UNCHANGED <<sys_locked, sys_waiting, sys_task, handing>>
    PROVE  Registered'
<1>0. WaitsOnce /\ GrantedOK /\ NewSysLock /\ Owned /\ FlocksListed /\ SysLocksListed
  BY Zenon DEF Registered
<1> DEFINE f == ftasks[t][i]
<1>1. /\ ftasks[t] \in Seq(FTask) /\ ftasks \in [Task -> Seq(FTask)]
      /\ f \in FTask /\ f.task = t
  <2>1. ftasks[t] \in Seq(FTask) /\ ftasks \in [Task -> Seq(FTask)]
    BY Zenon DEF IInv, TaskOK
  <2> QED BY <1>0, <2>1 DEF Owned
<1>2. /\ WaitsOnce' /\ GrantedOK'
      /\ \A g \in FTask : Total(g) = Total(g)' + One(f, g)
  BY Zenon, <1>0, <1>1, ReleaseListed
<1>3. /\ \A u \in Task : ftasks'[u] = IF u = t THEN RemoveAt(ftasks[t], i)
                                              ELSE ftasks[u]
  BY Zenon, <1>1
<1>4. NewSysLock'
  BY Zenon, <1>0 DEF NewSysLock
<1>5. Owned'
  <2> SUFFICES ASSUME NEW u \in Task, NEW x \in DOMAIN ftasks'[u]
               PROVE  ftasks'[u][x].task = u
    BY Zenon DEF Owned
  <2>1. \E y \in DOMAIN ftasks[u] : ftasks'[u][x] = ftasks[u][y]
    <3>1. CASE u = t
      <4>1. \A z \in DOMAIN RemoveAt(ftasks[t], i) :
               \E y \in DOMAIN ftasks[t] : RemoveAt(ftasks[t], i)[z] = ftasks[t][y]
        <5> DEFINE q == ftasks[t]
        <5>1. q \in Seq(FTask) /\ i \in DOMAIN q
          BY Zenon, <1>1
        <5> HIDE DEF q
        <5>2. \A z \in DOMAIN RemoveAt(q, i) :
                 \E y \in DOMAIN q : RemoveAt(q, i)[z] = q[y]
          BY <5>1, RemoveSubset
        <5> QED BY Zenon, <5>2 DEF q
      <4>2. ftasks'[u] = RemoveAt(ftasks[t], i)
        BY Zenon, <1>3, <3>1
      <4> QED BY Zenon, <3>1, <4>1, <4>2
    <3>2. CASE u # t
      BY Zenon, <1>3, <3>2
    <3> QED BY Zenon, <3>1, <3>2
  <2> QED BY Zenon, <1>0, <2>1 DEF Owned
<1>6. \A g \in FTask : Count(ftasks[g.task], g) = Count(ftasks'[g.task], g) + One(f, g)
  <2> TAKE g \in FTask
  <2>1. g.task \in Task /\ Count(ftasks[g.task], g) \in Nat
    BY Zenon, Lists, CountNat
  <2>2. CASE g.task = t
    <3>1. Count(ftasks[t], g) = Count(RemoveAt(ftasks[t], i), g) + One(f, g)
      BY Zenon, <1>1, CountRemove
    <3>2. ftasks'[t] = RemoveAt(ftasks[t], i)
      BY Zenon, <1>3
    <3> QED BY Zenon, <2>2, <3>1, <3>2
  <2>3. CASE g.task # t
    <3>1. One(f, g) = 0
      BY Zenon, <1>1, <2>3 DEF One
    <3>2. ftasks'[g.task] = ftasks[g.task]
      BY Zenon, <1>3, <2>1, <2>3
    <3> QED BY <2>1, <3>1, <3>2
  <2> QED BY Zenon, <2>2, <2>3
<1>7. FlockHanded' = FlockHanded /\ SysLockHanded' = SysLockHanded
  BY Zenon DEF FlockHanded, SysLockHanded
<1>8. FlocksListed'
  <2> SUFFICES ASSUME NEW g \in FTask PROVE Listed(g)' = Total(g)'
    BY Zenon DEF FlocksListed
  <2> DEFINE a == Count(ftasks[g.task], g)
             b == Count(ftasks'[g.task], g)
             h == Count(FlockHanded, g)
             o == One(f, g)
  <2>1. /\ a = b + o /\ Listed(g)' = b + h /\ a + h = Total(g)
        /\ Total(g) = Total(g)' + o
    BY Zenon, <1>0, <1>2, <1>6, <1>7 DEF FlocksListed, Listed
  <2>2. /\ a \in Nat /\ h \in Nat /\ o \in Nat
        /\ Total(g)' = Count(locked, g)' + Waits(g)'
    BY Zenon, CountNat DEF One, Total
  <2>3. b \in Nat /\ Total(g)' \in Int
    <3>1. CountedNat /\ CountedNat'
      BY Counted, PTL
    <3>2. b \in Nat /\ Count(locked, g)' \in Nat /\ Waits(g)' \in Nat
      BY Zenon, <3>1 DEF CountedNat
    <3> QED BY <2>2, <3>2
  <2> HIDE DEF a, b, h, o
  <2> QED BY <2>1, <2>2, <2>3
<1>9. SysLocksListed'
  BY Zenon, <1>0, <1>7 DEF SysLocksListed, SysListed, SysTotal, SysWaits
<1> QED BY Zenon, <1>2, <1>4, <1>5, <1>8, <1>9 DEF Registered

\* The first of a queue.
LEMMA TakenHead ==
    ASSUME NEW S, NEW q \in Seq(S), q # <<>>
    PROVE  Taken(q, 1) = <<Head(q)>>
<1>1. /\ Taken(q, 1) \in Seq(S) /\ Len(Taken(q, 1)) = 1
      /\ Taken(q, 1)[1] = q[1]
  BY DEF Taken
<1>2. /\ <<Head(q)>> \in Seq(S) /\ Len(<<Head(q)>>) = 1
      /\ <<Head(q)>>[1] = q[1]
  <2>1. q[1] \in S /\ Head(q) = q[1]
    OBVIOUS
  <2> QED BY <2>1
<1> QED BY <1>1, <1>2, SameList

\* sys_lock_release takes the lock away and gives it to the first that waits.
LEMMA SysReleaseCounts ==
    ASSUME IInv, NEW t \in Task, SysRelease(t), NEW u \in Task
    PROVE  /\ SysTotal(u) = SysTotal(u)' + One(t, u)
           /\ SysWaits(u)' <= SysWaits(u)
           /\ u \in SysAwaked(t) => SysWaits(u)' < SysWaits(u)
<1> DEFINE w == sys_waiting
<1>0. w \in Seq(Task) /\ sys_locked \in Task \cup {NULL} /\ SysWaits(u) \in Nat
  BY Zenon, Lists, CountNat
<1>1. CASE sys_locked = t /\ w = <<>>
  <2>1. sys_locked' = NULL /\ sys_waiting' = Left(<<>>, 1) /\ sys_locked = t
    BY Zenon, <1>1 DEF SysRelease
  <2>2. Left(<<>>, 1) = <<>>
    BY DEF Left
  <2>3. One(NULL, u) = 0
    BY Zenon, NullAssumption DEF One
  <2>4. SysWaits(u) = 0 /\ SysWaits(u)' = 0
    BY Zenon, <1>1, <2>1, <2>2, CountOne DEF SysWaits
  <2>5. SysTotal(u) = One(t, u) + 0 /\ SysTotal(u)' = 0 + 0
    BY Zenon, <2>1, <2>3, <2>4 DEF SysTotal
  <2>6. u \notin SysAwaked(t)
    BY Zenon, <1>1 DEF SysAwaked
  <2>7. One(t, u) \in Nat
    BY Zenon DEF One
  <2> QED BY <2>4, <2>5, <2>6, <2>7
<1>2. CASE sys_locked = t /\ w # <<>>
  <2> DEFINE e == Head(w)
             l == Left(w, 1)
  <2>1. e \in Task /\ 1 \in 0 .. Len(w) /\ l \in Seq(Task) /\ Taken(w, 1) = <<e>>
    <3>1. e \in Task /\ 1 \in 0 .. Len(w)
      BY <1>0, <1>2
    <3>4. Taken(w, 1) = <<e>>
      BY Zenon, <1>0, <1>2, TakenHead
    <3>5. l \in Seq(Task)
      BY Zenon, <1>0, <3>1, LeftFacts
    <3> QED BY Zenon, <3>1, <3>4, <3>5
  <2>2. Count(w, u) = Count(Taken(w, 1), u) + Count(l, u)
    BY Zenon, <1>0, <2>1, CountTaken
  <2>3. Count(<<e>>, u) = One(e, u)
    BY Zenon, CountOne
  <2>4. sys_locked' = e /\ sys_waiting' = l /\ sys_locked = t
    BY Zenon, <1>2 DEF SysRelease
  <2>5. /\ SysWaits(u) = One(e, u) + Count(l, u) /\ SysWaits(u)' = Count(l, u)
        /\ SysTotal(u) = One(t, u) + SysWaits(u)
        /\ SysTotal(u)' = One(e, u) + Count(l, u)
    BY Zenon, <2>1, <2>2, <2>3, <2>4 DEF SysWaits, SysTotal
  <2>6. Count(l, u) \in Nat /\ One(e, u) \in Nat /\ One(t, u) \in Nat
    <3>1. Count(l, u) \in Nat
      BY Zenon, <2>1, CountType
    <3> QED BY Zenon, <3>1 DEF One
  <2>7. u \in SysAwaked(t) => One(e, u) = 1
    BY Zenon, <1>2 DEF SysAwaked, One
  <2> HIDE DEF e, l
  <2> QED BY <2>5, <2>6, <2>7
<1>3. CASE sys_locked # t
  <2>1. PICK i \in DOMAIN w : w[i] = t /\ sys_waiting' = RemoveAt(w, i)
    BY Zenon, <1>3 DEF SysRelease, At
  <2>2. sys_locked' = sys_locked
    BY Zenon, <1>3 DEF SysRelease
  <2>3. Count(w, u) = Count(RemoveAt(w, i), u) + One(w[i], u)
    BY Zenon, <1>0, CountRemove
  <2>4. RemoveAt(w, i) \in Seq(Task)
    BY Zenon, <1>0, RemoveFacts
  <2>5. Count(RemoveAt(w, i), u) \in Nat
    BY Zenon, <2>4, CountType
  <2>6. One(t, u) \in Nat /\ One(sys_locked, u) \in Nat
    BY Zenon DEF One
  <2> DEFINE n == Count(RemoveAt(w, i), u)
  <2>7. /\ SysWaits(u) = n + One(t, u) /\ SysWaits(u)' = n
        /\ SysTotal(u) = One(sys_locked, u) + SysWaits(u)
        /\ SysTotal(u)' = One(sys_locked, u) + n
    BY Zenon, <2>1, <2>2, <2>3 DEF SysWaits, SysTotal
  <2>8. u \notin SysAwaked(t)
    BY Zenon, <1>3 DEF SysAwaked
  <2>9. n \in Nat
    BY Zenon, <2>5
  <2> HIDE DEF n
  <2> QED BY <2>6, <2>7, <2>8, <2>9
<1> QED BY Zenon, <1>1, <1>2, <1>3

\* A connection gives the system lock back, or the cleanup does.
LEMMA DropSysLock ==
    ASSUME IInv, IInv', Registered, NEW t \in Task, sys_task[t], SysRelease(t),
           sys_task' = [sys_task EXCEPT ![t] = FALSE],
           UNCHANGED <<locked, waiting, waiting_tasks, ftasks, handing>>,
           \A u \in Task : \/ stage'[u] = stage[u] \/ u \in SysAwaked(t)
                           \/ stage[u] # "waiting"
    PROVE  Registered'
<1>0. WaitsOnce /\ GrantedOK /\ NewSysLock /\ Owned /\ FlocksListed /\ SysLocksListed
  BY Zenon DEF Registered
<1>1. /\ \A f \in FTask : /\ Waits(f)' = Waits(f) /\ Total(f)' = Total(f)
                          /\ Waits(f) \in Nat
      /\ \A u \in Task : SysWaits(u) \in Nat /\ SysWaits(u)' \in Nat
  <2>1. Numbers /\ Numbers'
    BY Measured, PTL
  <2>2. \A f \in FTask : Waits(f)' = Waits(f) /\ Total(f)' = Total(f)
    BY Zenon DEF Waits, Total
  <2> QED BY Zenon, <2>1, <2>2 DEF Numbers
<1>2. \A u \in Task : /\ SysTotal(u) = SysTotal(u)' + One(t, u)
                      /\ SysWaits(u)' <= SysWaits(u)
                      /\ u \in SysAwaked(t) => SysWaits(u)' < SysWaits(u)
  BY Zenon, SysReleaseCounts
<1>3. \A f \in FTask : Waits(f)' <= Waits(f)
  BY <1>1
<1>4. ASSUME NEW u \in Task, u \in SysAwaked(t)
      PROVE  NotWaiting(u)' /\ ~NotWaiting(u)
  <2>1. SysWaits(u) > 0 /\ SysWaits(u)' < SysWaits(u)
    BY <1>1, <1>2, <1>4
  <2>2. SysWaits(u) = 1
    BY Zenon, <1>0, <2>1 DEF WaitsOnce
  <2>3. SysWaits(u)' = 0 /\ SysWaits(u) # 0
    BY <1>1, <2>1, <2>2
  <2>4. ASSUME NEW f \in FTask, f.task = u PROVE Waits(f)' = 0
    <3>1. ~(Waits(f) > 0)
      BY Zenon, <1>0, <2>3, <2>4 DEF WaitsOnce
    <3> QED BY <1>1, <3>1
  <2> QED BY Zenon, <2>3, <2>4 DEF NotWaiting
<1>5. ASSUME NEW u \in Task, stage[u] # "waiting" PROVE NotWaiting(u)'
  <2>1. NotWaiting(u)
    BY Zenon, <1>0, <1>5, NotInQueues
  <2>2. SysWaits(u)' = 0
    <3>1. SysWaits(u) = 0
      BY Zenon, <2>1 DEF NotWaiting
    <3> QED BY <1>1, <1>2, <3>1
  <2> QED BY Zenon, <1>1, <2>1, <2>2 DEF NotWaiting
<1>6. WaitsOnce'
  <2>1. \A u \in Task : SysWaits(u)' <= SysWaits(u)
    BY Zenon, <1>2
  <2> QED BY Zenon, <1>0, <1>3, <1>4, <1>5, <2>1, KeepWaits
<1>7. GrantedOK'
  <2>1. \A u \in Task : SysWaits(u)' <= SysWaits(u)
    BY Zenon, <1>2
  <2> QED BY Zenon, <1>0, <1>3, <1>4, <2>1, KeepGranted
<1>8. Owned'
  BY Zenon, <1>0 DEF Owned
<1>9. sys_task \in [Task -> BOOLEAN]
  BY Zenon DEF IInv, TaskOK
<1>10. NewSysLock'
  BY <1>0, <1>9 DEF NewSysLock
<1>11. FlockHanded' = FlockHanded /\ SysLockHanded' = SysLockHanded
  BY Zenon DEF FlockHanded, SysLockHanded
<1>12. FlocksListed'
  BY Zenon, <1>0, <1>1, <1>11 DEF FlocksListed, Listed
<1>13. SysLocksListed'
  <2> SUFFICES ASSUME NEW u \in Task PROVE SysListed(u)' = SysTotal(u)'
    BY Zenon DEF SysLocksListed
  <2> DEFINE a == IF sys_task[u] THEN 1 ELSE 0
             b == IF sys_task'[u] THEN 1 ELSE 0
             h == Count(SysLockHanded, u)
             o == One(t, u)
  <2>1. a = b + o /\ b \in Nat /\ o \in Nat
    BY <1>9 DEF One
  <2> DEFINE n == SysTotal(u)'
  <2>2. a + h = n + o /\ SysListed(u)' = b + h
    BY Zenon, <1>0, <1>2, <1>11 DEF SysLocksListed, SysListed
  <2>3. h \in Nat
    BY Zenon, CountNat
  <2>4. n \in Int
    <3>1. One(sys_locked, u)' \in Nat
      BY Zenon DEF One
    <3>2. SysTotal(u)' = One(sys_locked, u)' + SysWaits(u)'
      BY Zenon DEF SysTotal
    <3> QED BY <1>1, <3>1, <3>2
  <2> HIDE DEF a, b, h, o, n
  <2>5. b + h = n
    BY <2>1, <2>2, <2>3, <2>4
  <2> QED BY Zenon, <2>2, <2>5 DEF n
<1> QED BY Zenon, <1>6, <1>7, <1>8, <1>10, <1>12, <1>13 DEF Registered

\* flock_apply: one lock more, which is to be handed over.
LEMMA FlockApplyListed ==
    ASSUME IInv, IInv', Registered, NEW t \in Task, FlockApply(t)
    PROVE  Registered'
<1>0. WaitsOnce /\ GrantedOK /\ NewSysLock /\ Owned /\ FlocksListed /\ SysLocksListed
  BY ZenonT(20) DEF Registered
<1> DEFINE f == [task |-> t, type |-> request[t].type,
                 region |-> request[t].region]
           H(b) == [op |-> "flock", ftask |-> f, granted |-> b]
<1>1. handing = NULL /\ stage[t] = "queued"
      /\ UNCHANGED <<sys_locked, sys_waiting, ftasks, sys_task>>
  BY ZenonT(20) DEF FlockApply, Deal, sys_vars
<1>2. f \in FTask /\ f.task = t /\ f.region \in Region
  <2>1. request[t] \in Request /\ request[t].op = "flock"
    BY ZenonT(20), <1>1 DEF FlockApply, Deal, IInv, TaskOK, Pending
  <2>2. request[t].type \in Type /\ request[t].region \in Region
    BY Zenon, <2>1 DEF Request
  <2> QED BY ZenonT(20), <2>2 DEF FTask
<1>3. \/ /\ locked' = Append(locked, f) /\ HandOver(t, H(TRUE))
         /\ UNCHANGED <<waiting, waiting_tasks>>
      \/ Refuse(t) /\ UNCHANGED lock_vars
      \/ /\ UNCHANGED locked
         /\ \/ /\ waiting_tasks' = Append(waiting_tasks, f)
               /\ UNCHANGED waiting
            \/ /\ waiting' = [waiting EXCEPT ![f.region] = Append(@, f)]
               /\ UNCHANGED waiting_tasks
         /\ HandOver(t, H(FALSE))
  BY ZenonT(30) DEF FlockApply
<1>4. NotWaiting(t)
  BY Zenon, <1>0, <1>1, NotInQueues
<1>5. CASE Refuse(t) /\ UNCHANGED lock_vars
  <2>1. /\ UNCHANGED <<locked, waiting, waiting_tasks, handing>>
        /\ \A u \in Task : stage'[u] = stage[u] \/ stage[u] # "waiting"
    BY Zenon, <1>1, <1>5 DEF Refuse, Notify, lock_vars
  <2> QED BY Zenon, <1>1, <2>1, StageStep
<1>6. ASSUME NEW b \in BOOLEAN, HandOver(t, H(b)),
             \A g \in FTask : Total(g)' = Total(g) + One(f, g),
             WaitsOnce', b => \A g \in FTask : Waits(g)' = Waits(g)
      PROVE  Registered'
  <2>1. /\ handing' # NULL /\ handing'.op = "flock" /\ handing'.ftask = f
        /\ handing'.granted = b
    <3>1. H(b) \in Handing
      BY Zenon, <1>2 DEF Handing
    <3>2. handing' = H(b) /\ H(b) # NULL
      BY ZenonT(20), <1>6, <3>1, NullAssumption DEF HandOver
    <3> QED BY ZenonT(20), <3>2
  <2>2. /\ FlockHanded' = <<f>> /\ SysLockHanded' = <<>>
        /\ FlockHanded = <<>> /\ SysLockHanded = <<>> /\ HandedTask' = t
    BY ZenonT(20), <1>1, <1>2, <2>1 DEF FlockHanded, SysLockHanded, HandedTask
  <2>3. GrantedOK'
    <3> SUFFICES ASSUME b PROVE stage'[t] = "waiting" /\ NotWaiting(HandedTask)'
      BY ZenonT(20), <2>1, <2>2 DEF GrantedOK
    <3>1. stage'[t] = "waiting"
      BY ZenonT(20), <1>6, Lists DEF HandOver
    <3>2. SysWaits(t)' = SysWaits(t) /\ \A g \in FTask : Waits(g)' = Waits(g)
      BY ZenonT(20), <1>1, <1>6 DEF SysWaits
    <3> QED BY Zenon, <1>4, <2>2, <3>1, <3>2 DEF NotWaiting, SysWaits
  <2>4. NewSysLock' /\ Owned'
    BY ZenonT(20), <1>0, <1>1, <2>1 DEF NewSysLock, Owned
  <2> HIDE DEF f
  <2>5. FlocksListed'
    <3> SUFFICES ASSUME NEW g \in FTask PROVE Listed(g)' = Total(g)'
      BY Zenon DEF FlocksListed
    <3>1. Listed(g)' = Count(ftasks[g.task], g) + One(f, g)
      BY Zenon, <1>1, <2>2, CountOne DEF Listed
    <3>2. Listed(g) = Count(ftasks[g.task], g) + 0
      BY Zenon, <2>2, CountOne DEF Listed
    <3>3. Count(ftasks[g.task], g) \in Nat
      BY Zenon, CountNat
    <3>4. Listed(g) = Total(g) /\ Total(g)' = Total(g) + One(f, g)
      BY Zenon, <1>0, <1>6 DEF FlocksListed
    <3> QED BY <3>1, <3>2, <3>3, <3>4
  <2>6. SysLocksListed'
    BY Zenon, <1>0, <1>1, <2>2 DEF SysLocksListed, SysListed, SysTotal, SysWaits
  <2> QED BY ZenonT(20), <1>6, <2>3, <2>4, <2>5, <2>6 DEF Registered
<1> HIDE DEF f
<1>7. /\ Numbers /\ Numbers' /\ \A g \in FTask : Count(locked, g) \in Nat
      /\ \A u \in Task : SysWaits(u)' = SysWaits(u)
  <2>1. Numbers /\ Numbers'
    BY Measured, PTL
  <2> QED BY Zenon, <1>1, <2>1, CountNat DEF SysWaits
<1>8. \A b \in BOOLEAN : HandOver(t, H(b)) =>
         stage'[t] = "waiting" /\ \A u \in Task : u # t => stage'[u] = stage[u]
  BY Zenon, Lists DEF HandOver
<1>9. CASE /\ locked' = Append(locked, f) /\ HandOver(t, H(TRUE))
           /\ UNCHANGED <<waiting, waiting_tasks>>
  <2>1. \A g \in FTask : Waits(g)' = Waits(g)
    BY Zenon, <1>9 DEF Waits
  <2>2. ASSUME NEW g \in FTask PROVE Total(g)' = Total(g) + One(f, g)
    <3>1. Count(Append(locked, f), g) = Count(locked, g) + One(f, g)
      BY Zenon, <1>2, Lists, CountAppend
    <3>2. /\ Total(g)' = (Count(locked, g) + One(f, g)) + Waits(g)
          /\ Total(g) = Count(locked, g) + Waits(g)
      BY Zenon, <1>9, <2>1, <3>1 DEF Total
    <3>3. Count(locked, g) \in Nat /\ Waits(g) \in Nat /\ One(f, g) \in Nat
      BY Zenon, <1>7 DEF Numbers, One
    <3> QED BY <3>2, <3>3
  <2>3. WaitsOnce'
    <3>1. /\ \A g \in FTask : Waits(g)' <= Waits(g)
          /\ \A u \in Task : SysWaits(u)' <= SysWaits(u)
      BY <1>7, <2>1 DEF Numbers
    <3>2. NotWaiting(t)'
      BY Zenon, <1>4, <1>7, <2>1 DEF NotWaiting
    <3>3. \A u \in Task : stage'[u] = stage[u] \/ NotWaiting(u)'
      BY Zenon, <1>8, <1>9, <3>2
    <3> QED BY Zenon, <1>0, <3>1, <3>3, KeepWaits
  <2> QED BY Zenon, <1>6, <1>9, <2>1, <2>2, <2>3
<1>10. CASE /\ UNCHANGED locked
            /\ \/ /\ waiting_tasks' = Append(waiting_tasks, f)
                  /\ UNCHANGED waiting
               \/ /\ waiting' = [waiting EXCEPT ![f.region] = Append(@, f)]
                  /\ UNCHANGED waiting_tasks
            /\ HandOver(t, H(FALSE))
  <2>1. ASSUME NEW g \in FTask PROVE Waits(g)' = Waits(g) + One(f, g)
    <3> DEFINE a == Count(waiting_tasks, g)
               b == Count(waiting[g.region], g)
    <3>1. a \in Nat /\ b \in Nat /\ One(f, g) \in Nat
      BY ZenonT(20), CountNat DEF One
    <3>2. CASE waiting_tasks' = Append(waiting_tasks, f) /\ UNCHANGED waiting
      <4>1. Count(Append(waiting_tasks, f), g) = a + One(f, g)
        BY Zenon, <1>2, Lists, CountAppend
      <4>2. Waits(g)' = (a + One(f, g)) + b /\ Waits(g) = a + b
        BY Zenon, <3>2, <4>1 DEF Waits
      <4> HIDE DEF a, b
      <4> QED BY <3>1, <4>2
    <3>3. CASE /\ waiting' = [waiting EXCEPT ![f.region] = Append(@, f)]
               /\ UNCHANGED waiting_tasks
      <4>1. waiting \in [Region -> Seq(FTask)] /\ g.region \in Region
        BY ZenonT(20), Lists DEF IInv, LockOK, RegionOK
      <4>2. Count(waiting'[g.region], g) = b + One(f, g)
        <5>1. CASE g.region = f.region
          <6>1. Count(Append(waiting[f.region], f), g) =
                    Count(waiting[f.region], g) + One(f, g)
            BY Zenon, <1>2, Lists, CountAppend
          <6>2. waiting'[f.region] = Append(waiting[f.region], f)
            BY Zenon, <1>2, <3>3, <4>1
          <6> QED BY Zenon, <5>1, <6>1, <6>2
        <5>2. CASE g.region # f.region
          <6>1. One(f, g) = 0
            BY Zenon, <5>2 DEF One
          <6>2. waiting'[g.region] = waiting[g.region]
            BY Zenon, <3>3, <4>1, <5>2
          <6> QED BY <3>1, <6>1, <6>2
        <5> QED BY ZenonT(20), <5>1, <5>2
      <4>3. Waits(g)' = a + (b + One(f, g)) /\ Waits(g) = a + b
        BY Zenon, <3>3, <4>2 DEF Waits
      <4> HIDE DEF a, b
      <4> QED BY <3>1, <4>3
    <3> QED BY ZenonT(20), <1>10, <3>2, <3>3
  <2>2. ASSUME NEW g \in FTask PROVE Total(g)' = Total(g) + One(f, g)
    <3>1. /\ Total(g)' = Count(locked, g) + (Waits(g) + One(f, g))
          /\ Total(g) = Count(locked, g) + Waits(g)
      BY Zenon, <1>10, <2>1 DEF Total
    <3>2. Count(locked, g) \in Nat /\ Waits(g) \in Nat /\ One(f, g) \in Nat
      BY Zenon, <1>7 DEF Numbers, One
    <3> QED BY <3>1, <3>2
  <2>3. WaitsOnce'
    <3>1. ASSUME NEW g \in FTask, Waits(g)' > 0
          PROVE  /\ Waits(g)' = 1 /\ stage'[g.task] = "waiting"
                 /\ SysWaits(g.task)' = 0
                 /\ \A e \in FTask : e.task = g.task /\ e # g => Waits(e)' = 0
      <4>1. g.task \in Task
        BY Zenon, Lists
      <4>2. CASE g.task = t
        <5>1. /\ SysWaits(t)' = 0 /\ stage'[t] = "waiting"
              /\ \A e \in FTask : e.task = t => Waits(e) = 0
          BY Zenon, <1>4, <1>7, <1>8, <1>10 DEF NotWaiting
        <5>2. \A e \in FTask : e.task = t => Waits(e)' = One(f, e)
          BY <2>1, <5>1 DEF One
        <5>3. g = f
          BY <3>1, <4>2, <5>2 DEF One
        <5>4. Waits(g)' = 1 /\ \A e \in FTask : e.task = t /\ e # g => Waits(e)' = 0
          BY Zenon, <4>2, <5>2, <5>3 DEF One
        <5> QED BY Zenon, <4>2, <5>1, <5>4
      <4>3. CASE g.task # t
        <5>1. \A e \in FTask : e.task = g.task => Waits(e)' = Waits(e)
          <6> TAKE e \in FTask
          <6>1. e.task = g.task => One(f, e) = 0
            BY Zenon, <1>2, <4>3 DEF One
          <6> QED BY <1>7, <2>1, <6>1 DEF Numbers
        <5>2. Waits(g) > 0
          BY Zenon, <3>1, <5>1
        <5> QED BY Zenon, <1>0, <1>7, <1>8, <1>10, <4>1, <4>3, <5>1, <5>2
                 DEF WaitsOnce
      <4> QED BY Zenon, <4>2, <4>3
    <3>2. ASSUME NEW u \in Task, SysWaits(u)' > 0
          PROVE  SysWaits(u)' = 1 /\ stage'[u] = "waiting"
      BY Zenon, <1>0, <1>7, <1>8, <1>10, <3>2 DEF WaitsOnce
    <3> QED BY Zenon, <3>1, <3>2 DEF WaitsOnce
  <2> QED BY Zenon, <1>6, <1>10, <2>2, <2>3
<1> QED BY Zenon, <1>3, <1>5, <1>9, <1>10

\* sys_lock_apply: the system lock is to be handed over, to a connection that
\* neither has nor waits for it.
LEMMA SysLockApplyListed ==
    ASSUME IInv, IInv', Registered, NEW t \in Task, SysLockApply(t)
    PROVE  Registered'
<1>0. WaitsOnce /\ GrantedOK /\ NewSysLock /\ Owned /\ FlocksListed /\ SysLocksListed
  BY Zenon DEF Registered
<1> DEFINE H(b) == [op |-> "sys_lock", task |-> t, granted |-> b]
<1>1. handing = NULL /\ stage[t] = "queued"
      /\ UNCHANGED <<locked, waiting, waiting_tasks, ftasks, sys_task>>
  BY Zenon DEF SysLockApply, Deal, lock_vars
<1>2. \/ /\ sys_locked = NULL /\ sys_locked' = t /\ UNCHANGED sys_waiting
         /\ HandOver(t, H(TRUE))
      \/ Refuse(t) /\ UNCHANGED sys_vars
      \/ /\ sys_locked # t /\ sys_waiting' = Append(sys_waiting, t)
         /\ UNCHANGED sys_locked /\ HandOver(t, H(FALSE))
  BY ZenonT(30) DEF SysLockApply
<1>3. NotWaiting(t)
  BY Zenon, <1>0, <1>1, NotInQueues
<1>4. CASE Refuse(t) /\ UNCHANGED sys_vars
  <2>1. /\ UNCHANGED <<sys_locked, sys_waiting, handing>>
        /\ \A u \in Task : stage'[u] = stage[u] \/ stage[u] # "waiting"
    BY ZenonT(20), <1>1, <1>4 DEF Refuse, Notify, sys_vars
  <2> QED BY Zenon, <1>1, <2>1, StageStep
<1>5. /\ Numbers /\ Numbers'
      /\ \A g \in FTask : Waits(g)' = Waits(g) /\ Total(g)' = Total(g)
  <2>1. Numbers /\ Numbers'
    BY Measured, PTL
  <2> QED BY ZenonT(20), <1>1, <2>1 DEF Waits, Total
<1>6. \A b \in BOOLEAN : HandOver(t, H(b)) =>
         stage'[t] = "waiting" /\ \A u \in Task : u # t => stage'[u] = stage[u]
  BY Zenon, Lists DEF HandOver
<1>7. FlockHanded = <<>> /\ SysLockHanded = <<>>
  BY Zenon, <1>1, HandedFacts
<1>8. ASSUME NEW b \in BOOLEAN, HandOver(t, H(b)), sys_locked # t,
             \A u \in Task : SysTotal(u)' = SysTotal(u) + One(t, u),
             WaitsOnce', b => \A u \in Task : SysWaits(u)' = SysWaits(u)
      PROVE  Registered'
  <2>1. /\ handing' # NULL /\ handing'.op = "sys_lock" /\ handing'.task = t
        /\ handing'.granted = b
    <3>1. H(b) \in Handing
      BY Zenon DEF Handing
    <3>2. handing' = H(b) /\ H(b) # NULL
      BY Zenon, <1>8, <3>1, NullAssumption DEF HandOver
    <3> QED BY Zenon, <3>2
  <2>2. FlockHanded' = <<>> /\ SysLockHanded' = <<t>> /\ HandedTask' = t
    BY Zenon, <1>1, <2>1 DEF FlockHanded, SysLockHanded, HandedTask
  <2>3. GrantedOK'
    <3> SUFFICES ASSUME b PROVE stage'[t] = "waiting" /\ NotWaiting(HandedTask)'
      BY Zenon, <2>1, <2>2 DEF GrantedOK
    <3>1. SysWaits(t)' = SysWaits(t) /\ \A g \in FTask : Waits(g)' = Waits(g)
      BY Zenon, <1>5, <1>8
    <3> QED BY Zenon, <1>3, <1>6, <1>8, <2>2, <3>1 DEF NotWaiting, SysWaits
  <2>4. Owned'
    BY Zenon, <1>0, <1>1 DEF Owned
  <2>5. FlocksListed'
    BY Zenon, <1>0, <1>1, <1>5, <1>7, <2>2 DEF FlocksListed, Listed
  <2>6. \A u \in Task : SysListed(u) = (IF sys_task[u] THEN 1 ELSE 0) + 0
    BY Zenon, <1>7, CountOne DEF SysListed
  <2>7. NewSysLock'
    <3>1. SysTotal(t) = One(sys_locked, t) + 0
      BY Zenon, <1>3 DEF SysTotal, NotWaiting
    <3>2. One(sys_locked, t) = 0
      BY Zenon, <1>8 DEF One
    <3>3. (IF sys_task[t] THEN 1 ELSE 0) + 0 = 0 + 0
      BY Zenon, <1>0, <2>6, <3>1, <3>2 DEF SysLocksListed
    <3>4. ~sys_task[t]
      BY <3>3
    <3> QED BY Zenon, <1>1, <2>1, <3>4 DEF NewSysLock
  <2>8. SysLocksListed'
    <3> SUFFICES ASSUME NEW u \in Task PROVE SysListed(u)' = SysTotal(u)'
      BY Zenon DEF SysLocksListed
    <3>1. SysListed(u)' = (IF sys_task[u] THEN 1 ELSE 0) + One(t, u)
      BY Zenon, <1>1, <2>2, CountOne DEF SysListed
    <3>2. SysListed(u) = SysTotal(u) /\ SysTotal(u)' = SysTotal(u) + One(t, u)
      BY Zenon, <1>0, <1>8 DEF SysLocksListed
    <3> QED BY <2>6, <3>1, <3>2
  <2> QED BY Zenon, <1>8, <2>3, <2>4, <2>5, <2>7, <2>8 DEF Registered
<1>9. CASE /\ sys_locked = NULL /\ sys_locked' = t /\ UNCHANGED sys_waiting
           /\ HandOver(t, H(TRUE))
  <2>1. \A u \in Task : SysWaits(u)' = SysWaits(u)
    BY Zenon, <1>9 DEF SysWaits
  <2>2. ASSUME NEW u \in Task PROVE SysTotal(u)' = SysTotal(u) + One(t, u)
    <3>1. One(sys_locked, u) = 0
      BY Zenon, <1>9, NullAssumption DEF One
    <3>2. SysTotal(u)' = One(t, u) + SysWaits(u) /\ SysTotal(u) = 0 + SysWaits(u)
      BY Zenon, <1>9, <2>1, <3>1 DEF SysTotal
    <3>3. SysWaits(u) \in Nat /\ One(t, u) \in Nat
      BY ZenonT(20), <1>5 DEF Numbers, One
    <3> QED BY <3>2, <3>3
  <2>3. WaitsOnce'
    <3>1. /\ \A g \in FTask : Waits(g)' <= Waits(g)
          /\ \A u \in Task : SysWaits(u)' <= SysWaits(u)
      BY <1>5, <2>1 DEF Numbers
    <3>2. NotWaiting(t)'
      BY Zenon, <1>3, <1>5, <2>1 DEF NotWaiting
    <3>3. \A u \in Task : stage'[u] = stage[u] \/ NotWaiting(u)'
      BY Zenon, <1>6, <1>9, <3>2
    <3> QED BY Zenon, <1>0, <3>1, <3>3, KeepWaits
  <2>4. sys_locked # t
    BY Zenon, <1>9, NullAssumption
  <2> QED BY Zenon, <1>8, <1>9, <2>1, <2>2, <2>3, <2>4
<1>10. CASE /\ sys_locked # t /\ sys_waiting' = Append(sys_waiting, t)
            /\ UNCHANGED sys_locked /\ HandOver(t, H(FALSE))
  <2>1. ASSUME NEW u \in Task PROVE SysWaits(u)' = SysWaits(u) + One(t, u)
    <3>1. Count(Append(sys_waiting, t), u) = Count(sys_waiting, u) + One(t, u)
      BY Zenon, Lists, CountAppend
    <3> QED BY Zenon, <1>10, <3>1 DEF SysWaits
  <2>2. ASSUME NEW u \in Task PROVE SysTotal(u)' = SysTotal(u) + One(t, u)
    <3>1. /\ SysTotal(u)' = One(sys_locked, u) + (SysWaits(u) + One(t, u))
          /\ SysTotal(u) = One(sys_locked, u) + SysWaits(u)
      BY Zenon, <1>10, <2>1 DEF SysTotal
    <3>2. SysWaits(u) \in Nat /\ One(t, u) \in Nat /\ One(sys_locked, u) \in Nat
      BY Zenon, <1>5 DEF Numbers, One
    <3> QED BY <3>1, <3>2
  <2>3. WaitsOnce'
    <3>1. ASSUME NEW g \in FTask, Waits(g)' > 0
          PROVE  /\ Waits(g)' = 1 /\ stage'[g.task] = "waiting"
                 /\ SysWaits(g.task)' = 0
                 /\ \A e \in FTask : e.task = g.task /\ e # g => Waits(e)' = 0
      <4>1. g.task \in Task /\ Waits(g) > 0
        BY Zenon, <1>5, <3>1, Lists
      <4>2. g.task # t
        <5>1. g.task = t => Waits(g) = 0
          BY Zenon, <1>3 DEF NotWaiting
        <5> QED BY <4>1, <5>1
      <4>3. SysWaits(g.task)' = SysWaits(g.task)
        <5>1. One(t, g.task) = 0
          BY Zenon, <4>2 DEF One
        <5> QED BY <1>5, <2>1, <4>1, <5>1 DEF Numbers
      <4>4. stage'[g.task] = stage[g.task]
        BY Zenon, <1>6, <1>10, <4>1, <4>2
      <4>5. /\ Waits(g) = 1 /\ stage[g.task] = "waiting"
            /\ SysWaits(g.task) = 0
            /\ \A e \in FTask : e.task = g.task /\ e # g => Waits(e) = 0
        BY Zenon, <1>0, <4>1 DEF WaitsOnce
      <4> QED BY Zenon, <1>5, <4>3, <4>4, <4>5
    <3>2. ASSUME NEW u \in Task, SysWaits(u)' > 0
          PROVE  SysWaits(u)' = 1 /\ stage'[u] = "waiting"
      <4>1. CASE u = t
        <5>1. SysWaits(t) = 0 /\ stage'[t] = "waiting"
          BY Zenon, <1>3, <1>6, <1>10 DEF NotWaiting
        <5>2. SysWaits(t)' = 1
          BY <2>1, <5>1 DEF One
        <5> QED BY Zenon, <4>1, <5>1, <5>2
      <4>2. CASE u # t
        <5>1. SysWaits(u)' = SysWaits(u)
          BY <1>5, <2>1, <4>2 DEF Numbers, One
        <5>2. SysWaits(u) > 0
          BY ZenonT(20), <3>2, <5>1
        <5>3. SysWaits(u) = 1 /\ stage[u] = "waiting"
          BY Zenon, <1>0, <5>2 DEF WaitsOnce
        <5> QED BY Zenon, <1>6, <1>10, <4>2, <5>1, <5>3
      <4> QED BY Zenon, <4>1, <4>2
    <3> QED BY Zenon, <3>1, <3>2 DEF WaitsOnce
  <2> QED BY Zenon, <1>8, <1>10, <2>2, <2>3
<1> QED BY Zenon, <1>2, <1>4, <1>9, <1>10

\* flock_done_notify: the lock gets into the list of its connection.
LEMMA FlockDoneListed ==
    ASSUME IInv, IInv', Registered, FlockDoneNotify
    PROVE  Registered'
<1>0. WaitsOnce /\ GrantedOK /\ NewSysLock /\ Owned /\ FlocksListed /\ SysLocksListed
  BY Zenon DEF Registered
<1>1. /\ handing # NULL /\ handing' = NULL
      /\ UNCHANGED <<locked, waiting, waiting_tasks, sys_locked, sys_waiting>>
  BY Zenon DEF FlockDoneNotify, lock_vars, sys_vars
<1>2. FlockHanded' = <<>> /\ SysLockHanded' = <<>>
  BY Zenon, <1>1 DEF FlockHanded, SysLockHanded
<1>3. GrantedOK' /\ NewSysLock'
  BY Zenon, <1>1 DEF GrantedOK, NewSysLock
<1>4. /\ \A g \in FTask : Waits(g)' = Waits(g) /\ Total(g)' = Total(g)
      /\ \A u \in Task : SysWaits(u)' = SysWaits(u) /\ SysTotal(u)' = SysTotal(u)
  BY Zenon, <1>1 DEF Waits, Total, SysWaits, SysTotal
<1>5. WaitsOnce'
  <2>1. /\ \A g \in FTask : Waits(g)' <= Waits(g)
        /\ \A u \in Task : SysWaits(u)' <= SysWaits(u)
    <3>1. Numbers
      BY Zenon, Measured
    <3> QED BY <1>4, <3>1 DEF Numbers
  <2>2. PICK h \in Task : h = HandedTask
    BY Zenon, <1>1, HandedFacts
  <2>3. Notify(IF handing.granted THEN {h} ELSE {})
    BY Zenon, <2>2 DEF FlockDoneNotify, HandedTask
  <2>4. \A u \in Task : stage'[u] = stage[u] \/ (u = h /\ handing.granted)
    BY Zenon, <2>3 DEF Notify
  <2>5. handing.granted => NotWaiting(h)'
    <3>1. handing.granted => NotWaiting(h)
      BY Zenon, <1>0, <1>1, <2>2 DEF GrantedOK, NotWaiting
    <3> QED BY Zenon, <1>4, <3>1 DEF NotWaiting
  <2>6. \A u \in Task : stage'[u] = stage[u] \/ NotWaiting(u)'
    BY Zenon, <2>4, <2>5
  <2> QED BY Zenon, <1>0, <2>1, <2>6, KeepWaits
<1>6. CASE handing.op = "flock"
  <2>1. PICK f \in FTask : f = handing.ftask /\ FlockHanded = <<f>>
                           /\ SysLockHanded = <<>>
    BY Zenon, <1>1, <1>6, HandedFacts
  <2>2. /\ ftasks' = [ftasks EXCEPT ![f.task] = Append(@, f)]
        /\ sys_task' = sys_task
    BY Zenon, <1>6, <2>1 DEF FlockDoneNotify
  <2>3. ftasks \in [Task -> Seq(FTask)] /\ f.task \in Task
    BY ZenonT(20), Lists DEF IInv, TaskOK
  <2>4. \A u \in Task : ftasks'[u] = IF u = f.task THEN Append(ftasks[u], f)
                                                   ELSE ftasks[u]
    BY Zenon, <2>2, <2>3
  <2>5. Owned'
    <3> SUFFICES ASSUME NEW u \in Task, NEW x \in DOMAIN ftasks'[u]
                 PROVE  ftasks'[u][x].task = u
      BY Zenon DEF Owned
    <3>1. CASE u = f.task
      <4>1. ftasks[u] \in Seq(FTask) /\ ftasks'[u] = Append(ftasks[u], f)
        BY Zenon, <2>3, <2>4, <3>1
      <4>2. \/ x \in DOMAIN ftasks[u] /\ ftasks'[u][x] = ftasks[u][x]
            \/ ftasks'[u][x] = f
        BY <4>1
      <4> QED BY Zenon, <1>0, <3>1, <4>2 DEF Owned
    <3>2. CASE u # f.task
      BY Zenon, <1>0, <2>4, <3>2 DEF Owned
    <3> QED BY Zenon, <3>1, <3>2
  <2>6. FlocksListed'
    <3> SUFFICES ASSUME NEW g \in FTask PROVE Listed(g)' = Total(g)'
      BY Zenon DEF FlocksListed
    <3>1. g.task \in Task /\ Count(ftasks[g.task], g) \in Nat /\ One(f, g) \in Nat
      BY Zenon, Lists, CountNat DEF One
    <3>2. Count(ftasks'[g.task], g) = Count(ftasks[g.task], g) + One(f, g)
      <4>1. CASE g.task = f.task
        <5>1. Count(Append(ftasks[f.task], f), g) =
                  Count(ftasks[f.task], g) + One(f, g)
          BY Zenon, Lists, CountAppend
        <5>2. ftasks'[f.task] = Append(ftasks[f.task], f)
          BY Zenon, <2>3, <2>4
        <5> QED BY Zenon, <4>1, <5>1, <5>2
      <4>2. CASE g.task # f.task
        <5>1. One(f, g) = 0
          BY Zenon, <4>2 DEF One
        <5>2. ftasks'[g.task] = ftasks[g.task]
          BY ZenonT(20), <2>4, <3>1, <4>2
        <5> QED BY <3>1, <5>1, <5>2
      <4> QED BY Zenon, <4>1, <4>2
    <3>3. /\ Listed(g)' = (Count(ftasks[g.task], g) + One(f, g)) + 0
          /\ Listed(g) = Count(ftasks[g.task], g) + One(f, g)
      <4>1. Count(<<>>, g) = 0 /\ Count(<<f>>, g) = One(f, g)
        BY Zenon, CountOne
      <4> QED BY Zenon, <1>2, <2>1, <3>2, <4>1 DEF Listed
    <3>4. Listed(g) = Total(g)
      BY Zenon, <1>0 DEF FlocksListed
    <3>5. Total(g)' = Total(g)
      BY Zenon, <1>4
    <3>6. (Count(ftasks[g.task], g) + One(f, g)) + 0
              = Count(ftasks[g.task], g) + One(f, g)
      BY <3>1
    <3> QED BY Zenon, <3>3, <3>4, <3>5, <3>6
  <2>7. SysLocksListed'
    BY Zenon, <1>0, <1>2, <1>4, <2>1, <2>2 DEF SysLocksListed, SysListed
  <2> QED BY Zenon, <1>3, <1>5, <2>5, <2>6, <2>7 DEF Registered
<1>7. CASE handing.op = "sys_lock"
  <2>1. PICK t \in Task : t = handing.task /\ SysLockHanded = <<t>>
                          /\ FlockHanded = <<>>
    BY Zenon, <1>1, <1>7, HandedFacts
  <2>2. ftasks' = ftasks /\ sys_task' = [sys_task EXCEPT ![t] = TRUE]
    BY Zenon, <1>7, <2>1 DEF FlockDoneNotify
  <2>3. sys_task \in [Task -> BOOLEAN] /\ ~sys_task[t]
    BY <1>0, <1>1, <1>7, <2>1 DEF NewSysLock, IInv, TaskOK
  <2>4. Owned'
    BY ZenonT(20), <1>0, <2>2 DEF Owned
  <2>5. FlocksListed'
    BY Zenon, <1>0, <1>2, <1>4, <2>1, <2>2 DEF FlocksListed, Listed
  <2>6. SysLocksListed'
    <3> SUFFICES ASSUME NEW u \in Task PROVE SysListed(u)' = SysTotal(u)'
      BY Zenon DEF SysLocksListed
    <3>1. Count(<<>>, u) = 0 /\ Count(<<t>>, u) = One(t, u)
      BY Zenon, CountOne
    <3>2. /\ SysListed(u)' = (IF sys_task'[u] THEN 1 ELSE 0) + 0
          /\ SysListed(u) = (IF sys_task[u] THEN 1 ELSE 0) + One(t, u)
      BY Zenon, <1>2, <2>1, <3>1 DEF SysListed
    <3>3. (IF sys_task'[u] THEN 1 ELSE 0) + 0 =
              (IF sys_task[u] THEN 1 ELSE 0) + One(t, u)
      BY <2>2, <2>3 DEF One
    <3> QED BY Zenon, <1>0, <1>4, <3>2, <3>3 DEF SysLocksListed
  <2> QED BY ZenonT(20), <1>3, <1>5, <2>4, <2>5, <2>6 DEF Registered
<1> QED BY ZenonT(20), <1>1, <1>6, <1>7, HandedFacts

\* In the beginning there is nothing to register.
LEMMA RegisteredInit == Init => Registered
<1> SUFFICES ASSUME Init PROVE Registered
  BY Zenon
<1>1. /\ locked = <<>> /\ waiting_tasks = <<>> /\ sys_waiting = <<>>
      /\ \A r \in Region : waiting[r] = <<>>
      /\ \A t \in Task : ftasks[t] = <<>> /\ ~sys_task[t]
      /\ sys_locked = NULL /\ handing = NULL
  BY Zenon DEF Init
<1>2. \A f : Count(<<>>, f) = 0
  BY Zenon, CountOne
<1>3. \A f \in FTask : f.region \in Region /\ f.task \in Task
  BY Zenon DEF FTask
<1>4. FlockHanded = <<>> /\ SysLockHanded = <<>>
  BY Zenon, <1>1 DEF FlockHanded, SysLockHanded
<1>5. \A f \in FTask : /\ Waits(f) = 0 + 0 /\ Total(f) = 0 + Waits(f)
                       /\ Listed(f) = 0 + 0
  <2> TAKE f \in FTask
  <2>1. waiting[f.region] = <<>> /\ ftasks[f.task] = <<>>
    BY Zenon, <1>1, <1>3
  <2>2. Waits(f) = 0 + 0
    BY Zenon, <1>1, <1>2, <2>1 DEF Waits
  <2>3. Count(locked, f) = 0 /\ Count(ftasks[f.task], f) = 0 /\ Count(FlockHanded, f) = 0
    BY Zenon, <1>1, <1>2, <1>4, <2>1
  <2>4. Total(f) = 0 + Waits(f) /\ Listed(f) = 0 + 0
    BY Zenon, <2>3 DEF Total, Listed
  <2> QED BY Zenon, <2>2, <2>4
<1>6. \A t \in Task : One(NULL, t) = 0
  BY Zenon, NullAssumption DEF One
<1>7. \A t \in Task : /\ SysWaits(t) = 0 /\ SysTotal(t) = 0 + 0
                      /\ SysListed(t) = 0 + 0
  BY Zenon, <1>1, <1>2, <1>4, <1>6 DEF SysWaits, SysTotal, SysListed
<1>8. WaitsOnce /\ FlocksListed /\ SysLocksListed
  BY <1>5, <1>7 DEF WaitsOnce, FlocksListed, SysLocksListed
<1>9. GrantedOK /\ NewSysLock /\ Owned
  BY <1>1 DEF GrantedOK, NewSysLock, Owned
<1> QED BY Zenon, <1>8, <1>9 DEF Registered

\* The cleanup takes the first lock of a connection.
LEMMA TailRemove ==
    ASSUME NEW S, NEW q \in Seq(S), q # <<>>
    PROVE  /\ 1 \in DOMAIN q /\ Head(q) = q[1]
           /\ Tail(q) = RemoveAt(q, 1)
<1>1. 1 \in DOMAIN q /\ Head(q) = q[1]
  OBVIOUS
<1>2. SubSeq(q, 1, 0) = <<>>
  OBVIOUS
<1>3. SubSeq(q, 2, Len(q)) \in Seq(S) /\ Tail(q) = SubSeq(q, 2, Len(q))
  OBVIOUS
<1> DEFINE b == SubSeq(q, 2, Len(q))
<1>4. RemoveAt(q, 1) = <<>> \o b
  BY <1>2 DEF RemoveAt
<1> HIDE DEF b
<1>5. b \in Seq(S) => <<>> \o b = b
  OBVIOUS
<1> QED BY Zenon, <1>1, <1>3, <1>4, <1>5 DEF b

\* Every step of the connections keeps the locks registered,
LEMMA ConnectionListed ==
    ASSUME IInv, IInv', Registered, NEW t \in Task,
           FlockUnlock(t) \/ SysUnlock(t) \/ SysLockRelease(t) \/ Cleanup(t)
    PROVE  Registered'
<1>1. CASE FlockUnlock(t)
  <2>1. PICK i \in DOMAIN ftasks[t] :
           /\ ftasks' = [ftasks EXCEPT ![t] = RemoveAt(@, i)]
           /\ Release(ftasks[t][i])
    BY ZenonT(30), <1>1 DEF FlockUnlock
  <2>2. UNCHANGED <<sys_locked, sys_waiting, sys_task, handing>>
    BY ZenonT(20), <1>1 DEF FlockUnlock, sys_vars
  <2> QED BY Zenon, <2>1, <2>2, DropFlock
<1>2. CASE SysUnlock(t)
  <2>1. /\ sys_task[t] /\ SysRelease(t) /\ Notify(SysAwaked(t))
        /\ sys_task' = [sys_task EXCEPT ![t] = FALSE]
        /\ UNCHANGED <<locked, waiting, waiting_tasks, ftasks, handing>>
    BY ZenonT(20), <1>2 DEF SysUnlock, lock_vars
  <2>2. \A u \in Task : \/ stage'[u] = stage[u] \/ u \in SysAwaked(t)
                        \/ stage[u] # "waiting"
    BY Zenon, <2>1 DEF Notify
  <2> QED BY Zenon, <2>1, <2>2, DropSysLock
<1>3. CASE SysLockRelease(t)
  <2>1. /\ stage[t] = "queued"
        /\ UNCHANGED <<locked, waiting, waiting_tasks, ftasks, handing>>
    BY ZenonT(20), <1>3 DEF SysLockRelease, Deal, lock_vars
  <2>2. CASE /\ sys_task[t] /\ SysRelease(t) /\ Notify({t} \cup SysAwaked(t))
             /\ sys_task' = [sys_task EXCEPT ![t] = FALSE]
    <3>1. \A u \in Task : \/ stage'[u] = stage[u] \/ u \in SysAwaked(t)
                          \/ stage[u] # "waiting"
      BY Zenon, <2>1, <2>2 DEF Notify
    <3> QED BY Zenon, <2>1, <2>2, <3>1, DropSysLock
  <2>3. CASE Notify({t}) /\ UNCHANGED <<sys_vars, sys_task>>
    <3>1. /\ UNCHANGED <<sys_locked, sys_waiting, sys_task>>
          /\ \A u \in Task : stage'[u] = stage[u] \/ stage[u] # "waiting"
      BY Zenon, <2>1, <2>3 DEF Notify, sys_vars
    <3> QED BY Zenon, <2>1, <3>1, StageStep
  <2> QED BY ZenonT(30), <1>3, <2>2, <2>3 DEF SysLockRelease
<1>4. CASE CleanupFlock(t)
  <2> DEFINE q == ftasks[t]
  <2>1. /\ q \in Seq(FTask) /\ q # <<>>
        /\ ftasks' = [ftasks EXCEPT ![t] = Tail(q)] /\ Release(Head(q))
        /\ UNCHANGED <<sys_locked, sys_waiting, sys_task, handing>>
    BY Zenon, <1>4 DEF CleanupFlock, IInv, TaskOK, Pending, sys_vars
  <2>2. 1 \in DOMAIN q /\ Head(q) = q[1] /\ Tail(q) = RemoveAt(q, 1)
    <3> HIDE DEF q
    <3> QED BY Zenon, <2>1, TailRemove
  <2>3. ftasks' = [ftasks EXCEPT ![t] = RemoveAt(@, 1)] /\ Release(ftasks[t][1])
    BY Zenon, <2>1, <2>2
  <2> QED BY Zenon, <2>1, <2>2, <2>3, DropFlock
<1>5. CASE CleanupSys(t)
  <2>1. /\ sys_task' = [sys_task EXCEPT ![t] = FALSE]
        /\ UNCHANGED <<locked, waiting, waiting_tasks, ftasks, handing>>
    BY Zenon, <1>5 DEF CleanupSys, lock_vars
  <2>2. CASE sys_task[t]
    <3>1. SysRelease(t) /\ Notify(SysAwaked(t))
      BY Zenon, <1>5, <2>2 DEF CleanupSys
    <3>2. \A u \in Task : \/ stage'[u] = stage[u] \/ u \in SysAwaked(t)
                          \/ stage[u] # "waiting"
      BY Zenon, <3>1 DEF Notify
    <3> QED BY Zenon, <2>1, <2>2, <3>1, <3>2, DropSysLock
  <2>3. CASE ~sys_task[t]
    <3>1. sys_task \in [Task -> BOOLEAN]
      BY Zenon DEF IInv, TaskOK
    <3>2. sys_task' = sys_task
      BY Zenon, <2>1, <2>3, <3>1
    <3>3. UNCHANGED <<sys_locked, sys_waiting, stage>>
      BY Zenon, <1>5, <2>3 DEF CleanupSys, sys_vars
    <3>4. \A u \in Task : stage'[u] = stage[u] \/ stage[u] # "waiting"
      BY Zenon, <3>3
    <3> QED BY Zenon, <2>1, <3>2, <3>3, <3>4, StageStep
  <2> QED BY Zenon, <2>2, <2>3
<1> QED BY Zenon, <1>1, <1>2, <1>3, <1>4, <1>5 DEF Cleanup

\* and so does every step.
LEMMA RegisteredStep == IInv /\ IInv' /\ Registered /\ [Next]_vars => Registered'
<1> SUFFICES ASSUME IInv, IInv', Registered, [Next]_vars PROVE Registered'
  BY Zenon
<1> DEFINE Same == UNCHANGED <<locked, waiting, waiting_tasks, sys_locked,
                               sys_waiting, ftasks, sys_task, handing>>
           Quiet == \A t \in Task : stage'[t] = stage[t] \/ stage[t] # "waiting"
<1>0. Same /\ Quiet => Registered'
  BY Zenon, StageStep
<1>1. CASE UNCHANGED vars
  BY ZenonT(20), <1>0, <1>1 DEF vars, lock_vars, sys_vars
<1>2. ASSUME NEW t \in Task, NEW r, Push(t, r) PROVE Registered'
  BY Zenon, <1>0, <1>2, Lists DEF Push, lock_vars, sys_vars
<1>3. ASSUME NEW t \in Task, Continue(t) \/ Close(t) \/ Accept(t) PROVE Registered'
  <2>1. Same
    BY ZenonT(20), <1>3 DEF Continue, Close, Accept, lock_vars, sys_vars
  <2>2. Quiet
    BY Zenon, <1>3, Lists DEF Continue, Close, Accept
  <2> QED BY ZenonT(20), <1>0, <2>1, <2>2
<1> HIDE DEF Same, Quiet
<1>4. CASE FlockDoneNotify
  BY Zenon, <1>4, FlockDoneListed
<1>5. ASSUME NEW t \in Task, Client(t) PROVE Registered'
  BY Zenon, <1>2, <1>5, ConnectionListed
     DEF Client, FlockRequest, SysLockRequest, SysUnlockRequest
<1>6. ASSUME NEW t \in Task, DataThread(t) PROVE Registered'
  BY Zenon, <1>6, FlockApplyListed, SysLockApplyListed, ConnectionListed
     DEF DataThread
<1>7. ASSUME NEW t \in Task, Cleanup(t) PROVE Registered'
  BY Zenon, <1>7, ConnectionListed
<1> QED BY Zenon, <1>1, <1>3, <1>4, <1>5, <1>6, <1>7 DEF Next

\* Every lock that is held or waited for is in the list of its connection, or
\* about to be put there, as often as it is held: closing the connection finds
\* all of them and releases nothing twice.
THEOREM AllRegistered == Spec => []LocksRegistered
<1>1. IInv /\ Registered => LocksRegistered
  BY RegisteredProperty DEF Registered
<1> QED BY <1>1, RegisteredInit, RegisteredStep, Inductive, PTL DEF Spec
=============================================================================

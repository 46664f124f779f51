-------------------------- MODULE PushResultRingProofs --------------------------
(***************************************************************************)
(* Proofs about PushResultRing.  The state is type correct whatever the    *)
(* records; the rest, that tasks are told once and that the ring and the   *)
(* queue implement PushResults, is proved for records of one version,      *)
(* since the ring is overrun by longer ones.                               *)
(***************************************************************************)
EXTENDS PushResultRing, FiniteSetTheorems, WellFoundedInduction, TLAPS

-----------------------------------------------------------------------------
(* The inductive invariant.                                                *)

RingHolds(v) == entries[Slot(v)].data_version = v
Held(v) == RingHolds(v) \/ InQueue(v)

\* The number of slots from ring.start to slot s.
Pos(s) == IF s >= start THEN s - start ELSE s + Size - start

\* A slot is free, or it is between ring.start and ring.end and holds a
\* version of its own.
SlotOK(s) ==
    \/ entries[s].data_version = 0 /\ entries[s].waiting_task = NULL
    \/ /\ entries[s].data_version \in 1 .. sent
       /\ entries[s].waiting_task = entries[s].data_version
       /\ Slot(entries[s].data_version) = s
       /\ Pos(s) < Pos(end)
SlotsOK == \A s \in Slots : SlotOK(s)

\* The queue is sorted, and every version in it has a task that waits.
Sorted(q) ==
    /\ \A i \in DOMAIN q : q[i].waiting_task = q[i].data_version
    /\ \A i, j \in DOMAIN q : i < j => q[i].data_version < q[j].data_version
QueueOK == /\ Sorted(queue)
           /\ \A i \in DOMAIN queue : queue[i].data_version \in 1 .. sent

\* A version is held in one place, for a task that has not been told.
HeldOK ==
    /\ tasks \subseteq 1 .. sent
    /\ \A t \in Version :
          /\ Held(t) => t \in tasks
          /\ ~(RingHolds(t) /\ InQueue(t))
          /\ released[t] = IF t \in tasks /\ ~Held(t) THEN 1 ELSE 0

\* The entries expire in the order of their slots and of their versions.
SlotOrder ==
    \A s, t \in Slots :
        Pos(s) < Pos(t) /\ Pos(t) < Pos(end) => entries[s].left <= entries[t].left
Before(e, f) ==
    0 < e.data_version /\ e.data_version < f.data_version => e.left <= f.left
VersionOrder ==
    /\ \A s, t \in Slots : Before(entries[s], entries[t])
    /\ \A i, j \in DOMAIN queue : Before(queue[i], queue[j])
    /\ \A s \in Slots, i \in DOMAIN queue : /\ Before(entries[s], queue[i])
                                            /\ Before(queue[i], entries[s])

IInv == TypeOK /\ SlotsOK /\ QueueOK /\ HeldOK /\ SlotOrder /\ VersionOrder

-----------------------------------------------------------------------------
(* Slots.                                                                  *)

\* Division with remainder by the number of slots.
LEMMA DivMod == \A a \in Int : /\ a = Size * (a \div Size) + (a % Size)
                               /\ a % Size \in 0 .. Size - 1
                               /\ a \div Size \in Int
BY SizeAssumption

\* Every number has a slot of the ring.
LEMMA SlotType == \A a \in Int : Slot(a) \in Slots
BY Zenon, DivMod DEF Slot, Slots

\* The index of a slot less than twice around the ring.
Wrap(n) == IF n < Size THEN n ELSE n - Size

\* Quotient and remainder determine the slot.
LEMMA ModUnique ==
    ASSUME NEW a \in Int, NEW q \in Int, NEW r \in 0 .. Size - 1,
           a = Size * q + r
    PROVE  a % Size = r
BY SizeAssumption

\* Less than twice around the ring, the slot is the wrapped index.
LEMMA SlotWrap == \A n \in 0 .. 2 * Size - 1 : Slot(n) = Wrap(n)
<1> SUFFICES ASSUME NEW n \in 0 .. 2 * Size - 1 PROVE n % Size = Wrap(n)
  BY Zenon DEF Slot
<1>1. CASE n < Size
  <2>1. n = Size * 0 + n /\ n \in 0 .. Size - 1 /\ n \in Int
    BY <1>1, SizeAssumption
  <2> QED BY <1>1, <2>1, ModUnique DEF Wrap
<1>2. CASE n >= Size
  <2>1. n = Size * 1 + (n - Size) /\ n - Size \in 0 .. Size - 1 /\ n \in Int
    BY <1>2, SizeAssumption
  <2> QED BY <1>2, <2>1, ModUnique, SizeAssumption DEF Wrap
<1> QED BY <1>1, <1>2, SizeAssumption

\* The slot of a version follows that of the version before.
LEMMA SlotNext == \A v \in Nat : Slot(v + 1) = Wrap(Slot(v) + 1)
<1> SUFFICES ASSUME NEW v \in Nat PROVE (v + 1) % Size = Wrap((v % Size) + 1)
  BY Zenon DEF Slot
<1> DEFINE q == v \div Size
           r == v % Size
<1>1. v = Size * q + r /\ r \in 0 .. Size - 1 /\ q \in Int
  BY DivMod
<1> HIDE DEF q, r
<1>2. CASE r + 1 < Size
  <2>1. v + 1 = Size * q + (r + 1) /\ r + 1 \in 0 .. Size - 1
    BY <1>1, <1>2, SizeAssumption
  <2>2. (v + 1) % Size = r + 1
    BY <1>1, <2>1, ModUnique
  <2> QED BY Zenon, <1>2, <2>2 DEF Wrap, r
<1>3. CASE ~(r + 1 < Size)
  <2>1. r + 1 = Size
    BY <1>1, <1>3, SizeAssumption
  <2>2. Size * (q + 1) = Size * q + Size
    BY <1>1, SizeAssumption
  <2>3. v + 1 = Size * (q + 1) + 0 /\ 0 \in 0 .. Size - 1 /\ q + 1 \in Int
    BY <1>1, <2>1, <2>2, SizeAssumption
  <2>4. (v + 1) % Size = 0
    BY <2>3, ModUnique
  <2> QED BY <1>3, <2>1, <2>4, SizeAssumption DEF Wrap, r
<1> QED BY Zenon, <1>2, <1>3

\* The slots from ring.start on.
RingFacts ==
    /\ Distance = Pos(end) /\ Distance \in 0 .. Size - 1
    /\ \A s \in Slots : Pos(s) \in 0 .. Size - 1 /\ Slot(start + Pos(s)) = s
    /\ \A k \in 0 .. Size - 1 : Slot(start + k) \in Slots /\ Pos(Slot(start + k)) = k
    /\ \A n \in 0 .. Size : Front(n) = {s \in Slots : Pos(s) < n}
LEMMA RingForm == ASSUME TypeOK PROVE RingFacts
<1>1. start \in Slots /\ end \in Slots
  BY Zenon DEF TypeOK
<1>2. \A k \in 0 .. Size - 1 : Slot(start + k) = Wrap(start + k)
  BY <1>1, SlotWrap, SizeAssumption DEF Slots
<1>3. \A s \in Slots : Pos(s) \in 0 .. Size - 1 /\ Slot(start + Pos(s)) = s
  BY <1>1, <1>2, SizeAssumption DEF Slots, Pos, Wrap
<1>4. \A k \in 0 .. Size - 1 : Slot(start + k) \in Slots /\ Pos(Slot(start + k)) = k
  BY <1>1, <1>2, SizeAssumption DEF Slots, Pos, Wrap
<1>5. Distance = Pos(end)
  <2>1. CASE end >= start
    <3>1. end - start = Size * 0 + Pos(end) /\ end - start \in Int
      BY <1>1, <2>1, SizeAssumption DEF Slots, Pos
    <3> QED BY <1>1, <1>3, <3>1, ModUnique DEF Distance
  <2>2. CASE ~(end >= start)
    <3>1. end - start = Size * (-1) + Pos(end) /\ end - start \in Int /\ -1 \in Int
      BY <1>1, <2>2, SizeAssumption DEF Slots, Pos
    <3> QED BY Zenon, <1>1, <1>3, <3>1, ModUnique DEF Distance
  <2> QED BY Zenon, <2>1, <2>2
<1>6. ASSUME NEW n \in 0 .. Size
      PROVE  Front(n) = {s \in Slots : Pos(s) < n}
  <2>1. ASSUME NEW s \in Front(n) PROVE s \in Slots /\ Pos(s) < n
    <3>1. PICK k \in 0 .. n - 1 : s = Slot(start + k)
      BY Zenon, <2>1 DEF Front
    <3>2. k \in 0 .. Size - 1
      BY SizeAssumption
    <3> QED BY <3>1, <3>2, <1>4
  <2>2. ASSUME NEW s \in Slots, Pos(s) < n PROVE s \in Front(n)
    <3>1. Pos(s) \in 0 .. n - 1 /\ s = Slot(start + Pos(s))
      BY <1>3, <2>2
    <3> QED BY Zenon, <3>1 DEF Front
  <2> QED BY Zenon, <2>1, <2>2
<1> QED BY Zenon, <1>1, <1>3, <1>4, <1>5, <1>6 DEF RingFacts

-----------------------------------------------------------------------------
(* What the loops of the code find.                                        *)

\* A set of numbers that is not empty has a least one.
LEMMA Least ==
    ASSUME NEW S, S \subseteq Nat, S # {}
    PROVE  \E x \in S : \A y \in S : x <= y
<1>1. PICK x \in S : \A y \in S : ~(<<y, x>> \in OpToRel(<, Nat))
  BY Zenon, NatLessThanWellFounded, WFMin
<1>2. \A y \in S : x <= y
  <2> SUFFICES ASSUME NEW y \in S, y < x PROVE FALSE
    OBVIOUS
  <2>1. <<y, x>> \in Nat \X Nat /\ <<y, x>>[1] = y /\ <<y, x>>[2] = x
    BY Zenon
  <2>2. <<y, x>> \in {ss \in Nat \X Nat : ss[1] < ss[2]}
    BY Zenon, <2>1
  <2> QED BY Zenon, <1>1, <2>2 DEF OpToRel
<1> QED BY Zenon, <1>2

\* The loop of push_result_ring_remove stops at ring.end at the latest.
LEMMA StopFacts ==
    ASSUME TypeOK, start # end
    PROVE  /\ FirstStop \in 1 .. Pos(end) /\ Pos(end) \in 1 .. Size - 1
           /\ Stop(FirstStop) /\ \A j \in 1 .. FirstStop - 1 : ~Stop(j)
<1>1. RingFacts
  BY Zenon, RingForm
<1>2. Pos(end) \in 1 .. Size - 1 /\ Stop(Pos(end))
  <2>1. start \in Slots /\ end \in Slots
    BY Zenon DEF TypeOK
  <2>2. Pos(end) \in 0 .. Size - 1 /\ Slot(start + Pos(end)) = end
    BY Zenon, <1>1, <2>1 DEF RingFacts
  <2>3. Pos(end) # 0
    BY <2>1, SizeAssumption DEF Pos, Slots
  <2> QED BY <2>2, <2>3, SizeAssumption DEF Stop
<1> DEFINE S == {k \in 1 .. Size : Stop(k)}
<1>3. S \subseteq Nat /\ Pos(end) \in S
  BY <1>2, SizeAssumption
<1>4. PICK x \in S : \A y \in S : x <= y
  BY Zenon, <1>3, Least
<1>5. x \in 1 .. Size /\ Stop(x) /\ x <= Pos(end)
  BY Zenon, <1>3, <1>4
<1>6. \A j \in 1 .. x - 1 : ~Stop(j)
  <2> SUFFICES ASSUME NEW j \in 1 .. x - 1, Stop(j) PROVE FALSE
    BY Zenon
  <2>1. j \in 1 .. Size /\ j < x
    BY <1>5, SizeAssumption
  <2>2. x <= j
    BY Zenon, <2>1, <1>4
  <2> QED BY <2>1, <2>2, <1>5, SizeAssumption
<1> HIDE DEF S
<1>7. /\ FirstStop \in 1 .. Size /\ Stop(FirstStop)
      /\ \A j \in 1 .. FirstStop - 1 : ~Stop(j)
  BY Zenon, <1>5, <1>6 DEF FirstStop
<1>8. FirstStop <= Pos(end)
  <2> SUFFICES ASSUME Pos(end) < FirstStop PROVE FALSE
    BY <1>2, <1>7
  <2>1. Pos(end) \in 1 .. FirstStop - 1
    BY <1>2, <1>7
  <2> QED BY Zenon, <2>1, <1>2, <1>7
<1> QED BY <1>2, <1>7, <1>8

\* The loops over the timeouts stop at the first entry that is not expired.
LEMMA ExpiredFacts ==
    ASSUME NEW es, NEW N \in Nat, Len(es) = N,
           \A i \in 1 .. N : es[i].left \in Nat
    PROVE  /\ Expired(es) \in 0 .. N
           /\ \A j \in 1 .. Expired(es) : es[j].left = 0
           /\ Expired(es) < N => es[Expired(es) + 1].left > 0
<1> DEFINE S == {k \in 1 .. N : es[k].left > 0}
<1>1. \E k \in 0 .. Len(es) : ExpireFirst(es, k)
  <2>1. CASE S = {}
    <3>1. \A j \in 1 .. N : es[j].left = 0
      BY <2>1
    <3>2. N \in 0 .. Len(es) /\ ~(N < Len(es))
      OBVIOUS
    <3> QED BY Zenon, <3>1, <3>2 DEF ExpireFirst
  <2>2. CASE S # {}
    <3>1. S \subseteq Nat
      OBVIOUS
    <3>2. PICK x \in S : \A y \in S : x <= y
      BY Zenon, <2>2, <3>1, Least
    <3>3. x \in 1 .. N /\ es[x].left > 0
      BY Zenon, <3>2
    <3>4. x - 1 \in 0 .. N /\ x - 1 + 1 = x
      BY <3>3
    <3>5. ASSUME NEW j \in 1 .. x - 1 PROVE es[j].left = 0
      <4>1. j \in 1 .. N /\ ~(x <= j)
        BY <3>3
      <4>2. ~(es[j].left > 0)
        BY Zenon, <4>1, <3>2
      <4> QED BY <4>1, <4>2
    <3> QED BY Zenon, <3>3, <3>4, <3>5 DEF ExpireFirst
  <2> QED BY Zenon, <2>1, <2>2
<1> HIDE DEF S
<1>2. Expired(es) \in 0 .. Len(es) /\ ExpireFirst(es, Expired(es))
  BY Zenon, <1>1 DEF Expired
<1> QED BY Zenon, <1>2 DEF ExpireFirst

-----------------------------------------------------------------------------
(* Sequences and counts.                                                   *)

\* A part of a sequence.
LEMMA PartFacts ==
    ASSUME NEW T, NEW q \in Seq(T), NEW a \in 1 .. Len(q) + 1, NEW b \in 0 .. Len(q),
           a <= b + 1
    PROVE  /\ SubSeq(q, a, b) \in Seq(T) /\ Len(SubSeq(q, a, b)) = b + 1 - a
           /\ \A i \in 1 .. b + 1 - a : SubSeq(q, a, b)[i] = q[a + i - 1]
OBVIOUS

\* Two sequences in a row.
LEMMA ConcatFacts ==
    ASSUME NEW T, NEW p \in Seq(T), NEW q \in Seq(T)
    PROVE  /\ p \o q \in Seq(T) /\ Len(p \o q) = Len(p) + Len(q)
           /\ \A i \in 1 .. Len(p) : (p \o q)[i] = p[i]
           /\ \A i \in 1 .. Len(q) : (p \o q)[Len(p) + i] = q[i]
OBVIOUS

\* The number of elements of a sequence with a property.
LEMMA CountNat ==
    ASSUME NEW N \in Nat, NEW C, C \subseteq 1 .. N
    PROVE  Cardinality(C) \in 0 .. N
<1>1. IsFiniteSet(1 .. N) /\ Cardinality(1 .. N) = N
  BY FS_Interval
<1>2. IsFiniteSet(C) /\ Cardinality(C) <= N
  BY Zenon, <1>1, FS_Subset
<1>3. Cardinality(C) \in Nat
  BY Zenon, <1>2, FS_CardinalityType
<1> QED BY <1>2, <1>3

\* The number of slots with a property.
LEMMA SlotCountNat ==
    ASSUME NEW C, C \subseteq Slots
    PROVE  IsFiniteSet(C) /\ Cardinality(C) \in Nat
<1>1. IsFiniteSet(Slots)
  BY SizeAssumption, FS_Interval DEF Slots
<1> QED BY Zenon, <1>1, FS_Subset, FS_CardinalityType

-----------------------------------------------------------------------------
(* Type correctness, for records of any length.                            *)

\* The parts of TypeOK, one to a line for the proofs below.
LEMMA Types ==
    ASSUME TypeOK
    PROVE  /\ sent \in Nat /\ sent <= MaxVersion /\ start \in Nat /\ end \in Nat
           /\ \A s \in Slots : /\ entries[s] \in Entry
                               /\ entries[s].data_version \in 0 .. MaxVersion
                               /\ entries[s].waiting_task \in Version \cup {NULL}
                               /\ entries[s].left \in 0 .. Lifetime
           /\ Len(queue) \in Nat /\ DOMAIN queue = 1 .. Len(queue)
           /\ \A i \in DOMAIN queue : /\ queue[i] \in Entry
                                      /\ queue[i].data_version \in 0 .. MaxVersion
                                      /\ queue[i].waiting_task \in Version \cup {NULL}
                                      /\ queue[i].left \in 0 .. Lifetime
<1>1. /\ sent \in Nat /\ sent <= MaxVersion /\ start \in Nat /\ end \in Nat
  BY BoundAssumption, SizeAssumption DEF TypeOK, Slots
<1>2. \A s \in Slots : entries[s] \in Entry
  BY Zenon DEF TypeOK
<1>3. Len(queue) \in Nat /\ DOMAIN queue = 1 .. Len(queue)
  BY DEF TypeOK
<1>4. \A i \in DOMAIN queue : queue[i] \in Entry
  BY DEF TypeOK
<1>5. \A e \in Entry : /\ e.data_version \in 0 .. MaxVersion
                       /\ e.waiting_task \in Version \cup {NULL}
                       /\ e.left \in 0 .. Lifetime
  BY Zenon DEF Entry
<1> QED BY Zenon, <1>1, <1>2, <1>3, <1>4, <1>5

\* What desc_task_waiting_rpc_count does to a count of releases.
LEMMA DescType ==
    ASSUME TypeOK, NEW S, S \subseteq Slots, NEW d, NEW N \in Nat,
           DOMAIN d = 1 .. N, Desc(S, d)
    PROVE  released' \in [Version -> Nat]
<1> SUFFICES ASSUME NEW t \in Version
             PROVE  released[t]
                    + Cardinality({s \in S : entries[s].waiting_task = t})
                    + Cardinality({i \in DOMAIN d : d[i].waiting_task = t}) \in Nat
  BY Zenon DEF Desc
<1> DEFINE a == Cardinality({s \in S : entries[s].waiting_task = t})
           b == Cardinality({i \in DOMAIN d : d[i].waiting_task = t})
<1>1. a \in Nat
  <2>1. {s \in S : entries[s].waiting_task = t} \subseteq Slots
    BY Zenon
  <2> QED BY Zenon, <2>1, SlotCountNat
<1>2. b \in Nat
  <2>1. {i \in DOMAIN d : d[i].waiting_task = t} \subseteq 1 .. N
    BY Zenon
  <2>2. b \in 0 .. N
    BY Zenon, <2>1, CountNat
  <2> QED BY <2>2
<1>3. released[t] \in Nat
  BY Zenon DEF TypeOK
<1> HIDE DEF a, b
<1>4. released[t] + a + b \in Nat
  BY <1>1, <1>2, <1>3
<1> QED BY Zenon, <1>4 DEF a, b

\* A freed entry, an aged one and a new one are entries.
Older(e) == [e EXCEPT !.left = IF @ > 0 THEN @ - 1 ELSE 0]
LEMMA EntryTypes ==
    /\ \A e \in Entry : Free(e) \in Entry /\ Older(e) \in Entry
    /\ \A v \in Version, last \in Version, old \in Version \cup {NULL} :
          NewEntry(v, last, old) \in Entry
<1>1. 0 \in 0 .. MaxVersion /\ \A x \in Version : x \in 0 .. MaxVersion
  BY BoundAssumption DEF Version
<1>2. Lifetime \in 0 .. Lifetime
  BY LifetimeAssumption
<1>3. \A x \in 0 .. Lifetime : (IF x > 0 THEN x - 1 ELSE 0) \in 0 .. Lifetime
  BY LifetimeAssumption
<1>4. ASSUME NEW e \in Entry PROVE Free(e) \in Entry /\ Older(e) \in Entry
  <2>1. e.left \in 0 .. Lifetime
    BY Zenon DEF Entry
  <2>2. (IF e.left > 0 THEN e.left - 1 ELSE 0) \in 0 .. Lifetime
    BY Zenon, <2>1, <1>3
  <2>3. Free(e) \in Entry
    BY Zenon, <1>1 DEF Free, Entry
  <2>4. Older(e) \in Entry
    BY Zenon, <2>2 DEF Older, Entry
  <2> QED BY Zenon, <2>3, <2>4
<1>5. ASSUME NEW v \in Version, NEW last \in Version, NEW old \in Version \cup {NULL}
      PROVE  NewEntry(v, last, old) \in Entry
  BY Zenon, <1>1, <1>2 DEF NewEntry, Entry
<1> QED BY Zenon, <1>4, <1>5

\* push_result_ring_add keeps the types, for records of any length.
LEMMA RingAddType == ASSUME TypeOK, NEW n \in Lengths, RingAdd(n) PROVE TypeOK'
<1> DEFINE first == sent + 1
           last == sent + n
           es == [i \in 1 .. n |-> NewEntry(sent + i, last, NULL)]
<1>1. n \in 1 .. Size /\ n \in Nat
  BY LengthsAssumption, SizeAssumption
<1>2. sent \in Nat /\ last <= MaxVersion
  BY Zenon, Types DEF RingAdd
<1>3. \A v \in first .. last : v \in Version
  BY <1>1, <1>2, BoundAssumption DEF Version
<1>4. first \in Nat /\ last \in Nat /\ last + 1 \in Int /\ last \in first .. last
  BY <1>1, <1>2
<1>5. first \in Version /\ last \in Version
  BY <1>1, <1>2, BoundAssumption DEF Version
<1>6. /\ sent' = last /\ owed' = owed \cup (first .. last)
      /\ tasks' = tasks \cup {last}
      /\ UNCHANGED <<checked, released, clears>>
  BY Zenon DEF RingAdd
<1>7. start' \in Slots /\ end' \in Slots /\ entries' \in [Slots -> Entry]
      /\ queue' \in Seq(Entry)
  <2>1. CASE Matched(first)
    <3>1. /\ start' = IF start = end THEN Slot(first) ELSE start
          /\ end' = Slot(last + 1)
          /\ entries' = [s \in Slots |->
                IF \E v \in first .. last : Slot(v) = s
                THEN NewEntry(CHOOSE v \in first .. last : Slot(v) = s,
                              last, entries[s].waiting_task)
                ELSE entries[s]]
          /\ queue' = queue
      BY Zenon, <2>1 DEF RingAdd
    <3>2. Slot(first) \in Slots /\ Slot(last + 1) \in Slots
      BY <1>4, SlotType
    <3>3. start' \in Slots /\ end' \in Slots /\ queue' \in Seq(Entry)
      BY Zenon, <3>1, <3>2 DEF TypeOK
    <3>4. ASSUME NEW s \in Slots
          PROVE  (IF \E v \in first .. last : Slot(v) = s
                  THEN NewEntry(CHOOSE v \in first .. last : Slot(v) = s,
                                last, entries[s].waiting_task)
                  ELSE entries[s]) \in Entry
      <4>1. entries[s] \in Entry /\ entries[s].waiting_task \in Version \cup {NULL}
        BY Zenon, Types
      <4> HIDE DEF first, last
      <4>2. CASE \E v \in first .. last : Slot(v) = s
        <5>1. (CHOOSE v \in first .. last : Slot(v) = s) \in first .. last
          BY Zenon, <4>2
        <5> QED BY Zenon, <4>1, <4>2, <5>1, <1>3, <1>5, EntryTypes
      <4> QED BY Zenon, <4>1, <4>2
    <3> HIDE DEF first, last
    <3>5. entries' \in [Slots -> Entry]
      BY Zenon, <3>1, <3>4
    <3> QED BY Zenon, <3>3, <3>5
  <2>2. CASE ~Matched(first)
    <3>1. AddToQueue(es) /\ UNCHANGED <<entries, start, end>>
      BY Zenon, <2>2 DEF RingAdd
    <3>2. es \in Seq(Entry)
      <4>1. ASSUME NEW i \in 1 .. n PROVE NewEntry(sent + i, last, NULL) \in Entry
        <5>1. sent + i \in first .. last
          BY <1>1, <1>2
        <5> QED BY Zenon, <5>1, <1>3, <1>5, EntryTypes
      <4> HIDE DEF last
      <4> QED BY <1>1, <4>1
    <3> HIDE DEF es
    <3> DEFINE C == {i \in DOMAIN queue : queue[i].data_version < es[1].data_version}
               p == Cardinality(C)
    <3>3. Len(queue) \in Nat /\ DOMAIN queue = 1 .. Len(queue) /\ queue \in Seq(Entry)
      BY Zenon, Types DEF TypeOK
    <3>4. p \in 0 .. Len(queue)
      <4>1. C \subseteq 1 .. Len(queue)
        BY Zenon, <3>3
      <4> QED BY Zenon, <3>3, <4>1, CountNat
    <3>5. queue' = SubSeq(queue, 1, p) \o es \o SubSeq(queue, p + 1, Len(queue))
      BY Zenon, <3>1 DEF AddToQueue
    <3> HIDE DEF p
    <3>6. queue' \in Seq(Entry)
      <4>1. SubSeq(queue, 1, p) \in Seq(Entry)
        BY <3>3, <3>4
      <4>2. SubSeq(queue, p + 1, Len(queue)) \in Seq(Entry)
        BY <3>3, <3>4
      <4> QED BY Zenon, <3>2, <3>5, <4>1, <4>2, ConcatFacts
    <3> QED BY Zenon, <3>1, <3>6 DEF TypeOK
  <2> QED BY Zenon, <2>1, <2>2
<1>8. sent' \in 0 .. MaxVersion
  BY <1>2, <1>4, <1>6
<1> HIDE DEF first, last, es
<1> QED BY Zenon, <1>3, <1>5, <1>6, <1>7, <1>8 DEF TypeOK

\* push_result_ring_remove keeps the types.
LEMMA RingRemoveType == ASSUME TypeOK, NEW v \in owed, RingRemove(v) PROVE TypeOK'
<1>1. /\ v \in Version /\ Slot(v) \in Slots
  BY SlotType DEF TypeOK, Version
<1>2. owed' \subseteq Version /\ UNCHANGED <<end, checked, sent, tasks, clears>>
  BY Zenon DEF RingRemove, TypeOK
<1>3. Len(queue) \in Nat /\ DOMAIN queue = 1 .. Len(queue) /\ queue \in Seq(Entry)
  BY Zenon, Types DEF TypeOK
<1>4. /\ start' \in Slots /\ entries' \in [Slots -> Entry] /\ queue' \in Seq(Entry)
      /\ released' \in [Version -> Nat]
  <2>1. CASE InRing(v)
    <3>1. /\ start' = IF start = Slot(v) THEN NextStart ELSE start
          /\ entries' = [entries EXCEPT ![Slot(v)] = Free(@)]
          /\ Desc({Slot(v)}, <<>>)
          /\ queue' = queue
      BY Zenon, <2>1 DEF RingRemove
    <3>2. NextStart \in Slots
      <4>1. FirstStop \in 1 .. Pos(end) /\ Pos(end) \in 1 .. Size - 1
        BY Zenon, <2>1, StopFacts DEF InRing
      <4>2. FirstStop \in 0 .. Size - 1
        BY <4>1, SizeAssumption
      <4> QED BY Zenon, <4>2, RingForm DEF RingFacts, NextStart
    <3>3. entries[Slot(v)] \in Entry /\ Free(entries[Slot(v)]) \in Entry
      BY Zenon, <1>1, Types, EntryTypes
    <3>4. entries' \in [Slots -> Entry]
      BY Zenon, <3>1, <3>3 DEF TypeOK
    <3>5. {Slot(v)} \subseteq Slots /\ DOMAIN <<>> = 1 .. 0 /\ 0 \in Nat
      BY <1>1
    <3>6. released' \in [Version -> Nat]
      BY Zenon, <3>1, <3>5, DescType
    <3>7. start \in Slots
      BY Zenon DEF TypeOK
    <3> QED BY Zenon, <1>3, <3>1, <3>2, <3>4, <3>6, <3>7
  <2>2. CASE ~InRing(v)
    <3>1. PICK i \in DOMAIN queue :
                /\ queue' = SubSeq(queue, 1, i - 1)
                             \o SubSeq(queue, i + 1, Len(queue))
                /\ Desc({}, <<queue[i]>>)
      BY Zenon, <2>2 DEF RingRemove
    <3>2. UNCHANGED <<entries, start>>
      BY Zenon, <2>2 DEF RingRemove
    <3>3. i \in 1 .. Len(queue)
      BY Zenon, <1>3
    <3>4. SubSeq(queue, 1, i - 1) \in Seq(Entry)
      BY <1>3, <3>3
    <3>5. SubSeq(queue, i + 1, Len(queue)) \in Seq(Entry)
      BY <1>3, <3>3
    <3>6. queue' \in Seq(Entry)
      BY Zenon, <3>1, <3>4, <3>5, ConcatFacts
    <3>7. {} \subseteq Slots /\ DOMAIN <<queue[i]>> = 1 .. 1 /\ 1 \in Nat
      OBVIOUS
    <3>8. released' \in [Version -> Nat]
      BY Zenon, <3>1, <3>7, DescType
    <3> QED BY Zenon, <3>2, <3>6, <3>8 DEF TypeOK
  <2> QED BY Zenon, <2>1, <2>2
<1> QED BY Zenon, <1>2, <1>4 DEF TypeOK

\* A ring in which the slots of S are freed.
Freed(S) == [s \in Slots |-> IF s \in S THEN Free(entries[s]) ELSE entries[s]]
LEMMA FreedType == ASSUME TypeOK, NEW S PROVE Freed(S) \in [Slots -> Entry]
<1>1. \A s \in Slots : entries[s] \in Entry /\ Free(entries[s]) \in Entry
  BY Zenon, Types, EntryTypes
<1> QED BY Zenon, <1>1 DEF Freed

\* push_result_ring_clear_all keeps the types.
LEMMA ClearAllType ==
    ASSUME TypeOK, ClearAll, sent' \in 0 .. MaxVersion, clears' \in 0 .. MaxClears
    PROVE  TypeOK'
<1>1. /\ entries' = Freed(Front(Distance)) /\ start' = end /\ queue' = <<>>
      /\ Desc(Front(Distance), queue) /\ owed' = {}
      /\ UNCHANGED <<end, checked, tasks>>
  BY Zenon DEF ClearAll, Freed
<1>2. Front(Distance) \subseteq Slots
  <2>1. RingFacts
    BY Zenon, RingForm
  <2>2. Distance \in 0 .. Size
    BY <2>1, SizeAssumption DEF RingFacts
  <2> QED BY Zenon, <2>1, <2>2 DEF RingFacts
<1>3. Len(queue) \in Nat /\ DOMAIN queue = 1 .. Len(queue)
  BY Zenon, Types
<1>4. released' \in [Version -> Nat]
  BY Zenon, <1>1, <1>2, <1>3, DescType
<1>5. entries' \in [Slots -> Entry]
  BY Zenon, <1>1, FreedType
<1>6. queue' \in Seq(Entry)
  BY <1>1
<1> QED BY Zenon, <1>1, <1>4, <1>5, <1>6 DEF TypeOK

\* What push_result_ring_clear_timeouts takes from the ring and the queue.
RingEntries == [i \in 1 .. Distance |-> entries[Slot(start + i - 1)]]
LEMMA TimeoutFacts ==
    ASSUME TypeOK
    PROVE  /\ Expired(RingEntries) \in 0 .. Distance
           /\ \A s \in Slots : Pos(s) < Expired(RingEntries) => entries[s].left = 0
           /\ \A s \in Slots : Pos(s) = Expired(RingEntries) /\ Pos(s) < Distance
                                  => entries[s].left > 0
           /\ Expired(queue) \in 0 .. Len(queue)
           /\ \A i \in DOMAIN queue : i <= Expired(queue) => queue[i].left = 0
           /\ \A i \in DOMAIN queue : i = Expired(queue) + 1 => queue[i].left > 0
<1>1. RingFacts
  BY Zenon, RingForm
<1>a. Distance \in 0 .. Size - 1 /\ start \in Nat
  BY Zenon, <1>1, Types DEF RingFacts
<1>2. Distance \in 0 .. Size - 1 /\ Distance \in Nat /\ start \in Nat
  BY <1>a, SizeAssumption
<1>3. Len(RingEntries) = Distance
  BY <1>2 DEF RingEntries
<1>4. ASSUME NEW s \in Slots, Pos(s) < Distance
      PROVE  /\ Pos(s) + 1 \in 1 .. Distance
             /\ RingEntries[Pos(s) + 1] = entries[s]
  <2>1. Pos(s) \in 0 .. Size - 1 /\ Slot(start + Pos(s)) = s
    BY Zenon, <1>1 DEF RingFacts
  <2>2. Pos(s) + 1 \in 1 .. Distance /\ start + (Pos(s) + 1) - 1 = start + Pos(s)
    BY <1>2, <1>4, <2>1
  <2>3. RingEntries[Pos(s) + 1] = entries[Slot(start + (Pos(s) + 1) - 1)]
    BY Zenon, <2>2 DEF RingEntries
  <2> QED BY Zenon, <2>1, <2>2, <2>3
<1>5. ASSUME NEW i \in 1 .. Distance PROVE RingEntries[i].left \in Nat
  <2>1. i - 1 \in 0 .. Size - 1 /\ start + i - 1 = start + (i - 1)
    BY <1>2, SizeAssumption
  <2>2. Slot(start + i - 1) \in Slots
    BY Zenon, <2>1, <1>1 DEF RingFacts
  <2>3. RingEntries[i] = entries[Slot(start + i - 1)]
    BY Zenon DEF RingEntries
  <2>4. entries[Slot(start + i - 1)].left \in 0 .. Lifetime
    BY Zenon, <2>2, Types
  <2> QED BY <2>3, <2>4
<1> DEFINE n == Expired(RingEntries)
<1>6. /\ n \in 0 .. Distance
      /\ \A j \in 1 .. n : RingEntries[j].left = 0
      /\ n < Distance => RingEntries[n + 1].left > 0
  BY Zenon, <1>2, <1>3, <1>5, ExpiredFacts
<1> HIDE DEF n
<1>7. ASSUME NEW s \in Slots, Pos(s) < n PROVE entries[s].left = 0
  <2>1. Pos(s) \in 0 .. Size - 1
    BY Zenon, <1>1 DEF RingFacts
  <2>2. Pos(s) < Distance /\ Pos(s) + 1 \in 1 .. n
    BY <1>2, <1>6, <1>7, <2>1
  <2> QED BY Zenon, <1>4, <1>6, <2>2
<1>8. ASSUME NEW s \in Slots, Pos(s) = n, Pos(s) < Distance PROVE entries[s].left > 0
  <2>1. RingEntries[Pos(s) + 1] = entries[s]
    BY Zenon, <1>4, <1>8
  <2> QED BY Zenon, <1>6, <1>8, <2>1
<1>9. Len(queue) \in Nat /\ \A i \in 1 .. Len(queue) : queue[i].left \in Nat
  BY Types
<1> DEFINE m == Expired(queue)
<1>10. /\ m \in 0 .. Len(queue)
       /\ \A j \in 1 .. m : queue[j].left = 0
       /\ m < Len(queue) => queue[m + 1].left > 0
  BY Zenon, <1>9, ExpiredFacts
<1> HIDE DEF m
<1>11. DOMAIN queue = 1 .. Len(queue)
  BY Zenon, Types
<1>12. /\ \A i \in DOMAIN queue : i <= m => queue[i].left = 0
       /\ \A i \in DOMAIN queue : i = m + 1 => queue[i].left > 0
  BY <1>9, <1>10, <1>11
<1> QED BY Zenon, <1>6, <1>7, <1>8, <1>10, <1>12 DEF n, m

\* push_result_ring_clear_timeouts keeps the types.
LEMMA ClearTimeoutsType == ASSUME TypeOK, ClearTimeouts PROVE TypeOK'
<1> DEFINE n == Expired(RingEntries)
           m == Expired(queue)
<1>1. /\ checked' = TRUE /\ start' = Slot(start + n)
      /\ entries' = Freed(Front(n))
      /\ queue' = SubSeq(queue, m + 1, Len(queue))
      /\ Desc(Front(n), SubSeq(queue, 1, m))
      /\ UNCHANGED <<end, sent, owed, tasks, clears>>
  BY Zenon DEF ClearTimeouts, RingEntries, Freed
<1>2. n \in 0 .. Distance /\ m \in 0 .. Len(queue)
  BY Zenon, TimeoutFacts
<1> HIDE DEF n, m
<1>3. RingFacts
  BY Zenon, RingForm
<1>4. n \in 0 .. Size - 1 /\ n \in 0 .. Size
  BY <1>2, <1>3, SizeAssumption DEF RingFacts
<1>5. start' \in Slots /\ Front(n) \subseteq Slots
  BY Zenon, <1>1, <1>3, <1>4 DEF RingFacts
<1>6. entries' \in [Slots -> Entry]
  BY Zenon, <1>1, FreedType
<1>7. queue \in Seq(Entry)
  BY Zenon DEF TypeOK
<1>8. queue' \in Seq(Entry)
  BY <1>1, <1>2, <1>7
<1>9. DOMAIN SubSeq(queue, 1, m) = 1 .. m /\ m \in Nat
  BY <1>2, <1>7
<1>10. released' \in [Version -> Nat]
  BY Zenon, <1>1, <1>5, <1>9, DescType
<1> QED BY Zenon, <1>1, <1>5, <1>6, <1>8, <1>10 DEF TypeOK

\* A second takes its time from every entry and moves none.
LEMMA TickFacts ==
    ASSUME TypeOK, Tick
    PROVE  /\ entries' = [s \in Slots |-> Older(entries[s])]
           /\ queue' \in Seq(Entry) /\ DOMAIN queue' = DOMAIN queue
           /\ Len(queue') = Len(queue)
           /\ \A i \in DOMAIN queue : queue'[i] = Older(queue[i])
<1>1. /\ entries' = [s \in Slots |-> Older(entries[s])]
      /\ queue' = [i \in DOMAIN queue |-> Older(queue[i])]
  BY Zenon DEF Tick, Older
<1>2. Len(queue) \in Nat /\ DOMAIN queue = 1 .. Len(queue)
  BY Zenon, Types
<1>3. \A i \in DOMAIN queue : Older(queue[i]) \in Entry
  BY Zenon, Types, EntryTypes
<1>4. queue' = [i \in 1 .. Len(queue) |-> Older(queue[i])]
  BY Zenon, <1>1, <1>2
<1>5. queue' \in [1 .. Len(queue) -> Entry]
  BY Zenon, <1>2, <1>3, <1>4
<1>6. queue' \in Seq(Entry) /\ Len(queue') = Len(queue)
  BY <1>2, <1>5
<1> QED BY Zenon, <1>1, <1>6

\* A second keeps the types.
LEMMA TickType == ASSUME TypeOK, Tick PROVE TypeOK'
<1>1. \A s \in Slots : Older(entries[s]) \in Entry
  BY Zenon, Types, EntryTypes
<1>2. entries' \in [Slots -> Entry]
  BY Zenon, <1>1, TickFacts
<1>3. queue' \in Seq(Entry)
  BY Zenon, TickFacts
<1>4. checked' = FALSE /\ UNCHANGED <<start, end, sent, owed, tasks, released, clears>>
  BY Zenon DEF Tick
<1> QED BY Zenon, <1>2, <1>3, <1>4 DEF TypeOK

\* The ring of push_result_ring_check_init is type correct.
LEMMA TypeInit == ASSUME Init PROVE TypeOK
<1>1. /\ 0 \in 0 .. MaxVersion /\ 0 \in 0 .. Lifetime /\ 0 \in Slots
      /\ 0 \in 0 .. MaxClears
  BY BoundAssumption, LifetimeAssumption, SizeAssumption DEF Slots
<1>2. [data_version |-> 0, waiting_task |-> NULL, left |-> 0] \in Entry
  BY Zenon, <1>1 DEF Entry
<1>3. entries \in [Slots -> Entry]
  BY Zenon, <1>2 DEF Init
<1>4. <<>> \in Seq(Entry) /\ 0 \in Nat
  OBVIOUS
<1> QED BY Zenon, <1>1, <1>3, <1>4 DEF Init, TypeOK

\* Every step keeps the types.
LEMMA TypeStep == ASSUME TypeOK, [Next]_vars PROVE TypeOK'
<1>1. ASSUME NEW n \in Lengths, RingAdd(n) PROVE TypeOK'
  BY Zenon, <1>1, RingAddType
<1>2. ASSUME NEW v \in owed, RingRemove(v) PROVE TypeOK'
  BY Zenon, <1>2, RingRemoveType
<1>3. ASSUME NEW v \in owed, RingRemoveFail(v) PROVE TypeOK'
  <2>1. ClearAll /\ sent' = sent /\ clears' = clears
    BY Zenon, <1>3 DEF RingRemoveFail
  <2> QED BY Zenon, <2>1, ClearAllType DEF TypeOK
<1>4. CASE Disconnect
  <2>1. ClearAll
    BY Zenon, <1>4 DEF Disconnect
  <2>2. sent' \in 0 .. MaxVersion /\ clears' \in 0 .. MaxClears
    BY <1>4, Types, BoundAssumption DEF Disconnect, TypeOK
  <2> QED BY Zenon, <2>1, <2>2, ClearAllType
<1>5. CASE ClearTimeouts
  BY Zenon, <1>5, ClearTimeoutsType
<1>6. CASE Tick
  BY Zenon, <1>6, TickType
<1>7. CASE UNCHANGED vars
  BY Zenon, <1>7 DEF vars, TypeOK
<1> QED BY Zenon, <1>1, <1>2, <1>3, <1>4, <1>5, <1>6, <1>7 DEF Next

\* TypeOK holds for records of any length: ring.start and ring.end never leave
\* the ring, and what is in the ring and in the queue are entries.
THEOREM TypeCorrect == Spec => []TypeOK
<1>1. Init => TypeOK
  BY Zenon, TypeInit
<1>2. TypeOK /\ [Next]_vars => TypeOK'
  BY TypeStep
<1> QED BY <1>1, <1>2, PTL DEF Spec

-----------------------------------------------------------------------------
(* How often a task is held.                                               *)

In(q, v) == \E i \in DOMAIN q : q[i].data_version = v

\* The numbers of Version are positive, and no task is NULL.
LEMMA VersionFacts == \A t \in Version : t \in Nat /\ t > 0 /\ t # NULL /\ Slot(t) \in Slots
BY SlotType, NullAssumption DEF Version

\* A slot that holds a version is the slot of that version.
LEMMA RingTask ==
    ASSUME TypeOK, SlotsOK, NEW s \in Slots, NEW t \in Version
    PROVE  entries[s].waiting_task = t <=> s = Slot(t) /\ RingHolds(t)
<1>1. t # 0 /\ t # NULL
  BY VersionFacts
<1>2. SlotOK(s)
  BY Zenon DEF SlotsOK
<1>3. ASSUME entries[s].waiting_task = t PROVE s = Slot(t) /\ RingHolds(t)
  BY Zenon, <1>1, <1>2, <1>3 DEF SlotOK, RingHolds
<1>4. ASSUME s = Slot(t), RingHolds(t) PROVE entries[s].waiting_task = t
  <2>1. entries[s].data_version = t
    BY Zenon, <1>4 DEF RingHolds
  <2> QED BY Zenon, <1>1, <1>2, <2>1 DEF SlotOK
<1> QED BY Zenon, <1>3, <1>4

\* A task waits in the ring at one slot at most, that of its version.
LEMMA CountRing ==
    ASSUME TypeOK, SlotsOK, NEW S, S \subseteq Slots, NEW t \in Version
    PROVE  Cardinality({s \in S : entries[s].waiting_task = t})
             = IF RingHolds(t) /\ Slot(t) \in S THEN 1 ELSE 0
<1> DEFINE C == {s \in S : entries[s].waiting_task = t}
<1>1. \A s \in Slots : entries[s].waiting_task = t <=> s = Slot(t) /\ RingHolds(t)
  BY Zenon, RingTask
<1>2. CASE RingHolds(t) /\ Slot(t) \in S
  <2>1. C = {Slot(t)}
    BY Zenon, <1>1, <1>2
  <2> HIDE DEF C
  <2>2. Cardinality(C) = 1
    BY Zenon, <2>1, FS_Singleton
  <2> QED BY Zenon, <1>2, <2>2 DEF C
<1>3. CASE ~(RingHolds(t) /\ Slot(t) \in S)
  <2>1. C = {}
    BY Zenon, <1>1, <1>3
  <2> HIDE DEF C
  <2>2. Cardinality(C) = 0
    BY Zenon, <2>1, FS_EmptySet
  <2> QED BY Zenon, <1>3, <2>2 DEF C
<1> QED BY Zenon, <1>2, <1>3

\* A task waits in a sorted queue at one place at most.
LEMMA CountQueue ==
    ASSUME NEW d, NEW N \in Nat, DOMAIN d = 1 .. N, Sorted(d), NEW t \in Version
    PROVE  Cardinality({i \in DOMAIN d : d[i].waiting_task = t})
             = IF In(d, t) THEN 1 ELSE 0
<1> DEFINE C == {i \in DOMAIN d : d[i].waiting_task = t}
<1>1. \A i \in DOMAIN d : d[i].waiting_task = t <=> d[i].data_version = t
  BY Zenon DEF Sorted
<1>2. CASE In(d, t)
  <2>1. PICK k \in DOMAIN d : d[k].data_version = t
    BY Zenon, <1>2 DEF In
  <2>2. ASSUME NEW i \in DOMAIN d, d[i].data_version = t PROVE i = k
    <3>1. i \in Nat /\ k \in Nat /\ t \in Nat
      BY VersionFacts
    <3>2. i < k => t < t
      BY Zenon, <2>1, <2>2 DEF Sorted
    <3>3. k < i => t < t
      BY Zenon, <2>1, <2>2 DEF Sorted
    <3> QED BY <3>1, <3>2, <3>3
  <2>3. C = {k}
    BY Zenon, <1>1, <2>1, <2>2
  <2> HIDE DEF C
  <2>4. Cardinality(C) = 1
    BY Zenon, <2>3, FS_Singleton
  <2> QED BY Zenon, <1>2, <2>4 DEF C
<1>3. CASE ~In(d, t)
  <2>1. C = {}
    BY Zenon, <1>1, <1>3 DEF In
  <2> HIDE DEF C
  <2>2. Cardinality(C) = 0
    BY Zenon, <2>1, FS_EmptySet
  <2> QED BY Zenon, <1>3, <2>2 DEF C
<1> QED BY Zenon, <1>2, <1>3

\* The invariant gives the two properties.
LEMMA InvTold == ASSUME IInv PROVE ToldOnce
<1>1. TypeOK /\ SlotsOK /\ Sorted(queue)
  BY Zenon DEF IInv, QueueOK
<1>2. Len(queue) \in Nat /\ DOMAIN queue = 1 .. Len(queue)
  BY Zenon, <1>1, Types
<1> SUFFICES ASSUME NEW t \in Version
             PROVE  released[t] + Holders(t) = IF t \in tasks THEN 1 ELSE 0
  BY Zenon DEF ToldOnce
<1> DEFINE a == Cardinality({s \in Slots : entries[s].waiting_task = t})
           b == Cardinality({i \in DOMAIN queue : queue[i].waiting_task = t})
<1>3. Slot(t) \in Slots
  BY Zenon, VersionFacts
<1>4. a = IF RingHolds(t) THEN 1 ELSE 0
  BY Zenon, <1>1, <1>3, CountRing
<1>5. b = IF InQueue(t) THEN 1 ELSE 0
  BY Zenon, <1>1, <1>2, CountQueue DEF In, InQueue
<1>6. /\ Held(t) => t \in tasks
      /\ ~(RingHolds(t) /\ InQueue(t))
      /\ released[t] = IF t \in tasks /\ ~Held(t) THEN 1 ELSE 0
  BY Zenon DEF IInv, HeldOK
<1>7. Holders(t) = a + b
  BY Zenon DEF Holders
<1> HIDE DEF a, b
<1> QED BY <1>4, <1>5, <1>6, <1>7 DEF Held

\* No slot is in use between ring.start and ring.end when they are equal.
LEMMA InvEmpty == ASSUME IInv PROVE EmptyRing
<1> SUFFICES ASSUME start = end, NEW s \in Slots, entries[s].waiting_task # NULL
             PROVE  FALSE
  BY Zenon DEF EmptyRing
<1>1. TypeOK /\ SlotOK(s)
  BY Zenon DEF IInv, SlotsOK
<1>2. Pos(s) < Pos(end)
  BY Zenon, <1>1 DEF SlotOK
<1>3. Pos(s) \in 0 .. Size - 1
  BY Zenon, <1>1, RingForm DEF RingFacts
<1>4. end \in Nat /\ start \in Nat
  BY Zenon, <1>1, Types
<1>5. Pos(end) = 0
  BY <1>4 DEF Pos
<1> QED BY <1>2, <1>3, <1>5

-----------------------------------------------------------------------------
(* Entries leave the ring and the queue.                                   *)

\* ring.start goes forward, not beyond ring.end.
LEMMA Advance ==
    ASSUME TypeOK, NEW k \in 0 .. Distance, start' = Slot(start + k), end' = end
    PROVE  /\ \A s \in Slots :
                 Pos(s)' = IF Pos(s) >= k THEN Pos(s) - k ELSE Pos(s) - k + Size
           /\ Pos(end)' = Pos(end) - k
           /\ \A s \in Slots : Pos(s) \in 0 .. Size - 1
           /\ Pos(end) \in k .. Size - 1 /\ k \in Nat
<1>1. start \in Slots /\ end \in Slots /\ RingFacts
  BY Zenon, RingForm DEF TypeOK
<1>2. k \in 0 .. Size - 1 /\ k <= Pos(end) /\ Pos(end) \in 0 .. Size - 1
  BY <1>1, SizeAssumption DEF RingFacts
<1>3. start' = Wrap(start + k)
  BY <1>1, <1>2, SlotWrap, SizeAssumption DEF Slots
<1>4. \A s \in Slots :
         Pos(s)' = IF Pos(s) >= k THEN Pos(s) - k ELSE Pos(s) - k + Size
  BY <1>1, <1>2, <1>3, SizeAssumption DEF Slots, Pos, Wrap
<1>5. Pos(end)' = Pos(end) - k
  BY <1>1, <1>2, <1>3, SizeAssumption DEF Slots, Pos, Wrap
<1>6. \A s \in Slots : Pos(s) \in 0 .. Size - 1
  BY Zenon, <1>1 DEF RingFacts
<1> QED BY <1>2, <1>4, <1>5, <1>6

\* A slot after the new ring.start keeps its place before ring.end.
LEMMA AdvanceOrder ==
    ASSUME TypeOK, NEW k \in 0 .. Distance, start' = Slot(start + k), end' = end
    PROVE  /\ \A s \in Slots : k <= Pos(s) /\ Pos(s) < Pos(end)
                                  => Pos(s)' < Pos(end)'
           /\ \A s, t \in Slots : Pos(s)' < Pos(t)' /\ Pos(t)' < Pos(end)'
                                  => Pos(s) < Pos(t) /\ Pos(t) < Pos(end)
<1>1. ASSUME NEW s \in Slots, k <= Pos(s), Pos(s) < Pos(end)
      PROVE  Pos(s)' < Pos(end)'
  <2>1. /\ Pos(s)' = IF Pos(s) >= k THEN Pos(s) - k ELSE Pos(s) - k + Size
        /\ Pos(end)' = Pos(end) - k
        /\ Pos(s) \in 0 .. Size - 1
        /\ Pos(end) \in k .. Size - 1 /\ k \in Nat
    BY Zenon, Advance
  <2> QED BY <1>1, <2>1, SizeAssumption
<1>2. ASSUME NEW s \in Slots, NEW t \in Slots, Pos(s)' < Pos(t)', Pos(t)' < Pos(end)'
      PROVE  Pos(s) < Pos(t) /\ Pos(t) < Pos(end)
  <2>1. /\ Pos(s)' = IF Pos(s) >= k THEN Pos(s) - k ELSE Pos(s) - k + Size
        /\ Pos(t)' = IF Pos(t) >= k THEN Pos(t) - k ELSE Pos(t) - k + Size
        /\ Pos(end)' = Pos(end) - k
        /\ Pos(s) \in 0 .. Size - 1 /\ Pos(t) \in 0 .. Size - 1
        /\ Pos(end) \in k .. Size - 1 /\ k \in Nat
    BY Zenon, Advance
  <2> QED BY <1>2, <2>1, SizeAssumption
<1> QED BY Zenon, <1>1, <1>2

\* What freeing a slot does to its entry.
LEMMA FreedFacts ==
    ASSUME TypeOK, NEW S, entries' = Freed(S), NEW s \in Slots
    PROVE  /\ s \in S => /\ entries'[s].data_version = 0
                         /\ entries'[s].waiting_task = NULL
           /\ s \notin S => entries'[s] = entries[s]
           /\ entries'[s].left = entries[s].left
<1>1. entries[s] \in Entry
  BY Zenon, Types
<1>2. entries'[s] = IF s \in S THEN Free(entries[s]) ELSE entries[s]
  BY Zenon DEF Freed
<1>3. /\ Free(entries[s]).data_version = 0 /\ Free(entries[s]).waiting_task = NULL
      /\ Free(entries[s]).left = entries[s].left
  BY Zenon, <1>1 DEF Free, Entry
<1> QED BY Zenon, <1>2, <1>3

\* The versions of the freed slots are no longer held.
LEMMA FreedHolds ==
    ASSUME TypeOK, NEW S, entries' = Freed(S), NEW t \in Version
    PROVE  RingHolds(t)' <=> RingHolds(t) /\ Slot(t) \notin S
<1>1. Slot(t) \in Slots /\ t # 0
  BY VersionFacts
<1>2. RingHolds(t)' <=> entries'[Slot(t)].data_version = t
  BY Zenon DEF RingHolds, Slot
<1>3. /\ Slot(t) \in S => entries'[Slot(t)].data_version = 0
      /\ Slot(t) \notin S => entries'[Slot(t)] = entries[Slot(t)]
  BY Zenon, <1>1, FreedFacts
<1> QED BY Zenon, <1>1, <1>2, <1>3 DEF RingHolds

\* What the released tasks are after desc_task_waiting_rpc_count.
LEMMA DescFacts ==
    ASSUME TypeOK, SlotsOK, NEW S, S \subseteq Slots, NEW d, NEW N \in Nat,
           DOMAIN d = 1 .. N, Sorted(d), Desc(S, d), NEW t \in Version
    PROVE  released'[t] = released[t] + (IF RingHolds(t) /\ Slot(t) \in S THEN 1 ELSE 0)
                                      + (IF In(d, t) THEN 1 ELSE 0)
<1>1. released'[t] = released[t]
                     + Cardinality({s \in S : entries[s].waiting_task = t})
                     + Cardinality({i \in DOMAIN d : d[i].waiting_task = t})
  BY Zenon DEF Desc
<1>2. Cardinality({s \in S : entries[s].waiting_task = t})
             = IF RingHolds(t) /\ Slot(t) \in S THEN 1 ELSE 0
  BY Zenon, CountRing
<1>3. Cardinality({i \in DOMAIN d : d[i].waiting_task = t})
             = IF In(d, t) THEN 1 ELSE 0
  BY Zenon, CountQueue
<1> QED BY Zenon, <1>1, <1>2, <1>3

\* The slots of S are freed, ring.start goes forward by k, the entries d leave
\* the queue, and those who wait for them are told.
Taken(S, k, d, N) ==
    /\ S \subseteq Slots /\ k \in 0 .. Distance /\ N \in Nat
    /\ entries' = Freed(S) /\ start' = Slot(start + k) /\ end' = end
    /\ \A s \in Slots : Pos(s) < k /\ entries[s].data_version # 0 => s \in S
    /\ DOMAIN d = 1 .. N /\ Sorted(d) /\ Sorted(queue')
    /\ \A i \in DOMAIN d : \E j \in DOMAIN queue : d[i] = queue[j]
    /\ \A i \in DOMAIN queue' : \E j \in DOMAIN queue : queue'[i] = queue[j]
    /\ \A t \in Version : InQueue(t)' <=> InQueue(t) /\ ~In(d, t)
    /\ Desc(S, d) /\ tasks' = tasks /\ sent <= sent'

\* The slots that are left are still between ring.start and ring.end.
LEMMA TakenSlots ==
    ASSUME IInv, TypeOK', NEW S, NEW k, NEW d, NEW N, Taken(S, k, d, N)
    PROVE  SlotsOK'
<1>1. TypeOK /\ SlotsOK /\ sent \in Nat
  BY Zenon, Types DEF IInv
<1>2. /\ S \subseteq Slots /\ k \in 0 .. Distance /\ sent <= sent'
      /\ entries' = Freed(S) /\ start' = Slot(start + k) /\ end' = end
      /\ \A s \in Slots : Pos(s) < k /\ entries[s].data_version # 0 => s \in S
  BY Zenon DEF Taken
<1>3. sent' \in Nat
  BY BoundAssumption DEF TypeOK
<1> SUFFICES ASSUME NEW s \in Slots PROVE SlotOK(s)'
  BY Zenon DEF SlotsOK, Slots
<1>4. CASE s \in S
  BY Zenon, <1>1, <1>2, <1>4, FreedFacts DEF SlotOK
<1>5. CASE s \notin S
  <2>1. entries'[s] = entries[s]
    BY Zenon, <1>1, <1>2, <1>5, FreedFacts
  <2>2. SlotOK(s)
    BY Zenon, <1>1 DEF SlotsOK
  <2>3. CASE entries[s].data_version = 0 /\ entries[s].waiting_task = NULL
    BY Zenon, <2>1, <2>3 DEF SlotOK
  <2>4. CASE ~(entries[s].data_version = 0 /\ entries[s].waiting_task = NULL)
    <3>1. /\ entries[s].data_version \in 1 .. sent
          /\ entries[s].waiting_task = entries[s].data_version
          /\ Slot(entries[s].data_version) = s
          /\ Pos(s) < Pos(end)
      BY Zenon, <2>2, <2>4 DEF SlotOK
    <3>2. entries[s].data_version \in 1 .. sent' /\ entries[s].data_version # 0
      BY <3>1, <1>1, <1>2, <1>3
    <3>3. Pos(s) \in 0 .. Size - 1 /\ k \in Nat
      BY Zenon, <1>1, <1>2, Advance
    <3>4. ~(Pos(s) < k)
      BY Zenon, <1>2, <1>5, <3>2
    <3>5. k <= Pos(s)
      BY <3>3, <3>4
    <3>6. Pos(s)' < Pos(end)'
      BY Zenon, <1>1, <1>2, <3>1, <3>5, AdvanceOrder
    <3>7. Slot(entries'[s].data_version) = s
      BY Zenon, <2>1, <3>1
    <3> QED BY Zenon, <2>1, <3>1, <3>2, <3>6, <3>7 DEF SlotOK, Slot
  <2> QED BY Zenon, <2>3, <2>4
<1> QED BY Zenon, <1>4, <1>5

\* The queue that is left is still sorted.
LEMMA TakenQueue ==
    ASSUME IInv, TypeOK', NEW S, NEW k, NEW d, NEW N, Taken(S, k, d, N)
    PROVE  QueueOK'
<1>1. /\ Sorted(queue') /\ sent <= sent'
      /\ \A i \in DOMAIN queue' : \E j \in DOMAIN queue : queue'[i] = queue[j]
  BY Zenon DEF Taken
<1>2. sent \in Nat /\ sent' \in Nat
  BY BoundAssumption DEF IInv, TypeOK
<1>3. \A i \in DOMAIN queue : queue[i].data_version \in 1 .. sent
  BY Zenon DEF IInv, QueueOK
<1>4. 1 .. sent \subseteq 1 .. sent'
  BY <1>1, <1>2
<1>5. \A i \in DOMAIN queue' : queue'[i].data_version \in 1 .. sent'
  BY Zenon, <1>1, <1>3, <1>4
<1>6. Sorted(queue)'
  BY Zenon, <1>1 DEF Sorted
<1> QED BY Zenon, <1>5, <1>6 DEF QueueOK

\* Those who are no longer held are told, and no one else.
LEMMA TakenHeld ==
    ASSUME IInv, TypeOK', NEW S, NEW k, NEW d, NEW N, Taken(S, k, d, N)
    PROVE  HeldOK'
<1>1. TypeOK /\ SlotsOK /\ HeldOK
  BY Zenon DEF IInv
<1>2. /\ S \subseteq Slots /\ N \in Nat /\ entries' = Freed(S)
      /\ DOMAIN d = 1 .. N /\ Sorted(d) /\ Desc(S, d)
      /\ \A i \in DOMAIN d : \E j \in DOMAIN queue : d[i] = queue[j]
      /\ \A t \in Version : InQueue(t)' <=> InQueue(t) /\ ~In(d, t)
      /\ tasks' = tasks /\ sent <= sent'
  BY Zenon DEF Taken
<1>3. tasks' \subseteq 1 .. sent'
  <2>1. sent \in Nat /\ sent' \in Nat
    BY BoundAssumption, <1>1 DEF TypeOK
  <2>2. 1 .. sent \subseteq 1 .. sent'
    BY <1>2, <2>1
  <2> QED BY Zenon, <1>1, <1>2, <2>2 DEF HeldOK
<1>4. ASSUME NEW t \in Version
      PROVE  /\ Held(t)' => t \in tasks'
             /\ ~(RingHolds(t)' /\ InQueue(t)')
             /\ released'[t] = IF t \in tasks' /\ ~Held(t)' THEN 1 ELSE 0
  <2>1. /\ Held(t) => t \in tasks
        /\ ~(RingHolds(t) /\ InQueue(t))
        /\ released[t] = IF t \in tasks /\ ~Held(t) THEN 1 ELSE 0
    BY Zenon, <1>1 DEF HeldOK
  <2>2. RingHolds(t)' <=> RingHolds(t) /\ Slot(t) \notin S
    BY Zenon, <1>1, <1>2, FreedHolds
  <2>3. released'[t] = released[t] + (IF RingHolds(t) /\ Slot(t) \in S THEN 1 ELSE 0)
                                   + (IF In(d, t) THEN 1 ELSE 0)
    BY Zenon, <1>1, <1>2, DescFacts
  <2>4. InQueue(t)' <=> InQueue(t) /\ ~In(d, t)
    BY Zenon, <1>2
  <2>5. ASSUME In(d, t) PROVE InQueue(t)
    <3>1. PICK i \in DOMAIN d : d[i].data_version = t
      BY Zenon, <2>5 DEF In
    <3>2. PICK j \in DOMAIN queue : d[i] = queue[j]
      BY Zenon, <1>2
    <3>3. queue[j].data_version = t
      BY Zenon, <3>1, <3>2
    <3> QED BY Zenon, <3>3 DEF InQueue
  <2>6. Held(t)' <=> RingHolds(t)' \/ InQueue(t)'
    BY Zenon DEF Held
  <2>7. Held(t) <=> RingHolds(t) \/ InQueue(t)
    BY Zenon DEF Held
  <2> DEFINE h == Held(t)'
             r == RingHolds(t)'
             q == InQueue(t)'
             x == released'[t]
  <2>8. /\ r <=> RingHolds(t) /\ Slot(t) \notin S
        /\ q <=> InQueue(t) /\ ~In(d, t)
        /\ h <=> r \/ q
        /\ x = released[t] + (IF RingHolds(t) /\ Slot(t) \in S THEN 1 ELSE 0)
                           + (IF In(d, t) THEN 1 ELSE 0)
    BY Zenon, <2>2, <2>3, <2>4, <2>6
  <2> HIDE DEF h, r, q, x
  <2>9. /\ h => t \in tasks
        /\ ~(r /\ q)
        /\ x = IF t \in tasks /\ ~h THEN 1 ELSE 0
    BY <2>1, <2>5, <2>7, <2>8
  <2> QED BY Zenon, <1>2, <2>9 DEF h, r, q, x
<1> QED BY Zenon, <1>3, <1>4 DEF HeldOK, Version

\* What is left still expires in order.
LEMMA TakenOrder ==
    ASSUME IInv, TypeOK', NEW S, NEW k, NEW d, NEW N, Taken(S, k, d, N)
    PROVE  SlotOrder' /\ VersionOrder'
<1>1. TypeOK /\ SlotOrder /\ VersionOrder
  BY Zenon DEF IInv
<1>2. /\ k \in 0 .. Distance
      /\ entries' = Freed(S) /\ start' = Slot(start + k) /\ end' = end
      /\ \A i \in DOMAIN queue' : \E j \in DOMAIN queue : queue'[i] = queue[j]
  BY Zenon DEF Taken
<1>3. SlotOrder'
  <2> SUFFICES ASSUME NEW s \in Slots, NEW t \in Slots,
                      Pos(s)' < Pos(t)', Pos(t)' < Pos(end)'
               PROVE  entries'[s].left <= entries'[t].left
    BY Zenon DEF SlotOrder, Slots
  <2>1. Pos(s) < Pos(t) /\ Pos(t) < Pos(end)
    BY Zenon, <1>1, <1>2, AdvanceOrder
  <2>2. entries'[s].left = entries[s].left /\ entries'[t].left = entries[t].left
    BY Zenon, <1>1, <1>2, FreedFacts
  <2> QED BY Zenon, <1>1, <2>1, <2>2 DEF SlotOrder
<1>4. \A s \in Slots : entries'[s].data_version = 0 \/ entries'[s] = entries[s]
  BY Zenon, <1>1, <1>2, FreedFacts
<1>5. \A e, f : e.data_version = 0 => Before(e, f)
  <2>1. ~(0 < 0)
    OBVIOUS
  <2> QED BY Zenon, <2>1 DEF Before
<1>6. \A s \in Slots : entries[s].data_version \in Nat
  <2>1. \A x \in 0 .. MaxVersion : x \in Nat
    BY BoundAssumption
  <2> QED BY Zenon, <1>1, <2>1, Types
<1>7. \A i \in DOMAIN queue : queue[i].data_version \in Nat
  <2>1. \A x \in 0 .. MaxVersion : x \in Nat
    BY BoundAssumption
  <2> QED BY Zenon, <1>1, <2>1, Types
<1>8. ASSUME NEW e, NEW f, e.data_version \in Nat, f.data_version = 0
      PROVE  Before(e, f)
  <2>1. ~(0 < e.data_version /\ e.data_version < 0)
    BY <1>8
  <2> QED BY Zenon, <1>8, <2>1 DEF Before
<1>9. \A s \in Slots : entries'[s].data_version \in Nat
  <2>1. 0 \in Nat
    BY Zenon
  <2> QED BY Zenon, <1>4, <1>6, <2>1
<1>10. \A s, t \in Slots : Before(entries'[s], entries'[t])
  BY Zenon, <1>1, <1>4, <1>5, <1>8, <1>9 DEF VersionOrder
<1>11. \A i, j \in DOMAIN queue' : Before(queue'[i], queue'[j])
  BY Zenon, <1>1, <1>2 DEF VersionOrder
<1>12. \A s \in Slots, i \in DOMAIN queue' :
          Before(entries'[s], queue'[i]) /\ Before(queue'[i], entries'[s])
  <2> SUFFICES ASSUME NEW s \in Slots, NEW i \in DOMAIN queue'
               PROVE  Before(entries'[s], queue'[i]) /\ Before(queue'[i], entries'[s])
    BY Zenon
  <2>1. PICK j \in DOMAIN queue : queue'[i] = queue[j]
    BY Zenon, <1>2
  <2>2. CASE entries'[s].data_version = 0
    <3>1. queue'[i].data_version \in Nat
      BY Zenon, <1>7, <2>1
    <3> QED BY Zenon, <1>5, <1>8, <2>2, <3>1
  <2>3. CASE entries'[s] = entries[s]
    BY Zenon, <1>1, <2>1, <2>3 DEF VersionOrder
  <2> QED BY Zenon, <1>4, <2>2, <2>3
<1>13. VersionOrder'
  BY Zenon, <1>10, <1>11, <1>12 DEF VersionOrder, Before, Slots
<1> QED BY Zenon, <1>3, <1>13

\* Whatever entries leave, the invariant holds after it.
LEMMA TakenStep ==
    ASSUME IInv, TypeOK', NEW S, NEW k, NEW d, NEW N, Taken(S, k, d, N)
    PROVE  IInv'
BY Zenon, TakenSlots, TakenQueue, TakenHeld, TakenOrder DEF IInv

-----------------------------------------------------------------------------
(* Parts of the queue.                                                     *)

\* A sequence has the entries of q at the places of A.
Covers(q, A, r) == /\ \A i \in DOMAIN r : \E j \in A : r[i] = q[j]
                   /\ \A j \in A : \E i \in DOMAIN r : r[i] = q[j]

\* In a sorted sequence no version occurs twice.
LEMMA SortedOnce ==
    ASSUME NEW q \in Seq(Entry), Sorted(q), NEW i \in DOMAIN q, NEW j \in DOMAIN q,
           q[i].data_version = q[j].data_version
    PROVE  i = j
<1>1. i \in Nat /\ j \in Nat
  OBVIOUS
<1>2. q[i] \in Entry
  OBVIOUS
<1>3. q[i].data_version \in 0 .. MaxVersion
  BY Zenon, <1>2 DEF Entry
<1>4. q[i].data_version \in Int
  BY <1>3, BoundAssumption
<1>5. (i < j => q[i].data_version < q[i].data_version)
      /\ (j < i => q[i].data_version < q[i].data_version)
  BY Zenon DEF Sorted
<1> QED BY <1>1, <1>4, <1>5

\* What is taken from a sequence and what is left of it have no version in
\* common.
LEMMA CoverIn ==
    ASSUME NEW q \in Seq(Entry), Sorted(q), NEW A, NEW B, NEW d, NEW r,
           A \cup B = DOMAIN q, A \cap B = {}, Covers(q, A, d), Covers(q, B, r)
    PROVE  \A t : In(r, t) <=> In(q, t) /\ ~In(d, t)
<1>1. A \subseteq DOMAIN q /\ B \subseteq DOMAIN q
  BY Zenon
<1> SUFFICES ASSUME NEW t PROVE In(r, t) <=> In(q, t) /\ ~In(d, t)
  BY Zenon
<1>2. ASSUME In(r, t) PROVE In(q, t) /\ ~In(d, t)
  <2>1. PICK i \in DOMAIN r : r[i].data_version = t
    BY Zenon, <1>2 DEF In
  <2>2. PICK j \in B : r[i] = q[j]
    BY Zenon DEF Covers
  <2>3. q[j].data_version = t
    BY Zenon, <2>1, <2>2
  <2>4. ASSUME NEW x \in DOMAIN d, d[x].data_version = t PROVE FALSE
    <3>1. PICK y \in A : d[x] = q[y]
      BY Zenon DEF Covers
    <3>2. q[y].data_version = q[j].data_version
      BY Zenon, <2>3, <2>4, <3>1
    <3>3. y = j
      BY Zenon, <1>1, <3>2, SortedOnce
    <3> QED BY Zenon, <3>3
  <2> QED BY Zenon, <1>1, <2>3, <2>4 DEF In
<1>3. ASSUME In(q, t), ~In(d, t) PROVE In(r, t)
  <2>1. PICK j \in DOMAIN q : q[j].data_version = t
    BY Zenon, <1>3 DEF In
  <2>2. j \notin A
    <3> SUFFICES ASSUME j \in A PROVE FALSE
      BY Zenon
    <3>1. PICK x \in DOMAIN d : d[x] = q[j]
      BY Zenon DEF Covers
    <3>2. d[x].data_version = t
      BY Zenon, <2>1, <3>1
    <3> QED BY Zenon, <1>3, <3>2 DEF In
  <2>3. j \in B
    BY Zenon, <2>1, <2>2
  <2>4. PICK i \in DOMAIN r : r[i] = q[j]
    BY Zenon, <2>3 DEF Covers
  <2>5. r[i].data_version = t
    BY Zenon, <2>1, <2>4
  <2> QED BY Zenon, <2>5 DEF In
<1> QED BY Zenon, <1>2, <1>3

\* A sequence whose entries come from a sorted one in their order is sorted.
LEMMA SortedPart ==
    ASSUME NEW q \in Seq(Entry), Sorted(q), NEW r, NEW M \in Nat, DOMAIN r = 1 .. M,
           NEW f, \A i \in 1 .. M : f[i] \in DOMAIN q /\ r[i] = q[f[i]],
           \A i, j \in 1 .. M : i < j => f[i] < f[j]
    PROVE  Sorted(r)
<1>1. ASSUME NEW i \in 1 .. M PROVE r[i].waiting_task = r[i].data_version
  <2>1. f[i] \in DOMAIN q /\ r[i] = q[f[i]]
    BY Zenon
  <2>2. q[f[i]].waiting_task = q[f[i]].data_version
    BY Zenon, <2>1 DEF Sorted
  <2> QED BY Zenon, <2>1, <2>2
<1>2. ASSUME NEW i \in 1 .. M, NEW j \in 1 .. M, i < j
      PROVE  r[i].data_version < r[j].data_version
  <2>1. f[i] \in DOMAIN q /\ f[j] \in DOMAIN q /\ f[i] < f[j]
    BY Zenon, <1>2
  <2>2. q[f[i]].data_version < q[f[j]].data_version
    BY Zenon, <2>1 DEF Sorted
  <2>3. r[i] = q[f[i]] /\ r[j] = q[f[j]]
    BY Zenon
  <2> QED BY Zenon, <2>2, <2>3
<1> QED BY Zenon, <1>1, <1>2 DEF Sorted

\* The front of the queue is taken.
LEMMA TakeFront ==
    ASSUME NEW q \in Seq(Entry), Sorted(q), NEW m \in 0 .. Len(q)
    PROVE  LET d == SubSeq(q, 1, m)
               r == SubSeq(q, m + 1, Len(q))
           IN  /\ DOMAIN d = 1 .. m /\ m \in Nat /\ Sorted(d) /\ Sorted(r)
               /\ Covers(q, 1 .. m, d) /\ Covers(q, m + 1 .. Len(q), r)
               /\ \A t : In(r, t) <=> In(q, t) /\ ~In(d, t)
<1> DEFINE d == SubSeq(q, 1, m)
           r == SubSeq(q, m + 1, Len(q))
           M == Len(q) - m
<1>1. /\ DOMAIN d = 1 .. m /\ m \in Nat
      /\ \A i \in 1 .. m : d[i] = q[i]
  OBVIOUS
<1>2. /\ DOMAIN r = 1 .. M /\ M \in Nat
      /\ \A i \in 1 .. M : r[i] = q[m + i]
  OBVIOUS
<1>3. DOMAIN q = 1 .. Len(q) /\ Len(q) \in Nat
  OBVIOUS
<1> HIDE DEF d, r
<1>4. Sorted(d)
  <2> DEFINE f == [i \in 1 .. m |-> i]
  <2>1. \A i \in 1 .. m : f[i] \in DOMAIN q /\ d[i] = q[f[i]]
    BY <1>1, <1>3
  <2>2. \A i, j \in 1 .. m : i < j => f[i] < f[j]
    BY Zenon
  <2> HIDE DEF f
  <2> QED BY Zenon, <1>1, <2>1, <2>2, SortedPart
<1>5. Sorted(r)
  <2> DEFINE f == [i \in 1 .. M |-> m + i]
  <2>1. \A i \in 1 .. M : f[i] \in DOMAIN q /\ r[i] = q[f[i]]
    BY <1>2, <1>3
  <2>2. \A i, j \in 1 .. M : i < j => f[i] < f[j]
    OBVIOUS
  <2> HIDE DEF f, M
  <2> QED BY Zenon, <1>2, <2>1, <2>2, SortedPart
<1>6. Covers(q, 1 .. m, d)
  BY Zenon, <1>1 DEF Covers
<1>7. Covers(q, m + 1 .. Len(q), r)
  <2>1. \A i \in 1 .. M : m + i \in m + 1 .. Len(q)
    BY <1>3
  <2>2. \A j \in m + 1 .. Len(q) : j - m \in 1 .. M /\ m + (j - m) = j
    BY <1>3
  <2> HIDE DEF M
  <2> QED BY Zenon, <1>2, <2>1, <2>2 DEF Covers
<1>8. \A t : In(r, t) <=> In(q, t) /\ ~In(d, t)
  <2> DEFINE A == 1 .. m
             B == m + 1 .. Len(q)
  <2>1. A \cup B = DOMAIN q /\ A \cap B = {}
    BY <1>3
  <2>2. Covers(q, A, d) /\ Covers(q, B, r)
    BY Zenon, <1>6, <1>7
  <2> HIDE DEF A, B
  <2> QED BY Zenon, <2>1, <2>2, CoverIn
<1> QED BY Zenon, <1>1, <1>4, <1>5, <1>6, <1>7, <1>8 DEF d, r

\* One entry of the queue is taken.
LEMMA TakeOne ==
    ASSUME NEW q \in Seq(Entry), Sorted(q), NEW k \in DOMAIN q
    PROVE  LET d == <<q[k]>>
               r == SubSeq(q, 1, k - 1) \o SubSeq(q, k + 1, Len(q))
           IN  /\ DOMAIN d = 1 .. 1 /\ 1 \in Nat /\ Sorted(d) /\ Sorted(r)
               /\ Covers(q, {k}, d) /\ Covers(q, DOMAIN q \ {k}, r)
               /\ \A t : In(r, t) <=> In(q, t) /\ ~In(d, t)
<1> DEFINE d == <<q[k]>>
           a == SubSeq(q, 1, k - 1)
           b == SubSeq(q, k + 1, Len(q))
           r == a \o b
           M == Len(q) - 1
           f == [i \in 1 .. M |-> IF i < k THEN i ELSE i + 1]
<1>0. DOMAIN q = 1 .. Len(q) /\ Len(q) \in Nat /\ k \in 1 .. Len(q) /\ M \in Nat
  OBVIOUS
<1>1. DOMAIN d = 1 .. 1 /\ d[1] = q[k] /\ 1 \in Nat
  OBVIOUS
<1>2. /\ a \in Seq(Entry) /\ Len(a) = k - 1
      /\ \A i \in 1 .. k - 1 : a[i] = q[i]
  BY <1>0
<1>3. /\ b \in Seq(Entry) /\ Len(b) = Len(q) - k
      /\ \A i \in 1 .. Len(q) - k : b[i] = q[k + i]
  <2>1. b \in Seq(Entry) /\ Len(b) = Len(q) - k
    BY <1>0
  <2>2. \A i \in 1 .. Len(q) - k : b[i] = q[k + i]
    BY <1>0
  <2> QED BY Zenon, <2>1, <2>2
<1> HIDE DEF d, a, b, M
<1>4. /\ r \in Seq(Entry) /\ Len(r) = Len(a) + Len(b)
      /\ \A i \in 1 .. Len(a) : r[i] = a[i]
      /\ \A i \in 1 .. Len(b) : r[Len(a) + i] = b[i]
  <2>1. a \in Seq(Entry) /\ b \in Seq(Entry)
    BY Zenon, <1>2, <1>3
  <2> HIDE DEF f
  <2> QED BY SMTT(30), <2>1
<1> HIDE DEF r
<1>5. DOMAIN r = 1 .. M
  <2>1. Len(a) + Len(b) = M
    BY <1>0, <1>2, <1>3 DEF M
  <2> QED BY <1>4, <2>1
<1>6. /\ \A i \in 1 .. k - 1 : r[i] = a[i]
      /\ \A i \in k .. M : r[i] = b[i - (k - 1)]
  <2>1. \A i \in k .. M : i - (k - 1) \in 1 .. Len(b) /\ Len(a) + (i - (k - 1)) = i
    <3>1. Len(a) = k - 1 /\ Len(b) = Len(q) - k
      BY Zenon, <1>2, <1>3
    <3> HIDE DEF f
    <3> QED BY <1>0, <3>1 DEF M
  <2> QED BY Zenon, <1>2, <1>4, <2>1
<1>7. \A i \in 1 .. M : f[i] \in DOMAIN q /\ f[i] # k /\ r[i] = q[f[i]]
  <2> SUFFICES ASSUME NEW i \in 1 .. M
               PROVE  f[i] \in DOMAIN q /\ f[i] # k /\ r[i] = q[f[i]]
    BY Zenon
  <2>1. CASE i < k
    <3>1. i \in 1 .. k - 1 /\ i \in DOMAIN q /\ f[i] = i /\ i # k
      BY <1>0, <2>1 DEF M
    <3> QED BY Zenon, <1>2, <1>6, <3>1
  <2>2. CASE ~(i < k)
    <3>1. /\ i \in k .. M /\ i + 1 \in DOMAIN q /\ f[i] = i + 1 /\ i + 1 # k
          /\ i - (k - 1) \in 1 .. Len(q) - k /\ k + (i - (k - 1)) = i + 1
      BY <1>0, <2>2 DEF M
    <3> QED BY Zenon, <1>3, <1>6, <3>1
  <2> QED BY Zenon, <2>1, <2>2
<1>8. \A i, j \in 1 .. M : i < j => f[i] < f[j]
  BY <1>0
<1>9. \A j \in DOMAIN q \ {k} : \E i \in 1 .. M : f[i] = j
  <2> SUFFICES ASSUME NEW j \in DOMAIN q, j # k PROVE \E i \in 1 .. M : f[i] = j
    BY Zenon
  <2>1. CASE j < k
    <3>1. j \in 1 .. M /\ f[j] = j
      BY <1>0, <2>1 DEF M
    <3> QED BY Zenon, <3>1
  <2>2. CASE j > k
    <3>1. j - 1 \in 1 .. M /\ f[j - 1] = j
      BY <1>0, <2>2 DEF M
    <3> QED BY Zenon, <3>1
  <2> QED BY <1>0, <2>1, <2>2
<1> HIDE DEF f
<1>10. Sorted(r)
  BY Zenon, <1>0, <1>5, <1>7, <1>8, SortedPart
<1>11. Covers(q, DOMAIN q \ {k}, r)
  BY ZenonT(30), <1>5, <1>7, <1>9 DEF Covers
<1>12. Covers(q, {k}, d)
  <2>1. \A i \in 1 .. 1 : i = 1
    OBVIOUS
  <2>2. 1 \in 1 .. 1
    OBVIOUS
  <2>3. \A i \in DOMAIN d : \E j \in {k} : d[i] = q[j]
    BY Zenon, <1>1, <2>1
  <2>4. \A j \in {k} : \E i \in DOMAIN d : d[i] = q[j]
    BY Zenon, <1>1, <2>2
  <2> QED BY Zenon, <2>3, <2>4 DEF Covers
<1>13. Sorted(d)
  <2>1. \A i, j \in 1 .. 1 : i = 1 /\ ~(i < j)
    OBVIOUS
  <2>2. d[1].waiting_task = d[1].data_version
    BY Zenon, <1>1 DEF Sorted
  <2> QED BY Zenon, <1>1, <2>1, <2>2 DEF Sorted
<1>14. {k} \cup (DOMAIN q \ {k}) = DOMAIN q /\ {k} \cap (DOMAIN q \ {k}) = {}
  BY Zenon
<1>15. \A t : In(r, t) <=> In(q, t) /\ ~In(d, t)
  BY Zenon, <1>11, <1>12, <1>14, CoverIn
<1> QED BY Zenon, <1>1, <1>10, <1>11, <1>12, <1>13, <1>15 DEF d, r, a, b

-----------------------------------------------------------------------------
(* The actions by which entries leave.                                     *)

\* Facts every one of them needs.
LEMMA QueueFacts ==
    ASSUME IInv
    PROVE  /\ TypeOK /\ queue \in Seq(Entry) /\ Sorted(queue)
           /\ DOMAIN queue = 1 .. Len(queue) /\ Len(queue) \in Nat
           /\ sent \in Nat /\ sent <= sent
           /\ \A t : InQueue(t) <=> In(queue, t)
           /\ \A t : InQueue(t)' <=> In(queue', t)
<1>1. TypeOK /\ queue \in Seq(Entry) /\ Sorted(queue)
  BY Zenon DEF IInv, TypeOK, QueueOK
<1>2. DOMAIN queue = 1 .. Len(queue) /\ Len(queue) \in Nat /\ sent \in Nat
  BY Zenon, <1>1, Types
<1>3. sent <= sent
  BY <1>2
<1> QED BY Zenon, <1>1, <1>2, <1>3 DEF InQueue, In

\* ring.start stays where it is.
LEMMA SameStart == ASSUME TypeOK PROVE start = Slot(start + 0) /\ 0 \in 0 .. Distance
<1>1. RingFacts /\ start \in Nat /\ start \in Slots
  BY Zenon, RingForm, Types DEF TypeOK
<1>2. Distance \in 0 .. Size - 1 /\ Pos(start) = 0
  BY <1>1, SizeAssumption DEF RingFacts, Pos
<1>3. Slot(start + Pos(start)) = start
  BY Zenon, <1>1 DEF RingFacts
<1> QED BY <1>2, <1>3

\* push_result_ring_remove finds the version in the ring.
LEMMA RemoveRing ==
    ASSUME IInv, NEW v \in owed, RingRemove(v), InRing(v)
    PROVE  \E k : Taken({Slot(v)}, k, <<>>, 0)
<1>1. /\ TypeOK /\ queue \in Seq(Entry) /\ Sorted(queue) /\ sent <= sent
      /\ \A t : InQueue(t) <=> In(queue, t)
      /\ \A t : InQueue(t)' <=> In(queue', t)
  BY Zenon, QueueFacts
<1>2. /\ start' = IF start = Slot(v) THEN NextStart ELSE start
      /\ entries' = [entries EXCEPT ![Slot(v)] = Free(@)]
      /\ Desc({Slot(v)}, <<>>)
      /\ queue' = queue
      /\ UNCHANGED <<end, sent, tasks>>
  BY Zenon DEF RingRemove
<1>3. v \in Version /\ Slot(v) \in Slots
  BY Zenon, <1>1, VersionFacts DEF TypeOK
<1>4. entries' = Freed({Slot(v)})
  <2>1. entries \in [Slots -> Entry]
    BY Zenon, <1>1 DEF TypeOK
  <2> QED BY Zenon, <1>2, <1>3, <2>1 DEF Freed
<1>5. DOMAIN <<>> = 1 .. 0 /\ 0 \in Nat /\ 1 .. 0 = {}
  OBVIOUS
<1>6. Sorted(<<>>) /\ \A t : ~In(<<>>, t)
  BY Zenon, <1>5 DEF Sorted, In
<1> DEFINE k == IF start = Slot(v) THEN FirstStop ELSE 0
<1>7. /\ k \in 0 .. Distance /\ start' = Slot(start + k)
      /\ \A s \in Slots : Pos(s) < k /\ entries[s].data_version # 0 => s \in {Slot(v)}
  <2>1. RingFacts
    BY Zenon, <1>1, RingForm
  <2>2. CASE start = Slot(v)
    <3>1. /\ FirstStop \in 1 .. Pos(end) /\ Pos(end) \in 1 .. Size - 1
          /\ \A j \in 1 .. FirstStop - 1 : ~Stop(j)
      BY Zenon, <1>1, StopFacts DEF InRing
    <3>2. Distance = Pos(end) /\ k = FirstStop
      BY Zenon, <2>1, <2>2 DEF RingFacts
    <3>3. k \in 0 .. Distance
      BY <3>1, <3>2
    <3>4. start' = Slot(start + k)
      BY Zenon, <1>2, <2>2, <3>2 DEF NextStart
    <3>5. ASSUME NEW s \in Slots, Pos(s) < k, entries[s].data_version # 0
          PROVE  s = Slot(v)
      <4>1. Pos(s) \in 0 .. Size - 1 /\ Slot(start + Pos(s)) = s
        BY Zenon, <2>1 DEF RingFacts
      <4>2. Stop(Pos(s))
        BY Zenon, <3>5, <4>1 DEF Stop
      <4>3. Pos(s) \notin 1 .. FirstStop - 1
        BY Zenon, <3>1, <4>2
      <4>4. Pos(s) < FirstStop
        BY Zenon, <3>5, <3>2
      <4>5. Pos(s) = 0
        BY <3>1, <4>1, <4>3, <4>4
      <4>6. start = Slot(start + 0)
        BY Zenon, <1>1, SameStart
      <4> QED BY Zenon, <2>2, <4>1, <4>5, <4>6
    <3> QED BY Zenon, <3>3, <3>4, <3>5
  <2>3. CASE start # Slot(v)
    <3>1. k = 0 /\ start' = start
      BY Zenon, <1>2, <2>3
    <3>2. \A s \in Slots : ~(Pos(s) < 0)
      BY <2>1 DEF RingFacts
    <3> HIDE DEF k
    <3> QED BY Zenon, <1>1, <3>1, <3>2, SameStart
  <2> QED BY Zenon, <2>2, <2>3
<1> HIDE DEF k
<1>8. {Slot(v)} \subseteq Slots
  BY Zenon, <1>3
<1>9. Taken({Slot(v)}, k, <<>>, 0)
  <2>1. \A i \in DOMAIN <<>> : \E j \in DOMAIN queue : <<>>[i] = queue[j]
    BY Zenon, <1>5
  <2>2. \A i \in DOMAIN queue' : \E j \in DOMAIN queue : queue'[i] = queue[j]
    BY Zenon, <1>2
  <2>3. \A t \in Version : InQueue(t)' <=> InQueue(t) /\ ~In(<<>>, t)
    BY Zenon, <1>1, <1>2, <1>6
  <2>4. Sorted(queue')
    BY Zenon, <1>1, <1>2
  <2>5. end' = end /\ sent <= sent' /\ tasks' = tasks
    BY Zenon, <1>1, <1>2
  <2> QED BY Zenon, <1>2, <1>4, <1>5, <1>6, <1>7, <1>8, <2>1, <2>2, <2>3, <2>4, <2>5 DEF Taken
<1> QED BY Zenon, <1>9

\* push_result_ring_remove finds the version in the queue.
LEMMA RemoveQueue ==
    ASSUME IInv, NEW v \in owed, RingRemove(v), ~InRing(v)
    PROVE  \E i \in DOMAIN queue : /\ queue[i].data_version = v
                                   /\ Taken({}, 0, <<queue[i]>>, 1)
<1>1. /\ TypeOK /\ queue \in Seq(Entry) /\ Sorted(queue) /\ sent <= sent
      /\ \A t : InQueue(t) <=> In(queue, t)
      /\ \A t : InQueue(t)' <=> In(queue', t)
  BY Zenon, QueueFacts
<1>2. PICK i \in DOMAIN queue :
                /\ queue[i].data_version = v
                /\ queue' = SubSeq(queue, 1, i - 1)
                             \o SubSeq(queue, i + 1, Len(queue))
                /\ Desc({}, <<queue[i]>>)
  BY Zenon DEF RingRemove
<1>3. UNCHANGED <<entries, start, end, sent, tasks>>
  BY Zenon DEF RingRemove
<1> DEFINE d == <<queue[i]>>
<1>4. /\ DOMAIN d = 1 .. 1 /\ 1 \in Nat /\ Sorted(d) /\ Sorted(queue')
      /\ Covers(queue, {i}, d) /\ Covers(queue, DOMAIN queue \ {i}, queue')
      /\ \A t : In(queue', t) <=> In(queue, t) /\ ~In(d, t)
  BY Zenon, <1>1, <1>2, TakeOne
<1>5. Desc({}, d)
  BY Zenon, <1>2
<1> HIDE DEF d
<1>6. entries' = Freed({})
  <2>1. entries \in [Slots -> Entry]
    BY Zenon, <1>1 DEF TypeOK
  <2> QED BY Zenon, <1>3, <2>1 DEF Freed
<1>7. \A s \in Slots : ~(Pos(s) < 0)
  <2>1. RingFacts
    BY Zenon, <1>1, RingForm
  <2> QED BY <2>1 DEF RingFacts
<1>8. start' = Slot(start + 0) /\ 0 \in 0 .. Distance
  BY Zenon, <1>1, <1>3, SameStart
<1>9. \A j \in DOMAIN d : \E m \in DOMAIN queue : d[j] = queue[m]
  BY Zenon, <1>4 DEF Covers
<1>10. \A j \in DOMAIN queue' : \E m \in DOMAIN queue : queue'[j] = queue[m]
  BY Zenon, <1>4 DEF Covers
<1>11. \A t \in Version : InQueue(t)' <=> InQueue(t) /\ ~In(d, t)
  BY Zenon, <1>1, <1>4
<1>12. end' = end /\ sent <= sent' /\ tasks' = tasks
  BY Zenon, <1>1, <1>3
<1>13. {} \subseteq Slots
  BY Zenon
<1>14. Taken({}, 0, d, 1)
  BY Zenon, <1>4, <1>5, <1>6, <1>7, <1>8, <1>9, <1>10, <1>11, <1>12, <1>13 DEF Taken
<1> QED BY Zenon, <1>2, <1>14 DEF d

\* push_result_ring_clear_all takes everything.
LEMMA ClearAllTaken ==
    ASSUME IInv, ClearAll, sent <= sent'
    PROVE  Taken(Front(Distance), Distance, queue, Len(queue)) /\ queue' = <<>>
<1>1. /\ TypeOK /\ queue \in Seq(Entry) /\ Sorted(queue)
      /\ DOMAIN queue = 1 .. Len(queue) /\ Len(queue) \in Nat
      /\ \A t : InQueue(t) <=> In(queue, t)
      /\ \A t : InQueue(t)' <=> In(queue', t)
  BY Zenon, QueueFacts
<1>2. RingFacts /\ end \in Slots
  BY Zenon, <1>1, RingForm DEF TypeOK
<1>3. /\ entries' = Freed(Front(Distance)) /\ start' = end /\ queue' = <<>>
      /\ Desc(Front(Distance), queue)
      /\ UNCHANGED <<end, tasks>>
  BY Zenon DEF ClearAll, Freed
<1>4. Distance = Pos(end) /\ Slot(start + Pos(end)) = end /\ Distance \in 0 .. Size - 1
  BY Zenon, <1>2 DEF RingFacts
<1>5. Distance \in 0 .. Size /\ Distance \in 0 .. Distance
  BY <1>4, SizeAssumption
<1>6. Front(Distance) = {s \in Slots : Pos(s) < Distance}
  BY Zenon, <1>2, <1>5 DEF RingFacts
<1>7. start' = Slot(start + Distance)
  BY Zenon, <1>3, <1>4
<1>8. DOMAIN <<>> = {}
  OBVIOUS
<1>9. Sorted(<<>>) /\ \A t : ~In(<<>>, t)
  BY Zenon, <1>8 DEF Sorted, In
<1>10. \A t \in Version : InQueue(t)' <=> InQueue(t) /\ ~In(queue, t)
  BY Zenon, <1>1, <1>3, <1>9
<1>11. Sorted(queue')
  BY Zenon, <1>3, <1>9
<1>12. \A i \in DOMAIN queue' : \E j \in DOMAIN queue : queue'[i] = queue[j]
  BY Zenon, <1>3, <1>8
<1>13. \A i \in DOMAIN queue : \E j \in DOMAIN queue : queue[i] = queue[j]
  BY Zenon
<1>14. /\ Front(Distance) \subseteq Slots
       /\ \A s \in Slots : Pos(s) < Distance /\ entries[s].data_version # 0
                              => s \in Front(Distance)
  BY Zenon, <1>6
<1>15. end' = end /\ tasks' = tasks
  BY Zenon, <1>3
<1>16. Taken(Front(Distance), Distance, queue, Len(queue))
  BY Zenon, <1>1, <1>3, <1>5, <1>7, <1>10, <1>11, <1>12, <1>13, <1>14, <1>15 DEF Taken
<1> QED BY Zenon, <1>3, <1>16

\* push_result_ring_clear_timeouts takes what is expired.
LEMMA TimeoutsTaken ==
    ASSUME IInv, ClearTimeouts
    PROVE  /\ Taken(Front(Expired(RingEntries)), Expired(RingEntries),
                    SubSeq(queue, 1, Expired(queue)), Expired(queue))
           /\ sent' = sent
<1> DEFINE n == Expired(RingEntries)
           m == Expired(queue)
           d == SubSeq(queue, 1, m)
<1>1. /\ TypeOK /\ queue \in Seq(Entry) /\ Sorted(queue) /\ sent <= sent
      /\ DOMAIN queue = 1 .. Len(queue) /\ Len(queue) \in Nat
      /\ \A t : InQueue(t) <=> In(queue, t)
      /\ \A t : InQueue(t)' <=> In(queue', t)
  BY Zenon, QueueFacts
<1>2. /\ start' = Slot(start + n) /\ entries' = Freed(Front(n))
      /\ queue' = SubSeq(queue, m + 1, Len(queue))
      /\ Desc(Front(n), d)
      /\ UNCHANGED <<end, sent, tasks>>
  BY Zenon DEF ClearTimeouts, RingEntries, Freed
<1>3. n \in 0 .. Distance /\ m \in 0 .. Len(queue)
  BY Zenon, <1>1, TimeoutFacts
<1> HIDE DEF n, m
<1>4. /\ DOMAIN d = 1 .. m /\ m \in Nat /\ Sorted(d) /\ Sorted(queue')
      /\ Covers(queue, 1 .. m, d) /\ Covers(queue, m + 1 .. Len(queue), queue')
      /\ \A t : In(queue', t) <=> In(queue, t) /\ ~In(d, t)
  BY Zenon, <1>1, <1>2, <1>3, TakeFront
<1> HIDE DEF d
<1>5. 1 .. m \subseteq DOMAIN queue /\ m + 1 .. Len(queue) \subseteq DOMAIN queue
  BY <1>1, <1>3
<1>6. RingFacts
  BY Zenon, <1>1, RingForm
<1>7. n \in 0 .. Size
  BY <1>3, <1>6, SizeAssumption DEF RingFacts
<1>8. Front(n) = {s \in Slots : Pos(s) < n}
  BY Zenon, <1>6, <1>7 DEF RingFacts
<1>9. /\ Front(n) \subseteq Slots
      /\ \A s \in Slots : Pos(s) < n /\ entries[s].data_version # 0 => s \in Front(n)
  BY Zenon, <1>8
<1>10. \A j \in DOMAIN d : \E i \in DOMAIN queue : d[j] = queue[i]
  <2>1. \A j \in DOMAIN d : \E i \in 1 .. m : d[j] = queue[i]
    BY Zenon, <1>4 DEF Covers
  <2> QED BY Zenon, <1>5, <2>1
<1>11. \A j \in DOMAIN queue' : \E i \in DOMAIN queue : queue'[j] = queue[i]
  <2>1. \A j \in DOMAIN queue' : \E i \in m + 1 .. Len(queue) : queue'[j] = queue[i]
    BY Zenon, <1>4 DEF Covers
  <2> QED BY Zenon, <1>5, <2>1
<1>12. \A t \in Version : InQueue(t)' <=> InQueue(t) /\ ~In(d, t)
  BY Zenon, <1>1, <1>4
<1>13. end' = end /\ sent <= sent' /\ tasks' = tasks /\ sent' = sent
  BY Zenon, <1>1, <1>2
<1>14. Taken(Front(n), n, d, m)
  BY Zenon, <1>2, <1>3, <1>4, <1>9, <1>10, <1>11, <1>12, <1>13 DEF Taken
<1> QED BY Zenon, <1>13, <1>14 DEF n, m, d

-----------------------------------------------------------------------------
(* A second passes.                                                        *)

\* What a second does to an entry.
LEMMA OlderFacts ==
    ASSUME NEW e \in Entry, NEW f \in Entry
    PROVE  /\ Older(e).data_version = e.data_version
           /\ Older(e).waiting_task = e.waiting_task
           /\ e.left <= f.left => Older(e).left <= Older(f).left
<1>1. /\ Older(e).data_version = e.data_version
      /\ Older(e).waiting_task = e.waiting_task
      /\ Older(e).left = IF e.left > 0 THEN e.left - 1 ELSE 0
      /\ Older(f).left = IF f.left > 0 THEN f.left - 1 ELSE 0
  BY Zenon DEF Older, Entry
<1>2. e.left \in 0 .. Lifetime /\ f.left \in 0 .. Lifetime
  BY Zenon DEF Entry
<1>3. e.left <= f.left => Older(e).left <= Older(f).left
  BY <1>1, <1>2, LifetimeAssumption
<1> QED BY Zenon, <1>1, <1>3

\* A second keeps the invariant: all entries lose the same time.
LEMMA TickStep == ASSUME IInv, Tick PROVE IInv'
<1>1. TypeOK /\ SlotsOK /\ QueueOK /\ HeldOK /\ SlotOrder /\ VersionOrder
  BY Zenon DEF IInv
<1>2. UNCHANGED <<start, end, sent, tasks, released>>
  BY Zenon DEF Tick
<1>3. \A s \in Slots : entries[s] \in Entry /\ entries'[s] = Older(entries[s])
  BY Zenon, <1>1, TickFacts, Types
<1>4. /\ DOMAIN queue' = DOMAIN queue
      /\ \A i \in DOMAIN queue : queue[i] \in Entry /\ queue'[i] = Older(queue[i])
  BY Zenon, <1>1, TickFacts, Types
<1>5. \A s \in Slots : /\ entries'[s].data_version = entries[s].data_version
                       /\ entries'[s].waiting_task = entries[s].waiting_task
  BY Zenon, <1>3, OlderFacts
<1>6. \A i \in DOMAIN queue : /\ queue'[i].data_version = queue[i].data_version
                              /\ queue'[i].waiting_task = queue[i].waiting_task
  BY Zenon, <1>4, OlderFacts
<1>7. \A s \in Slots : Pos(s)' = Pos(s)
  BY Zenon, <1>2 DEF Pos
<1>8. Pos(end)' = Pos(end)
  BY Zenon, <1>2 DEF Pos
<1>9. SlotsOK'
  <2> SUFFICES ASSUME NEW s \in Slots PROVE SlotOK(s)'
    BY Zenon DEF SlotsOK, Slots
  <2>1. SlotOK(s)
    BY Zenon, <1>1 DEF SlotsOK
  <2>2. CASE entries[s].data_version = 0 /\ entries[s].waiting_task = NULL
    BY Zenon, <1>5, <2>2 DEF SlotOK
  <2>3. CASE ~(entries[s].data_version = 0 /\ entries[s].waiting_task = NULL)
    <3>1. /\ entries[s].data_version \in 1 .. sent
          /\ entries[s].waiting_task = entries[s].data_version
          /\ Slot(entries[s].data_version) = s
          /\ Pos(s) < Pos(end)
      BY Zenon, <2>1, <2>3 DEF SlotOK
    <3>2. /\ entries'[s].data_version \in 1 .. sent'
          /\ entries'[s].waiting_task = entries'[s].data_version
          /\ Slot(entries'[s].data_version) = s
          /\ Pos(s)' < Pos(end)'
      BY Zenon, <1>2, <1>5, <1>7, <1>8, <3>1
    <3> QED BY Zenon, <3>2 DEF SlotOK, Slot
  <2> QED BY Zenon, <2>2, <2>3
<1>10. QueueOK'
  BY Zenon, <1>1, <1>2, <1>4, <1>6 DEF QueueOK, Sorted
<1>11. HeldOK'
  <2>1. \A t \in Version : RingHolds(t)' <=> RingHolds(t)
    BY Zenon, <1>5, VersionFacts DEF RingHolds, Slot
  <2>2. \A t \in Version : InQueue(t)' <=> InQueue(t)
    BY Zenon, <1>4, <1>6 DEF InQueue
  <2>3. \A t \in Version : Held(t)' <=> Held(t)
    BY Zenon, <2>1, <2>2 DEF Held
  <2> QED BY Zenon, <1>1, <1>2, <2>1, <2>2, <2>3 DEF HeldOK, Version
<1>12. SlotOrder'
  <2> SUFFICES ASSUME NEW s \in Slots, NEW t \in Slots,
                      Pos(s)' < Pos(t)', Pos(t)' < Pos(end)'
               PROVE  entries'[s].left <= entries'[t].left
    BY Zenon DEF SlotOrder, Slots
  <2>1. Pos(s) < Pos(t) /\ Pos(t) < Pos(end)
    BY Zenon, <1>7, <1>8
  <2>2. entries[s].left <= entries[t].left
    BY Zenon, <1>1, <2>1 DEF SlotOrder
  <2> QED BY Zenon, <1>3, <2>2, OlderFacts
<1>13. VersionOrder'
  <2>1. ASSUME NEW e \in Entry, NEW f \in Entry, Before(e, f)
        PROVE  Before(Older(e), Older(f))
    BY Zenon, <2>1, OlderFacts DEF Before
  <2>2. \A s, t \in Slots : Before(entries'[s], entries'[t])
    BY Zenon, <1>1, <1>3, <2>1 DEF VersionOrder
  <2>3. \A i, j \in DOMAIN queue' : Before(queue'[i], queue'[j])
    BY Zenon, <1>1, <1>4, <2>1 DEF VersionOrder
  <2>4. \A s \in Slots, i \in DOMAIN queue' :
           Before(entries'[s], queue'[i]) /\ Before(queue'[i], entries'[s])
    BY Zenon, <1>1, <1>3, <1>4, <2>1 DEF VersionOrder
  <2> QED BY Zenon, <2>2, <2>3, <2>4 DEF VersionOrder, Before, Slots
<1>14. TypeOK'
  BY Zenon, <1>1, TickType
<1> QED BY Zenon, <1>9, <1>10, <1>11, <1>12, <1>13, <1>14 DEF IInv

-----------------------------------------------------------------------------
(* A record of one version is sent.                                        *)

NewRec(v) == [data_version |-> v, waiting_task |-> v, left |-> Lifetime]

\* The fields of a new entry.
LEMMA NewRecFacts ==
    ASSUME NEW v
    PROVE  /\ NewRec(v).data_version = v /\ NewRec(v).waiting_task = v
           /\ NewRec(v).left = Lifetime
BY Zenon DEF NewRec

AddsToRing(v) ==
    /\ Matched(v)
    /\ start' = IF start = end THEN Slot(v) ELSE start
    /\ end' = Slot(v + 1)
    /\ entries' = [entries EXCEPT ![Slot(v)] = NewRec(v)]
    /\ queue' = queue
AddsToQueue(v) == queue' = Append(queue, NewRec(v)) /\ UNCHANGED <<entries, start, end>>

\* What push_result_ring_add does with a record of one version.
LEMMA AddOne ==
    ASSUME IInv, RingAdd(1)
    PROVE  /\ sent' = sent + 1 /\ tasks' = tasks \cup {sent + 1} /\ released' = released
           /\ sent + 1 \in Version
           /\ AddsToRing(sent + 1) \/ AddsToQueue(sent + 1)
<1>1. /\ TypeOK /\ queue \in Seq(Entry)
      /\ DOMAIN queue = 1 .. Len(queue) /\ Len(queue) \in Nat /\ sent \in Nat
  BY Zenon, QueueFacts
<1>2. PICK v : v = sent + 1
  BY Zenon
<1>3. v .. v = {v} /\ v \in v .. v /\ v \in Nat
  BY <1>1, <1>2
<1>4. /\ sent' = v /\ tasks' = tasks \cup {v} /\ released' = released
      /\ v <= MaxVersion
  BY Zenon, <1>2 DEF RingAdd
<1>5. v \in Version
  BY <1>1, <1>2, <1>4 DEF Version
<1>6. CASE Matched(v)
  <2>1. /\ start' = IF start = end THEN Slot(v) ELSE start
        /\ end' = Slot(v + 1)
        /\ entries' = [s \in Slots |->
              IF \E u \in v .. v : Slot(u) = s
              THEN NewEntry(CHOOSE u \in v .. v : Slot(u) = s,
                            v, entries[s].waiting_task)
              ELSE entries[s]]
        /\ queue' = queue
    BY Zenon, <1>2, <1>6 DEF RingAdd
  <2>2. ASSUME NEW s \in Slots
        PROVE  (IF \E u \in v .. v : Slot(u) = s
                THEN NewEntry(CHOOSE u \in v .. v : Slot(u) = s,
                              v, entries[s].waiting_task)
                ELSE entries[s])
               = IF s = Slot(v) THEN NewRec(v) ELSE entries[s]
    <3>1. CASE s = Slot(v)
      <4>1. \E u \in v .. v : Slot(u) = s
        BY Zenon, <1>3, <3>1
      <4>2. (CHOOSE u \in v .. v : Slot(u) = s) \in v .. v
        BY Zenon, <4>1
      <4>3. (CHOOSE u \in v .. v : Slot(u) = s) = v
        BY Zenon, <1>3, <4>2
      <4>4. NewEntry(v, v, entries[s].waiting_task) = NewRec(v)
        BY Zenon DEF NewEntry, NewRec
      <4> QED BY Zenon, <3>1, <4>1, <4>3, <4>4
    <3>2. CASE s # Slot(v)
      <4>1. ~\E u \in v .. v : Slot(u) = s
        BY Zenon, <1>3, <3>2
      <4> QED BY Zenon, <3>2, <4>1
    <3> QED BY Zenon, <3>1, <3>2
  <2>3. entries' = [s \in Slots |-> IF s = Slot(v) THEN NewRec(v) ELSE entries[s]]
    BY Zenon, <2>1, <2>2
  <2>4. entries \in [Slots -> Entry]
    BY Zenon, <1>1 DEF TypeOK
  <2>5. entries' = [entries EXCEPT ![Slot(v)] = NewRec(v)]
    BY Zenon, <2>3, <2>4
  <2>6. AddsToRing(v)
    BY Zenon, <1>6, <2>1, <2>5 DEF AddsToRing
  <2> QED BY Zenon, <1>2, <1>4, <1>5, <2>6
<1>7. CASE ~Matched(v)
  <2> DEFINE es == [i \in 1 .. 1 |-> NewEntry(sent + i, v, NULL)]
             C == {i \in DOMAIN queue : queue[i].data_version < es[1].data_version}
             p == Cardinality(C)
  <2>1. AddToQueue(es) /\ UNCHANGED <<entries, start, end>>
    BY Zenon, <1>2, <1>7 DEF RingAdd
  <2>2. es[1] = NewRec(v)
    <3>1. 1 \in 1 .. 1
      OBVIOUS
    <3>2. NewEntry(v, v, NULL) = NewRec(v)
      BY Zenon DEF NewEntry, NewRec
    <3> QED BY Zenon, <1>2, <3>1, <3>2
  <2>3. es = <<NewRec(v)>>
    BY <2>2
  <2>4. es[1].data_version = v
    BY Zenon, <2>2, NewRecFacts
  <2>5. queue' = SubSeq(queue, 1, p) \o es \o SubSeq(queue, p + 1, Len(queue))
    BY Zenon, <2>1 DEF AddToQueue
  <2> HIDE DEF es
  <2>6. C = DOMAIN queue
    <3>1. \A i \in DOMAIN queue : queue[i].data_version \in 1 .. sent
      BY Zenon DEF IInv, QueueOK
    <3>2. \A x \in 1 .. sent : x < v
      BY <1>1, <1>2
    <3> QED BY Zenon, <2>4, <3>1, <3>2
  <2>7. p = Len(queue)
    <3>1. Cardinality(1 .. Len(queue)) = Len(queue)
      <4>1. Len(queue) \in Nat /\ Len(queue) \in Int /\ 1 \in Int
        BY <1>1
      <4> DEFINE n == Len(queue)
      <4>2. n \in Nat /\ n \in Int /\ 1 \in Int
        BY Zenon, <4>1
      <4> HIDE DEF n
      <4>3. Cardinality(1 .. n) = IF 1 > n THEN 0 ELSE n - 1 + 1
        BY Zenon, <4>2, FS_Interval
      <4>4. Cardinality(1 .. n) = n
        BY <4>2, <4>3
      <4> QED BY Zenon, <4>4 DEF n
    <3> QED BY Zenon, <1>1, <2>6, <3>1
  <2> HIDE DEF C, p
  <2>8. SubSeq(queue, 1, Len(queue)) = queue /\ SubSeq(queue, Len(queue) + 1, Len(queue)) = <<>>
    BY <1>1
  <2>9. queue' = queue \o <<NewRec(v)>> \o <<>>
    BY Zenon, <2>3, <2>5, <2>7, <2>8
  <2>10. NewRec(v) \in Entry
    <3>1. v \in 0 .. MaxVersion /\ Lifetime \in 0 .. Lifetime
      BY <1>3, <1>4, LifetimeAssumption
    <3> QED BY Zenon, <1>5, <3>1 DEF NewRec, Entry
  <2>11. queue' = Append(queue, NewRec(v))
    <3> DEFINE e == NewRec(v)
    <3>1. e \in Entry /\ queue' = queue \o <<e>> \o <<>>
      BY Zenon, <2>9, <2>10
    <3> HIDE DEF e
    <3>2. queue \o <<e>> \o <<>> = Append(queue, e)
      BY <1>1, <3>1
    <3> QED BY Zenon, <3>1, <3>2 DEF e
  <2>12. AddsToQueue(v)
    BY Zenon, <2>1, <2>11 DEF AddsToQueue
  <2> QED BY Zenon, <1>2, <1>4, <1>5, <2>12
<1> QED BY Zenon, <1>6, <1>7

\* The slot of the new version is free, and ring.end moves behind it.
LEMMA AddRingFacts ==
    ASSUME TypeOK, SlotsOK, NEW v \in Version, AddsToRing(v)
    PROVE  /\ Slot(v) \in Slots
           /\ entries[Slot(v)].data_version = 0
           /\ \A s \in Slots : s # Slot(v) => entries'[s] = entries[s]
           /\ entries'[Slot(v)] = NewRec(v)
           /\ Pos(Slot(v))' < Pos(end)'
           /\ \A s \in Slots : Pos(s) < Pos(end) => Pos(s)' < Pos(end)'
           /\ \A s, t \in Slots : Pos(s)' < Pos(t)' /\ Pos(t)' < Pos(end)'
                 => s # Slot(v) /\ (t = Slot(v) \/ (Pos(s) < Pos(t) /\ Pos(t) < Pos(end)))
<1> DEFINE x == Slot(v)
<1>1. x \in Slots /\ v \in Nat /\ v > 0 /\ start \in Slots /\ end \in Slots
  BY Zenon, VersionFacts DEF TypeOK
<1>2. RingFacts
  BY Zenon, RingForm
<1>3. /\ start' = IF start = end THEN x ELSE start
      /\ end' = Slot(v + 1) /\ Matched(v)
      /\ entries' = [entries EXCEPT ![x] = NewRec(v)]
  BY Zenon DEF AddsToRing
<1>4. end' = Wrap(x + 1)
  BY Zenon, <1>1, <1>3, SlotNext
<1>5. \A s \in Slots : ~(Pos(s) < Pos(end)) => entries[s].data_version = 0
  BY Zenon DEF SlotsOK, SlotOK
<1>6. entries \in [Slots -> Entry]
  BY Zenon DEF TypeOK
<1>7. /\ \A s \in Slots : s # x => entries'[s] = entries[s]
      /\ entries'[x] = NewRec(v)
  BY Zenon, <1>1, <1>3, <1>6
<1> HIDE DEF x
<1>8. CASE start = end
  <2>1. start' = x /\ end' = Wrap(x + 1)
    BY Zenon, <1>3, <1>4, <1>8
  <2>2. Pos(end) = 0 /\ \A s \in Slots : Pos(s) \in 0 .. Size - 1
    BY <1>1, <1>2, <1>8, SizeAssumption DEF Pos, Slots, RingFacts
  <2>3. Pos(end)' = 1 /\ \A s \in Slots : Pos(s)' \in 0 .. Size - 1
    BY <1>1, <2>1, SizeAssumption DEF Pos, Slots, Wrap
  <2>4. Pos(Slot(v))' = 0
    <3>1. Pos(x)' = 0
      BY <1>1, <2>1, SizeAssumption DEF Pos, Slots, x
    <3> QED BY Zenon, <3>1 DEF x
  <2>5. entries[x].data_version = 0
    <3>1. ~(Pos(x) < Pos(end))
      BY <1>1, <2>2
    <3> QED BY Zenon, <1>1, <1>5, <3>1
  <2>6. \A s \in Slots : ~(Pos(s) < Pos(end))
    BY <2>2
  <2>7. \A s, t \in Slots : ~(Pos(s)' < Pos(t)' /\ Pos(t)' < Pos(end)')
    BY <2>3
  <2>8. Pos(Slot(v))' < Pos(end)'
    BY <2>3, <2>4
  <2> QED BY Zenon, <1>1, <1>7, <2>5, <2>6, <2>7, <2>8 DEF x
<1>9. CASE start # end
  <2>1. x = end /\ Slot(end + 1) # start
    BY Zenon, <1>3, <1>9 DEF Matched, x
  <2>2. Slot(end + 1) = Wrap(end + 1)
    BY <1>1, SlotWrap, SizeAssumption DEF Slots
  <2>3. start' = start /\ end' = Wrap(end + 1) /\ Wrap(end + 1) # start
    BY Zenon, <1>3, <1>4, <1>9, <2>1, <2>2
  <2>4. \A s \in Slots : Pos(s)' = Pos(s) /\ Pos(s) \in 0 .. Size - 1
    BY Zenon, <1>2, <2>3 DEF Pos, RingFacts
  <2>5. Pos(end)' = Pos(end) + 1 /\ Pos(end) \in Nat
    BY <1>1, <2>3, SizeAssumption DEF Pos, Slots, Wrap
  <2>6. entries[x].data_version = 0
    <3>1. ~(Pos(x) < Pos(end))
      BY <2>1, <2>5
    <3> QED BY Zenon, <1>1, <1>5, <3>1
  <2>7. Pos(Slot(v))' < Pos(end)'
    <3>1. Pos(x)' = Pos(x)
      BY Zenon, <1>1, <2>3 DEF Pos, x
    <3>2. Pos(x)' < Pos(end)'
      BY <2>1, <2>5, <3>1
    <3> QED BY Zenon, <3>2 DEF x
  <2>8. \A s \in Slots : Pos(s) < Pos(end) => Pos(s)' < Pos(end)'
    BY <2>4, <2>5
  <2>9. \A s \in Slots : Pos(s) = Pos(end) => s = end
    BY <1>1, SizeAssumption DEF Pos, Slots
  <2>10. ASSUME NEW s \in Slots, NEW t \in Slots, Pos(s)' < Pos(t)', Pos(t)' < Pos(end)'
         PROVE  s # end /\ (t = end \/ (Pos(s) < Pos(t) /\ Pos(t) < Pos(end)))
    <3>1. Pos(s) < Pos(t) /\ Pos(t) < Pos(end) + 1
      BY Zenon, <2>4, <2>5, <2>10
    <3>2. Pos(s) \in Nat /\ Pos(t) \in Nat
      BY <2>4
    <3>3. s # end
      BY <2>5, <3>1, <3>2
    <3>4. Pos(t) = Pos(end) \/ Pos(t) < Pos(end)
      BY <2>5, <3>1, <3>2
    <3> QED BY Zenon, <2>9, <3>1, <3>3, <3>4
  <2>11. x = Slot(v)
    BY Zenon DEF x
  <2>12. \A s, t \in Slots : Pos(s)' < Pos(t)' /\ Pos(t)' < Pos(end)'
                 => s # Slot(v) /\ (t = Slot(v) \/ (Pos(s) < Pos(t) /\ Pos(t) < Pos(end)))
    BY Zenon, <2>1, <2>10, <2>11
  <2> QED BY Zenon, <1>1, <1>7, <2>6, <2>7, <2>8, <2>11, <2>12
<1> QED BY Zenon, <1>8, <1>9

\* Nothing held is as new as the new version.
LEMMA NewIsNewest ==
    ASSUME IInv, NEW v, v = sent + 1
    PROVE  /\ \A e \in Entry : e.data_version <= sent => Before(NewRec(v), e)
           /\ \A e \in Entry : Before(e, NewRec(v))
           /\ Before(NewRec(v), NewRec(v))
           /\ \A s \in Slots : entries[s] \in Entry /\ entries[s].data_version <= sent
           /\ \A i \in DOMAIN queue : queue[i] \in Entry /\ queue[i].data_version <= sent
           /\ ~Held(v) /\ v \notin tasks
<1>1. TypeOK /\ SlotsOK /\ QueueOK /\ HeldOK
  BY Zenon DEF IInv
<1>2. sent \in Nat /\ v \in Nat /\ v > 0 /\ sent < v
  <2>1. sent \in Nat
    BY Zenon, <1>1, Types
  <2> QED BY <2>1
<1>3. /\ NewRec(v).data_version = v /\ NewRec(v).left = Lifetime
  BY Zenon, NewRecFacts
<1>4. \A x \in 1 .. sent : x <= sent
  BY <1>2
<1>5. 0 <= sent
  BY <1>2
<1>6. \A s \in Slots : entries[s] \in Entry /\ entries[s].data_version <= sent
  BY Zenon, <1>1, <1>4, <1>5, Types DEF SlotsOK, SlotOK
<1>7. \A i \in DOMAIN queue : queue[i] \in Entry /\ queue[i].data_version <= sent
  BY Zenon, <1>1, <1>4, Types DEF QueueOK
<1>8. ASSUME NEW e \in Entry, e.data_version <= sent PROVE Before(NewRec(v), e)
  <2>1. e.data_version \in 0 .. MaxVersion
    BY Zenon DEF Entry
  <2>2. ~(v < e.data_version)
    BY <1>2, <1>8, <2>1, BoundAssumption
  <2> QED BY Zenon, <1>3, <2>2 DEF Before
<1>9. ASSUME NEW e \in Entry PROVE Before(e, NewRec(v))
  <2>1. e.left \in 0 .. Lifetime
    BY Zenon DEF Entry
  <2>2. e.left <= Lifetime
    BY <2>1, LifetimeAssumption
  <2> QED BY Zenon, <1>3, <2>2 DEF Before
<1>10. Before(NewRec(v), NewRec(v))
  <2>1. ~(v < v)
    BY <1>2
  <2> QED BY Zenon, <1>3, <2>1 DEF Before
<1>11. ~(v <= sent)
  BY <1>2
<1>12. ~Held(v)
  <2>1. Slot(v) \in Slots
    BY <1>2, SlotType
  <2>2. ~RingHolds(v)
    BY Zenon, <1>6, <1>11, <2>1 DEF RingHolds
  <2>3. ~InQueue(v)
    BY Zenon, <1>7, <1>11 DEF InQueue
  <2> QED BY Zenon, <2>2, <2>3 DEF Held
<1>13. v \notin tasks
  BY Zenon, <1>1, <1>4, <1>11 DEF HeldOK
<1> QED BY Zenon, <1>6, <1>7, <1>8, <1>9, <1>10, <1>12, <1>13

\* The new version is held, for a task nobody has told.
LEMMA AddHeld ==
    ASSUME IInv, NEW v \in Version, v = sent + 1, sent' = v, tasks' = tasks \cup {v},
           released' = released,
           \/ /\ \A t \in Version : RingHolds(t)' <=> RingHolds(t) \/ t = v
              /\ \A t \in Version : InQueue(t)' <=> InQueue(t)
           \/ /\ \A t \in Version : InQueue(t)' <=> InQueue(t) \/ t = v
              /\ \A t \in Version : RingHolds(t)' <=> RingHolds(t)
    PROVE  HeldOK'
<1>1. HeldOK /\ ~Held(v) /\ v \notin tasks
  BY Zenon, NewIsNewest DEF IInv
<1>2. tasks' \subseteq 1 .. sent'
  <2>1. sent \in Nat
    BY Zenon, QueueFacts
  <2>2. 1 .. sent \subseteq 1 .. v /\ v \in 1 .. v
    BY <2>1
  <2> QED BY Zenon, <1>1, <2>2 DEF HeldOK
<1>3. \A t \in Version : Held(t)' <=> Held(t) \/ t = v
  BY Zenon DEF Held
<1>4. ASSUME NEW t \in Version
      PROVE  /\ Held(t)' => t \in tasks'
             /\ ~(RingHolds(t)' /\ InQueue(t)')
             /\ released'[t] = IF t \in tasks' /\ ~Held(t)' THEN 1 ELSE 0
  <2>1. /\ Held(t) => t \in tasks
        /\ ~(RingHolds(t) /\ InQueue(t))
        /\ released[t] = IF t \in tasks /\ ~Held(t) THEN 1 ELSE 0
    BY Zenon, <1>1 DEF HeldOK
  <2>2. CASE t = v
    <3>1. ~RingHolds(t) /\ ~InQueue(t) /\ t \notin tasks
      BY Zenon, <1>1, <2>2 DEF Held
    <3>2. released[t] = 0
      BY Zenon, <2>1, <3>1
    <3>3. Held(t)' /\ t \in tasks' /\ released'[t] = 0
      BY Zenon, <1>3, <2>2, <3>2
    <3>4. ~(RingHolds(t)' /\ InQueue(t)')
      BY Zenon, <3>1
    <3> QED BY Zenon, <3>3, <3>4
  <2>3. CASE t # v
    <3>1. (Held(t)' <=> Held(t)) /\ (t \in tasks' <=> t \in tasks)
      BY Zenon, <1>3, <2>3
    <3>2. ~(RingHolds(t)' /\ InQueue(t)')
      BY Zenon, <2>1, <2>3
    <3> QED BY Zenon, <2>1, <3>1, <3>2
  <2> QED BY Zenon, <2>2, <2>3
<1> QED BY Zenon, <1>2, <1>4 DEF HeldOK, Version

\* A new version in the ring keeps the invariant.
LEMMA AddRingStep ==
    ASSUME IInv, TypeOK', NEW v \in Version, v = sent + 1, sent' = v,
           tasks' = tasks \cup {v}, released' = released, AddsToRing(v)
    PROVE  IInv'
<1>1. TypeOK /\ SlotsOK /\ QueueOK /\ SlotOrder /\ VersionOrder
  BY Zenon DEF IInv
<1>2. /\ Slot(v) \in Slots /\ entries[Slot(v)].data_version = 0
      /\ \A s \in Slots : s # Slot(v) => entries'[s] = entries[s]
      /\ entries'[Slot(v)] = NewRec(v)
      /\ Pos(Slot(v))' < Pos(end)'
      /\ \A s \in Slots : Pos(s) < Pos(end) => Pos(s)' < Pos(end)'
  BY Zenon, <1>1, AddRingFacts
<1>3. /\ NewRec(v).data_version = v /\ NewRec(v).waiting_task = v
      /\ NewRec(v).left = Lifetime
  BY Zenon, NewRecFacts
<1>4. queue' = queue
  BY Zenon DEF AddsToRing
<1>5. /\ \A e \in Entry : e.data_version <= sent => Before(NewRec(v), e)
      /\ \A e \in Entry : Before(e, NewRec(v))
      /\ Before(NewRec(v), NewRec(v))
      /\ \A s \in Slots : entries[s] \in Entry /\ entries[s].data_version <= sent
      /\ \A i \in DOMAIN queue : queue[i] \in Entry /\ queue[i].data_version <= sent
  BY Zenon, NewIsNewest
<1>6. 1 .. sent \subseteq 1 .. sent' /\ v \in 1 .. sent'
  <2>1. sent \in Nat
    BY Zenon, QueueFacts
  <2> QED BY <2>1
<1>7. SlotsOK'
  <2> SUFFICES ASSUME NEW s \in Slots PROVE SlotOK(s)'
    BY Zenon DEF SlotsOK, Slots
  <2>1. CASE s = Slot(v)
    <3>1. Pos(s)' < Pos(end)'
      <4>1. Pos(s)' = Pos(Slot(v))'
        BY Zenon, <2>1 DEF Pos, Slot
      <4> QED BY Zenon, <1>2, <4>1
    <3>2. entries'[s] = NewRec(v)
      BY Zenon, <1>2, <2>1
    <3>3. Slot(entries'[s].data_version) = s
      BY Zenon, <1>3, <2>1, <3>2
    <3> QED BY Zenon, <1>3, <1>6, <3>1, <3>2, <3>3 DEF SlotOK, Slot
  <2>2. CASE s # Slot(v)
    <3>1. entries'[s] = entries[s] /\ SlotOK(s)
      BY Zenon, <1>1, <1>2, <2>2 DEF SlotsOK
    <3>2. CASE entries[s].data_version = 0 /\ entries[s].waiting_task = NULL
      BY Zenon, <3>1, <3>2 DEF SlotOK
    <3>3. CASE ~(entries[s].data_version = 0 /\ entries[s].waiting_task = NULL)
      <4>1. /\ entries[s].data_version \in 1 .. sent
            /\ entries[s].waiting_task = entries[s].data_version
            /\ Slot(entries[s].data_version) = s
            /\ Pos(s) < Pos(end)
        BY Zenon, <3>1, <3>3 DEF SlotOK
      <4>2. Pos(s)' < Pos(end)' /\ entries[s].data_version \in 1 .. sent'
        BY Zenon, <1>2, <1>6, <4>1
      <4>3. Slot(entries'[s].data_version) = s
        BY Zenon, <3>1, <4>1
      <4> QED BY Zenon, <3>1, <4>1, <4>2, <4>3 DEF SlotOK, Slot
    <3> QED BY Zenon, <3>2, <3>3
  <2> QED BY Zenon, <2>1, <2>2
<1>8. QueueOK'
  <2>1. Sorted(queue) /\ \A i \in DOMAIN queue : queue[i].data_version \in 1 .. sent
    BY Zenon, <1>1 DEF QueueOK
  <2>2. Sorted(queue)'
    BY Zenon, <1>4, <2>1 DEF Sorted
  <2>3. \A i \in DOMAIN queue' : queue'[i].data_version \in 1 .. sent'
    BY Zenon, <1>4, <1>6, <2>1
  <2> QED BY Zenon, <2>2, <2>3 DEF QueueOK
<1>9. HeldOK'
  <2>1. \A t \in Version : InQueue(t)' <=> InQueue(t)
    BY Zenon, <1>4 DEF InQueue
  <2>2. ASSUME NEW t \in Version PROVE RingHolds(t)' <=> RingHolds(t) \/ t = v
    <3>1. RingHolds(t)' <=> entries'[Slot(t)].data_version = t
      BY Zenon DEF RingHolds, Slot
    <3>2. t # 0 /\ Slot(t) \in Slots
      BY VersionFacts
    <3>3. CASE Slot(t) = Slot(v)
      BY Zenon, <1>2, <1>3, <3>1, <3>2, <3>3 DEF RingHolds
    <3>4. CASE Slot(t) # Slot(v)
      BY Zenon, <1>2, <3>1, <3>2, <3>4 DEF RingHolds
    <3> QED BY Zenon, <3>3, <3>4
  <2> QED BY Zenon, <2>1, <2>2, AddHeld
<1>10. SlotOrder'
  <2> SUFFICES ASSUME NEW s \in Slots, NEW t \in Slots,
                      Pos(s)' < Pos(t)', Pos(t)' < Pos(end)'
               PROVE  entries'[s].left <= entries'[t].left
    BY Zenon DEF SlotOrder, Slots
  <2>1. s # Slot(v) /\ (t = Slot(v) \/ (Pos(s) < Pos(t) /\ Pos(t) < Pos(end)))
    BY Zenon, <1>1, AddRingFacts
  <2>2. entries'[s] = entries[s] /\ entries[s] \in Entry
    BY Zenon, <1>2, <1>5, <2>1
  <2>3. CASE t = Slot(v)
    <3>1. entries[s].left \in 0 .. Lifetime
      BY Zenon, <2>2 DEF Entry
    <3>2. entries[s].left <= Lifetime
      BY <3>1, LifetimeAssumption
    <3> QED BY Zenon, <1>2, <1>3, <2>2, <2>3, <3>2
  <2>4. CASE t # Slot(v)
    BY Zenon, <1>1, <1>2, <2>1, <2>2, <2>4 DEF SlotOrder
  <2> QED BY Zenon, <2>3, <2>4
<1>11. VersionOrder'
  <2>1. \A s \in Slots : entries'[s] = entries[s] \/ entries'[s] = NewRec(v)
    BY Zenon, <1>2
  <2>2. \A s, t \in Slots : Before(entries'[s], entries'[t])
    BY Zenon, <1>1, <1>5, <2>1 DEF VersionOrder
  <2>3. \A i, j \in DOMAIN queue' : Before(queue'[i], queue'[j])
    BY Zenon, <1>1, <1>4 DEF VersionOrder
  <2>4. \A s \in Slots, i \in DOMAIN queue' :
           Before(entries'[s], queue'[i]) /\ Before(queue'[i], entries'[s])
    BY Zenon, <1>1, <1>4, <1>5, <2>1 DEF VersionOrder
  <2> QED BY Zenon, <2>2, <2>3, <2>4 DEF VersionOrder, Before, Slots
<1> QED BY Zenon, <1>7, <1>8, <1>9, <1>10, <1>11 DEF IInv

\* A new version in the queue keeps the invariant.
LEMMA AddQueueStep ==
    ASSUME IInv, TypeOK', NEW v \in Version, v = sent + 1, sent' = v,
           tasks' = tasks \cup {v}, released' = released, AddsToQueue(v)
    PROVE  IInv'
<1>1. TypeOK /\ SlotsOK /\ QueueOK /\ SlotOrder /\ VersionOrder
  BY Zenon DEF IInv
<1>2. /\ queue \in Seq(Entry) /\ DOMAIN queue = 1 .. Len(queue) /\ Len(queue) \in Nat
      /\ sent \in Nat
  BY Zenon, QueueFacts
<1>3. /\ NewRec(v).data_version = v /\ NewRec(v).waiting_task = v
  BY Zenon, NewRecFacts
<1>4. /\ queue' = Append(queue, NewRec(v)) /\ entries' = entries /\ start' = start
      /\ end' = end
  BY Zenon DEF AddsToQueue
<1>5. /\ \A e \in Entry : e.data_version <= sent => Before(NewRec(v), e)
      /\ \A e \in Entry : Before(e, NewRec(v))
      /\ Before(NewRec(v), NewRec(v))
      /\ \A s \in Slots : entries[s] \in Entry /\ entries[s].data_version <= sent
      /\ \A i \in DOMAIN queue : queue[i] \in Entry /\ queue[i].data_version <= sent
  BY Zenon, NewIsNewest
<1>6. 1 .. sent \subseteq 1 .. sent' /\ v \in 1 .. sent'
  BY <1>2
<1> DEFINE n == Len(queue) + 1
           e == NewRec(v)
<1>7. /\ DOMAIN queue' = DOMAIN queue \cup {n} /\ n \notin DOMAIN queue
      /\ queue'[n] = e
      /\ \A i \in DOMAIN queue : queue'[i] = queue[i] /\ i < n /\ ~(n < i)
      /\ ~(n < n)
  <2>1. queue' = Append(queue, e)
    BY Zenon, <1>4
  <2> HIDE DEF e
  <2> QED BY <1>2, <2>1
<1>8. e.data_version = v /\ e.waiting_task = v
  BY Zenon, <1>3
<1> HIDE DEF n
<1>9. \A i \in DOMAIN queue : queue[i].data_version < v
  <2>1. \A i \in DOMAIN queue : queue[i].data_version \in 1 .. sent
    BY Zenon, <1>1 DEF QueueOK
  <2>2. \A x \in 1 .. sent : x < v
    BY <1>2
  <2> QED BY Zenon, <2>1, <2>2
<1>10. SlotsOK'
  <2>1. ASSUME NEW s \in Slots PROVE SlotOK(s)'
    <3>1. SlotOK(s)
      BY Zenon, <1>1 DEF SlotsOK
    <3> QED BY Zenon, <1>4, <1>6, <3>1 DEF SlotOK, Pos, Slot
  <2> QED BY Zenon, <2>1 DEF SlotsOK, Slots
<1>11. QueueOK'
  <2>1. Sorted(queue) /\ \A i \in DOMAIN queue : queue[i].data_version \in 1 .. sent
    BY Zenon, <1>1 DEF QueueOK
  <2>2. \A i \in DOMAIN queue' : queue'[i].data_version \in 1 .. sent'
    BY Zenon, <1>6, <1>7, <1>8, <2>1
  <2>3. \A i \in DOMAIN queue' : queue'[i].waiting_task = queue'[i].data_version
    BY Zenon, <1>7, <1>8, <2>1 DEF Sorted
  <2>4. ASSUME NEW i \in DOMAIN queue', NEW j \in DOMAIN queue', i < j
        PROVE  queue'[i].data_version < queue'[j].data_version
    <3>1. i \in DOMAIN queue
      BY Zenon, <1>7, <2>4
    <3>2. CASE j = n
      BY Zenon, <1>7, <1>8, <1>9, <3>1, <3>2
    <3>3. CASE j \in DOMAIN queue
      BY Zenon, <1>7, <2>1, <2>4, <3>1, <3>3 DEF Sorted
    <3> QED BY Zenon, <1>7, <3>2, <3>3
  <2> QED BY Zenon, <2>2, <2>3, <2>4 DEF QueueOK, Sorted
<1>12. HeldOK'
  <2>1. \A t \in Version : RingHolds(t)' <=> RingHolds(t)
    BY Zenon, <1>4 DEF RingHolds, Slot
  <2>2. \A t \in Version : InQueue(t)' <=> InQueue(t) \/ t = v
    <3> SUFFICES ASSUME NEW t \in Version PROVE InQueue(t)' <=> InQueue(t) \/ t = v
      BY Zenon
    <3>1. InQueue(t)' <=> \E i \in DOMAIN queue' : queue'[i].data_version = t
      BY Zenon DEF InQueue
    <3>2. ASSUME NEW i \in DOMAIN queue', queue'[i].data_version = t
          PROVE  InQueue(t) \/ t = v
      BY Zenon, <1>7, <1>8, <3>2 DEF InQueue
    <3>3. ASSUME NEW i \in DOMAIN queue, queue[i].data_version = t
          PROVE  i \in DOMAIN queue' /\ queue'[i].data_version = t
      BY Zenon, <1>7, <3>3
    <3>4. n \in DOMAIN queue' /\ queue'[n].data_version = v
      BY Zenon, <1>7, <1>8
    <3> QED BY Zenon, <3>1, <3>2, <3>3, <3>4 DEF InQueue
  <2> QED BY Zenon, <2>1, <2>2, AddHeld
<1>13. SlotOrder'
  BY Zenon, <1>1, <1>4 DEF SlotOrder, Pos, Slots
<1>14. VersionOrder'
  <2>1. \A i \in DOMAIN queue' :
           queue'[i] = e \/ \E j \in DOMAIN queue : queue'[i] = queue[j]
    BY Zenon, <1>7
  <2>2. \A s, t \in Slots : Before(entries'[s], entries'[t])
    BY Zenon, <1>1, <1>4 DEF VersionOrder
  <2>3. \A i, j \in DOMAIN queue' : Before(queue'[i], queue'[j])
    <3> HIDE DEF e
    <3>1. /\ \A f \in Entry : f.data_version <= sent => Before(e, f)
          /\ \A f \in Entry : Before(f, e)
          /\ Before(e, e)
      BY Zenon, <1>5 DEF e
    <3>2. \A i, j \in DOMAIN queue : Before(queue[i], queue[j])
      BY Zenon, <1>1 DEF VersionOrder
    <3>3. \A i \in DOMAIN queue : Before(queue[i], e) /\ Before(e, queue[i])
      BY Zenon, <1>5, <3>1
    <3> QED BY Zenon, <2>1, <3>1, <3>2, <3>3
  <2>4. \A s \in Slots, i \in DOMAIN queue' :
           Before(entries'[s], queue'[i]) /\ Before(queue'[i], entries'[s])
    <3>1. \A s \in Slots : Before(entries[s], e) /\ Before(e, entries[s])
      BY Zenon, <1>5
    <3>2. \A s \in Slots, i \in DOMAIN queue :
             Before(entries[s], queue[i]) /\ Before(queue[i], entries[s])
      BY Zenon, <1>1 DEF VersionOrder
    <3> QED BY Zenon, <1>4, <2>1, <3>1, <3>2
  <2> QED BY Zenon, <2>2, <2>3, <2>4 DEF VersionOrder, Before, Slots
<1> QED BY Zenon, <1>10, <1>11, <1>12, <1>13, <1>14 DEF IInv

\* push_result_ring_add keeps the invariant for a record of one version.
LEMMA RingAddStep == ASSUME IInv, 1 \in Lengths, RingAdd(1) PROVE IInv'
<1>1. /\ sent' = sent + 1 /\ tasks' = tasks \cup {sent + 1} /\ released' = released
      /\ sent + 1 \in Version
      /\ AddsToRing(sent + 1) \/ AddsToQueue(sent + 1)
  BY Zenon, AddOne
<1>2. PICK v \in Version : v = sent + 1
  BY Zenon, <1>1
<1>3. /\ sent' = v /\ tasks' = tasks \cup {v} /\ released' = released
      /\ AddsToRing(v) \/ AddsToQueue(v)
  BY Zenon, <1>1, <1>2
<1>4. TypeOK'
  BY Zenon, RingAddType DEF IInv
<1> QED BY Zenon, <1>2, <1>3, <1>4, AddRingStep, AddQueueStep

-----------------------------------------------------------------------------
(* The theorems for records of one version.                                *)

\* The invariant holds of the empty ring.
LEMMA InvInit == ASSUME Init PROVE IInv
<1>1. TypeOK
  BY Zenon, TypeInit
<1>2. /\ \A s \in Slots : /\ entries[s].data_version = 0
                          /\ entries[s].waiting_task = NULL
                          /\ entries[s].left = 0
      /\ queue = <<>> /\ sent = 0 /\ tasks = {} /\ released = [t \in Version |-> 0]
  BY Zenon DEF Init
<1>3. DOMAIN queue = {}
  BY <1>2
<1>4. SlotsOK
  BY Zenon, <1>2 DEF SlotsOK, SlotOK
<1>5. QueueOK
  BY Zenon, <1>3 DEF QueueOK, Sorted
<1>6. HeldOK
  <2>1. \A t \in Version : ~RingHolds(t) /\ ~InQueue(t)
    <3>1. \A t \in Version : t # 0 /\ Slot(t) \in Slots
      BY VersionFacts
    <3> QED BY Zenon, <1>2, <1>3, <3>1 DEF RingHolds, InQueue
  <2>2. \A t \in Version : released[t] = 0 /\ t \notin tasks
    BY Zenon, <1>2
  <2>3. tasks \subseteq 1 .. sent
    BY Zenon, <1>2
  <2> QED BY Zenon, <2>1, <2>2, <2>3 DEF HeldOK, Held
<1>7. SlotOrder
  <2>1. 0 <= 0
    OBVIOUS
  <2> QED BY Zenon, <1>2, <2>1 DEF SlotOrder
<1>8. VersionOrder
  <2>1. ~(0 < 0)
    OBVIOUS
  <2> QED BY Zenon, <1>2, <1>3, <2>1 DEF VersionOrder, Before
<1> QED BY Zenon, <1>1, <1>4, <1>5, <1>6, <1>7, <1>8 DEF IInv

\* Every step keeps the invariant, as long as records have one version.
LEMMA InvStep == ASSUME Lengths = {1}, IInv, [Next]_vars PROVE IInv'
<1>1. TypeOK' /\ sent \in Nat /\ sent <= sent
  BY Zenon, TypeStep, QueueFacts DEF IInv
<1>2. ASSUME NEW n \in Lengths, RingAdd(n) PROVE IInv'
  BY Zenon, <1>2, RingAddStep
<1>3. ASSUME NEW v \in owed, RingRemove(v) PROVE IInv'
  <2>1. CASE InRing(v)
    BY Zenon, <1>1, <1>3, <2>1, RemoveRing, TakenStep
  <2>2. CASE ~InRing(v)
    BY Zenon, <1>1, <1>3, <2>2, RemoveQueue, TakenStep
  <2> QED BY Zenon, <2>1, <2>2
<1>4. ASSUME NEW v \in owed, RingRemoveFail(v) PROVE IInv'
  <2>1. ClearAll /\ sent' = sent
    BY Zenon, <1>4 DEF RingRemoveFail
  <2>2. sent <= sent'
    BY Zenon, <1>1, <2>1
  <2> QED BY Zenon, <1>1, <2>1, <2>2, ClearAllTaken, TakenStep
<1>5. CASE Disconnect
  <2>1. ClearAll /\ sent' \in {sent, sent + 1}
    BY Zenon, <1>5 DEF Disconnect
  <2>2. sent <= sent'
    BY <1>1, <2>1
  <2> QED BY Zenon, <1>1, <2>1, <2>2, ClearAllTaken, TakenStep
<1>6. CASE ClearTimeouts
  BY Zenon, <1>1, <1>6, TimeoutsTaken, TakenStep
<1>7. CASE Tick
  BY Zenon, <1>7, TickStep
<1>8. CASE UNCHANGED vars
  <2>1. UNCHANGED <<entries, start, end, queue, sent, tasks, released>>
    BY Zenon, <1>8 DEF vars
  <2>2. SlotsOK' /\ QueueOK'
    BY Zenon, <2>1 DEF IInv, SlotsOK, SlotOK, Slots, Pos, Slot, QueueOK, Sorted
  <2>3. HeldOK'
    BY Zenon, <2>1 DEF IInv, HeldOK, Held, RingHolds, InQueue, Version, Slot
  <2>4. SlotOrder' /\ VersionOrder'
    BY Zenon, <2>1 DEF IInv, SlotOrder, VersionOrder, Before, Slots, Pos
  <2> QED BY Zenon, <1>1, <2>2, <2>3, <2>4 DEF IInv
<1> QED BY Zenon, <1>2, <1>3, <1>4, <1>5, <1>6, <1>7, <1>8 DEF Next

\* The inductive invariant holds as long as records have one version.
THEOREM Inductive == ASSUME Lengths = {1} PROVE Spec => []IInv
<1>1. Init => IInv
  BY Zenon, InvInit
<1>2. IInv /\ [Next]_vars => IInv'
  BY InvStep
<1> QED BY <1>1, <1>2, PTL DEF Spec

\* The task of a record of one version is held or told, once, whatever results,
\* timeouts and broken connections push_result_ring.c deals with (ToldOnce).
THEOREM TaskToldOnce == ASSUME Lengths = {1} PROVE Spec => []ToldOnce
<1>1. IInv => ToldOnce
  BY InvTold
<1> QED BY <1>1, Inductive, PTL

\* With records of one version ring.start = ring.end means that nobody waits in
\* the ring (EmptyRing).
THEOREM EmptyMeansFree == ASSUME Lengths = {1} PROVE Spec => []EmptyRing
<1>1. IInv => EmptyRing
  BY InvEmpty
<1> QED BY <1>1, Inductive, PTL

-----------------------------------------------------------------------------
(* The ring and the queue implement the set of awaited versions.           *)

Waiting == {v \in Version : InRing(v) \/ InQueue(v)}

\* The awaited versions are those whose task has not been told.
WaitingIs == /\ Waiting = {v \in Version : Held(v)}
             /\ \A v \in Version : Held(v) <=> v \in tasks /\ released[v] = 0
LEMMA WaitingForm == IInv => WaitingIs
<1> SUFFICES ASSUME IInv PROVE WaitingIs
  BY Zenon
<1>1. TypeOK /\ SlotsOK /\ HeldOK /\ RingFacts
  BY Zenon, RingForm DEF IInv
<1>2. ASSUME NEW v \in Version PROVE InRing(v) <=> RingHolds(v)
  <2>1. Slot(v) \in Slots /\ v # 0
    BY VersionFacts
  <2>2. ASSUME RingHolds(v) PROVE start # end
    <3>1. entries[Slot(v)].data_version # 0
      BY Zenon, <2>1, <2>2 DEF RingHolds
    <3>2. Pos(Slot(v)) < Pos(end)
      BY Zenon, <1>1, <2>1, <3>1 DEF SlotsOK, SlotOK
    <3>3. Pos(Slot(v)) \in 0 .. Size - 1
      BY Zenon, <1>1, <2>1 DEF RingFacts
    <3>4. end \in Nat /\ start \in Nat
      BY Zenon, <1>1, Types
    <3>5. start = end => Pos(end) = 0
      BY <3>4 DEF Pos
    <3> QED BY <3>2, <3>3, <3>5
  <2> QED BY Zenon, <2>2 DEF InRing, RingHolds
<1>3. Waiting = {v \in Version : Held(v)}
  BY Zenon, <1>2 DEF Waiting, Held
<1>4. ASSUME NEW v \in Version PROVE Held(v) <=> v \in tasks /\ released[v] = 0
  <2>1. /\ Held(v) => v \in tasks
        /\ released[v] = IF v \in tasks /\ ~Held(v) THEN 1 ELSE 0
    BY Zenon, <1>1 DEF HeldOK
  <2>2. 1 # 0
    OBVIOUS
  <2> QED BY Zenon, <2>1, <2>2
<1> QED BY Zenon, <1>3, <1>4 DEF WaitingIs

\* What is awaited after entries have left.
StillWaiting(S, d) ==
    {t \in Waiting : ~(RingHolds(t) /\ Slot(t) \in S) /\ ~In(d, t)}
LEMMA TakenWaiting ==
    ASSUME IInv, WaitingIs', NEW S, NEW k, NEW d, NEW N, Taken(S, k, d, N)
    PROVE  Waiting' = StillWaiting(S, d)
<1>1. TypeOK /\ WaitingIs /\ HeldOK
  BY Zenon, WaitingForm DEF IInv
<1>2. /\ entries' = Freed(S)
      /\ \A t \in Version : InQueue(t)' <=> InQueue(t) /\ ~In(d, t)
      /\ \A i \in DOMAIN d : \E j \in DOMAIN queue : d[i] = queue[j]
  BY Zenon DEF Taken
<1>3. \A t \in Version : RingHolds(t)' <=> RingHolds(t) /\ Slot(t) \notin S
  BY Zenon, <1>1, <1>2, FreedHolds
<1>4. \A t \in Version : ~(RingHolds(t) /\ InQueue(t))
  BY Zenon, <1>1 DEF HeldOK
<1>5. \A t : In(d, t) => InQueue(t)
  <2> SUFFICES ASSUME NEW t, In(d, t) PROVE InQueue(t)
    BY Zenon
  <2>1. PICK i \in DOMAIN d : d[i].data_version = t
    BY Zenon DEF In
  <2>2. PICK j \in DOMAIN queue : d[i] = queue[j]
    BY Zenon, <1>2
  <2>3. queue[j].data_version = t
    BY Zenon, <2>1, <2>2
  <2> QED BY Zenon, <2>3 DEF InQueue
<1>6. \A t \in Version : Held(t)' <=> RingHolds(t)' \/ InQueue(t)'
  BY Zenon DEF Held
<1>7. ASSUME NEW t \in Version
      PROVE  Held(t)' <=> Held(t) /\ ~(RingHolds(t) /\ Slot(t) \in S) /\ ~In(d, t)
  BY Zenon, <1>2, <1>3, <1>4, <1>5, <1>6 DEF Held
<1>8. Waiting' = {t \in Version : Held(t)'}
  BY Zenon DEF WaitingIs, Version
<1>9. Waiting = {t \in Version : Held(t)}
  BY Zenon, <1>1 DEF WaitingIs
<1> QED BY Zenon, <1>7, <1>8, <1>9 DEF StillWaiting

\* A result of the slave is one Answer.
LEMMA AnswerStep ==
    ASSUME IInv, WaitingIs', NEW v \in owed, RingRemove(v)
    PROVE  v \in Waiting /\ Waiting' = Waiting \ {v} /\ sent' = sent
<1>1. TypeOK /\ WaitingIs /\ sent' = sent /\ v \in Version
  BY Zenon, WaitingForm DEF IInv, RingRemove, TypeOK
<1>2. Waiting = {t \in Version : Held(t)}
  BY Zenon, <1>1 DEF WaitingIs
<1>3. CASE InRing(v)
  <2>1. RingHolds(v) /\ Held(v)
    BY Zenon, <1>3 DEF InRing, RingHolds, Held
  <2>2. PICK k : Taken({Slot(v)}, k, <<>>, 0)
    BY Zenon, <1>3, RemoveRing
  <2>3. Waiting' = StillWaiting({Slot(v)}, <<>>)
    BY Zenon, <2>2, TakenWaiting
  <2>4. \A t : ~In(<<>>, t)
    <3>1. DOMAIN <<>> = {}
      OBVIOUS
    <3> QED BY Zenon, <3>1 DEF In
  <2>5. \A t : RingHolds(t) /\ Slot(t) \in {Slot(v)} <=> t = v
    BY Zenon, <2>1 DEF RingHolds
  <2> QED BY Zenon, <1>1, <1>2, <2>1, <2>3, <2>4, <2>5 DEF StillWaiting
<1>4. CASE ~InRing(v)
  <2>1. PICK i \in DOMAIN queue : /\ queue[i].data_version = v
                                  /\ Taken({}, 0, <<queue[i]>>, 1)
    BY Zenon, <1>4, RemoveQueue
  <2>2. Held(v)
    BY Zenon, <2>1 DEF Held, InQueue
  <2>3. Waiting' = StillWaiting({}, <<queue[i]>>)
    BY Zenon, <2>1, TakenWaiting
  <2>4. \A t : In(<<queue[i]>>, t) <=> t = v
    <3> DEFINE d == <<queue[i]>>
    <3>1. DOMAIN d = {1} /\ d[1] = queue[i]
      OBVIOUS
    <3> HIDE DEF d
    <3>2. \A t : In(d, t) <=> d[1].data_version = t
      BY Zenon, <3>1 DEF In
    <3> QED BY Zenon, <2>1, <3>1, <3>2 DEF d
  <2> QED BY Zenon, <1>1, <1>2, <2>2, <2>3, <2>4 DEF StillWaiting
<1> QED BY Zenon, <1>1, <1>3, <1>4

\* Nothing is awaited on a connection that was closed.
LEMMA ClearStep ==
    ASSUME IInv, WaitingIs', ClearAll, sent <= sent' PROVE Waiting' = {}
<1>1. TypeOK /\ SlotsOK /\ WaitingIs /\ RingFacts
  BY Zenon, WaitingForm, RingForm DEF IInv
<1>2. Taken(Front(Distance), Distance, queue, Len(queue))
  BY Zenon, ClearAllTaken
<1>3. Waiting' = StillWaiting(Front(Distance), queue)
  BY Zenon, <1>2, TakenWaiting
<1>4. Distance = Pos(end) /\ Distance \in 0 .. Size
  BY <1>1, SizeAssumption DEF RingFacts
<1>5. Front(Distance) = {s \in Slots : Pos(s) < Pos(end)}
  BY Zenon, <1>1, <1>4 DEF RingFacts
<1>6. ASSUME NEW t \in Version, RingHolds(t) PROVE Slot(t) \in Front(Distance)
  <2>1. Slot(t) \in Slots /\ t # 0
    BY VersionFacts
  <2>2. entries[Slot(t)].data_version # 0
    BY Zenon, <1>6, <2>1 DEF RingHolds
  <2>3. Pos(Slot(t)) < Pos(end)
    BY Zenon, <1>1, <2>1, <2>2 DEF SlotsOK, SlotOK
  <2> QED BY Zenon, <1>5, <2>1, <2>3
<1>7. Waiting = {t \in Version : Held(t)}
  BY Zenon, <1>1 DEF WaitingIs
<1>8. \A t : InQueue(t) <=> In(queue, t)
  BY Zenon DEF InQueue, In
<1> QED BY Zenon, <1>3, <1>6, <1>7, <1>8 DEF Held, StillWaiting

\* A record of one version is one Add.
LEMMA AddStep ==
    ASSUME IInv, WaitingIs', RingAdd(1)
    PROVE  /\ sent + 1 \in Version /\ sent' = sent + 1
           /\ Waiting' = Waiting \cup {sent + 1}
<1>1. /\ sent' = sent + 1 /\ tasks' = tasks \cup {sent + 1} /\ released' = released
      /\ sent + 1 \in Version
  BY Zenon, AddOne
<1>2. PICK v \in Version : v = sent + 1
  BY Zenon, <1>1
<1>3. WaitingIs /\ HeldOK /\ v \notin tasks
  BY Zenon, <1>2, WaitingForm, NewIsNewest DEF IInv
<1>4. released[v] = 0
  BY Zenon, <1>3 DEF HeldOK
<1>5. Waiting = {t \in Version : t \in tasks /\ released[t] = 0}
  BY Zenon, <1>3 DEF WaitingIs
<1>6. Waiting' = {t \in Version : t \in tasks' /\ released'[t] = 0}
  BY Zenon DEF WaitingIs, Version
<1>7. Waiting' = Waiting \cup {v}
  BY Zenon, <1>1, <1>2, <1>4, <1>5, <1>6
<1> QED BY Zenon, <1>1, <1>2, <1>7

\* The entry of version t has expired.
Late(t) == \/ RingHolds(t) /\ entries[Slot(t)].left = 0
           \/ \E i \in DOMAIN queue : /\ queue[i].data_version = t
                                      /\ queue[i].left = 0

\* An older version expires no later than a newer one.
LEMMA OlderLate ==
    ASSUME IInv, NEW t \in Version, NEW u \in Version, Held(t), Late(u), t < u
    PROVE  Late(t)
<1>1. TypeOK /\ VersionOrder
  BY Zenon DEF IInv
<1>2. 0 < t /\ Slot(t) \in Slots /\ Slot(u) \in Slots
  BY Zenon, VersionFacts
<1>3. ASSUME NEW e, NEW f, e.data_version = t, f.data_version = u, f.left = 0,
             e.left \in 0 .. Lifetime, Before(e, f)
      PROVE  e.left = 0
  <2>1. e.left <= 0
    BY Zenon, <1>2, <1>3 DEF Before
  <2> QED BY <1>3, <2>1, LifetimeAssumption
<1>4. PICK f : /\ f.data_version = u /\ f.left = 0
               /\ \/ f = entries[Slot(u)]
                  \/ \E i \in DOMAIN queue : f = queue[i]
  BY Zenon DEF Late, RingHolds
<1>5. CASE RingHolds(t)
  <2>1. /\ entries[Slot(t)].data_version = t
        /\ entries[Slot(t)].left \in 0 .. Lifetime
        /\ Before(entries[Slot(t)], f)
    BY Zenon, <1>1, <1>2, <1>4, <1>5, Types DEF RingHolds, VersionOrder
  <2>2. entries[Slot(t)].left = 0
    BY Zenon, <1>3, <1>4, <2>1
  <2> QED BY Zenon, <1>5, <2>2 DEF Late
<1>6. CASE InQueue(t)
  <2>1. PICK i \in DOMAIN queue : queue[i].data_version = t
    BY Zenon, <1>6 DEF InQueue
  <2>2. queue[i].left \in 0 .. Lifetime /\ Before(queue[i], f)
    BY Zenon, <1>1, <1>2, <1>4, Types DEF VersionOrder
  <2>3. queue[i].left = 0
    BY Zenon, <1>3, <1>4, <2>1, <2>2
  <2> QED BY Zenon, <2>1, <2>3 DEF Late
<1> QED BY Zenon, <1>5, <1>6 DEF Held

\* push_result_ring_clear_timeouts takes the expired versions from the ring,
\* although it stops at the first entry that has time left.
LEMMA LateInRing ==
    ASSUME IInv, NEW t \in Version, RingHolds(t)
    PROVE  Slot(t) \in Front(Expired(RingEntries)) <=> entries[Slot(t)].left = 0
<1> DEFINE n == Expired(RingEntries)
<1>1. TypeOK /\ SlotsOK /\ SlotOrder /\ RingFacts
  BY Zenon, RingForm DEF IInv
<1>2. PICK s \in Slots : s = Slot(t)
  BY Zenon, VersionFacts
<1>3. /\ n \in 0 .. Distance
      /\ \A x \in Slots : Pos(x) < n => entries[x].left = 0
      /\ \A x \in Slots : Pos(x) = n /\ Pos(x) < Distance => entries[x].left > 0
  BY Zenon, <1>1, TimeoutFacts
<1> HIDE DEF n
<1>4. /\ Distance = Pos(end) /\ Distance \in 0 .. Size - 1
      /\ Pos(s) \in 0 .. Size - 1
  BY Zenon, <1>1, <1>2 DEF RingFacts
<1>5. Pos(s) < Pos(end)
  <2>1. entries[s].data_version # 0
    <3>1. t # 0
      BY VersionFacts
    <3> QED BY Zenon, <1>2, <3>1 DEF RingHolds
  <2> QED BY Zenon, <1>1, <2>1 DEF SlotsOK, SlotOK
<1>6. n \in 0 .. Size
  BY <1>3, <1>4, SizeAssumption
<1>7. Front(n) = {x \in Slots : Pos(x) < n}
  BY Zenon, <1>1, <1>6 DEF RingFacts
<1>8. ASSUME ~(Pos(s) < n) PROVE entries[s].left # 0
  <2>1. n \in 0 .. Size - 1 /\ n < Distance /\ (Pos(s) = n \/ n < Pos(s))
    BY <1>3, <1>4, <1>5, <1>8, SizeAssumption
  <2>2. PICK x \in Slots : Pos(x) = n
    BY Zenon, <1>1, <2>1 DEF RingFacts
  <2>3. entries[x].left > 0
    BY Zenon, <1>3, <2>1, <2>2
  <2>4. CASE Pos(s) = n
    <3>1. entries[s].left > 0
      BY Zenon, <1>3, <2>1, <2>4
    <3> QED BY <3>1
  <2>5. CASE n < Pos(s)
    <3>1. entries[x].left <= entries[s].left
      BY Zenon, <1>1, <1>5, <2>2, <2>5 DEF SlotOrder
    <3>2. entries[x].left \in 0 .. Lifetime /\ entries[s].left \in 0 .. Lifetime
      BY Zenon, <1>1, Types
    <3> QED BY <2>3, <3>1, <3>2, LifetimeAssumption
  <2> QED BY Zenon, <2>1, <2>4, <2>5
<1>9. Slot(t) \in Front(n) <=> Pos(s) < n
  BY Zenon, <1>2, <1>7
<1>10. Slot(t) \in Front(n) <=> entries[Slot(t)].left = 0
  BY Zenon, <1>2, <1>3, <1>8, <1>9
<1> QED BY Zenon, <1>10 DEF n

\* The same of the queue.
LEMMA LateInQueue ==
    ASSUME IInv, NEW t
    PROVE  In(SubSeq(queue, 1, Expired(queue)), t)
               <=> \E i \in DOMAIN queue : queue[i].data_version = t /\ queue[i].left = 0
<1> DEFINE m == Expired(queue)
           d == SubSeq(queue, 1, m)
<1>1. /\ TypeOK /\ queue \in Seq(Entry) /\ Sorted(queue) /\ VersionOrder /\ QueueOK
      /\ DOMAIN queue = 1 .. Len(queue) /\ Len(queue) \in Nat
  BY Zenon, QueueFacts DEF IInv
<1>2. /\ m \in 0 .. Len(queue)
      /\ \A i \in DOMAIN queue : i <= m => queue[i].left = 0
      /\ \A i \in DOMAIN queue : i = m + 1 => queue[i].left > 0
  BY Zenon, <1>1, TimeoutFacts
<1> HIDE DEF m
<1>3. Covers(queue, 1 .. m, d)
  BY Zenon, <1>1, <1>2, TakeFront
<1> HIDE DEF d
<1>4. In(d, t) <=> \E i \in 1 .. m : queue[i].data_version = t
  <2>1. ASSUME In(d, t) PROVE \E i \in 1 .. m : queue[i].data_version = t
    BY Zenon, <1>3, <2>1 DEF Covers, In
  <2>2. ASSUME NEW i \in 1 .. m, queue[i].data_version = t PROVE In(d, t)
    BY Zenon, <1>3, <2>2 DEF Covers, In
  <2> QED BY Zenon, <2>1, <2>2
<1>5. \A i \in DOMAIN queue : i \in 1 .. m <=> i <= m
  BY <1>1, <1>2
<1>6. 1 .. m \subseteq DOMAIN queue
  BY <1>1, <1>2
<1>7. ASSUME NEW i \in DOMAIN queue, queue[i].left = 0 PROVE i <= m
  <2> SUFFICES ASSUME ~(i <= m) PROVE FALSE
    BY Zenon
  <2>1. m + 1 \in DOMAIN queue /\ (i = m + 1 \/ m + 1 < i)
    BY <1>1, <1>2
  <2>2. queue[m + 1].left > 0
    BY Zenon, <1>2, <2>1
  <2>3. CASE i = m + 1
    BY <1>7, <2>2, <2>3
  <2>4. CASE m + 1 < i
    <3>1. queue[m + 1].data_version < queue[i].data_version
      BY Zenon, <1>1, <2>1, <2>4 DEF Sorted
    <3>2. queue[m + 1].data_version \in 1 .. sent /\ sent \in Nat
      BY Zenon, <1>1, <2>1, Types DEF QueueOK
    <3>3. 0 < queue[m + 1].data_version
      BY <3>2
    <3>4. queue[m + 1].left <= queue[i].left
      BY Zenon, <1>1, <2>1, <3>1, <3>3 DEF VersionOrder, Before
    <3>5. queue[m + 1].left \in 0 .. Lifetime
      BY Zenon, <1>1, <2>1, Types
    <3> QED BY <1>7, <2>2, <3>4, <3>5, LifetimeAssumption
  <2> QED BY Zenon, <2>1, <2>3, <2>4
<1>8. In(d, t) <=> \E i \in DOMAIN queue : queue[i].data_version = t /\ queue[i].left = 0
  BY Zenon, <1>2, <1>4, <1>5, <1>6, <1>7
<1> QED BY Zenon, <1>8 DEF d, m

\* A nonempty set of versions has a greatest one.
LEMMA Greatest ==
    ASSUME NEW S, S \subseteq Version, S # {}
    PROVE  \E x \in S : \A y \in S : y <= x
<1> DEFINE T == {MaxVersion - y : y \in S}
<1>1. T \subseteq Nat /\ T # {}
  <2>1. \A y \in Version : MaxVersion - y \in Nat
    BY BoundAssumption DEF Version
  <2> QED BY Zenon, <2>1
<1>2. PICK z \in T : \A y \in T : z <= y
  BY Zenon, <1>1, Least
<1>3. PICK x \in S : z = MaxVersion - x
  BY Zenon
<1>4. \A y \in S : MaxVersion - x <= MaxVersion - y
  BY Zenon, <1>2, <1>3
<1> QED BY <1>4, BoundAssumption DEF Version

\* push_result_ring_clear_timeouts gives up the oldest versions, from the ring
\* and the queue together.
LEMMA ExpireStep ==
    ASSUME IInv, WaitingIs', ClearTimeouts
    PROVE  /\ sent' = sent
           /\ \/ Waiting' = Waiting
              \/ \E x \in Version : x \in Waiting /\ Waiting' = {w \in Waiting : w > x}
<1> DEFINE n == Expired(RingEntries)
           d == SubSeq(queue, 1, Expired(queue))
           gone == {t \in Waiting : Late(t)}
<1>1. Taken(Front(n), n, d, Expired(queue)) /\ sent' = sent
  BY Zenon, TimeoutsTaken
<1>2. \A t \in Version : RingHolds(t) => (Slot(t) \in Front(n) <=> entries[Slot(t)].left = 0)
  BY Zenon, LateInRing
<1>3. \A t : In(d, t)
             <=> \E i \in DOMAIN queue : queue[i].data_version = t /\ queue[i].left = 0
  BY Zenon, LateInQueue
<1> HIDE DEF n, d
<1>4. Waiting' = StillWaiting(Front(n), d)
  BY Zenon, <1>1, TakenWaiting
<1>5. Waiting = {t \in Version : Held(t)}
  BY Zenon, WaitingForm DEF WaitingIs
<1>6. \A t \in Version : Late(t) <=> (RingHolds(t) /\ Slot(t) \in Front(n)) \/ In(d, t)
  BY Zenon, <1>2, <1>3 DEF Late
<1>7. Waiting' = {t \in Waiting : ~Late(t)}
  BY Zenon, <1>4, <1>5, <1>6 DEF StillWaiting
<1>8. CASE gone = {}
  <2>1. Waiting' = Waiting
    BY Zenon, <1>7, <1>8
  <2> QED BY Zenon, <1>1, <2>1
<1>9. CASE gone # {}
  <2>1. gone \subseteq Version
    BY Zenon, <1>5
  <2>2. PICK x \in gone : \A y \in gone : y <= x
    BY Zenon, <1>9, <2>1, Greatest
  <2>3. x \in Version /\ x \in Waiting /\ Late(x)
    BY Zenon, <2>1, <2>2
  <2>4. ASSUME NEW w \in Waiting PROVE ~Late(w) <=> w > x
    <3>1. w \in Version /\ Held(w)
      BY Zenon, <1>5
    <3>2. w \in Nat /\ x \in Nat
      BY Zenon, <2>3, <3>1, VersionFacts
    <3>3. Late(w) => w <= x
      BY Zenon, <2>2
    <3>4. w < x => Late(w)
      BY Zenon, <2>3, <3>1, OlderLate
    <3>5. w = x => Late(w)
      BY Zenon, <2>3
    <3> HIDE DEF gone
    <3> QED BY <3>2, <3>3, <3>4, <3>5
  <2>5. Waiting' = {w \in Waiting : w > x}
    BY Zenon, <1>7, <2>4
  <2> QED BY Zenon, <1>1, <2>3, <2>5
<1> QED BY Zenon, <1>8, <1>9

\* A second that passes changes no version.
LEMMA TickWaiting ==
    ASSUME IInv, WaitingIs', Tick \/ UNCHANGED vars
    PROVE  Waiting' = Waiting /\ sent' = sent
<1>1. tasks' = tasks /\ released' = released /\ sent' = sent
  BY Zenon DEF Tick, vars
<1>2. Waiting = {t \in Version : t \in tasks /\ released[t] = 0}
  BY Zenon, WaitingForm DEF WaitingIs
<1>3. Waiting' = {t \in Version : t \in tasks' /\ released'[t] = 0}
  BY Zenon DEF WaitingIs, Version
<1> QED BY Zenon, <1>1, <1>2, <1>3

\* Every step is a step of the abstract set or leaves it unchanged.
LEMMA ResultsStep ==
    ASSUME Lengths = {1}, IInv, WaitingIs', [Next]_vars
    PROVE  [Results!Next]_(Results!vars)
<1>0. /\ TypeOK /\ sent \in Nat /\ sent \in {0} \cup Version
      /\ \A v \in Version : v \in Nat
  <2>1. TypeOK /\ sent \in Nat /\ sent \in 0 .. MaxVersion
    BY Zenon, Types DEF IInv, TypeOK
  <2> QED BY <2>1, BoundAssumption DEF Version
<1> SUFFICES ASSUME ~(Waiting' = Waiting /\ sent' = sent) PROVE Results!Next
  BY Zenon DEF Results!vars, Waiting, Version
<1>1. ASSUME NEW l \in Lengths, RingAdd(l) PROVE Results!Next
  <2>1. /\ sent + 1 \in Version /\ sent' = sent + 1
        /\ Waiting' = Waiting \cup {sent + 1}
    BY Zenon, <1>1, AddStep
  <2>2. PICK v \in Version : v = sent + 1
    BY Zenon, <2>1
  <2>3. v > sent /\ v \in sent + 1 .. v /\ v .. v = {v}
    BY <1>0, <2>2
  <2>4. sent' = v /\ Waiting' = Waiting \cup (v .. v)
    BY Zenon, <2>1, <2>2, <2>3
  <2>5. Results!Add(v)
    BY Zenon, <2>3, <2>4 DEF Results!Add, Waiting, Version
  <2> QED BY Zenon, <2>5 DEF Results!Next
<1>2. ASSUME NEW v \in owed, RingRemove(v) PROVE Results!Next
  <2>1. v \in Version /\ v \in Waiting /\ Waiting' = Waiting \ {v} /\ sent' = sent
    BY Zenon, <1>0, <1>2, AnswerStep DEF TypeOK
  <2>2. Results!Answer(v)
    BY Zenon, <2>1 DEF Results!Answer, Waiting, Version
  <2> QED BY Zenon, <2>1, <2>2 DEF Results!Next
<1>3. ASSUME ClearAll, sent' \in {0} \cup Version, sent' >= sent PROVE Results!Next
  <2>1. sent <= sent'
    BY Zenon, <1>0, <1>3
  <2>2. Waiting' = {}
    BY Zenon, <1>3, <2>1, ClearStep
  <2>3. Results!Clear
    BY Zenon, <1>3, <2>2 DEF Results!Clear, Waiting, Version
  <2> QED BY Zenon, <2>3 DEF Results!Next
<1>4. ASSUME NEW v \in owed, RingRemoveFail(v) PROVE Results!Next
  <2>1. ClearAll /\ sent' = sent
    BY Zenon, <1>4 DEF RingRemoveFail
  <2>2. sent >= sent
    BY <1>0
  <2> QED BY Zenon, <1>0, <1>3, <2>1, <2>2
<1>5. CASE Disconnect
  <2>1. ClearAll /\ sent' \in {sent, sent + 1} /\ sent' <= MaxVersion
    BY Zenon, <1>5 DEF Disconnect
  <2>2. sent' \in {0} \cup Version /\ sent' >= sent
    BY <1>0, <2>1, BoundAssumption DEF Version
  <2> QED BY Zenon, <1>3, <2>1, <2>2
<1>6. CASE ClearTimeouts
  <2>1. PICK x \in Version : x \in Waiting /\ Waiting' = {w \in Waiting : w > x}
                             /\ sent' = sent
    BY Zenon, <1>6, ExpireStep
  <2>2. Results!Expire(x)
    BY Zenon, <2>1 DEF Results!Expire, Waiting, Version
  <2> QED BY Zenon, <2>2 DEF Results!Next
<1> QED BY Zenon, <1>1, <1>2, <1>4, <1>5, <1>6, TickWaiting DEF Next

\* Ring and queue together implement the set of awaited versions (ResultsSpec):
\* with records of one version no slot that is used again and no overflow of
\* the ring loses a version or has it answered twice, and timeouts give up the
\* oldest versions first.
THEOREM Implements == ASSUME Lengths = {1} PROVE Spec => ResultsSpec
<1>1. Init => Results!Init
  <2> SUFFICES ASSUME Init PROVE Results!Init
    BY Zenon
  <2>1. sent = 0 /\ start = end /\ queue = <<>>
    BY Zenon DEF Init
  <2>2. DOMAIN queue = {}
    BY <2>1
  <2> QED BY Zenon, <2>1, <2>2 DEF Results!Init, InRing, InQueue
<1>2. IInv => WaitingIs
  BY Zenon, WaitingForm
<1>3. IInv /\ WaitingIs' /\ [Next]_vars => [Results!Next]_(Results!vars)
  BY ResultsStep
<1> QED BY <1>1, <1>2, <1>3, Inductive, PTL DEF Spec, ResultsSpec, Results!Spec
=============================================================================

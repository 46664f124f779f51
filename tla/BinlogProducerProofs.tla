----------------------- MODULE BinlogProducerProofs -----------------------
(***************************************************************************)
(* For every size of the ring, every set of record lengths and every bound *)
(* the producer hands the records over in version order, refuses none of   *)
(* its own term, implements VersionStream, and loses no record it was      *)
(* handed.  With records of one version, ring.start = ring.end means that  *)
(* the ring is empty.                                                      *)
(***************************************************************************)
EXTENDS BinlogProducer, TLAPS

-----------------------------------------------------------------------------
(* The inductive invariant.                                                *)

Disjoint(r, s) == r.last < s.first \/ s.last < r.first
Held == {s \in Slots : entries[s] # NULL}

\* What all records in the producer's hands have in common: their versions are
\* allocated, and either still to be consumed or older than the term.
Fresh(r) == /\ r.last <= data_version
            /\ r.first >= next_data_version \/ r.last < base

AllFresh == /\ \A r \in pending : Fresh(r)
            /\ \A i \in DOMAIN queue : Fresh(queue[i])
            /\ \A i \in DOMAIN chain : Fresh(chain[i])
            /\ \A s \in Held : Fresh(entries[s])

\* No version is in two places.
PendingApart == /\ \A r, s \in pending : r # s => Disjoint(r, s)
                /\ \A r \in pending, i \in DOMAIN queue : Disjoint(r, queue[i])
                /\ \A r \in pending, i \in DOMAIN chain : Disjoint(r, chain[i])
                /\ \A r \in pending, s \in Held : Disjoint(r, entries[s])
QueueApart == /\ \A i, j \in DOMAIN queue : i # j => Disjoint(queue[i], queue[j])
              /\ \A i \in DOMAIN queue, j \in DOMAIN chain :
                     Disjoint(queue[i], chain[j])
              /\ \A i \in DOMAIN queue, s \in Held : Disjoint(queue[i], entries[s])
ChainApart == /\ \A i, j \in DOMAIN chain : i # j => Disjoint(chain[i], chain[j])
              /\ \A i \in DOMAIN chain, s \in Held : Disjoint(chain[i], entries[s])
RingApart == \A s, t \in Held : s # t => Disjoint(entries[s], entries[t])

\* A held record sits at the slot of its first version, inside the window of
\* versions that have a slot of their own.
RingWindow == \A s \in Held : /\ Slot(entries[s].first) = s
                              /\ entries[s].first >= next_data_version
                              /\ entries[s].first < next_data_version + Size

ThreadState ==
    /\ phase \in {"slave", "elected"} => pc = "idle" /\ Held = {}
    /\ phase \in {"running", "stopping"} =>
           pc # "idle" /\ start = Slot(next_data_version)
    /\ pc \in {"idle", "deal_queue", "waiting"} => chain = <<>>
    /\ pc = "deal_record" => chain # <<>>

Versions == /\ data_version <= MaxVersion
            /\ next_data_version <= data_version + 1
            /\ base <= data_version + 1
            /\ \A i \in DOMAIN consumed : consumed[i].last < next_data_version

IInv == /\ TypeOK /\ ThreadState /\ Versions /\ AllFresh
        /\ PendingApart /\ QueueApart /\ ChainApart /\ RingApart /\ RingWindow
        /\ ConsumedInOrder /\ OnlyEarlyDropped

-----------------------------------------------------------------------------
(* Slots: two versions less than Size apart never share one.               *)

\* Division with remainder by the number of slots.
LEMMA DivMod == \A a \in Nat : /\ a = Size * (a \div Size) + (a % Size)
                               /\ a % Size \in 0 .. Size - 1
                               /\ a \div Size \in Nat
BY SizeAssumption

\* Every version has a slot of the ring.
LEMMA SlotType == \A a \in Nat : Slot(a) \in Slots
BY Zenon, DivMod DEF Slot, Slots

\* Two versions less than Size apart do not share a slot.
LEMMA SlotUnique ==
    ASSUME NEW a \in Nat, NEW b \in Nat, a <= b, b < a + Size, Slot(a) = Slot(b)
    PROVE  a = b
<1> DEFINE p == a \div Size
           q == b \div Size
           m == a % Size
<1>1. /\ p \in Nat /\ q \in Nat /\ m \in Nat
      /\ a = Size * p + m /\ b = Size * q + m
  BY DivMod, SizeAssumption DEF Slot
<1>2. \A d \in Nat : d >= 1 => Size * d >= Size
  BY SizeAssumption
<1> HIDE DEF p, q, m
<1>3. CASE q > p
  <2>1. q - p \in Nat /\ q - p >= 1
    BY <1>1, <1>3
  <2>2. Size * (q - p) >= Size
    BY Zenon, <1>2, <2>1
  <2>3. Size * (q - p) = Size * q - Size * p
    BY <1>1, SizeAssumption
  <2> QED BY <1>1, <2>2, <2>3, SizeAssumption
<1>4. CASE p > q
  <2>1. p - q \in Nat /\ p - q >= 1
    BY <1>1, <1>4
  <2>2. Size * (p - q) >= Size
    BY Zenon, <1>2, <2>1
  <2>3. Size * (p - q) = Size * p - Size * q
    BY <1>1, SizeAssumption
  <2> QED BY <1>1, <2>2, <2>3, SizeAssumption
<1> QED BY <1>1, <1>3, <1>4

(* What inserting into and taking from the front of a sequence does.       *)

\* repush_to_queue adds one record to the queue and keeps all others.
LEMMA InsertFacts ==
    ASSUME NEW q \in Seq(Record), NEW k \in 0 .. Len(q), NEW r \in Record
    PROVE  /\ InsertAt(q, k + 1, r) \in Seq(Record)
           /\ Len(InsertAt(q, k + 1, r)) = Len(q) + 1
           /\ \A i \in 1 .. k : InsertAt(q, k + 1, r)[i] = q[i]
           /\ InsertAt(q, k + 1, r)[k + 1] = r
           /\ \A i \in k + 2 .. Len(q) + 1 : InsertAt(q, k + 1, r)[i] = q[i - 1]
<1> DEFINE a == SubSeq(q, 1, k)
           b == SubSeq(q, k + 1, Len(q))
<1>1. /\ a \in Seq(Record) /\ Len(a) = k
      /\ \A i \in 1 .. k : a[i] = q[i]
  OBVIOUS
<1>2. /\ b \in Seq(Record) /\ Len(b) = Len(q) - k
      /\ \A i \in 1 .. Len(q) - k : b[i] = q[k + i]
  OBVIOUS
<1> HIDE DEF a, b
<1> DEFINE c == a \o <<r>>
<1>3. /\ c \in Seq(Record) /\ Len(c) = k + 1 /\ c[k + 1] = r
      /\ \A i \in 1 .. k : c[i] = q[i]
  BY <1>1
<1> HIDE DEF c
<1> DEFINE d == c \o b
<1>4. /\ d \in Seq(Record) /\ Len(d) = Len(q) + 1
      /\ \A i \in 1 .. k + 1 : d[i] = c[i]
      /\ \A i \in k + 2 .. Len(q) + 1 : d[i] = b[i - (k + 1)]
  BY <1>2, <1>3
<1>5. d = InsertAt(q, k + 1, r)
  <2>1. (k + 1) - 1 = k
    OBVIOUS
  <2> QED BY ZenonT(60), <2>1 DEF InsertAt, a, b, c
<1> HIDE DEF d
<1>6. ASSUME NEW i \in k + 2 .. Len(q) + 1 PROVE d[i] = q[i - 1]
  <2>1. i - (k + 1) \in 1 .. Len(q) - k /\ k + (i - (k + 1)) = i - 1
    OBVIOUS
  <2> QED BY ZenonT(60), <1>2, <1>4, <2>1
<1> QED BY <1>3, <1>4, <1>5, <1>6

\* Taking the head off the chain keeps the other records.
LEMMA TailFacts ==
    ASSUME NEW q \in Seq(Record), q # <<>>
    PROVE  /\ Head(q) \in Record /\ Head(q) = q[1] /\ 1 \in DOMAIN q
           /\ Tail(q) \in Seq(Record) /\ Len(Tail(q)) = Len(q) - 1
           /\ \A i \in DOMAIN Tail(q) : /\ Tail(q)[i] = q[i + 1]
                                        /\ i + 1 \in DOMAIN q /\ i + 1 # 1
           /\ (Len(q) > 1) <=> (Tail(q) # <<>>)
<1>1. /\ Len(q) \in Nat /\ Len(q) >= 1 /\ DOMAIN q = 1 .. Len(q)
      /\ Head(q) \in Record /\ Head(q) = q[1]
  OBVIOUS
<1>2. Tail(q) \in Seq(Record) /\ Len(Tail(q)) = Len(q) - 1
  OBVIOUS
<1>3. \A i \in 1 .. Len(q) - 1 : Tail(q)[i] = q[i + 1]
  OBVIOUS
<1>4. (Tail(q) = <<>>) <=> (Len(Tail(q)) = 0)
  BY <1>2
<1> QED BY <1>1, <1>2, <1>3, <1>4

-----------------------------------------------------------------------------
(* Type correctness.                                                       *)

\* The initial state is well typed.
LEMMA TypeInit == Init => TypeOK
BY SizeAssumption, BoundAssumption DEF Init, TypeOK, Empty, Slots

\* Every step keeps the types.
LEMMA TypeStep == TypeOK /\ [Next]_vars => TypeOK'
<1> SUFFICES ASSUME TypeOK, [Next]_vars PROVE TypeOK'
  BY Zenon
<1> USE DEF TypeOK, master, updates, ring
<1>1. CASE Mastership
  <2>1. CASE SetMaster
    BY <2>1, SizeAssumption, BoundAssumption DEF SetMaster, Empty, Slots
  <2>2. CASE ThreadStart
    BY <2>2, SlotType DEF ThreadStart
  <2>3. CASE UnsetMaster
    BY Zenon, <2>3 DEF UnsetMaster
  <2>4. CASE Destroy
    BY <2>4 DEF Destroy, Empty
  <2>5. CASE SlaveReplay
    BY <2>5 DEF SlaveReplay
  <2> QED BY Zenon, <1>1, <2>1, <2>2, <2>3, <2>4, <2>5 DEF Mastership
<1>2. CASE Clients
  <2>1. CASE Accept
    BY <2>1 DEF Accept
  <2>2. ASSUME NEW n \in Lengths, AllocVersion(n) PROVE TypeOK'
    BY SMTT(30), <2>2, LengthsAssumption DEF AllocVersion, Record
  <2>3. ASSUME NEW r \in pending, ProduceFail(r) PROVE TypeOK'
    BY Zenon, <2>3 DEF ProduceFail
  <2>4. ASSUME NEW r \in pending, Push(r) PROVE TypeOK'
    BY <2>4 DEF Push
  <2> QED BY Zenon, <1>2, <2>1, <2>2, <2>3, <2>4 DEF Clients
<1>3. CASE WaitQueue \/ PopQueue \/ DrainDone
  <2>1. CASE WaitQueue
    BY Zenon, <2>1 DEF WaitQueue
  <2>2. CASE PopQueue
    BY <2>2 DEF PopQueue
  <2>3. CASE DrainDone
    BY Zenon, <2>3 DEF DrainDone
  <2> QED BY Zenon, <1>3, <2>1, <2>2, <2>3
<1>4. ASSUME NEW r \in Record, PushToConsumers(r)
      PROVE  next_data_version' \in Nat /\ consumed' \in Seq(Record)
  BY <1>4 DEF PushToConsumers, Record
<1>5. CASE Drain
  BY Zenon, <1>4, <1>5, SlotType, NullAssumption DEF Drain, Record
<1>6. ASSUME Dealt PROVE rb \in Record /\ chain' \in Seq(Record)
  BY Zenon, <1>6, TailFacts DEF Dealt, rb
<1>7. CASE Repush
  <2>1. PICK k \in 0 .. Len(queue) : queue' = InsertAt(queue, k + 1, rb)
    BY Zenon, <1>7 DEF Repush
  <2>2. rb \in Record /\ chain' \in Seq(Record)
    BY Zenon, <1>6, <1>7 DEF Repush
  <2>3. queue' \in Seq(Record)
    BY Zenon, <2>1, <2>2, InsertFacts
  <2> QED BY Zenon, <1>7, <2>2, <2>3 DEF Repush, NextRecord
<1>8. CASE Drop
  BY Zenon, <1>6, <1>8 DEF Drop, NextRecord
<1>9. CASE PushDirect
  BY Zenon, <1>4, <1>6, <1>9, SlotType DEF PushDirect, NextRecord
<1>10. CASE Store
  BY SMTT(30), <1>6, <1>10, SlotType DEF Store, NextRecord, Record
<1>11. CASE UNCHANGED vars
  BY Zenon, <1>11 DEF vars
<1> QED BY Zenon, <1>1, <1>2, <1>3, <1>5, <1>7, <1>8, <1>9, <1>10, <1>11
        DEF Next, Producer

\* Every variable keeps its type: versions never become negative, every held
\* record is a proper range, the indices stay inside the ring.
THEOREM TypeCorrect == Spec => []TypeOK
BY TypeInit, TypeStep, PTL DEF Spec

-----------------------------------------------------------------------------
(* The invariant is inductive.                                             *)

\* The invariant holds when the server starts.
LEMMA InvInit == Init => IInv
<1> SUFFICES ASSUME Init PROVE IInv
  BY Zenon
<1>1. TypeOK
  BY Zenon, TypeInit
<1>2. Held = {}
  BY Zenon DEF Held, Init, Empty
<1> QED BY <1>1, <1>2, BoundAssumption DEF Init, IInv, ThreadState, Versions,
     AllFresh, PendingApart, QueueApart, ChainApart, RingApart, RingWindow,
     ConsumedInOrder, OnlyEarlyDropped

\* Gaining or losing mastership keeps the invariant.
LEMMA MastershipStep == IInv /\ Mastership => IInv'
<1> SUFFICES ASSUME IInv, Mastership PROVE IInv'
  BY Zenon
<1>0. TypeOK' /\ TypeOK
  BY Zenon, TypeStep DEF IInv, Next
<1> USE DEF master, updates, ring
<1>1. CASE SetMaster
  <2>1. Held' = {} /\ Held = {}
    BY Zenon, <1>1 DEF Held, SetMaster, Empty, IInv, ThreadState
  <2> QED BY Zenon, <1>0, <1>1, <2>1 DEF SetMaster, IInv, ThreadState, Versions,
       AllFresh, Fresh, PendingApart, QueueApart, ChainApart, RingApart,
       RingWindow, ConsumedInOrder, OnlyEarlyDropped
<1>2. CASE ThreadStart
  <2>1. Held' = {} /\ Held = {}
    BY Zenon, <1>2 DEF Held, ThreadStart, IInv, ThreadState
  <2> QED BY SMTT(30), <1>0, <1>2, <2>1 DEF ThreadStart, IInv, ThreadState, Versions,
       AllFresh, Fresh, PendingApart, QueueApart, ChainApart, RingApart,
       RingWindow, ConsumedInOrder, OnlyEarlyDropped, TypeOK, Record
<1>3. CASE UnsetMaster
  <2>1. Held' = Held
    BY Zenon, <1>3 DEF Held, UnsetMaster
  <2> QED BY Zenon, <1>0, <1>3, <2>1 DEF UnsetMaster, IInv, ThreadState, Versions,
       AllFresh, Fresh, PendingApart, QueueApart, ChainApart, RingApart,
       RingWindow, ConsumedInOrder, OnlyEarlyDropped
<1>4. CASE Destroy
  <2>1. Held' = {}
    BY Zenon, <1>4 DEF Held, Destroy, Empty
  <2> QED BY <1>0, <1>4, <2>1 DEF Destroy, IInv, ThreadState, Versions,
       AllFresh, Fresh, PendingApart, QueueApart, ChainApart, RingApart,
       RingWindow, ConsumedInOrder, OnlyEarlyDropped
<1>5. CASE SlaveReplay
  <2>1. Held' = Held
    BY Zenon, <1>5 DEF Held, SlaveReplay
  <2>2. ThreadState' /\ PendingApart' /\ QueueApart' /\ ChainApart' /\ RingApart'
        /\ RingWindow' /\ ConsumedInOrder' /\ OnlyEarlyDropped'
    BY Zenon, <1>5, <2>1 DEF SlaveReplay, IInv, ThreadState, PendingApart, QueueApart,
       ChainApart, RingApart, RingWindow, ConsumedInOrder, OnlyEarlyDropped
  <2>3. /\ data_version \in Nat /\ data_version < MaxVersion
        /\ data_version' = data_version + 1
        /\ UNCHANGED <<pending, queue, chain, entries, next_data_version, base, consumed>>
    BY Zenon, <1>0, <1>5 DEF SlaveReplay, TypeOK
  <2>4. next_data_version \in Nat /\ base \in Nat /\ Versions
    BY Zenon, <1>0 DEF IInv, TypeOK
  <2>5. Versions'
    BY <2>3, <2>4, BoundAssumption DEF Versions
  <2>6. \A r \in Record : Fresh(r) => Fresh(r)'
    BY <2>3 DEF Fresh, Record
  <2>7. /\ \A r \in pending : r \in Record
        /\ \A i \in DOMAIN queue : queue[i] \in Record
        /\ \A i \in DOMAIN chain : chain[i] \in Record
        /\ \A s \in Held : entries[s] \in Record
    BY <1>0 DEF TypeOK, Held
  <2>8. AllFresh'
    BY Zenon, <2>1, <2>3, <2>6, <2>7 DEF IInv, AllFresh
  <2> QED BY Zenon, <1>0, <2>2, <2>5, <2>8 DEF IInv
<1> QED BY Zenon, <1>1, <1>2, <1>3, <1>4, <1>5 DEF Mastership

\* Accepting, executing and pushing an update keeps the invariant.
LEMMA ClientsStep == IInv /\ Clients => IInv'
<1> SUFFICES ASSUME IInv, Clients PROVE IInv'
  BY Zenon
<1>0. TypeOK' /\ TypeOK
  BY Zenon, TypeStep DEF IInv, Next
<1> USE DEF master, updates, ring
<1>1. CASE Accept
  <2>1. Held' = Held
    BY Zenon, <1>1 DEF Held, Accept
  <2> QED BY Zenon, <1>0, <1>1, <2>1 DEF Accept, IInv, ThreadState, Versions,
       AllFresh, Fresh, PendingApart, QueueApart, ChainApart, RingApart,
       RingWindow, ConsumedInOrder, OnlyEarlyDropped
<1>2. ASSUME NEW n \in Lengths, AllocVersion(n) PROVE IInv'
  <2>1. Held' = Held
    BY Zenon, <1>2 DEF Held, AllocVersion
  <2>2. n \in Nat /\ n >= 1
    BY LengthsAssumption
  <2>3. Versions' /\ ThreadState' /\ RingWindow' /\ ConsumedInOrder'
        /\ OnlyEarlyDropped' /\ QueueApart' /\ ChainApart' /\ RingApart'
    <3>1. ThreadState' /\ RingWindow' /\ ConsumedInOrder' /\ OnlyEarlyDropped'
          /\ QueueApart' /\ ChainApart' /\ RingApart'
      BY Zenon, <1>2, <2>1 DEF AllocVersion, IInv, ThreadState, QueueApart, ChainApart,
         RingApart, RingWindow, ConsumedInOrder, OnlyEarlyDropped
    <3>2. /\ data_version \in Nat /\ data_version + n <= MaxVersion
          /\ data_version' = data_version + n
          /\ UNCHANGED <<next_data_version, base, consumed>>
      BY Zenon, <1>0, <1>2 DEF AllocVersion, TypeOK
    <3>3. next_data_version \in Nat /\ base \in Nat /\ Versions
      BY Zenon, <1>0 DEF IInv, TypeOK
    <3>4. Versions'
      BY <2>2, <3>2, <3>3, BoundAssumption DEF Versions
    <3> QED BY Zenon, <3>1, <3>4
  <2> DEFINE new == [first |-> data_version + 1, last |-> data_version + n]
  <2>4. /\ new.first = data_version + 1 /\ new.last = data_version + n
        /\ pending' = pending \cup {new}
        /\ data_version' = data_version + n
        /\ UNCHANGED <<queue, chain, entries, next_data_version, base>>
    BY Zenon, <1>2 DEF AllocVersion
  <2> HIDE DEF new
  <2>5. \A r \in Record : Fresh(r) => Fresh(r)' /\ Disjoint(r, new) /\ Disjoint(new, r)
    BY SMTT(30), <1>0, <2>2, <2>4 DEF Fresh, Disjoint, Record, TypeOK
  <2>6. \A r : r = new => Fresh(r)'
    BY <1>0, <2>2, <2>4 DEF IInv, Versions, Fresh, TypeOK
  <2>7. /\ \A r \in pending : r \in Record
        /\ \A i \in DOMAIN queue : queue[i] \in Record
        /\ \A i \in DOMAIN chain : chain[i] \in Record
        /\ \A s \in Held : entries[s] \in Record
    BY SMTT(30), <1>0 DEF TypeOK, Held
  <2>8. AllFresh'
    BY Zenon, <2>1, <2>4, <2>5, <2>6, <2>7 DEF IInv, AllFresh
  <2>9. PendingApart'
    BY Zenon, <2>1, <2>4, <2>5, <2>7 DEF IInv, AllFresh, PendingApart
  <2> QED BY Zenon, <1>0, <2>3, <2>8, <2>9 DEF IInv
<1>3. ASSUME NEW r \in pending, ProduceFail(r) PROVE IInv'
  <2>1. Held' = Held
    BY Zenon, <1>3 DEF Held, ProduceFail
  <2> QED BY Zenon, <1>0, <1>3, <2>1 DEF ProduceFail, IInv, ThreadState, Versions,
       AllFresh, Fresh, PendingApart, QueueApart, ChainApart, RingApart,
       RingWindow, ConsumedInOrder, OnlyEarlyDropped
<1>4. ASSUME NEW r \in pending, Push(r) PROVE IInv'
  <2>1. Held' = Held
    BY Zenon, <1>4 DEF Held, Push
  <2>2. /\ DOMAIN queue' = 1 .. Len(queue) + 1 /\ DOMAIN queue = 1 .. Len(queue)
        /\ queue'[Len(queue) + 1] = r
        /\ \A i \in DOMAIN queue : queue'[i] = queue[i]
        /\ r \in Record /\ Len(queue) \in Nat
    BY <1>0, <1>4 DEF Push, TypeOK
  <2>3. Versions' /\ ThreadState' /\ RingWindow' /\ ConsumedInOrder'
        /\ OnlyEarlyDropped' /\ ChainApart' /\ RingApart'
    BY Zenon, <1>0, <1>4, <2>1 DEF Push, IInv, ThreadState, Versions, ChainApart,
       RingApart, RingWindow, ConsumedInOrder, OnlyEarlyDropped
  <2>4. AllFresh'
    BY SMTT(30), <1>4, <2>1, <2>2 DEF Push, IInv, AllFresh, Fresh
  <2>5. PendingApart'
    <3>1. pending' = pending \ {r} /\ chain' = chain /\ entries' = entries
      BY Zenon, <1>4 DEF Push
    <3>2. PendingApart
      BY Zenon DEF IInv
    <3>3. \A p \in pending', i \in DOMAIN queue' : Disjoint(p, queue'[i])
      <4> SUFFICES ASSUME NEW p \in pending', NEW i \in DOMAIN queue'
                   PROVE  Disjoint(p, queue'[i])
        BY Zenon
      <4>1. p \in pending /\ p # r
        BY Zenon, <3>1
      <4>2. CASE i = Len(queue) + 1
        BY Zenon, <2>2, <3>2, <4>1, <4>2 DEF PendingApart
      <4>3. CASE i \in DOMAIN queue
        BY Zenon, <2>2, <3>2, <4>1, <4>3 DEF PendingApart
      <4> QED BY <2>2, <4>2, <4>3
    <3> QED BY Zenon, <2>1, <3>1, <3>2, <3>3 DEF PendingApart, Disjoint
  <2>6. QueueApart'
    BY SMTT(30), <1>4, <2>1, <2>2 DEF Push, IInv, PendingApart, QueueApart, Disjoint
  <2> QED BY Zenon, <1>0, <2>3, <2>4, <2>5, <2>6 DEF IInv
<1> QED BY Zenon, <1>1, <1>2, <1>3, <1>4 DEF Clients

-----------------------------------------------------------------------------
\* The record the producer thread is at leaves the chain.
LEMMA DealtFacts ==
    ASSUME IInv, Dealt
    PROVE  /\ rb \in Record /\ chain' \in Seq(Record)
           /\ Fresh(rb)
           /\ \A i \in DOMAIN chain' : \E j \in DOMAIN chain :
                  j # 1 /\ chain'[i] = chain[j]
           /\ \A i \in DOMAIN chain' : Disjoint(rb, chain'[i])
           /\ \A i \in DOMAIN queue : Disjoint(rb, queue[i])
           /\ \A s \in Held : Disjoint(rb, entries[s])
           /\ \A r \in pending : Disjoint(r, rb)
           /\ \A i, j \in DOMAIN chain' : i # j => Disjoint(chain'[i], chain'[j])
           /\ NextRecord = "deal_record" => chain' # <<>>
           /\ NextRecord = "deal_queue" => chain' = <<>>
           /\ NextRecord \in {"deal_record", "deal_queue"}
<1> USE DEF IInv, TypeOK
<1>1. chain \in Seq(Record) /\ chain # <<>> /\ chain' = Tail(chain) /\ rb = Head(chain)
  BY Zenon DEF Dealt, rb
<1>2. /\ rb \in Record /\ rb = chain[1] /\ 1 \in DOMAIN chain
      /\ chain' \in Seq(Record)
      /\ \A i \in DOMAIN chain' : /\ chain'[i] = chain[i + 1]
                                  /\ i + 1 \in DOMAIN chain /\ i + 1 # 1
      /\ (Len(chain) > 1) <=> (chain' # <<>>)
  BY Zenon, <1>1, TailFacts
<1>3. DOMAIN chain' \subseteq Int
  BY <1>2
<1>4. \A i, j \in DOMAIN chain' : i # j => Disjoint(chain'[i], chain'[j])
  BY SMTT(30), <1>2, <1>3 DEF ChainApart
<1>5. \A i \in DOMAIN chain' : Disjoint(rb, chain'[i])
  BY Zenon, <1>2 DEF ChainApart
<1>6. \A i \in DOMAIN queue : Disjoint(rb, queue[i])
  BY ZenonT(60), <1>2 DEF QueueApart, Disjoint
<1> QED BY Zenon, <1>2, <1>4, <1>5, <1>6 DEF ChainApart, PendingApart, AllFresh, NextRecord

\* The record at the awaited version goes to the consumers.
LEMMA PushFacts ==
    ASSUME IInv, NEW r \in Record, PushToConsumers(r),
           r.first = next_data_version, r.last <= data_version,
           data_version' = data_version, base' = base
    PROVE  /\ next_data_version' = r.last + 1
           /\ Versions' /\ ConsumedInOrder'
           /\ \A s \in Record : Fresh(s) /\ Disjoint(s, r) => Fresh(s)'
<1> USE DEF IInv
<1>1. next_data_version' = r.last + 1 /\ consumed' = Append(consumed, r)
  BY DEF PushToConsumers, TypeOK, Record
<1>2. /\ DOMAIN consumed' = 1 .. Len(consumed) + 1
      /\ DOMAIN consumed = 1 .. Len(consumed) /\ Len(consumed) \in Nat
      /\ \A i \in DOMAIN consumed : consumed'[i] = consumed[i] /\ consumed[i] \in Record
      /\ consumed'[Len(consumed) + 1] = r
  BY <1>1 DEF TypeOK
<1>3. Versions'
  BY <1>1, <1>2 DEF Versions, TypeOK, Record
<1>4. ConsumedInOrder'
  <2>1. /\ ConsumedInOrder /\ r.first \in Nat
        /\ \A i \in DOMAIN consumed : consumed[i].last < r.first
    BY Zenon DEF Versions, Record
  <2> HIDE DEF IInv
  <2> QED BY <1>2, <2>1 DEF ConsumedInOrder
<1>5. \A s \in Record : Fresh(s) /\ Disjoint(s, r) => Fresh(s)'
  BY <1>1 DEF Fresh, Disjoint, TypeOK, Record
<1> QED BY Zenon, <1>1, <1>3, <1>4, <1>5

\* Handing r over moves the window forward; a held record stays inside it.
LEMMA WindowFacts ==
    ASSUME NEW e \in Record, NEW r \in Record, Disjoint(e, r),
           e.first >= r.first, e.first < r.first + Size
    PROVE  e.first >= r.last + 1 /\ e.first < (r.last + 1) + Size
BY SizeAssumption DEF Disjoint, Record

\* Steps that only move the producer thread or its chain keep the invariant.
LEMMA QueueStep == IInv /\ (WaitQueue \/ PopQueue \/ DrainDone) => IInv'
<1> SUFFICES ASSUME IInv, WaitQueue \/ PopQueue \/ DrainDone PROVE IInv'
  BY Zenon
<1>0. TypeOK' /\ TypeOK
  BY Zenon, TypeStep DEF IInv, Next, Producer
<1> USE DEF master, updates, ring
<1>1. CASE WaitQueue
  <2>1. Held' = Held
    BY Zenon, <1>1 DEF Held, WaitQueue
  <2> QED BY Zenon, <1>0, <1>1, <2>1 DEF WaitQueue, IInv, ThreadState, Versions,
       AllFresh, Fresh, PendingApart, QueueApart, ChainApart, RingApart,
       RingWindow, ConsumedInOrder, OnlyEarlyDropped
<1>2. CASE PopQueue
  <2>1. Held' = Held
    BY Zenon, <1>2 DEF Held, PopQueue
  <2>2. queue' = <<>> /\ DOMAIN queue' = {} /\ chain' = queue /\ chain = <<>>
    BY <1>2 DEF PopQueue, IInv, ThreadState
  <2> QED BY Zenon, <1>0, <1>2, <2>1, <2>2 DEF PopQueue, IInv, ThreadState, Versions,
       AllFresh, Fresh, PendingApart, QueueApart, ChainApart, RingApart,
       RingWindow, ConsumedInOrder, OnlyEarlyDropped
<1>3. CASE DrainDone
  <2>1. Held' = Held
    BY Zenon, <1>3 DEF Held, DrainDone
  <2> QED BY ZenonT(20), <1>0, <1>3, <2>1 DEF DrainDone, IInv, ThreadState, Versions,
       AllFresh, Fresh, PendingApart, QueueApart, ChainApart, RingApart,
       RingWindow, ConsumedInOrder, OnlyEarlyDropped
<1> QED BY Zenon, <1>1, <1>2, <1>3

\* Putting a record back on the queue keeps the invariant.
LEMMA RepushStep == IInv /\ Repush => IInv'
<1> SUFFICES ASSUME IInv, Repush PROVE IInv'
  BY Zenon
<1>0. TypeOK' /\ TypeOK
  BY Zenon, TypeStep DEF IInv, Next, Producer
<1>1. Dealt /\ pc' = NextRecord /\ pc = "deal_record"
      /\ UNCHANGED <<phase, term, data_version, pending, entries, start, end,
                     next_data_version, base, consumed, dropped>>
  BY Zenon DEF Repush, Dealt, master, updates, ring
<1>2. Held' = Held
  BY Zenon, <1>1 DEF Held
<1>3. PICK k \in 0 .. Len(queue) : queue' = InsertAt(queue, k + 1, rb)
  BY Zenon DEF Repush
<1>4. /\ rb \in Record /\ Len(queue) \in Nat
      /\ DOMAIN queue = 1 .. Len(queue) /\ DOMAIN queue' = 1 .. Len(queue) + 1
      /\ \A i \in 1 .. k : queue'[i] = queue[i]
      /\ queue'[k + 1] = rb
      /\ \A i \in k + 2 .. Len(queue) + 1 : queue'[i] = queue[i - 1]
  <2>1. rb \in Record /\ queue \in Seq(Record)
    BY Zenon, <1>0, <1>1, DealtFacts DEF TypeOK
  <2>2. /\ queue' \in Seq(Record) /\ Len(queue') = Len(queue) + 1
        /\ \A i \in 1 .. k : queue'[i] = queue[i]
        /\ queue'[k + 1] = rb
        /\ \A i \in k + 2 .. Len(queue) + 1 : queue'[i] = queue[i - 1]
    BY ZenonT(60), <1>3, <2>1, InsertFacts
  <2> QED BY <2>1, <2>2
<1>5. \A i \in DOMAIN queue' :
          \/ i = k + 1 /\ queue'[i] = rb
          \/ \E j \in DOMAIN queue : queue'[i] = queue[j]
  <2> TAKE i \in DOMAIN queue'
  <2>1. CASE i <= k
    BY <1>4, <2>1
  <2>2. CASE i = k + 1
    BY Zenon, <1>4, <2>2
  <2>3. CASE i > k + 1
    <3>1. queue'[i] = queue[i - 1] /\ i - 1 \in DOMAIN queue
      BY <1>4, <2>3
    <3> QED BY Zenon, <3>1
  <2> QED BY <1>4, <2>1, <2>2, <2>3
<1>6. ThreadState' /\ Versions' /\ RingApart' /\ RingWindow'
      /\ ConsumedInOrder' /\ OnlyEarlyDropped'
  BY Zenon, <1>1, <1>2, DealtFacts DEF IInv, ThreadState, Versions, RingApart,
     RingWindow, ConsumedInOrder, OnlyEarlyDropped
<1>7. AllFresh'
  BY ZenonT(60), <1>1, <1>2, <1>5, DealtFacts DEF IInv, AllFresh, Fresh
<1>8. ChainApart'
  BY ZenonT(60), <1>1, <1>2, DealtFacts DEF IInv, ChainApart
<1>9. PendingApart'
  BY ZenonT(60), <1>1, <1>2, <1>5, DealtFacts DEF IInv, PendingApart
<1>10. QueueApart'
  <2>1. ASSUME NEW i \in DOMAIN queue', NEW j \in DOMAIN queue', i # j
        PROVE  Disjoint(queue'[i], queue'[j])
    <3> DEFINE f(x) == IF x <= k THEN x ELSE x - 1
    <3>1. ASSUME NEW x \in DOMAIN queue', x # k + 1
          PROVE  f(x) \in DOMAIN queue /\ queue'[x] = queue[f(x)]
      <4>1. x \in 1 .. Len(queue) + 1 /\ k \in Nat /\ Len(queue) \in Nat
        BY <1>4, <3>1
      <4>2. CASE x <= k
        <5>1. x \in 1 .. k /\ x \in 1 .. Len(queue)
          BY <4>1, <4>2
        <5> QED BY Zenon, <1>4, <4>2, <5>1
      <4>3. CASE ~(x <= k)
        <5>1. x \in k + 2 .. Len(queue) + 1 /\ x - 1 \in 1 .. Len(queue)
          BY <3>1, <4>1, <4>3
        <5> QED BY Zenon, <1>4, <4>3, <5>1
      <4> QED BY Zenon, <4>2, <4>3
    <3>2. CASE i = k + 1
      BY ZenonT(20), <1>1, <1>4, <2>1, <3>1, <3>2, DealtFacts
    <3>3. CASE j = k + 1
      BY ZenonT(60), <1>1, <1>4, <2>1, <3>1, <3>3, DealtFacts DEF Disjoint
    <3>4. CASE i # k + 1 /\ j # k + 1
      <4>1. f(i) # f(j)
        BY <1>4, <2>1, <3>4
      <4> HIDE DEF f
      <4> QED BY Zenon, <2>1, <3>1, <3>4, <4>1 DEF IInv, QueueApart
    <3> QED BY Zenon, <3>2, <3>3, <3>4
  <2>2. \A i \in DOMAIN queue', j \in DOMAIN chain' : Disjoint(queue'[i], chain'[j])
    BY ZenonT(20), <1>1, <1>5, DealtFacts DEF IInv, QueueApart
  <2>3. \A i \in DOMAIN queue', s \in Held' : Disjoint(queue'[i], entries'[s])
    BY ZenonT(20), <1>1, <1>2, <1>5, DealtFacts DEF IInv, QueueApart
  <2> QED BY Zenon, <2>1, <2>2, <2>3 DEF QueueApart
<1> QED BY Zenon, <1>0, <1>6, <1>7, <1>8, <1>9, <1>10 DEF IInv

\* Refusing a record whose version has passed keeps the invariant.
LEMMA DropStep == IInv /\ Drop => IInv'
<1> SUFFICES ASSUME IInv, Drop PROVE IInv'
  BY Zenon
<1>0. TypeOK' /\ TypeOK
  BY Zenon, TypeStep DEF IInv, Next, Producer
<1>1. Dealt /\ pc' = NextRecord /\ pc = "deal_record" /\ TooSmall(rb.first)
      /\ dropped' = dropped \cup {rb}
      /\ UNCHANGED <<phase, term, data_version, pending, queue, entries, start,
                     end, next_data_version, base, consumed>>
  BY Zenon DEF Drop, Dealt, master, updates, ring
<1>2. Held' = Held
  BY Zenon, <1>1 DEF Held
<1>3. rb.last < base
  BY <1>0, <1>1, DealtFacts DEF TooSmall, Fresh, TypeOK, Record
<1>4. ThreadState' /\ Versions' /\ RingApart' /\ RingWindow'
      /\ ConsumedInOrder' /\ OnlyEarlyDropped'
  BY ZenonT(20), <1>1, <1>2, <1>3, DealtFacts DEF IInv, ThreadState, Versions, RingApart,
     RingWindow, ConsumedInOrder, OnlyEarlyDropped
<1>5. AllFresh' /\ PendingApart' /\ QueueApart' /\ ChainApart'
  BY ZenonT(20), <1>1, <1>2, DealtFacts DEF IInv, AllFresh, Fresh, PendingApart,
     QueueApart, ChainApart
<1> QED BY Zenon, <1>0, <1>4, <1>5 DEF IInv

\* The two tests of deal_record leave one record for the slot at ring.start.
LEMMA StartSlot ==
    ASSUME IInv, pc # "idle", NEW r \in Record, Slot(r.first) = start,
           r.first >= next_data_version, r.first < next_data_version + Size
    PROVE  r.first = next_data_version
<1>1. Slot(next_data_version) = Slot(r.first)
  BY Zenon DEF IInv, ThreadState, TypeOK
<1>2. next_data_version \in Nat /\ r.first \in Nat
  BY Zenon DEF IInv, TypeOK, Record
<1> QED BY Zenon, <1>1, <1>2, SlotUnique

\* Handing over the awaited record keeps the invariant.
LEMMA PushDirectStep == IInv /\ PushDirect => IInv'
<1> SUFFICES ASSUME IInv, PushDirect PROVE IInv'
  BY Zenon
<1>0. TypeOK' /\ TypeOK
  BY Zenon, TypeStep DEF IInv, Next, Producer
<1>1. /\ Dealt /\ pc = "deal_record" /\ pc' \in {NextRecord, "drain"}
      /\ ~TooLarge(rb.first) /\ ~TooSmall(rb.first) /\ Slot(rb.first) = start
      /\ PushToConsumers(rb) /\ start' = Slot(next_data_version')
      /\ UNCHANGED <<phase, term, data_version, pending, queue, entries, base,
                     dropped>>
  BY Zenon DEF PushDirect, Dealt, master, updates
<1>2. Held' = Held
  BY Zenon, <1>1 DEF Held
<1>3. rb \in Record /\ rb.last <= data_version
  BY Zenon, <1>1, DealtFacts DEF Fresh
<1>4. rb.first = next_data_version
  <2>1. rb.first >= next_data_version /\ rb.first < next_data_version + Size
    <3>1. next_data_version \in Nat /\ rb.first \in Nat
      BY Zenon, <1>0, <1>3 DEF TypeOK, Record
    <3> QED BY <1>1, <3>1, SizeAssumption DEF TooLarge, TooSmall
  <2> QED BY Zenon, <1>1, <1>3, <2>1, StartSlot
<1>5. /\ next_data_version' = rb.last + 1
      /\ Versions' /\ ConsumedInOrder'
      /\ \A s \in Record : Fresh(s) /\ Disjoint(s, rb) => Fresh(s)'
  BY ZenonT(20), <1>1, <1>3, <1>4, PushFacts
<1>6. /\ \A r \in pending : r \in Record /\ Disjoint(r, rb)
      /\ \A i \in DOMAIN queue : queue[i] \in Record /\ Disjoint(queue[i], rb)
      /\ \A i \in DOMAIN chain' : chain'[i] \in Record /\ Disjoint(chain'[i], rb)
      /\ \A s \in Held : entries[s] \in Record /\ Disjoint(entries[s], rb)
  <2>1. /\ \A i \in DOMAIN queue : queue[i] \in Record
        /\ \A i \in DOMAIN chain' : chain'[i] \in Record
        /\ \A s \in Held : entries[s] \in Record
    BY SMTT(30), <1>0 DEF TypeOK, Held
  <2> QED BY ZenonT(20), <1>0, <1>1, <2>1, DealtFacts DEF Disjoint, TypeOK
<1>7. ThreadState' /\ OnlyEarlyDropped' /\ RingApart'
  BY ZenonT(60), <1>1, <1>2, DealtFacts DEF IInv, ThreadState, OnlyEarlyDropped, RingApart
<1>8. AllFresh'
  <2>1. \A i \in DOMAIN chain' : Fresh(chain'[i])
    BY ZenonT(20), <1>1, DealtFacts DEF IInv, AllFresh
  <2>2. \A i \in DOMAIN chain' : chain'[i] \in Record /\ Disjoint(chain'[i], rb)
    BY Zenon, <1>6
  <2>3. \A x \in Record : Fresh(x) /\ Disjoint(x, rb) => Fresh(x)'
    BY Zenon, <1>5
  <2>4. \A i \in DOMAIN chain' : \A x : x = chain'[i] => Fresh(x)'
    BY Zenon, <2>1, <2>2, <2>3
  <2>5. /\ \A r \in pending : Fresh(r)'
        /\ \A i \in DOMAIN queue : \A x : x = queue[i] => Fresh(x)'
        /\ \A s \in Held : \A x : x = entries[s] => Fresh(x)'
    BY ZenonT(30), <1>6, <2>3 DEF IInv, AllFresh
  <2>6. UNCHANGED <<pending, queue, entries, Held>>
    BY Zenon, <1>1, <1>2
  <2> QED BY ZenonT(30), <2>4, <2>5, <2>6 DEF AllFresh, Fresh
<1>9. RingWindow'
  <2> SUFFICES ASSUME NEW s \in Held
               PROVE  /\ Slot(entries[s].first) = s
                      /\ entries[s].first >= next_data_version'
                      /\ entries[s].first < next_data_version' + Size
    BY Zenon, <1>1, <1>2 DEF RingWindow
  <2>1. /\ Slot(entries[s].first) = s
        /\ entries[s].first >= next_data_version
        /\ entries[s].first < next_data_version + Size
    BY Zenon DEF IInv, RingWindow
  <2>2. entries[s] \in Record /\ Disjoint(entries[s], rb)
    BY Zenon, <1>6
  <2>3. /\ entries[s].first >= rb.last + 1
        /\ entries[s].first < (rb.last + 1) + Size
    BY Zenon, <1>3, <1>4, <2>1, <2>2, WindowFacts
  <2>4. next_data_version' = rb.last + 1
    BY Zenon, <1>5
  <2> QED BY ZenonT(30), <2>1, <2>3, <2>4
<1>10. PendingApart' /\ QueueApart' /\ ChainApart'
  BY ZenonT(60), <1>1, <1>2, DealtFacts DEF IInv, PendingApart, QueueApart, ChainApart
<1> QED BY Zenon, <1>0, <1>5, <1>7, <1>8, <1>9, <1>10 DEF IInv

\* Handing over a record of the ring keeps the invariant.
LEMMA DrainStep == IInv /\ Drain => IInv'
<1> SUFFICES ASSUME IInv, Drain PROVE IInv'
  BY Zenon
<1>0. TypeOK' /\ TypeOK
  BY Zenon, TypeStep DEF IInv, Next, Producer
<1> DEFINE p == entries[start]
<1>1. /\ pc = "drain" /\ start \in Held /\ PushToConsumers(p)
      /\ entries' = [entries EXCEPT ![start] = NULL]
      /\ start' = Slot(next_data_version')
      /\ UNCHANGED <<phase, term, data_version, pending, queue, chain, pc, base,
                     dropped>>
  BY Zenon, <1>0 DEF Drain, master, updates, Held, TypeOK
<1>2. /\ Held' = Held \ {start}
      /\ \A s \in Held' : entries'[s] = entries[s] /\ s # start
  BY Zenon, <1>0, <1>1 DEF Held, TypeOK
<1>3. p \in Record /\ p.last <= data_version
  BY Zenon, <1>0, <1>1 DEF TypeOK, Held, IInv, AllFresh, Fresh
<1>4. p.first = next_data_version
  <2>1. /\ Slot(p.first) = start /\ p.first >= next_data_version
        /\ p.first < next_data_version + Size
    BY Zenon, <1>1 DEF IInv, RingWindow
  <2> QED BY Zenon, <1>1, <1>3, <2>1, StartSlot
<1>5. /\ next_data_version' = p.last + 1
      /\ Versions' /\ ConsumedInOrder'
      /\ \A s \in Record : Fresh(s) /\ Disjoint(s, p) => Fresh(s)'
  BY Zenon, <1>1, <1>3, <1>4, PushFacts
<1>6. /\ \A r \in pending : r \in Record /\ Disjoint(r, p)
      /\ \A i \in DOMAIN queue : queue[i] \in Record /\ Disjoint(queue[i], p)
      /\ \A i \in DOMAIN chain : chain[i] \in Record /\ Disjoint(chain[i], p)
      /\ \A s \in Held' : entries[s] \in Record /\ Disjoint(entries[s], p)
  <2>1. /\ \A i \in DOMAIN queue : queue[i] \in Record
        /\ \A i \in DOMAIN chain : chain[i] \in Record
        /\ \A s \in Held' : entries[s] \in Record
    BY <1>0, <1>2 DEF TypeOK, Held
  <2> QED BY ZenonT(60), <1>0, <1>1, <1>2, <2>1 DEF IInv, PendingApart, QueueApart,
       ChainApart, RingApart, TypeOK
<1> HIDE DEF p
<1>7. ThreadState'
  BY Zenon, <1>1, <1>2 DEF IInv, ThreadState
<1>8. AllFresh'
  BY Zenon, <1>1, <1>2, <1>5, <1>6 DEF IInv, AllFresh
<1>9. RingWindow'
  <2> SUFFICES ASSUME NEW s \in Held'
               PROVE  /\ Slot(entries[s].first) = s
                      /\ entries[s].first >= next_data_version'
                      /\ entries[s].first < next_data_version' + Size
    BY Zenon, <1>2 DEF RingWindow
  <2>1. /\ Slot(entries[s].first) = s
        /\ entries[s].first >= next_data_version
        /\ entries[s].first < next_data_version + Size
    BY Zenon, <1>2 DEF IInv, RingWindow
  <2>2. entries[s] \in Record /\ Disjoint(entries[s], p)
    BY Zenon, <1>6
  <2>3. /\ entries[s].first >= p.last + 1
        /\ entries[s].first < (p.last + 1) + Size
    BY Zenon, <1>3, <1>4, <2>1, <2>2, WindowFacts
  <2> QED BY Zenon, <1>5, <2>1, <2>3
<1>10. PendingApart' /\ QueueApart' /\ ChainApart' /\ RingApart' /\ OnlyEarlyDropped'
  <2>1. Held' \subseteq Held
    BY Zenon, <1>2
  <2>2. PendingApart'
    BY Zenon, <1>1, <1>2, <2>1 DEF IInv, PendingApart
  <2>3. QueueApart'
    BY Zenon, <1>1, <1>2, <2>1 DEF IInv, QueueApart
  <2>4. ChainApart'
    BY Zenon, <1>1, <1>2, <2>1 DEF IInv, ChainApart
  <2>5. RingApart' /\ OnlyEarlyDropped'
    BY Zenon, <1>1, <1>2, <2>1 DEF IInv, RingApart, OnlyEarlyDropped
  <2> QED BY Zenon, <2>2, <2>3, <2>4, <2>5
<1> QED BY Zenon, <1>0, <1>5, <1>7, <1>8, <1>9, <1>10 DEF IInv

\* Keeping an early record in the ring keeps the invariant.
LEMMA StoreStep == IInv /\ Store => IInv'
<1> SUFFICES ASSUME IInv, Store PROVE IInv'
  BY Zenon
<1>0. TypeOK' /\ TypeOK
  BY Zenon, TypeStep DEF IInv, Next, Producer
<1> DEFINE c == Slot(rb.first)
<1>1. /\ Dealt /\ pc = "deal_record" /\ pc' = NextRecord
      /\ ~TooLarge(rb.first) /\ ~TooSmall(rb.first)
      /\ entries' = [entries EXCEPT ![c] = rb]
      /\ UNCHANGED <<phase, term, data_version, pending, queue, start,
                     next_data_version, base, consumed, dropped>>
  BY Zenon DEF Store, Dealt, master, updates
<1>2. /\ rb \in Record /\ c \in Slots
      /\ rb.first >= next_data_version /\ rb.first < next_data_version + Size
  <2>1. rb \in Record
    BY Zenon, <1>1, DealtFacts
  <2> QED BY <1>0, <1>1, <2>1, SlotType, SizeAssumption
       DEF TooLarge, TooSmall, TypeOK, Record
<1>3. /\ Held' \subseteq Held \cup {c} /\ entries'[c] = rb
      /\ \A s \in Held' : s # c => entries'[s] = entries[s] /\ s \in Held
  BY Zenon, <1>0, <1>1, <1>2 DEF Held, TypeOK
<1>4. Slot(rb.first) = c
  BY Zenon
<1> HIDE DEF c
<1>5. phase \in {"running", "stopping"}
  BY Zenon, <1>0, <1>1 DEF IInv, ThreadState, TypeOK
<1>6. ThreadState' /\ Versions' /\ ConsumedInOrder' /\ OnlyEarlyDropped'
  BY ZenonT(60), <1>1, <1>5, DealtFacts DEF IInv, ThreadState, Versions, ConsumedInOrder,
     OnlyEarlyDropped
<1>7. AllFresh'
  <2>1. Fresh(rb) /\ \A i \in DOMAIN chain' : Fresh(chain'[i])
    BY ZenonT(20), <1>1, DealtFacts DEF IInv, AllFresh
  <2>2. \A x : Fresh(x) => Fresh(x)'
    BY ZenonT(20), <1>1 DEF Fresh
  <2>3. \A s \in Held' : Fresh(entries'[s])
    BY Zenon, <1>3, <2>1 DEF IInv, AllFresh
  <2>4. \A i \in DOMAIN chain' : \A x : x = chain'[i] => Fresh(x)'
    BY Zenon, <2>1, <2>2
  <2>5. \A s \in Held' : \A x : x = entries'[s] => Fresh(x)'
    BY Zenon, <2>2, <2>3
  <2> QED BY ZenonT(60), <1>1, <2>2, <2>4, <2>5 DEF IInv, AllFresh
<1>8. RingWindow'
  BY Zenon, <1>1, <1>2, <1>3, <1>4 DEF IInv, RingWindow
<1>9. RingApart'
  <2>1. RingApart /\ \A s \in Held : Disjoint(rb, entries[s])
    BY Zenon, <1>1, DealtFacts DEF IInv
  <2>2. \A r, s : Disjoint(r, s) => Disjoint(s, r)
    BY ZenonT(20) DEF Disjoint
  <2> QED BY Zenon, <1>3, <2>1, <2>2 DEF RingApart
<1>10. ChainApart'
  BY Zenon, <1>1, <1>3, DealtFacts DEF IInv, ChainApart, Disjoint
<1>11. QueueApart'
  BY ZenonT(60), <1>1, <1>3, DealtFacts DEF IInv, QueueApart, Disjoint
<1>12. PendingApart'
  BY ZenonT(60), <1>1, <1>3, DealtFacts DEF IInv, PendingApart
<1> QED BY Zenon, <1>0, <1>6, <1>7, <1>8, <1>9, <1>10, <1>11, <1>12 DEF IInv

\* Every step keeps the invariant.
LEMMA InvStep == IInv /\ [Next]_vars => IInv'
<1> SUFFICES ASSUME IInv, [Next]_vars PROVE IInv'
  BY Zenon
<1>1. CASE UNCHANGED vars
  BY ZenonT(60), <1>1 DEF vars, master, updates, ring, IInv, TypeOK, ThreadState, Versions,
     AllFresh, Fresh, PendingApart, QueueApart, ChainApart, RingApart,
     RingWindow, ConsumedInOrder, OnlyEarlyDropped, Held
<1> QED BY Zenon, <1>1, MastershipStep, ClientsStep, QueueStep, RepushStep, DropStep,
     PushDirectStep, DrainStep, StoreStep DEF Next, Producer

\* The inductive invariant: a version is held in one place only, what the
\* producer holds lies ahead of the awaited version, and a record of the ring
\* lies within Size of it, so that its slot belongs to it alone.
THEOREM Inductive == Spec => []IInv
BY InvInit, InvStep, PTL DEF Spec

\* Over all terms the slaves' queues get the versions in strictly increasing
\* order, whatever the order in which the records reach the producer.
THEOREM InOrder == Spec => []ConsumedInOrder
<1>1. IInv => ConsumedInOrder
  BY DEF IInv
<1> QED BY <1>1, Inductive, PTL

\* deal_record never refuses a record whose versions were allocated after the
\* producer thread of the term began.
THEOREM EarlyOnly == Spec => []OnlyEarlyDropped
<1>1. IInv => OnlyEarlyDropped
  BY DEF IInv
<1> QED BY <1>1, Inductive, PTL

-----------------------------------------------------------------------------
(* The producer implements VersionStream.                                  *)

\* A held record's range is one of the abstract stream's ranges.
LEMMA RangeInStream ==
    ASSUME IInv, NEW r \in Record, r.last <= data_version
    PROVE  r \in Stream!VersionRange
<1>1. /\ r \in [first : Nat, last : Nat] /\ r.first <= r.last
      /\ r.last <= MaxVersion
  BY BoundAssumption DEF IInv, Versions, TypeOK, Record
<1>2. r.first \in 0 .. MaxVersion + 1 /\ r.last \in 0 .. MaxVersion + 1
  BY <1>1, BoundAssumption
<1> QED BY Zenon, <1>1, <1>2 DEF Stream!VersionRange

\* Every step is a step of the abstract stream or leaves it unchanged.
LEMMA StreamStep == IInv /\ [Next]_vars => [Stream!Next]_Stream!vars
<1> SUFFICES ASSUME IInv, [Next]_vars,
                    ~UNCHANGED <<next_data_version, consumed>>
             PROVE  Stream!Next
  BY Zenon DEF Stream!vars
<1>0. TypeOK
  BY Zenon DEF IInv
<1>1. CASE ThreadStart
  <2>1. next_data_version' = data_version + 1 /\ consumed' = consumed
    BY Zenon, <1>1 DEF ThreadStart
  <2>2. /\ data_version + 1 \in 0 .. MaxVersion + 1
        /\ next_data_version <= data_version + 1
    <3>1. Versions /\ data_version \in Nat
      BY Zenon, <1>0 DEF IInv, TypeOK
    <3> QED BY <3>1, BoundAssumption DEF Versions
  <2> QED BY Zenon, <2>1, <2>2 DEF Stream!Next, Stream!NewTerm
<1>2. ASSUME NEW r \in Record, PushToConsumers(r),
             r.first = next_data_version, r.last <= data_version
      PROVE  Stream!Next
  <2>1. next_data_version' = r.last + 1 /\ consumed' = Append(consumed, r)
    BY <1>0, <1>2 DEF PushToConsumers, TypeOK, Record
  <2>2. Stream!Deliver(r)
    BY Zenon, <1>2, <2>1 DEF Stream!Deliver
  <2> QED BY Zenon, <1>2, <2>2, RangeInStream DEF Stream!Next
<1>3. CASE PushDirect
  <2>1. /\ Dealt /\ pc = "deal_record" /\ Slot(rb.first) = start
        /\ ~TooLarge(rb.first) /\ ~TooSmall(rb.first) /\ PushToConsumers(rb)
    BY Zenon, <1>3 DEF PushDirect, Dealt
  <2>2. rb \in Record /\ rb.last <= data_version
    BY Zenon, <2>1, DealtFacts DEF Fresh
  <2>3. rb.first >= next_data_version /\ rb.first < next_data_version + Size
    BY <1>0, <2>1, <2>2, SizeAssumption DEF TooLarge, TooSmall, TypeOK, Record
  <2>4. rb.first = next_data_version
    BY Zenon, <2>1, <2>2, <2>3, StartSlot
  <2> QED BY Zenon, <1>2, <2>1, <2>2, <2>4
<1>4. CASE Drain
  <2>1. pc = "drain" /\ start \in Held /\ PushToConsumers(entries[start])
    BY ZenonT(20), <1>0, <1>4 DEF Drain, Held, TypeOK
  <2>2. entries[start] \in Record /\ entries[start].last <= data_version
    BY Zenon, <1>0, <2>1 DEF TypeOK, Held, IInv, AllFresh, Fresh
  <2>3. /\ Slot(entries[start].first) = start
        /\ entries[start].first >= next_data_version
        /\ entries[start].first < next_data_version + Size
    BY ZenonT(20), <2>1 DEF IInv, RingWindow
  <2>4. entries[start].first = next_data_version
    BY ZenonT(20), <2>1, <2>2, <2>3, StartSlot
  <2> QED BY Zenon, <1>2, <2>1, <2>2, <2>4
<1>5. ASSUME [Next]_vars, ~ThreadStart, ~PushDirect, ~Drain
      PROVE  UNCHANGED <<next_data_version, consumed>>
  BY ZenonT(60), <1>5 DEF Next, Mastership, Clients, Producer, SetMaster, UnsetMaster,
     Destroy, SlaveReplay, Accept, AllocVersion, ProduceFail, Push, WaitQueue,
     PopQueue, Repush, Drop, DrainDone, Store, vars
<1> QED BY Zenon, <1>1, <1>3, <1>4, <1>5

\* Within a term the version ranges handed to the slaves follow each other
\* without a hole or an overlap, and a new term never goes back: the producer
\* implements the abstract stream.
THEOREM Refinement == Spec => StreamSpec
<1>1. Init => Stream!Init
  BY BoundAssumption DEF Init, Stream!Init
<1>2. IInv /\ [Next]_vars => [Stream!Next]_Stream!vars
  BY ZenonT(20), StreamStep
<1> QED BY <1>1, <1>2, Inductive, PTL DEF Spec, StreamSpec, Stream!Spec

-----------------------------------------------------------------------------
(* No version of the term is lost.                                         *)

\* The places a version can be in.
Placed(v) == \/ InSet(pending \cup failed, v)
             \/ InSeq(queue, v) \/ InSeq(chain, v) \/ InRing(v)
             \/ InSeq(consumed, v)

\* Appending to a sequence keeps what it covers.
LEMMA AppendCovers ==
    ASSUME NEW q \in Seq(Record), NEW r \in Record, NEW v
    PROVE  /\ InSeq(q, v) => InSeq(Append(q, r), v)
           /\ Covers(r, v) => InSeq(Append(q, r), v)
<1>1. /\ \A i \in DOMAIN q : i \in DOMAIN Append(q, r) /\ Append(q, r)[i] = q[i]
      /\ Len(q) + 1 \in DOMAIN Append(q, r) /\ Append(q, r)[Len(q) + 1] = r
  OBVIOUS
<1> QED BY Zenon, <1>1 DEF InSeq

\* Inserting into a sequence adds what the record covers, and loses nothing.
LEMMA InsertCovers ==
    ASSUME NEW q \in Seq(Record), NEW k \in 0 .. Len(q), NEW r \in Record, NEW v
    PROVE  /\ InSeq(q, v) => InSeq(InsertAt(q, k + 1, r), v)
           /\ Covers(r, v) => InSeq(InsertAt(q, k + 1, r), v)
<1> DEFINE t == InsertAt(q, k + 1, r)
<1>1. /\ t \in Seq(Record) /\ Len(t) = Len(q) + 1
      /\ \A i \in 1 .. k : t[i] = q[i]
      /\ t[k + 1] = r
      /\ \A i \in k + 2 .. Len(q) + 1 : t[i] = q[i - 1]
  BY ZenonT(60), InsertFacts
<1> HIDE DEF t
<1>2. k + 1 \in DOMAIN t
  BY <1>1
<1>3. ASSUME NEW i \in DOMAIN q PROVE \E j \in DOMAIN t : t[j] = q[i]
  <2>1. CASE i <= k
    <3>1. i \in DOMAIN t /\ t[i] = q[i]
      BY <1>1, <2>1
    <3> QED BY Zenon, <3>1
  <2>2. CASE i > k
    <3>1. i + 1 \in DOMAIN t /\ i + 1 \in k + 2 .. Len(q) + 1 /\ (i + 1) - 1 = i
      BY <1>1, <2>2
    <3>2. t[i + 1] = q[i]
      BY Zenon, <1>1, <3>1
    <3> QED BY Zenon, <3>1, <3>2
  <2> QED BY <2>1, <2>2
<1> QED BY Zenon, <1>1, <1>2, <1>3 DEF InSeq, t

\* Taking the head off a sequence loses at most what the head covers.
LEMMA TailCovers ==
    ASSUME NEW q \in Seq(Record), q # <<>>, NEW v
    PROVE  InSeq(q, v) => Covers(Head(q), v) \/ InSeq(Tail(q), v)
<1> SUFFICES ASSUME NEW i \in DOMAIN q, Covers(q[i], v), i # 1
             PROVE  InSeq(Tail(q), v)
  BY Zenon, TailFacts DEF InSeq
<1>1. i - 1 \in DOMAIN Tail(q) /\ (i - 1) + 1 = i
  BY TailFacts
<1>2. Tail(q)[i - 1] = q[i]
  BY Zenon, <1>1, TailFacts
<1> QED BY Zenon, <1>1, <1>2 DEF InSeq

\* Every step keeps each version of the term in one of the places.
\* (Used by NoLoss only: it rests on the inductive invariant.)
LEMMA NoLossStep == IInv /\ NoRecordLost /\ [Next]_vars => NoRecordLost'
<1> SUFFICES ASSUME IInv, NoRecordLost, [Next]_vars, phase' = "running",
                    NEW v \in base' .. data_version'
             PROVE  Placed(v)'
  BY Zenon DEF NoRecordLost, Placed
<1>0. TypeOK /\ TypeOK'
  BY Zenon, TypeStep DEF IInv
<1> USE DEF master, updates, ring
<1>1. CASE ThreadStart
  BY <1>0, <1>1 DEF ThreadStart, TypeOK
<1>2. ASSUME phase = "running", base' = base, data_version' = data_version
      PROVE  Placed(v)
  BY Zenon, <1>2 DEF NoRecordLost, Placed
<1>3. CASE Clients
  <2>1. CASE Accept
    BY Zenon, <1>2, <2>1 DEF Accept, Placed, InSet, InSeq, InRing
  <2>2. ASSUME NEW n \in Lengths, AllocVersion(n) PROVE Placed(v)'
    <3>1. CASE v \in base .. data_version
      BY Zenon, <2>2, <3>1 DEF AllocVersion, NoRecordLost, Placed, InSet, InSeq, InRing
    <3>2. CASE v \notin base .. data_version
      <4> DEFINE new == [first |-> data_version + 1, last |-> data_version + n]
      <4>1. v \in data_version + 1 .. data_version + n
        BY <1>0, <2>2, <3>2, LengthsAssumption DEF AllocVersion, TypeOK
      <4>2. Covers(new, v) /\ new \in pending'
        BY Zenon, <2>2, <4>1 DEF AllocVersion, Covers
      <4> HIDE DEF new
      <4> QED BY Zenon, <4>2 DEF Placed, InSet, Covers
    <3> QED BY Zenon, <3>1, <3>2
  <2>3. ASSUME NEW r \in pending, ProduceFail(r) PROVE Placed(v)'
    <3>1. Placed(v)
      BY Zenon, <1>2, <2>3 DEF ProduceFail
    <3> QED BY Zenon, <2>3, <3>1 DEF ProduceFail, Placed, InSet, InSeq, InRing
  <2>4. ASSUME NEW r \in pending, Push(r) PROVE Placed(v)'
    <3>1. Placed(v)
      BY Zenon, <1>2, <2>4 DEF Push
    <3>2. /\ queue' = Append(queue, r) /\ pending' = pending \ {r}
          /\ UNCHANGED <<failed, chain, entries, consumed>>
      BY Zenon, <2>4 DEF Push
    <3>3. /\ InSeq(queue, v) => InSeq(queue, v)'
          /\ Covers(r, v) => InSeq(queue, v)'
      BY ZenonT(60), <1>0, <3>2, AppendCovers DEF TypeOK, InSeq
    <3>4. /\ InSeq(chain, v) => InSeq(chain, v)'
          /\ InSeq(consumed, v) => InSeq(consumed, v)'
          /\ InRing(v) => InRing(v)'
          /\ InSet(pending \cup failed, v) =>
                 Covers(r, v) \/ InSet(pending \cup failed, v)'
      BY Zenon, <3>2 DEF InSeq, InRing, InSet
    <3> QED BY Zenon, <3>1, <3>3, <3>4 DEF Placed
  <2> QED BY Zenon, <1>3, <2>1, <2>2, <2>3, <2>4 DEF Clients
<1>4. CASE WaitQueue \/ PopQueue \/ DrainDone
  <2>1. Placed(v)
    BY Zenon, <1>2, <1>4 DEF WaitQueue, PopQueue, DrainDone
  <2>2. CASE WaitQueue \/ DrainDone
    BY Zenon, <2>1, <2>2 DEF WaitQueue, DrainDone, Placed, InSet, InSeq, InRing
  <2>3. CASE PopQueue
    <3>1. chain = <<>> /\ chain' = queue
      BY Zenon, <2>3 DEF PopQueue, IInv, ThreadState
    <3>2. ~InSeq(chain, v)
      BY <3>1 DEF InSeq
    <3> QED BY Zenon, <2>1, <2>3, <3>1, <3>2 DEF PopQueue, Placed, InSet, InSeq, InRing
  <2> QED BY Zenon, <1>4, <2>2, <2>3
<1>5. ASSUME Dealt
      PROVE  rb \in Record /\ (InSeq(chain, v) => Covers(rb, v) \/ InSeq(chain, v)')
  <2>1. chain \in Seq(Record) /\ chain # <<>> /\ chain' = Tail(chain) /\ rb = Head(chain)
    BY Zenon, <1>0, <1>5 DEF Dealt, rb, TypeOK
  <2> QED BY Zenon, <2>1, TailCovers, TailFacts DEF InSeq
<1>6. CASE Repush
  <2>1. Placed(v)
    BY Zenon, <1>2, <1>6 DEF Repush
  <2>2. PICK k \in 0 .. Len(queue) : queue' = InsertAt(queue, k + 1, rb)
    BY Zenon, <1>6 DEF Repush
  <2>3. /\ Dealt
        /\ UNCHANGED <<pending, failed, entries, consumed>>
    BY Zenon, <1>6 DEF Repush
  <2>4. /\ InSeq(queue, v) => InSeq(queue, v)'
        /\ Covers(rb, v) => InSeq(queue, v)'
    BY ZenonT(60), <1>0, <1>5, <2>2, <2>3, InsertCovers DEF TypeOK, InSeq
  <2>5. /\ InSeq(consumed, v) => InSeq(consumed, v)'
        /\ InRing(v) => InRing(v)'
        /\ InSet(pending \cup failed, v) => InSet(pending \cup failed, v)'
    BY Zenon, <2>3 DEF InSeq, InRing, InSet
  <2> QED BY Zenon, <1>5, <2>1, <2>3, <2>4, <2>5 DEF Placed
<1>7. CASE Drop
  <2>1. Placed(v)
    BY Zenon, <1>2, <1>7 DEF Drop
  <2>2. /\ Dealt /\ TooSmall(rb.first)
        /\ UNCHANGED <<data_version, base, pending, failed, queue, entries, consumed>>
    BY Zenon, <1>7 DEF Drop
  <2>3. ~Covers(rb, v)
    <3>1. Fresh(rb) /\ rb \in Record
      BY Zenon, <2>2, DealtFacts
    <3> QED BY SMTT(30), <1>0, <2>2, <3>1 DEF TooSmall, Fresh, Covers, TypeOK, Record
  <2>4. /\ InSeq(consumed, v) => InSeq(consumed, v)'
        /\ InSeq(queue, v) => InSeq(queue, v)'
        /\ InRing(v) => InRing(v)'
        /\ InSet(pending \cup failed, v) => InSet(pending \cup failed, v)'
    BY Zenon, <2>2 DEF InSeq, InRing, InSet
  <2> QED BY Zenon, <1>5, <2>1, <2>2, <2>3, <2>4 DEF Placed
<1>8. CASE PushDirect
  <2>1. Placed(v)
    BY Zenon, <1>2, <1>8 DEF PushDirect
  <2>2. /\ Dealt /\ consumed' = Append(consumed, rb)
        /\ UNCHANGED <<pending, failed, queue, entries>>
    BY Zenon, <1>8 DEF PushDirect, PushToConsumers
  <2>3. /\ InSeq(consumed, v) => InSeq(consumed, v)'
        /\ Covers(rb, v) => InSeq(consumed, v)'
    BY ZenonT(60), <1>0, <1>5, <2>2, AppendCovers DEF TypeOK, InSeq
  <2>4. /\ InSeq(queue, v) => InSeq(queue, v)'
        /\ InRing(v) => InRing(v)'
        /\ InSet(pending \cup failed, v) => InSet(pending \cup failed, v)'
    BY Zenon, <2>2 DEF InSeq, InRing, InSet
  <2> QED BY Zenon, <1>5, <2>1, <2>2, <2>3, <2>4 DEF Placed
<1>9. CASE Drain
  <2>1. Placed(v)
    BY Zenon, <1>2, <1>9 DEF Drain
  <2>2. /\ entries[start] # NULL /\ consumed' = Append(consumed, entries[start])
        /\ entries' = [entries EXCEPT ![start] = NULL]
        /\ UNCHANGED <<pending, failed, queue, chain>>
    BY Zenon, <1>9 DEF Drain, PushToConsumers
  <2>3. entries[start] \in Record
    BY Zenon, <1>0, <2>2 DEF TypeOK
  <2>4. /\ InSeq(consumed, v) => InSeq(consumed, v)'
        /\ Covers(entries[start], v) => InSeq(consumed, v)'
    BY ZenonT(60), <1>0, <2>2, <2>3, AppendCovers DEF TypeOK, InSeq
  <2>5. InRing(v) => Covers(entries[start], v) \/ InRing(v)'
    BY ZenonT(20), <1>0, <2>2 DEF InRing, TypeOK
  <2>6. /\ InSeq(queue, v) => InSeq(queue, v)'
        /\ InSeq(chain, v) => InSeq(chain, v)'
        /\ InSet(pending \cup failed, v) => InSet(pending \cup failed, v)'
    BY Zenon, <2>2 DEF InSeq, InSet
  <2> QED BY Zenon, <2>1, <2>4, <2>5, <2>6 DEF Placed
<1>10. CASE Store
  <2>1. Placed(v)
    BY Zenon, <1>2, <1>10 DEF Store
  <2> DEFINE c == Slot(rb.first)
  <2>2. /\ Dealt /\ ~TooLarge(rb.first) /\ ~TooSmall(rb.first)
        /\ entries' = [entries EXCEPT ![c] = rb]
        /\ UNCHANGED <<pending, failed, queue, consumed>>
    BY Zenon, <1>10 DEF Store
  <2>3. /\ rb \in Record /\ c \in Slots /\ rb # NULL
        /\ rb.first >= next_data_version /\ rb.first < next_data_version + Size
    <3>1. rb \in Record /\ next_data_version \in Nat /\ rb.first \in Nat
      BY Zenon, <1>0, <1>5, <2>2 DEF TypeOK, Record
    <3>2. c \in Slots /\ rb # NULL
      BY Zenon, <3>1, SlotType, NullAssumption DEF Record
    <3> QED BY <2>2, <3>1, <3>2, SizeAssumption DEF TooLarge, TooSmall
  <2>4. c \notin Held
    <3> SUFFICES ASSUME c \in Held PROVE FALSE
      BY Zenon
    <3>1. /\ Slot(entries[c].first) = Slot(rb.first)
          /\ entries[c].first >= next_data_version
          /\ entries[c].first < next_data_version + Size
          /\ entries[c] \in Record
      BY Zenon, <1>0 DEF IInv, RingWindow, TypeOK, Held
    <3>2. Disjoint(rb, entries[c])
      BY Zenon, <2>2, DealtFacts
    <3> HIDE DEF c
    <3>3. entries[c].first = rb.first
      <4>1. /\ entries[c].first \in Nat /\ rb.first \in Nat
            /\ next_data_version \in Nat
        BY Zenon, <1>0, <2>3, <3>1 DEF Record, TypeOK
      <4>2. CASE entries[c].first <= rb.first
        <5>1. rb.first < entries[c].first + Size
          BY <2>3, <3>1, <4>1, SizeAssumption
        <5> QED BY Zenon, <3>1, <4>1, <4>2, <5>1, SlotUnique
      <4>3. CASE rb.first <= entries[c].first
        <5>1. entries[c].first < rb.first + Size
          BY <2>3, <3>1, <4>1, SizeAssumption
        <5> QED BY Zenon, <3>1, <4>1, <4>3, <5>1, SlotUnique
      <4> QED BY <4>1, <4>2, <4>3
    <3> QED BY <2>3, <3>1, <3>2, <3>3 DEF Disjoint, Record
  <2> HIDE DEF c
  <2>5. entries' = [entries EXCEPT ![c] = rb]
    BY Zenon, <2>2
  <2>6. (InRing(v) => InRing(v)') /\ (Covers(rb, v) => InRing(v)')
    <3>1. entries'[c] = rb /\ \A s \in Slots : s # c => entries'[s] = entries[s]
      BY Zenon, <1>0, <2>3, <2>5 DEF TypeOK
    <3>2. entries[c] = NULL
      BY Zenon, <2>3, <2>4 DEF Held
    <3> QED BY Zenon, <2>3, <3>1, <3>2 DEF InRing
  <2>7. /\ InSeq(queue, v) => InSeq(queue, v)'
        /\ InSeq(consumed, v) => InSeq(consumed, v)'
        /\ InSet(pending \cup failed, v) => InSet(pending \cup failed, v)'
    BY Zenon, <2>2 DEF InSeq, InSet
  <2> QED BY Zenon, <1>5, <2>1, <2>2, <2>6, <2>7 DEF Placed
<1>11. CASE UNCHANGED vars
  <2>1. Placed(v)
    BY Zenon, <1>2, <1>11 DEF vars
  <2> QED BY Zenon, <1>11, <2>1 DEF vars, Placed, InSet, InSeq, InRing
<1>12. ~(SetMaster \/ UnsetMaster \/ Destroy \/ SlaveReplay)
  BY Zenon DEF SetMaster, UnsetMaster, Destroy, SlaveReplay
<1> QED BY Zenon, <1>1, <1>3, <1>4, <1>6, <1>7, <1>8, <1>9, <1>10, <1>11, <1>12
        DEF Next, Mastership, Producer

\* While the producer thread runs, every version allocated since it began is
\* still on its way, in the producer's hands, at the consumers, or was lost to
\* a packing error: the ring, the queue and the repushes lose nothing.
THEOREM NoLoss == Spec => []NoRecordLost
<1>1. Init => NoRecordLost
  BY DEF Init, NoRecordLost
<1> QED BY <1>1, NoLossStep, Inductive, PTL DEF Spec

-----------------------------------------------------------------------------
(* Records of one version: ring.start = ring.end means an empty ring.      *)

\* Every record that can still come to the ring has one version.
One(r) == r.first = r.last
OneVersion == /\ \A r \in pending : One(r)
              /\ \A i \in DOMAIN queue : One(queue[i])
              /\ \A i \in DOMAIN chain : One(chain[i])
              /\ \A s \in Held : One(entries[s])

\* What the ring holds lies between ring.start and ring.end.
Pos(s) == IF s >= start THEN s - start ELSE s + Size - start
HeldBeforeEnd == phase \in {"running", "stopping"} =>
                     \A s \in Held : Pos(s) < Pos(end)

\* The record at the head of the chain, and those behind it.
LEMMA OneDealt ==
    ASSUME IInv, OneVersion, Dealt
    PROVE  One(rb) /\ \A i \in DOMAIN chain' : One(chain'[i])
<1>1. chain \in Seq(Record) /\ chain # <<>> /\ chain' = Tail(chain) /\ rb = Head(chain)
  BY Zenon DEF Dealt, rb, IInv, TypeOK
<1>2. rb = chain[1] /\ 1 \in DOMAIN chain
  BY Zenon, <1>1, TailFacts
<1>3. \A i \in DOMAIN chain' : \E j \in DOMAIN chain : chain'[i] = chain[j]
  BY Zenon, DealtFacts
<1> QED BY Zenon, <1>2, <1>3 DEF OneVersion

\* Every step keeps records at one version.
LEMMA OneStep ==
    ASSUME Lengths = {1}, IInv, OneVersion, [Next]_vars PROVE OneVersion'
<1>0. TypeOK
  BY Zenon DEF IInv
<1> USE DEF master, updates, ring
<1>1. ASSUME UNCHANGED <<pending, queue, chain, entries>> PROVE OneVersion'
  BY Zenon, <1>1 DEF OneVersion, Held, Slots, One
<1>2. ASSUME Held' = {}, UNCHANGED <<pending, chain>>, queue' = queue \/ queue' = <<>>
      PROVE  OneVersion'
  <2>1. queue' = <<>> => DOMAIN queue' = {}
    OBVIOUS
  <2> QED BY Zenon, <1>2, <2>1 DEF OneVersion, One
<1>3. CASE SetMaster \/ Destroy
  <2>1. entries' = Empty
    BY Zenon, <1>3 DEF SetMaster, Destroy
  <2>2. Held' = {}
    BY Zenon, <2>1 DEF Held, Empty, Slots
  <2> QED BY Zenon, <1>2, <1>3, <2>2 DEF SetMaster, Destroy
<1>4. ASSUME NEW n \in Lengths, AllocVersion(n) PROVE OneVersion'
  <2> DEFINE r == [first |-> data_version + 1, last |-> data_version + n]
  <2>1. pending' = pending \cup {r} /\ UNCHANGED <<queue, chain, entries>>
    BY Zenon, <1>4 DEF AllocVersion
  <2>2. n = 1
    BY Zenon
  <2>3. One(r)
    BY Zenon, <2>2 DEF One
  <2> HIDE DEF r
  <2> QED BY Zenon, <2>1, <2>3 DEF OneVersion, Held, Slots, One
<1>5. ASSUME NEW r \in pending, ProduceFail(r) PROVE OneVersion'
  <2>1. pending' = pending \ {r} /\ UNCHANGED <<queue, chain, entries>>
    BY Zenon, <1>5 DEF ProduceFail
  <2> QED BY Zenon, <2>1 DEF OneVersion, Held, Slots, One
<1>6. ASSUME NEW r \in pending, Push(r) PROVE OneVersion'
  <2>1. /\ pending' = pending \ {r} /\ queue' = Append(queue, r)
        /\ UNCHANGED <<chain, entries>>
    BY Zenon, <1>6 DEF Push
  <2>2. r \in Record /\ queue \in Seq(Record)
    BY Zenon, <1>0 DEF TypeOK
  <2>3. \A i \in DOMAIN queue' : queue'[i] = r \/ \E j \in DOMAIN queue : queue'[i] = queue[j]
    <3>1. DOMAIN queue' = 1 .. Len(queue) + 1 /\ DOMAIN queue = 1 .. Len(queue)
          /\ Len(queue) \in Nat
      BY <2>1, <2>2
    <3>2. \A i \in 1 .. Len(queue) + 1 : i \in 1 .. Len(queue) \/ i = Len(queue) + 1
      BY <3>1
    <3>3. /\ \A i \in 1 .. Len(queue) : queue'[i] = queue[i]
          /\ queue'[Len(queue) + 1] = r
      BY <2>1, <2>2
    <3> QED BY Zenon, <3>1, <3>2, <3>3
  <2> QED BY Zenon, <2>1, <2>3 DEF OneVersion, Held, Slots, One
<1>7. CASE PopQueue
  <2>1. queue' = <<>> /\ DOMAIN queue' = {} /\ chain' = queue
        /\ UNCHANGED <<pending, entries>>
    BY <1>7 DEF PopQueue
  <2> QED BY Zenon, <2>1 DEF OneVersion, Held, Slots, One
<1>8. CASE Repush
  <2>1. Dealt /\ UNCHANGED <<pending, entries>>
    BY Zenon, <1>8 DEF Repush
  <2>2. PICK k \in 0 .. Len(queue) : queue' = InsertAt(queue, k + 1, rb)
    BY Zenon, <1>8 DEF Repush
  <2>3. rb \in Record /\ queue \in Seq(Record)
    BY Zenon, <1>0, <2>1, DealtFacts DEF TypeOK
  <2>4. /\ queue' \in Seq(Record) /\ Len(queue') = Len(queue) + 1
        /\ \A i \in 1 .. k : queue'[i] = queue[i]
        /\ queue'[k + 1] = rb
        /\ \A i \in k + 2 .. Len(queue) + 1 : queue'[i] = queue[i - 1]
    BY Zenon, <2>2, <2>3, InsertFacts
  <2>5. ASSUME NEW i \in DOMAIN queue' PROVE One(queue'[i])
    <3>1. /\ i \in 1 .. k \/ i = k + 1 \/ i \in k + 2 .. Len(queue) + 1
          /\ i \in 1 .. k => i \in DOMAIN queue
          /\ i \in k + 2 .. Len(queue) + 1 => i - 1 \in DOMAIN queue
      <4>1. i \in 1 .. Len(queue) + 1 /\ Len(queue) \in Nat
            /\ DOMAIN queue = 1 .. Len(queue)
        BY <2>3, <2>4
      <4> QED BY <4>1
    <3>2. One(rb) /\ \A j \in DOMAIN queue : One(queue[j])
      BY Zenon, <2>1, OneDealt DEF OneVersion
    <3> QED BY Zenon, <2>4, <3>1, <3>2
  <2> QED BY Zenon, <2>1, <2>5, OneDealt DEF OneVersion, Held, Slots, One
<1>9. CASE Drop \/ PushDirect
  <2>1. Dealt /\ UNCHANGED <<pending, entries, queue>>
    BY Zenon, <1>9 DEF Drop, PushDirect
  <2> QED BY Zenon, <2>1, OneDealt DEF OneVersion, Held, Slots, One
<1>10. CASE Drain
  <2>1. /\ entries' = [entries EXCEPT ![start] = NULL]
        /\ UNCHANGED <<pending, chain, queue>>
    BY Zenon, <1>10 DEF Drain
  <2>2. Held' \subseteq Held /\ \A s \in Held' : entries'[s] = entries[s]
    BY Zenon, <1>0, <2>1 DEF Held, TypeOK
  <2> QED BY Zenon, <2>1, <2>2 DEF OneVersion, One
<1>11. CASE Store
  <2>1. /\ Dealt /\ entries' = [entries EXCEPT ![Slot(rb.first)] = rb]
        /\ UNCHANGED <<pending, queue>>
    BY Zenon, <1>11 DEF Store
  <2>2. \A s \in Held' : entries'[s] = rb \/ (s \in Held /\ entries'[s] = entries[s])
    BY Zenon, <1>0, <2>1 DEF Held, TypeOK
  <2> QED BY Zenon, <2>1, <2>2, OneDealt DEF OneVersion, One
<1>12. CASE ThreadStart \/ UnsetMaster \/ SlaveReplay \/ Accept \/ WaitQueue
              \/ DrainDone \/ UNCHANGED vars
  <2>1. UNCHANGED <<pending, queue, chain, entries>>
    BY Zenon, <1>12 DEF ThreadStart, UnsetMaster, SlaveReplay, Accept, WaitQueue,
       DrainDone, vars
  <2> QED BY Zenon, <1>1, <2>1
<1> QED BY Zenon, <1>3, <1>4, <1>5, <1>6, <1>7, <1>8, <1>9, <1>10, <1>11, <1>12
     DEF Next, Mastership, Clients, Producer

\* The index of a slot less than twice around the ring.
Wrap(n) == IF n < Size THEN n ELSE n - Size

\* Quotient and remainder determine the slot.
LEMMA ModUnique ==
    ASSUME NEW a \in Int, NEW q \in Int, NEW r \in 0 .. Size - 1,
           a = Size * q + r
    PROVE  a % Size = r
BY SizeAssumption

\* The slot of a version less than Size further on.
LEMMA SlotPlus ==
    ASSUME NEW a \in Nat, NEW d \in 0 .. Size - 1
    PROVE  Slot(a + d) = Wrap(Slot(a) + d)
<1> DEFINE q == a \div Size
           m == a % Size
<1>1. a = Size * q + m /\ m \in 0 .. Size - 1 /\ q \in Nat
  BY Zenon, DivMod
<1> HIDE DEF q, m
<1>2. CASE m + d < Size
  <2>1. a + d = Size * q + (m + d) /\ m + d \in 0 .. Size - 1 /\ a + d \in Int
    BY <1>1, <1>2, SizeAssumption
  <2> QED BY <1>1, <1>2, <2>1, ModUnique DEF Wrap, Slot, m
<1>3. CASE m + d >= Size
  <2>1. Size * (q + 1) = Size * q + Size
    BY <1>1, SizeAssumption
  <2>2. /\ a + d = Size * (q + 1) + (m + d - Size) /\ q + 1 \in Int
        /\ m + d - Size \in 0 .. Size - 1 /\ a + d \in Int
    BY <1>1, <1>3, <2>1, SizeAssumption
  <2>3. Slot(a + d) = m + d - Size
    BY Zenon, <2>2, ModUnique DEF Slot
  <2>4. ~(m + d < Size)
    BY <1>1, <1>3, SizeAssumption
  <2>5. Slot(a) = m
    BY Zenon DEF Slot, m
  <2>6. Wrap(m + d) = m + d - Size
    BY <1>1, <2>4, SizeAssumption DEF Wrap
  <2> QED BY Zenon, <2>3, <2>5, <2>6
<1> QED BY <1>1, <1>2, <1>3, SizeAssumption

\* Handing over the version at ring.start moves every other slot one closer.
LEMMA PosStep ==
    ASSUME TypeOK, start' = Wrap(start + 1), NEW s \in Slots, s # start
    PROVE  LET p == IF s >= start' THEN s - start' ELSE s + Size - start'
           IN  p = Pos(s) - 1 /\ Pos(s) \in 1 .. Size - 1
<1>1. start \in 0 .. Size - 1 /\ s \in 0 .. Size - 1
  BY Zenon DEF TypeOK, Slots
<1> QED BY <1>1, SizeAssumption DEF Wrap, Pos

\* A record of one version that is handed over frees the slot at ring.start.
LEMMA Forward ==
    ASSUME IInv, HeldBeforeEnd, NEW r \in Record, One(r), PushToConsumers(r),
           phase \in {"running", "stopping"}, phase' = phase,
           start' = Slot(next_data_version'), end' = end, start # end,
           Held' \subseteq Held \ {start}
    PROVE  HeldBeforeEnd'
<1>1. TypeOK /\ start = Slot(next_data_version) /\ next_data_version \in Nat
  BY Zenon DEF IInv, ThreadState, TypeOK
<1>2. next_data_version' = next_data_version + 1
  <2>1. r.last - r.first + 1 = 1
    BY DEF One, Record
  <2> QED BY Zenon, <2>1 DEF PushToConsumers
<1>3. start' = Wrap(start + 1)
  <2>1. 1 \in 0 .. Size - 1
    BY SizeAssumption
  <2> QED BY Zenon, <1>1, <1>2, <2>1, SlotPlus
<1>4. ASSUME NEW s \in Slots, s # start
      PROVE  Pos(s)' = Pos(s) - 1 /\ Pos(s) \in 1 .. Size - 1
  BY Zenon, <1>1, <1>3, <1>4, PosStep DEF Pos
<1>5. end \in Slots /\ Pos(end)' = Pos(end) - 1 /\ Pos(end) \in 1 .. Size - 1
  <2>1. end \in Slots
    BY Zenon, <1>1 DEF TypeOK
  <2> QED BY Zenon, <1>4, <2>1 DEF Pos
<1>6. ASSUME NEW s \in Held' PROVE Pos(s)' < Pos(end)'
  <2>1. s \in Held /\ s \in Slots /\ s # start
    BY Zenon DEF Held
  <2>2. Pos(s) < Pos(end)
    BY Zenon, <2>1 DEF HeldBeforeEnd
  <2>3. Pos(s)' = Pos(s) - 1 /\ Pos(s) \in 1 .. Size - 1
    BY Zenon, <1>4, <2>1
  <2> QED BY <1>5, <2>2, <2>3, SizeAssumption
<1> QED BY Zenon, <1>6 DEF HeldBeforeEnd

\* deal_record moves ring.end past the record it stores, unless it is there.
LEMMA StoreBeforeEnd ==
    ASSUME IInv, OneVersion, HeldBeforeEnd, Store PROVE HeldBeforeEnd'
<1>1. /\ Dealt /\ pc = "deal_record" /\ Slot(rb.first) # start
      /\ ~TooLarge(rb.first) /\ ~TooSmall(rb.first)
      /\ entries' = [entries EXCEPT ![Slot(rb.first)] = rb]
      /\ end' = IF Expand THEN Slot(rb.last + 1) ELSE end
      /\ start' = start /\ phase' = phase
  BY Zenon DEF Store, Dealt, master
<1>2. /\ TypeOK /\ rb \in Record /\ rb.first = rb.last
      /\ next_data_version \in Nat /\ start \in Slots /\ end \in Slots
  BY Zenon, <1>1, DealtFacts, OneDealt DEF IInv, TypeOK, One
<1>3. start = Slot(next_data_version) /\ phase \in {"running", "stopping"}
  <2>1. pc # "idle"
    BY Zenon, <1>1
  <2> QED BY Zenon, <1>2, <2>1 DEF IInv, ThreadState, TypeOK
<1> DEFINE c == Slot(rb.first)
           d == rb.first - next_data_version
<1>4. d \in 0 .. Size - 2 /\ rb.first = next_data_version + d /\ rb.first \in Nat
  BY <1>1, <1>2, SizeAssumption DEF TooLarge, TooSmall, Record
<1>5. c = Wrap(start + d) /\ Slot(rb.last + 1) = Wrap(start + (d + 1))
  <2>1. d \in 0 .. Size - 1 /\ d + 1 \in 0 .. Size - 1
        /\ rb.first + 1 = next_data_version + (d + 1)
    BY <1>2, <1>4, SizeAssumption
  <2> HIDE DEF d
  <2> QED BY Zenon, <1>2, <1>3, <1>4, <2>1, SlotPlus
<1>6. Slot(rb.last) = c
  BY Zenon, <1>2
<1> DEFINE e == Wrap(start + (d + 1))
<1>7. end' = IF Expand THEN e ELSE end
  BY Zenon, <1>1, <1>5
<1> HIDE DEF d, c, e
<1>8. /\ c \in Slots /\ Pos(c) = d
      /\ e \in Slots /\ Pos(e) = d + 1
  BY <1>2, <1>4, <1>5, SizeAssumption DEF Pos, Wrap, Slots, e
<1>9. Expand <=> ~(Pos(c) < Pos(end))
  <2>1. Expand <=> (CASE start = end -> TRUE
                      [] end > start -> ~(c > start /\ c < end)
                      [] end < start -> c >= end /\ c < start)
    BY Zenon, <1>6 DEF Expand, c
  <2>2. c # start /\ c \in 0 .. Size - 1 /\ start \in 0 .. Size - 1 /\ end \in 0 .. Size - 1
    BY Zenon, <1>1, <1>2, <1>8 DEF c, Slots
  <2>3. CASE start = end
    <3>0. ~(end > start) /\ ~(end < start)
      BY <2>2, <2>3
    <3>1. Expand
      BY Zenon, <2>1, <2>3, <3>0
    <3>2. ~(Pos(c) < Pos(end))
      BY <2>2, <2>3, SizeAssumption DEF Pos
    <3> QED BY Zenon, <3>1, <3>2
  <2>4. CASE end > start
    <3>1. Expand <=> ~(c > start /\ c < end)
      <4>1. start # end /\ ~(end < start)
        BY <2>2, <2>4
      <4> QED BY Zenon, <2>1, <2>4, <4>1
    <3>2. c > start /\ c < end <=> Pos(c) < Pos(end)
      BY <2>2, <2>4, SizeAssumption DEF Pos
    <3> QED BY Zenon, <3>1, <3>2
  <2>5. CASE end < start
    <3>1. Expand <=> c >= end /\ c < start
      <4>1. start # end /\ ~(end > start)
        BY <2>2, <2>5
      <4> QED BY Zenon, <2>1, <2>5, <4>1
    <3>2. c >= end /\ c < start <=> ~(Pos(c) < Pos(end))
      BY <2>2, <2>5, SizeAssumption DEF Pos
    <3> QED BY Zenon, <3>1, <3>2
  <2> QED BY <2>2, <2>3, <2>4, <2>5
<1>10. \A s \in Slots : Pos(s)' = Pos(s) /\ Pos(s) \in 0 .. Size - 1
  <2>1. \A s \in Slots : Pos(s) \in 0 .. Size - 1
    BY <1>2, SizeAssumption DEF Pos, Slots
  <2> QED BY Zenon, <1>1, <2>1 DEF Pos
<1>11. Pos(end)' = (IF Expand THEN d + 1 ELSE Pos(end)) /\ Pos(end) \in 0 .. Size - 1
  <2>1. Pos(end)' = IF Expand THEN Pos(e) ELSE Pos(end)
    BY Zenon, <1>1, <1>7 DEF Pos
  <2> QED BY Zenon, <1>2, <1>8, <1>10, <2>1
<1>12. ASSUME NEW s \in Held' PROVE Pos(s)' < Pos(end)'
  <2>1. s \in Slots /\ (s = c \/ s \in Held)
    BY Zenon, <1>1, <1>2 DEF Held, c, TypeOK
  <2>2. s \in Held => Pos(s) < Pos(end)
    BY Zenon, <1>3 DEF HeldBeforeEnd
  <2>3. Pos(s)' = Pos(s) /\ Pos(s) \in 0 .. Size - 1
    BY Zenon, <1>10, <2>1
  <2>4. s = c => Pos(s) = d
    BY Zenon, <1>8
  <2>5. d \in Nat
    BY <1>4, SizeAssumption
  <2> QED BY <1>8, <1>9, <1>11, <2>1, <2>2, <2>3, <2>4, <2>5, SizeAssumption
<1> QED BY Zenon, <1>12 DEF HeldBeforeEnd

\* Every step keeps what the ring holds before ring.end.
LEMMA BeforeEndStep ==
    ASSUME IInv, OneVersion, HeldBeforeEnd, [Next]_vars PROVE HeldBeforeEnd'
<1>0. TypeOK /\ start \in Slots
  BY Zenon DEF IInv, TypeOK
<1>1. ASSUME ring' = ring, phase \in {"running", "stopping"} \/ phase' = phase
      PROVE  HeldBeforeEnd'
  <2>1. entries' = entries /\ start' = start /\ end' = end
    BY Zenon, <1>1 DEF ring
  <2>2. Held' = Held
    BY Zenon, <2>1 DEF Held, Slots
  <2> QED BY Zenon, <1>1, <2>1, <2>2 DEF HeldBeforeEnd, Pos
<1>2. ASSUME phase' \in {"slave", "elected"} PROVE HeldBeforeEnd'
  <2>1. phase' \notin {"running", "stopping"}
    BY Zenon, <1>2
  <2> QED BY Zenon, <2>1 DEF HeldBeforeEnd
<1>3. CASE ThreadStart
  <2>1. phase = "elected" /\ entries' = entries
    BY Zenon, <1>3 DEF ThreadStart
  <2>2. Held' = {}
    BY Zenon, <2>1 DEF IInv, ThreadState, Held, Slots
  <2> QED BY Zenon, <2>2 DEF HeldBeforeEnd
<1>4. CASE PushDirect
  <2>1. /\ Dealt /\ pc = "deal_record" /\ Slot(rb.first) = start
        /\ ~TooLarge(rb.first) /\ ~TooSmall(rb.first)
        /\ PushToConsumers(rb) /\ start' = Slot(next_data_version')
        /\ end' = IF start = end THEN Slot(next_data_version') ELSE end
        /\ entries' = entries /\ phase' = phase
    BY Zenon, <1>4 DEF PushDirect, Dealt, master
  <2>2. pc # "idle"
    BY Zenon, <2>1
  <2>3. phase \in {"running", "stopping"} /\ start = Slot(next_data_version)
    BY Zenon, <1>0, <2>2 DEF IInv, ThreadState, TypeOK
  <2>4. Held' = Held
    BY Zenon, <2>1 DEF Held, Slots
  <2>5. CASE start = end
    <3>1. \A s \in Held : Pos(s) < Pos(start)
      BY Zenon, <2>3, <2>5 DEF HeldBeforeEnd
    <3>2. \A s \in Slots : ~(Pos(s) < Pos(start))
      BY <1>0, SizeAssumption DEF Pos, Slots
    <3>3. Held = {}
      BY Zenon, <3>1, <3>2 DEF Held
    <3> QED BY Zenon, <2>4, <3>3 DEF HeldBeforeEnd
  <2>6. CASE start # end
    <3>1. rb \in Record /\ One(rb)
      BY Zenon, <2>1, DealtFacts, OneDealt
    <3>2. rb.first >= next_data_version /\ rb.first < next_data_version + Size
      BY <1>0, <2>1, <3>1, SizeAssumption DEF TooLarge, TooSmall, TypeOK, Record
    <3>3. rb.first = next_data_version
      BY Zenon, <2>1, <2>2, <3>1, <3>2, StartSlot
    <3>4. start \notin Held
      <4> SUFFICES ASSUME start \in Held PROVE FALSE
        BY Zenon
      <4>1. entries[start] \in Record /\ Disjoint(rb, entries[start])
        BY Zenon, <1>0, <2>1, DealtFacts DEF Held, TypeOK
      <4>2. /\ Slot(entries[start].first) = start
            /\ entries[start].first >= next_data_version
            /\ entries[start].first < next_data_version + Size
        BY Zenon DEF IInv, RingWindow
      <4>3. entries[start].first = next_data_version
        BY Zenon, <2>2, <4>1, <4>2, StartSlot
      <4> QED BY <3>1, <3>3, <4>1, <4>3 DEF Disjoint, Record
    <3>5. Held' \subseteq Held \ {start} /\ end' = end
      BY Zenon, <2>1, <2>4, <2>6, <3>4
    <3> QED BY Zenon, <2>1, <2>3, <2>6, <3>1, <3>5, Forward
  <2> QED BY Zenon, <2>5, <2>6
<1>5. CASE Drain
  <2>1. /\ pc = "drain" /\ start # end /\ entries[start] # NULL
        /\ PushToConsumers(entries[start])
        /\ entries' = [entries EXCEPT ![start] = NULL]
        /\ start' = Slot(next_data_version') /\ end' = end /\ phase' = phase
    BY Zenon, <1>5 DEF Drain, master
  <2>2. phase \in {"running", "stopping"}
    BY Zenon, <1>0, <2>1 DEF IInv, ThreadState, TypeOK
  <2>3. entries[start] \in Record /\ start \in Held
    BY Zenon, <1>0, <2>1 DEF TypeOK, Held
  <2>4. One(entries[start])
    BY Zenon, <2>3 DEF OneVersion
  <2>5. Held' \subseteq Held \ {start}
    BY Zenon, <1>0, <2>1 DEF Held, TypeOK
  <2> QED BY Zenon, <2>1, <2>2, <2>3, <2>4, <2>5, Forward
<1>6. CASE Store
  BY Zenon, <1>6, StoreBeforeEnd
<1>7. CASE SetMaster \/ Destroy
  <2>1. phase' \in {"slave", "elected"}
    BY Zenon, <1>7 DEF SetMaster, Destroy
  <2> QED BY Zenon, <1>2, <2>1
<1>8. CASE UnsetMaster \/ SlaveReplay \/ Accept \/ WaitQueue \/ DrainDone
             \/ PopQueue \/ Repush \/ Drop \/ UNCHANGED vars
  <2>1. ring' = ring /\ (phase = "running" \/ phase' = phase)
    BY Zenon, <1>8 DEF UnsetMaster, SlaveReplay, Accept, WaitQueue, DrainDone,
       PopQueue, Repush, Drop, vars, master, ring
  <2> QED BY Zenon, <1>1, <2>1
<1>9. ASSUME NEW n \in Lengths, AllocVersion(n) PROVE HeldBeforeEnd'
  BY Zenon, <1>1, <1>9 DEF AllocVersion, master, ring
<1>10. ASSUME NEW r \in pending, ProduceFail(r) \/ Push(r) PROVE HeldBeforeEnd'
  BY Zenon, <1>1, <1>10 DEF ProduceFail, Push, master, ring
<1> QED BY Zenon, <1>3, <1>4, <1>5, <1>6, <1>7, <1>8, <1>9, <1>10
     DEF Next, Mastership, Clients, Producer

\* With records of one version ring.start = ring.end means that the ring holds
\* nothing (EmptyRing), as deal_record takes it.
THEOREM EmptyMeansEmpty == ASSUME Lengths = {1} PROVE Spec => []EmptyRing
<1>1. Init => OneVersion /\ HeldBeforeEnd
  <2> SUFFICES ASSUME Init PROVE OneVersion /\ HeldBeforeEnd
    BY Zenon
  <2>1. Held = {} /\ DOMAIN queue = {} /\ DOMAIN chain = {} /\ pending = {}
    BY DEF Init, Held, Empty
  <2> QED BY Zenon, <2>1 DEF OneVersion, HeldBeforeEnd
<1>2. IInv /\ OneVersion /\ HeldBeforeEnd /\ [Next]_vars => OneVersion' /\ HeldBeforeEnd'
  BY Zenon, OneStep, BeforeEndStep
<1>3. IInv /\ HeldBeforeEnd => EmptyRing
  <2> SUFFICES ASSUME IInv, HeldBeforeEnd, phase = "running", start = end
               PROVE  entries = Empty
    BY Zenon DEF EmptyRing
  <2>1. start \in Slots /\ entries \in [Slots -> Record \cup {NULL}]
    BY Zenon DEF IInv, TypeOK
  <2>2. \A s \in Held : Pos(s) < Pos(start)
    BY Zenon DEF HeldBeforeEnd
  <2>3. \A s \in Slots : ~(Pos(s) < Pos(start))
    BY <2>1, SizeAssumption DEF Pos, Slots
  <2>4. \A s \in Slots : entries[s] = NULL
    BY Zenon, <2>2, <2>3 DEF Held
  <2> QED BY Zenon, <2>1, <2>4 DEF Empty
<1> QED BY <1>1, <1>2, <1>3, Inductive, PTL DEF Spec
=============================================================================

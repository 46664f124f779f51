---------------------------- MODULE ReplicationThread ----------------------------
(***************************************************************************)
(* The inductive invariant of the replication, and why the steps of the    *)
(* thread that serves a slave keep it: for any number of slaves, updates   *)
(* and failures.  The other steps, and the theorems, are in                *)
(* ReplicationProofs.                                                      *)
(***************************************************************************)
EXTENDS Replication, FiniteSetTheorems, TLAPS

-----------------------------------------------------------------------------
(* The inductive invariant.  It is about each slave in turn: only the      *)
(* waiting counts relate several of them.                                  *)

\* What the replication of s still holds.
Held(s) == Range(rep[s].queue) \cup rep[s].ring

\* What has left the queue of s.
Passed(s) == version - Len(rep[s].queue)

\* A queue holds the last versions, all of them, and the results that are owed are for
\* earlier ones.  Nothing that is held is in the master's binlog.
QueueInOrder(s) ==
    /\ written <= Passed(s)
    /\ \A i \in 1 .. Len(rep[s].queue) : rep[s].queue[i] = Passed(s) + i
    /\ rep[s].ring \subseteq written + 1 .. Passed(s)
    /\ rep[s].stage # "sync_from_queue" => rep[s].ring = {}

\* The join response has come.
Joined(s) == \/ rep[s].stage \in {"sync_from_disk", "sync_from_queue"}
             \/ rep[s].stage = "waiting_join_resp" /\ rep[s].last # -1

\* The last version that was sent to s on this connection, or that it had.
Sent(s) == IF rep[s].stage = "sync_from_queue" THEN Passed(s) ELSE ReadFrom(s)

\* What s has, or will not get.
Settled(s) == Has(s) \cup forgot[s]

\* A consumer and a connection that has been joined belong together.
OneConsumer(s) ==
    /\ Joined(s) => sv[s].consumer = "live"
    /\ sv[s].consumer # "live" => acks[s] = <<>>
    /\ sv[s].consumer = "none" => wire[s] = <<>> /\ sv[s].replaying = {}

\* Nothing is left out before what s has ...
NoHoles(s) ==
    /\ sv[s].current \in sv[s].applied \cup {0}
    /\ \A v \in Has(s), u \in Version : u < v => u \in Settled(s)
    /\ \A u \in Version : u <= sv[s].before => u \in sv[s].applied \cup forgot[s]
    /\ sv[s].consumer # "none" =>
          \A u \in Version : u <= sv[s].replayed => u \in Settled(s)

\* ... nor before what is on the wire ...
WireAll(s) ==
    \A i \in 1 .. Len(wire[s]) : \A u \in Version : u < wire[s][i] =>
        u \in Settled(s) \/ \E j \in 1 .. i - 1 : wire[s][j] = u

\* ... nor before what will be sent next.
SentAll(s) ==
    Joined(s) => \A u \in Version : u <= Sent(s) =>
        u \in Settled(s) \cup Range(wire[s])

\* What the read thread has passed, and the results it has ready.
Reading(s) ==
    LET r == rep[s] IN
    r.stage = "sync_from_disk" =>
        /\ r.last # -1 /\ r.last <= written
        /\ ReadFrom(s) <= r.pos /\ r.pos <= written
        /\ r.pos = ReadFrom(s) \/ \E j \in 1 .. Len(r.done) : r.done[j] = r.pos
        /\ \A j \in 1 .. Len(r.done) : r.done[j] # ENOENT =>
              /\ 1 <= r.done[j] /\ ReadFrom(s) <= r.done[j] /\ r.done[j] <= r.pos
              /\ \A i \in 1 .. j - 1 : r.done[i] # ENOENT => r.done[i] < r.done[j]

\* What has left the queue before the switch: either the last of it is known (by_queue),
\* or it is in the binlog, or it was on its way when the connection was lost.
Discarded(s) ==
    LET r == rep[s] IN
    /\ r.by_queue # 0 => r.by_queue = Passed(s)
    /\ r.by_queue = 0 /\ r.stage # "sync_from_queue" =>
          \A u \in 1 .. Passed(s) : u \in forgot[s] \/ u <= written

\* The end of the file was found when that part of the binlog had been read.
EndOfFile(s) ==
    LET r == rep[s] IN
    r.stage = "sync_from_disk" /\ r.by_queue = 0 =>
        \A i \in 1 .. Len(r.done) : r.done[i] = ENOENT =>
            \A u \in 1 .. Passed(s) :
                \/ u \in forgot[s] \/ u <= ReadFrom(s)
                \/ \E j \in 1 .. i - 1 : r.done[j] # ENOENT /\ u <= r.done[j]

\* On a connection the records come in order: what has been taken off the wire, and the
\* answers, are before what is still on it.
InOrder(s) ==
    /\ \A i \in 1 .. Len(wire[s]) : \A j \in 1 .. i - 1 : wire[s][j] < wire[s][i]
    /\ Joined(s) =>
          /\ rep[s].stage # "sync_from_queue" /\ rep[s].current = 0 => wire[s] = <<>>
          /\ \A x \in sv[s].replaying \cup Range(acks[s]) \cup {rep[s].by_resp} :
                /\ x <= Sent(s)
                /\ \A i \in 1 .. Len(wire[s]) : x < wire[s][i]
          /\ \A i \in 1 .. Len(wire[s]) : wire[s][i] <= Sent(s)
          /\ rep[s].stage = "sync_from_queue" /\ timeouts = 0 =>
                Range(wire[s]) \subseteq rep[s].ring

\* A replication that is not joined is as it was bound.
Fresh(s) ==
    rep[s].stage \in {"none", "waiting_join_resp"} =>
        /\ rep[s].current = 0 /\ rep[s].by_resp = 0
        /\ rep[s].done = <<>>

SlaveInv(s) ==
    /\ QueueInOrder(s) /\ OneConsumer(s) /\ NoHoles(s) /\ WireAll(s) /\ SentAll(s)
    /\ Reading(s) /\ Discarded(s) /\ EndOfFile(s) /\ InOrder(s) /\ Fresh(s)

IInv == TypeOK /\ CountIsExact /\ \A s \in Slave : SlaveInv(s)

-----------------------------------------------------------------------------
(* Facts about sequences.                                                  *)

\* The elements of a sequence are its range.
LEMMA RangeSeq ==
    ASSUME NEW S, NEW q \in Seq(S)
    PROVE  /\ Len(q) \in Nat /\ Range(q) \subseteq S
           /\ \A x : x \in Range(q) <=> \E i \in 1 .. Len(q) : q[i] = x
           /\ \A i \in 1 .. Len(q) : q[i] \in S /\ q[i] \in Range(q)
<1>1. Len(q) \in Nat /\ q \in [1 .. Len(q) -> S]
  OBVIOUS
<1> QED BY Zenon, <1>1 DEF Range

\* Nothing is in the empty sequence.
LEMMA NoElement == Range(<<>>) = {} /\ Len(<<>>) = 0 /\ \A S : <<>> \in Seq(S)
<1>1. Range(<<>>) = {}
  BY DEF Range
<1> QED BY <1>1

\* One more at the end.
LEMMA AppendSeq ==
    ASSUME NEW S, NEW q \in Seq(S), NEW x \in S
    PROVE  /\ Append(q, x) \in Seq(S) /\ Len(Append(q, x)) = Len(q) + 1
           /\ \A i \in 1 .. Len(q) : Append(q, x)[i] = q[i]
           /\ Append(q, x)[Len(q) + 1] = x
OBVIOUS

\* The first k, and those after them.
LEMMA Prefix ==
    ASSUME NEW S, NEW q \in Seq(S), NEW k \in 0 .. Len(q)
    PROVE  /\ SubSeq(q, 1, k) \in Seq(S) /\ Len(SubSeq(q, 1, k)) = k
           /\ \A i \in 1 .. k : SubSeq(q, 1, k)[i] = q[i]
OBVIOUS

\* What is left of a sequence when its head is dropped.
LEMMA Suffix ==
    ASSUME NEW S, NEW q \in Seq(S), NEW k \in 0 .. Len(q)
    PROVE  /\ SubSeq(q, k + 1, Len(q)) \in Seq(S)
           /\ Len(SubSeq(q, k + 1, Len(q))) = Len(q) - k
           /\ \A i \in 1 .. Len(q) - k : SubSeq(q, k + 1, Len(q))[i] = q[k + i]
OBVIOUS

\* All but the first.
LEMMA TailSeq ==
    ASSUME NEW S, NEW q \in Seq(S), q # <<>>
    PROVE  /\ Tail(q) \in Seq(S) /\ Len(Tail(q)) = Len(q) - 1 /\ Len(q) >= 1
           /\ Head(q) = q[1] /\ Head(q) \in S
           /\ \A i \in 1 .. Len(q) - 1 : Tail(q)[i] = q[i + 1]
OBVIOUS

\* One sequence after another.
LEMMA ConcatSeq ==
    ASSUME NEW S, NEW p \in Seq(S), NEW q \in Seq(S)
    PROVE  /\ p \o q \in Seq(S) /\ Len(p \o q) = Len(p) + Len(q)
           /\ \A i \in 1 .. Len(p) : (p \o q)[i] = p[i]
           /\ \A i \in 1 .. Len(q) : (p \o q)[Len(p) + i] = q[i]
OBVIOUS

\* The records that are read from the binlog: those after a, up to b.
LEMMA Block ==
    ASSUME NEW a \in Nat, NEW b \in Nat, NEW S, a + 1 .. b \subseteq S
    PROVE  LET q == [i \in 1 .. b - a |-> a + i] IN
           /\ q \in Seq(S) /\ Len(q) = IF a <= b THEN b - a ELSE 0
           /\ \A i \in 1 .. Len(q) : q[i] = a + i
<1> DEFINE n == IF a <= b THEN b - a ELSE 0
           q == [i \in 1 .. b - a |-> a + i]
<1>1. n \in Nat /\ 1 .. b - a = 1 .. n
  OBVIOUS
<1>2. \A i \in 1 .. n : a + i \in S
  OBVIOUS
<1>3. q \in [1 .. n -> S]
  BY Zenon, <1>1, <1>2
<1>4. \A i \in 1 .. n : q[i] = a + i
  BY Zenon, <1>1
<1> HIDE DEF n, q
<1>5. q \in Seq(S) /\ Len(q) = n
  BY <1>1, <1>3
<1> QED BY Zenon, <1>4, <1>5 DEF n, q

\* They are sent after what is on the wire.
LEMMA ConcatBlock ==
    ASSUME NEW S, NEW w \in Seq(S), NEW a \in Nat, NEW b \in Nat, a <= b,
           a + 1 .. b \subseteq S
    PROVE  LET q == w \o [i \in 1 .. b - a |-> a + i] IN
           /\ q \in Seq(S) /\ Len(q) = Len(w) + (b - a)
           /\ \A i \in 1 .. Len(w) : q[i] = w[i]
           /\ \A i \in 1 .. b - a : q[Len(w) + i] = a + i
<1> DEFINE t == [i \in 1 .. b - a |-> a + i]
<1>1. t \in Seq(S) /\ Len(t) = b - a /\ \A i \in 1 .. Len(t) : t[i] = a + i
  BY Zenon, Block
<1> HIDE DEF t
<1>2. /\ w \o t \in Seq(S) /\ Len(w \o t) = Len(w) + Len(t)
      /\ \A i \in 1 .. Len(w) : (w \o t)[i] = w[i]
      /\ \A i \in 1 .. Len(t) : (w \o t)[Len(w) + i] = t[i]
  BY <1>1
<1> QED BY Zenon, <1>1, <1>2 DEF t

-----------------------------------------------------------------------------
(* Steps of one slave's replication or of the slave.                       *)

\* The types of a replication and of a slave.
LEMMA Fields ==
    ASSUME TypeOK, NEW s \in Slave
    PROVE  /\ rep[s] \in Replica /\ sv[s] \in SlaveState
           /\ rep[s].queue \in Seq(Version) /\ rep[s].ring \subseteq Version
           /\ rep[s].previous \in 0 .. MaxVersion /\ rep[s].current \in 0 .. MaxVersion
           /\ rep[s].by_queue \in 0 .. MaxVersion /\ rep[s].by_resp \in 0 .. MaxVersion
           /\ rep[s].last \in -1 .. MaxVersion /\ rep[s].pos \in 0 .. MaxVersion
           /\ rep[s].done \in Seq((0 .. MaxVersion) \cup {ENOENT})
           /\ sv[s].replaying \subseteq Version /\ sv[s].applied \subseteq Version
           /\ sv[s].replayed \in 0 .. MaxVersion /\ sv[s].before \in 0 .. MaxVersion
           /\ sv[s].current \in 0 .. MaxVersion
           /\ wire[s] \in Seq(Version) /\ acks[s] \in Seq(Version)
           /\ forgot[s] \subseteq Version
<1>1. rep[s] \in Replica /\ sv[s] \in SlaveState
  BY Zenon DEF TypeOK
<1>2. wire[s] \in Seq(Version) /\ acks[s] \in Seq(Version) /\ forgot[s] \subseteq Version
  BY Zenon DEF TypeOK
<1> QED BY Zenon, <1>1, <1>2 DEF Replica, SlaveState

\* A step that concerns s alone.
Local(s) ==
    /\ rep' = [rep EXCEPT ![s] = rep'[s]] /\ sv' = [sv EXCEPT ![s] = sv'[s]]
    /\ wire' = [wire EXCEPT ![s] = wire'[s]] /\ acks' = [acks EXCEPT ![s] = acks'[s]]
    /\ forgot' = [forgot EXCEPT ![s] = forgot'[s]]
    /\ UNCHANGED <<version, written>>

\* A variable that is left alone, or changed at s.
LEMMA AtMostAt ==
    ASSUME NEW S, NEW f \in [Slave -> S], NEW g, NEW s \in Slave,
           g = f \/ \E e : g = [f EXCEPT ![s] = e]
    PROVE  g = [f EXCEPT ![s] = g[s]]
<1>1. CASE g = f
  BY Zenon, <1>1
<1>2. ASSUME NEW e, g = [f EXCEPT ![s] = e] PROVE g = [f EXCEPT ![s] = g[s]]
  <2>1. g[s] = e
    BY Zenon, <1>2
  <2> QED BY Zenon, <1>2, <2>1
<1> QED BY Zenon, <1>1, <1>2

\* The failures are counted.
LEMMA Counted ==
    ASSUME TypeOK, \/ UNCHANGED <<breaks, timeouts>>
                   \/ MayFail /\ breaks' = breaks + 1 /\ timeouts' = timeouts
                   \/ MayFail /\ breaks' = breaks /\ timeouts' = timeouts + 1
    PROVE  /\ breaks' \in 0 .. MaxFailures /\ timeouts' \in 0 .. MaxFailures - breaks'
           /\ timeouts' = 0 => timeouts = 0
BY BoundAssumption DEF TypeOK, MayFail

\* If the counts are exact they have their type.
LEMMA CountType ==
    ASSUME NEW w, w = [v \in Version |-> w[v]],
           \A v \in Version : \E H \in SUBSET Slave : w[v] = Cardinality(H)
    PROVE  w \in [Version -> 0 .. Cardinality(Slave)]
<1> SUFFICES ASSUME NEW v \in Version PROVE w[v] \in 0 .. Cardinality(Slave)
  BY Zenon
<1>1. PICK H \in SUBSET Slave : w[v] = Cardinality(H)
  BY Zenon
<1>2. IsFiniteSet(Slave) /\ Cardinality(H) \in Nat /\ Cardinality(H) <= Cardinality(Slave)
  BY Zenon, SlaveAssumption, FS_Subset, FS_CardinalityType
<1>3. Cardinality(Slave) \in Nat
  BY Zenon, SlaveAssumption, FS_CardinalityType
<1> QED BY <1>1, <1>2, <1>3

\* The slaves that hold version v.
Holders(v) == {s \in Slave : v \in Held(s)}

\* CountIsExact with the holders as a set.
LEMMA CountDef == CountIsExact <=> \A v \in Version : waiting[v] = Cardinality(Holders(v))
<1>1. \A v : Holders(v) = {s \in Slave : v \in Range(rep[s].queue) \/ v \in rep[s].ring}
  BY Zenon DEF Holders, Held
<1> QED BY Zenon, <1>1 DEF CountIsExact

\* The same of the next state.
LEMMA CountDefNext ==
    CountIsExact' <=> \A v \in Version : waiting'[v] = Cardinality(Holders(v)')
<1>1. \A v : Holders(v)' = {s \in Slave : v \in Range(rep'[s].queue) \/ v \in rep'[s].ring}
  BY Zenon DEF Holders, Held
<1> QED BY Zenon, <1>1 DEF CountIsExact

\* Letting go of what is held, and of nothing else, keeps the counts exact.
LEMMA Release ==
    ASSUME TypeOK, CountIsExact, NEW s \in Slave, Local(s), NEW V \in SUBSET Held(s),
           waiting' = Released(V), Held(s)' = Held(s) \ V
    PROVE  CountIsExact' /\ waiting' \in [Version -> 0 .. Cardinality(Slave)]
<1>1. \A t \in Slave \ {s} : Held(t)' = Held(t)
  BY Zenon DEF Local, Held, TypeOK
<1>2. ASSUME NEW v \in Version PROVE waiting'[v] = Cardinality(Holders(v)')
  <2>1. waiting[v] = Cardinality(Holders(v)) /\ IsFiniteSet(Holders(v))
    <3>1. Holders(v) \subseteq Slave
      BY Zenon DEF Holders
    <3> QED BY Zenon, <3>1, CountDef, SlaveAssumption, FS_Subset
  <2>2. CASE v \in V
    <3>1. s \in Holders(v) /\ Holders(v)' = Holders(v) \ {s}
      BY Zenon, <1>1, <2>2 DEF Holders
    <3>2. Cardinality(Holders(v) \ {s}) = Cardinality(Holders(v)) - 1
      BY Zenon, <2>1, <3>1, FS_RemoveElement
    <3> QED BY Zenon, <2>1, <2>2, <3>1, <3>2 DEF Released
  <2>3. CASE v \notin V
    <3>1. Holders(v)' = Holders(v)
      BY Zenon, <1>1, <2>3 DEF Holders
    <3> QED BY Zenon, <2>1, <2>3, <3>1 DEF Released
  <2> QED BY Zenon, <2>2, <2>3
<1>3. CountIsExact'
  BY Zenon, <1>2, CountDefNext
<1>4. \A v \in Version : \E H \in SUBSET Slave : waiting'[v] = Cardinality(H)
  <2>1. \A v : Holders(v)' \in SUBSET Slave
    BY Zenon DEF Holders
  <2> QED BY Zenon, <1>2, <2>1
<1>5. waiting' = [v \in Version |-> waiting'[v]]
  BY Zenon DEF Released
<1> QED BY Zenon, <1>3, <1>4, <1>5, CountType

\* So does leaving everything with the replication.
LEMMA Keep ==
    ASSUME TypeOK, CountIsExact, NEW s \in Slave, Local(s), waiting' = waiting,
           Held(s)' = Held(s)
    PROVE  CountIsExact' /\ waiting' \in [Version -> 0 .. Cardinality(Slave)]
<1>1. \A t \in Slave : Held(t)' = Held(t)
  BY Zenon DEF Local, Held, TypeOK
<1>2. \A v : Holders(v)' = Holders(v)
  BY Zenon, <1>1 DEF Holders
<1> QED BY Zenon, <1>2, CountDef, CountDefNext DEF TypeOK

\* A slave to which nothing happens.
LEMMA SameSlave ==
    ASSUME NEW t \in Slave, SlaveInv(t), rep'[t] = rep[t], sv'[t] = sv[t],
           wire'[t] = wire[t], acks'[t] = acks[t], forgot'[t] = forgot[t],
           version' = version, written' = written, timeouts' = 0 => timeouts = 0
    PROVE  SlaveInv(t)'
<1>1. /\ rep'[t] = rep[t] /\ sv'[t] = sv[t] /\ wire'[t] = wire[t] /\ acks'[t] = acks[t]
      /\ forgot'[t] = forgot[t] /\ version' = version /\ written' = written
  BY Zenon
<1>2. /\ Passed(t)' = Passed(t) /\ Joined(t)' = Joined(t) /\ ReadFrom(t)' = ReadFrom(t)
      /\ Has(t)' = Has(t)
  BY Zenon, <1>1 DEF Passed, Joined, ReadFrom, Has
<1>3. Sent(t)' = Sent(t) /\ Settled(t)' = Settled(t)
  BY Zenon, <1>1, <1>2 DEF Sent, Settled
<1>4. QueueInOrder(t)' /\ OneConsumer(t)' /\ Fresh(t)' /\ Reading(t)'
  BY Zenon, <1>1, <1>2 DEF SlaveInv, QueueInOrder, OneConsumer, Fresh, Reading
<1>5. NoHoles(t)'
  BY Zenon, <1>1, <1>2, <1>3 DEF SlaveInv, NoHoles
<1>9. WireAll(t)'
  <2>1. WireAll(t)
    BY Zenon DEF SlaveInv
  <2>2. wire'[t] = wire[t] /\ Settled(t)' = Settled(t)
    BY Zenon, <1>1, <1>3
  <2> QED BY <2>1, <2>2 DEF WireAll
<1>8. SentAll(t)'
  BY Zenon, <1>1, <1>2, <1>3 DEF SlaveInv, SentAll
<1>6. Discarded(t)' /\ EndOfFile(t)'
  BY Zenon, <1>1, <1>2 DEF SlaveInv, Discarded, EndOfFile
<1>7. InOrder(t)'
  BY Zenon, <1>1, <1>2, <1>3 DEF SlaveInv, InOrder
<1> QED BY Zenon, <1>4, <1>5, <1>6, <1>7, <1>8, <1>9 DEF SlaveInv

\* The other slaves are not concerned.
LEMMA Others ==
    ASSUME TypeOK, NEW s \in Slave, Local(s), timeouts' = 0 => timeouts = 0,
           NEW t \in Slave \ {s}, SlaveInv(t)
    PROVE  SlaveInv(t)'
<1>1. /\ rep'[t] = rep[t] /\ sv'[t] = sv[t] /\ wire'[t] = wire[t] /\ acks'[t] = acks[t]
      /\ forgot'[t] = forgot[t] /\ version' = version /\ written' = written
  BY Zenon DEF Local, TypeOK
<1> QED BY Zenon, <1>1, SameSlave

\* What has to be shown of a step that concerns s alone.
LEMMA LocalStep ==
    ASSUME IInv, NEW s \in Slave, Local(s),
           \/ UNCHANGED <<breaks, timeouts>>
           \/ MayFail /\ breaks' = breaks + 1 /\ timeouts' = timeouts
           \/ MayFail /\ breaks' = breaks /\ timeouts' = timeouts + 1,
           rep'[s] \in Replica, sv'[s] \in SlaveState, wire'[s] \in Seq(Version),
           acks'[s] \in Seq(Version), forgot'[s] \subseteq Version,
           \/ waiting' = waiting /\ Held(s)' = Held(s)
           \/ \E V \in SUBSET Held(s) : waiting' = Released(V) /\ Held(s)' = Held(s) \ V,
           SlaveInv(s)'
    PROVE  IInv'
<1>1. TypeOK /\ CountIsExact
  BY Zenon DEF IInv
<1>2. CountIsExact' /\ waiting' \in [Version -> 0 .. Cardinality(Slave)]
  BY Zenon, <1>1, Release, Keep
<1>3. /\ breaks' \in 0 .. MaxFailures /\ timeouts' \in 0 .. MaxFailures - breaks'
      /\ timeouts' = 0 => timeouts = 0
  BY Zenon, <1>1, Counted
<1>4. /\ rep' \in [Slave -> Replica] /\ sv' \in [Slave -> SlaveState]
      /\ wire' \in [Slave -> Seq(Version)] /\ acks' \in [Slave -> Seq(Version)]
      /\ forgot' \in [Slave -> SUBSET Version]
  BY Zenon, <1>1 DEF Local, TypeOK
<1>5. TypeOK'
  BY Zenon, <1>1, <1>2, <1>3, <1>4 DEF TypeOK, Local
<1>6. \A t \in Slave : SlaveInv(t)'
  BY Zenon, <1>1, <1>3, Others DEF IInv
<1> QED BY Zenon, <1>2, <1>5, <1>6 DEF IInv

\* All steps but those of the producer and of the binlog writer concern one slave.
LEMMA IsLocal ==
    ASSUME TypeOK, NEW s \in Slave,
           \/ Thread(s) \/ ReadBinlog(s) \/ Join(s) \/ JoinRefused(s) \/ PushResp(s)
           \/ Consumer(s) \/ Failures(s)
    PROVE  Local(s)
<1> DEFINE At(f, g) == g = f \/ \E e : g = [f EXCEPT ![s] = e]
           All == /\ At(rep, rep') /\ At(sv, sv') /\ At(wire, wire') /\ At(acks, acks')
                  /\ At(forgot, forgot') /\ UNCHANGED <<version, written>>
<1> SUFFICES All
  BY ZenonT(30), AtMostAt DEF Local, TypeOK
<1>1. Rebind(s) => At(rep, rep') /\ At(acks, acks') /\ At(forgot, forgot')
  BY Zenon DEF Rebind, Set
<1>2. Orphan(s) => At(sv, sv')
  BY Zenon DEF Orphan, SetSlave
<1>3. ASSUME NEW q, Answer(s, q) PROVE At(acks, acks')
  BY Zenon, <1>3 DEF Answer
<1>4. CASE DiscardAll(s) \/ Connect(s) \/ WaitJoin(s) \/ StartReader(s) \/ DiskIdle(s)
           \/ DiskEnd(s)
  BY Zenon, <1>4 DEF DiscardAll, Connect, WaitJoin, StartReader, DiskIdle, DiskEnd, Set
<1>5. CASE SyncFromDisk(s) \/ SwitchToQueue(s) \/ SyncFromQueue(s) \/ ReadBinlog(s) \/ Join(s)
  BY Zenon, <1>5 DEF SyncFromDisk, SwitchToQueue, SyncFromQueue, ReadBinlog, Join, JoinResp,
        Set, SetSlave
<1>6. CASE StartReaderFail(s) \/ JoinRefused(s) \/ Disconnect(s)
  BY Zenon, <1>1, <1>2, <1>6 DEF StartReaderFail, JoinRefused, Disconnect
<1>7. CASE PushResp(s)
  BY Zenon, <1>1, <1>2, <1>7 DEF PushResp, Set
<1>8. CASE Consumer(s)
  BY Zenon, <1>3, <1>8 DEF Consumer, Replay, TerminateConsumer, Apply, SetSlave
<1>9. CASE Restart(s) \/ ClearTimeouts(s)
  BY Zenon, <1>1, <1>9 DEF Restart, ClearTimeouts, Set, SetSlave
<1> QED BY Zenon, <1>4, <1>5, <1>6, <1>7, <1>8, <1>9 DEF Thread, Failures

\* What a step that leaves the slave and the messages alone keeps.
LEMMA SameData ==
    ASSUME NEW s \in Slave, SlaveInv(s), sv'[s] = sv[s], wire'[s] = wire[s],
           forgot'[s] = forgot[s]
    PROVE  /\ NoHoles(s)' /\ WireAll(s)'
           /\ Has(s)' = Has(s) /\ Settled(s)' = Settled(s)
<1>1. Has(s)' = Has(s) /\ Settled(s)' = Settled(s)
  BY Zenon DEF Has, Settled
<1>2. NoHoles(s)'
  BY Zenon, <1>1 DEF SlaveInv, NoHoles
<1>3. WireAll(s)'
  <2>1. WireAll(s)
    BY Zenon DEF SlaveInv
  <2> QED BY <1>1, <2>1 DEF WireAll
<1> QED BY Zenon, <1>1, <1>2, <1>3

\* A step of the replication's thread that sends nothing.
LEMMA RepStep ==
    ASSUME IInv, NEW s \in Slave, Local(s), UNCHANGED <<sv, wire, acks, forgot>>,
           UNCHANGED <<breaks, timeouts>>, rep'[s] \in Replica,
           \/ waiting' = waiting /\ Held(s)' = Held(s)
           \/ \E V \in SUBSET Held(s) : waiting' = Released(V) /\ Held(s)' = Held(s) \ V,
           Joined(s)' => /\ Joined(s) /\ Sent(s)' = Sent(s)
                         /\ rep'[s].current = rep[s].current
                         /\ rep'[s].by_resp = rep[s].by_resp /\ rep'[s].ring = rep[s].ring
                         /\ rep'[s].stage = "sync_from_queue" <=> rep[s].stage = "sync_from_queue",
           QueueInOrder(s)', Reading(s)', Discarded(s)', EndOfFile(s)', Fresh(s)'
    PROVE  IInv'
<1>1. /\ TypeOK /\ SlaveInv(s) /\ sv[s] \in SlaveState /\ wire[s] \in Seq(Version)
      /\ acks[s] \in Seq(Version) /\ forgot[s] \subseteq Version
  BY Zenon, Fields DEF IInv
<1>2. NoHoles(s)' /\ WireAll(s)' /\ Has(s)' = Has(s) /\ Settled(s)' = Settled(s)
  BY Zenon, <1>1, SameData
<1>3. OneConsumer(s)'
  BY Zenon, <1>1 DEF SlaveInv, OneConsumer
<1>4. SentAll(s)'
  BY Zenon, <1>1, <1>2 DEF SlaveInv, SentAll
<1>5. InOrder(s)'
  BY Zenon, <1>1 DEF SlaveInv, InOrder
<1>6. SlaveInv(s)'
  BY Zenon, <1>2, <1>3, <1>4, <1>5 DEF SlaveInv
<1> QED BY Zenon, <1>1, <1>6, LocalStep

-----------------------------------------------------------------------------
(* The thread of a replication.                                            *)

\* What is in the queue, and what is owed, by QueueInOrder.
LEMMA HeldParts ==
    ASSUME TypeOK, NEW s \in Slave, QueueInOrder(s)
    PROVE  /\ Passed(s) \in Nat /\ Len(rep[s].queue) \in Nat
           /\ version = Passed(s) + Len(rep[s].queue)
           /\ Range(rep[s].queue) = Passed(s) + 1 .. version
           /\ Range(rep[s].queue) \cap rep[s].ring = {}
<1> DEFINE q == rep[s].queue
           n == Len(q)
           p == Passed(s)
<1>1. q \in Seq(Version) /\ n \in Nat /\ rep[s].ring \subseteq Version
  BY Zenon, Fields, RangeSeq
<1>2. version \in Nat /\ written \in Nat
  BY BoundAssumption DEF TypeOK
<1>3. p = version - n /\ written <= p /\ rep[s].ring \subseteq written + 1 .. p
  BY Zenon DEF QueueInOrder, Passed
<1>4. \A x : x \in Range(q) <=> \E i \in 1 .. n : p + i = x
  <2>1. \A x : x \in Range(q) <=> \E i \in 1 .. n : q[i] = x
    BY Zenon, <1>1, RangeSeq
  <2>2. \A i \in 1 .. n : q[i] = p + i
    BY Zenon DEF QueueInOrder
  <2> QED BY Zenon, <2>1, <2>2
<1> HIDE DEF q, n, p
<1>5. p \in Nat /\ version = p + n
  BY <1>1, <1>2, <1>3
<1>6. \A x : (\E i \in 1 .. n : p + i = x) <=> x \in p + 1 .. version
  <2>1. ASSUME NEW x \in p + 1 .. version PROVE \E i \in 1 .. n : p + i = x
    <3>1. x - p \in 1 .. n /\ p + (x - p) = x
      BY <1>1, <1>2, <1>5
    <3> QED BY Zenon, <3>1
  <2>2. \A i \in 1 .. n : p + i \in p + 1 .. version
    BY <1>1, <1>2, <1>5
  <2> QED BY Zenon, <2>1, <2>2
<1>7. Range(q) = p + 1 .. version
  BY Zenon, <1>4, <1>6
<1>8. Range(q) \cap rep[s].ring = {}
  <2>1. \A x \in written + 1 .. p : x \notin p + 1 .. version
    BY <1>2, <1>5
  <2> QED BY Zenon, <1>3, <1>7, <2>1
<1> QED BY Zenon, <1>1, <1>5, <1>7, <1>8 DEF q, n, p

\* Facts that every step at s begins with.
LEMMA Begin ==
    ASSUME IInv, NEW s \in Slave
    PROVE  /\ TypeOK /\ SlaveInv(s) /\ QueueInOrder(s) /\ OneConsumer(s) /\ NoHoles(s)
           /\ WireAll(s) /\ SentAll(s) /\ Reading(s) /\ Discarded(s) /\ EndOfFile(s)
           /\ InOrder(s) /\ Fresh(s)
           /\ rep \in [Slave -> Replica] /\ sv \in [Slave -> SlaveState]
           /\ wire \in [Slave -> Seq(Version)] /\ acks \in [Slave -> Seq(Version)]
           /\ forgot \in [Slave -> SUBSET Version]
           /\ version \in Nat /\ written \in Nat /\ written <= version
           /\ version <= MaxVersion /\ MaxVersion \in Nat
<1>1. TypeOK /\ SlaveInv(s)
  BY Zenon DEF IInv
<1>2. /\ version \in Nat /\ written \in Nat /\ written <= version /\ version <= MaxVersion
      /\ MaxVersion \in Nat
  BY <1>1, BoundAssumption DEF TypeOK
<1> QED BY Zenon, <1>1, <1>2 DEF SlaveInv, TypeOK

\* replication_queue_discard_all.
LEMMA DiscardAllStep ==
    ASSUME IInv, NEW s \in Slave, DiscardAll(s)
    PROVE  IInv'
<1> DEFINE r == rep[s]
           b == IF r.queue = <<>> THEN r.by_queue ELSE r.queue[Len(r.queue)]
           n == [r EXCEPT !.queue = <<>>, !.dealing = TRUE, !.by_queue = b]
<1>1. Local(s)
  BY Zenon, Begin, IsLocal DEF Thread
<1>2. /\ rep'[s] = n /\ r.stage # "sync_from_queue" /\ waiting' = Released(Range(r.queue))
      /\ UNCHANGED <<version, written, sv, wire, acks, breaks, timeouts, forgot>>
  BY Zenon, Begin DEF DiscardAll, Set
<1>3. /\ Passed(s) \in Nat /\ Len(r.queue) \in Nat /\ version = Passed(s) + Len(r.queue)
      /\ Range(r.queue) = Passed(s) + 1 .. version /\ r.ring = {}
      /\ r.queue # <<>> => Len(r.queue) \in 1 .. Len(r.queue) /\ r.queue[Len(r.queue)] = version
  <2>1. /\ Passed(s) \in Nat /\ Len(r.queue) \in Nat /\ version = Passed(s) + Len(r.queue)
        /\ Range(r.queue) = Passed(s) + 1 .. version
    BY Zenon, Begin, HeldParts
  <2>2. QueueInOrder(s) /\ r.queue \in Seq(Version)
    BY Zenon, Begin, Fields
  <2>3. r.queue # <<>> => Len(r.queue) \in 1 .. Len(r.queue)
    BY <2>1, <2>2
  <2> QED BY Zenon, <1>2, <2>1, <2>2, <2>3 DEF QueueInOrder
<1>4. /\ n.queue = <<>> /\ n.ring = r.ring /\ n.by_queue = b /\ n.stage = r.stage
      /\ n.last = r.last /\ n.current = r.current /\ n.by_resp = r.by_resp
      /\ n.pos = r.pos /\ n.done = r.done
  <2>1. r \in Replica
    BY Zenon, Begin
  <2> QED BY Zenon, <2>1 DEF Replica
<1>5. b \in 0 .. MaxVersion
  <2>1. version \in 0 .. MaxVersion /\ r.by_queue \in 0 .. MaxVersion
    BY Zenon, Begin, Fields DEF TypeOK
  <2> QED BY Zenon, <1>3, <2>1
<1>6. n \in Replica
  <2>1. <<>> \in Seq(Version)
    OBVIOUS
  <2>2. r \in Replica
    BY Zenon, Begin
  <2> QED BY Zenon, <1>5, <2>1, <2>2 DEF Replica
<1> HIDE DEF n
<1>7. Held(s)' = Held(s) \ Range(r.queue) /\ Range(r.queue) \in SUBSET Held(s)
  <2>1. Range(<<>>) = {}
    BY DEF Range
  <2> QED BY Zenon, <1>2, <1>3, <1>4, <2>1 DEF Held
<1>8. Passed(s)' = version /\ Passed(s) <= version
  <2>1. Passed(s)' = version - 0 /\ version \in Nat
    BY Zenon, <1>2, <1>4, Begin, NoElement DEF Passed
  <2> QED BY <1>3, <2>1
<1>9. QueueInOrder(s)'
  <2>1. n.queue = <<>> /\ Len(n.queue) = 0 /\ written <= version
    BY Zenon, <1>4, Begin, NoElement
  <2>2. \A i \in 1 .. 0 : FALSE
    OBVIOUS
  <2> QED BY Zenon, <1>2, <1>3, <1>4, <1>8, <2>1, <2>2 DEF QueueInOrder
<1>10. ReadFrom(s)' = ReadFrom(s)
  BY Zenon, <1>2, <1>4 DEF ReadFrom
<1>11. Reading(s)' /\ Fresh(s)'
  <2>1. Reading(s) /\ Fresh(s)
    BY Zenon, Begin
  <2> QED BY Zenon, <1>2, <1>4, <1>10, <2>1 DEF Reading, Fresh
<1>12. (b = r.by_queue /\ Passed(s) = version) \/ (b = version /\ b # 0)
  <2>1. CASE r.queue = <<>>
    <3>1. Len(r.queue) = 0
      BY <2>1
    <3> QED BY <1>3, <2>1, <3>1
  <2>2. CASE r.queue # <<>>
    BY <1>3, <2>2
  <2> QED BY Zenon, <2>1, <2>2
<1>13. Discarded(s)'
  <2>1. Discarded(s)
    BY Zenon, Begin
  <2> QED BY Zenon, <1>2, <1>4, <1>8, <1>12, <2>1 DEF Discarded
<1>14. EndOfFile(s)'
  <2>1. EndOfFile(s)
    BY Zenon, Begin
  <2> QED BY Zenon, <1>2, <1>4, <1>8, <1>10, <1>12, <2>1 DEF EndOfFile
<1>15. Joined(s)' => Joined(s) /\ Sent(s)' = Sent(s)
  BY Zenon, <1>2, <1>4, <1>10 DEF Joined, Sent
<1> QED BY Zenon, <1>1, <1>2, <1>4, <1>6, <1>7, <1>9, <1>11, <1>13, <1>14, <1>15, RepStep

\* The thread goes from one half of an iteration to the other.
LEMMA DealStep ==
    ASSUME IInv, NEW s \in Slave, WaitJoin(s) \/ DiskIdle(s)
    PROVE  IInv'
<1> DEFINE r == rep[s]
           n == [r EXCEPT !.dealing = FALSE]
<1>1. Local(s)
  BY Zenon, Begin, IsLocal DEF Thread
<1>2. /\ rep'[s] = n
      /\ UNCHANGED <<version, written, waiting, sv, wire, acks, breaks, timeouts, forgot>>
  BY Zenon, Begin DEF WaitJoin, DiskIdle, Set
<1>3. r \in Replica
  BY Zenon, Begin
<1>4. /\ n.queue = r.queue /\ n.ring = r.ring /\ n.by_queue = r.by_queue /\ n.stage = r.stage
      /\ n.last = r.last /\ n.current = r.current /\ n.by_resp = r.by_resp
      /\ n.pos = r.pos /\ n.done = r.done /\ n \in Replica
  BY Zenon, <1>3 DEF Replica
<1> HIDE DEF n
<1>5. /\ Held(s)' = Held(s) /\ Passed(s)' = Passed(s) /\ ReadFrom(s)' = ReadFrom(s)
      /\ Joined(s)' = Joined(s)
  BY Zenon, <1>2, <1>4 DEF Held, Passed, ReadFrom, Joined
<1>6. Sent(s)' = Sent(s)
  BY Zenon, <1>2, <1>4, <1>5 DEF Sent
<1>7. QueueInOrder(s)' /\ Reading(s)' /\ Discarded(s)' /\ EndOfFile(s)' /\ Fresh(s)'
  <2>1. QueueInOrder(s) /\ Reading(s) /\ Discarded(s) /\ EndOfFile(s) /\ Fresh(s)
    BY Zenon, Begin
  <2> QED BY ZenonT(30), <1>2, <1>4, <1>5, <2>1 DEF QueueInOrder, Reading, Discarded, EndOfFile, Fresh
<1> QED BY Zenon, <1>1, <1>2, <1>4, <1>5, <1>6, <1>7, RepStep

\* deal_replication_connectings.
LEMMA ConnectStep ==
    ASSUME IInv, NEW s \in Slave, Connect(s)
    PROVE  IInv'
<1> DEFINE r == rep[s]
           n == [r EXCEPT !.stage = "waiting_join_resp", !.last = -1, !.dealing = FALSE]
<1>1. Local(s)
  BY Zenon, Begin, IsLocal DEF Thread
<1>2. /\ rep'[s] = n /\ r.stage = "none"
      /\ UNCHANGED <<version, written, waiting, sv, wire, acks, breaks, timeouts, forgot>>
  BY Zenon, Begin DEF Connect, Set
<1>3. r \in Replica /\ -1 \in -1 .. MaxVersion
  BY Begin
<1>4. /\ n.queue = r.queue /\ n.ring = r.ring /\ n.by_queue = r.by_queue
      /\ n.stage = "waiting_join_resp"
      /\ n.last = -1 /\ n.current = r.current /\ n.by_resp = r.by_resp
      /\ n.done = r.done /\ n \in Replica
  BY Zenon, <1>3 DEF Replica
<1> HIDE DEF n
<1>5. /\ Held(s)' = Held(s) /\ Passed(s)' = Passed(s) /\ ~Joined(s)'
  BY Zenon, <1>2, <1>4 DEF Held, Passed, Joined
<1>6. QueueInOrder(s)' /\ Discarded(s)' /\ Fresh(s)'
  <2>1. QueueInOrder(s) /\ Discarded(s) /\ Fresh(s)
    BY Zenon, Begin
  <2> QED BY Zenon, <1>2, <1>4, <1>5, <2>1 DEF QueueInOrder, Discarded, Fresh
<1>7. Reading(s)' /\ EndOfFile(s)'
  BY Zenon, <1>2, <1>4 DEF Reading, EndOfFile
<1> QED BY Zenon, <1>1, <1>2, <1>4, <1>5, <1>6, <1>7, RepStep

\* start_binlog_read_thread.
LEMMA StartReaderStep ==
    ASSUME IInv, NEW s \in Slave, StartReader(s)
    PROVE  IInv'
<1> DEFINE r == rep[s]
           n == [r EXCEPT !.stage = "sync_from_disk", !.pos = r.last, !.dealing = FALSE]
<1>1. Local(s)
  BY Zenon, Begin, IsLocal DEF Thread
<1>2. /\ rep'[s] = n /\ r.stage = "waiting_join_resp" /\ r.last \in 0 .. written
      /\ UNCHANGED <<version, written, waiting, sv, wire, acks, breaks, timeouts, forgot>>
  BY Zenon, Begin DEF StartReader, Set
<1>3. /\ r \in Replica /\ r.last \in 0 .. MaxVersion /\ r.last # -1 /\ r.last <= written
      /\ r.current = 0 /\ r.done = <<>> /\ Len(r.done) = 0
  <2>1. r \in Replica /\ Fresh(s)
    BY Zenon, Begin
  <2>2. r.last \in 0 .. MaxVersion /\ r.last # -1 /\ r.last <= written
    <3>1. written \in Nat /\ written <= version /\ version <= MaxVersion
          /\ version \in Nat /\ MaxVersion \in Nat
      BY Zenon, Begin
    <3> QED BY <1>2, <3>1
  <2>3. r.current = 0 /\ r.done = <<>>
    BY Zenon, <1>2, <2>1 DEF Fresh
  <2>4. Len(r.done) = 0
    BY Zenon, <2>3
  <2> QED BY Zenon, <2>1, <2>2, <2>3, <2>4
<1>4. /\ n.queue = r.queue /\ n.ring = r.ring /\ n.by_queue = r.by_queue
      /\ n.stage = "sync_from_disk" /\ n.pos = r.last
      /\ n.last = r.last /\ n.current = r.current /\ n.by_resp = r.by_resp
      /\ n.done = r.done /\ n \in Replica
  BY Zenon, <1>3 DEF Replica
<1> HIDE DEF n
<1>5. /\ Held(s)' = Held(s) /\ Passed(s)' = Passed(s) /\ Joined(s)
      /\ ReadFrom(s)' = r.last /\ ReadFrom(s) = r.last
  BY Zenon, <1>2, <1>3, <1>4 DEF Held, Passed, Joined, ReadFrom
<1>6. Sent(s)' = Sent(s)
  BY Zenon, <1>2, <1>4, <1>5 DEF Sent
<1>7. QueueInOrder(s)' /\ Discarded(s)' /\ Fresh(s)'
  <2>1. QueueInOrder(s) /\ Discarded(s) /\ Fresh(s)
    BY Zenon, Begin
  <2> QED BY Zenon, <1>2, <1>4, <1>5, <2>1 DEF QueueInOrder, Discarded, Fresh
<1>8. Reading(s)' /\ EndOfFile(s)'
  BY <1>2, <1>3, <1>4, <1>5 DEF Reading, EndOfFile
<1> QED BY Zenon, <1>1, <1>2, <1>4, <1>5, <1>6, <1>7, <1>8, RepStep

\* What the results that were fetched reach up to is a version, or 0.
LEMMA ReadFromType ==
    ASSUME IInv, NEW s \in Slave, rep[s].stage = "sync_from_disk"
    PROVE  ReadFrom(s) \in Nat
<1>1. rep[s].current \in 0 .. MaxVersion /\ rep[s].last \in -1 .. MaxVersion
  BY Zenon, Begin, Fields
<1>2. rep[s].last # -1
  BY Zenon, Begin DEF Reading
<1> QED BY <1>1, <1>2 DEF ReadFrom

\* The results of the read thread.
Result == (0 .. MaxVersion) \cup {ENOENT}

\* binlog_read_thread_func: the binlog is at its end, or a part of it has been read.
LEMMA ReadBinlogStep ==
    ASSUME IInv, NEW s \in Slave, ReadBinlog(s)
    PROVE  IInv'
<1> DEFINE r == rep[s]
           d == r.done
<1>0. /\ Local(s) /\ r \in Replica /\ d \in Seq(Result) /\ Len(d) \in Nat
      /\ r.pos \in Nat /\ r.stage = "sync_from_disk"
      /\ Reading(s) /\ QueueInOrder(s) /\ Discarded(s) /\ EndOfFile(s) /\ Fresh(s)
      /\ UNCHANGED <<version, written, waiting, sv, wire, acks, breaks, timeouts, forgot>>
  <2>1. Len(d) \in Nat /\ r.pos \in Nat
    <3>1. d \in Seq(Result) /\ r.pos \in 0 .. MaxVersion
      BY Zenon, Begin, Fields DEF Result
    <3> QED BY <3>1
  <2> QED BY Zenon, <2>1, Begin, Fields, IsLocal DEF ReadBinlog, Result
<1>1. ASSUME NEW e \in Result, NEW p \in 0 .. MaxVersion,
             rep'[s] = [r EXCEPT !.done = Append(@, e), !.pos = p],
             \/ e = ENOENT /\ p = r.pos /\ p = written
             \/ e = p /\ r.pos < p /\ p <= written
      PROVE  IInv'
  <2> DEFINE n == [r EXCEPT !.done = Append(@, e), !.pos = p]
  <2>1. /\ Append(d, e) \in Seq(Result) /\ Len(Append(d, e)) = Len(d) + 1
        /\ \A i \in 1 .. Len(d) : Append(d, e)[i] = d[i]
        /\ Append(d, e)[Len(d) + 1] = e
    <3> DEFINE read == d
    <3>1. read \in Seq(Result)
      BY Zenon, <1>0
    <3> HIDE DEF read
    <3>2. /\ Append(read, e) \in Seq(Result) /\ Len(Append(read, e)) = Len(read) + 1
          /\ \A i \in 1 .. Len(read) : Append(read, e)[i] = read[i]
          /\ Append(read, e)[Len(read) + 1] = e
      BY <3>1
    <3> QED BY Zenon, <3>2 DEF read
  <2>2. /\ n.queue = r.queue /\ n.ring = r.ring /\ n.by_queue = r.by_queue
        /\ n.stage = r.stage /\ n.pos = p /\ n.last = r.last /\ n.current = r.current
        /\ n.by_resp = r.by_resp /\ n.done = Append(d, e)
    BY Zenon, <1>0 DEF Replica
  <2>3. n \in Replica
    BY Zenon, <1>0, <2>1 DEF Replica, Result
  <2>4. rep'[s] = n
    BY Zenon, <1>1
  <2> HIDE DEF n
  <2>5. /\ Held(s)' = Held(s) /\ Passed(s)' = Passed(s) /\ Joined(s)' = Joined(s)
        /\ ReadFrom(s)' = ReadFrom(s)
    BY Zenon, <1>0, <2>2, <2>4 DEF Held, Passed, Joined, ReadFrom
  <2>6. Sent(s)' = Sent(s)
    BY Zenon, <1>0, <2>2, <2>4, <2>5 DEF Sent
  <2>7. QueueInOrder(s)' /\ Discarded(s)' /\ Fresh(s)'
    BY Zenon, <1>0, <2>2, <2>4, <2>5 DEF QueueInOrder, Discarded, Fresh
  <2> DEFINE f == ReadFrom(s)
  <2>8. /\ f \in Nat /\ written \in Nat /\ f <= r.pos /\ r.pos <= written
        /\ r.last # -1 /\ r.last <= written
    <3>1. f \in Nat
      BY Zenon, <1>0, ReadFromType
    <3> QED BY Zenon, <1>0, <3>1, Begin DEF Reading
  <2>9. \A j \in 1 .. Len(d) : d[j] \in Result
    BY <1>0
  <2>10. /\ r.pos = f \/ \E j \in 1 .. Len(d) : d[j] = r.pos
         /\ \A j \in 1 .. Len(d) : d[j] # ENOENT =>
              /\ 1 <= d[j] /\ f <= d[j] /\ d[j] <= r.pos
              /\ \A i \in 1 .. j - 1 : d[i] # ENOENT => d[i] < d[j]
    BY Zenon, <1>0 DEF Reading
  <2> DEFINE D == Append(d, e)
             m == Len(d)
  <2>11. /\ m \in Nat /\ Len(D) = m + 1 /\ \A i \in 1 .. m : D[i] = d[i] /\ d[i] \in Result
         /\ D[m + 1] = e
    BY Zenon, <1>0, <2>1, <2>9
  <2> HIDE DEF D, m, f, d
  <2>12. p \in Nat /\ (e # ENOENT => e = p /\ r.pos < p) /\ r.pos <= p /\ p <= written
    BY <1>0, <1>1, <2>8
  <2>13. \A j \in 1 .. m + 1 : D[j] # ENOENT =>
            /\ 1 <= D[j] /\ f <= D[j] /\ D[j] <= p
            /\ \A i \in 1 .. j - 1 : D[i] # ENOENT => D[i] < D[j]
    <3> SUFFICES ASSUME NEW j \in 1 .. m + 1, D[j] # ENOENT
                 PROVE  /\ 1 <= D[j] /\ f <= D[j] /\ D[j] <= p
                        /\ \A i \in 1 .. j - 1 : D[i] # ENOENT => D[i] < D[j]
      BY Zenon
    <3>1. CASE j = m + 1
      <4>1. D[j] = p /\ r.pos < p
        BY Zenon, <2>11, <2>12, <3>1
      <4>2. \A i \in 1 .. m : D[i] # ENOENT => D[i] <= r.pos /\ D[i] \in Nat
        BY <2>10, <2>11, BoundAssumption DEF m, Result
      <4> QED BY <1>0, <2>8, <2>11, <2>12, <3>1, <4>1, <4>2
    <3>2. CASE j \in 1 .. m
      <4>1. /\ D[j] = d[j] /\ D[j] \in Nat /\ 1 <= D[j] /\ f <= D[j] /\ D[j] <= r.pos
            /\ \A i \in 1 .. j - 1 : d[i] # ENOENT => d[i] < d[j]
        BY <2>10, <2>11, <3>2, BoundAssumption DEF m, Result
      <4>2. \A i \in 1 .. j - 1 : D[i] = d[i]
        BY <2>11, <3>2
      <4>3. D[j] <= p
        BY <1>0, <2>12, <4>1
      <4> QED BY Zenon, <4>1, <4>2, <4>3
    <3> QED BY <2>11, <3>1, <3>2
  <2>14. p = f \/ \E j \in 1 .. m + 1 : D[j] = p
    <3>1. \A j \in 1 .. m : j \in 1 .. m + 1
      BY <2>11
    <3>2. m + 1 \in 1 .. m + 1
      BY <2>11
    <3>3. CASE e = ENOENT /\ p = r.pos
      BY Zenon, <2>10, <2>11, <3>1, <3>3 DEF m
    <3>4. CASE e = p
      BY Zenon, <2>11, <3>2, <3>4
    <3> QED BY Zenon, <1>1, <3>3, <3>4
  <2>15. Reading(s)'
    <3>1. /\ rep'[s].done = D /\ rep'[s].pos = p /\ ReadFrom(s)' = f /\ written' = written
          /\ rep'[s].last = r.last
      BY Zenon, <1>0, <2>2, <2>4, <2>5 DEF D, f, d
    <3>2. f <= p
      BY <1>0, <2>8, <2>12
    <3> QED BY Zenon, <2>8, <2>11, <2>12, <2>13, <2>14, <3>1, <3>2 DEF Reading
  <2>16. EndOfFile(s)'
    <3> SUFFICES ASSUME r.by_queue = 0, NEW i \in 1 .. m + 1, D[i] = ENOENT,
                        NEW u \in 1 .. Passed(s)
                 PROVE  \/ u \in forgot[s] \/ u <= f
                        \/ \E j \in 1 .. i - 1 : D[j] # ENOENT /\ u <= D[j]
      BY ZenonT(30), <1>0, <2>2, <2>4, <2>5, <2>11 DEF EndOfFile, D, f, d
    <3>1. CASE i \in 1 .. m
      <4>1. \A j \in 1 .. i - 1 : D[j] = d[j]
        BY <2>11, <3>1
      <4>2. \/ u \in forgot[s] \/ u <= f
            \/ \E j \in 1 .. i - 1 : d[j] # ENOENT /\ u <= d[j]
        BY Zenon, <1>0, <2>11, <3>1 DEF EndOfFile, m, d, f
      <4> QED BY Zenon, <4>1, <4>2
    <3>2. CASE i = m + 1
      <4>1. p = r.pos /\ p = written
        BY <1>1, <2>11, <3>2, ReadAssumption
      <4>2. u \in forgot[s] \/ u <= p
        BY Zenon, <1>0, <4>1 DEF Discarded
      <4>3. CASE \E j \in 1 .. m : d[j] = r.pos
        <5>1. PICK j \in 1 .. m : d[j] = r.pos
          BY Zenon, <4>3
        <5>2. j \in 1 .. i - 1 /\ D[j] = r.pos /\ r.pos # ENOENT
          BY <1>0, <2>11, <3>2, <5>1, ReadAssumption
        <5> QED BY Zenon, <4>1, <4>2, <5>2
      <4> QED BY Zenon, <2>10, <4>1, <4>2, <4>3 DEF m
    <3> QED BY <2>11, <3>1, <3>2
  <2> QED BY ZenonT(30), <1>0, <2>2, <2>3, <2>4, <2>5, <2>6, <2>7, <2>15, <2>16, RepStep
<1>2. CASE r.pos = written /\ Set(s, [r EXCEPT !.done = Append(@, ENOENT)])
  <2>1. [r EXCEPT !.done = Append(@, ENOENT)] = [r EXCEPT !.done = Append(@, ENOENT), !.pos = r.pos]
    BY Zenon, <1>0 DEF Replica
  <2>2. rep'[s] = [r EXCEPT !.done = Append(@, ENOENT)]
    BY Zenon, <1>2, Begin DEF Set
  <2>3. r.pos \in 0 .. MaxVersion /\ ENOENT \in Result
    BY Zenon, Begin, Fields DEF Result
  <2> QED BY Zenon, <1>1, <1>2, <2>1, <2>2, <2>3
<1>3. ASSUME NEW v \in r.pos + 1 .. written, Set(s, [r EXCEPT !.done = Append(@, v), !.pos = v])
      PROVE  IInv'
  <2>1. v \in 0 .. MaxVersion /\ r.pos < v /\ v <= written
    <3>1. written \in Nat /\ written <= version /\ version <= MaxVersion
          /\ version \in Nat /\ MaxVersion \in Nat
      BY Zenon, Begin
    <3> QED BY <1>0, <1>3, <3>1
  <2>2. rep'[s] = [r EXCEPT !.done = Append(@, v), !.pos = v]
    BY Zenon, <1>3, Begin DEF Set
  <2> QED BY Zenon, <1>1, <2>1, <2>2 DEF Result
<1> QED BY Zenon, <1>2, <1>3 DEF ReadBinlog

\* A result of the read thread is fetched: what it stands for has been read.
LEMMA Fetched ==
    ASSUME IInv, NEW s \in Slave, Fetch(rep[s]),
           rep'[s].stage = rep[s].stage, rep'[s].done = Tail(rep[s].done),
           rep'[s].pos = rep[s].pos, rep'[s].last = rep[s].last,
           rep'[s].by_queue = rep[s].by_queue, Passed(s)' = Passed(s),
           forgot'[s] = forgot[s], written' = written,
           ReadFrom(s)' = IF Head(rep[s].done) = ENOENT THEN ReadFrom(s)
                                                       ELSE Head(rep[s].done)
    PROVE  /\ Reading(s)' /\ EndOfFile(s)'
           /\ Head(rep[s].done) \in Result /\ ReadFrom(s) \in Nat
           /\ Head(rep[s].done) # ENOENT =>
                 /\ Head(rep[s].done) \in 1 .. written
                 /\ ReadFrom(s) <= Head(rep[s].done)
<1> DEFINE r == rep[s]
           d == r.done
           D == Tail(d)
           h == Head(d)
           f == ReadFrom(s)
           F == ReadFrom(s)'
           m == Len(d)
<1>1. /\ r.stage = "sync_from_disk" /\ d # <<>> /\ d \in Seq(Result) /\ Reading(s)
      /\ EndOfFile(s)
  BY Zenon, Begin, Fields DEF Fetch, Result
<1>2. m \in Nat /\ r.pos \in Nat /\ f \in Nat /\ written \in Nat
  <2>1. f \in Nat /\ written \in Nat /\ r.pos \in 0 .. MaxVersion
    BY Zenon, <1>1, Begin, Fields, ReadFromType
  <2> QED BY <1>1, <2>1
<1>3. /\ D \in Seq(Result) /\ Len(D) = m - 1 /\ m >= 1 /\ h = d[1]
      /\ \A i \in 1 .. m - 1 : D[i] = d[i + 1]
  BY Zenon, <1>1, TailSeq
<1>4. \A i \in 1 .. m : d[i] \in Result
  BY <1>1
<1>5. /\ r.last # -1 /\ r.last <= written /\ f <= r.pos /\ r.pos <= written
      /\ r.pos = f \/ \E j \in 1 .. m : d[j] = r.pos
      /\ \A j \in 1 .. m : d[j] # ENOENT =>
           /\ 1 <= d[j] /\ f <= d[j] /\ d[j] <= r.pos
           /\ \A i \in 1 .. j - 1 : d[i] # ENOENT => d[i] < d[j]
  BY Zenon, <1>1 DEF Reading
<1>6. F = IF h = ENOENT THEN f ELSE h
  BY Zenon
<1>7. r.by_queue = 0 => \A i \in 1 .. m : d[i] = ENOENT => \A u \in 1 .. Passed(s) :
          \/ u \in forgot[s] \/ u <= f
          \/ \E j \in 1 .. i - 1 : d[j] # ENOENT /\ u <= d[j]
  BY Zenon, <1>1 DEF EndOfFile
<1>8. /\ rep'[s].stage = "sync_from_disk" /\ rep'[s].done = D /\ rep'[s].pos = r.pos
      /\ rep'[s].last = r.last /\ rep'[s].by_queue = r.by_queue
  BY Zenon, <1>1
<1> HIDE DEF D, h, f, F, m
<1>9. \A i \in 1 .. m : d[i] # ENOENT => d[i] \in Nat
  BY <1>4, BoundAssumption DEF Result
<1>10. /\ h \in Result
       /\ h # ENOENT => h \in Nat /\ 1 <= h /\ f <= h /\ h <= r.pos
       /\ F \in Nat /\ f <= F /\ F <= r.pos
  <2>1. 1 \in 1 .. m
    BY <1>2, <1>3
  <2>2. /\ h \in Result
        /\ h # ENOENT => h \in Nat /\ 1 <= h /\ f <= h /\ h <= r.pos
    BY Zenon, <1>3, <1>4, <1>5, <1>9, <2>1 DEF h
  <2>3. F \in Nat /\ f <= F /\ F <= r.pos
    BY <1>2, <1>5, <1>6, <2>2
  <2> QED BY Zenon, <2>2, <2>3
<1>11. r.pos = F \/ \E j \in 1 .. m - 1 : D[j] = r.pos
  <2>1. CASE r.pos = f
    BY <1>2, <1>6, <1>10, <2>1
  <2>2. ASSUME NEW j \in 1 .. m, d[j] = r.pos
        PROVE  r.pos = F \/ \E i \in 1 .. m - 1 : D[i] = r.pos
    <3>1. CASE j = 1
      <4>1. h = r.pos /\ h # ENOENT
        BY <1>2, <1>3, <2>2, <3>1, ReadAssumption
      <4> QED BY Zenon, <1>6, <4>1
    <3>2. CASE j # 1
      <4>1. j - 1 \in 1 .. m - 1 /\ (j - 1) + 1 = j
        BY <1>2, <3>2
      <4>2. D[j - 1] = d[(j - 1) + 1]
        BY Zenon, <1>3, <4>1
      <4> QED BY ZenonT(20), <2>2, <4>1, <4>2
    <3> QED BY Zenon, <3>1, <3>2
  <2> QED BY Zenon, <1>5, <2>1, <2>2
<1>12. \A j \in 1 .. m - 1 : D[j] # ENOENT =>
          /\ 1 <= D[j] /\ F <= D[j] /\ D[j] <= r.pos
          /\ \A i \in 1 .. j - 1 : D[i] # ENOENT => D[i] < D[j]
  <2> SUFFICES ASSUME NEW j \in 1 .. m - 1, D[j] # ENOENT
               PROVE  /\ 1 <= D[j] /\ F <= D[j] /\ D[j] <= r.pos
                      /\ \A i \in 1 .. j - 1 : D[i] # ENOENT => D[i] < D[j]
    BY Zenon
  <2>1. j + 1 \in 1 .. m /\ 1 \in 1 .. (j + 1) - 1 /\ D[j] = d[j + 1]
    BY <1>2, <1>3
  <2>2. /\ 1 <= D[j] /\ f <= D[j] /\ D[j] <= r.pos /\ D[j] \in Nat
        /\ \A i \in 1 .. (j + 1) - 1 : d[i] # ENOENT => d[i] < d[j + 1]
    BY Zenon, <1>5, <1>9, <2>1
  <2>3. F <= D[j]
    <3>1. h # ENOENT => h < D[j]
      BY Zenon, <1>3, <2>1, <2>2 DEF h
    <3> QED BY <1>2, <1>6, <1>10, <2>2, <3>1
  <2>4. \A i \in 1 .. j - 1 : i + 1 \in 1 .. (j + 1) - 1 /\ D[i] = d[i + 1]
    BY <1>2, <1>3
  <2> QED BY Zenon, <2>1, <2>2, <2>3, <2>4
<1>13. Reading(s)'
  BY Zenon, <1>3, <1>5, <1>8, <1>10, <1>11, <1>12 DEF Reading, F
<1>14. EndOfFile(s)'
  <2> SUFFICES ASSUME r.by_queue = 0, NEW i \in 1 .. m - 1, D[i] = ENOENT,
                      NEW u \in 1 .. Passed(s)
               PROVE  \/ u \in forgot[s] \/ u <= F
                      \/ \E j \in 1 .. i - 1 : D[j] # ENOENT /\ u <= D[j]
    BY Zenon, <1>3, <1>8 DEF EndOfFile, F
  <2>0. i + 1 \in 1 .. m /\ d[i + 1] = ENOENT
    BY <1>2, <1>3
  <2>1. \/ u \in forgot[s] \/ u <= f
        \/ \E j \in 1 .. (i + 1) - 1 : d[j] # ENOENT /\ u <= d[j]
    BY Zenon, <1>7, <2>0
  <2>2. u <= f => u <= F
    BY <1>2, <1>10
  <2>3. ASSUME NEW j \in 1 .. (i + 1) - 1, d[j] # ENOENT, u <= d[j]
        PROVE  u <= F \/ \E k \in 1 .. i - 1 : D[k] # ENOENT /\ u <= D[k]
    <3>1. CASE j = 1
      BY Zenon, <1>3, <1>6, <2>3, <3>1 DEF h
    <3>2. CASE j # 1
      <4>1. j - 1 \in 1 .. i - 1 /\ j - 1 \in 1 .. m - 1 /\ (j - 1) + 1 = j
        BY <1>2, <3>2
      <4>2. D[j - 1] = d[j]
        BY ZenonT(20), <1>3, <4>1
      <4> QED BY Zenon, <2>3, <4>1, <4>2
    <3> QED BY Zenon, <3>1, <3>2
  <2> QED BY Zenon, <2>1, <2>2, <2>3
<1>15. h # ENOENT => h \in 1 .. written
  BY <1>2, <1>5, <1>10
<1> QED BY Zenon, <1>2, <1>10, <1>13, <1>14, <1>15 DEF h, f

\* The end of the file is found, but the replication does not switch.
LEMMA DiskEndStep ==
    ASSUME IInv, NEW s \in Slave, DiskEnd(s)
    PROVE  IInv'
<1> DEFINE r == rep[s]
           n == [r EXCEPT !.done = Tail(@), !.dealing = FALSE]
<1>1. /\ Local(s) /\ rep'[s] = n /\ Fetch(r) /\ Head(r.done) = ENOENT
      /\ UNCHANGED <<version, written, waiting, sv, wire, acks, breaks, timeouts, forgot>>
      /\ r \in Replica /\ r.done # <<>> /\ r.done \in Seq(Result)
      /\ QueueInOrder(s) /\ Discarded(s) /\ Fresh(s) /\ r.stage = "sync_from_disk"
  BY Zenon, Begin, Fields, IsLocal DEF DiskEnd, Thread, Set, Fetch, Result
<1>2. Tail(r.done) \in Seq(Result)
  BY Zenon, <1>1, TailSeq
<1>3. /\ n.queue = r.queue /\ n.ring = r.ring /\ n.by_queue = r.by_queue
      /\ n.stage = r.stage /\ n.pos = r.pos /\ n.last = r.last /\ n.current = r.current
      /\ n.by_resp = r.by_resp /\ n.done = Tail(r.done)
  BY Zenon, <1>1 DEF Replica
<1>4. n \in Replica
  BY Zenon, <1>1, <1>2 DEF Replica, Result
<1> HIDE DEF n
<1>5. /\ Held(s)' = Held(s) /\ Passed(s)' = Passed(s) /\ Joined(s)' = Joined(s)
      /\ ReadFrom(s)' = ReadFrom(s)
  BY Zenon, <1>1, <1>3 DEF Held, Passed, Joined, ReadFrom
<1>6. Sent(s)' = Sent(s)
  BY Zenon, <1>1, <1>3, <1>5 DEF Sent
<1>7. QueueInOrder(s)' /\ Discarded(s)' /\ Fresh(s)'
  BY Zenon, <1>1, <1>3, <1>5 DEF QueueInOrder, Discarded, Fresh
<1>8. Reading(s)' /\ EndOfFile(s)'
  BY Zenon, <1>1, <1>3, <1>5, Fetched
<1> QED BY ZenonT(30), <1>1, <1>3, <1>4, <1>5, <1>6, <1>7, <1>8, RepStep

\* Where a version behind f goes when f + 1 .. h follow m others.
LEMMA Behind ==
    ASSUME NEW f \in Nat, NEW h \in Nat, NEW m \in Nat, NEW u \in Nat, f < u, u <= h
    PROVE  u - f \in 1 .. h - f /\ f + (u - f) = u /\ m + (u - f) \in 1 .. m + (h - f)
OBVIOUS

\* The records after the last one that was sent, up to h, are sent.
LEMMA SendBlock ==
    ASSUME IInv, NEW s \in Slave, Joined(s), Joined(s)', NEW h \in 0 .. MaxVersion,
           Sent(s)' = h, Sent(s) \in Nat, Sent(s) <= h,
           wire'[s] \in Seq(Version), Len(wire'[s]) = Len(wire[s]) + (h - Sent(s)),
           \A i \in 1 .. Len(wire[s]) : wire'[s][i] = wire[s][i],
           \A i \in 1 .. h - Sent(s) : wire'[s][Len(wire[s]) + i] = Sent(s) + i,
           sv'[s] = sv[s], acks'[s] = acks[s],
           forgot'[s] = forgot[s], rep'[s].by_resp = rep[s].by_resp,
           rep'[s].stage # "sync_from_queue" => rep'[s].current # 0,
           rep'[s].stage = "sync_from_queue" /\ timeouts' = 0 =>
              Range(wire[s]) \cup (Sent(s) + 1 .. h) \subseteq rep'[s].ring
    PROVE  /\ OneConsumer(s)' /\ NoHoles(s)' /\ WireAll(s)' /\ SentAll(s)' /\ InOrder(s)'
<1> DEFINE w == wire[s]
           W == wire'[s]
           f == Sent(s)
           m == Len(w)
           X == sv[s].replaying \cup Range(acks[s]) \cup {rep[s].by_resp}
<1>1. /\ w \in Seq(Version) /\ OneConsumer(s) /\ NoHoles(s) /\ WireAll(s) /\ SentAll(s)
      /\ InOrder(s)
  BY Zenon, Begin
<1>2. /\ W \in Seq(Version) /\ Len(W) = m + (h - f)
      /\ \A i \in 1 .. m : W[i] = w[i]
      /\ \A i \in 1 .. h - f : W[m + i] = f + i
  BY Zenon
<1>3. /\ m \in Nat /\ Range(w) \subseteq Version /\ \A i \in 1 .. m : w[i] \in Nat
      /\ MaxVersion \in Nat /\ Version \subseteq Nat
  <2>1. m \in Nat /\ Range(w) \subseteq Version /\ \A i \in 1 .. m : w[i] \in Version
    BY Zenon, <1>1, RangeSeq
  <2> QED BY SMTT(30), <2>1, BoundAssumption DEF Version
<1>4. Has(s)' = Has(s) /\ Settled(s)' = Settled(s)
  BY Zenon DEF Has, Settled
<1>5. OneConsumer(s)' /\ NoHoles(s)'
  BY Zenon, <1>1, <1>4 DEF OneConsumer, NoHoles
<1>6. /\ \A u \in Version : u <= f => u \in Settled(s) \/ u \in Range(w)
      /\ \A i \in 1 .. m : \A u \in Version : u < w[i] =>
            u \in Settled(s) \/ \E j \in 1 .. i - 1 : w[j] = u
  BY Zenon, <1>1 DEF SentAll, WireAll
<1>7. \A u : u \in Range(w) <=> \E j \in 1 .. m : w[j] = u
  BY Zenon, <1>1, RangeSeq
<1>8. /\ \A u : u \in Range(W) <=> \E j \in 1 .. m + (h - f) : W[j] = u
      /\ \A j \in 1 .. m + (h - f) : W[j] \in Range(W)
  <2>1. /\ \A u : u \in Range(W) <=> \E j \in 1 .. Len(W) : W[j] = u
        /\ \A j \in 1 .. Len(W) : W[j] \in Range(W)
    BY Zenon, <1>2, RangeSeq
  <2>2. Len(W) = m + (h - f)
    BY Zenon, <1>2
  <2> HIDE DEF W, m
  <2> QED BY Zenon, <2>1, <2>2
<1>9. /\ \A i \in 1 .. m : \A j \in 1 .. i - 1 : w[j] < w[i]
      /\ \A x \in X : x <= f /\ \A i \in 1 .. m : x < w[i]
      /\ \A i \in 1 .. m : w[i] <= f
  BY Zenon, <1>1 DEF InOrder
<1>10. \A x \in X : x \in Nat
  <2>1. /\ sv[s].replaying \subseteq Version /\ rep[s].by_resp \in 0 .. MaxVersion
        /\ Range(acks[s]) \subseteq Version
    BY Zenon, Begin, Fields, RangeSeq
  <2>2. \A x \in X : x \in Version \/ x \in 0 .. MaxVersion
    BY Zenon, <2>1
  <2>3. 0 .. MaxVersion \subseteq Nat
    BY <1>3
  <2> HIDE DEF X
  <2> QED BY Zenon, <1>3, <2>2, <2>3
<1> HIDE DEF w, W, f, m, X
<1>11. f \in Nat /\ h \in Nat /\ f <= h
  BY <1>3 DEF f
<1>12. \A i \in m + 1 .. m + (h - f) : W[i] = f + (i - m) /\ i - m \in 1 .. h - f
  <2> SUFFICES ASSUME NEW i \in m + 1 .. m + (h - f)
               PROVE  W[i] = f + (i - m) /\ i - m \in 1 .. h - f
    BY Zenon
  <2>1. i - m \in 1 .. h - f /\ m + (i - m) = i
    BY <1>3, <1>11
  <2> QED BY Zenon, <1>2, <2>1
<1>13. \A i \in 1 .. m + (h - f) : i \in 1 .. m \/ i \in m + 1 .. m + (h - f)
  BY <1>3, <1>11
<1>14. WireAll(s)'
  <2> SUFFICES ASSUME NEW i \in 1 .. m + (h - f), NEW u \in Version, u < W[i]
               PROVE  u \in Settled(s) \/ \E j \in 1 .. i - 1 : W[j] = u
    BY ZenonT(30), <1>2, <1>4 DEF WireAll, W
  <2>1. CASE i \in 1 .. m
    <3>1. u \in Settled(s) \/ \E j \in 1 .. i - 1 : w[j] = u
      BY Zenon, <1>2, <1>6, <2>1
    <3>2. \A j \in 1 .. i - 1 : W[j] = w[j]
      BY <1>2, <1>3, <2>1
    <3> QED BY Zenon, <3>1, <3>2
  <2>2. CASE i \in m + 1 .. m + (h - f)
    <3>1. CASE u <= f
      <4>1. \A j \in 1 .. m : j \in 1 .. i - 1
        BY <1>3, <1>11, <2>2
      <4>2. ASSUME NEW j \in 1 .. m, w[j] = u PROVE \E k \in 1 .. i - 1 : W[k] = u
        BY Zenon, <1>2, <4>1, <4>2
      <4>3. u \in Settled(s) \/ \E j \in 1 .. m : w[j] = u
        BY Zenon, <1>6, <1>7, <3>1
      <4> QED BY Zenon, <4>2, <4>3
    <3>2. CASE ~(u <= f)
      <4>1. u - f \in 1 .. h - f /\ m + (u - f) \in 1 .. i - 1 /\ f + (u - f) = u
        BY <1>3, <1>11, <1>12, <2>2, <3>2
      <4> QED BY Zenon, <1>2, <4>1
    <3> QED BY Zenon, <3>1, <3>2
  <2> QED BY Zenon, <1>13, <2>1, <2>2
<1>15. SentAll(s)'
  <2> SUFFICES ASSUME NEW u \in Version, u <= h
               PROVE  u \in Settled(s) \/ u \in Range(W)
    BY Zenon, <1>4 DEF SentAll, W
  <2>1. CASE u <= f
    <3>1. \A j \in 1 .. m : j \in 1 .. m + (h - f)
      BY <1>3, <1>11
    <3>2. ASSUME NEW j \in 1 .. m, w[j] = u PROVE u \in Range(W)
      BY Zenon, <1>2, <1>8, <3>1, <3>2
    <3>3. u \in Settled(s) \/ \E j \in 1 .. m : w[j] = u
      BY Zenon, <1>6, <1>7, <2>1
    <3> QED BY Zenon, <3>2, <3>3
  <2>2. CASE ~(u <= f)
    <3>1. u \in Nat /\ f \in Nat /\ h \in Nat /\ m \in Nat /\ f < u /\ u <= h
      <4>1. u \in Nat /\ f \in Nat /\ h \in Nat /\ m \in Nat /\ u <= h
        BY Zenon, <1>3, <1>11
      <4>2. f < u
        BY <2>2, <4>1
      <4> QED BY Zenon, <4>1, <4>2
    <3>2. u - f \in 1 .. h - f /\ f + (u - f) = u /\ m + (u - f) \in 1 .. m + (h - f)
      BY <3>1, Behind
    <3> QED BY Zenon, <1>2, <1>8, <3>2
  <2> QED BY Zenon, <2>1, <2>2
<1>16. InOrder(s)'
  <2>1. ASSUME NEW i \in 1 .. m + (h - f)
        PROVE  /\ \A j \in 1 .. i - 1 : W[j] < W[i]
               /\ \A x \in X : x < W[i]
               /\ W[i] <= h
               /\ W[i] \in Range(w) \cup (f + 1 .. h)
    <3>1. CASE i \in 1 .. m
      <4>1. \A j \in 1 .. i - 1 : W[j] = w[j]
        BY <1>2, <1>3, <3>1
      <4>2. W[i] = w[i] /\ W[i] \in Range(w)
        BY Zenon, <1>2, <1>7, <3>1
      <4>3. W[i] <= h
        BY <1>3, <1>9, <1>11, <3>1, <4>2
      <4> QED BY Zenon, <1>9, <3>1, <4>1, <4>2, <4>3
    <3>2. CASE i \in m + 1 .. m + (h - f)
      <4>1. W[i] = f + (i - m) /\ i - m \in 1 .. h - f /\ W[i] \in f + 1 .. h
        BY <1>3, <1>11, <1>12, <3>2
      <4>2. ASSUME NEW j \in 1 .. i - 1 PROVE W[j] < W[i]
        <5>1. CASE j \in 1 .. m
          <6>1. W[j] = w[j] /\ w[j] \in Nat /\ w[j] <= f
            BY Zenon, <1>2, <1>3, <1>9, <5>1
          <6>2. f < W[i] /\ W[i] \in Nat
            BY SMTT(30), <1>11, <4>1
          <6> QED BY <1>11, <6>1, <6>2
        <5>2. CASE j \in m + 1 .. m + (h - f)
          <6>1. W[j] = f + (j - m)
            BY Zenon, <1>12, <5>2
          <6> QED BY <1>3, <1>11, <4>1, <5>2, <6>1
        <5> QED BY <1>3, <1>11, <3>2, <5>1, <5>2
      <4>3. \A x \in X : x < W[i]
        BY <1>9, <1>10, <1>11, <4>1
      <4>4. W[i] <= h
        BY <1>3, <1>11, <4>1
      <4> QED BY Zenon, <4>1, <4>2, <4>3, <4>4
    <3> QED BY Zenon, <1>13, <3>1, <3>2
  <2>2. \A x \in X : x <= h
    BY <1>9, <1>10, <1>11
  <2>3. Range(W) \subseteq Range(w) \cup (f + 1 .. h)
    <3> SUFFICES ASSUME NEW u \in Range(W) PROVE u \in Range(w) \cup (f + 1 .. h)
      BY Zenon
    <3>1. PICK j \in 1 .. m + (h - f) : W[j] = u
      BY Zenon, <1>8
    <3> QED BY Zenon, <2>1, <3>1
  <2>4. X = (sv[s].replaying \cup Range(acks[s]) \cup {rep[s].by_resp})'
    BY Zenon DEF X
  <2>5. rep'[s].stage = "sync_from_queue" /\ timeouts' = 0 => Range(W) \subseteq rep'[s].ring
    BY Zenon, <2>3 DEF w, f
  <2> QED BY Zenon, <1>2, <2>1, <2>2, <2>4, <2>5 DEF InOrder, W
<1> QED BY Zenon, <1>5, <1>14, <1>15, <1>16

\* sync_binlog_from_disk sends what has been read.
LEMMA SyncFromDiskStep ==
    ASSUME IInv, NEW s \in Slave, SyncFromDisk(s)
    PROVE  IInv'
<1> DEFINE r == rep[s]
           h == Head(r.done)
           f == ReadFrom(s)
           n == [r EXCEPT !.previous = r.current, !.current = h,
                          !.done = Tail(@), !.dealing = FALSE]
           b == [i \in 1 .. h - f |-> f + i]
<1>0. wire'[s] = wire[s] \o b
  BY Zenon, Begin DEF SyncFromDisk
<1>1. /\ Local(s) /\ rep'[s] = n /\ Fetch(r) /\ h # ENOENT
      /\ UNCHANGED <<version, written, waiting, sv, acks, breaks, timeouts, forgot>>
      /\ r \in Replica /\ r.done # <<>> /\ r.done \in Seq(Result) /\ wire[s] \in Seq(Version)
      /\ QueueInOrder(s) /\ Discarded(s) /\ r.stage = "sync_from_disk"
      /\ r.current \in 0 .. MaxVersion /\ sv[s] \in SlaveState /\ acks[s] \in Seq(Version)
      /\ forgot[s] \subseteq Version /\ written \in Nat /\ version \in Nat
      /\ MaxVersion \in Nat /\ written <= version /\ version <= MaxVersion
  BY Zenon, Begin, Fields, IsLocal DEF SyncFromDisk, Thread, Set, Fetch, Result
<1>2. Tail(r.done) \in Seq(Result)
  BY Zenon, <1>1, TailSeq
<1>3. /\ n.queue = r.queue /\ n.ring = r.ring /\ n.by_queue = r.by_queue
      /\ n.stage = r.stage /\ n.pos = r.pos /\ n.last = r.last /\ n.current = h
      /\ n.by_resp = r.by_resp /\ n.done = Tail(r.done)
  BY Zenon, <1>1 DEF Replica
<1>4. Held(s)' = Held(s) /\ Passed(s)' = Passed(s) /\ Joined(s)' /\ Joined(s)
  BY Zenon, <1>1, <1>3 DEF Held, Passed, Joined
<1>5. h # 0 => ReadFrom(s)' = h
  BY Zenon, <1>1, <1>3 DEF ReadFrom
<1>6. /\ h \in 1 .. written /\ f <= h /\ f \in Nat /\ h # 0 /\ h \in 0 .. MaxVersion /\ h \in Nat
      /\ Reading(s)' /\ EndOfFile(s)'
  <2>1. h \in Result
    BY Zenon, <1>1, TailSeq
  <2>2. h # 0
    <3>1. r.done[1] = h /\ 1 \in 1 .. Len(r.done)
      <4>1. Len(r.done) >= 1 /\ Len(r.done) \in Nat /\ r.done[1] = h
        BY <1>1, TailSeq
      <4> QED BY <4>1
    <3>2. Reading(s)
      BY Zenon, Begin
    <3>3. 1 <= h
      BY Zenon, <1>1, <3>1, <3>2 DEF Reading
    <3> QED BY <3>3
  <2>3. /\ h \in 1 .. written /\ f <= h /\ f \in Nat /\ Reading(s)' /\ EndOfFile(s)'
    BY Zenon, <1>1, <1>3, <1>4, <1>5, <2>2, Fetched
  <2>4. h \in 0 .. MaxVersion /\ h \in Nat
    BY <1>1, <2>3
  <2> QED BY Zenon, <2>2, <2>3, <2>4
<1>7. n \in Replica
  BY Zenon, <1>1, <1>2, <1>6 DEF Replica, Result
<1>8. /\ wire'[s] \in Seq(Version) /\ Len(wire'[s]) = Len(wire[s]) + (h - f)
      /\ \A i \in 1 .. Len(wire[s]) : wire'[s][i] = wire[s][i]
      /\ \A i \in 1 .. h - f : wire'[s][Len(wire[s]) + i] = f + i
  <2>1. f + 1 .. h \subseteq Version
    <3>1. \A x \in f + 1 .. h : x \in 1 .. MaxVersion
      <4> HIDE DEF f, h
      <4>1. f \in Nat /\ h \in Nat /\ MaxVersion \in Nat /\ h <= MaxVersion
        BY <1>1, <1>6
      <4> QED BY <4>1
    <3> QED BY Zenon, <3>1 DEF Version
  <2>2. wire[s] \in Seq(Version) /\ f \in Nat /\ h \in Nat /\ f <= h
    BY Zenon, <1>1, <1>6
  <2> HIDE DEF f, h
  <2> DEFINE q == wire[s] \o [i \in 1 .. h - f |-> f + i]
  <2>3. /\ q \in Seq(Version) /\ Len(q) = Len(wire[s]) + (h - f)
        /\ \A i \in 1 .. Len(wire[s]) : q[i] = wire[s][i]
        /\ \A i \in 1 .. h - f : q[Len(wire[s]) + i] = f + i
    BY SMTT(30), <2>1, <2>2, ConcatBlock
  <2>4. wire'[s] = q
    BY Zenon, <1>0
  <2> HIDE DEF q
  <2> QED BY Zenon, <2>3, <2>4
<1> HIDE DEF n, b
<1>9. Sent(s) = f /\ Sent(s)' = h
  BY Zenon, <1>1, <1>3, <1>5, <1>6 DEF Sent
<1>10. OneConsumer(s)' /\ NoHoles(s)' /\ WireAll(s)' /\ SentAll(s)' /\ InOrder(s)'
  <2>1. /\ rep'[s].by_resp = rep[s].by_resp /\ rep'[s].stage # "sync_from_queue"
        /\ rep'[s].current # 0 /\ sv'[s] = sv[s] /\ acks'[s] = acks[s]
        /\ forgot'[s] = forgot[s]
    BY Zenon, <1>1, <1>3, <1>6
  <2> HIDE DEF f, h
  <2> QED BY Zenon, <1>4, <1>6, <1>8, <1>9, <2>1, SendBlock
<1>11. QueueInOrder(s)' /\ Discarded(s)' /\ Fresh(s)'
  BY Zenon, <1>1, <1>3, <1>4 DEF QueueInOrder, Discarded, Fresh
<1>12. SlaveInv(s)'
  BY Zenon, <1>6, <1>10, <1>11 DEF SlaveInv
<1> QED BY Zenon, <1>1, <1>4, <1>7, <1>8, <1>12, LocalStep

\* The versions of q follow p.
Follow(q, p) == \A i \in 1 .. Len(q) : q[i] = p + i

\* The first records of a queue.
LEMMA Taken ==
    ASSUME NEW S, NEW q \in Seq(S), NEW p \in Nat, Follow(q, p), NEW k \in 0 .. Len(q)
    PROVE  /\ SubSeq(q, 1, k) \in Seq(S) /\ Len(SubSeq(q, 1, k)) = k
           /\ \A i \in 1 .. k : SubSeq(q, 1, k)[i] = p + i
           /\ Range(SubSeq(q, 1, k)) = p + 1 .. p + k
<1> DEFINE t == SubSeq(q, 1, k)
<1>1. t \in Seq(S) /\ Len(t) = k /\ \A i \in 1 .. k : t[i] = p + i
  BY Prefix DEF Follow
<1>2. k \in Nat
  OBVIOUS
<1> HIDE DEF t
<1>3. Range(t) = p + 1 .. p + k
  <2>1. \A x : x \in Range(t) <=> \E i \in 1 .. k : t[i] = x
    BY Zenon, <1>1, RangeSeq
  <2>2. ASSUME NEW x \in p + 1 .. p + k PROVE \E i \in 1 .. k : t[i] = x
    <3>1. x - p \in 1 .. k /\ p + (x - p) = x
      BY <1>2
    <3> QED BY Zenon, <1>1, <3>1
  <2>3. \A i \in 1 .. k : t[i] \in p + 1 .. p + k
    BY <1>1, <1>2
  <2> QED BY Zenon, <2>1, <2>2, <2>3
<1> QED BY Zenon, <1>1, <1>3 DEF t

\* sync_binlog_from_queue sends the first records of the queue.
LEMMA SyncFromQueueStep ==
    ASSUME IInv, NEW s \in Slave, SyncFromQueue(s)
    PROVE  IInv'
<1> DEFINE r == rep[s]
           q == r.queue
           p == Passed(s)
<1>1. PICK k \in 1 .. Len(q) :
        /\ wire' = [wire EXCEPT ![s] = @ \o SubSeq(q, 1, k)]
        /\ Set(s, [r EXCEPT !.queue = SubSeq(@, k + 1, Len(@)),
                            !.ring = @ \cup Range(SubSeq(q, 1, k)),
                            !.by_queue = q[k]])
  BY Zenon DEF SyncFromQueue
<1> DEFINE t == SubSeq(q, 1, k)
           u == SubSeq(q, k + 1, Len(q))
           n == [r EXCEPT !.queue = u, !.ring = @ \cup Range(t), !.by_queue = q[k]]
<1>2. /\ Local(s) /\ rep'[s] = n /\ r.stage = "sync_from_queue"
      /\ UNCHANGED <<version, written, waiting, sv, acks, breaks, timeouts, forgot>>
      /\ r \in Replica /\ q \in Seq(Version) /\ wire[s] \in Seq(Version)
      /\ QueueInOrder(s) /\ InOrder(s) /\ sv[s] \in SlaveState /\ acks[s] \in Seq(Version)
      /\ forgot[s] \subseteq Version /\ written \in Nat /\ version \in Nat
      /\ MaxVersion \in Nat /\ version <= MaxVersion /\ written <= version
  BY Zenon, <1>1, Begin, Fields, IsLocal DEF SyncFromQueue, Thread, Set
<1>3. wire'[s] = wire[s] \o t
  BY Zenon, <1>1, Begin
<1>4. /\ p \in Nat /\ Len(q) \in Nat /\ version = p + Len(q) /\ Range(q) = p + 1 .. version
      /\ \A i \in 1 .. Len(q) : q[i] = p + i
      /\ written <= p /\ r.ring \subseteq written + 1 .. p
  BY Zenon, <1>2, Begin, HeldParts DEF QueueInOrder
<1>5. k \in Nat /\ 1 <= k /\ k <= Len(q) /\ k \in 0 .. Len(q) /\ q[k] = p + k
  BY <1>4
<1>6. /\ Range(t) = p + 1 .. p + k /\ wire[s] \o t \in Seq(Version)
      /\ Len(wire[s] \o t) = Len(wire[s]) + k
      /\ \A i \in 1 .. Len(wire[s]) : (wire[s] \o t)[i] = wire[s][i]
      /\ \A i \in 1 .. k : (wire[s] \o t)[Len(wire[s]) + i] = p + i
  <2>1. /\ q \in Seq(Version) /\ p \in Nat /\ \A i \in 1 .. Len(q) : q[i] = p + i
        /\ k \in 0 .. Len(q) /\ wire[s] \in Seq(Version)
    BY Zenon, <1>2, <1>4, <1>5
  <2>2. Follow(q, p)
    BY Zenon, <2>1 DEF Follow
  <2> HIDE DEF q, p
  <2>3. /\ t \in Seq(Version) /\ Len(t) = k /\ Range(t) = p + 1 .. p + k
        /\ \A i \in 1 .. k : t[i] = p + i
    BY <2>1, <2>2, Taken
  <2> HIDE DEF t
  <2>4. /\ wire[s] \o t \in Seq(Version) /\ Len(wire[s] \o t) = Len(wire[s]) + Len(t)
        /\ \A i \in 1 .. Len(wire[s]) : (wire[s] \o t)[i] = wire[s][i]
        /\ \A i \in 1 .. Len(t) : (wire[s] \o t)[Len(wire[s]) + i] = t[i]
    <3>1. wire[s] \in Seq(Version) /\ t \in Seq(Version)
      BY Zenon, <2>1, <2>3
    <3> QED BY <3>1, ConcatSeq
  <2> QED BY Zenon, <2>3, <2>4
<1>7. u \in Seq(Version) /\ Len(u) = Len(q) - k /\ \A i \in 1 .. Len(q) - k : u[i] = q[k + i]
  <2>1. q \in Seq(Version) /\ k \in 0 .. Len(q)
    BY ZenonT(30), <1>2, <1>5
  <2> HIDE DEF q
  <2> QED BY Zenon, <2>1, Suffix
<1>8. q[k] \in 0 .. MaxVersion /\ p + k \in Nat /\ p + k <= version
  <2>1. /\ p \in Nat /\ Len(q) \in Nat /\ k \in Nat /\ k <= Len(q) /\ q[k] = p + k
        /\ version = p + Len(q) /\ version <= MaxVersion /\ MaxVersion \in Nat
    BY Zenon, <1>2, <1>4, <1>5
  <2> HIDE DEF q, p
  <2> QED BY <2>1
<1>9. /\ n.queue = u /\ n.ring = r.ring \cup Range(t) /\ n.by_queue = q[k]
      /\ n.stage = r.stage /\ n.by_resp = r.by_resp
  BY Zenon, <1>2 DEF Replica
<1>10. n \in Replica
  <2>1. Range(t) \subseteq Version
    <3>1. \A x \in p + 1 .. p + k : x \in 1 .. MaxVersion
      BY <1>2, <1>4, <1>5, <1>8
    <3> QED BY Zenon, <1>6, <3>1 DEF Version
  <2> QED BY Zenon, <1>2, <1>7, <1>8, <2>1 DEF Replica
<1> HIDE DEF n, t, u, q, p
<1>11. Passed(s)' = p + k /\ Joined(s) /\ Joined(s)'
  <2>1. Passed(s)' = version - Len(u)
    BY Zenon, <1>2, <1>9 DEF Passed
  <2>2. version - Len(u) = p + k
    BY <1>4, <1>5, <1>7
  <2> QED BY Zenon, <1>2, <1>9, <2>1, <2>2 DEF Joined
<1>12. \A i \in 1 .. Len(u) : u[i] = (p + k) + i
  <2>1. ASSUME NEW i \in 1 .. Len(u) PROVE u[i] = (p + k) + i
    <3>1. k + i \in 1 .. Len(q) /\ i \in 1 .. Len(q) - k /\ (p + k) + i = p + (k + i)
      BY <1>4, <1>5, <1>7
    <3> QED BY Zenon, <1>4, <1>7, <3>1
  <2> QED BY Zenon, <2>1
<1>13. QueueInOrder(s)'
  <2>1. /\ written <= p + k
        /\ \A x \in written + 1 .. p : x \in written + 1 .. p + k
        /\ \A x \in p + 1 .. p + k : x \in written + 1 .. p + k
    BY <1>2, <1>4, <1>5
  <2>2. r.ring \cup Range(t) \subseteq written + 1 .. p + k
    BY Zenon, <1>4, <1>6, <2>1
  <2> QED BY Zenon, <1>2, <1>9, <1>11, <1>12, <2>1, <2>2 DEF QueueInOrder
<1>14. Held(s)' = Held(s)
  <2>1. Range(u) = p + k + 1 .. version
    <3>1. \A x : x \in Range(u) <=> \E i \in 1 .. Len(u) : u[i] = x
      BY Zenon, <1>7, RangeSeq
    <3>2. ASSUME NEW x \in p + k + 1 .. version PROVE x \in Range(u)
      <4>1. x - (p + k) \in 1 .. Len(u) /\ (p + k) + (x - (p + k)) = x
        BY <1>2, <1>4, <1>5, <1>7, <1>8
      <4> QED BY Zenon, <1>12, <3>1, <4>1
    <3>3. ASSUME NEW x \in Range(u) PROVE x \in p + k + 1 .. version
      <4>1. PICK i \in 1 .. Len(u) : u[i] = x
        BY Zenon, <3>1
      <4>2. x = (p + k) + i
        BY Zenon, <1>12, <4>1
      <4>3. Len(u) \in Nat /\ (p + k) + Len(u) = version
        BY SMTT(30), <1>4, <1>5, <1>7
      <4> QED BY <1>8, <4>2, <4>3
    <3> QED BY ZenonT(30), <3>2, <3>3
  <2>2. \A x : x \in p + 1 .. version <=> x \in p + 1 .. p + k \/ x \in p + k + 1 .. version
    BY SMTT(30), <1>2, <1>4, <1>5, <1>8
  <2> QED BY Zenon, <1>2, <1>4, <1>6, <1>9, <2>1, <2>2 DEF Held, q
<1>15. Sent(s) = p /\ Sent(s)' = p + k
  BY Zenon, <1>2, <1>9, <1>11 DEF Sent, p
<1>16. wire'[s] \in Seq(Version) /\ Len(wire'[s]) = Len(wire[s]) + ((p + k) - p)
  <2>1. (p + k) - p = k
    BY <1>4, <1>5
  <2> QED BY Zenon, <1>3, <1>6, <2>1
<1>17. /\ \A i \in 1 .. Len(wire[s]) : wire'[s][i] = wire[s][i]
       /\ \A i \in 1 .. (p + k) - p : wire'[s][Len(wire[s]) + i] = p + i
  <2>1. (p + k) - p = k
    BY <1>4, <1>5
  <2> QED BY Zenon, <1>3, <1>6, <2>1
<1>18. OneConsumer(s)' /\ NoHoles(s)' /\ WireAll(s)' /\ SentAll(s)' /\ InOrder(s)'
  <2>1. timeouts' = 0 => Range(wire[s]) \cup (p + 1 .. p + k) \subseteq rep'[s].ring
    BY ZenonT(30), <1>2, <1>6, <1>9, <1>11 DEF InOrder
  <2>2. p + k \in 0 .. MaxVersion /\ p <= p + k
    BY <1>2, <1>4, <1>5, <1>8
  <2>3. /\ rep'[s].by_resp = rep[s].by_resp /\ rep'[s].stage = "sync_from_queue"
        /\ sv'[s] = sv[s] /\ acks'[s] = acks[s] /\ forgot'[s] = forgot[s]
    BY Zenon, <1>2, <1>9
  <2> DEFINE h == p + k
  <2> HIDE DEF h
  <2>4. /\ h \in 0 .. MaxVersion /\ Sent(s)' = h /\ Sent(s) \in Nat /\ Sent(s) <= h
        /\ Len(wire'[s]) = Len(wire[s]) + (h - Sent(s))
        /\ \A i \in 1 .. h - Sent(s) : wire'[s][Len(wire[s]) + i] = Sent(s) + i
        /\ timeouts' = 0 => Range(wire[s]) \cup (Sent(s) + 1 .. h) \subseteq rep'[s].ring
    BY ZenonT(30), <1>4, <1>15, <1>16, <1>17, <2>1, <2>2 DEF h
  <2> QED BY Zenon, <1>11, <1>16, <1>17, <2>3, <2>4, SendBlock
<1>19. Discarded(s)' /\ Fresh(s)' /\ Reading(s)' /\ EndOfFile(s)'
  BY Zenon, <1>2, <1>5, <1>9, <1>11 DEF Discarded, Fresh, Reading, EndOfFile
<1>20. SlaveInv(s)'
  BY Zenon, <1>13, <1>18, <1>19 DEF SlaveInv
<1> QED BY Zenon, <1>2, <1>10, <1>14, <1>16, <1>20, LocalStep

\* None, and all, of a sequence.
LEMMA NoneAll ==
    ASSUME NEW S, NEW q \in Seq(S)
    PROVE  SubSeq(q, 1, 0) = <<>> /\ SubSeq(q, 0 + 1, Len(q)) = q
OBVIOUS

\* The switch to the queue.  The queue has nothing that the file had: what is held is not in
\* the binlog.  All that has been sent has been answered for, so that the wire is empty.
LEMMA SwitchToQueueStep ==
    ASSUME IInv, NEW s \in Slave, SwitchToQueue(s)
    PROVE  IInv'
<1> DEFINE r == rep[s]
           q == r.queue
           p == Passed(s)
           f == ReadFrom(s)
           w == wire[s]
           n == [r EXCEPT !.stage = "sync_from_queue", !.done = <<>>, !.dealing = FALSE]
<1>1. PICK k \in 0 .. Len(q) :
        /\ Synced(r, k) /\ waiting' = Released(Range(SubSeq(q, 1, k)))
        /\ Set(s, [r EXCEPT !.stage = "sync_from_queue", !.done = <<>>,
                            !.dealing = FALSE,
                            !.queue = SubSeq(@, k + 1, Len(@)),
                            !.by_queue = IF k = 0 THEN @ ELSE r.queue[k]])
  BY Zenon DEF SwitchToQueue
<1>2. /\ Local(s) /\ r.stage = "sync_from_disk" /\ Head(r.done) = ENOENT /\ r.done # <<>>
      /\ MaySwitch(r)
      /\ UNCHANGED <<version, written, sv, wire, acks, breaks, timeouts, forgot>>
  BY Zenon, Begin, IsLocal DEF SwitchToQueue, Thread, Fetch
<1>3. /\ r \in Replica /\ q \in Seq(Version) /\ w \in Seq(Version)
      /\ QueueInOrder(s) /\ InOrder(s) /\ Reading(s) /\ Discarded(s) /\ EndOfFile(s)
      /\ SentAll(s) /\ OneConsumer(s) /\ sv[s] \in SlaveState /\ acks[s] \in Seq(Version)
      /\ forgot[s] \subseteq Version /\ SlaveInv(s)
      /\ rep \in [Slave -> Replica] /\ r.done \in Seq(Result)
  BY Zenon, Begin, Fields DEF Result
<1>4. /\ p \in Nat /\ written \in Nat /\ written <= p /\ Len(q) \in Nat
      /\ \A i \in 1 .. Len(q) : q[i] = p + i
      /\ r.ring = {}
  <2>1. p \in Nat /\ Len(q) \in Nat /\ written \in Nat
    BY Zenon, <1>3, Begin, HeldParts
  <2> QED BY Zenon, <1>2, <1>3, <2>1 DEF QueueInOrder
<1>5. /\ r.current \in Nat /\ r.by_queue \in Nat /\ r.by_resp \in Nat /\ f \in Nat
      /\ f <= written /\ r.current <= f /\ (r.current # 0 => f = r.current)
  <2>1. /\ r.current \in 0 .. MaxVersion /\ r.by_queue \in 0 .. MaxVersion
        /\ r.by_resp \in 0 .. MaxVersion /\ r.last \in -1 .. MaxVersion
        /\ r.pos \in 0 .. MaxVersion /\ MaxVersion \in Nat
    BY Zenon, Begin, Fields
  <2>2. r.last # -1 /\ f <= r.pos /\ r.pos <= written
    BY Zenon, <1>2, <1>3 DEF Reading
  <2>3. f = IF r.current = 0 THEN r.last ELSE r.current
    BY Zenon DEF ReadFrom
  <2> HIDE DEF f
  <2> QED BY SMTT(30), <1>4, <2>1, <2>2, <2>3
<1>6. k = 0
  <2>1. SUFFICES ASSUME k # 0 PROVE FALSE
    BY Zenon
  <2>2. 1 \in 1 .. k /\ 1 \in 1 .. Len(q)
    BY <1>4, <2>1
  <2>3. q[1] <= r.current /\ q[1] = p + 1
    BY Zenon, <1>1, <1>4, <2>2 DEF Synced
  <2> QED BY <1>4, <1>5, <2>3
<1>7. rep'[s] = n /\ waiting' = Released({})
  <2>1. SubSeq(q, 1, 0) = <<>> /\ SubSeq(q, 0 + 1, Len(q)) = q
    BY Zenon, <1>3, NoneAll
  <2>2. waiting' = Released({})
    BY Zenon, <1>1, <1>6, <2>1, NoElement
  <2>3. rep'[s] = [r EXCEPT !.stage = "sync_from_queue", !.done = <<>>, !.dealing = FALSE,
                            !.queue = SubSeq(@, 0 + 1, Len(@)), !.by_queue = @]
    BY Zenon, <1>1, <1>3, <1>6 DEF Set
  <2>4. [r EXCEPT !.stage = "sync_from_queue", !.done = <<>>, !.dealing = FALSE,
                  !.queue = SubSeq(@, 0 + 1, Len(@)), !.by_queue = @] = n
    BY Zenon, <1>3, <2>1 DEF Replica
  <2> QED BY Zenon, <2>2, <2>3, <2>4
<1>8. /\ n \in Replica /\ n.queue = q /\ n.ring = r.ring /\ n.by_queue = r.by_queue
      /\ n.stage = "sync_from_queue" /\ n.by_resp = r.by_resp
  BY Zenon, <1>3, NoElement DEF Replica
<1> HIDE DEF n
<1>9. /\ Held(s)' = Held(s) \ {} /\ {} \in SUBSET Held(s) /\ Passed(s)' = p
      /\ Joined(s) /\ Joined(s)' /\ Sent(s) = f /\ Sent(s)' = p
  <2>1. Held(s)' = Held(s) /\ Passed(s)' = p /\ Joined(s) /\ Joined(s)' /\ Sent(s) = f
    BY Zenon, <1>2, <1>7, <1>8 DEF Held, Passed, Joined, Sent
  <2>2. Sent(s)' = p
    BY Zenon, <1>7, <1>8, <2>1 DEF Sent
  <2> QED BY Zenon, <2>1, <2>2
<1>10. w = <<>>
  <2>1. CASE r.current = 0
    BY ZenonT(30), <1>2, <1>3, <1>9, <2>1 DEF InOrder
  <2>2. CASE r.current # 0
    <3>1. \A i \in 1 .. Len(w) : r.by_resp < w[i] /\ w[i] <= f
      BY Zenon, <1>3, <1>9 DEF InOrder
    <3>2. r.by_resp >= r.current /\ f = r.current
      BY Zenon, <1>2, <1>5, <2>2 DEF MaySwitch
    <3>3. \A i \in 1 .. Len(w) : w[i] \in Nat
      <4>1. Version \subseteq Nat
        BY DEF Version
      <4> QED BY ZenonT(30), <1>3, <4>1, RangeSeq
    <3>4. Len(w) = 0
      <4>1. 1 \notin 1 .. Len(w)
        BY SMTT(30), <1>5, <3>1, <3>2, <3>3
      <4>2. Len(w) \in Nat
        BY <1>3
      <4> QED BY <4>1, <4>2
    <3> QED BY <1>3, <3>4
  <2> QED BY Zenon, <2>1, <2>2
<1>11. Settled(s)' = Settled(s) /\ NoHoles(s)' /\ WireAll(s)'
  BY Zenon, <1>2, <1>3, SameData
<1>12. \A u \in Version : u <= f => u \in Settled(s)
  BY Zenon, <1>3, <1>9, <1>10, NoElement DEF SentAll
<1>13. \A u \in Version : u <= p => u \in Settled(s)
  <2>1. CASE r.by_queue # 0
    <3>1. r.by_queue = p /\ r.by_queue <= r.current
      BY Zenon, <1>2, <1>3, <2>1 DEF Discarded, MaySwitch
    <3>2. p = f
      BY <1>4, <1>5, <3>1
    <3> QED BY Zenon, <1>12, <3>2
  <2>2. CASE r.by_queue = 0
    <3>1. 1 \in 1 .. Len(r.done) /\ r.done[1] = ENOENT
      <4>1. Len(r.done) >= 1 /\ Len(r.done) \in Nat /\ r.done[1] = ENOENT
        <5>1. r.done \in Seq(Result) /\ r.done # <<>> /\ Head(r.done) = ENOENT
          BY Zenon, <1>2, <1>3
        <5> DEFINE read == r.done
        <5> HIDE DEF read
        <5>2. read \in Seq(Result) /\ read # <<>> /\ Head(read) = ENOENT
          BY Zenon, <5>1 DEF read
        <5>3. Len(read) >= 1 /\ Len(read) \in Nat /\ read[1] = ENOENT
          BY <5>2
        <5> QED BY Zenon, <5>3 DEF read
      <4> QED BY SMTT(30), <4>1
    <3>2. \A u \in 1 .. p : u \in forgot[s] \/ u <= f \/ \E j \in 1 .. 1 - 1 : TRUE
      BY Zenon, <1>2, <1>3, <2>2, <3>1 DEF EndOfFile
    <3>3. \A u \in Version : u <= p => u \in 1 .. p
      BY <1>4 DEF Version
    <3>4. ~ \E j \in 1 .. 1 - 1 : TRUE
      OBVIOUS
    <3> QED BY Zenon, <1>12, <3>2, <3>3, <3>4 DEF Settled
  <2> QED BY Zenon, <2>1, <2>2
<1>14. SentAll(s)' /\ OneConsumer(s)'
  BY Zenon, <1>2, <1>3, <1>9, <1>11, <1>13 DEF SentAll, OneConsumer
<1>15. InOrder(s)'
  <2>1. wire'[s] = <<>>
    BY Zenon, <1>2, <1>10
  <2>2. \A x \in sv'[s].replaying \cup Range(acks'[s]) \cup {rep'[s].by_resp} : x <= f
    BY Zenon, <1>2, <1>3, <1>7, <1>8, <1>9 DEF InOrder
  <2>3. \A x \in sv'[s].replaying \cup Range(acks'[s]) \cup {rep'[s].by_resp} : x \in Nat
    <3>1. sv[s].replaying \subseteq Version /\ Range(acks[s]) \subseteq Version
      BY Zenon, <1>3, RangeSeq DEF SlaveState
    <3>2. Version \subseteq Nat
      BY DEF Version
    <3> QED BY Zenon, <1>2, <1>5, <1>7, <1>8, <3>1, <3>2
  <2>4. \A x \in sv'[s].replaying \cup Range(acks'[s]) \cup {rep'[s].by_resp} : x <= p
    <3>1. \A x \in Nat : x <= f => x <= p
      BY <1>4, <1>5
    <3> QED BY Zenon, <2>2, <2>3, <3>1
  <2>5. \A i \in 1 .. Len(wire'[s]) : FALSE
    BY <2>1
  <2> QED BY Zenon, <1>7, <1>8, <1>9, <2>1, <2>4, <2>5, NoElement DEF InOrder
<1>16. QueueInOrder(s)'
  BY Zenon, <1>2, <1>3, <1>7, <1>8, <1>9 DEF QueueInOrder
<1>17. Discarded(s)' /\ Fresh(s)' /\ Reading(s)' /\ EndOfFile(s)'
  BY Zenon, <1>3, <1>7, <1>8, <1>9 DEF Discarded, Fresh, Reading, EndOfFile
<1>18. SlaveInv(s)'
  BY Zenon, <1>11, <1>14, <1>15, <1>16, <1>17 DEF SlaveInv
<1> QED BY Zenon, <1>2, <1>3, <1>7, <1>8, <1>9, <1>18, LocalStep

=============================================================================

---------------------------- MODULE ReplicationProofs ----------------------------
(***************************************************************************)
(* The replication keeps exact counts, an active slave has what was        *)
(* answered, and a slave misses only what was on its way to it when its    *)
(* connection was lost: for any number of slaves, updates and failures.    *)
(***************************************************************************)
EXTENDS ReplicationThread

-----------------------------------------------------------------------------
(* Results.                                                                *)

\* Results are taken off the ring, because they have come or have expired.
LEMMA ResultStep ==
    ASSUME IInv, NEW s \in Slave, Local(s),
           rep[s].stage \in {"sync_from_disk", "sync_from_queue"},
           \/ UNCHANGED <<breaks, timeouts>>
           \/ MayFail /\ breaks' = breaks /\ timeouts' = timeouts + 1,
           UNCHANGED <<sv, wire, forgot>>, acks'[s] \in Seq(Version),
           NEW R \in SUBSET rep[s].ring, NEW b \in 0 .. MaxVersion,
           rep'[s] = [rep[s] EXCEPT !.ring = R, !.by_resp = b],
           \/ waiting' = waiting /\ R = rep[s].ring
           \/ waiting' = Released(rep[s].ring \ R),
           Range(acks'[s]) \cup {b} \subseteq Range(acks[s]) \cup {rep[s].by_resp},
           rep[s].stage = "sync_from_queue" /\ timeouts' = 0 => Range(wire[s]) \subseteq R
    PROVE  IInv'
<1> DEFINE r == rep[s]
           n == [r EXCEPT !.ring = R, !.by_resp = b]
<1>1. /\ r \in Replica /\ sv[s] \in SlaveState /\ wire[s] \in Seq(Version)
      /\ forgot[s] \subseteq Version /\ SlaveInv(s) /\ r.ring \subseteq Version
      /\ QueueInOrder(s) /\ OneConsumer(s) /\ SentAll(s) /\ Reading(s) /\ Discarded(s)
      /\ EndOfFile(s) /\ InOrder(s) /\ Fresh(s) /\ UNCHANGED <<version, written>>
  BY Zenon, Begin, Fields DEF Local
<1>2. rep'[s] = n
  BY Zenon
<1>3. /\ n \in Replica /\ n.ring = R /\ n.by_resp = b /\ n.queue = r.queue
      /\ n.stage = r.stage /\ n.last = r.last /\ n.current = r.current
      /\ n.by_queue = r.by_queue /\ n.pos = r.pos /\ n.done = r.done
  BY Zenon, <1>1 DEF Replica
<1> HIDE DEF n
<1>4. /\ Passed(s)' = Passed(s) /\ Joined(s)' /\ Joined(s) /\ ReadFrom(s)' = ReadFrom(s)
  BY Zenon, <1>1, <1>2, <1>3 DEF Passed, Joined, ReadFrom
<1>5. Sent(s)' = Sent(s)
  BY Zenon, <1>2, <1>3, <1>4 DEF Sent
<1>6. \/ waiting' = waiting /\ Held(s)' = Held(s)
      \/ \E V \in SUBSET Held(s) : waiting' = Released(V) /\ Held(s)' = Held(s) \ V
  <2>1. Range(r.queue) \cap r.ring = {}
    BY Zenon, <1>1, Begin, HeldParts
  <2>2. Held(s) = Range(r.queue) \cup r.ring /\ Held(s)' = Range(r.queue) \cup R
    BY Zenon, <1>2, <1>3 DEF Held
  <2>3. r.ring \ R \in SUBSET Held(s) /\ Held(s)' = Held(s) \ (r.ring \ R)
    BY Zenon, <2>1, <2>2
  <2> QED BY Zenon, <2>2, <2>3
<1>7. Settled(s)' = Settled(s) /\ NoHoles(s)' /\ WireAll(s)'
  BY Zenon, <1>1, SameData
<1>8. QueueInOrder(s)'
  BY ZenonT(30), <1>1, <1>2, <1>3, <1>4 DEF QueueInOrder
<1>9. Reading(s)' /\ Discarded(s)' /\ EndOfFile(s)' /\ Fresh(s)'
  <2>0. /\ rep'[s].stage = r.stage /\ rep'[s].last = r.last /\ rep'[s].pos = r.pos
        /\ rep'[s].done = r.done /\ rep'[s].by_queue = r.by_queue
        /\ UNCHANGED <<written, forgot>>
    BY Zenon, <1>1, <1>2, <1>3
  <2>1. Reading(s)'
    <3>1. Reading(s)
      BY Zenon, <1>1
    <3> QED BY Zenon, <1>4, <2>0, <3>1 DEF Reading
  <2>2. EndOfFile(s)'
    <3>1. EndOfFile(s)
      BY Zenon, <1>1
    <3> QED BY Zenon, <1>4, <2>0, <3>1 DEF EndOfFile
  <2>3. Discarded(s)' /\ Fresh(s)'
    BY ZenonT(30), <1>1, <1>2, <1>3, <1>4 DEF Discarded, Fresh
  <2> QED BY Zenon, <2>1, <2>2, <2>3
<1>10. OneConsumer(s)'
  BY Zenon, <1>1, <1>4 DEF OneConsumer
<1>11. SentAll(s)'
  BY ZenonT(30), <1>1, <1>4, <1>5, <1>7 DEF SentAll
<1>12. InOrder(s)'
  BY ZenonT(60), <1>1, <1>2, <1>3, <1>4, <1>5 DEF InOrder
<1>13. SlaveInv(s)'
  BY ZenonT(30), <1>7, <1>8, <1>9, <1>10, <1>11, <1>12 DEF SlaveInv
<1> QED BY ZenonT(30), <1>1, <1>2, <1>3, <1>6, <1>13, LocalStep

\* push_result_ring_clear_timeouts.
LEMMA ClearTimeoutsStep ==
    ASSUME IInv, NEW s \in Slave, ClearTimeouts(s)
    PROVE  IInv'
<1> DEFINE r == rep[s]
<1>1. PICK v \in r.ring :
        /\ waiting' = Released({u \in r.ring : u <= v})
        /\ Set(s, [r EXCEPT !.ring = @ \ {u \in r.ring : u <= v}])
  BY Zenon DEF ClearTimeouts
<1> DEFINE R == r.ring \ {u \in r.ring : u <= v}
<1>2. /\ Local(s) /\ r.stage = "sync_from_queue" /\ r \in Replica
      /\ r.by_resp \in 0 .. MaxVersion /\ acks[s] \in Seq(Version)
      /\ MayFail /\ breaks' = breaks /\ timeouts' = timeouts + 1
      /\ UNCHANGED <<sv, wire, forgot, acks>>
  BY Zenon, Begin, Fields, IsLocal DEF ClearTimeouts, Failures
<1>3. R \in SUBSET r.ring /\ waiting' = Released(r.ring \ R)
  <2>1. r.ring \ R = {u \in r.ring : u <= v}
    BY Zenon
  <2> QED BY Zenon, <1>1, <2>1
<1>4. rep'[s] = [r EXCEPT !.ring = R, !.by_resp = r.by_resp]
  <2>1. rep'[s] = [r EXCEPT !.ring = R]
    BY Zenon, <1>1, Begin DEF Set
  <2>2. [r EXCEPT !.ring = R] = [r EXCEPT !.ring = R, !.by_resp = r.by_resp]
    BY Zenon, <1>2 DEF Replica
  <2> QED BY Zenon, <2>1, <2>2
<1>5. timeouts' # 0
  <2>1. timeouts \in 0 .. MaxFailures - breaks
    BY Zenon, Begin DEF TypeOK
  <2> QED BY <1>2, <2>1
<1> HIDE DEF R
<1> QED BY ZenonT(30), <1>2, <1>3, <1>4, <1>5, ResultStep

-----------------------------------------------------------------------------
(* The end of a connection.                                                *)

\* A replication that has been bound has its type.
LEMMA BoundType == Bound(<<>>) \in Replica
<1>1. /\ 0 \in 0 .. MaxVersion /\ -1 \in -1 .. MaxVersion
  BY BoundAssumption
<1> QED BY Zenon, <1>1, NoElement DEF Bound, Replica

\* binlog_replication_rebind_thread, whatever the slave keeps.
LEMMA RebindStep ==
    ASSUME IInv, NEW s \in Slave, Local(s), Rebind(s),
           \/ UNCHANGED <<breaks, timeouts>>
           \/ MayFail /\ breaks' = breaks + 1 /\ timeouts' = timeouts,
           sv'[s] \in SlaveState, wire'[s] \in Seq(Version),
           sv'[s].consumer = "none" => wire'[s] = <<>> /\ sv'[s].replaying = {},
           NoHoles(s)', WireAll(s)',
           \A i \in 1 .. Len(wire'[s]) : \A j \in 1 .. i - 1 : wire'[s][j] < wire'[s][i]
    PROVE  IInv'
<1>1. /\ rep'[s] = Bound(<<>>) /\ acks'[s] = <<>>
      /\ forgot'[s] = forgot[s] \cup (written + 1 .. version)
      /\ waiting' = Released(Held(s)) /\ UNCHANGED <<version, written>>
  BY Zenon, Begin DEF Rebind, Set, Local, Held
<1>2. /\ rep'[s].stage = "none" /\ rep'[s].queue = <<>> /\ rep'[s].ring = {}
      /\ rep'[s].by_queue = 0 /\ rep'[s].by_resp = 0 /\ rep'[s].current = 0
      /\ rep'[s].last = -1 /\ rep'[s].done = <<>>
  <2>1. /\ Bound(<<>>).stage = "none" /\ Bound(<<>>).queue = <<>> /\ Bound(<<>>).ring = {}
        /\ Bound(<<>>).by_queue = 0 /\ Bound(<<>>).by_resp = 0 /\ Bound(<<>>).current = 0
        /\ Bound(<<>>).last = -1 /\ Bound(<<>>).done = <<>>
    BY Zenon DEF Bound
  <2> QED BY Zenon, <1>1, <2>1
<1>3. /\ written \in Nat /\ version \in Nat /\ written <= version /\ version <= MaxVersion
      /\ MaxVersion \in Nat /\ forgot[s] \subseteq Version
  BY Zenon, Begin, Fields
<1>4. forgot'[s] \subseteq Version
  <2>1. \A x \in written + 1 .. version : x \in 1 .. MaxVersion
    BY <1>3
  <2> QED BY Zenon, <1>1, <1>3, <2>1 DEF Version
<1>5. Held(s)' = {}
  BY Zenon, <1>2, NoElement DEF Held
<1>6. Passed(s)' = version /\ ~Joined(s)'
  <2>1. Passed(s)' = version - 0
    BY Zenon, <1>1, <1>2, NoElement DEF Passed
  <2>2. version - 0 = version
    BY <1>3
  <2> QED BY Zenon, <1>2, <2>1, <2>2 DEF Joined
<1>7. QueueInOrder(s)'
  <2>1. \A i \in 1 .. 0 : FALSE
    OBVIOUS
  <2> QED BY ZenonT(30), <1>1, <1>2, <1>3, <1>6, <2>1, NoElement DEF QueueInOrder
<1>8. Discarded(s)'
  <2>1. \A u \in 1 .. version : u \in written + 1 .. version \/ u <= written
    BY <1>3
  <2> QED BY Zenon, <1>1, <1>2, <1>6, <2>1 DEF Discarded
<1>9. Fresh(s)' /\ Reading(s)' /\ EndOfFile(s)' /\ SentAll(s)' /\ OneConsumer(s)'
  BY Zenon, <1>1, <1>2, <1>6 DEF Fresh, Reading, EndOfFile, SentAll, OneConsumer
<1>10. InOrder(s)'
  BY Zenon, <1>6 DEF InOrder
<1>11. SlaveInv(s)'
  BY ZenonT(30), <1>7, <1>8, <1>9, <1>10 DEF SlaveInv
<1>12. Held(s)' = Held(s) \ Held(s) /\ acks'[s] \in Seq(Version)
  BY Zenon, <1>1, <1>5, NoElement
<1> QED BY ZenonT(30), <1>1, <1>4, <1>11, <1>12, BoundType, LocalStep

\* The connection is closed and the slave goes on.
LEMMA ClosedStep ==
    ASSUME IInv, NEW s \in Slave, Local(s), Rebind(s), Orphan(s) \/ UNCHANGED sv,
           \/ UNCHANGED <<breaks, timeouts>>
           \/ MayFail /\ breaks' = breaks + 1 /\ timeouts' = timeouts,
           UNCHANGED wire
    PROVE  IInv'
<1>1. /\ OneConsumer(s) /\ NoHoles(s) /\ WireAll(s) /\ InOrder(s) /\ sv[s] \in SlaveState
      /\ wire[s] \in Seq(Version) /\ forgot[s] \subseteq forgot'[s]
  <2>1. forgot'[s] = forgot[s] \cup (written + 1 .. version)
    BY Zenon, Begin DEF Rebind
  <2> QED BY Zenon, <2>1, Begin, Fields
<1>2. /\ sv'[s] \in SlaveState /\ sv'[s].replaying = sv[s].replaying
      /\ sv'[s].applied = sv[s].applied /\ sv'[s].before = sv[s].before
      /\ sv'[s].current = sv[s].current /\ sv'[s].replayed = sv[s].replayed
      /\ sv'[s].consumer = "none" <=> sv[s].consumer = "none"
  <2>1. CASE UNCHANGED sv
    BY Zenon, <1>1, <2>1
  <2>2. CASE Orphan(s)
    <3> DEFINE c == IF sv[s].consumer = "live" THEN "orphan" ELSE sv[s].consumer
    <3>1. sv'[s] = [sv[s] EXCEPT !.consumer = c]
      BY Zenon, <2>2, Begin DEF Orphan, SetSlave
    <3>2. c \in {"none", "live", "orphan"} /\ (c = "none" <=> sv[s].consumer = "none")
      BY Zenon, <1>1 DEF SlaveState
    <3> HIDE DEF c
    <3> QED BY Zenon, <1>1, <3>1, <3>2 DEF SlaveState
  <2> QED BY Zenon, <2>1, <2>2
<1>3. Has(s)' = Has(s) /\ Settled(s) \subseteq Settled(s)'
  BY Zenon, <1>1, <1>2 DEF Has, Settled
<1>4. NoHoles(s)'
  BY Zenon, <1>1, <1>2, <1>3 DEF NoHoles
<1>5. WireAll(s)'
  <2>1. wire'[s] = wire[s]
    BY Zenon
  <2> QED BY <1>1, <1>3, <2>1 DEF WireAll
<1>6. /\ wire'[s] = wire[s]
      /\ sv'[s].consumer = "none" => wire'[s] = <<>> /\ sv'[s].replaying = {}
      /\ \A i \in 1 .. Len(wire'[s]) : \A j \in 1 .. i - 1 : wire'[s][j] < wire'[s][i]
  BY Zenon, <1>1, <1>2 DEF OneConsumer, InOrder
<1> QED BY ZenonT(30), <1>1, <1>2, <1>4, <1>5, <1>6, RebindStep

\* The connection breaks, the join is refused, or the slave is ahead of the binlog.
LEMMA BreakStep ==
    ASSUME IInv, NEW s \in Slave, Disconnect(s) \/ JoinRefused(s) \/ StartReaderFail(s)
    PROVE  IInv'
<1>1. Local(s)
  BY Zenon, Begin, IsLocal DEF Thread, Failures
<1>2. /\ Rebind(s) /\ (Orphan(s) \/ UNCHANGED sv) /\ UNCHANGED wire
      /\ \/ UNCHANGED <<breaks, timeouts>>
         \/ MayFail /\ breaks' = breaks + 1 /\ timeouts' = timeouts
  BY Zenon DEF Disconnect, JoinRefused, StartReaderFail
<1> QED BY Zenon, <1>1, <1>2, ClosedStep

\* cluster_deal_push_binlog_resp.
LEMMA PushRespStep ==
    ASSUME IInv, NEW s \in Slave, PushResp(s)
    PROVE  IInv'
<1> DEFINE r == rep[s]
           v == Head(acks[s])
           b == Larger(r.by_resp, v)
<1>1. /\ Local(s) /\ acks[s] # <<>> /\ acks[s] \in Seq(Version) /\ r \in Replica
      /\ r.by_resp \in 0 .. MaxVersion /\ InOrder(s) /\ wire[s] \in Seq(Version)
      /\ UNCHANGED <<version, written, wire, breaks, timeouts>>
  BY Zenon, Begin, Fields, IsLocal DEF PushResp
<1>2. /\ v \in Range(acks[s]) /\ v \in Version /\ Tail(acks[s]) \in Seq(Version)
      /\ Range(Tail(acks[s])) \subseteq Range(acks[s])
  <2> DEFINE a == acks[s]
  <2>1. /\ Tail(a) \in Seq(Version) /\ Len(Tail(a)) = Len(a) - 1 /\ Len(a) >= 1
        /\ Head(a) = a[1] /\ Head(a) \in Version
        /\ \A i \in 1 .. Len(a) - 1 : Tail(a)[i] = a[i + 1]
    BY Zenon, <1>1, TailSeq
  <2>2. /\ Len(a) \in Nat /\ \A i \in 1 .. Len(a) : a[i] \in Range(a)
        /\ \A x : x \in Range(Tail(a)) <=> \E i \in 1 .. Len(Tail(a)) : Tail(a)[i] = x
    BY Zenon, <1>1, <2>1, RangeSeq
  <2> HIDE DEF a
  <2>3. 1 \in 1 .. Len(a) /\ \A i \in 1 .. Len(a) - 1 : i + 1 \in 1 .. Len(a)
    BY <2>1, <2>2
  <2>4. ASSUME NEW x \in Range(Tail(a)) PROVE x \in Range(a)
    <3>1. PICK i \in 1 .. Len(a) - 1 : Tail(a)[i] = x
      BY Zenon, <2>1, <2>2
    <3>2. a[i + 1] = x /\ i + 1 \in 1 .. Len(a)
      BY Zenon, <2>1, <2>3, <3>1
    <3> QED BY Zenon, <2>2, <3>2
  <2>5. Head(a) \in Range(a)
    BY Zenon, <2>1, <2>2, <2>3
  <2> QED BY Zenon, <2>1, <2>4, <2>5 DEF a
<1>3. b \in 0 .. MaxVersion /\ (b = r.by_resp \/ b = v)
  <2>1. v \in 0 .. MaxVersion
    BY <1>2 DEF Version
  <2> QED BY Zenon, <1>1, <2>1 DEF Larger
<1>4. Range(Tail(acks[s])) \cup {b} \subseteq Range(acks[s]) \cup {r.by_resp}
  BY Zenon, <1>2, <1>3
<1>5. CASE /\ r.stage = "sync_from_queue" /\ v \in r.ring
           /\ waiting' = Released({v}) /\ Set(s, [Heard(r, v) EXCEPT !.ring = @ \ {v}])
           /\ acks' = [acks EXCEPT ![s] = Tail(@)] /\ UNCHANGED <<sv, forgot>>
  <2> DEFINE R == r.ring \ {v}
  <2>1. R \in SUBSET r.ring /\ r.ring \ R = {v}
    BY Zenon, <1>5
  <2>2. rep'[s] = [r EXCEPT !.ring = R, !.by_resp = b]
    <3>1. rep'[s] = [Heard(r, v) EXCEPT !.ring = @ \ {v}]
      BY Zenon, <1>5, Begin DEF Set
    <3>2. [Heard(r, v) EXCEPT !.ring = @ \ {v}] = [r EXCEPT !.ring = R, !.by_resp = b]
      BY Zenon, <1>1 DEF Heard, Replica
    <3> QED BY Zenon, <3>1, <3>2
  <2>3. acks'[s] = Tail(acks[s])
    BY Zenon, <1>5, Begin
  <2>4. timeouts' = 0 => Range(wire[s]) \subseteq R
    <3>1. Joined(s)
      BY Zenon, <1>5 DEF Joined
    <3>2. timeouts = 0 => Range(wire[s]) \subseteq r.ring
      BY Zenon, <1>1, <1>5, <3>1 DEF InOrder
    <3>3. \A i \in 1 .. Len(wire[s]) : v < wire[s][i]
      BY Zenon, <1>1, <1>2, <3>1 DEF InOrder
    <3>4. v \notin Range(wire[s])
      <4>1. \A x \in Range(wire[s]) : v < x
        <5>1. wire[s] \in Seq(Version)
          BY Zenon, <1>1
        <5>2. \A x : x \in Range(wire[s]) <=> \E i \in 1 .. Len(wire[s]) : wire[s][i] = x
          BY Zenon, <5>1, RangeSeq
        <5> QED BY Zenon, <3>3, <5>2
      <4>2. ~(v < v)
        BY <1>2 DEF Version
      <4> QED BY Zenon, <4>1, <4>2
    <3> QED BY Zenon, <1>1, <3>2, <3>4
  <2>5. /\ Local(s) /\ r.stage \in {"sync_from_disk", "sync_from_queue"}
        /\ UNCHANGED <<breaks, timeouts>> /\ UNCHANGED <<sv, wire, forgot>>
        /\ acks'[s] \in Seq(Version) /\ waiting' = Released(r.ring \ R)
        /\ Range(acks'[s]) \cup {b} \subseteq Range(acks[s]) \cup {r.by_resp}
        /\ R \in SUBSET r.ring /\ b \in 0 .. MaxVersion
    BY ZenonT(30), <1>1, <1>2, <1>3, <1>4, <1>5, <2>1, <2>3
  <2> HIDE DEF R, b, v
  <2> QED BY ZenonT(30), <2>2, <2>4, <2>5, ResultStep
<1>6. CASE /\ r.stage = "sync_from_disk" /\ Set(s, Heard(r, v))
           /\ acks' = [acks EXCEPT ![s] = Tail(@)] /\ UNCHANGED <<waiting, sv, forgot>>
  <2>1. rep'[s] = [r EXCEPT !.ring = r.ring, !.by_resp = b]
    <3>1. rep'[s] = Heard(r, v)
      BY Zenon, <1>6, Begin DEF Set
    <3>2. Heard(r, v) = [r EXCEPT !.ring = r.ring, !.by_resp = b]
      BY Zenon, <1>1 DEF Heard, Replica
    <3> QED BY Zenon, <3>1, <3>2
  <2>2. acks'[s] = Tail(acks[s])
    BY Zenon, <1>6, Begin
  <2> HIDE DEF b, v
  <2> QED BY ZenonT(30), <1>1, <1>2, <1>3, <1>4, <1>6, <2>1, <2>2, ResultStep
<1>7. CASE Rebind(s) /\ Orphan(s)
  BY Zenon, <1>1, <1>7, ClosedStep
<1> QED BY Zenon, <1>5, <1>6, <1>7 DEF PushResp

\* The slave starts again from its binlog.
LEMMA RestartStep ==
    ASSUME IInv, NEW s \in Slave, Restart(s)
    PROVE  IInv'
<1> DEFINE t == sv[s]
<1>1. PICK v \in t.applied \cup {0} :
        /\ t.replaying # {} => v <= t.before
        /\ SetSlave(s, [consumer |-> "none", replaying |-> {}, replayed |-> 0,
                        before |-> 0, current |-> v,
                        applied |-> {u \in t.applied : u <= v}])
  BY Zenon DEF Restart
<1>2. /\ Local(s) /\ Rebind(s) /\ MayFail /\ breaks' = breaks + 1 /\ timeouts' = timeouts
      /\ wire'[s] = <<>> /\ t \in SlaveState /\ NoHoles(s) /\ t.applied \subseteq Version
      /\ t.before \in 0 .. MaxVersion
  BY Zenon, Begin, Fields, IsLocal DEF Restart, Failures
<1> DEFINE A == {u \in t.applied : u <= v}
           n == [consumer |-> "none", replaying |-> {}, replayed |-> 0,
                 before |-> 0, current |-> v, applied |-> A]
<1>3. sv'[s] = n
  BY Zenon, <1>1, Begin DEF SetSlave
<1>4. v \in 0 .. MaxVersion /\ 0 \in 0 .. MaxVersion /\ Version \subseteq Nat
  BY <1>1, <1>2, BoundAssumption DEF Version
<1>5. A \subseteq Version
  BY Zenon, <1>2
<1>6. /\ n \in SlaveState /\ n.consumer = "none" /\ n.replaying = {} /\ n.replayed = 0
      /\ n.before = 0 /\ n.current = v /\ n.applied = A
  <2> HIDE DEF A
  <2> QED BY Zenon, <1>4, <1>5 DEF SlaveState
<1> HIDE DEF n
<1>7. Has(s)' = A /\ forgot[s] \subseteq forgot'[s]
  <2>1. forgot'[s] = forgot[s] \cup (written + 1 .. version)
    BY Zenon, <1>2, Begin DEF Rebind
  <2> QED BY Zenon, <1>3, <1>6, <2>1 DEF Has
<1>8. v \in A \cup {0}
  <2>1. v <= v
    BY <1>4
  <2> QED BY Zenon, <1>1, <2>1
<1>9. ASSUME NEW x \in A, NEW u \in Version, u < x PROVE u \in A \cup forgot[s]
  <2>1. u \in t.applied \cup t.replaying \cup forgot[s]
    BY Zenon, <1>2, <1>9 DEF NoHoles, Has, Settled
  <2>2. x \in Nat /\ u \in Nat /\ v \in Nat /\ x <= v /\ u <= v
    <3>1. x \in Nat /\ u \in Nat /\ x <= v
      BY ZenonT(30), <1>4, <1>5, <1>9
    <3> HIDE DEF A
    <3> QED BY <1>4, <1>9, <3>1
  <2>3. CASE t.replaying # {}
    <3>1. u <= t.before
      BY <1>1, <1>2, <2>2, <2>3
    <3>2. u \in t.applied \cup forgot[s]
      BY Zenon, <1>2, <3>1 DEF NoHoles
    <3> QED BY Zenon, <2>2, <3>2
  <2>4. CASE t.replaying = {}
    BY Zenon, <2>1, <2>2, <2>4
  <2> QED BY Zenon, <2>3, <2>4
<1>10. NoHoles(s)'
  <2>1. \A u \in Version : ~(u <= 0)
    BY DEF Version
  <2>2. \A x \in Has(s)', u \in Version : u < x => u \in Settled(s)'
    BY Zenon, <1>7, <1>9 DEF Settled
  <2> HIDE DEF A
  <2> QED BY Zenon, <1>3, <1>6, <1>8, <2>1, <2>2 DEF NoHoles
<1>11. /\ WireAll(s)' /\ wire'[s] \in Seq(Version)
       /\ \A i \in 1 .. Len(wire'[s]) : \A j \in 1 .. i - 1 : wire'[s][j] < wire'[s][i]
  <2>1. \A i \in 1 .. Len(wire'[s]) : FALSE
    BY <1>2
  <2> QED BY Zenon, <1>2, <2>1, NoElement DEF WireAll
<1> QED BY ZenonT(30), <1>2, <1>3, <1>6, <1>10, <1>11, RebindStep

-----------------------------------------------------------------------------
(* The slave.                                                              *)

\* A step of the slave leaves the replication alone.
LEMMA ConsumerStep ==
    ASSUME IInv, NEW s \in Slave, Local(s),
           UNCHANGED <<waiting, rep, breaks, timeouts, forgot>>,
           sv'[s] \in SlaveState, wire'[s] \in Seq(Version), acks'[s] \in Seq(Version),
           OneConsumer(s)', NoHoles(s)', WireAll(s)', SentAll(s)', InOrder(s)'
    PROVE  IInv'
<1>1. /\ QueueInOrder(s) /\ Reading(s) /\ Discarded(s) /\ EndOfFile(s) /\ Fresh(s)
      /\ rep[s] \in Replica /\ forgot[s] \subseteq Version /\ UNCHANGED <<version, written>>
  BY Zenon, Begin, Fields DEF Local
<1>2. Passed(s)' = Passed(s) /\ ReadFrom(s)' = ReadFrom(s) /\ Held(s)' = Held(s)
  BY Zenon, <1>1 DEF Passed, ReadFrom, Held
<1>3. QueueInOrder(s)' /\ Discarded(s)' /\ Fresh(s)'
  BY Zenon, <1>1, <1>2 DEF QueueInOrder, Discarded, Fresh
<1>4. Reading(s)'
  BY Zenon, <1>1, <1>2 DEF Reading
<1>5. EndOfFile(s)'
  BY Zenon, <1>1, <1>2 DEF EndOfFile
<1>6. SlaveInv(s)'
  BY Zenon, <1>3, <1>4, <1>5 DEF SlaveInv
<1> QED BY Zenon, <1>1, <1>2, <1>6, LocalStep

\* replica_consumer_thread_terminate.
LEMMA TerminateStep ==
    ASSUME IInv, NEW s \in Slave, TerminateConsumer(s)
    PROVE  IInv'
<1> DEFINE t == sv[s]
           n == [t EXCEPT !.consumer = "none"]
<1>1. /\ Local(s) /\ sv'[s] = n /\ wire'[s] = <<>> /\ t.consumer = "orphan"
      /\ t.replaying = {} /\ UNCHANGED <<waiting, rep, acks, breaks, timeouts, forgot>>
      /\ t \in SlaveState /\ acks[s] \in Seq(Version) /\ OneConsumer(s) /\ NoHoles(s)
  BY Zenon, Begin, Fields, IsLocal DEF TerminateConsumer, Consumer, SetSlave
<1>2. /\ n \in SlaveState /\ n.consumer = "none" /\ n.replaying = t.replaying
      /\ n.applied = t.applied /\ n.before = t.before /\ n.current = t.current
  BY Zenon, <1>1 DEF SlaveState
<1> HIDE DEF n
<1>3. Has(s)' = Has(s) /\ ~Joined(s)'
  BY Zenon, <1>1, <1>2 DEF Has, OneConsumer, Joined
<1>4. Settled(s)' = Settled(s)
  BY Zenon, <1>1, <1>3 DEF Settled
<1>5. NoHoles(s)'
  BY ZenonT(30), <1>1, <1>2, <1>3, <1>4 DEF NoHoles
<1>6. \A i \in 1 .. Len(wire'[s]) : FALSE
  BY <1>1
<1>7. WireAll(s)' /\ SentAll(s)' /\ InOrder(s)'
  BY Zenon, <1>3, <1>6 DEF WireAll, SentAll, InOrder
<1>8. OneConsumer(s)'
  BY Zenon, <1>1, <1>2, <1>3 DEF OneConsumer
<1> QED BY ZenonT(30), <1>1, <1>2, <1>5, <1>7, <1>8, NoElement, ConsumerStep

\* Everything up to the slave's current version is settled.
LEMMA UpToCurrent ==
    ASSUME IInv, NEW s \in Slave, NEW u \in Version, u <= sv[s].current
    PROVE  u \in Settled(s)
<1>1. NoHoles(s) /\ sv[s].current \in 0 .. MaxVersion
  BY Zenon, Begin, Fields
<1>2. u \in Nat /\ u # 0
  BY DEF Version
<1>3. sv[s].current \in sv[s].applied
  <2>1. sv[s].current # 0
    BY <1>1, <1>2
  <2> QED BY Zenon, <1>1, <2>1 DEF NoHoles
<1>4. CASE u < sv[s].current
  BY Zenon, <1>1, <1>3, <1>4 DEF NoHoles, Has
<1>5. CASE u = sv[s].current
  BY Zenon, <1>3, <1>5 DEF Settled, Has
<1> QED BY <1>1, <1>2, <1>4, <1>5

\* cluster_deal_join_slave_req and its answer.
LEMMA JoinStep ==
    ASSUME IInv, NEW s \in Slave, Join(s)
    PROVE  IInv'
<1> DEFINE r == rep[s]
           t == sv[s]
           m == [r EXCEPT !.last = t.current]
           n == [t EXCEPT !.consumer = "live", !.replayed = t.current]
<1>1. /\ Local(s) /\ rep'[s] = m /\ sv'[s] = n /\ r.stage = "waiting_join_resp"
      /\ t.consumer = "none"
      /\ UNCHANGED <<version, waiting, written, wire, acks, breaks, timeouts, forgot>>
  BY Zenon, Begin, IsLocal DEF Join, JoinResp, Set, SetSlave
<1>2. /\ r \in Replica /\ t \in SlaveState /\ t.current \in 0 .. MaxVersion
      /\ QueueInOrder(s) /\ OneConsumer(s) /\ NoHoles(s) /\ WireAll(s) /\ Discarded(s)
      /\ InOrder(s) /\ Fresh(s) /\ acks[s] \in Seq(Version) /\ forgot[s] \subseteq Version
  BY Zenon, Begin, Fields
<1>3. t.current \in -1 .. MaxVersion /\ t.current # -1 /\ t.current \in Nat
  BY <1>2
<1>4. /\ m \in Replica /\ m.queue = r.queue /\ m.ring = r.ring /\ m.by_queue = r.by_queue
      /\ m.stage = r.stage /\ m.last = t.current /\ m.current = r.current
      /\ m.by_resp = r.by_resp /\ m.done = r.done
  BY Zenon, <1>2, <1>3 DEF Replica
<1>5. /\ n \in SlaveState /\ n.consumer = "live" /\ n.replaying = t.replaying
      /\ n.applied = t.applied /\ n.before = t.before /\ n.current = t.current
      /\ n.replayed = t.current
  BY Zenon, <1>2 DEF SlaveState
<1> HIDE DEF m, n
<1>6. wire[s] = <<>> /\ t.replaying = {} /\ acks[s] = <<>> /\ r.current = 0 /\ r.by_resp = 0
  <2>1. t.consumer # "live"
    BY Zenon, <1>1
  <2> QED BY Zenon, <1>1, <1>2, <2>1 DEF OneConsumer, Fresh
<1>7. /\ Held(s)' = Held(s) /\ Passed(s)' = Passed(s) /\ Joined(s)'
      /\ ReadFrom(s)' = t.current /\ Has(s)' = Has(s)
  BY ZenonT(30), <1>1, <1>3, <1>4, <1>5, <1>6 DEF Held, Passed, Joined, ReadFrom, Has
<1>8. Sent(s)' = t.current /\ Settled(s)' = Settled(s)
  BY Zenon, <1>1, <1>4, <1>7 DEF Sent, Settled
<1>9. \A u \in Version : u <= t.current => u \in Settled(s)
  BY Zenon, UpToCurrent
<1>10. NoHoles(s)'
  BY ZenonT(30), <1>1, <1>2, <1>5, <1>7, <1>8, <1>9 DEF NoHoles
<1>11. \A i \in 1 .. Len(wire'[s]) : FALSE
  <2>1. wire'[s] = <<>>
    BY Zenon, <1>1, <1>6
  <2> QED BY <2>1
<1>12. WireAll(s)' /\ SentAll(s)' /\ OneConsumer(s)'
  BY ZenonT(30), <1>1, <1>5, <1>7, <1>8, <1>9, <1>11 DEF WireAll, SentAll, OneConsumer
<1>13. InOrder(s)'
  <2>1. \A x \in sv'[s].replaying \cup Range(acks'[s]) \cup {rep'[s].by_resp} : x = 0
    BY ZenonT(30), <1>1, <1>4, <1>5, <1>6, NoElement
  <2>2. 0 <= t.current
    BY <1>3
  <2>3. wire'[s] = <<>> /\ rep'[s].stage # "sync_from_queue"
    BY Zenon, <1>1, <1>4, <1>6
  <2> QED BY Zenon, <1>8, <1>11, <2>1, <2>2, <2>3 DEF InOrder
<1>14. QueueInOrder(s)' /\ Discarded(s)' /\ Fresh(s)'
  BY ZenonT(30), <1>1, <1>2, <1>4, <1>7 DEF QueueInOrder, Discarded, Fresh
<1>15. Reading(s)' /\ EndOfFile(s)'
  BY Zenon, <1>1, <1>4 DEF Reading, EndOfFile
<1>16. SlaveInv(s)'
  BY ZenonT(30), <1>10, <1>12, <1>13, <1>14, <1>15 DEF SlaveInv
<1> QED BY ZenonT(30), <1>1, <1>2, <1>4, <1>5, <1>6, <1>7, <1>16, NoElement, LocalStep

\* The answers of a slave.
LEMMA AnswerFacts ==
    ASSUME TypeOK, NEW s \in Slave, NEW q \in Seq(Version), Answer(s, q)
    PROVE  /\ acks'[s] \in Seq(Version) /\ Range(acks'[s]) \subseteq Range(acks[s]) \cup Range(q)
           /\ sv[s].consumer # "live" => acks'[s] = acks[s]
<1> DEFINE a == acks[s]
<1>1. a \in Seq(Version) /\ acks'[s] = IF sv[s].consumer = "live" THEN a \o q ELSE a
  BY Zenon DEF Answer, TypeOK
<1> HIDE DEF a
<1>2. a \o q \in Seq(Version) /\ Range(a \o q) \subseteq Range(a) \cup Range(q)
  <2>1. /\ a \o q \in Seq(Version) /\ Len(a \o q) = Len(a) + Len(q)
        /\ \A i \in 1 .. Len(a) : (a \o q)[i] = a[i]
        /\ \A i \in 1 .. Len(q) : (a \o q)[Len(a) + i] = q[i]
        /\ Len(a) \in Nat /\ Len(q) \in Nat
    BY <1>1, ConcatSeq
  <2>2. /\ \A i \in 1 .. Len(a) : a[i] \in Range(a)
        /\ \A i \in 1 .. Len(q) : q[i] \in Range(q)
    BY Zenon, <1>1, RangeSeq
  <2>3. \A x : x \in Range(a \o q) <=> \E i \in 1 .. Len(a \o q) : (a \o q)[i] = x
    BY Zenon, <2>1, RangeSeq
  <2> DEFINE c == a \o q
  <2> HIDE DEF c
  <2>4. ASSUME NEW x \in Range(c) PROVE x \in Range(a) \cup Range(q)
    <3>1. PICK i \in 1 .. Len(a) + Len(q) : c[i] = x
      BY Zenon, <2>1, <2>3, <2>4 DEF c
    <3>2. CASE i \in 1 .. Len(a)
      BY Zenon, <2>1, <2>2, <3>1, <3>2 DEF c
    <3>3. CASE i \notin 1 .. Len(a)
      <4>1. i - Len(a) \in 1 .. Len(q) /\ Len(a) + (i - Len(a)) = i
        BY <2>1, <3>3
      <4>2. c[Len(a) + (i - Len(a))] = q[i - Len(a)]
        BY Zenon, <2>1, <4>1 DEF c
      <4> QED BY Zenon, <2>2, <3>1, <4>1, <4>2
    <3> QED BY Zenon, <3>2, <3>3
  <2> QED BY Zenon, <2>1, <2>4 DEF c
<1> QED BY Zenon, <1>1, <1>2 DEF a

\* A data thread has run a record.
LEMMA ApplyStep ==
    ASSUME IInv, NEW s \in Slave, NEW v \in Version, Apply(s, v)
    PROVE  IInv'
<1> DEFINE t == sv[s]
<1>1. PICK c \in Raised(t, v) :
        sv' = [sv EXCEPT ![s] = [t EXCEPT !.replaying = @ \ {v}, !.applied = @ \cup {v},
                                          !.current = c]]
  BY Zenon DEF Apply, SetSlave
<1> DEFINE n == [t EXCEPT !.replaying = @ \ {v}, !.applied = @ \cup {v}, !.current = c]
<1>2. /\ Local(s) /\ v \in t.replaying /\ Answer(s, <<v>>) /\ sv'[s] = n
      /\ UNCHANGED <<waiting, rep, wire, breaks, timeouts, forgot, version, written>>
  BY Zenon, <1>1, Begin, IsLocal DEF Apply, Consumer
<1>3. /\ TypeOK /\ t \in SlaveState /\ wire[s] \in Seq(Version) /\ OneConsumer(s)
      /\ NoHoles(s) /\ WireAll(s) /\ SentAll(s) /\ InOrder(s)
      /\ t.applied \subseteq Version /\ t.replaying \subseteq Version
      /\ t.current \in 0 .. MaxVersion
  BY Zenon, Begin, Fields
<1>4. c \in {t.current, v}
  BY Zenon DEF Raised, Larger
<1>5. c \in 0 .. MaxVersion
  <2>1. v \in 0 .. MaxVersion
    BY DEF Version
  <2> QED BY Zenon, <1>3, <1>4, <2>1
<1>6. /\ n \in SlaveState /\ n.consumer = t.consumer /\ n.replaying = t.replaying \ {v}
      /\ n.applied = t.applied \cup {v} /\ n.before = t.before /\ n.current = c
      /\ n.replayed = t.replayed
  BY Zenon, <1>3, <1>5 DEF SlaveState
<1> HIDE DEF n
<1>7. <<v>> \in Seq(Version) /\ Range(<<v>>) = {v}
  <2>1. <<v>> \in Seq(Version) /\ Len(<<v>>) = 1 /\ <<v>>[1] = v
    OBVIOUS
  <2>2. \A x : x \in Range(<<v>>) <=> \E i \in 1 .. 1 : <<v>>[i] = x
    BY Zenon, <2>1, RangeSeq
  <2> QED BY <2>1, <2>2
<1>8. /\ acks'[s] \in Seq(Version) /\ Range(acks'[s]) \subseteq Range(acks[s]) \cup {v}
      /\ t.consumer # "live" => acks'[s] = acks[s]
  <2>1. Answer(s, <<v>>) /\ TypeOK
    BY Zenon, <1>2, <1>3
  <2> DEFINE q == <<v>>
  <2>2. q \in Seq(Version) /\ Range(q) = {v} /\ Answer(s, q)
    BY Zenon, <1>7, <2>1
  <2> HIDE DEF q
  <2> QED BY Zenon, <2>1, <2>2, AnswerFacts
<1>9. Has(s)' = Has(s) /\ Joined(s)' = Joined(s) /\ Sent(s)' = Sent(s)
  <2>1. Has(s)' = (t.applied \cup {v}) \cup (t.replaying \ {v})
    BY Zenon, <1>2, <1>6 DEF Has
  <2>2. Has(s)' = Has(s)
    BY Zenon, <1>2, <2>1 DEF Has
  <2> QED BY Zenon, <1>2, <2>2 DEF Joined, Sent, Passed, ReadFrom
<1>10. Settled(s)' = Settled(s)
  BY Zenon, <1>2, <1>9 DEF Settled
<1>11. OneConsumer(s)'
  BY ZenonT(30), <1>2, <1>3, <1>6, <1>8, <1>9 DEF OneConsumer
<1>12. NoHoles(s)'
  BY ZenonT(30), <1>2, <1>3, <1>4, <1>6, <1>9, <1>10 DEF NoHoles
<1>13. WireAll(s)'
  <2>1. wire'[s] = wire[s]
    BY Zenon, <1>2
  <2> QED BY <1>3, <1>10, <2>1 DEF WireAll
<1>14. SentAll(s)'
  BY ZenonT(30), <1>2, <1>3, <1>9, <1>10 DEF SentAll
<1>15. InOrder(s)'
  <2>1. \A x \in sv'[s].replaying \cup Range(acks'[s]) \cup {rep'[s].by_resp} :
            x \in t.replaying \cup Range(acks[s]) \cup {rep[s].by_resp}
    BY Zenon, <1>2, <1>6, <1>8
  <2> QED BY Zenon, <1>2, <1>3, <1>9, <2>1 DEF InOrder
<1> QED BY ZenonT(30), <1>2, <1>3, <1>6, <1>8, <1>11, <1>12, <1>13, <1>14, <1>15, ConsumerStep

\* A sequence is cut in two.
LEMMA Cut ==
    ASSUME NEW S, NEW w \in Seq(S), NEW k \in 1 .. Len(w)
    PROVE  LET B == SubSeq(w, 1, k)
               W == SubSeq(w, k + 1, Len(w))
           IN  /\ B \in Seq(S) /\ W \in Seq(S) /\ Len(B) = k /\ Len(W) = Len(w) - k
               /\ B[k] = w[k]
               /\ \A i \in 1 .. Len(W) : W[i] = w[k + i]
               /\ \A x : x \in Range(B) <=> \E i \in 1 .. k : w[i] = x
               /\ Range(W) \subseteq Range(w)
               /\ Range(w) \subseteq Range(B) \cup Range(W)
<1> DEFINE B == SubSeq(w, 1, k)
           W == SubSeq(w, k + 1, Len(w))
<1>1. Len(w) \in Nat /\ k \in Nat /\ 1 <= k /\ k <= Len(w) /\ k \in 0 .. Len(w) /\ k \in 1 .. k
  OBVIOUS
<1>2. B \in Seq(S) /\ Len(B) = k /\ \A i \in 1 .. k : B[i] = w[i]
  BY Zenon, <1>1, Prefix
<1>3. W \in Seq(S) /\ Len(W) = Len(w) - k /\ \A i \in 1 .. Len(w) - k : W[i] = w[k + i]
  BY ZenonT(20), <1>1, Suffix
<1> HIDE DEF B, W
<1>4. /\ \A x : x \in Range(B) <=> \E i \in 1 .. Len(B) : B[i] = x
      /\ \A x : x \in Range(W) <=> \E i \in 1 .. Len(W) : W[i] = x
      /\ \A x : x \in Range(w) <=> \E i \in 1 .. Len(w) : w[i] = x
  BY ZenonT(30), <1>2, <1>3, RangeSeq
<1>5. \A x : x \in Range(B) <=> \E i \in 1 .. k : w[i] = x
  BY Zenon, <1>2, <1>4
<1>6. ASSUME NEW x \in Range(W) PROVE x \in Range(w)
  <2>1. PICK i \in 1 .. Len(w) - k : W[i] = x
    BY Zenon, <1>3, <1>4, <1>6
  <2>2. k + i \in 1 .. Len(w) /\ w[k + i] = x
    BY <1>1, <1>3, <2>1
  <2> QED BY Zenon, <1>4, <2>2
<1>7. ASSUME NEW x \in Range(w) PROVE x \in Range(B) \cup Range(W)
  <2>1. PICK i \in 1 .. Len(w) : w[i] = x
    BY Zenon, <1>4, <1>7
  <2>2. CASE i \in 1 .. k
    BY Zenon, <1>5, <2>1, <2>2
  <2>3. CASE i \notin 1 .. k
    <3>1. i - k \in 1 .. Len(w) - k /\ k + (i - k) = i
      BY <1>1, <2>3
    <3>2. W[i - k] = x /\ i - k \in 1 .. Len(W)
      BY Zenon, <1>3, <2>1, <3>1
    <3> QED BY Zenon, <1>4, <3>2
  <2> QED BY Zenon, <2>2, <2>3
<1>8. B[k] = w[k] /\ \A i \in 1 .. Len(W) : W[i] = w[k + i]
  BY ZenonT(20), <1>1, <1>2, <1>3
<1> QED BY ZenonT(30), <1>2, <1>3, <1>5, <1>6, <1>7, <1>8 DEF B, W

\* At most k of k records are skipped.
LEMMA AtMost ==
    ASSUME NEW k \in Nat, NEW I \in SUBSET (1 .. k)
    PROVE  Cardinality(I) \in 0 .. k
<1>1. IsFiniteSet(1 .. k) /\ Cardinality(1 .. k) = k
  BY FS_Interval
<1>2. Cardinality(I) \in Nat /\ Cardinality(I) <= k
  BY Zenon, <1>1, FS_Subset, FS_CardinalityType
<1> QED BY <1>2

\* Some of the first elements of a sequence.
LEMMA SomeOf ==
    ASSUME NEW S, NEW q \in Seq(S), NEW k \in 0 .. Len(q)
    PROVE  SubSeq(q, 1, k) \in Seq(S) /\ Range(SubSeq(q, 1, k)) \subseteq Range(q)
<1> DEFINE t == SubSeq(q, 1, k)
<1>1. t \in Seq(S) /\ Len(t) = k /\ \A i \in 1 .. k : t[i] = q[i]
  BY Zenon, Prefix
<1> HIDE DEF t
<1>2. /\ \A x : x \in Range(t) <=> \E i \in 1 .. Len(t) : t[i] = x
      /\ \A i \in 1 .. Len(q) : q[i] \in Range(q)
  BY Zenon, <1>1, RangeSeq
<1>3. \A i \in 1 .. k : i \in 1 .. Len(q)
  OBVIOUS
<1> QED BY Zenon, <1>1, <1>2, <1>3 DEF t

\* binlog_replay_deal_buffer.
LEMMA ReplayStep ==
    ASSUME IInv, NEW s \in Slave, Replay(s)
    PROVE  IInv'
<1> DEFINE t == sv[s]
           w == wire[s]
<1>1. PICK k \in 1 .. Len(w) :
        LET buffer == SubSeq(w, 1, k)
            New(v) == v > t.replayed
            skipped == Cardinality({i \in 1 .. k : ~New(buffer[i])})
        IN  /\ wire' = [wire EXCEPT ![s] = SubSeq(@, k + 1, Len(@))]
            /\ Answer(s, SubSeq(buffer, 1, skipped))
            /\ SetSlave(s, [t EXCEPT !.replaying = {v \in Range(buffer) : New(v)},
                                     !.replayed = Larger(@, buffer[k]),
                                     !.before = t.current])
  BY Zenon DEF Replay
<1> DEFINE B == SubSeq(w, 1, k)
           W == SubSeq(w, k + 1, Len(w))
           I == {i \in 1 .. k : ~(B[i] > t.replayed)}
           N == {v \in Range(B) : v > t.replayed}
           n == [t EXCEPT !.replaying = N, !.replayed = Larger(@, B[k]), !.before = t.current]
<1>2. /\ wire'[s] = W /\ Answer(s, SubSeq(B, 1, Cardinality(I))) /\ sv'[s] = n
  BY Zenon, <1>1, Begin DEF SetSlave
<1>3. /\ Local(s) /\ t.consumer # "none" /\ t.replaying = {}
      /\ UNCHANGED <<version, waiting, written, rep, breaks, timeouts, forgot>>
  BY Zenon, Begin, IsLocal DEF Replay, Consumer
<1>4. /\ TypeOK /\ t \in SlaveState /\ w \in Seq(Version) /\ OneConsumer(s)
      /\ NoHoles(s) /\ WireAll(s) /\ SentAll(s) /\ InOrder(s)
      /\ t.applied \subseteq Version /\ t.current \in 0 .. MaxVersion
      /\ t.replayed \in 0 .. MaxVersion
  BY Zenon, Begin, Fields
<1>5. Len(w) \in Nat /\ k \in Nat /\ 1 <= k /\ k <= Len(w) /\ Version \subseteq Nat
  BY <1>4 DEF Version
<1>6. /\ B \in Seq(Version) /\ W \in Seq(Version) /\ Len(B) = k /\ Len(W) = Len(w) - k
      /\ B[k] = w[k] /\ \A i \in 1 .. Len(W) : W[i] = w[k + i]
      /\ \A x : x \in Range(B) <=> \E i \in 1 .. k : w[i] = x
      /\ Range(W) \subseteq Range(w) /\ Range(w) \subseteq Range(B) \cup Range(W)
  <2>1. w \in Seq(Version)
    BY Zenon, <1>4
  <2> HIDE DEF w
  <2>2. /\ B \in Seq(Version) /\ W \in Seq(Version) /\ Len(B) = k /\ Len(W) = Len(w) - k
        /\ B[k] = w[k]
    BY SMTT(30), <2>1, Cut
  <2>3. /\ \A i \in 1 .. Len(W) : W[i] = w[k + i]
        /\ \A x : x \in Range(B) <=> \E i \in 1 .. k : w[i] = x
    BY SMTT(30), <2>1, Cut
  <2>4. Range(W) \subseteq Range(w) /\ Range(w) \subseteq Range(B) \cup Range(W)
    BY Zenon, <2>1, Cut
  <2> QED BY Zenon, <2>2, <2>3, <2>4
<1>7. w[k] \in Version /\ Range(B) \subseteq Version /\ \A i \in 1 .. Len(w) : w[i] \in Version
  <2>1. Range(B) \subseteq Version /\ \A i \in 1 .. Len(w) : w[i] \in Version
    BY Zenon, <1>4, <1>6, RangeSeq
  <2>2. k \in 1 .. Len(w)
    BY Zenon
  <2> QED BY Zenon, <2>1, <2>2
<1>8. /\ acks'[s] \in Seq(Version) /\ Range(acks'[s]) \subseteq Range(acks[s]) \cup Range(B)
      /\ t.consumer # "live" => acks'[s] = acks[s]
  <2> DEFINE c == Cardinality(I)
  <2>1. c \in 0 .. k
    <3>1. I \in SUBSET (1 .. k)
      BY Zenon
    <3> HIDE DEF I
    <3> QED BY Zenon, <1>5, <3>1, AtMost
  <2>2. Answer(s, SubSeq(B, 1, c)) /\ B \in Seq(Version) /\ c \in 0 .. Len(B)
    BY Zenon, <1>2, <1>6, <2>1
  <2> HIDE DEF B, c
  <2>3. SubSeq(B, 1, c) \in Seq(Version) /\ Range(SubSeq(B, 1, c)) \subseteq Range(B)
    BY Zenon, <2>2, SomeOf
  <2> DEFINE q == SubSeq(B, 1, c)
  <2> HIDE DEF q
  <2>4. q \in Seq(Version) /\ Answer(s, q) /\ Range(q) \subseteq Range(B)
    BY Zenon, <2>2, <2>3 DEF q
  <2>5. /\ acks'[s] \in Seq(Version) /\ Range(acks'[s]) \subseteq Range(acks[s]) \cup Range(q)
        /\ t.consumer # "live" => acks'[s] = acks[s]
    BY Zenon, <1>4, <2>4, AnswerFacts
  <2> QED BY Zenon, <2>4, <2>5
<1> HIDE DEF B, W
<1>9. N \subseteq Version /\ N \subseteq Range(B) /\ Larger(t.replayed, B[k]) \in 0 .. MaxVersion
  <2>1. w[k] \in 0 .. MaxVersion
    BY <1>7 DEF Version
  <2> QED BY Zenon, <1>4, <1>6, <1>7, <2>1 DEF Larger
<1>10. /\ n \in SlaveState /\ n.consumer = t.consumer /\ n.replaying = N
       /\ n.applied = t.applied /\ n.before = t.current /\ n.current = t.current
       /\ n.replayed = Larger(t.replayed, w[k])
  <2> HIDE DEF N
  <2> QED BY Zenon, <1>4, <1>6, <1>9 DEF SlaveState
<1> HIDE DEF n
\* What is taken off the wire is settled.
<1>11. /\ Settled(s) \subseteq Settled(s)' /\ Range(B) \subseteq Settled(s)'
       /\ Settled(s) = t.applied \cup forgot[s] /\ Has(s)' = t.applied \cup N
  <2>1. Settled(s) = t.applied \cup forgot[s]
    BY Zenon, <1>3 DEF Settled, Has
  <2>2. Has(s)' = t.applied \cup N
    BY Zenon, <1>2, <1>10 DEF Has
  <2>3. Settled(s)' = (t.applied \cup N) \cup forgot[s]
    BY Zenon, <1>3, <2>2 DEF Settled
  <2>4. ASSUME NEW x \in Range(B) PROVE x \in Settled(s)'
    <3>1. CASE x > t.replayed
      BY Zenon, <2>3, <3>1
    <3>2. CASE ~(x > t.replayed)
      <4>1. x \in Version /\ x <= t.replayed
        <5>1. x \in Version /\ x \in Nat /\ t.replayed \in 0 .. MaxVersion
          BY ZenonT(30), <1>4, <1>5, <1>7, <2>4
        <5> QED BY <3>2, <5>1
      <4>2. x \in Settled(s)
        BY Zenon, <1>3, <1>4, <4>1 DEF NoHoles
      <4> QED BY Zenon, <2>1, <2>3, <4>2
    <3> QED BY Zenon, <3>1, <3>2
  <2> QED BY Zenon, <2>1, <2>2, <2>3, <2>4
<1>12. ASSUME NEW i \in 1 .. k, NEW u \in Version, u < w[i] PROVE u \in Settled(s)'
  <2>1. i \in 1 .. Len(w) /\ \A j \in 1 .. i - 1 : j \in 1 .. k
    BY <1>5
  <2>2. u \in Settled(s) \/ \E j \in 1 .. i - 1 : w[j] = u
    BY Zenon, <1>4, <1>12, <2>1 DEF WireAll
  <2> QED BY Zenon, <1>6, <1>11, <2>1, <2>2
<1> HIDE DEF N
<1>13. NoHoles(s)'
  <2>1. sv'[s].current \in sv'[s].applied \cup {0}
    BY Zenon, <1>2, <1>4, <1>10 DEF NoHoles
  <2>2. ASSUME NEW v \in Has(s)', NEW u \in Version, u < v PROVE u \in Settled(s)'
    <3>1. CASE v \in t.applied
      BY Zenon, <1>4, <1>11, <2>2, <3>1 DEF NoHoles, Has
    <3>2. CASE v \in N
      <4>1. PICK i \in 1 .. k : w[i] = v
        BY Zenon, <1>6, <1>9, <3>2
      <4> QED BY Zenon, <1>12, <2>2, <4>1
    <3> QED BY Zenon, <1>11, <2>2, <3>1, <3>2
  <2>3. \A u \in Version : u <= sv'[s].before => u \in sv'[s].applied \cup forgot'[s]
    BY ZenonT(30), <1>2, <1>3, <1>10, <1>11, UpToCurrent
  <2>4. ASSUME NEW u \in Version, u <= sv'[s].replayed PROVE u \in Settled(s)'
    <3>1. u <= Larger(t.replayed, w[k])
      BY Zenon, <1>2, <1>10, <2>4
    <3>2. u <= t.replayed \/ u < w[k] \/ u = w[k]
      <4>1. w[k] \in Nat /\ u \in Nat /\ t.replayed \in 0 .. MaxVersion
        BY ZenonT(30), <1>4, <1>5, <1>7
      <4> QED BY <3>1, <4>1 DEF Larger
    <3>3. k \in 1 .. k
      BY <1>5
    <3>4. CASE u <= t.replayed
      BY Zenon, <1>3, <1>4, <1>11, <3>4 DEF NoHoles
    <3>5. CASE u < w[k]
      BY Zenon, <1>12, <3>3, <3>5
    <3>6. CASE u = w[k]
      BY Zenon, <1>6, <1>11, <3>3, <3>6
    <3> QED BY Zenon, <3>2, <3>4, <3>5, <3>6
  <2> QED BY Zenon, <2>1, <2>2, <2>3, <2>4 DEF NoHoles
<1>14. WireAll(s)'
  <2>1. SUFFICES ASSUME NEW i \in 1 .. Len(W), NEW u \in Version, u < W[i]
                 PROVE  u \in Settled(s)' \/ \E j \in 1 .. i - 1 : W[j] = u
    BY Zenon, <1>2 DEF WireAll
  <2>2. k + i \in 1 .. Len(w) /\ W[i] = w[k + i]
    BY <1>5, <1>6
  <2>3. u \in Settled(s) \/ \E j \in 1 .. (k + i) - 1 : w[j] = u
    BY Zenon, <1>4, <2>1, <2>2 DEF WireAll
  <2>4. ASSUME NEW j \in 1 .. (k + i) - 1, w[j] = u
        PROVE  u \in Settled(s)' \/ \E l \in 1 .. i - 1 : W[l] = u
    <3>1. CASE j \in 1 .. k
      BY Zenon, <1>6, <1>11, <2>4, <3>1
    <3>2. CASE j \notin 1 .. k
      <4>1. j - k \in 1 .. i - 1 /\ j - k \in 1 .. Len(W) /\ k + (j - k) = j
        BY <1>5, <1>6, <3>2
      <4> QED BY Zenon, <1>6, <2>4, <4>1
    <3> QED BY Zenon, <3>1, <3>2
  <2> QED BY Zenon, <1>11, <2>3, <2>4
<1>15. Joined(s)' = Joined(s) /\ Sent(s)' = Sent(s)
  BY Zenon, <1>3 DEF Joined, Sent, Passed, ReadFrom
<1>16. SentAll(s)'
  BY ZenonT(30), <1>2, <1>4, <1>6, <1>11, <1>15 DEF SentAll
<1>17. OneConsumer(s)'
  BY ZenonT(30), <1>2, <1>3, <1>4, <1>8, <1>10, <1>15 DEF OneConsumer
<1>18. InOrder(s)'
  <2>1. \A i \in 1 .. Len(w) : \A j \in 1 .. i - 1 : w[j] < w[i]
    BY Zenon, <1>4 DEF InOrder
  <2>2. ASSUME NEW i \in 1 .. Len(W)
        PROVE  /\ k + i \in 1 .. Len(w) /\ W[i] = w[k + i]
               /\ \A j \in 1 .. k : w[j] < W[i]
               /\ \A j \in 1 .. i - 1 : W[j] < W[i]
    <3>1. k + i \in 1 .. Len(w) /\ W[i] = w[k + i]
      BY <1>5, <1>6
    <3>2. \A j \in 1 .. k : j \in 1 .. (k + i) - 1
      BY <1>5
    <3>3. \A j \in 1 .. i - 1 : k + j \in 1 .. (k + i) - 1 /\ j \in 1 .. Len(W)
      BY <1>5, <1>6
    <3> QED BY ZenonT(30), <1>6, <2>1, <3>1, <3>2, <3>3
  <2>3. SUFFICES ASSUME Joined(s)
                 PROVE  /\ rep[s].stage # "sync_from_queue" /\ rep[s].current = 0 => W = <<>>
                        /\ \A x \in N \cup Range(acks'[s]) \cup {rep[s].by_resp} :
                              /\ x <= Sent(s)
                              /\ \A i \in 1 .. Len(W) : x < W[i]
                        /\ \A i \in 1 .. Len(W) : W[i] <= Sent(s)
                        /\ rep[s].stage = "sync_from_queue" /\ timeouts = 0 =>
                              Range(W) \subseteq rep[s].ring
    BY ZenonT(30), <1>2, <1>3, <1>10, <1>15, <2>2 DEF InOrder
  <2>4. /\ rep[s].stage # "sync_from_queue" /\ rep[s].current = 0 => w = <<>>
        /\ \A x \in t.replaying \cup Range(acks[s]) \cup {rep[s].by_resp} :
              x <= Sent(s) /\ \A i \in 1 .. Len(w) : x < w[i]
        /\ \A i \in 1 .. Len(w) : w[i] <= Sent(s)
        /\ rep[s].stage = "sync_from_queue" /\ timeouts = 0 => Range(w) \subseteq rep[s].ring
    BY Zenon, <1>4, <2>3 DEF InOrder
  <2>5. w # <<>>
    BY <1>5
  <2>6. ASSUME NEW x \in Range(acks[s]) \cup {rep[s].by_resp}
        PROVE  x <= Sent(s) /\ \A i \in 1 .. Len(W) : x < W[i]
    BY Zenon, <2>2, <2>4, <2>6
  <2>7. ASSUME NEW x \in Range(B) PROVE x <= Sent(s) /\ \A i \in 1 .. Len(W) : x < W[i]
    <3>1. PICK j \in 1 .. k : w[j] = x
      BY Zenon, <1>6, <2>7
    <3>2. j \in 1 .. Len(w)
      BY <1>5
    <3> QED BY Zenon, <2>2, <2>4, <3>1, <3>2
  <2>8. \A i \in 1 .. Len(W) : W[i] <= Sent(s)
    BY Zenon, <2>2, <2>4
  <2> QED BY ZenonT(30), <1>6, <1>8, <1>9, <2>4, <2>5, <2>6, <2>7, <2>8
<1> QED BY ZenonT(30), <1>2, <1>3, <1>6, <1>8, <1>10, <1>13, <1>14, <1>16, <1>17, <1>18, ConsumerStep

-----------------------------------------------------------------------------
(* The master.                                                             *)

\* binlog_local_consumer_push_to_queues.
LEMMA ProduceStep ==
    ASSUME IInv, Produce
    PROVE  IInv'
<1> DEFINE N == version + 1
<1>1. /\ TypeOK /\ CountIsExact /\ version \in 0 .. MaxVersion /\ written \in 0 .. version
      /\ waiting \in [Version -> 0 .. Cardinality(Slave)] /\ rep \in [Slave -> Replica]
      /\ version' = N /\ waiting' = [waiting EXCEPT ![N] = Cardinality(Slave)]
      /\ UNCHANGED <<written, sv, wire, acks, breaks, timeouts, forgot>>
  BY Zenon DEF IInv, TypeOK, Produce
<1>2. N \in Version /\ N \in 0 .. MaxVersion /\ version \in Nat /\ written \in 0 .. N
  BY <1>1, BoundAssumption DEF Produce, Version
<1>3. ASSUME NEW s \in Slave
      PROVE  /\ rep'[s] \in Replica /\ rep'[s].queue = Append(rep[s].queue, N)
             /\ rep'[s].ring = rep[s].ring /\ rep'[s].stage = rep[s].stage
             /\ rep'[s].by_queue = rep[s].by_queue /\ rep'[s].last = rep[s].last
             /\ rep'[s].current = rep[s].current /\ rep'[s].by_resp = rep[s].by_resp
             /\ rep'[s].pos = rep[s].pos /\ rep'[s].done = rep[s].done
             /\ rep[s].queue \in Seq(Version)
  <2>1. rep'[s] = [rep[s] EXCEPT !.queue = Append(rep[s].queue, N)]
    BY Zenon DEF Produce
  <2>2. rep[s] \in Replica /\ rep[s].queue \in Seq(Version)
    BY Zenon, <1>1, Fields
  <2>3. Append(rep[s].queue, N) \in Seq(Version)
    BY Zenon, <1>2, <2>2, AppendSeq
  <2> DEFINE Q == Append(rep[s].queue, N)
  <2> HIDE DEF Q
  <2>4. rep'[s] = [rep[s] EXCEPT !.queue = Q] /\ Q \in Seq(Version)
    BY Zenon, <2>1, <2>3 DEF Q
  <2>5. /\ rep'[s] \in Replica /\ rep'[s].queue = Q
        /\ rep'[s].ring = rep[s].ring /\ rep'[s].stage = rep[s].stage
        /\ rep'[s].by_queue = rep[s].by_queue /\ rep'[s].last = rep[s].last
        /\ rep'[s].current = rep[s].current /\ rep'[s].by_resp = rep[s].by_resp
        /\ rep'[s].pos = rep[s].pos /\ rep'[s].done = rep[s].done
    BY Zenon, <2>2, <2>4 DEF Replica
  <2> QED BY Zenon, <2>2, <2>5 DEF Q
<1> HIDE DEF N
<1>4. ASSUME NEW s \in Slave PROVE Held(s)' = Held(s) \cup {N}
  <2> DEFINE q == rep[s].queue
             Q == Append(q, N)
  <2>1. q \in Seq(Version)
    BY Zenon, <1>3
  <2> HIDE DEF q
  <2>2. /\ Q \in Seq(Version) /\ Len(Q) = Len(q) + 1 /\ Len(q) \in Nat
        /\ \A i \in 1 .. Len(q) : Q[i] = q[i]
        /\ Q[Len(q) + 1] = N
    BY <1>2, <2>1, AppendSeq
  <2> HIDE DEF Q
  <2>3. /\ \A x : x \in Range(Q) <=> \E i \in 1 .. Len(Q) : Q[i] = x
        /\ \A x : x \in Range(q) <=> \E i \in 1 .. Len(q) : q[i] = x
    BY Zenon, <2>1, <2>2, RangeSeq
  <2>4. /\ \A i \in 1 .. Len(Q) : i \in 1 .. Len(q) \/ i = Len(q) + 1
        /\ \A i \in 1 .. Len(q) : i \in 1 .. Len(Q)
        /\ Len(q) + 1 \in 1 .. Len(Q)
    BY <2>2
  <2>5. \A x : x \in Range(Q) <=> x \in Range(q) \/ x = N
    BY Zenon, <2>2, <2>3, <2>4
  <2>6. Held(s) = Range(q) \cup rep[s].ring /\ Held(s)' = Range(Q) \cup rep[s].ring
    BY Zenon, <1>3 DEF Held, q, Q
  <2> QED BY Zenon, <2>5, <2>6
<1>5. ASSUME NEW v \in Version PROVE waiting'[v] = Cardinality(Holders(v)')
  <2>1. CASE v = N
    <3>1. Holders(v)' = Slave
      BY Zenon, <1>4, <2>1 DEF Holders
    <3> QED BY Zenon, <1>1, <1>2, <2>1, <3>1
  <2>2. CASE v # N
    <3>1. Holders(v)' = Holders(v)
      BY Zenon, <1>4, <2>2 DEF Holders
    <3> QED BY Zenon, <1>1, <1>2, <2>2, <3>1, CountDef
  <2> QED BY Zenon, <2>1, <2>2
<1>6. CountIsExact'
  BY Zenon, <1>5, CountDefNext
<1>7. waiting' \in [Version -> 0 .. Cardinality(Slave)]
  <2>1. Cardinality(Slave) \in 0 .. Cardinality(Slave)
    BY SlaveAssumption, FS_CardinalityType
  <2> QED BY Zenon, <1>1, <2>1
<1>8. TypeOK'
  <2>1. DOMAIN rep' = Slave /\ rep' = [s \in Slave |-> rep'[s]]
    BY Zenon DEF Produce
  <2>2. rep' \in [Slave -> Replica]
    BY Zenon, <1>3, <2>1
  <2> QED BY Zenon, <1>1, <1>2, <1>7, <2>2 DEF TypeOK
<1>9. ASSUME NEW s \in Slave PROVE SlaveInv(s)'
  <2> DEFINE q == rep[s].queue
             Q == Append(q, N)
             p == Passed(s)
  <2>1. SlaveInv(s) /\ QueueInOrder(s) /\ OneConsumer(s) /\ NoHoles(s) /\ WireAll(s)
        /\ SentAll(s) /\ Reading(s) /\ Discarded(s) /\ EndOfFile(s) /\ InOrder(s) /\ Fresh(s)
    BY Zenon, Begin
  <2>2. /\ Len(Q) = Len(q) + 1 /\ \A i \in 1 .. Len(q) : Q[i] = q[i]
        /\ Q[Len(q) + 1] = N
    <3>1. q \in Seq(Version)
      BY Zenon, <1>3
    <3> HIDE DEF q
    <3> QED BY <1>2, <3>1, AppendSeq
  <2>3. p \in Nat /\ Len(q) \in Nat /\ version = p + Len(q)
    BY Zenon, <1>1, <2>1, HeldParts
  <2>4. Passed(s)' = p
    <3>1. Passed(s)' = (version + 1) - Len(Q)
      BY Zenon, <1>1, <1>3 DEF Passed, N
    <3> HIDE DEF p, Q, q
    <3>2. (version + 1) - Len(Q) = p
      BY <1>2, <2>2, <2>3
    <3> QED BY Zenon, <3>1, <3>2
  <2>5. ReadFrom(s)' = ReadFrom(s) /\ Joined(s)' = Joined(s) /\ Has(s)' = Has(s)
    BY Zenon, <1>1, <1>3 DEF ReadFrom, Joined, Has
  <2>6. Sent(s)' = Sent(s) /\ Settled(s)' = Settled(s)
    BY Zenon, <1>1, <1>3, <2>4, <2>5 DEF Sent, Settled
  <2>7. QueueInOrder(s)'
    <3>1. \A i \in 1 .. Len(Q) : Q[i] = p + i
      <4>1. \A i \in 1 .. Len(q) : q[i] = p + i
        BY Zenon, <2>1 DEF QueueInOrder
      <4>2. N = p + (Len(q) + 1)
        <5> HIDE DEF p, q
        <5> QED BY <2>3 DEF N
      <4>3. \A i \in 1 .. Len(Q) : i \in 1 .. Len(q) \/ i = Len(q) + 1
        <5> HIDE DEF Q, q, p
        <5> QED BY <2>2, <2>3
      <4> QED BY Zenon, <2>2, <4>1, <4>2, <4>3
    <3> QED BY Zenon, <1>1, <1>3, <2>1, <2>4, <3>1 DEF QueueInOrder
  <2>8. OneConsumer(s)' /\ Fresh(s)'
    BY Zenon, <1>1, <1>3, <2>1, <2>5 DEF OneConsumer, Fresh
  <2>9. NoHoles(s)'
    BY Zenon, <1>1, <2>1, <2>5, <2>6 DEF NoHoles
  <2>10. WireAll(s)'
    <3>1. wire'[s] = wire[s]
      BY Zenon, <1>1
    <3> QED BY <2>1, <2>6, <3>1 DEF WireAll
  <2>11. SentAll(s)'
    BY Zenon, <1>1, <2>1, <2>5, <2>6 DEF SentAll
  <2>12. Reading(s)'
    BY ZenonT(30), <1>1, <1>3, <2>1, <2>5 DEF Reading
  <2>13. Discarded(s)'
    BY Zenon, <1>1, <1>3, <2>1, <2>4 DEF Discarded
  <2>14. EndOfFile(s)'
    BY ZenonT(30), <1>1, <1>3, <2>1, <2>4, <2>5 DEF EndOfFile
  <2>15. InOrder(s)'
    BY ZenonT(60), <1>1, <1>3, <2>1, <2>5, <2>6 DEF InOrder
  <2> QED BY ZenonT(30), <2>7, <2>8, <2>9, <2>10, <2>11, <2>12, <2>13, <2>14, <2>15 DEF SlaveInv
<1> QED BY Zenon, <1>6, <1>8, <1>9 DEF IInv

\* The master's binlog gets a version when nobody holds it any more.
LEMMA WriteBinlogStep ==
    ASSUME IInv, WriteBinlog
    PROVE  IInv'
<1> DEFINE N == written + 1
<1>1. /\ TypeOK /\ CountIsExact /\ version \in 0 .. MaxVersion /\ written \in 0 .. version
      /\ written < version /\ waiting[N] = 0 /\ written' = N
      /\ UNCHANGED <<version, waiting, rep, sv, wire, acks, breaks, timeouts, forgot>>
  BY Zenon DEF IInv, TypeOK, WriteBinlog
<1>2. N \in Version /\ N \in 0 .. version /\ written \in Nat /\ version \in Nat
  BY <1>1, BoundAssumption DEF Version
<1>3. TypeOK' /\ CountIsExact'
  BY Zenon, <1>1, <1>2 DEF TypeOK, CountIsExact
<1>4. \A s \in Slave : N \notin Held(s)
  <2>1. Cardinality(Holders(N)) = 0
    BY Zenon, <1>1, <1>2, CountDef
  <2>2. Holders(N) \subseteq Slave
    BY Zenon DEF Holders
  <2>3. IsFiniteSet(Holders(N))
    BY Zenon, <2>2, SlaveAssumption, FS_Subset
  <2>4. Holders(N) = {}
    BY Zenon, <2>1, <2>3, FS_EmptySet
  <2> QED BY Zenon, <2>4 DEF Holders
<1>5. ASSUME NEW s \in Slave PROVE SlaveInv(s)'
  <2> DEFINE p == Passed(s)
  <2>1. SlaveInv(s) /\ QueueInOrder(s) /\ OneConsumer(s) /\ NoHoles(s) /\ WireAll(s)
        /\ SentAll(s) /\ Reading(s) /\ Discarded(s) /\ EndOfFile(s) /\ InOrder(s) /\ Fresh(s)
    BY Zenon, Begin
  <2>2. p \in Nat /\ Range(rep[s].queue) = p + 1 .. version /\ rep[s].ring \subseteq Version
    BY Zenon, <1>1, <2>1, HeldParts, Fields
  <2>3. N \notin p + 1 .. version /\ N \notin rep[s].ring
    BY Zenon, <1>4, <2>2 DEF Held
  <2>4. /\ Passed(s)' = p /\ ReadFrom(s)' = ReadFrom(s) /\ Joined(s)' = Joined(s)
        /\ Has(s)' = Has(s)
    BY Zenon, <1>1 DEF Passed, ReadFrom, Joined, Has
  <2>5. Sent(s)' = Sent(s) /\ Settled(s)' = Settled(s)
    BY Zenon, <1>1, <2>4 DEF Sent, Settled
  <2>6. QueueInOrder(s)'
    <3> HIDE DEF p
    <3>1. N <= p
      BY <1>1, <1>2, <2>2, <2>3
    <3>2. rep[s].ring \subseteq written + 1 .. p
      BY Zenon, <2>1 DEF QueueInOrder, p
    <3>3. \A x \in written + 1 .. p : x # N => x \in N + 1 .. p
      BY <1>2, <2>2
    <3>4. rep[s].ring \subseteq N + 1 .. p
      BY Zenon, <2>3, <3>2, <3>3
    <3> QED BY Zenon, <1>1, <2>1, <2>4, <3>1, <3>4 DEF QueueInOrder, p
  <2>7. \A u \in Nat : u <= written => u <= N
    BY <1>2
  <2>8. Reading(s)'
    <3>1. rep[s].stage = "sync_from_disk" => rep[s].last <= N /\ rep[s].pos <= N
      <4>1. rep[s].last \in -1 .. MaxVersion /\ rep[s].pos \in 0 .. MaxVersion
        BY Zenon, <1>1, Fields
      <4>2. SUFFICES ASSUME rep[s].stage = "sync_from_disk"
                     PROVE  rep[s].last <= N /\ rep[s].pos <= N
        BY Zenon
      <4>3. rep[s].last <= written /\ rep[s].pos <= written
        BY Zenon, <2>1, <4>2 DEF Reading
      <4> QED BY <1>2, <4>1, <4>3
    <3> QED BY ZenonT(30), <1>1, <2>1, <2>4, <3>1 DEF Reading
  <2>9. Discarded(s)'
    <3>1. \A u \in 1 .. p : u \in Nat
      OBVIOUS
    <3> QED BY Zenon, <1>1, <2>1, <2>4, <2>7, <3>1 DEF Discarded
  <2>10. OneConsumer(s)' /\ Fresh(s)'
    BY Zenon, <1>1, <2>1, <2>4 DEF OneConsumer, Fresh
  <2>11. NoHoles(s)'
    BY Zenon, <1>1, <2>1, <2>4, <2>5 DEF NoHoles
  <2>12. WireAll(s)'
    <3>1. wire'[s] = wire[s]
      BY Zenon, <1>1
    <3> QED BY ZenonT(30), <2>1, <2>5, <3>1 DEF WireAll
  <2>13. SentAll(s)'
    BY Zenon, <1>1, <2>1, <2>4, <2>5 DEF SentAll
  <2>14. EndOfFile(s)'
    BY ZenonT(30), <1>1, <2>1, <2>4 DEF EndOfFile
  <2>15. InOrder(s)'
    BY ZenonT(30), <1>1, <2>1, <2>4, <2>5 DEF InOrder
  <2> QED BY ZenonT(30), <2>6, <2>8, <2>9, <2>10, <2>11, <2>12, <2>13, <2>14, <2>15 DEF SlaveInv
<1> QED BY Zenon, <1>3, <1>5 DEF IInv

-----------------------------------------------------------------------------
(* The theorems.                                                           *)

\* The invariant holds before anything has been sent.
LEMMA InvInit ==
    ASSUME Init PROVE IInv
<1>1. 0 \in 0 .. MaxVersion /\ -1 \in -1 .. MaxVersion /\ 0 \in 0 .. 0 /\ 0 \in 0 .. MaxFailures
      /\ 0 \in 0 .. MaxFailures - 0 /\ 0 \in 0 .. Cardinality(Slave)
  BY BoundAssumption, SlaveAssumption, FS_CardinalityType
<1>2. version = 0 /\ written = 0 /\ breaks = 0 /\ timeouts = 0
  BY Zenon DEF Init
<1>3. ASSUME NEW s \in Slave
      PROVE  /\ rep[s] = Bound(<<>>) /\ wire[s] = <<>> /\ acks[s] = <<>> /\ forgot[s] = {}
             /\ sv[s] = [consumer |-> "none", replaying |-> {}, replayed |-> 0,
                         before |-> 0, current |-> 0, applied |-> {}]
  BY Zenon DEF Init
<1>4. ASSUME NEW s \in Slave
      PROVE  /\ rep[s].stage = "none" /\ rep[s].queue = <<>> /\ rep[s].ring = {}
             /\ rep[s].by_queue = 0 /\ rep[s].by_resp = 0 /\ rep[s].current = 0
             /\ rep[s].last = -1 /\ rep[s].done = <<>>
             /\ sv[s].consumer = "none" /\ sv[s].replaying = {} /\ sv[s].applied = {}
             /\ sv[s].before = 0 /\ sv[s].current = 0 /\ sv[s] \in SlaveState
  <2>1. /\ Bound(<<>>).stage = "none" /\ Bound(<<>>).queue = <<>> /\ Bound(<<>>).ring = {}
        /\ Bound(<<>>).by_queue = 0 /\ Bound(<<>>).by_resp = 0 /\ Bound(<<>>).current = 0
        /\ Bound(<<>>).last = -1 /\ Bound(<<>>).done = <<>>
    BY Zenon DEF Bound
  <2> DEFINE n == [consumer |-> "none", replaying |-> {}, replayed |-> 0,
                   before |-> 0, current |-> 0, applied |-> {}]
  <2>2. /\ n.consumer = "none" /\ n.replaying = {} /\ n.applied = {}
        /\ n.before = 0 /\ n.current = 0
    BY Zenon
  <2>3. n \in SlaveState
    BY Zenon, <1>1 DEF SlaveState
  <2>4. sv[s] = n
    BY ZenonT(30), <1>3
  <2> HIDE DEF n
  <2> QED BY Zenon, <1>3, <2>1, <2>2, <2>3, <2>4
<1>5. TypeOK
  <2>1. /\ rep \in [Slave -> Replica] /\ sv \in [Slave -> SlaveState]
    BY Zenon, <1>4, BoundType DEF Init
  <2>2. /\ wire \in [Slave -> Seq(Version)] /\ acks \in [Slave -> Seq(Version)]
        /\ forgot \in [Slave -> SUBSET Version]
    BY Zenon, NoElement DEF Init
  <2>3. waiting \in [Version -> 0 .. Cardinality(Slave)]
    BY Zenon, <1>1 DEF Init
  <2> QED BY Zenon, <1>1, <1>2, <2>1, <2>2, <2>3 DEF TypeOK
<1>6. CountIsExact
  <2>1. \A v : Holders(v) = {}
    BY Zenon, <1>4, NoElement DEF Holders, Held
  <2>2. \A v \in Version : waiting[v] = 0
    BY Zenon DEF Init
  <2> QED BY Zenon, <2>1, <2>2, FS_EmptySet, CountDef
<1>7. ASSUME NEW s \in Slave PROVE SlaveInv(s)
  <2>1. Passed(s) = 0 /\ ~Joined(s) /\ Has(s) = {}
    <3>1. Passed(s) = 0 - 0
      BY Zenon, <1>2, <1>4, NoElement DEF Passed
    <3> QED BY <1>4, <3>1 DEF Joined, Has
  <2>2. \A i \in 1 .. 0 : FALSE
    OBVIOUS
  <2>3. 0 <= 0 /\ \A u \in Version : ~(u <= 0)
    BY DEF Version
  <2>4. QueueInOrder(s) /\ Discarded(s)
    BY Zenon, <1>2, <1>4, <2>1, <2>2, <2>3, NoElement DEF QueueInOrder, Discarded
  <2>5. OneConsumer(s) /\ Fresh(s) /\ SentAll(s) /\ Reading(s) /\ EndOfFile(s)
    BY Zenon, <1>3, <1>4, <2>1 DEF OneConsumer, Fresh, SentAll, Reading, EndOfFile
  <2>6. NoHoles(s)
    BY Zenon, <1>4, <2>1, <2>3 DEF NoHoles
  <2>7. WireAll(s) /\ InOrder(s)
    BY Zenon, <1>3, <2>1, <2>2, NoElement DEF WireAll, InOrder
  <2> QED BY Zenon, <2>4, <2>5, <2>6, <2>7 DEF SlaveInv
<1> QED BY Zenon, <1>5, <1>6, <1>7 DEF IInv

\* Every step keeps it.
LEMMA InvNext ==
    ASSUME IInv, Next PROVE IInv'
<1>1. CASE Produce \/ WriteBinlog
  BY Zenon, <1>1, ProduceStep, WriteBinlogStep
<1>2. ASSUME NEW s \in Slave, Thread(s) PROVE IInv'
  BY ZenonT(30), <1>2, DiscardAllStep, ConnectStep, DealStep, StartReaderStep, BreakStep,
     SyncFromDiskStep, DiskEndStep, SwitchToQueueStep, SyncFromQueueStep DEF Thread
<1>3. ASSUME NEW s \in Slave, ReadBinlog(s) \/ Join(s) \/ JoinRefused(s) \/ PushResp(s)
      PROVE  IInv'
  BY Zenon, <1>3, ReadBinlogStep, JoinStep, BreakStep, PushRespStep
<1>4. ASSUME NEW s \in Slave, Consumer(s) PROVE IInv'
  BY Zenon, <1>4, ReplayStep, TerminateStep, ApplyStep DEF Consumer
<1>5. ASSUME NEW s \in Slave, Failures(s) PROVE IInv'
  BY Zenon, <1>5, BreakStep, RestartStep, ClearTimeoutsStep DEF Failures
<1> QED BY ZenonT(30), <1>1, <1>2, <1>3, <1>4, <1>5 DEF Next

\* So does a step that changes nothing.
LEMMA InvStutter ==
    ASSUME IInv, UNCHANGED vars PROVE IInv'
<1>1. UNCHANGED <<version, waiting, written, rep, sv, wire, acks, breaks, timeouts, forgot>>
  BY Zenon DEF vars
<1>2. TypeOK' /\ CountIsExact'
  BY ZenonT(30), <1>1 DEF IInv, TypeOK, CountIsExact
<1>3. ASSUME NEW s \in Slave PROVE SlaveInv(s)'
  <2>1. SlaveInv(s)
    BY Zenon DEF IInv
  <2> QED BY Zenon, <1>1, <2>1, SameSlave
<1> QED BY Zenon, <1>2, <1>3 DEF IInv

\* The inductive invariant, for any slaves, versions and failures: every slave's queue, ring,
\* wire, answers and data fit together at every step of the replication.
THEOREM Inductive == Spec => []IInv
<1>1. Init => IInv
  BY Zenon, InvInit
<1>2. IInv /\ [Next]_vars => IInv'
  BY InvNext, InvStutter
<1> QED BY <1>1, <1>2, PTL DEF Spec

\* The variables of the replication keep their types.
THEOREM TypeCorrect == Spec => []TypeOK
<1>1. IInv => TypeOK
  BY DEF IInv
<1> QED BY <1>1, Inductive, PTL

\* waiting_rpc_count is exactly the number of slaves whose replication still holds the record.
THEOREM ExactCount == Spec => []CountIsExact
<1>1. IInv => CountIsExact
  BY DEF IInv
<1> QED BY <1>1, Inductive, PTL

\* A slave misses nothing before its last version but what was on its way to it, and not yet
\* in the master's binlog, when its connection was lost.
THEOREM OnlyForgottenLost == Spec => []OnlyForgottenMissing
<1>1. IInv => OnlyForgottenMissing
  <2> SUFFICES ASSUME IInv, NEW s \in Slave, NEW v \in Version, v < sv[s].current
               PROVE  v \in Has(s) \cup forgot[s]
    BY Zenon DEF OnlyForgottenMissing
  <2>1. sv[s].current \in 0 .. MaxVersion
    BY Zenon, Begin, Fields
  <2>2. v <= sv[s].current
    BY <2>1 DEF Version
  <2> QED BY Zenon, <2>2, UpToCurrent DEF Settled
<1> QED BY <1>1, Inductive, PTL

\* A slave that is active has every update that was answered, but for those that were on their
\* way to it when its connection was lost and those whose results have expired.
THEOREM ActiveComplete == Spec => []ActiveHasAnswered
<1>1. IInv => ActiveHasAnswered
  <2> SUFFICES ASSUME IInv, NEW s \in Slave, rep[s].stage = "sync_from_queue",
                      NEW v \in Version, Answered(v)
               PROVE  \/ v \in Has(s) \cup forgot[s]
                      \/ timeouts > 0 /\ v \in Range(wire[s])
    BY Zenon DEF ActiveHasAnswered
  <2>1. v \notin Held(s)
    <3>1. Cardinality(Holders(v)) = 0
      BY Zenon, CountDef DEF Answered, IInv
    <3>2. Holders(v) \subseteq Slave
      BY Zenon DEF Holders
    <3>3. Holders(v) = {}
      BY Zenon, <3>1, <3>2, SlaveAssumption, FS_Subset, FS_EmptySet
    <3> QED BY Zenon, <3>3 DEF Holders
  <2>2. v <= Passed(s)
    <3>1. v \notin Passed(s) + 1 .. version /\ Passed(s) \in Nat
      BY Zenon, <2>1, Begin, HeldParts DEF Held
    <3>2. v <= version /\ version \in Nat
      BY Zenon, Begin DEF Answered
    <3> QED BY <3>1, <3>2 DEF Version
  <2>3. Joined(s) /\ Sent(s) = Passed(s)
    BY Zenon DEF Joined, Sent
  <2>4. v \in Settled(s) \cup Range(wire[s])
    BY Zenon, <2>2, <2>3, Begin DEF SentAll
  <2>5. v \in Range(wire[s]) => timeouts # 0
    BY Zenon, <2>1, <2>3, Begin DEF InOrder, Held
  <2>6. timeouts # 0 => timeouts > 0
    BY Begin, BoundAssumption DEF TypeOK
  <2> QED BY Zenon, <2>4, <2>5, <2>6 DEF Settled
<1> QED BY <1>1, Inductive, PTL
================================================================================

------------------------------ MODULE Replication ------------------------------
(***************************************************************************)
(* binlog_replication.c, binlog_local_consumer.c, the replication messages *)
(* of cluster_handler.c and replica_consumer_thread.c: how the master      *)
(* brings its slaves up to date.                                           *)
(*                                                                         *)
(* The producer hands every version to the queue of every slave.  A slave  *)
(* that has just connected is first fed from the master's binlog file and  *)
(* what comes through its queue is discarded; when the file is exhausted   *)
(* it is switched over to the queue.  An update is answered, and written   *)
(* to the master's own binlog, when every slave's replication has let go   *)
(* of it: acknowledged, discarded, timed out or disconnected.              *)
(*                                                                         *)
(* A record is its version.  Versions come one by one here: the blocks of  *)
(* BinlogProducer travel as one record as far as this module is concerned. *)
(* The results a slave still owes are a set; PushResultRing shows how the  *)
(* code keeps them.  The master stays the master throughout.               *)
(***************************************************************************)
EXTENDS Integers, Sequences, FiniteSets, Functions

CONSTANTS Slave,        \* the other servers of the cluster
          ENOENT,       \* result of a read at the end of the binlog
          MaxVersion,   \* bound: updates
          MaxFailures,  \* bound: broken connections, restarts and timeouts
          MaxEvents     \* bound: updates and failures together

ASSUME SlaveAssumption == IsFiniteSet(Slave)
ASSUME ReadAssumption == ENOENT \notin Int
ASSUME BoundAssumption ==
    MaxVersion \in Nat /\ MaxFailures \in Nat /\ MaxEvents \in Nat

BufferCount == 2        \* BINLOG_READ_THREAD_BUFFER_COUNT

VARIABLES
    version,    \* the last version the producer has handed to the queues
    waiting,    \* waiting_rpc_count of the task of each version
    written,    \* the last version in the master's binlog
    rep,        \* slave_replication_array, by slave
    sv,         \* the slaves: their consumer and their data
    wire,       \* records sent to the slave, not yet taken by its replay thread
    acks,       \* results sent to the master, not yet handled
    breaks, timeouts,   \* counted against the bound
    forgot      \* history: unwritten versions when a replication was rebound

vars == <<version, waiting, written, rep, sv, wire, acks, breaks, timeouts,
          forgot>>

Version == 1 .. MaxVersion

\* FDIRSlaveReplication.  "none" stands for STAGE_NONE and STAGE_CONNECTING:
\* both are in the connectings array and treated alike.  "dealing" is set
\* between the two halves of an iteration of the thread's loop.
Replica ==
    [stage : {"none", "waiting_join_resp", "sync_from_disk", "sync_from_queue"},
     dealing : BOOLEAN,
     queue : Seq(Version),          \* context.queue
     ring : SUBSET Version,         \* context.push_result_ctx
     previous : 0 .. MaxVersion,    \* last_data_versions.by_disk.previous
     current : 0 .. MaxVersion,     \* last_data_versions.by_disk.current
     by_queue : 0 .. MaxVersion,
     by_resp : 0 .. MaxVersion,
     last : -1 .. MaxVersion,       \* slave->last_data_version
     pos : 0 .. MaxVersion,         \* last version the read thread has passed
     done : Seq(0 .. MaxVersion \cup {ENOENT})]  \* reader_ctx->queues.done

\* A slave server.  "orphan": its consumer has not yet seen that the
\* connection is closed.
SlaveState ==
    [consumer : {"none", "live", "orphan"},
     replaying : SUBSET Version,    \* records the data threads work on
     replayed : 0 .. MaxVersion,    \* replay_ctx.data_current_version
     before : 0 .. MaxVersion,      \* its current version before the buffer
     current : 0 .. MaxVersion,     \* its DATA_CURRENT_VERSION
     applied : SUBSET Version]      \* the updates in its memory

TypeOK ==
    /\ version \in 0 .. MaxVersion /\ written \in 0 .. version
    /\ waiting \in [Version -> 0 .. Cardinality(Slave)]
    /\ rep \in [Slave -> Replica] /\ sv \in [Slave -> SlaveState]
    /\ wire \in [Slave -> Seq(Version)] /\ acks \in [Slave -> Seq(Version)]
    /\ breaks \in 0 .. MaxFailures /\ timeouts \in 0 .. MaxFailures - breaks
    /\ forgot \in [Slave -> SUBSET Version]

\* binlog_replication_bind_thread.
Bound(queue) ==
    [stage |-> "none", dealing |-> FALSE, queue |-> queue, ring |-> {},
     previous |-> 0, current |-> 0, by_queue |-> 0, by_resp |-> 0,
     last |-> -1, pos |-> 0, done |-> <<>>]

Init ==
    /\ version = 0 /\ written = 0 /\ waiting = [v \in Version |-> 0]
    /\ rep = [s \in Slave |-> Bound(<<>>)]
    /\ sv = [s \in Slave |-> [consumer |-> "none", replaying |-> {},
                              replayed |-> 0, before |-> 0, current |-> 0,
                              applied |-> {}]]
    /\ wire = [s \in Slave |-> <<>>] /\ acks = [s \in Slave |-> <<>>]
    /\ breaks = 0 /\ timeouts = 0
    /\ forgot = [s \in Slave |-> {}]

InBounds == version + breaks + timeouts < MaxEvents
MayFail == breaks + timeouts < MaxFailures /\ InBounds

Larger(a, b) == IF a > b THEN a ELSE b

\* The waiting counts after one slave has let go of the versions in V
\* (decrease_task_waiting_rpc_count, desc_task_waiting_rpc_count).
Released(V) == [v \in Version |-> IF v \in V THEN waiting[v] - 1 ELSE waiting[v]]

Set(s, r) == rep' = [rep EXCEPT ![s] = r]
SetSlave(s, r) == sv' = [sv EXCEPT ![s] = r]

-----------------------------------------------------------------------------
(* The master: updates and its binlog.                                     *)

\* binlog_local_consumer_push_to_queues: the next version, to every slave.
Produce ==
    /\ version < MaxVersion /\ InBounds
    /\ version' = version + 1
    /\ waiting' = [waiting EXCEPT ![version + 1] = Cardinality(Slave)]
    /\ rep' = [s \in Slave |->
                  [rep[s] EXCEPT !.queue = Append(@, version + 1)]]
    /\ UNCHANGED <<written, sv, wire, acks, breaks, timeouts, forgot>>

\* handle_replica_done and the binlog writer, which orders by version.
WriteBinlog ==
    /\ written < version /\ waiting[written + 1] = 0
    /\ written' = written + 1
    /\ UNCHANGED <<version, waiting, rep, sv, wire, acks, breaks, timeouts,
                   forgot>>

-----------------------------------------------------------------------------
(* The master: the thread of a slave's replication.                        *)

\* replication_queue_discard_all, the first half of deal_connecting_replication
\* and of deal_connected_replication.
DiscardAll(s) ==
    LET r == rep[s] IN
    /\ r.stage # "sync_from_queue" /\ ~r.dealing
    /\ waiting' = Released(Range(r.queue))
    /\ Set(s, [r EXCEPT !.queue = <<>>, !.dealing = TRUE,
                        !.by_queue = IF r.queue = <<>> THEN @
                                     ELSE r.queue[Len(r.queue)]])
    /\ UNCHANGED <<version, written, sv, wire, acks, breaks, timeouts, forgot>>

\* deal_replication_connectings: connected, the join request is sent.
Connect(s) ==
    /\ rep[s].stage = "none" /\ rep[s].dealing
    /\ Set(s, [rep[s] EXCEPT !.stage = "waiting_join_resp", !.last = -1,
                             !.dealing = FALSE])
    /\ UNCHANGED <<version, waiting, written, sv, wire, acks, breaks, timeouts,
                   forgot>>

\* Variants: the results that are owed, or the queue, are not let go of.
RebindKeepRing(s) ==
    /\ waiting' = Released(Range(rep[s].queue))
    /\ Set(s, Bound(<<>>))
    /\ acks' = [acks EXCEPT ![s] = <<>>]
    /\ forgot' = [forgot EXCEPT ![s] = @ \cup (written + 1 .. version)]
RebindLoseQueue(s) ==
    /\ waiting' = Released(rep[s].ring)
    /\ Set(s, Bound(<<>>))
    /\ acks' = [acks EXCEPT ![s] = <<>>]
    /\ forgot' = [forgot EXCEPT ![s] = @ \cup (written + 1 .. version)]

\* binlog_replication_rebind_thread, when the connection of s is closed: what
\* is in its queue and what it has not acknowledged is let go of.
Rebind(s) ==
    /\ waiting' = Released(Range(rep[s].queue) \cup rep[s].ring)
    /\ Set(s, Bound(<<>>))
    /\ acks' = [acks EXCEPT ![s] = <<>>]
    /\ forgot' = [forgot EXCEPT ![s] = @ \cup (written + 1 .. version)]

Orphan(s) ==
    SetSlave(s, [sv[s] EXCEPT !.consumer = IF @ = "live" THEN "orphan" ELSE @])

\* The connection breaks.
Disconnect(s) ==
    /\ rep[s].stage # "none" /\ MayFail
    /\ Rebind(s) /\ Orphan(s)
    /\ breaks' = breaks + 1
    /\ UNCHANGED <<version, written, wire, timeouts>>

\* cluster_deal_join_slave_req refuses while the old consumer is there; the
\* error closes the connection.
JoinRefused(s) ==
    /\ rep[s].stage = "waiting_join_resp" /\ rep[s].last = -1
    /\ sv[s].consumer # "none"
    /\ Rebind(s)
    /\ UNCHANGED <<version, written, sv, wire, breaks, timeouts>>

\* cluster_deal_join_slave_resp: the master learns the slave's last version.
JoinResp(s, last) == Set(s, [rep[s] EXCEPT !.last = last])

\* cluster_deal_join_slave_req, and the answer.  Nothing changes at the slave
\* between the two: it has no consumer to change it.
Join(s) ==
    /\ rep[s].stage = "waiting_join_resp" /\ rep[s].last = -1
    /\ sv[s].consumer = "none"
    /\ SetSlave(s, [sv[s] EXCEPT !.consumer = "live", !.replayed = sv[s].current])
    /\ JoinResp(s, sv[s].current)
    /\ UNCHANGED <<version, waiting, written, wire, acks, breaks, timeouts,
                   forgot>>

\* deal_connected_replication before the join response has come.
WaitJoin(s) ==
    /\ rep[s].stage = "waiting_join_resp" /\ rep[s].dealing /\ rep[s].last = -1
    /\ Set(s, [rep[s] EXCEPT !.dealing = FALSE])
    /\ UNCHANGED <<version, waiting, written, sv, wire, acks, breaks, timeouts,
                   forgot>>

\* start_binlog_read_thread finds the slave's version in the binlog ...
StartReader(s) ==
    LET r == rep[s] IN
    /\ r.stage = "waiting_join_resp" /\ r.dealing
    /\ r.last \in 0 .. written
    /\ Set(s, [r EXCEPT !.stage = "sync_from_disk", !.pos = r.last,
                        !.dealing = FALSE])
    /\ UNCHANGED <<version, waiting, written, sv, wire, acks, breaks, timeouts,
                   forgot>>

\* ... or fails because the slave has a version that is not written yet.
StartReaderFail(s) ==
    /\ rep[s].stage = "waiting_join_resp" /\ rep[s].dealing
    /\ rep[s].last > written
    /\ Rebind(s) /\ Orphan(s)
    /\ UNCHANGED <<version, written, wire, breaks, timeouts>>

\* binlog_read_thread_func reads ahead into a free buffer.
ReadBinlog(s) ==
    LET r == rep[s] IN
    /\ r.stage = "sync_from_disk" /\ Len(r.done) < BufferCount
    /\ \/ /\ r.pos = written
          /\ Set(s, [r EXCEPT !.done = Append(@, ENOENT)])
       \/ \E v \in r.pos + 1 .. written :
             Set(s, [r EXCEPT !.done = Append(@, v), !.pos = v])
    /\ UNCHANGED <<version, waiting, written, sv, wire, acks, breaks, timeouts,
                   forgot>>

\* Flow control of deal_connected_replication, and nothing read yet.
DiskIdle(s) ==
    LET r == rep[s] IN
    /\ r.stage = "sync_from_disk" /\ r.dealing
    /\ r.by_resp < r.previous \/ r.done = <<>>
    /\ Set(s, [r EXCEPT !.dealing = FALSE])
    /\ UNCHANGED <<version, waiting, written, sv, wire, acks, breaks, timeouts,
                   forgot>>

\* The read thread's next result may be fetched.
Fetch(r) == /\ r.stage = "sync_from_disk" /\ r.dealing
            /\ r.by_resp >= r.previous /\ r.done # <<>>

\* Variant: one record too far.
ReadFromNext(s) == IF rep[s].current = 0 THEN rep[s].last + 1 ELSE rep[s].current

\* What the results before the last fetched one reach up to.
ReadFrom(s) == IF rep[s].current = 0 THEN rep[s].last ELSE rep[s].current

\* sync_binlog_from_disk sends what has been read.
SyncFromDisk(s) ==
    LET r == rep[s] IN
    /\ Fetch(r) /\ Head(r.done) # ENOENT
    /\ wire' = [wire EXCEPT ![s] = @ \o
                   [i \in 1 .. Head(r.done) - ReadFrom(s) |-> ReadFrom(s) + i]]
    /\ Set(s, [r EXCEPT !.previous = r.current, !.current = Head(r.done),
                        !.done = Tail(@), !.dealing = FALSE])
    /\ UNCHANGED <<version, waiting, written, sv, acks, breaks, timeouts,
                   forgot>>

\* Variants: what has been discarded does not count, or must have been passed.
MaySwitchEarly(r) == r.by_resp >= r.current
MaySwitchLate(r) == r.by_queue < r.current /\ r.by_resp >= r.current

\* sync_binlog_from_disk may switch over to the queue.
MaySwitch(r) == r.by_queue <= r.current /\ r.by_resp >= r.current

\* The end of the file, but records are missing or not acknowledged.  The
\* result is tested after its buffer has been given back, so that the read
\* thread may have overwritten it with that of its next read.
DiskEnd(s) ==
    LET r == rep[s] IN
    /\ Fetch(r) /\ Head(r.done) = ENOENT
    /\ ~MaySwitch(r) \/ r.pos < written
    /\ Set(s, [r EXCEPT !.done = Tail(@), !.dealing = FALSE])
    /\ UNCHANGED <<version, waiting, written, sv, wire, acks, breaks, timeouts,
                   forgot>>

\* Variant: the records that are synced stay in the queue.
SwitchKeepSynced(s) ==
    LET r == rep[s] IN
    /\ Fetch(r) /\ Head(r.done) = ENOENT /\ MaySwitch(r)
    /\ waiting' = Released(Range(r.queue))
    /\ Set(s, [r EXCEPT !.stage = "sync_from_queue", !.done = <<>>,
                        !.dealing = FALSE])
    /\ UNCHANGED <<version, written, sv, wire, acks, breaks, timeouts, forgot>>

\* replication_queue_discard_synced takes the first k records off the queue: the
\* slave has got them from the file.
Synced(r, k) == /\ \A i \in 1 .. k : r.queue[i] <= r.current
                /\ k < Len(r.queue) => r.queue[k + 1] > r.current

\* The switch to the queue.
SwitchToQueue(s) ==
    LET r == rep[s] IN
    /\ Fetch(r) /\ Head(r.done) = ENOENT /\ MaySwitch(r)
    /\ \E k \in 0 .. Len(r.queue) :
          /\ Synced(r, k)
          /\ waiting' = Released(Range(SubSeq(r.queue, 1, k)))
          /\ Set(s, [r EXCEPT !.stage = "sync_from_queue", !.done = <<>>,
                              !.dealing = FALSE,
                              !.queue = SubSeq(@, k + 1, Len(@)),
                              !.by_queue = IF k = 0 THEN @ ELSE r.queue[k]])
    /\ UNCHANGED <<version, written, sv, wire, acks, breaks, timeouts, forgot>>

\* sync_binlog_from_queue sends as much of the queue as fits.
SyncFromQueue(s) ==
    LET r == rep[s] IN
    /\ r.stage = "sync_from_queue"
    /\ \E k \in 1 .. Len(r.queue) :
          LET sent == SubSeq(r.queue, 1, k) IN
          /\ wire' = [wire EXCEPT ![s] = @ \o sent]
          /\ Set(s, [r EXCEPT !.queue = SubSeq(@, k + 1, Len(@)),
                              !.ring = @ \cup Range(sent),
                              !.by_queue = r.queue[k]])
    /\ UNCHANGED <<version, waiting, written, sv, acks, breaks, timeouts,
                   forgot>>

\* push_result_ring_clear_timeouts lets go of the oldest results.
ClearTimeouts(s) ==
    LET r == rep[s] IN
    /\ r.stage = "sync_from_queue" /\ MayFail
    /\ \E v \in r.ring :
          LET expired == {u \in r.ring : u <= v} IN
          /\ waiting' = Released(expired)
          /\ Set(s, [r EXCEPT !.ring = @ \ expired])
    /\ timeouts' = timeouts + 1
    /\ UNCHANGED <<version, written, sv, wire, acks, breaks, forgot>>

\* binlog_replications_check_response_data_version: the largest version the
\* slave has answered for.
Heard(r, v) == [r EXCEPT !.by_resp = Larger(@, v)]

\* cluster_deal_push_binlog_resp, for one result.  One that nobody waits for
\* closes the connection.
PushResp(s) ==
    LET r == rep[s]
        v == Head(acks[s])
        heard == Heard(r, v)
    IN
    /\ acks[s] # <<>>
    /\ \/ /\ r.stage = "sync_from_queue" /\ v \in r.ring
          /\ waiting' = Released({v})
          /\ Set(s, [heard EXCEPT !.ring = @ \ {v}])
          /\ acks' = [acks EXCEPT ![s] = Tail(@)]
          /\ UNCHANGED <<sv, forgot>>
       \/ /\ r.stage = "sync_from_queue" /\ v \notin r.ring
          /\ Rebind(s) /\ Orphan(s)
       \/ /\ r.stage = "sync_from_disk"
          /\ Set(s, heard)
          /\ acks' = [acks EXCEPT ![s] = Tail(@)]
          /\ UNCHANGED <<waiting, sv, forgot>>
    /\ UNCHANGED <<version, written, wire, breaks, timeouts>>

-----------------------------------------------------------------------------
(* The slave.                                                              *)

\* Results of an orphaned consumer go nowhere.
Answer(s, versions) ==
    acks' = [acks EXCEPT ![s] =
                IF sv[s].consumer = "live" THEN @ \o versions ELSE @]

\* binlog_replay_deal_buffer gives the new records of a buffer to the data
\* threads and answers for those it skips, which come first: the records of a
\* connection are sent in order.
Replay(s) ==
    /\ sv[s].consumer # "none" /\ sv[s].replaying = {}
    /\ \E k \in 1 .. Len(wire[s]) :
          LET buffer == SubSeq(wire[s], 1, k)
              New(v) == v > sv[s].replayed
              skipped == Cardinality({i \in 1 .. k : ~New(buffer[i])})
          IN  /\ wire' = [wire EXCEPT ![s] = SubSeq(@, k + 1, Len(@))]
              /\ Answer(s, SubSeq(buffer, 1, skipped))
              /\ SetSlave(s, [sv[s] EXCEPT
                     !.replaying = {v \in Range(buffer) : New(v)},
                     !.replayed = Larger(@, buffer[k]),
                     !.before = sv[s].current])
    /\ UNCHANGED <<version, waiting, written, rep, breaks, timeouts, forgot>>

\* What DATA_CURRENT_VERSION may be after record v.  The data threads raise it with a
\* compare-and-swap that is not tried again: it is left as it is if a thread with
\* another record of the buffer has raised it in between.
Raised(r, v) == {Larger(r.current, v)} \cup (IF r.current > r.before THEN {r.current} ELSE {})

\* A data thread has run one of the records: deal_update_record and
\* data_thread_deal_done_callback.
Apply(s, v) ==
    /\ v \in sv[s].replaying
    /\ \E c \in Raised(sv[s], v) :
          SetSlave(s, [sv[s] EXCEPT !.replaying = @ \ {v}, !.applied = @ \cup {v},
                                    !.current = c])
    /\ Answer(s, <<v>>)
    /\ UNCHANGED <<version, waiting, written, rep, wire, breaks, timeouts,
                   forgot>>

\* cluster_task_finish_cleanup, replica_consumer_thread_terminate: the records
\* not yet given to the data threads are dropped.
TerminateConsumer(s) ==
    /\ sv[s].consumer = "orphan" /\ sv[s].replaying = {}
    /\ SetSlave(s, [sv[s] EXCEPT !.consumer = "none"])
    /\ wire' = [wire EXCEPT ![s] = <<>>]
    /\ UNCHANGED <<version, waiting, written, rep, acks, breaks, timeouts,
                   forgot>>

\* The slave stops and starts again from its binlog.  Its writer thread has
\* brought that up to some version, and gets a buffer only when all of it has
\* been replayed.
Restart(s) ==
    /\ rep[s].stage # "none" /\ MayFail
    /\ Rebind(s)
    /\ \E v \in sv[s].applied \cup {0} :
          /\ sv[s].replaying # {} => v <= sv[s].before
          /\ SetSlave(s, [consumer |-> "none", replaying |-> {}, replayed |-> 0,
                          before |-> 0, current |-> v,
                          applied |-> {u \in sv[s].applied : u <= v}])
    /\ wire' = [wire EXCEPT ![s] = <<>>]
    /\ breaks' = breaks + 1
    /\ UNCHANGED <<version, written, timeouts>>

-----------------------------------------------------------------------------
\* An iteration of the loop of the thread that serves the slave.
Thread(s) ==
    \/ DiscardAll(s) \/ Connect(s) \/ WaitJoin(s) \/ StartReader(s)
    \/ StartReaderFail(s) \/ DiskIdle(s) \/ SyncFromDisk(s) \/ DiskEnd(s)
    \/ SwitchToQueue(s) \/ SyncFromQueue(s)
Consumer(s) == Replay(s) \/ TerminateConsumer(s) \/ \E v \in Version : Apply(s, v)
Failures(s) == Disconnect(s) \/ Restart(s) \/ ClearTimeouts(s)

Next == \/ Produce \/ WriteBinlog
        \/ \E s \in Slave : \/ Thread(s) \/ ReadBinlog(s) \/ Join(s)
                            \/ JoinRefused(s) \/ PushResp(s) \/ Consumer(s)
                            \/ Failures(s)

Spec == Init /\ [][Next]_vars

\* Threads run, and messages that are not lost with their connection arrive.
\* Nothing has to fail or to expire, and no client has to send an update.
FairSpec ==
    /\ Spec
    /\ WF_vars(WriteBinlog)
    /\ \A s \in Slave : /\ WF_vars(Thread(s)) /\ WF_vars(ReadBinlog(s))
                        /\ WF_vars(Join(s) \/ JoinRefused(s))
                        /\ WF_vars(PushResp(s)) /\ WF_vars(Consumer(s))

-----------------------------------------------------------------------------
(* Properties.                                                             *)

Answered(v) == v <= version /\ waiting[v] = 0

\* A task waits for exactly the slaves whose replication still holds its
\* record, in the queue or as a result that is owed.  So no way of letting go
\* of a record (discard, ack, timeout, disconnect) is taken twice for a slave,
\* which would answer the client early, or forgotten, which would never.
CountIsExact ==
    \A v \in Version :
        waiting[v] = Cardinality({s \in Slave : \/ v \in Range(rep[s].queue)
                                                \/ v \in rep[s].ring})

\* The updates a slave has, with those its data threads are working on.
Has(s) == sv[s].applied \cup sv[s].replaying

\* A slave that is ACTIVE (set_replication_stage) has every update that was
\* answered: the switch from the binlog file to the queue leaves nothing out
\* but what was on its way when its connection was lost (see below), and only
\* a result that expired may still be on the wire.  (The slave's data threads
\* may be at it: by_resp is the largest version the slave has answered for, and
\* they finish in any order.)
ActiveHasAnswered ==
    \A s \in Slave : rep[s].stage = "sync_from_queue" =>
        \A v \in Version : Answered(v) =>
            \/ v \in Has(s) \cup forgot[s]
            \/ timeouts > 0 /\ v \in Range(wire[s])

\* The slave's data are what the master has up to the slave's last version:
\* the consistency that joining a slave checks on its last binlog rows.
SlaveConsistent ==
    \A s \in Slave, v \in Version : v < sv[s].current => v \in Has(s)

\* The only updates a slave can miss are those that were on their way to it,
\* and not yet in the master's binlog, when its connection was lost: neither
\* the switch, nor acks out of order, nor timeouts, nor restarts lose any.
OnlyForgottenMissing ==
    \A s \in Slave, v \in Version : v < sv[s].current =>
        v \in Has(s) \cup forgot[s]

\* No update waits for ever: every one is answered and gets into the master's
\* binlog, whatever connections break.
EventuallyWritten == \A v \in Version : version >= v ~> written >= v

\* A slave comes back to work from the queue, and stays there once connections
\* stop breaking.
EventuallyActive == \A s \in Slave : <>[](rep[s].stage = "sync_from_queue")
=============================================================================

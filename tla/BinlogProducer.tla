---------------------------- MODULE BinlogProducer ----------------------------
(***************************************************************************)
(* binlog_producer.c: the master's data threads give every update a data   *)
(* version (or a contiguous block of them), the network threads push the   *)
(* packed records to one queue in any order, and one producer thread puts  *)
(* them back in version order with a ring before it hands them to the      *)
(* queues of the slaves.                                                   *)
(*                                                                         *)
(* A record is its range of versions: its payload is never looked at here. *)
(* The producer thread is the only one that touches the ring, so a step of *)
(* deal_record and an iteration of its drain loop are one action each.     *)
(***************************************************************************)
EXTENDS Integers, Sequences, FiniteSets

CONSTANTS Size,          \* slots of the ring (4096 in the code)
          Lengths,       \* the numbers of versions an update may take
          NULL,          \* an empty slot
          MaxVersion,    \* bound: versions allocated
          MaxInflight,   \* bound: updates between acceptance and execution
          MaxTerms,      \* bound: terms of mastership of this server
          MaxFails       \* bound: updates whose record cannot be packed

ASSUME SizeAssumption == Size \in Nat /\ Size >= 2
ASSUME LengthsAssumption == Lengths \subseteq Nat \ {0}
ASSUME NullAssumption == NULL \notin [first : Nat, last : Nat]
ASSUME BoundAssumption == /\ MaxVersion \in Nat /\ MaxInflight \in Nat
                          /\ MaxTerms \in Nat /\ MaxFails \in Nat

VARIABLES
    phase,              \* this server's mastership and the producer thread
    term,               \* how often this server has been elected
    data_version,       \* DATA_CURRENT_VERSION
    inflight,           \* updates accepted, not yet run by a data thread
    pending,            \* records with versions, not yet pushed
    queue,              \* proceduer_ctx.queue, head first
    chain,              \* deal_queue's local chain, taken off the queue
    pc,                 \* where the producer thread is
    entries,            \* proceduer_ctx.ring.entries
    start,              \* proceduer_ctx.ring.start, as an index
    end,                \* proceduer_ctx.ring.end, as an index
    next_data_version,  \* the version the consumers wait for
    failed,             \* records that could not be packed
    base,               \* history: next_data_version when the term began
    consumed,           \* history: the records handed to the slaves' queues
    dropped             \* history: the records refused as too small

master == <<phase, term>>
updates == <<data_version, inflight, pending, failed>>
ring == <<entries, start, end>>
vars == <<master, updates, queue, chain, pc, ring, next_data_version,
          base, consumed, dropped>>

Record == {r \in [first : Nat, last : Nat] : r.first <= r.last}
Slots == 0 .. Size - 1
\* Variant: the index runs over the end of the ring.
SlotOneMore(version) == version % (Size + 1)
Slot(version) == version % Size
Empty == [s \in Slots |-> NULL]

TypeOK ==
    /\ phase \in {"slave", "elected", "running", "stopping"}
    /\ term \in 0 .. MaxTerms
    /\ data_version \in Nat /\ inflight \in Nat
    /\ pending \subseteq Record /\ failed \subseteq Record
    /\ queue \in Seq(Record) /\ chain \in Seq(Record)
    /\ pc \in {"idle", "deal_queue", "waiting", "deal_record", "drain"}
    /\ entries \in [Slots -> Record \cup {NULL}]
    /\ start \in Slots /\ end \in Slots
    /\ next_data_version \in Nat /\ base \in Nat
    /\ consumed \in Seq(Record)
    /\ dropped \subseteq Record

Init ==
    /\ phase = "slave" /\ term = 0
    /\ data_version = 0 /\ inflight = 0 /\ pending = {} /\ failed = {}
    /\ queue = <<>> /\ chain = <<>> /\ pc = "idle"
    /\ entries = Empty /\ start = 0 /\ end = 0
    /\ next_data_version = 0 /\ base = 0
    /\ consumed = <<>> /\ dropped = {}

-----------------------------------------------------------------------------
(* Mastership and the life of the producer thread.                         *)

\* cluster_relationship_set_master: binlog_producer_init makes an empty ring,
\* then the master pointer is set and clients' updates are accepted.  The
\* queue is not cleared by it.
SetMaster ==
    /\ phase = "slave" /\ term < MaxTerms
    /\ phase' = "elected" /\ term' = term + 1
    /\ entries' = Empty /\ start' = 0 /\ end' = 0
    /\ UNCHANGED <<updates, queue, chain, pc, next_data_version, base,
                   consumed, dropped>>

\* producer_thread_func: the new thread reads the current version.
ThreadStart ==
    /\ phase = "elected"
    /\ phase' = "running" /\ pc' = "deal_queue"
    /\ next_data_version' = data_version + 1
    /\ base' = data_version + 1
    /\ start' = Slot(data_version + 1) /\ end' = Slot(data_version + 1)
    /\ UNCHANGED <<term, updates, queue, chain, entries, consumed, dropped>>

\* cluster_relationship_trigger_reselect_master: the master pointer is cleared
\* and binlog_producer_destroy signals the condition.
UnsetMaster ==
    /\ phase = "running"
    /\ phase' = "stopping"
    /\ pc' = IF pc = "waiting" THEN "deal_queue" ELSE pc
    /\ UNCHANGED <<term, updates, queue, chain, ring, next_data_version,
                   base, consumed, dropped>>

\* The thread leaves its loop, binlog_producer_destroy frees the ring and
\* clears the queue: the tasks of the records in them are not notified.
Destroy ==
    /\ phase = "stopping" /\ pc = "deal_queue"
    /\ phase' = "slave" /\ pc' = "idle"
    /\ queue' = <<>> /\ entries' = Empty
    /\ UNCHANGED <<term, updates, chain, start, end, next_data_version, base,
                   consumed, dropped>>

\* While another server is the master this one replays its records.
SlaveReplay ==
    /\ phase = "slave" /\ data_version < MaxVersion
    /\ data_version' = data_version + 1
    /\ UNCHANGED <<master, inflight, pending, failed, queue, chain, pc, ring,
                   next_data_version, base, consumed, dropped>>

-----------------------------------------------------------------------------
(* The updates of clients.                                                 *)

\* service_check_master lets the update through to a data thread.
Accept ==
    /\ phase \in {"elected", "running"} /\ inflight < MaxInflight
    /\ inflight' = inflight + 1
    /\ UNCHANGED <<master, data_version, pending, failed, queue, chain, pc,
                   ring, next_data_version, base, consumed, dropped>>

\* A data thread runs the update and gives it the next versions.
AllocVersion(n) ==
    /\ inflight > 0 /\ data_version + n <= MaxVersion
    /\ inflight' = inflight - 1
    /\ data_version' = data_version + n
    /\ pending' = pending \cup
           {[first |-> data_version + 1, last |-> data_version + n]}
    /\ UNCHANGED <<master, failed, queue, chain, pc, ring, next_data_version,
                   base, consumed, dropped>>

\* server_binlog_produce fails to get a buffer or to pack the record: the
\* client gets the error, the versions stay allocated.
ProduceFail(r) ==
    /\ r \in pending /\ Cardinality(failed) < MaxFails
    /\ pending' = pending \ {r} /\ failed' = failed \cup {r}
    /\ UNCHANGED <<master, data_version, inflight, queue, chain, pc, ring,
                   next_data_version, base, consumed, dropped>>

\* Variant: the signal is forgotten.
PushSilently(r) ==
    /\ r \in pending
    /\ pending' = pending \ {r}
    /\ queue' = Append(queue, r)
    /\ UNCHANGED <<master, data_version, inflight, failed, chain, pc, ring,
                   next_data_version, base, consumed, dropped>>

\* binlog_push_to_producer_queue: signals only if the queue was empty.
Push(r) ==
    /\ r \in pending
    /\ pending' = pending \ {r}
    /\ queue' = Append(queue, r)
    /\ pc' = IF queue = <<>> /\ pc = "waiting" THEN "deal_queue" ELSE pc
    /\ UNCHANGED <<master, data_version, inflight, failed, chain, ring,
                   next_data_version, base, consumed, dropped>>

-----------------------------------------------------------------------------
(* The producer thread.                                                    *)

\* deal_queue with an empty queue waits for a signal.
WaitQueue ==
    /\ phase = "running" /\ pc = "deal_queue" /\ queue = <<>>
    /\ pc' = "waiting"
    /\ UNCHANGED <<master, updates, queue, chain, ring, next_data_version,
                   base, consumed, dropped>>

\* Variant: the queue is cleared although only its head is dealt with.
PopHeadOnly ==
    /\ phase \in {"running", "stopping"}
    /\ pc = "deal_queue" /\ queue # <<>>
    /\ chain' = <<Head(queue)>> /\ queue' = <<>> /\ pc' = "deal_record"
    /\ UNCHANGED <<master, updates, ring, next_data_version, base,
                   consumed, dropped>>

\* deal_queue takes the whole chain off the queue.
PopQueue ==
    /\ phase \in {"running", "stopping"}
    /\ pc = "deal_queue" /\ queue # <<>>
    /\ chain' = queue /\ queue' = <<>> /\ pc' = "deal_record"
    /\ UNCHANGED <<master, updates, ring, next_data_version, base,
                   consumed, dropped>>

\* The record the loop of deal_queue is at, and where it goes on afterwards.
rb == Head(chain)
Dealt == /\ pc = "deal_record" /\ chain # <<>>
         /\ chain' = Tail(chain)
NextRecord == IF Len(chain) > 1 THEN "deal_record" ELSE "deal_queue"

\* Variants: the limits of the window are one off, or the lower one is missing.
TooLargeByOne(version) == version - next_data_version > Size - 1
TooSmallByOne(version) == version - next_data_version <= 0
NeverTooSmall(version) == FALSE

\* The first test of deal_record.
TooLarge(version) == version - next_data_version >= Size - 1
TooSmall(version) == version - next_data_version < 0

\* repush_to_queue puts rb behind the first k records of the queue.
RepushAfter(k) ==
    CASE queue = <<>> -> k = 0
      [] queue # <<>> /\ rb.first <= queue[1].first -> k = 0
      [] queue # <<>> /\ rb.first > queue[1].first
                      /\ rb.first > queue[Len(queue)].last -> k = Len(queue)
      [] OTHER -> /\ k >= 1
                  /\ \A j \in 2 .. k : rb.first > queue[j].last
                  /\ k < Len(queue) => rb.first <= queue[k + 1].last

\* A sequence with an element put in at position i.
InsertAt(q, i, e) == SubSeq(q, 1, i - 1) \o <<e>> \o SubSeq(q, i, Len(q))

\* deal_record puts a record that lies too far ahead back on the queue.
Repush ==
    /\ Dealt
    /\ \/ TooLarge(rb.first)
       \/ ~TooSmall(rb.first) /\ Slot(rb.first) # start /\ TooLarge(rb.last)
    /\ \E k \in 0 .. Len(queue) : /\ RepushAfter(k)
                                  /\ queue' = InsertAt(queue, k + 1, rb)
    /\ pc' = NextRecord
    /\ UNCHANGED <<master, updates, ring, next_data_version, base,
                   consumed, dropped>>

\* deal_record logs a record whose version has passed, and forgets it.
Drop ==
    /\ Dealt
    /\ TooSmall(rb.first)
    /\ dropped' = dropped \cup {rb}
    /\ pc' = NextRecord
    /\ UNCHANGED <<master, updates, queue, ring, next_data_version, base,
                   consumed>>

\* PUSH_TO_CONSUMER_QUEQUES.
PushToConsumers(r) ==
    /\ consumed' = Append(consumed, r)
    /\ next_data_version' = next_data_version + (r.last - r.first + 1)

\* deal_record: the record at ring.start goes straight to the consumers.
PushDirect ==
    /\ Dealt
    /\ ~TooLarge(rb.first) /\ ~TooSmall(rb.first) /\ Slot(rb.first) = start
    /\ PushToConsumers(rb)
    /\ start' = Slot(next_data_version')
    /\ IF start = end
       THEN end' = Slot(next_data_version') /\ pc' = NextRecord
       ELSE end' = end /\ pc' = "drain"
    /\ UNCHANGED <<master, updates, queue, entries, base, dropped>>

\* One iteration of the loop that hands over what the ring holds.
Drain ==
    /\ pc = "drain" /\ start # end /\ entries[start] # NULL
    /\ PushToConsumers(entries[start])
    /\ entries' = [entries EXCEPT ![start] = NULL]
    /\ start' = Slot(next_data_version')
    /\ UNCHANGED <<master, updates, queue, chain, pc, end, base, dropped>>

DrainDone ==
    /\ pc = "drain" /\ (start = end \/ entries[start] = NULL)
    /\ pc' = IF chain = <<>> THEN "deal_queue" ELSE "deal_record"
    /\ UNCHANGED <<master, updates, queue, chain, ring, next_data_version,
                   base, consumed, dropped>>

\* Whether storing rb has to move ring.end.
Expand ==
    LET current == Slot(rb.first)
    IN  CASE start = end -> TRUE
          [] end > start -> ~(current > start /\ Slot(rb.last) < end)
          [] end < start -> current >= end /\ current < start

\* deal_record keeps a record that is early in the ring.
Store ==
    /\ Dealt
    /\ ~TooLarge(rb.first) /\ ~TooSmall(rb.first) /\ Slot(rb.first) # start
    /\ ~TooLarge(rb.last)
    /\ entries' = [entries EXCEPT ![Slot(rb.first)] = rb]
    /\ end' = IF Expand THEN Slot(rb.last + 1) ELSE end
    /\ pc' = NextRecord
    /\ UNCHANGED <<master, updates, queue, start, next_data_version, base,
                   consumed, dropped>>

-----------------------------------------------------------------------------
Mastership == SetMaster \/ ThreadStart \/ UnsetMaster \/ Destroy \/ SlaveReplay
Clients == \/ Accept
           \/ \E n \in Lengths : AllocVersion(n)
           \/ \E r \in pending : ProduceFail(r) \/ Push(r)
Producer == \/ WaitQueue \/ PopQueue
            \/ Repush \/ Drop \/ PushDirect \/ Drain \/ DrainDone \/ Store

Next == Mastership \/ Clients \/ Producer

Spec == Init /\ [][Next]_vars

\* The producer thread runs: nothing but an empty queue blocks it for long.  No
\* client has to send an update.
FairSpec == Spec /\ WF_vars(Producer)

-----------------------------------------------------------------------------
(* Properties.                                                             *)

Covers(r, v) == v \in r.first .. r.last
InSeq(s, v) == \E i \in DOMAIN s : Covers(s[i], v)
InSet(S, v) == \E r \in S : Covers(r, v)
InRing(v) == \E s \in Slots : entries[s] # NULL /\ Covers(entries[s], v)

\* A version reaches the slaves at most once and after every smaller one,
\* over all terms, in whatever order the network threads push the records
\* (deal_record, PUSH_TO_CONSUMER_QUEQUES).
ConsumedInOrder ==
    \A i, j \in DOMAIN consumed : i < j => consumed[i].last < consumed[j].first

\* Every version allocated since the producer thread began is in one place:
\* on its way to the queue, in the queue, in the chain the thread works on, in
\* the ring, at the consumers, or lost to a packing error.  No slot of the ring
\* is overwritten and no record falls out between queue, chain and ring.
NoRecordLost ==
    phase = "running" =>
        \A v \in base .. data_version :
            \/ InSet(pending \cup failed, v)
            \/ InSeq(queue, v) \/ InSeq(chain, v) \/ InRing(v)
            \/ InSeq(consumed, v)

\* deal_record refuses as "too small" only what was given its version before
\* the producer thread of this term had read DATA_CURRENT_VERSION.
OnlyEarlyDropped == \A r \in dropped : r.last < base

\* ring.start = ring.end means that the ring holds nothing: deal_record says so
\* where it stores a record, and returns without draining where it pushes one.
EmptyRing == phase = "running" /\ start = end => entries = Empty

\* All versions from the awaited one to v have been pushed to the producer.
Ready(v) == \A u \in next_data_version .. v :
                InSeq(queue, u) \/ InSeq(chain, u) \/ InRing(u)

\* Once nothing is missing before it, a version goes to the slaves: no wakeup
\* of deal_queue is lost, a repushed record is looked at again, and the ring is
\* drained.
ReadyIsConsumed ==
    \A v \in 1 .. MaxVersion :
        (phase = "running" /\ Ready(v))
            ~> (next_data_version > v \/ phase # "running")

\* The producer implements the stream of consecutive version ranges.
Stream == INSTANCE VersionStream
              WITH Version <- 0 .. MaxVersion + 1,
                   expected <- next_data_version, stream <- consumed
StreamSpec == Stream!Spec
=============================================================================

---------------------------- MODULE PushResultRing ----------------------------
(***************************************************************************)
(* push_result_ring.c: the results one slave owes the master, in a ring    *)
(* indexed by version with a sorted overflow queue beside it.  Only the    *)
(* thread of the slave's replication calls it, so a call is an action.     *)
(*                                                                         *)
(* The task that waits for a record is named after the record's last       *)
(* version.  Time is the number of seconds an entry has left.              *)
(***************************************************************************)
EXTENDS Integers, Sequences, FiniteSets

CONSTANTS Size,         \* ring.size
          Lengths,      \* the numbers of versions of a record
          NULL,         \* no waiting task
          Lifetime,     \* SF_G_NETWORK_TIMEOUT + 1: seconds until expiry
          MaxVersion,   \* bound: versions sent
          MaxClears     \* bound: broken connections

ASSUME SizeAssumption == Size \in Nat /\ Size >= 2
ASSUME LengthsAssumption == Lengths \subseteq 1 .. Size
ASSUME LifetimeAssumption == Lifetime \in Nat \ {0}
ASSUME BoundAssumption == MaxVersion \in Nat /\ MaxClears \in Nat
ASSUME NullAssumption == NULL \notin 1 .. MaxVersion

VARIABLES
    entries,   \* ring.entries
    start,     \* ring.start, as an index
    end,       \* ring.end, as an index
    queue,     \* the overflow queue, head first
    checked,   \* last_check_timeout_time is the current second
    sent,      \* the last version pushed to the slave
    owed,      \* versions the slave is going to answer for
    tasks,     \* history: the tasks of the records sent
    released,  \* how often the waiting count of a task was decreased
    clears     \* counted against the bound

vars == <<entries, start, end, queue, checked, sent, owed, tasks,
          released, clears>>

Version == 1 .. MaxVersion
Slots == 0 .. Size - 1
Slot(n) == n % Size
Entry == [data_version : 0 .. MaxVersion, waiting_task : Version \cup {NULL},
          left : 0 .. Lifetime]
\* Variant: waiting_task is not reset.
FreeVersion(e) == [e EXCEPT !.data_version = 0]
Free(e) == [e EXCEPT !.data_version = 0, !.waiting_task = NULL]

TypeOK ==
    /\ entries \in [Slots -> Entry] /\ start \in Slots /\ end \in Slots
    /\ queue \in Seq(Entry) /\ checked \in BOOLEAN
    /\ sent \in 0 .. MaxVersion /\ owed \subseteq Version
    /\ tasks \subseteq Version
    /\ released \in [Version -> Nat] /\ clears \in 0 .. MaxClears

\* push_result_ring_check_init.
Init ==
    /\ entries = [s \in Slots |->
                     [data_version |-> 0, waiting_task |-> NULL, left |-> 0]]
    /\ start = 0 /\ end = 0 /\ queue = <<>> /\ checked = FALSE
    /\ sent = 0 /\ owed = {} /\ tasks = {}
    /\ released = [t \in Version |-> 0] /\ clears = 0

\* The number of slots from ring.start up to ring.end, and the first n slots
\* from ring.start.
Distance == (end - start) % Size
Front(n) == {Slot(start + i) : i \in 0 .. n - 1}

\* desc_task_waiting_rpc_count for the entries of some slots and of the queue.
Desc(slots, dequeued) ==
    released' = [t \in Version |->
        released[t]
        + Cardinality({s \in slots : entries[s].waiting_task = t})
        + Cardinality({i \in DOMAIN dequeued : dequeued[i].waiting_task = t})]

-----------------------------------------------------------------------------
\* Variant: the last slot is used too.
MatchedFull(first) ==
    \/ start = end
    \/ /\ Slot(first) = end
       /\ first = entries[Slot(end + Size - 1)].data_version + 1

\* push_result_ring_add: may the record go to the ring?
Matched(first) ==
    \/ start = end
    \/ /\ Slot(first) = end
       /\ Slot(end + 1) # start
       /\ first = entries[Slot(end + Size - 1)].data_version + 1

\* The entry of version v of a record that ends with last.  In the ring the
\* waiting task is only assigned at the last version.
NewEntry(v, last, old) ==
    [data_version |-> v, waiting_task |-> IF v = last THEN last ELSE old,
     left |-> Lifetime]

\* add_to_queue keeps the queue sorted.  No version of the queue is within a
\* new record, so that the entries es of a record stay together.
AddToQueue(es) ==
    LET p == Cardinality({i \in DOMAIN queue :
                             queue[i].data_version < es[1].data_version})
    IN  queue' = SubSeq(queue, 1, p) \o es \o SubSeq(queue, p + 1, Len(queue))

\* push_result_ring_add, for a record of n versions.
RingAdd(n) ==
    LET first == sent + 1
        last == sent + n
    IN
    /\ last <= MaxVersion
    /\ IF Matched(first)
       THEN /\ start' = IF start = end THEN Slot(first) ELSE start
            /\ end' = Slot(last + 1)
            /\ entries' = [s \in Slots |->
                  IF \E v \in first .. last : Slot(v) = s
                  THEN NewEntry(CHOOSE v \in first .. last : Slot(v) = s,
                                last, entries[s].waiting_task)
                  ELSE entries[s]]
            /\ queue' = queue
       ELSE /\ AddToQueue([i \in 1 .. n |-> NewEntry(sent + i, last, NULL)])
            /\ UNCHANGED <<entries, start, end>>
    /\ sent' = last /\ owed' = owed \cup (first .. last)
    /\ tasks' = tasks \cup {last}
    /\ UNCHANGED <<checked, released, clears>>

\* Where the loop over free entries stops, k slots after ring.start.
Stop(k) == \/ Slot(start + k) = end
           \/ entries[Slot(start + k)].data_version # 0
FirstStop == CHOOSE k \in 1 .. Size : Stop(k) /\ \A j \in 1 .. k - 1 : ~Stop(j)

\* Variant: the index does not wrap.
NextStartNoWrap == start + FirstStop

\* Variant: the loop skips entries that still wait.
NextStartSkip == end

\* Where ring.start goes when the entry at it is removed.
NextStart == Slot(start + FirstStop)

InRing(v) == start # end /\ entries[Slot(v)].data_version = v
InQueue(v) == \E i \in DOMAIN queue : queue[i].data_version = v

\* push_result_ring_remove, when the result of v comes from the slave.
RingRemove(v) ==
    /\ v \in owed /\ owed' = owed \ {v}
    /\ \/ /\ InRing(v)
          /\ start' = IF start = Slot(v) THEN NextStart ELSE start
          /\ entries' = [entries EXCEPT ![Slot(v)] = Free(@)]
          /\ Desc({Slot(v)}, <<>>)
          /\ queue' = queue
       \/ /\ ~InRing(v)
          /\ \E i \in DOMAIN queue :
                /\ queue[i].data_version = v
                /\ \A j \in 1 .. i - 1 : queue[j].data_version # v
                /\ queue' = SubSeq(queue, 1, i - 1)
                             \o SubSeq(queue, i + 1, Len(queue))
                /\ Desc({}, <<queue[i]>>)
          /\ UNCHANGED <<entries, start>>
    /\ UNCHANGED <<end, checked, sent, tasks, clears>>

\* push_result_ring_clear_all, when the connection is closed.
ClearAll ==
    /\ entries' = [s \in Slots |-> IF s \in Front(Distance)
                                   THEN Free(entries[s]) ELSE entries[s]]
    /\ start' = end
    /\ queue' = <<>>
    /\ Desc(Front(Distance), queue)
    /\ owed' = {}
    /\ UNCHANGED <<end, checked, tasks>>

\* cluster_deal_push_binlog_resp closes the connection for a result that
\* nobody waits for.
RingRemoveFail(v) ==
    /\ v \in owed /\ ~InRing(v) /\ ~InQueue(v)
    /\ ClearAll
    /\ UNCHANGED <<sent, clears>>

\* The connection breaks.  The slave may get the next version from disk.
Disconnect ==
    /\ clears < MaxClears /\ clears' = clears + 1
    /\ ClearAll
    /\ sent' \in {sent, sent + 1} /\ sent' <= MaxVersion

\* The loops over the timeouts take the first k entries of a sequence.
ExpireFirst(es, k) == /\ \A j \in 1 .. k : es[j].left = 0
                      /\ k < Len(es) => es[k + 1].left > 0
Expired(es) == CHOOSE k \in 0 .. Len(es) : ExpireFirst(es, k)

\* push_result_ring_clear_timeouts, once a second.
ClearTimeouts ==
    LET n == Expired([i \in 1 .. Distance |-> entries[Slot(start + i - 1)]])
        gone == Front(n)
        m == Expired(queue)
    IN
    /\ ~checked /\ checked' = TRUE
    /\ start' = Slot(start + n)
    /\ entries' = [s \in Slots |-> IF s \in gone THEN Free(entries[s])
                                                 ELSE entries[s]]
    /\ queue' = SubSeq(queue, m + 1, Len(queue))
    /\ Desc(gone, SubSeq(queue, 1, m))
    /\ UNCHANGED <<end, sent, owed, tasks, clears>>

\* A second passes.
Tick ==
    LET Older(e) == [e EXCEPT !.left = IF @ > 0 THEN @ - 1 ELSE 0] IN
    /\ checked' = FALSE
    /\ entries' = [s \in Slots |-> Older(entries[s])]
    /\ queue' = [i \in DOMAIN queue |-> Older(queue[i])]
    /\ UNCHANGED <<start, end, sent, owed, tasks, released, clears>>

-----------------------------------------------------------------------------
Next == \/ \E n \in Lengths : RingAdd(n)
        \/ \E v \in owed : RingRemove(v) \/ RingRemoveFail(v)
        \/ ClearTimeouts \/ Tick \/ Disconnect

Spec == Init /\ [][Next]_vars

\* Seconds pass, and the thread's loop checks for timeouts in each.  The slave
\* need not answer.
FairSpec == Spec /\ WF_vars(ClearTimeouts) /\ WF_vars(Tick)

-----------------------------------------------------------------------------
(* Properties.                                                             *)

Holders(t) ==
    Cardinality({s \in Slots : entries[s].waiting_task = t})
    + Cardinality({i \in DOMAIN queue : queue[i].waiting_task = t})

\* The task of a record is told exactly once that the slave is done with it,
\* and is held until then: by a result, by its expiry or by the end of the
\* connection, whichever of them come and in whatever order.
ToldOnce ==
    \A t \in Version : released[t] + Holders(t) = IF t \in tasks THEN 1 ELSE 0

\* ring.start = ring.end means that nobody waits in the ring, as
\* push_result_ring_add takes it.
EmptyRing == start = end => \A s \in Slots : entries[s].waiting_task = NULL

\* Ring and queue together implement the set of awaited versions: no version
\* is lost or found twice when slots are used again or the ring overflows.
Results == INSTANCE PushResults
               WITH waiting <- {v \in Version : InRing(v) \/ InQueue(v)}
ResultsSpec == Results!Spec

\* Every task is told, even if the slave never answers.
EventuallyTold == \A t \in Version : t \in tasks ~> released[t] > 0
=============================================================================

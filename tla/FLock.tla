------------------------------- MODULE FLock -------------------------------
(***************************************************************************)
(* flock.c, the lock operations of inode_index.c and data_thread.c and the *)
(* lock requests of service_handler.c: locks on regions of one file, and   *)
(* its system lock for append and truncate.                                *)
(*                                                                         *)
(* A connection is a task.  The data thread applies lock requests, the     *)
(* network thread of the connection unlocks and cleans up when it is       *)
(* closed.  What is done under the mutex of the inode is an action.  The   *)
(* data thread hands a lock over to its connection after that, without the *)
(* mutex (flock_done_notify): the lock may be awaked, its request answered *)
(* and its connection closed before.                                       *)
(***************************************************************************)
EXTENDS Integers, Sequences, FiniteSetsExt

CONSTANTS Task,         \* connections
          Region,       \* regions that are locked: offset and length
          NULL,         \* no task
          MaxRequests,  \* bound: lock requests
          MaxCloses     \* bound: connections closed

ASSUME RegionAssumption == /\ Region \subseteq [offset : Nat, length : Nat]
                           /\ IsFiniteSet(Region)
ASSUME BoundsAssumption == MaxRequests \in Nat /\ MaxCloses \in Nat

VARIABLES
    locked,         \* the tasks in the locked lists of the regions, as granted
    waiting,        \* region->waiting, by region
    waiting_tasks,  \* entry->waiting_tasks: they wait for several regions
    sys_locked,     \* sys_lock.locked_task
    sys_waiting,    \* sys_lock.waiting
    conn,           \* the connection: see below
    ftasks,         \* FTASK_HEAD_PTR of the connection
    sys_task,       \* SYS_LOCK_TASK of the connection is not NULL
    request,        \* the request the data thread has to deal with, or NULL
    stage,          \* where it is
    handing,        \* the lock the data thread is handing over, or NULL
    requests, closes    \* counted against the bounds

lock_vars == <<locked, waiting, waiting_tasks>>
sys_vars == <<sys_locked, sys_waiting>>
vars == <<lock_vars, sys_vars, conn, ftasks, sys_task, request, stage,
          handing, requests, closes>>

Type == {"LOCK_SH", "LOCK_EX"}
\* FLockTask.  One owner per connection.
FTask == [task : Task, type : Type, region : Region]
Request == [op : {"flock"}, type : Type, region : Region, block : BOOLEAN]
               \cup [op : {"sys_lock"}, block : BOOLEAN]
               \cup [op : {"sys_lock_release"}]
\* granted: the lock is held, no need to wait.
Handing == [op : {"flock"}, ftask : FTask, granted : BOOLEAN]
               \cup [op : {"sys_lock"}, task : Task, granted : BOOLEAN]
ASSUME NullAssumption ==
    NULL \notin Task /\ NULL \notin Request /\ NULL \notin Handing

\* "closing": service_task_finish_cleanup releases the locks; "last": all but
\* the system lock are released; "closed": done, the task can be used again
\* when no request holds it any more.
TypeOK ==
    /\ locked \in Seq(FTask) /\ waiting \in [Region -> Seq(FTask)]
    /\ waiting_tasks \in Seq(FTask)
    /\ sys_locked \in Task \cup {NULL} /\ sys_waiting \in Seq(Task)
    /\ conn \in [Task -> {"open", "closing", "last", "closed"}]
    /\ ftasks \in [Task -> Seq(FTask)] /\ sys_task \in [Task -> BOOLEAN]
    /\ request \in [Task -> Request \cup {NULL}]
    /\ stage \in [Task -> {"idle", "queued", "waiting", "notified"}]
    /\ handing \in Handing \cup {NULL}
    /\ requests \in 0 .. MaxRequests /\ closes \in 0 .. MaxCloses

Init ==
    /\ locked = <<>> /\ waiting_tasks = <<>>
    /\ waiting = [r \in Region |-> <<>>]
    /\ sys_locked = NULL /\ sys_waiting = <<>>
    /\ conn = [t \in Task |-> "open"] /\ ftasks = [t \in Task |-> <<>>]
    /\ sys_task = [t \in Task |-> FALSE]
    /\ request = [t \in Task |-> NULL] /\ stage = [t \in Task |-> "idle"]
    /\ handing = NULL /\ requests = 0 /\ closes = 0

-----------------------------------------------------------------------------
(* Conflicts.                                                              *)

\* Variant: length 0 means nothing in the region that begins first.
OverlapNoEnd(r1, r2) ==
    \/ r1.offset = r2.offset
    \/ r1.offset < r2.offset /\ r1.offset + r1.length > r2.offset
    \/ r1.offset > r2.offset /\ r2.offset + r2.length > r1.offset

\* is_region_overlap.
Overlap(r1, r2) ==
    \/ r1.offset = r2.offset
    \/ r1.offset < r2.offset
       /\ (r1.length = 0 \/ r1.offset + r1.length > r2.offset)
    \/ r1.offset > r2.offset
       /\ (r2.length = 0 \/ r2.offset + r2.length > r1.offset)

\* The order of entry->regions (get_region).  A region without tasks is as
\* good as none: it conflicts with nothing.
Before(r1, r2) == \/ r1.offset < r2.offset
                  \/ r1.offset = r2.offset /\ r1.length <= r2.length

\* What one locked task is to another: locked.writes and locked.reads.
Excludes(held, f) == held.type = "LOCK_EX" \/ f.type = "LOCK_EX"

\* get_conflict_ftask_by_region: the regions in conflict with f when the tasks
\* of held are locked.  The tasks that wait count if queues is not empty.
ConflictRegions(held, queues, f) ==
    {r \in Region : /\ Overlap(f.region, r)
                    /\ \/ r \in DOMAIN queues /\ queues[r] # <<>>
                       \/ \E i \in DOMAIN held : /\ held[i].region = r
                                                 /\ Excludes(held[i], f)}
NoQueues == [r \in {} |-> <<>>]

\* The task that is found in conflict in a region: who waits, or holds, first.
FoundIn(r) ==
    IF waiting[r] # <<>> THEN Head(waiting[r])
    ELSE locked[Min({i \in DOMAIN locked : locked[i].region = r})]

\* The first waiting task of waiting_tasks whose region overlaps, if any.
Overlapping(f) == {i \in DOMAIN waiting_tasks :
                      Overlap(f.region, waiting_tasks[i].region)}

\* get_conflict_flock_task finds nobody.  LOCK_EX does not look at those who
\* wait for several regions.
NoConflict(f) == /\ ConflictRegions(locked, waiting, f) = {}
                 /\ f.type = "LOCK_EX" \/ Overlapping(f) = {}

\* get_conflict_flock_task finds somebody: who, and whether f has to wait for
\* more than its own region.
Conflict(f) ==
    LET regions == ConflictRegions(locked, waiting, f)
        first == CHOOSE r \in regions : \A q \in regions : Before(r, q)
    IN
    IF Cardinality(regions) > 1
    THEN [holder |-> FoundIn(first).task, global |-> TRUE]
    ELSE IF Overlapping(f) # {}
    THEN [holder |-> waiting_tasks[Min(Overlapping(f))].task, global |-> TRUE]
    ELSE [holder |-> FoundIn(first).task, global |-> first # f.region]

-----------------------------------------------------------------------------
(* Releasing and awaking.                                                  *)

Taken(q, k) == SubSeq(q, 1, k)
Left(q, k) == SubSeq(q, k + 1, Len(q))
RemoveAt(q, i) == SubSeq(q, 1, i - 1) \o SubSeq(q, i + 1, Len(q))
In(q, f) == \E i \in DOMAIN q : q[i] = f
\* f is at i and not earlier.
At(q, f, i) == q[i] = f /\ \A j \in 1 .. i - 1 : q[j] # f

\* awake_waiting_tasks takes k tasks from the front of a queue: up to the first
\* that is in conflict with what is locked by then.
Awakes(held, queues, q, k) ==
    LET Free(j) ==
            ConflictRegions(held \o Taken(q, j - 1), queues, q[j]) = {}
    IN  (\A j \in 1 .. k : Free(j)) /\ (k < Len(q) => ~Free(k + 1))

\* sf_nio_notify(SF_NIO_STAGE_CONTINUE) for some tasks.
Notify(tasks) ==
    stage' = [t \in Task |-> IF t \in tasks THEN "notified" ELSE stage[t]]
NotifyAll(fs) == Notify({fs[i].task : i \in DOMAIN fs})

\* Variant: those who wait for several regions are not awaked.
ReleaseLockedOnly(f) ==
    \E i \in DOMAIN locked, k \in 0 .. Len(waiting[f.region]) :
        LET q == waiting[f.region]
            held == RemoveAt(locked, i)
        IN
        /\ At(locked, f, i) /\ Awakes(held, NoQueues, q, k)
        /\ locked' = held \o Taken(q, k)
        /\ waiting' = [waiting EXCEPT ![f.region] = Left(@, k)]
        /\ UNCHANGED waiting_tasks
        /\ NotifyAll(Taken(q, k))

\* flock_release of a task that is locked: k tasks that wait for the region
\* and then n of those who wait for several are awaked.
ReleaseLocked(f) ==
    \E i \in DOMAIN locked, k \in 0 .. Len(waiting[f.region]),
       n \in 0 .. Len(waiting_tasks) :
        LET q == waiting[f.region]
            held == RemoveAt(locked, i)
            queues == [waiting EXCEPT ![f.region] = Left(@, k)]
        IN
        /\ At(locked, f, i) /\ Awakes(held, NoQueues, q, k)
        /\ Awakes(held \o Taken(q, k), queues, waiting_tasks, n)
        /\ locked' = held \o Taken(q, k) \o Taken(waiting_tasks, n)
        /\ waiting' = queues
        /\ waiting_tasks' = Left(waiting_tasks, n)
        /\ NotifyAll(Taken(q, k) \o Taken(waiting_tasks, n))

\* flock_release of a task that waits.  Nobody is awaked.
ReleaseWaiting(f) ==
    /\ \/ \E i \in DOMAIN waiting[f.region] :
             /\ At(waiting[f.region], f, i)
             /\ waiting' = [waiting EXCEPT ![f.region] = RemoveAt(@, i)]
             /\ UNCHANGED waiting_tasks
       \/ \E i \in DOMAIN waiting_tasks :
             /\ At(waiting_tasks, f, i)
             /\ waiting_tasks' = RemoveAt(waiting_tasks, i)
             /\ UNCHANGED waiting
    /\ UNCHANGED <<locked, stage>>

\* flock_release.  A connection's tasks that look the same are released in the
\* order in which they were locked.
Release(f) == IF In(locked, f) THEN ReleaseLocked(f) ELSE ReleaseWaiting(f)

\* Variant: a task that waits stays in the queue.
SysReleaseLocked(t) ==
    \/ /\ sys_locked = t
       /\ sys_locked' = IF sys_waiting = <<>> THEN NULL ELSE Head(sys_waiting)
       /\ sys_waiting' = Left(sys_waiting, 1)
    \/ /\ sys_locked # t
       /\ UNCHANGED sys_vars

\* sys_lock_release, and who gets the lock.
SysRelease(t) ==
    \/ /\ sys_locked = t
       /\ sys_locked' = IF sys_waiting = <<>> THEN NULL ELSE Head(sys_waiting)
       /\ sys_waiting' = Left(sys_waiting, 1)
    \/ /\ sys_locked # t
       /\ \E i \in DOMAIN sys_waiting :
             At(sys_waiting, t, i) /\ sys_waiting' = RemoveAt(sys_waiting, i)
       /\ UNCHANGED sys_locked
SysAwaked(t) == IF sys_locked = t /\ sys_waiting # <<>> THEN {Head(sys_waiting)}
                                                      ELSE {}

-----------------------------------------------------------------------------
(* Requests.                                                               *)

\* A request goes to the queue of the data thread.
Push(t, r) ==
    /\ conn[t] = "open" /\ stage[t] = "idle" /\ requests < MaxRequests
    /\ request' = [request EXCEPT ![t] = r]
    /\ stage' = [stage EXCEPT ![t] = "queued"]
    /\ requests' = requests + 1
    /\ UNCHANGED <<lock_vars, sys_vars, conn, ftasks, sys_task, handing,
                   closes>>

\* service_deal_flock_dentry, to lock.
FlockRequest(t) ==
    \E r \in Region, type \in Type, block \in BOOLEAN :
        Push(t, [op |-> "flock", type |-> type, region |-> r, block |-> block])

\* service_deal_sys_lock_dentry.
SysLockRequest(t) ==
    /\ ~sys_task[t]
    /\ \E block \in BOOLEAN : Push(t, [op |-> "sys_lock", block |-> block])

\* service_deal_sys_unlock_dentry, with a new size.
SysUnlockRequest(t) == sys_task[t] /\ Push(t, [op |-> "sys_lock_release"])

\* The data thread deals with the request of t.
Deal(t, op) ==
    /\ handing = NULL
    /\ stage[t] = "queued" /\ request[t].op = op
    /\ request' = [request EXCEPT ![t] = NULL]

\* The request is answered with an error: EWOULDBLOCK, EDEADLK.
Refuse(t) == Notify({t}) /\ UNCHANGED handing
\* The lock is to be handed over to the connection of t.
HandOver(t, h) == handing' = h /\ stage' = [stage EXCEPT ![t] = "waiting"]

\* deal_flock_apply: inode_index_flock_apply, flock_apply.
FlockApply(t) ==
    /\ Deal(t, "flock")
    /\ LET f == [task |-> t, type |-> request[t].type,
                 region |-> request[t].region]
           c == Conflict(f)
           refused == ~request[t].block \/ c.holder = t
           Lock(granted) == [op |-> "flock", ftask |-> f, granted |-> granted]
       IN
       \/ /\ NoConflict(f)
          /\ locked' = Append(locked, f) /\ HandOver(t, Lock(TRUE))
          /\ UNCHANGED <<waiting, waiting_tasks>>
       \/ /\ ~NoConflict(f) /\ refused
          /\ Refuse(t)
          /\ UNCHANGED lock_vars
       \/ /\ ~NoConflict(f) /\ ~refused
          /\ IF c.global
             THEN /\ waiting_tasks' = Append(waiting_tasks, f)
                  /\ UNCHANGED waiting
             ELSE /\ waiting' = [waiting EXCEPT ![f.region] = Append(@, f)]
                  /\ UNCHANGED waiting_tasks
          /\ HandOver(t, Lock(FALSE))
          /\ UNCHANGED locked
    /\ UNCHANGED <<sys_vars, conn, ftasks, sys_task, requests, closes>>

\* deal_sys_lock_apply: sys_lock_apply.
SysLockApply(t) ==
    /\ Deal(t, "sys_lock")
    /\ LET Lock(granted) == [op |-> "sys_lock", task |-> t, granted |-> granted]
       IN
       \/ /\ sys_locked = NULL
          /\ sys_locked' = t /\ HandOver(t, Lock(TRUE))
          /\ UNCHANGED sys_waiting
       \/ /\ sys_locked # NULL /\ (~request[t].block \/ sys_locked = t)
          /\ Refuse(t)
          /\ UNCHANGED sys_vars
       \/ /\ sys_locked # NULL /\ request[t].block /\ sys_locked # t
          /\ sys_waiting' = Append(sys_waiting, t)
          /\ HandOver(t, Lock(FALSE))
          /\ UNCHANGED sys_locked
    /\ UNCHANGED <<lock_vars, conn, ftasks, sys_task, requests, closes>>

\* flock_done_notify: the connection gets its lock, whatever has become of it,
\* and the request goes on if the lock was granted at once.
FlockDoneNotify ==
    /\ handing # NULL /\ handing' = NULL
    /\ \/ /\ handing.op = "flock"
          /\ LET f == handing.ftask IN
             /\ ftasks' = [ftasks EXCEPT ![f.task] = Append(@, f)]
             /\ Notify(IF handing.granted THEN {f.task} ELSE {})
          /\ UNCHANGED sys_task
       \/ /\ handing.op = "sys_lock"
          /\ sys_task' = [sys_task EXCEPT ![handing.task] = TRUE]
          /\ Notify(IF handing.granted THEN {handing.task} ELSE {})
          /\ UNCHANGED ftasks
    /\ UNCHANGED <<lock_vars, sys_vars, conn, request, requests, closes>>

\* deal_update_record, SERVICE_OP_SYS_LOCK_RELEASE_INT: the lock is released
\* unless the connection is closed, which releases it too.
SysLockRelease(t) ==
    /\ Deal(t, "sys_lock_release")
    /\ IF conn[t] = "open" /\ sys_task[t]
       THEN /\ SysRelease(t) /\ sys_task' = [sys_task EXCEPT ![t] = FALSE]
            /\ Notify({t} \cup SysAwaked(t))
       ELSE /\ Notify({t})
            /\ UNCHANGED <<sys_vars, sys_task>>
    /\ UNCHANGED <<lock_vars, conn, ftasks, handing, requests, closes>>

\* handle_record_query_done, handle_record_update_done.
Continue(t) ==
    /\ stage[t] = "notified"
    /\ stage' = [stage EXCEPT ![t] = "idle"]
    /\ UNCHANGED <<lock_vars, sys_vars, conn, ftasks, sys_task, request,
                   handing, requests, closes>>

\* flock_unlock_dentry: the first lock of the connection on the region.
FlockUnlock(t) ==
    /\ conn[t] = "open" /\ stage[t] = "idle"
    /\ \E i \in DOMAIN ftasks[t] :
          LET f == ftasks[t][i] IN
          /\ In(locked, f)
          /\ \A j \in 1 .. i - 1 : ~(/\ ftasks[t][j].region = f.region
                                      /\ In(locked, ftasks[t][j]))
          /\ ftasks' = [ftasks EXCEPT ![t] = RemoveAt(@, i)]
          /\ Release(f)
    /\ UNCHANGED <<sys_vars, conn, sys_task, request, handing, requests,
                   closes>>

\* service_deal_sys_unlock_dentry, without a new size.
SysUnlock(t) ==
    /\ conn[t] = "open" /\ stage[t] = "idle" /\ sys_task[t]
    /\ SysRelease(t) /\ sys_task' = [sys_task EXCEPT ![t] = FALSE]
    /\ Notify(SysAwaked(t))
    /\ UNCHANGED <<lock_vars, conn, ftasks, request, handing, requests, closes>>

-----------------------------------------------------------------------------
(* Connections.                                                            *)

\* The connection is closed, whatever its request is doing.
Close(t) ==
    /\ conn[t] = "open" /\ closes < MaxCloses /\ closes' = closes + 1
    /\ conn' = [conn EXCEPT ![t] =
                     IF ftasks[t] = <<>> THEN "last" ELSE "closing"]
    /\ UNCHANGED <<lock_vars, sys_vars, ftasks, sys_task, request, stage,
                   handing, requests>>

\* service_task_finish_cleanup: one round of its loop.  The next task is looked
\* up before the round: one that is added during the last is not seen.
CleanupFlock(t) ==
    /\ conn[t] = "closing"
    /\ Release(Head(ftasks[t]))
    /\ ftasks' = [ftasks EXCEPT ![t] = Tail(@)]
    /\ conn' = [conn EXCEPT ![t] = IF Len(ftasks[t]) = 1 THEN "last" ELSE @]
    /\ UNCHANGED <<sys_vars, sys_task, request, handing, requests, closes>>

\* The rest of service_task_finish_cleanup.
CleanupSys(t) ==
    /\ conn[t] = "last"
    /\ IF sys_task[t]
       THEN SysRelease(t) /\ Notify(SysAwaked(t))
       ELSE UNCHANGED <<sys_vars, stage>>
    /\ sys_task' = [sys_task EXCEPT ![t] = FALSE]
    /\ conn' = [conn EXCEPT ![t] = "closed"]
    /\ UNCHANGED <<lock_vars, ftasks, request, handing, requests, closes>>

\* A new connection gets the task of a closed one: no request holds it.  What
\* is in ftasks stays there (init_nio_task runs only once).
Accept(t) ==
    /\ conn[t] = "closed" /\ stage[t] = "idle"
    /\ conn' = [conn EXCEPT ![t] = "open"]
    /\ UNCHANGED <<lock_vars, sys_vars, ftasks, sys_task, request, stage,
                   handing, requests, closes>>

-----------------------------------------------------------------------------
DataThread(t) == FlockApply(t) \/ SysLockApply(t) \/ SysLockRelease(t)
Cleanup(t) == CleanupFlock(t) \/ CleanupSys(t)
Client(t) == \/ FlockRequest(t) \/ SysLockRequest(t) \/ SysUnlockRequest(t)
             \/ FlockUnlock(t) \/ SysUnlock(t)

Next == \/ FlockDoneNotify
        \/ \E t \in Task : \/ Client(t) \/ DataThread(t) \/ Continue(t)
                           \/ Close(t) \/ Cleanup(t) \/ Accept(t)

Spec == Init /\ [][Next]_vars

-----------------------------------------------------------------------------
(* Properties.                                                             *)

\* The bytes of two regions meet.
Meet(r1, r2) ==
    LET Within(b, r) == /\ r.offset <= b
                        /\ r.length = 0 \/ b < r.offset + r.length
    IN  \E b \in {r1.offset, r2.offset} : Within(b, r1) /\ Within(b, r2)

\* Two locks that are held on a common byte are both shared, however they came
\* to be granted: by a request, or awaked from either queue when another was
\* released.
HoldersCompatible ==
    \A i, j \in DOMAIN locked :
        i # j /\ Meet(locked[i].region, locked[j].region) =>
            locked[i].type = "LOCK_SH" /\ locked[j].type = "LOCK_SH"

\* Nobody waits without a lock whose release will look at it: one on the same
\* region for those who wait for their region, any lock for those who wait for
\* several.  Waiters that leave do not awake those behind them.
WaitersHaveHolder ==
    /\ \A r \in Region : waiting[r] # <<>> =>
          \E i \in DOMAIN locked : locked[i].region = r
    /\ waiting_tasks # <<>> => locked # <<>>
    /\ sys_waiting # <<>> => sys_locked # NULL

Count(q, f) == Cardinality({i \in DOMAIN q : q[i] = f})
FlockHanded == IF handing # NULL /\ handing.op = "flock"
               THEN <<handing.ftask>> ELSE <<>>
SysLockHanded == IF handing # NULL /\ handing.op = "sys_lock"
                 THEN <<handing.task>> ELSE <<>>

\* Every lock that is held or waited for is in the list of its connection, or
\* about to be put there, as often, and the other way round: closing the
\* connection finds all of them, and releases nothing twice.
LocksRegistered ==
    /\ \A f \in FTask :
          Count(ftasks[f.task], f) + Count(FlockHanded, f) =
              Count(locked, f) + Count(waiting_tasks, f)
                  + Count(waiting[f.region], f)
    /\ \A t \in Task :
          (IF sys_task[t] THEN 1 ELSE 0) + Count(SysLockHanded, t) =
              Count(<<sys_locked>> \o sys_waiting, t)
=============================================================================

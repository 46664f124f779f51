------------------------------- MODULE DBStore -------------------------------
(***************************************************************************)
(* A namespace of a server with the storage engine: the data thread that    *)
(* executes updates, the binlog, the change notify thread that stores what  *)
(* changed in batches, and the restart after a crash (change_notify.c,      *)
(* event_dealer.c, db_updater.c, ns_manager.c, data_loader.c).              *)
(*                                                                         *)
(* A batch goes to disk in three steps: the redo file, the namespace dump,  *)
(* the storage engine.  A restart loads the redo file, brings the dump up   *)
(* to it, stores the batch again and replays the binlog from there; the     *)
(* dentries are loaded on demand.                                           *)
(*                                                                         *)
(* log is the records executed so far; the data version of a record is its  *)
(* position.  The first `written` of them are in the binlog file.           *)
(***************************************************************************)
EXTENDS ChangeEvents, Hierarchy

CONSTANTS Requests,    \* the updates clients ask for
          Boot,        \* the updates of an earlier life of the server
          MaxUpdates,  \* a bound on the records executed after Boot
          MaxCrashes

\* The cases of deal_update_record.
Ops == {"create", "remove", "rename", "update", "set_dsize", "set_xattr", "remove_xattr"}
IsUpdate(r) == DOMAIN r = DOMAIN Record /\ r.op \in Ops
ASSUME RequestsAssumption == \A r \in Requests : IsUpdate(r)
ASSUME BootAssumption == Boot \in Seq({r \in ToSet(Boot) : IsUpdate(r)})
ASSUME BoundsAssumption == MaxUpdates \in Nat /\ MaxCrashes \in Nat

VARIABLES
    log, written,
    mem,      \* the tree of the namespace in memory
    args,     \* the lists of children to store (db_args)
    version,  \* DATA_CURRENT_VERSION
    phase,    \* "resume", "replay", "serve" (DATA_LOAD_DONE) or "failed"
    queue,    \* the change events not yet popped
    batch,    \* the merged entries the notify thread works on
    step,     \* its next step: "idle", "redo", "dump" or "store"
    last,     \* last_versions of the updater: field and dentry
    delay,    \* what the namespace dump is written from
    redo, dump, db,    \* on disk: redo file, namespace dump, storage engine
    crashes

vars == <<log, written, mem, args, version, phase, queue, batch, step, last, delay,
          redo, dump, db, crashes>>
memory == <<mem, args, version, phase, queue>>
notifier == <<batch, step, last, delay>>
disk == <<redo, dump, db>>

-----------------------------------------------------------------------------
(* dump_namespaces of the updater: the effect of an entry and of a batch on the
   counters. *)
Created(n) == n.op = "create" /\ n.field = "basic"
CountDentry(c, kind, k) ==
    IF kind = "dir" THEN [c EXCEPT !.dirs = @ + k] ELSE [c EXCEPT !.files = @ + k]
CountName(c, n) ==
    IF Created(n)
    THEN CountDentry([c EXCEPT !.root = IF @ = 0 THEN n.inode ELSE @], n.kind, 1)
    ELSE IF n.op = "remove"
    THEN CountDentry([c EXCEPT !.root = IF @ = n.inode THEN 0 ELSE @], n.kind, -1)
    ELSE c
CountAlloc(c, n) == IF n.alloc = 0 THEN c ELSE [c EXCEPT !.used = @ + n.alloc]
Count(c, n) == CountAlloc(CountName(c, n), n)
Counted(c, entries) == FoldLeft(Count, c, entries)
\* change_count # 0
Changes(entries) ==
    \E k \in DOMAIN entries :
        Created(entries[k]) \/ entries[k].op = "remove" \/ entries[k].alloc # 0

NoCounts == [root |-> 0, dirs |-> 0, files |-> 0, used |-> 0]

\* The state a life of the server that ran Boot and stored everything leaves.
Stored(s, r, e, m) ==
    [mem |-> Free(e.t, r.gone), args |-> m.args, next |-> s.next + 1,
     log |-> Append(s.log, Packed(r.rec)), entries |-> m.entries,
     field |-> s.field + Len(m.entries), delay |-> Counted(s.delay, m.entries),
     db |-> Store(s.db, m.entries)]
Notified(s, r, e) ==
    Stored(s, r, e, Merge(e.args, <<[version |-> s.next, msgs |-> e.msgs]>>))
Lives(s, r) == Notified(s, r, PushEvent(r, s.args))
Life(s, rec) == Lives(s, Apply(s.mem, NoPieces, rec, s.next))
NoLife == [mem |-> NoTree, args |-> <<>>, next |-> 1, log |-> <<>>, entries |-> <<>>,
           field |-> 0, delay |-> NoCounts, db |-> NoPieces]
Lived == FoldLeft(Life, NoLife, Boot)

Init ==
    /\ \E s \in {Lived} :
         /\ log = s.log
         /\ written = Len(s.log)
         /\ db = s.db
         /\ redo = [entries |-> s.entries, field |-> s.field, dentry |-> Len(s.log)]
         /\ dump = [last |-> s.field, counts |-> s.delay]
    /\ mem = NoTree /\ args = <<>> /\ version = 0 /\ phase = "resume" /\ queue = <<>>
    /\ batch = <<>> /\ step = "idle"
    /\ last = [field |-> 0, dentry |-> 0]
    /\ delay = NoCounts
    /\ crashes = 0

-----------------------------------------------------------------------------
(* The data thread. *)
\* What an executed record leaves in memory, with its change event.
Executed(r, v) ==
    /\ \E e \in {PushEvent(r, args)} :
         /\ mem' = Free(e.t, r.gone)
         /\ args' = e.args
         /\ queue' = Append(queue, [version |-> v, msgs |-> e.msgs])
    /\ version' = v

\* deal_update_record for a client: a new record, or an error that may still
\* have loaded dentries.  The record has what pack_record writes of it.
Request ==
    /\ phase = "serve"
    /\ \E req \in Requests : \E r \in {Apply(mem, db, req, version + 1)} :
         IF Recorded(req, r)
         THEN /\ Len(log) < Len(Boot) + MaxUpdates
              /\ log' = Append(log, Packed(r.rec))
              /\ Executed(r, version + 1)
              /\ UNCHANGED <<written, phase>>
         ELSE /\ mem' = r.t
              /\ UNCHANGED <<log, written, args, version, phase, queue>>
    /\ UNCHANGED <<notifier, disk, crashes>>

\* The binlog writer appends the next record to the file.
WriteBinlog ==
    /\ written < Len(log)
    /\ written' = written + 1
    /\ UNCHANGED <<log, memory, notifier, disk, crashes>>

-----------------------------------------------------------------------------
(* The change notify thread. *)
\* Wrong variant: the events are popped whether or not the binlog has them.
PopAll == version
\* Wrong variant: the last record in the binlog is left out.
PopLess == (IF phase = "serve" THEN written ELSE version) - 1
\* less_equal: what may be stored now.
StorableVersion == IF phase = "serve" THEN written ELSE version

\* The leading events up to there, and no more.
PopEvents ==
    /\ step = "idle"
    /\ phase \in {"replay", "serve"}
    /\ \E n \in 1 .. Len(queue) :
         /\ \A k \in 1 .. n : queue[k].version <= StorableVersion
         /\ n < Len(queue) => queue[n + 1].version > StorableVersion
         /\ queue' = SubSeq(queue, n + 1, Len(queue))
         /\ \E m \in {Merge(args, SubSeq(queue, 1, n))} :
              /\ args' = m.args
              /\ batch' = m.entries
              /\ last' = [field |-> last.field + Len(m.entries),
                          dentry |-> queue[n].version]
    /\ step' = "redo"
    /\ UNCHANGED <<log, written, mem, version, phase, delay, disk, crashes>>

\* Wrong variant: the redo file gets the version of the data thread.
WriteRedoCurrent ==
    /\ step = "redo"
    /\ redo' = [entries |-> batch, field |-> last.field, dentry |-> version]
    /\ step' = "dump"
    /\ UNCHANGED <<log, written, memory, batch, last, delay, dump, db, crashes>>
WriteRedo ==
    /\ step = "redo"
    /\ redo' = [entries |-> batch, field |-> last.field, dentry |-> last.dentry]
    /\ step' = "dump"
    /\ UNCHANGED <<log, written, memory, batch, last, delay, dump, db, crashes>>

\* Wrong variant: the dump is written with the version of the records.
DumpedDentryVersion(entries, old, counts, versions) ==
    IF Changes(entries) THEN [last |-> versions.dentry, counts |-> counts] ELSE old
\* fdir_namespace_dump, only if the batch changed a counter.
Dumped(entries, old, counts, versions) ==
    IF Changes(entries) THEN [last |-> versions.field, counts |-> counts] ELSE old

DumpNamespaces ==
    /\ step = "dump"
    /\ delay' = Counted(delay, batch)
    /\ dump' = Dumped(batch, dump, delay', last)
    /\ step' = "store"
    /\ UNCHANGED <<log, written, memory, batch, last, redo, db, crashes>>

StoreBatch ==
    /\ step = "store"
    /\ db' = Store(db, batch)
    /\ batch' = <<>>
    /\ step' = "idle"
    /\ UNCHANGED <<log, written, memory, last, delay, redo, dump, crashes>>

-----------------------------------------------------------------------------
(* A crash loses the memory, the records not yet written and, while a batch
   is being stored, any number of its last entries. *)
Crash ==
    /\ phase \in {"replay", "serve"}
    /\ crashes < MaxCrashes
    /\ crashes' = crashes + 1
    /\ log' = SubSeq(log, 1, written)
    /\ \E k \in IF step = "store" THEN 0 .. Len(batch) ELSE {0} :
         db' = Store(db, SubSeq(batch, 1, k))
    /\ mem' = NoTree /\ args' = <<>> /\ version' = 0 /\ phase' = "resume" /\ queue' = <<>>
    /\ batch' = <<>> /\ step' = "idle"
    /\ last' = [field |-> 0, dentry |-> 0]
    /\ delay' = NoCounts
    /\ UNCHANGED <<written, redo, dump>>

\* Wrong variant: the batch of the redo file is not stored again.
SkipRedo(entries, pieces) == pieces
\* STORAGE_ENGINE_REDO_API
Redone(entries, pieces) == Store(pieces, entries)

\* do_load: a redo file without entries or versions is refused.
RedoIsValid == redo.entries # <<>> /\ redo.field # 0 /\ redo.dentry # 0

\* fdir_namespace_load: the counters clients are told, as the dump has them.
LoadedNamespace == [NoTree EXCEPT !.dirs = dump.counts.dirs,
                                  !.files = dump.counts.files,
                                  !.used = dump.counts.used]

\* fdir_namespace_load_root
LoadedRoot(t, pieces, root) == IF root = 0 THEN Ret(OK, t) ELSE LoadRoot(t, pieces, root)

\* The batch of the redo file is counted unless the dump has it.
DumpIsOld == dump.last # redo.field
RestartCounts ==
    IF DumpIsOld THEN Counted(dump.counts, redo.entries) ELSE dump.counts
\* Wrong variant: the version of the entries is taken for that of the records.
OneVersion == [field |-> redo.field, dentry |-> redo.field]
\* unpack_header
RestartVersions == [field |-> redo.field, dentry |-> redo.dentry]
RestartDump ==
    IF DumpIsOld THEN Dumped(redo.entries, dump, RestartCounts, RestartVersions) ELSE dump

\* resume_from_redo_log and the start of server_load_data.
Resume ==
    /\ phase = "resume"
    /\ LET r == LoadedRoot(LoadedNamespace, db', RestartCounts.root)
       IN  IF ~RedoIsValid
           THEN phase' = "failed" /\ UNCHANGED <<last, delay, dump, db, mem, version>>
           ELSE /\ last' = RestartVersions
                /\ delay' = RestartCounts
                /\ dump' = RestartDump
                /\ db' = Redone(redo.entries, db)
                /\ mem' = r.t
                /\ phase' = IF r.err = OK THEN "replay" ELSE "failed"
                /\ version' = redo.dentry
    /\ UNCHANGED <<log, written, args, queue, batch, step, redo, crashes>>

\* A crash on the way: the dump is written, and some of the batch is stored again.
CrashResuming ==
    /\ phase = "resume" /\ RedoIsValid
    /\ dump' = RestartDump
    /\ \E k \in 0 .. Len(redo.entries) : db' = Redone(SubSeq(redo.entries, 1, k), db)
    /\ UNCHANGED <<log, written, memory, notifier, redo, crashes>>

\* The next record of the binlog, in the loose error mode.  The server exits on a
\* record that cannot be parsed.
ReplayRecord ==
    /\ phase = "replay"
    /\ version < written
    /\ LET rec == log[version + 1]
       IN  IF ~Complete(rec)
           THEN phase' = "failed" /\ UNCHANGED <<mem, args, queue, version>>
           ELSE \E r \in {Apply(mem, db, rec, 0)} :
                IF r.err = OK THEN Executed(r, version + 1) /\ UNCHANGED phase
                ELSE /\ mem' = r.t
                     /\ IF r.err = r.ignore
                        THEN version' = version + 1 /\ UNCHANGED phase
                        ELSE phase' = "failed" /\ UNCHANGED version
                     /\ UNCHANGED <<args, queue>>
    /\ UNCHANGED <<log, written, notifier, disk, crashes>>

\* change_notify_load_done_signal: all events of the replay are stored.
LoadDone ==
    /\ phase = "replay"
    /\ version = written
    /\ queue = <<>> /\ step = "idle"
    /\ phase' = "serve"
    /\ UNCHANGED <<log, written, mem, args, version, queue, notifier, disk, crashes>>

Notify == PopEvents \/ WriteRedo \/ DumpNamespaces \/ StoreBatch
Next ==
    \/ Request \/ WriteBinlog \/ Notify
    \/ Crash \/ Resume \/ CrashResuming \/ ReplayRecord \/ LoadDone

(* Every thread goes on as long as it can.  The steps are named here by the  *)
(* variable that shows them, under the guards of the actions above.          *)
NotifyRuns ==
    \/ /\ step = "idle" /\ phase \in {"replay", "serve"}
       /\ queue # <<>> /\ Head(queue).version <= StorableVersion
       /\ step' = "redo"
    \/ step = "redo" /\ step' = "dump"
    \/ step = "dump" /\ step' = "store"
    \/ step = "store" /\ step' = "idle"
StartRuns ==
    \/ phase = "resume" /\ phase' = "replay"
    \/ /\ phase = "replay" /\ version = written /\ queue = <<>> /\ step = "idle"
       /\ phase' = "serve"
Fairness ==
    /\ WF_written(written < Len(log) /\ written' = written + 1)
    /\ WF_version(phase = "replay" /\ version < written /\ version' = version + 1)
    /\ WF_step(NotifyRuns)
    /\ WF_phase(StartRuns)
Spec == Init /\ [][Next]_vars /\ Fairness

-----------------------------------------------------------------------------
(* The types; neither the binlog file nor what is in memory is ahead of the  *)
(* records.                                                                  *)
TypeOK ==
    /\ written \in 0 .. Len(log)
    /\ version \in 0 .. Len(log)
    /\ phase \in {"resume", "replay", "serve", "failed"}
    /\ step \in {"idle", "redo", "dump", "store"}
    /\ crashes \in 0 .. MaxCrashes
    /\ last.field \in Nat /\ last.dentry \in 0 .. version
    /\ redo.field \in Nat /\ redo.dentry \in 0 .. Len(log)
    /\ dump.last \in 0 .. redo.field

(* What clients see is what the records executed so far mean, whether a      *)
(* dentry is in memory, was loaded from the store before or after its        *)
(* parent changed, or the server has just restarted (dentry_loader.c,        *)
(* data_loader.c); and an inode in the index is a dentry in memory           *)
(* (inode_index.c).                                                          *)
ViewIsHistory ==
    /\ mem.index \subseteq DOMAIN mem.d
    /\ phase \in {"replay", "serve"} =>
          View(mem, db) = Visible(History(SubSeq(log, 1, version)))

(* The store is never ahead of the binlog: the records up to the version in  *)
(* the redo file are in the binlog file, so that a restart finds them and    *)
(* the slaves can get them (less_equal of change_notify_func).               *)
StoreBehindBinlog == redo.dentry <= written

(* A restart from the disk as it is now starts with exactly the records up   *)
(* to the version in the redo file, also with half of a batch stored.        *)
RestartIsPrefix ==
    LET pieces == Store(db, redo.entries)
        r == LoadRoot(NoTree, pieces, RestartCounts.root)
    IN  View(IF RestartCounts.root = 0 THEN NoTree ELSE r.t, pieces)
           = Visible(History(SubSeq(log, 1, redo.dentry)))

(* The counters of the namespace dump follow the store through crashes: a    *)
(* batch is counted once, whether the crash came before or after its dump.   *)
DelayIsStored ==
    step = "idle" /\ phase \in {"replay", "serve"} =>
        LET b == db.basic
            of(k) == {i \in DOMAIN b : (b[i].kind = "dir") = k}
        IN  /\ delay.dirs = Cardinality(of(TRUE))
            /\ delay.files = Cardinality(of(FALSE))
            /\ delay.used = FoldSet(LAMBDA i, n : n + b[i].alloc, 0, DOMAIN b)

(* The server can be started again, and the replay of the binlog meets no    *)
(* error (binlog_replay_mt.c stops the server on one).  What unpack_header   *)
(* refuses is a redo file without records: a batch in which all that was     *)
(* changed was also created and removed leaves one behind.                   *)
LoadNeverFails == phase = "failed" => redo.entries = <<>>

(* The counters clients are told are those of what they see.                *)
CountsAreExact ==
    phase = "serve" /\ crashes = 0 =>
        [dirs |-> mem.dirs, files |-> mem.files, used |-> mem.used]
            = Totals(History(log))

(* On disk the batches are stored one after the other and each of them at    *)
(* once, in spite of the three files they go to and of the crashes in        *)
(* between: what a restart makes of the disk, that is the pieces, the        *)
(* counters and the version of the last record, changes only when a redo     *)
(* file is written, and then by the whole batch, counted once                *)
(* (resume_from_redo_log).                                                   *)
Batches == INSTANCE BatchStore WITH
    Put <- Store, Tally <- Counted,
    batch <- redo.entries, pieces <- Store(db, redo.entries),
    counts <- RestartCounts, stored <- redo.dentry
CommitSpec == Batches!Spec

(* What was executed and not lost gets stored.                              *)
EventuallyStored ==
    \A v \in Len(Boot) + 1 .. Len(Boot) + MaxUpdates :
        (version >= v) ~> (redo.dentry >= v \/ Len(log) < v)
=============================================================================

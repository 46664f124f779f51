------------------------------- MODULE Service -------------------------------
(***************************************************************************)
(* service_handler.c and inode_generator.c: the life of the clients'        *)
(* updates, from the call to the answer, and across a change of master.     *)
(*                                                                         *)
(* A client calls one update at a time and sends it again, under the same   *)
(* request id, until it gets an answer.  The network thread of the master   *)
(* looks the id up among the requests of the client's channel, hands a new  *)
(* request to the data thread and, when that has executed it, packs the     *)
(* record for the producer.  The answer waits for the slaves.  A new master *)
(* knows nothing of the requests of the old one.                            *)
(*                                                                         *)
(* What an update does is left open here (Outcome); DirService fills it in. *)
(* One namespace, hence one data thread.  The way of a record from the      *)
(* producer to a slave is one step: BinlogProducer and Replication have it  *)
(* in detail.                                                               *)
(***************************************************************************)
EXTENDS Integers, Sequences, FiniteSets, Results

CONSTANTS Server,       \* the servers of the cluster
          Client,       \* client processes, each with one channel
          NULL,         \* no master
          Errno,        \* the results other than OK
          Request,      \* what clients ask for
          Rec,          \* binlog records
          Skip,         \* INODE_SN_MAX_QPS
          Given,        \* inode numbers given out before
          First,        \* the first master
          MaxAsks, MaxBreaks, MaxCrashes    \* bounds

ASSUME ServiceAssumption ==
    /\ NULL \notin Server /\ First \in Server
    /\ OK \notin Errno
    /\ Skip \in Nat /\ Given \in Nat

VARIABLES
    master,     \* CLUSTER_MASTER
    term,       \* history: how many masters there have been
    up,         \* the servers that run
    active,     \* those with status ACTIVE: the master waits for their results
    log,        \* by server: the updates in its data, in the order of versions
    sn,         \* by server: CURRENT_INODE_SN
    lag,        \* by server: numbers given out since its last ping
    informed,   \* servers that have pinged the present master
    early,      \* history: masters that crashed before all others had pinged them
    queue,      \* the queue of the master's data thread
    jobs,       \* tasks whose update has been executed
    idem,       \* by client: its last IdempotencyRequest
    call,       \* by client: the call in progress
    got,        \* by client: the last answer
    asks, breaks, crashes

cluster == <<master, term, up, active>>
numbers == <<sn, lag, informed, early>>
bounds == <<asks, breaks, crashes>>
vars == <<cluster, log, numbers, queue, jobs, idem, call, got, bounds>>

\* version is history: the version the update was executed with, or 0.
NoRequest == [id |-> 0, stage |-> "none", err |-> OK, out |-> 0, version |-> 0]
NoCall == [id |-> 0, stage |-> "idle"]
NoAnswer == [id |-> 0, term |-> 0, err |-> OK, out |-> 0, version |-> 0]

\* What executing an update can come to: whether it changed something, whether it
\* took a number from the generator, the inode in the response and the one kept
\* for a repeated request (0 for none), and the record for the binlog.
Outcome == [err : Errno \cup {OK}, changes : BOOLEAN, taken : BOOLEAN,
            out : Nat, cached : Nat, rec : Rec]

-----------------------------------------------------------------------------
(* The client. *)
Ask(c) ==
    /\ call[c].stage = "idle" /\ asks < MaxAsks
    /\ asks' = asks + 1
    /\ call' = [call EXCEPT ![c] = [id |-> @.id + 1, stage |-> "calling"]]
    /\ UNCHANGED <<cluster, log, numbers, queue, jobs, idem, got, breaks, crashes>>

\* The connection is lost, before or after the server has sent the response.
Break(c) ==
    /\ call[c].stage = "sent" /\ breaks < MaxBreaks
    /\ breaks' = breaks + 1
    /\ call' = [call EXCEPT ![c].stage = "calling"]
    /\ UNCHANGED <<cluster, log, numbers, queue, jobs, idem, got, asks, crashes>>

\* The client receives the response.
Response(c, err, out, version) ==
    /\ call' = [call EXCEPT ![c].stage = "idle"]
    /\ got' = [got EXCEPT ![c] = [id |-> call[c].id, term |-> term, err |-> err,
                                  out |-> out, version |-> version]]

-----------------------------------------------------------------------------
(* The network threads of the master. *)

\* Wrong variant: a request is found only when it has been answered.
KnownAnswered(c) == idem[c].id = call[c].id /\ idem[c].stage = "finished"
\* The request is one of those registered in the channel.
Known(c) == idem[c].id = call[c].id

\* A request is sent, or sent again; one that is in progress is refused (EAGAIN),
\* which changes nothing.
Sends(c) == master # NULL /\ call[c].stage = "calling"

\* service_process_update: a new request.  req is what is asked.
Accept(c, req) ==
    /\ Sends(c) /\ ~Known(c)
    /\ idem' = [idem EXCEPT ![c] = [NoRequest EXCEPT !.id = call[c].id,
                                                      !.stage = "dealing"]]
    /\ queue' = Append(queue, [client |-> c, id |-> call[c].id, req |-> req])
    /\ call' = [call EXCEPT ![c].stage = "sent"]
    /\ UNCHANGED <<cluster, log, numbers, jobs, got, bounds>>

\* A request that cannot be parsed is answered at once.
Refuse(c, err) ==
    /\ Sends(c) /\ ~Known(c)
    /\ idem' = [idem EXCEPT ![c] = [NoRequest EXCEPT !.id = call[c].id,
                                    !.stage = "finished", !.err = err]]
    /\ Response(c, err, 0, 0)
    /\ UNCHANGED <<cluster, log, numbers, queue, jobs, bounds>>

\* A repeated request gets the answer that was kept.
Repeated(c) ==
    /\ Sends(c) /\ Known(c) /\ idem[c].stage = "finished"
    /\ Response(c, idem[c].err, idem[c].out, idem[c].version)
    /\ UNCHANGED <<cluster, log, numbers, queue, jobs, idem, bounds>>

\* service_idempotency_request_finish, and the response on the task's connection.
Finish(j) ==
    /\ idem' = [idem EXCEPT ![j.client].stage = "finished", ![j.client].err = j.err]
    /\ IF call[j.client].stage = "sent" THEN Response(j.client, j.err, j.out, j.version)
       ELSE UNCHANGED <<call, got>>

\* Wrong variant: the answer does not wait for the slaves.
UpdateDoneEarly(j) ==
    /\ j.stage = "executed"
    /\ jobs' = jobs \ {j}
    /\ Finish(j)
    /\ UNCHANGED <<cluster, log, numbers, queue, bounds>>
\* handle_record_update_done
UpdateDone(j) ==
    /\ j.stage = "executed"
    /\ IF j.err = OK /\ j.version > 0
       THEN /\ jobs' = (jobs \ {j}) \cup {[j EXCEPT !.stage = "pushed"]}
            /\ UNCHANGED <<idem, call, got>>
       ELSE /\ jobs' = jobs \ {j}
            /\ Finish(j)
    /\ UNCHANGED <<cluster, log, numbers, queue, bounds>>

\* Wrong variant: the answer waits for servers that are gone.
ReplicaDoneAll(j) ==
    /\ j.stage = "pushed"
    /\ \A s \in Server : j.version <= Len(log[s])
    /\ jobs' = jobs \ {j}
    /\ Finish(j)
    /\ UNCHANGED <<cluster, log, numbers, queue, bounds>>
\* handle_replica_done: every active slave has the update.
ReplicaDone(j) ==
    /\ j.stage = "pushed"
    /\ \A s \in active : j.version <= Len(log[s])
    /\ jobs' = jobs \ {j}
    /\ Finish(j)
    /\ UNCHANGED <<cluster, log, numbers, queue, bounds>>

-----------------------------------------------------------------------------
(* The data threads of master and slaves. *)

\* A number is taken only if less than Skip have been since the last ping of every
\* other server: pings are a second apart.
Rate == \A s \in up \ {master} : lag[s] < Skip

\* deal_update_record and record_deal_done_notify
Execute(res) ==
    LET j == Head(queue)
        done == res.err = OK /\ res.changes
        entry == [client |-> j.client, id |-> j.id, term |-> term, rec |-> res.rec,
                  out |-> res.out, cached |-> res.cached,
                  new |-> IF res.taken THEN sn[master] + 1 ELSE 0]
        version == IF done THEN Len(log[master]) + 1 ELSE 0
    IN  /\ queue # <<>>
        /\ queue' = Tail(queue)
        /\ log' = IF done THEN [log EXCEPT ![master] = Append(@, entry)] ELSE log
        /\ IF res.taken
           THEN /\ Rate
                /\ sn' = [sn EXCEPT ![master] = @ + 1]
                /\ lag' = [s \in Server |-> IF s \in up \ {master} THEN lag[s] + 1 ELSE 0]
           ELSE UNCHANGED <<sn, lag>>
        /\ jobs' = jobs \cup {[client |-> j.client, id |-> j.id, stage |-> "executed",
                               err |-> res.err, out |-> res.out,
                               version |-> version]}
        /\ idem' = [idem EXCEPT ![j.client].version = version,
                                ![j.client].out = IF res.err = OK THEN res.cached
                                                  ELSE @]
        /\ UNCHANGED <<cluster, informed, early, call, got, bounds>>

\* A slave takes the next record the producer has handed on, or the binlog holds.
Copy(s) ==
    LET v == Len(log[s]) + 1
    IN  /\ master # NULL /\ s \in up \ {master} /\ v <= Len(log[master])
        /\ \A j \in jobs : j.stage = "executed" => j.version # v
        /\ log' = [log EXCEPT ![s] = Append(@, log[master][v])]
        /\ UNCHANGED <<cluster, numbers, queue, jobs, idem, call, got, bounds>>

\* A slave that has all that was answered becomes active.
Join(s) ==
    /\ master # NULL /\ s \in up \ active
    /\ \A v \in Len(log[s]) + 1 .. Len(log[master]) : \E j \in jobs : j.version = v
    /\ active' = active \cup {s}
    /\ UNCHANGED <<master, term, up, log, numbers, queue, jobs, idem, call, got, bounds>>

-----------------------------------------------------------------------------
(* The cluster. *)

\* The ping response brings the master's number.
Ping(s) ==
    /\ master # NULL /\ s \in up \ {master}
    /\ sn' = [sn EXCEPT ![s] = IF sn[master] > @ THEN sn[master] ELSE @]
    /\ lag' = [lag EXCEPT ![s] = 0]
    /\ informed' = informed \cup {s}
    /\ UNCHANGED <<cluster, log, early, queue, jobs, idem, call, got, bounds>>

\* What the binlog writer may have written when server s stops.
Writable(s) ==
    {k \in 0 .. Len(log[s]) : s = master => \A j \in jobs : j.version # 0 => k < j.version}

\* Wrong variant: a server that is gone stays active.
NotDeactivated(s) == active
\* set_replication_stage: the replication to server s is no longer in a stage in which
\* the master waits for it.
Deactivated(s) == active \ {s}

\* A server stops; k updates are in its binlog and f is in its file of the inode
\* number.  Some active server goes on.
Crash(s, k, f) ==
    /\ crashes < MaxCrashes
    /\ s \in up /\ (active \cap up) \ {s} # {}
    /\ crashes' = crashes + 1
    /\ up' = up \ {s}
    /\ active' = Deactivated(s)
    /\ log' = [log EXCEPT ![s] = SubSeq(@, 1, k)]
    /\ sn' = [sn EXCEPT ![s] = f]
    /\ informed' = informed \ {s}
    /\ IF s = master
       THEN /\ master' = NULL
            /\ early' = IF up \subseteq informed THEN early ELSE early + 1
            /\ queue' = <<>> /\ jobs' = {}
            /\ idem' = [c \in Client |-> NoRequest]
            /\ call' = [c \in Client |->
                        IF call[c].stage = "sent" THEN [call[c] EXCEPT !.stage = "calling"]
                        ELSE call[c]]
       ELSE UNCHANGED <<master, early, queue, jobs, idem, call>>
    /\ UNCHANGED <<term, lag, got, asks, breaks>>

\* The records of one server are the first of those of another
\* (binlog_check_consistency).
Consistent(r, s) ==
    /\ Len(log[r]) <= Len(log[s])
    /\ \A v \in 1 .. Len(log[r]) : log[r][v] = log[s][v]

\* A stopped server starts again and follows the master; one whose records are not
\* those of the master is refused and exits.
Start(s) ==
    /\ master # NULL /\ s \notin up
    /\ Consistent(s, master)
    /\ up' = up \cup {s}
    /\ lag' = [lag EXCEPT ![s] = 0]
    /\ UNCHANGED <<master, term, active, log, sn, informed, early, queue, jobs, idem,
                   call, got, bounds>>

\* cluster_cmp_server_status: a server with the greatest data version is elected.
Elected(s) == s \in up /\ \A r \in up : Len(log[r]) <= Len(log[s])

\* Wrong variant: no numbers are skipped.
SetMasterKeep(s) ==
    /\ master = NULL /\ Elected(s)
    /\ master' = s /\ term' = term + 1
    /\ lag' = [r \in Server |-> 0]
    /\ active' = {s} /\ informed' = {s}
    /\ UNCHANGED <<up, log, sn, early, queue, jobs, idem, call, got, bounds>>
\* cluster_relationship_set_master, which starts the replication to the slaves anew.
SetMaster(s) ==
    /\ master = NULL /\ Elected(s)
    /\ master' = s /\ term' = term + 1
    /\ sn' = [sn EXCEPT ![s] = @ + Skip]
    /\ lag' = [r \in Server |-> 0]
    /\ active' = {s} /\ informed' = {s}
    /\ UNCHANGED <<up, log, early, queue, jobs, idem, call, got, bounds>>

-----------------------------------------------------------------------------
Init ==
    /\ master = First /\ term = 1
    /\ up = Server /\ active = Server
    /\ log = [s \in Server |-> <<>>]
    /\ sn = [s \in Server |-> Given] /\ lag = [s \in Server |-> 0]
    /\ informed = Server /\ early = 0
    /\ queue = <<>> /\ jobs = {}
    /\ idem = [c \in Client |-> NoRequest]
    /\ call = [c \in Client |-> NoCall]
    /\ got = [c \in Client |-> NoAnswer]
    /\ asks = 0 /\ breaks = 0 /\ crashes = 0

Others ==
    \/ \E c \in Client : Ask(c) \/ Break(c) \/ Repeated(c)
    \/ \E j \in jobs : UpdateDone(j) \/ ReplicaDone(j)
    \/ \E s \in Server : Copy(s) \/ Join(s) \/ Ping(s) \/ Start(s) \/ SetMaster(s)
    \/ \E s \in Server : \E k \in Writable(s), f \in 0 .. sn[s] : Crash(s, k, f)

Next ==
    \/ Others
    \/ \E c \in Client : \/ \E req \in Request : Accept(c, req)
                         \/ \E err \in Errno : Refuse(c, err)
    \/ \E res \in Outcome : Execute(res)

Spec == Init /\ [][Next]_vars

-----------------------------------------------------------------------------
(* Properties. *)
AnyResult == Errno \cup {OK}
Entry == [client : Client, id : Nat, term : Nat, rec : Rec, out : Nat, cached : Nat,
          new : Nat]
Task == [client : Client, id : Nat, req : Request]
Job == [client : Client, id : Nat, stage : {"executed", "pushed"}, err : AnyResult,
        out : Nat, version : Nat]
Registered == [id : Nat, stage : {"none", "dealing", "finished"}, err : AnyResult,
               out : Nat, version : Nat]
CallState == [id : Nat, stage : {"idle", "calling", "sent"}]
Received == [id : Nat, term : Nat, err : AnyResult, out : Nat, version : Nat]

\* The types; only servers that run are active or have heard of the master
\* (set_replication_stage deactivates one that is gone).
TypeOK ==
    /\ master \in Server \cup {NULL} /\ term \in Nat
    /\ up \subseteq Server /\ active \subseteq up
    /\ log \in [Server -> Seq(Entry)]
    /\ sn \in [Server -> Nat] /\ lag \in [Server -> Nat]
    /\ informed \subseteq up /\ early \in Nat
    /\ queue \in Seq(Task) /\ jobs \subseteq Job
    /\ idem \in [Client -> Registered]
    /\ call \in [Client -> CallState] /\ got \in [Client -> Received]
    /\ asks \in Nat /\ breaks \in Nat /\ crashes \in Nat

\* No master executes the same request twice, however often a client sends it: each
\* update in the data of a server comes from another request, or from another term.
\* The network thread has to register a request before the data thread gets it and
\* keep it for as long as its client may repeat it.
ExecutedOnce ==
    \A s \in Server : \A v, w \in 1 .. Len(log[s]) :
        v # w => \/ log[s][v].client # log[s][w].client
                 \/ log[s][v].id # log[s][w].id
                 \/ log[s][v].term # log[s][w].term

\* The answer a client has got is what became of its update, in the data of whoever
\* is the master: an update answered with success is there, with the version and the
\* inode it was executed with (for a hard link, a repeated request is answered with
\* the inode of the link instead of that of the file); one that was answered with an
\* error has left nothing in that term.
AnswerIsTrue ==
    \A c \in Client : master # NULL /\ got[c].id # 0 =>
        LET mine == {v \in 1 .. Len(log[master]) :
                        /\ log[master][v].client = c
                        /\ log[master][v].id = got[c].id
                        /\ log[master][v].term = got[c].term}
        IN  IF got[c].err # OK \/ got[c].version = 0 THEN mine = {}
            ELSE /\ got[c].version \in mine
                 /\ got[c].out \in {log[master][got[c].version].out,
                                    log[master][got[c].version].cached}

\* No inode number is given to two dentries, although a new master starts from a
\* number that it has from its last ping: the numbers it skips are more than those
\* given out since.  This is lost if a new master crashes before the others have
\* heard of the numbers it has skipped to (early).
InodesUnique ==
    early = 0 =>
        \A s \in Server : \A v, w \in 1 .. Len(log[s]) :
            v # w /\ log[s][v].new # 0 => log[s][v].new # log[s][w].new
=============================================================================

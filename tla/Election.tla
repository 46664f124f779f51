------------------------------- MODULE Election -------------------------------
(***************************************************************************)
(* cluster_relationship.c and the relationship messages of                 *)
(* cluster_handler.c: how the servers choose a master, follow it, lose it  *)
(* and find out that there are two.                                        *)
(*                                                                         *)
(* Each server has one relationship thread, which asks the servers for     *)
(* their status one after the other, notifies them one after the other in  *)
(* two phases if it is itself the best candidate, and pings its master     *)
(* otherwise.  A request to another server and its handler are one action: *)
(* the sender waits for the answer.  The network threads of the master     *)
(* join the slaves.                                                        *)
(*                                                                         *)
(* Clocks are left out: a time limit may have passed whenever the code     *)
(* looks.  The data of a server is its version.                            *)
(***************************************************************************)
EXTENDS Integers, FiniteSets, FiniteSetsExt

CONSTANTS Server,       \* the servers, by id, in the order of the array
          NULL,         \* no server
          BROKEN,       \* a connection whose other end is gone
          ForceElection, \* FORCE_MASTER_ELECTION
          Case,         \* the cases a behaviour may be of
          MaxVersion    \* bound: data versions

ASSUME ServerAssumption == Server \subseteq Nat /\ IsFiniteSet(Server)
ASSUME NullAssumption == NULL \notin Server /\ BROKEN \notin Server
ASSUME BoundAssumption == MaxVersion \in Nat

INIT == 0       \* FDIR_SERVER_STATUS_INIT, and _BUILDING
OFFLINE == 21   \* FDIR_SERVER_STATUS_OFFLINE, and _SYNCING
ACTIVE == 23    \* FDIR_SERVER_STATUS_ACTIVE
Status == {INIT, OFFLINE, ACTIVE}

\* A case: what cluster info files may say at first, and the bounds of the crashes, of
\* the requests whose answer is not received, and of the connections that a running
\* server does not get.
ASSUME CaseAssumption ==
    Case \subseteq [saved : SUBSET [is_master : BOOLEAN, status : Status],
                   crashes : Nat, losses : Nat, cuts : Nat]

VARIABLES
    up,         \* the server runs
    data,       \* DATA_CURRENT_VERSION
    status,     \* CLUSTER_MYSELF_PTR->status
    is_master,  \* CLUSTER_MYSELF_PTR->is_master
    saved,      \* the server's own section of its cluster info file
    master,     \* CLUSTER_MASTER_PTR
    next,       \* g_next_master
    thread,     \* the relationship thread
    key,        \* the server that knows this one's replica key
    joined,     \* the slaves a server pushes its binlog to
    case,       \* the case this behaviour is of
    crashes, losses, cuts   \* counted against its bounds

cluster == <<up, data, status, is_master, saved, master, next, joined>>
bounds == <<case, crashes, losses, cuts>>
vars == <<cluster, thread, key, bounds>>

\* FDIRClusterServerStatus.
Candidate == [id : Server, data : 0 .. MaxVersion, is_master : BOOLEAN,
              status : Status]
ASSUME CandidateAssumption == NULL \notin Candidate

\* The relationship thread: where it is, the servers its loop has still to
\* visit, the best status so far (server_status) and how many there were
\* (active_count), success_count > 0, bConnectFail, mconn and fail_count.
Thread == [pc : {"loop", "select", "collect", "preset", "commit"},
           todo : SUBSET Server, best : Candidate \cup {NULL},
           active : 0 .. Cardinality(Server), ok : BOOLEAN,
           connect_fail : BOOLEAN, conn : Server \cup {NULL, BROKEN},
           fails : 0 .. 2]

TypeOK ==
    /\ up \in [Server -> BOOLEAN] /\ data \in [Server -> 0 .. MaxVersion]
    /\ status \in [Server -> Status] /\ is_master \in [Server -> BOOLEAN]
    /\ saved \in [Server -> [is_master : BOOLEAN, status : Status]]
    /\ master \in [Server -> Server \cup {NULL}]
    /\ next \in [Server -> Server \cup {NULL}]
    /\ thread \in [Server -> Thread]
    /\ key \in [Server -> Server \cup {NULL}]
    /\ joined \in [Server -> SUBSET Server]
    /\ case \in Case /\ crashes \in 0 .. case.crashes
    /\ losses \in 0 .. case.losses /\ cuts \in 0 .. case.cuts

IsMaster(s) == up[s] /\ master[s] = s

Idle == [pc |-> "loop", todo |-> {}, best |-> NULL, active |-> 0, ok |-> FALSE,
         connect_fail |-> FALSE, conn |-> NULL, fails |-> 0]

\* No server runs at first.
Init ==
    /\ up = [s \in Server |-> FALSE]
    /\ data \in [Server -> 0 .. MaxVersion]
    /\ case \in Case
    /\ saved \in [Server -> case.saved]
    /\ status = [s \in Server |-> INIT]
    /\ is_master = [s \in Server |-> FALSE]
    /\ master = [s \in Server |-> NULL] /\ next = [s \in Server |-> NULL]
    /\ thread = [s \in Server |-> Idle]
    /\ key = [s \in Server |-> NULL] /\ joined = [s \in Server |-> {}]
    /\ crashes = 0 /\ losses = 0 /\ cuts = 0

Put(f, s, v) == [f EXCEPT ![s] = v]
Goto(s, t) == thread' = Put(thread, s, t)

-----------------------------------------------------------------------------
(* Start, crash and the cluster info file.                                 *)

\* load_servers_from_ini_ctx: who was active is offline.
Start(s) ==
    /\ ~up[s]
    /\ up' = Put(up, s, TRUE)
    /\ is_master' = Put(is_master, s, saved[s].is_master)
    /\ status' = Put(status, s, IF saved[s].status = ACTIVE THEN OFFLINE
                                                  ELSE saved[s].status)
    /\ UNCHANGED <<data, saved, master, next, joined, thread, key, bounds>>

\* Connections to the server are found broken when they are used.
Crash(s) ==
    /\ up[s] /\ crashes < case.crashes /\ crashes' = crashes + 1
    /\ up' = Put(up, s, FALSE)
    /\ master' = Put(master, s, NULL) /\ next' = Put(next, s, NULL)
    /\ thread' = [t \in Server |->
                     IF t = s THEN Idle
                     ELSE IF thread[t].conn = s
                     THEN [thread[t] EXCEPT !.conn = BROKEN]
                     ELSE thread[t]]
    /\ key' = [t \in Server |-> IF t = s \/ key[t] = s THEN NULL ELSE key[t]]
    /\ joined' = [m \in Server |-> IF m = s THEN {} ELSE joined[m] \ {s}]
    /\ UNCHANGED <<data, status, is_master, saved, case, losses, cuts>>

\* cluster_info_write_to_file, as long as a crash may follow.
SaveInfo(s) ==
    LET info == [is_master |-> master[s] = s, status |-> status[s]] IN
    /\ up[s] /\ saved[s] # info /\ crashes < case.crashes
    /\ saved' = Put(saved, s, info)
    /\ UNCHANGED <<up, data, status, is_master, master, next, joined, thread,
                   key, bounds>>

-----------------------------------------------------------------------------
(* What servers do with their own master pointer.                          *)

\* cluster_relationship_set_master.
SetMaster(s, m) ==
    /\ master' = Put(master, s, m)
    /\ is_master' = IF master[s] = m THEN is_master
                                     ELSE Put(is_master, s, s = m)
    /\ status' = IF s = m /\ master[s] # m THEN Put(status, s, ACTIVE)
                                           ELSE status

\* cluster_relationship_pre_set_master: does it succeed, and what becomes of
\* g_next_master.
\*
\* Wrong variant: a conflict is left in place.
PreSetKept(s, m) == [ok |-> next[s] \in {NULL, m},
                     next |-> IF next[s] = NULL THEN m ELSE next[s]]
PreSet(s, m) == [ok |-> next[s] \in {NULL, m},
                 next |-> IF next[s] \in {NULL, m} THEN m ELSE NULL]

\* cluster_relationship_trigger_reselect_master.
Reselect(s) ==
    /\ master' = Put(master, s, NULL)
    /\ is_master' = Put(is_master, s, FALSE)
    /\ joined' = Put(joined, s, {})
    /\ UNCHANGED status

\* cluster_deal_next_master: a master refuses and steps down.
\* Wrong variant: it does not.
NeverRefuses(t, m) == FALSE
Refuses(t, m) == t # m /\ master[t] = t

\* cluster_relationship_commit_master: g_next_master afterwards.
\* Wrong variant: it is kept.
AfterCommitKept(t, m) == next[t]
AfterCommit(t, m) == NULL

\* A request of phase "preset" or "commit" for the candidate m at server t, and
\* whether it succeeds.
Notified(t, m, phase, ok) ==
    IF Refuses(t, m)
    THEN ok = FALSE /\ Reselect(t) /\ UNCHANGED next
    ELSE /\ UNCHANGED joined
         /\ IF phase = "preset"
            THEN /\ ok = PreSet(t, m).ok
                 /\ next' = Put(next, t, PreSet(t, m).next)
                 /\ UNCHANGED <<master, is_master, status>>
            ELSE /\ ok = (next[t] = m)
                 /\ next' = Put(next, t, AfterCommit(t, m))
                 /\ IF next[t] = m THEN SetMaster(t, m)
                    ELSE UNCHANGED <<master, is_master, status>>

-----------------------------------------------------------------------------
(* The relationship thread: choosing a master.                             *)

\* cluster_thread_entrance without a master: cluster_select_master.
SelectMaster(s) ==
    /\ up[s] /\ thread[s].pc = "loop" /\ master[s] = NULL
    /\ Goto(s, [thread[s] EXCEPT !.pc = "select"])
    /\ UNCHANGED <<cluster, key, bounds>>

\* cluster_select_master finds that there is a master.
SelectAbort(s) ==
    /\ up[s] /\ thread[s].pc = "select" /\ master[s] # NULL
    /\ Goto(s, Idle)
    /\ UNCHANGED <<cluster, key, bounds>>

\* One more round of its loop.
SelectRound(s) ==
    /\ up[s] /\ thread[s].pc = "select" /\ master[s] = NULL
    /\ Goto(s, [thread[s] EXCEPT !.pc = "collect", !.todo = Server])
    /\ UNCHANGED <<cluster, key, bounds>>

\* cluster_cmp_server_status.
Better(a, b) ==
    \/ a.data > b.data
    \/ /\ a.data = b.data
       /\ \/ a.is_master /\ ~b.is_master
          \/ /\ a.is_master = b.is_master
             /\ \/ a.status > b.status
                \/ a.status = b.status /\ a.id > b.id

\* cluster_get_server_status and cluster_deal_get_server_status.
StatusOf(t) == [id |-> t, data |-> data[t], is_master |-> is_master[t],
                status |-> status[t]]

\* The loop of cluster_get_master.
GetServerStatus(s) ==
    LET th == thread[s]
        t == Min(th.todo)
        rest == [th EXCEPT !.todo = @ \ {t}]
    IN
    /\ up[s] /\ th.pc = "collect" /\ th.todo # {}
    /\ \/ /\ up[t]
          /\ Goto(s, [rest EXCEPT !.active = @ + 1,
                         !.best = IF @ = NULL \/ Better(StatusOf(t), @)
                                  THEN StatusOf(t) ELSE @])
          /\ UNCHANGED losses
       \/ /\ ~up[t] /\ Goto(s, rest) /\ UNCHANGED losses
       \/ /\ t # s /\ up[t] /\ losses < case.losses
          /\ losses' = losses + 1 /\ Goto(s, rest)
    /\ UNCHANGED <<cluster, key, case, crashes, cuts>>

\* The loop of cluster_select_master ends, or ends because
\* ELECTION_MAX_WAIT_TIME is over.
MustDecide(th) ==
    \/ th.active = Cardinality(Server)
    \/ th.active >= 2 /\ th.best.is_master
MayDecide(th) == MustDecide(th) \/ th.best.status >= OFFLINE \/ ForceElection

\* Wrong variant: active_count is not set anew in every round.
SelectAgainCounting(s) ==
    /\ up[s] /\ thread[s].pc = "collect" /\ thread[s].todo = {}
    /\ ~MustDecide(thread[s])
    /\ Goto(s, [thread[s] EXCEPT !.pc = "select", !.best = NULL])
    /\ UNCHANGED <<cluster, key, bounds>>

SelectAgain(s) ==
    /\ up[s] /\ thread[s].pc = "collect" /\ thread[s].todo = {}
    /\ ~MustDecide(thread[s])
    /\ Goto(s, [thread[s] EXCEPT !.pc = "select", !.best = NULL, !.active = 0])
    /\ UNCHANGED <<cluster, key, bounds>>

\* cluster_select_master after its loop.  bConnectFail is not initialized.
Decide(s) ==
    LET th == thread[s] IN
    /\ up[s] /\ th.pc = "collect" /\ th.todo = {} /\ MayDecide(th)
    /\ \/ /\ master[s] # NULL
          /\ Goto(s, Idle)
          /\ UNCHANGED <<master, is_master, status>>
       \/ /\ master[s] = NULL /\ th.best.id = s
          /\ \E garbage \in BOOLEAN :
                Goto(s, [th EXCEPT !.pc = "preset", !.todo = Server,
                           !.best = NULL, !.active = 0,
                           !.ok = FALSE, !.connect_fail = garbage])
          /\ UNCHANGED <<master, is_master, status>>
       \/ /\ master[s] = NULL /\ th.best.id # s /\ th.best.is_master
          /\ SetMaster(s, th.best.id)
          /\ Goto(s, Idle)
       \/ /\ master[s] = NULL /\ th.best.id # s /\ ~th.best.is_master
          /\ Goto(s, [Idle EXCEPT !.conn = th.conn])
          /\ UNCHANGED <<master, is_master, status>>
    /\ UNCHANGED <<up, data, saved, next, joined, key, bounds>>

-----------------------------------------------------------------------------
(* The relationship thread: becoming the master.                           *)

\* An iteration of a loop of cluster_notify_master_changed has ended.
Continue(s, ok, connect_fail) ==
    LET th == thread[s]
        rest == th.todo \ {Min(th.todo)}
        some == th.ok \/ ok
        Failed == [Idle EXCEPT !.conn = th.conn]
    IN  Goto(s, IF (~ok /\ ~connect_fail) \/ (rest = {} /\ ~some)
                THEN Failed
                ELSE IF rest # {}
                THEN [th EXCEPT !.todo = rest, !.ok = some,
                                !.connect_fail = connect_fail]
                ELSE IF th.pc = "preset"
                THEN [th EXCEPT !.pc = "commit", !.todo = Server, !.ok = FALSE,
                                !.connect_fail = connect_fail]
                ELSE Idle)

Notifying(s) == up[s] /\ thread[s].pc \in {"preset", "commit"}
Target(s) == Min(thread[s].todo)

\* The server is reached, or it is this one, which leaves bConnectFail alone.
Notify(s) ==
    /\ Notifying(s) /\ up[Target(s)]
    /\ \E ok \in BOOLEAN :
          /\ Notified(Target(s), s, thread[s].pc, ok)
          /\ Continue(s, ok, Target(s) = s /\ thread[s].connect_fail)
    /\ UNCHANGED <<up, data, saved, key, bounds>>

NotifyConnectFail(s) ==
    /\ Notifying(s) /\ Target(s) # s
    /\ IF up[Target(s)] THEN cuts < case.cuts /\ cuts' = cuts + 1 ELSE cuts' = cuts
    /\ Continue(s, FALSE, TRUE)
    /\ UNCHANGED <<cluster, key, case, crashes, losses>>

\* The server is reached, but its answer or the request itself is not.
NotifyLost(s) ==
    /\ Notifying(s) /\ Target(s) # s /\ up[Target(s)]
    /\ losses < case.losses /\ losses' = losses + 1
    /\ \/ \E ok \in BOOLEAN : Notified(Target(s), s, thread[s].pc, ok)
       \/ UNCHANGED <<master, is_master, status, next, joined>>
    /\ Continue(s, FALSE, FALSE)
    /\ UNCHANGED <<up, data, saved, key, case, crashes, cuts>>

-----------------------------------------------------------------------------
(* The relationship thread: following a master.                            *)

\* Which server a ping goes to: the connection that is open, whoever the master
\* is, or the master.
PingTarget(s) == IF thread[s].conn = NULL THEN master[s] ELSE thread[s].conn

\* Pinged, and joined before if there was no connection.
MayPing(s) == PingTarget(s) # BROKEN /\ IsMaster(PingTarget(s))

Pinging(s) == /\ up[s] /\ thread[s].pc = "loop"
              /\ master[s] \notin {NULL, s}

\* The answer brings the master's view of this server's status.
PingMaster(s) ==
    /\ Pinging(s) /\ MayPing(s)
    /\ Goto(s, [thread[s] EXCEPT !.conn = PingTarget(s), !.fails = 0])
    /\ key' = IF thread[s].conn = NULL THEN Put(key, s, master[s]) ELSE key
    /\ \E st \in {status[s], OFFLINE, ACTIVE} :
          /\ st = ACTIVE => s \in joined[PingTarget(s)]
          /\ status' = Put(status, s, st)
    /\ UNCHANGED <<up, data, is_master, saved, master, next, joined, bounds>>

\* A ping, or the answer to it, is lost if the master is there.
Unanswered(s) ==
    /\ Pinging(s)
    /\ IF MayPing(s) THEN losses < case.losses /\ losses' = losses + 1
                     ELSE UNCHANGED losses

\* fail_count is only compared with 1.
PingFail(s) ==
    /\ Unanswered(s)
    /\ Goto(s, [thread[s] EXCEPT !.conn = NULL, !.fails = Min({2, @ + 1})])
    /\ UNCHANGED <<cluster, key, case, crashes, cuts>>

\* ELECTION_MASTER_LOST_TIMEOUT has passed: cluster_unset_master.
MasterLost(s) ==
    /\ Unanswered(s) /\ thread[s].fails >= 1
    /\ master' = Put(master, s, NULL)
    /\ Goto(s, [thread[s] EXCEPT !.conn = NULL, !.fails = 0])
    /\ UNCHANGED <<up, data, status, is_master, saved, next, joined, key,
                   case, crashes, cuts>>

-----------------------------------------------------------------------------
(* The master and its slaves.                                              *)

\* The master joins a slave: cluster_deal_join_slave_req at the slave.
JoinSlave(m, t) ==
    /\ IsMaster(m) /\ up[t] /\ t # m /\ t \notin joined[m]
    /\ next[t] = NULL /\ master[t] = m /\ key[t] = m
    /\ \A x \in Server : t \notin joined[x]
    /\ joined' = Put(joined, m, joined[m] \cup {t})
    /\ UNCHANGED <<up, data, status, is_master, saved, master, next, thread,
                   key, bounds>>

\* ... refuses it because it knows of another one: cluster_deal_slave_ack.
JoinInconsistent(m, t) ==
    /\ IsMaster(m) /\ up[t] /\ t # m /\ t \notin joined[m]
    /\ \/ next[t] \notin {NULL, m}
       \/ next[t] = NULL /\ master[t] \notin {NULL, m}
    /\ Reselect(m)
    /\ UNCHANGED <<up, data, saved, next, thread, key, bounds>>

\* Updates reach the master, and the slaves it has joined.
Update(m) ==
    /\ IsMaster(m) /\ data[m] < MaxVersion
    /\ data' = Put(data, m, data[m] + 1)
    /\ UNCHANGED <<up, status, is_master, saved, master, next, joined, thread,
                   key, bounds>>

Replicate(m, t) ==
    /\ IsMaster(m) /\ t \in joined[m] /\ data[t] < data[m]
    /\ data' = Put(data, t, data[m])
    /\ UNCHANGED <<up, status, is_master, saved, master, next, joined, thread,
                   key, bounds>>

-----------------------------------------------------------------------------
Elect(s) == \/ SelectMaster(s) \/ SelectAbort(s) \/ SelectRound(s)
            \/ GetServerStatus(s) \/ SelectAgain(s) \/ Decide(s)
            \/ Notify(s) \/ NotifyConnectFail(s) \/ NotifyLost(s)
Follow(s) == PingMaster(s) \/ PingFail(s) \/ MasterLost(s)
Lead(m) == Update(m) \/ \E t \in Server : \/ JoinSlave(m, t)
                                          \/ JoinInconsistent(m, t)
                                          \/ Replicate(m, t)

Next == \E s \in Server : \/ Start(s) \/ Crash(s) \/ SaveInfo(s)
                          \/ Elect(s) \/ Follow(s) \/ Lead(s)

Spec == Init /\ [][Next]_vars

\* Threads run, servers are started again, and time passes: the limits of the
\* election and of the wait for a lost master come to their end.
FairSpec ==
    /\ Spec
    /\ \A s \in Server :
          /\ WF_vars(Start(s)) /\ WF_vars(Elect(s)) /\ SF_vars(Decide(s))
          /\ WF_vars(PingMaster(s)) /\ WF_vars(PingFail(s))
          /\ WF_vars(MasterLost(s))
    /\ \A m, t \in Server : WF_vars(JoinSlave(m, t) \/ JoinInconsistent(m, t))

-----------------------------------------------------------------------------
(* Properties.                                                             *)

\* As long as every running server can be connected to, no two servers take
\* themselves for the master, whichever crash, restart or lose requests while
\* several of them select, pre-set and commit at once
\* (cluster_notify_master_changed, cluster_deal_next_master).
AtMostOneMaster ==
    cuts = 0 => \A a, b \in Server : IsMaster(a) /\ IsMaster(b) => a = b

\* However the election goes, in the end every server runs and has the same
\* master (cluster_thread_entrance).
EventuallyFollowed ==
    <>[](\E m \in Server : \A s \in Server : up[s] /\ master[s] = m)

\* In the end one master pushes its binlog to all the others
\* (cluster_deal_join_slave_req).
EventuallyJoined ==
    <>[](\E m \in Server : IsMaster(m) /\ joined[m] = Server \ {m})

\* This is so as long as no request is lost on an open connection and every running
\* server can be connected to: the one way to be kept out of the replication for ever
\* is a lost commit.
JoinedUnlessLost == <>(losses > 0 \/ cuts > 0) \/ EventuallyJoined
=============================================================================

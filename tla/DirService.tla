------------------------------ MODULE DirService ------------------------------
(***************************************************************************)
(* Service with the directory tree: the requests are parsed (Requests), the *)
(* data thread of the master executes them on its tree (Dentry), and those  *)
(* of the slaves replay the records on theirs.  The namespace is in memory  *)
(* (no storage engine).                                                     *)
(***************************************************************************)
EXTENDS Service, Requests, Hierarchy

CONSTANTS Calls,    \* what clients ask for
          Boot      \* requests executed before, from which every server has the tree

VARIABLES tree,     \* by server: its namespace
          asked     \* by client: the request of the call in progress

dirvars == <<vars, tree, asked>>

\* The record objects are used again and again.
Leftovers == {[by |-> "fullname", path |-> q.path] : q \in {x \in Calls : x.by = "fullname"}}
                \cup {[by |-> "inode", path |-> <<>>]}

\* The fields of a record.
Records == [op : STRING, by : STRING, inode : Nat, parent : Nat, name : STRING,
            kind : STRING, link : BOOLEAN, src : Nat, from : Nat, from_name : STRING,
            flags : STRING, val : Nat, inc_alloc : Int, xattr : STRING,
            path : Seq(STRING), src_path : Seq(STRING)]

-----------------------------------------------------------------------------
\* The tree after Boot, with its records; inodes are numbered from 1.
Freed(r) == Free(r.t, r.gone)
Grow(b, r) == [b EXCEPT !.t = Freed(r), !.log = Append(@, Packed(r.rec))]
Grown(b, req) ==
    Grow(b, Apply(b.t, NoPieces, Parse(req, [by |-> "inode", path |-> <<>>]).rec,
                  Len(b.log) + 1))
Booted == FoldLeft(Grown, [t |-> NoTree, log |-> <<>>], Boot)

BootHistory == History(Booted.log)

\* The tree that replaying records makes of t.
Redo(b, rec) == [b EXCEPT !.t = Freed(Apply(@, NoPieces, rec, 0))]
Replayed(t, recs) == FoldLeft(Redo, [t |-> t], recs).t

\* The first master has executed the requests, the others their records.
BootReplayed == Replayed(NoTree, Booted.log)

DirInit ==
    /\ Init
    /\ tree = [s \in Server |-> IF s = First THEN Booted.t ELSE BootReplayed]
    /\ asked = [c \in Client |-> Call]

DirAsk(c) ==
    /\ Ask(c)
    /\ \E req \in Calls : asked' = [asked EXCEPT ![c] = req]
    /\ UNCHANGED tree

DirAccept(c) ==
    /\ \E left \in IF asked[c].by = "inode" THEN Leftovers
                   ELSE {[by |-> "inode", path |-> <<>>]} :
         LET p == Parse(asked[c], left)
         IN  IF p.err = OK THEN Accept(c, p.rec) ELSE Refuse(c, p.err)
    /\ UNCHANGED <<tree, asked>>

\* A size that is set and stays as it is gets no version.
DirExecute ==
    /\ queue # <<>>
    /\ LET req == Head(queue).req
       IN  \E r \in {Apply(tree[master], NoPieces, req, sn[master] + 1)} :
             LET ok == r.err = OK
             IN  /\ Execute([err |-> r.err, changes |-> Recorded(req, r),
                             taken |-> ok /\ req.op = "create", rec |-> Packed(r.rec),
                             out |-> IF ok THEN StatOutput(r) ELSE 0,
                             cached |-> IF ok THEN Responded(r) ELSE 0])
                 /\ tree' = [tree EXCEPT ![master] = Freed(r)]
    /\ UNCHANGED asked

\* A replayed record ends with success, or with the error that says that it has been
\* executed before.
DirCopy(s) ==
    /\ Copy(s)
    /\ tree' = [tree EXCEPT ![s] = Replayed(@, <<log[master][Len(log[s]) + 1].rec>>)]
    /\ UNCHANGED asked

\* A server that starts again has the tree of its binlog.
DirCrash(s, k) ==
    /\ Crash(s, k, sn[s])
    /\ tree' = [tree EXCEPT ![s] = Replayed(BootReplayed, [v \in 1 .. k |-> log[s][v].rec])]
    /\ UNCHANGED asked

DirNext ==
    \/ \E c \in Client : DirAsk(c) \/ DirAccept(c)
    \/ \E c \in Client : (Break(c) \/ Repeated(c)) /\ UNCHANGED <<tree, asked>>
    \/ \E j \in jobs : (UpdateDone(j) \/ ReplicaDone(j)) /\ UNCHANGED <<tree, asked>>
    \/ DirExecute
    \/ \E s \in Server : DirCopy(s)
    \/ \E s \in Server : /\ Join(s) \/ Ping(s) \/ Start(s) \/ SetMaster(s)
                         /\ UNCHANGED <<tree, asked>>
    \/ \E s \in Server : \E k \in Writable(s) : DirCrash(s, k)

(* Threads go on as long as they can, a client repeats its request, and an      *)
(* active server takes over.  The steps are named by the variable that shows     *)
(* them, under the guards of the actions.                                       *)
SendRuns(c) ==
    /\ Sends(c)
    /\ \/ ~Known(c) /\ call' = [call EXCEPT ![c].stage = "sent"]
       \/ /\ Known(c) => idem[c].stage = "finished"
          /\ call' = [call EXCEPT ![c].stage = "idle"]
CopyRuns(s) ==
    LET v == Len(log[s]) + 1
    IN  /\ master # NULL /\ s \in up \ {master} /\ v <= Len(log[master])
        /\ \A j \in jobs : j.stage = "executed" => j.version # v
        /\ log' = [log EXCEPT ![s] = Append(@, log[master][v])]
Fairness ==
    /\ WF_queue(queue # <<>> /\ Rate /\ queue' = Tail(queue))
    /\ WF_master(\E s \in up : master = NULL /\ Elected(s) /\ master' = s)
    /\ \A c \in Client : /\ WF_call(SendRuns(c))
                         /\ WF_jobs(\E j \in jobs : /\ j.client = c
                                                    /\ UpdateDone(j) \/ ReplicaDone(j))
    /\ \A s \in Server : WF_log(CopyRuns(s))

DirSpec == DirInit /\ [][DirNext]_dirvars /\ Fairness

-----------------------------------------------------------------------------
(* Properties. *)

\* Every call gets an answer, although connections break and the master or a slave
\* may stop: no request waits for a slave that is gone, is taken for one in progress
\* after it has ended, or is left in a queue.
EventuallyAnswered == \A c \in Client : call[c].stage # "idle" ~> call[c].stage = "idle"

\* The tree of every server, master or slave, shows what the records in its log say,
\* link counts and usage included: a slave that replays records by inode, and a
\* server that starts from its binlog, come to the tree the master has made from
\* paths.
TreeIsHistory ==
    \A p \in {<<[v \in DOMAIN log[s] |-> log[s][v].rec], tree[s]>> : s \in Server} :
        LET h == FoldLeft(Effect, BootHistory, p[1])
            t == p[2]
        IN  /\ Shown(t) = Visible(h)
            /\ [dirs |-> t.dirs, files |-> t.files, used |-> t.used] = Totals(h)
=============================================================================

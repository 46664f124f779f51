--------------------------- MODULE ElectionProofs ---------------------------
(***************************************************************************)
(* Type correctness of the election, and that it never makes two masters   *)
(* as long as every running server can be connected to, for any number of  *)
(* servers.                                                                *)
(***************************************************************************)
EXTENDS Election, FiniteSetTheorems, WellFoundedInduction, TLAPS

-----------------------------------------------------------------------------
(* The inductive invariant.                                                *)

\* A server that does not run has neither a master nor an election going on.
DownIdle == \A s \in Server : ~up[s] => master[s] = NULL /\ thread[s].pc = "loop"

\* cluster_get_master: active_count is at most the number of servers asked, and the
\* server itself is among those that answered.
CollectedBy(s, th) ==
    /\ th.pc # "collect" => th.active = 0
    /\ th.pc \in {"loop", "select"} => th.best = NULL
    /\ th.pc = "collect" =>
          /\ th.active + Cardinality(th.todo) <= Cardinality(Server)
          /\ s \notin th.todo => th.best # NULL
Collected == \A s \in Server : CollectedBy(s, thread[s])

\* cluster_notify_master_changed goes through the servers in their order ...
InOrder ==
    \A s \in Server : thread[s].pc \in {"preset", "commit"} =>
        /\ thread[s].todo # {}
        /\ \A x \in thread[s].todo, y \in Server : x <= y => y \in thread[s].todo

\* ... and a server is not its own master before it has come to itself.
NotBefore ==
    \A s \in Server :
        \/ thread[s].pc = "preset"
        \/ thread[s].pc = "commit" /\ s \in thread[s].todo
        => master[s] # s

\* Server s still is the candidate it has pre-set itself to.
Standing(s) == up[s] /\ next[s] = s

\* Server b has become the master, or may, and has sent the commit to a.
Committed(b, a) ==
    \/ IsMaster(b)
    \/ Standing(b) /\ thread[b].pc = "commit" /\ a \notin thread[b].todo

\* Server a has become the master, or may, and has pre-set itself at b.
Announced(a, b) ==
    \/ IsMaster(a)
    \/ Standing(a) /\ thread[a].pc = "commit"
    \/ Standing(a) /\ thread[a].pc = "preset" /\ b \notin thread[a].todo

\* Of two servers the later one never gets past the earlier one with its commit while
\* the earlier one has announced itself to it.
NoRival ==
    cuts = 0 => \A a, b \in Server : a < b => ~(Committed(b, a) /\ Announced(a, b))

IInv == TypeOK /\ DownIdle /\ Collected /\ InOrder /\ NotBefore /\ NoRival

-----------------------------------------------------------------------------
(* Facts about the servers and their threads.                              *)

\* A set of servers that is not empty has a first one.
LEMMA First ==
    ASSUME NEW S, S \subseteq Server, S # {}
    PROVE  Min(S) \in S /\ \A y \in S : Min(S) <= y
<1>1. S \subseteq Nat
  BY Zenon, ServerAssumption
<1>2. PICK x \in S : \A y \in S : ~(<<y, x>> \in OpToRel(<, Nat))
  BY Zenon, <1>1, NatLessThanWellFounded, WFMin
<1>3. \A y \in S : x <= y
  <2> SUFFICES ASSUME NEW y \in S, y < x PROVE FALSE
    BY <1>1
  <2>1. <<y, x>> \in Nat \X Nat /\ <<y, x>>[1] = y /\ <<y, x>>[2] = x
    BY Zenon, <1>1
  <2>2. <<y, x>> \in {ss \in Nat \X Nat : ss[1] < ss[2]}
    BY Zenon, <2>1
  <2> QED BY Zenon, <1>2, <2>2 DEF OpToRel
<1> QED BY Zenon, <1>3 DEF Min

\* The record a thread becomes is a thread.
LEMMA ThreadTypes ==
    ASSUME TypeOK, NEW s \in Server
    PROVE  /\ thread[s] \in Thread /\ Idle \in Thread
           /\ [Idle EXCEPT !.conn = thread[s].conn] \in Thread
<1>1. Idle \in Thread
  <2>1. Cardinality(Server) \in Nat
    BY Zenon, ServerAssumption, FS_CardinalityType
  <2> QED BY <2>1 DEF Idle, Thread
<1>2. thread \in [Server -> Thread]
  BY Zenon DEF TypeOK
<1>3. [Idle EXCEPT !.conn = thread[s].conn] \in Thread
  BY Zenon, <1>1, <1>2 DEF Thread
<1> QED BY Zenon, <1>1, <1>2, <1>3

\* A status that is collected.
LEMMA StatusType == ASSUME TypeOK, NEW t \in Server PROVE StatusOf(t) \in Candidate
BY Zenon DEF TypeOK, StatusOf, Candidate

\* cluster_relationship_set_master keeps the types.
LEMMA SetMasterType ==
    ASSUME TypeOK, NEW s \in Server, NEW m \in Server, SetMaster(s, m)
    PROVE  /\ master' \in [Server -> Server \cup {NULL}]
           /\ is_master' \in [Server -> BOOLEAN] /\ status' \in [Server -> Status]
<1>1. master' \in [Server -> Server \cup {NULL}]
  BY Zenon DEF TypeOK, SetMaster, Put
<1>2. is_master' \in [Server -> BOOLEAN]
  <2>1. Put(is_master, s, s = m) \in [Server -> BOOLEAN]
    BY Zenon DEF TypeOK, Put
  <2> QED BY Zenon, <2>1 DEF TypeOK, SetMaster
<1>3. status' \in [Server -> Status]
  <2>1. Put(status, s, ACTIVE) \in [Server -> Status]
    BY Zenon DEF TypeOK, Put, Status
  <2> QED BY Zenon, <2>1 DEF TypeOK, SetMaster
<1> QED BY Zenon, <1>1, <1>2, <1>3

\* cluster_relationship_trigger_reselect_master keeps the types.
LEMMA ReselectType ==
    ASSUME TypeOK, NEW s \in Server, Reselect(s)
    PROVE  /\ master' \in [Server -> Server \cup {NULL}]
           /\ is_master' \in [Server -> BOOLEAN] /\ status' \in [Server -> Status]
           /\ joined' \in [Server -> SUBSET Server]
BY Zenon DEF TypeOK, Reselect, Put

\* A request of either phase keeps the types.
LEMMA NotifiedType ==
    ASSUME TypeOK, NEW t \in Server, NEW m \in Server, NEW phase, NEW ok,
           Notified(t, m, phase, ok)
    PROVE  /\ master' \in [Server -> Server \cup {NULL}]
           /\ next' \in [Server -> Server \cup {NULL}]
           /\ is_master' \in [Server -> BOOLEAN] /\ status' \in [Server -> Status]
           /\ joined' \in [Server -> SUBSET Server]
<1>1. CASE Refuses(t, m)
  <2>1. Reselect(t) /\ next' = next
    BY Zenon, <1>1 DEF Notified
  <2> QED BY Zenon, <2>1, ReselectType DEF TypeOK
<1>2. CASE ~Refuses(t, m)
  <2>1. joined' = joined
    BY Zenon, <1>2 DEF Notified
  <2>2. PreSet(t, m).next \in Server \cup {NULL} /\ AfterCommit(t, m) = NULL
    BY Zenon DEF PreSet, AfterCommit
  <2>3. next' \in [Server -> Server \cup {NULL}]
    <3>1. \E n \in Server \cup {NULL} : next' = Put(next, t, n)
      BY Zenon, <1>2, <2>2 DEF Notified
    <3> QED BY Zenon, <3>1 DEF TypeOK, Put
  <2>4. SetMaster(t, m) \/ UNCHANGED <<master, is_master, status>>
    BY Zenon, <1>2 DEF Notified
  <2> QED BY Zenon, <2>1, <2>3, <2>4, SetMasterType DEF TypeOK
<1> QED BY Zenon, <1>1, <1>2

\* So does the end of an iteration of cluster_notify_master_changed.
LEMMA ContinueType ==
    ASSUME TypeOK, NEW s \in Server, NEW ok \in BOOLEAN, NEW cf \in BOOLEAN,
           Continue(s, ok, cf)
    PROVE  thread' \in [Server -> Thread]
<1> DEFINE th == thread[s]
           rest == th.todo \ {Min(th.todo)}
           some == th.ok \/ ok
           Failed == [Idle EXCEPT !.conn = th.conn]
           More == [th EXCEPT !.todo = rest, !.ok = some, !.connect_fail = cf]
           Commit == [th EXCEPT !.pc = "commit", !.todo = Server, !.ok = FALSE,
                                !.connect_fail = cf]
<1>1. th \in Thread /\ Idle \in Thread /\ Failed \in Thread
  BY Zenon, ThreadTypes
<1>2. rest \in SUBSET Server /\ some \in BOOLEAN
  BY Zenon, <1>1 DEF Thread
<1>3. More \in Thread /\ Commit \in Thread
  <2>1. More \in Thread
    BY Zenon, <1>1, <1>2 DEF Thread
  <2>2. Commit \in Thread
    BY Zenon, <1>1 DEF Thread
  <2> QED BY Zenon, <2>1, <2>2
<1>4. \E t \in {Failed, More, Commit, Idle} : thread' = Put(thread, s, t)
  BY Zenon DEF Continue, Goto
<1>5. \E t \in Thread : thread' = Put(thread, s, t)
  <2> HIDE DEF Failed, More, Commit
  <2> QED BY Zenon, <1>1, <1>3, <1>4
<1> QED BY Zenon, <1>5 DEF TypeOK, Put

\* Every step of an election keeps the types.
LEMMA TypeElect ==
    ASSUME IInv, NEW s \in Server, Elect(s)
    PROVE  TypeOK'
<1>0. TypeOK
  BY Zenon DEF IInv
<1> DEFINE th == thread[s]
<1>1. th \in Thread /\ Idle \in Thread /\ [Idle EXCEPT !.conn = th.conn] \in Thread
  BY Zenon, <1>0, ThreadTypes
<1>2. Cardinality(Server) \in Nat /\ 0 \in 0 .. Cardinality(Server)
  BY ServerAssumption, FS_CardinalityType
<1>3. CASE SelectMaster(s)
  <2>1. [th EXCEPT !.pc = "select"] \in Thread
    BY Zenon, <1>1 DEF Thread
  <2> QED BY Zenon, <1>0, <1>3, <2>1 DEF SelectMaster, TypeOK, Goto, Put, cluster, bounds
<1>4. CASE SelectAbort(s)
  BY Zenon, <1>0, <1>1, <1>4 DEF SelectAbort, TypeOK, Goto, Put, cluster, bounds
<1>5. CASE SelectRound(s)
  <2>1. [th EXCEPT !.pc = "collect", !.todo = Server] \in Thread
    BY Zenon, <1>1 DEF Thread
  <2> QED BY Zenon, <1>0, <1>5, <2>1 DEF SelectRound, TypeOK, Goto, Put, cluster, bounds
<1>6. CASE SelectAgain(s)
  <2>1. [th EXCEPT !.pc = "select", !.best = NULL, !.active = 0] \in Thread
    BY Zenon, <1>1, <1>2 DEF Thread
  <2> QED BY Zenon, <1>0, <1>6, <2>1 DEF SelectAgain, TypeOK, Goto, Put, cluster, bounds
<1>7. CASE GetServerStatus(s)
  <2> DEFINE t == Min(th.todo)
             rest == [th EXCEPT !.todo = @ \ {t}]
             best == IF rest.best = NULL \/ Better(StatusOf(t), rest.best)
                     THEN StatusOf(t) ELSE rest.best
  <2>1. t \in th.todo /\ t \in Server /\ th.todo \subseteq Server
    BY Zenon, <1>1, <1>7, First DEF GetServerStatus, Thread
  <2>2. rest \in Thread
    BY Zenon, <1>1 DEF Thread
  <2>3. rest.active + 1 \in 0 .. Cardinality(Server)
    <3>1. IsFiniteSet(th.todo) /\ Cardinality(th.todo) \in Nat /\ Cardinality(th.todo) # 0
      BY Zenon, <2>1, ServerAssumption, FS_Subset, FS_CardinalityType, FS_EmptySet
    <3>2. th.active \in Nat /\ rest.active = th.active
      BY <1>1, <1>2 DEF Thread
    <3>3. th.active + Cardinality(th.todo) <= Cardinality(Server)
      BY Zenon, <1>7 DEF IInv, Collected, CollectedBy, GetServerStatus
    <3> QED BY <1>2, <3>1, <3>2, <3>3
  <2>4. best \in Candidate \cup {NULL}
    <3>1. StatusOf(t) \in Candidate /\ rest.best \in Candidate \cup {NULL}
      BY Zenon, <1>0, <2>1, <2>2, StatusType DEF Thread
    <3> QED BY Zenon, <3>1
  <2>5. [rest EXCEPT !.active = rest.active + 1, !.best = best] \in Thread
    BY Zenon, <2>2, <2>3, <2>4 DEF Thread
  <2>6. /\ \E x \in Thread : thread' = Put(thread, s, x)
        /\ losses' = losses \/ (losses' = losses + 1 /\ losses < case.losses)
        /\ UNCHANGED <<cluster, key, case, crashes, cuts>>
    BY Zenon, <1>7, <2>2, <2>5 DEF GetServerStatus, Goto
  <2>7. losses' \in 0 .. case.losses
    <3>1. case.losses \in Nat /\ losses \in 0 .. case.losses
      BY Zenon, <1>0, CaseAssumption DEF TypeOK
    <3>2. losses' = losses \/ (losses' = losses + 1 /\ losses < case.losses)
      BY Zenon, <2>6
    <3> QED BY <3>1, <3>2
  <2>8. thread' \in [Server -> Thread]
    BY Zenon, <1>0, <2>6 DEF TypeOK, Put
  <2> QED BY Zenon, <1>0, <2>6, <2>7, <2>8 DEF TypeOK, cluster
<1>8. CASE Decide(s)
  <2>1. /\ \E x \in Thread : thread' = Put(thread, s, x)
        /\ UNCHANGED <<up, data, saved, next, joined, key, bounds>>
    <3>1. \A g \in BOOLEAN : [th EXCEPT !.pc = "preset", !.todo = Server, !.best = NULL,
                                 !.active = 0, !.ok = FALSE, !.connect_fail = g] \in Thread
      BY Zenon, <1>1, <1>2 DEF Thread
    <3> QED BY Zenon, <1>1, <1>8, <3>1 DEF Decide, Goto
  <2>2. \/ UNCHANGED <<master, is_master, status>>
        \/ SetMaster(s, th.best.id) /\ th.best.id \in Server
    <3>1. th.best \in Candidate
      BY ZenonT(30), <1>1, <1>8 DEF Decide, Thread, IInv, Collected, CollectedBy
    <3> QED BY Zenon, <1>8, <3>1 DEF Decide, Candidate
  <2>3. /\ master' \in [Server -> Server \cup {NULL}]
        /\ is_master' \in [Server -> BOOLEAN] /\ status' \in [Server -> Status]
    BY Zenon, <1>0, <2>2, SetMasterType DEF TypeOK
  <2> QED BY Zenon, <1>0, <2>1, <2>3 DEF TypeOK, Put, bounds
<1>9. ASSUME Notifying(s) PROVE Target(s) \in Server
  BY Zenon, <1>1, <1>9, First DEF Notifying, Target, IInv, InOrder, Thread
<1>10. CASE Notify(s)
  <2>1. PICK ok \in BOOLEAN :
           /\ Notified(Target(s), s, thread[s].pc, ok)
           /\ Continue(s, ok, Target(s) = s /\ thread[s].connect_fail)
    BY Zenon, <1>10 DEF Notify
  <2>2. Target(s) \in Server /\ (Target(s) = s /\ th.connect_fail) \in BOOLEAN
    BY Zenon, <1>1, <1>9, <1>10 DEF Notify
  <2>3. thread' \in [Server -> Thread]
    BY Zenon, <1>0, <2>1, <2>2, ContinueType
  <2> QED BY Zenon, <1>0, <1>10, <2>1, <2>2, <2>3, NotifiedType DEF TypeOK, Notify, bounds
<1>11. CASE NotifyConnectFail(s)
  <2>1. thread' \in [Server -> Thread]
    BY Zenon, <1>0, <1>11, ContinueType DEF NotifyConnectFail
  <2> QED BY <1>0, <1>11, <2>1, CaseAssumption DEF TypeOK, NotifyConnectFail, cluster
<1>12. CASE NotifyLost(s)
  <2>1. thread' \in [Server -> Thread]
    BY Zenon, <1>0, <1>12, ContinueType DEF NotifyLost
  <2>2. losses' \in 0 .. case.losses
    BY <1>0, <1>12, CaseAssumption DEF NotifyLost, TypeOK
  <2>3. /\ master' \in [Server -> Server \cup {NULL}]
        /\ next' \in [Server -> Server \cup {NULL}]
        /\ is_master' \in [Server -> BOOLEAN] /\ status' \in [Server -> Status]
        /\ joined' \in [Server -> SUBSET Server]
    BY Zenon, <1>0, <1>9, <1>12, NotifiedType DEF NotifyLost, TypeOK
  <2> QED BY Zenon, <1>0, <1>12, <2>1, <2>2, <2>3 DEF TypeOK, NotifyLost
<1> QED BY Zenon, <1>3, <1>4, <1>5, <1>6, <1>7, <1>8, <1>10, <1>11, <1>12 DEF Elect

\* Starting, stopping, following and leading keep the types.
LEMMA TypeOther ==
    ASSUME IInv, NEW s \in Server,
           Start(s) \/ Crash(s) \/ SaveInfo(s) \/ Follow(s) \/ Lead(s)
    PROVE  TypeOK'
<1>0. TypeOK
  BY Zenon DEF IInv
<1>1. thread[s] \in Thread /\ Idle \in Thread
  BY Zenon, <1>0, ThreadTypes
<1>2. CASE Start(s)
  <2>1. saved[s].is_master \in BOOLEAN /\ saved[s].status \in Status
    BY Zenon, <1>0 DEF TypeOK
  <2>2. (IF saved[s].status = ACTIVE THEN OFFLINE ELSE saved[s].status) \in Status
    BY Zenon, <2>1 DEF Status
  <2> QED BY Zenon, <1>0, <1>2, <2>1, <2>2 DEF Start, TypeOK, Put, bounds
<1>3. CASE Crash(s)
  <2>1. \A t \in Server : [thread[t] EXCEPT !.conn = BROKEN] \in Thread
    <3> SUFFICES ASSUME NEW t \in Server PROVE [thread[t] EXCEPT !.conn = BROKEN] \in Thread
      BY Zenon
    <3>1. thread[t] \in Thread
      BY Zenon, <1>0, ThreadTypes
    <3> QED BY Zenon, <3>1 DEF Thread
  <2>2. thread' \in [Server -> Thread]
    BY Zenon, <1>0, <1>1, <1>3, <2>1 DEF Crash, TypeOK
  <2>3. crashes' \in 0 .. case.crashes
    BY <1>0, <1>3, CaseAssumption DEF Crash, TypeOK
  <2>4. key' \in [Server -> Server \cup {NULL}] /\ joined' \in [Server -> SUBSET Server]
    BY Zenon, <1>0, <1>3 DEF Crash, TypeOK
  <2>5. /\ up' \in [Server -> BOOLEAN] /\ master' \in [Server -> Server \cup {NULL}]
        /\ next' \in [Server -> Server \cup {NULL}]
    BY Zenon, <1>0, <1>3 DEF Crash, TypeOK, Put
  <2> QED BY Zenon, <1>0, <1>3, <2>2, <2>3, <2>4, <2>5 DEF Crash, TypeOK
<1>4. CASE SaveInfo(s)
  <2>1. [is_master |-> master[s] = s, status |-> status[s]]
           \in [is_master : BOOLEAN, status : Status]
    BY Zenon, <1>0 DEF TypeOK
  <2> QED BY Zenon, <1>0, <1>4, <2>1 DEF SaveInfo, TypeOK, Put, bounds
<1>5. CASE PingMaster(s)
  <2>1. PingTarget(s) \in Server
    BY <1>0, <1>1, <1>5, NullAssumption
       DEF PingMaster, Pinging, MayPing, PingTarget, TypeOK, Thread
  <2>2. [thread[s] EXCEPT !.conn = PingTarget(s), !.fails = 0] \in Thread
    <3>1. 0 \in 0 .. 2
      OBVIOUS
    <3> QED BY Zenon, <1>1, <2>1, <3>1 DEF Thread
  <2>3. thread' \in [Server -> Thread]
    BY Zenon, <1>0, <1>5, <2>2 DEF PingMaster, Goto, Put, TypeOK
  <2>4. status' \in [Server -> Status]
    BY Zenon, <1>0, <1>5 DEF PingMaster, Put, TypeOK, Status
  <2>5. key' \in [Server -> Server \cup {NULL}]
    BY Zenon, <1>0, <1>5 DEF PingMaster, Put, TypeOK
  <2> QED BY Zenon, <1>0, <1>5, <2>3, <2>4, <2>5 DEF PingMaster, TypeOK, bounds
<1>6. ASSUME Unanswered(s) PROVE losses' \in 0 .. case.losses
  BY <1>0, <1>6, CaseAssumption DEF Unanswered, TypeOK
<1>7. CASE PingFail(s)
  <2>1. Min({2, thread[s].fails + 1}) \in 0 .. 2
    <3>1. thread[s].fails \in 0 .. 2
      BY Zenon, <1>1 DEF Thread
    <3>2. \E x \in {2, thread[s].fails + 1} : \A y \in {2, thread[s].fails + 1} : x <= y
      BY <3>1
    <3> QED BY <3>1, <3>2 DEF Min
  <2>2. [thread[s] EXCEPT !.conn = NULL, !.fails = Min({2, @ + 1})] \in Thread
    BY Zenon, <1>1, <2>1 DEF Thread
  <2>3. thread' \in [Server -> Thread]
    BY Zenon, <1>0, <1>7, <2>2 DEF PingFail, Goto, Put, TypeOK
  <2> QED BY Zenon, <1>0, <1>6, <1>7, <2>3 DEF PingFail, TypeOK, cluster
<1>8. CASE MasterLost(s)
  <2>1. [thread[s] EXCEPT !.conn = NULL, !.fails = 0] \in Thread
    <3>1. 0 \in 0 .. 2
      OBVIOUS
    <3> QED BY Zenon, <1>1, <3>1 DEF Thread
  <2>2. thread' \in [Server -> Thread] /\ master' \in [Server -> Server \cup {NULL}]
    BY Zenon, <1>0, <1>8, <2>1 DEF MasterLost, Goto, Put, TypeOK
  <2> QED BY Zenon, <1>0, <1>6, <1>8, <2>2 DEF MasterLost, TypeOK
<1>9. CASE Update(s)
  <2>1. data' \in [Server -> 0 .. MaxVersion]
    BY <1>0, <1>9, BoundAssumption DEF Update, TypeOK, Put
  <2> QED BY Zenon, <1>0, <1>9, <2>1 DEF Update, TypeOK, bounds
<1>10. ASSUME NEW t \in Server, JoinSlave(s, t) PROVE TypeOK'
  <2>1. joined' \in [Server -> SUBSET Server]
    BY ZenonT(20), <1>0, <1>10 DEF JoinSlave, TypeOK, Put
  <2> QED BY Zenon, <1>0, <1>10, <2>1 DEF JoinSlave, TypeOK, bounds
<1>11. ASSUME NEW t \in Server, JoinInconsistent(s, t) PROVE TypeOK'
  BY Zenon, <1>0, <1>11, ReselectType DEF JoinInconsistent, TypeOK, bounds
<1>12. ASSUME NEW t \in Server, Replicate(s, t) PROVE TypeOK'
  <2>1. data' \in [Server -> 0 .. MaxVersion]
    BY Zenon, <1>0, <1>12 DEF Replicate, TypeOK, Put
  <2> QED BY Zenon, <1>0, <1>12, <2>1 DEF Replicate, TypeOK, bounds
<1> QED BY Zenon, <1>2, <1>3, <1>4, <1>5, <1>7, <1>8, <1>9, <1>10, <1>11, <1>12
        DEF Follow, Lead

-----------------------------------------------------------------------------
(* What the steps do to the candidates.                                    *)

\* The steps other than the notification: nobody becomes the master or a candidate, and
\* a thread that is notifying is where it was or has just begun.
LEMMA CalmStep ==
    ASSUME IInv, cuts' = 0 => cuts = 0,
           \A x \in Server : master'[x] = x => master[x] = x /\ (up'[x] => up[x]),
           \A x \in Server :
              \/ thread'[x].pc \notin {"preset", "commit"}
              \/ /\ thread'[x].pc = "preset" /\ thread'[x].todo = Server
                 /\ master'[x] # x
              \/ /\ thread'[x].pc = thread[x].pc /\ thread'[x].todo = thread[x].todo
                 /\ next'[x] = next[x] /\ (up'[x] => up[x])
    PROVE  InOrder' /\ NotBefore' /\ NoRival'
<1>1. InOrder'
  BY DEF IInv, InOrder
<1>2. NotBefore'
  BY Zenon DEF IInv, NotBefore
<1>3. NoRival'
  <2>1. \A a, b \in Server : /\ Committed(b, a)' => Committed(b, a)
                             /\ Announced(a, b)' => Announced(a, b)
    BY DEF Committed, Announced, Standing, IsMaster
  <2> QED BY Zenon, <2>1 DEF IInv, NoRival
<1> QED BY Zenon, <1>1, <1>2, <1>3

\* What a request does at the server that gets it.
LEMMA NotifiedFacts ==
    ASSUME TypeOK, NEW t \in Server, NEW m \in Server, NEW phase, NEW ok,
           Notified(t, m, phase, ok)
    PROVE  /\ \A x \in Server \ {t} : master'[x] = master[x] /\ next'[x] = next[x]
           /\ master'[t] = t => \/ master[t] = t
                                \/ t = m /\ phase # "preset" /\ next[t] = t
           /\ next'[t] = t => next[t] = t \/ (t = m /\ phase = "preset")
           /\ t # m /\ ok => next'[t] # t /\ master'[t] # t
<1>1. master \in [Server -> Server \cup {NULL}] /\ next \in [Server -> Server \cup {NULL}]
  BY Zenon DEF TypeOK
<1>2. CASE Refuses(t, m)
  <2>1. ok = FALSE /\ master' = Put(master, t, NULL) /\ next' = next
    BY Zenon, <1>2 DEF Notified, Reselect
  <2> QED BY Zenon, <1>1, <2>1, NullAssumption DEF Put
<1>3. CASE ~Refuses(t, m)
  <2>1. CASE phase = "preset"
    <3>1. /\ ok = (next[t] \in {NULL, m}) /\ master' = master
          /\ next' = Put(next, t, IF next[t] \in {NULL, m} THEN m ELSE NULL)
      BY Zenon, <1>3, <2>1 DEF Notified, PreSet
    <3> QED BY Zenon, <1>1, <1>3, <2>1, <3>1, NullAssumption DEF Put, Refuses
  <2>2. CASE phase # "preset"
    <3>1. /\ ok = (next[t] = m) /\ next' = Put(next, t, NULL)
          /\ master' = IF next[t] = m THEN Put(master, t, m) ELSE master
      BY Zenon, <1>3, <2>2 DEF Notified, AfterCommit, SetMaster
    <3> QED BY Zenon, <1>1, <1>3, <2>2, <3>1, NullAssumption DEF Put, Refuses
  <2> QED BY Zenon, <2>1, <2>2
<1> QED BY Zenon, <1>2, <1>3

\* How the loops of cluster_notify_master_changed go on.
LEMMA ContinueFacts ==
    ASSUME TypeOK, NEW s \in Server, NEW ok \in BOOLEAN, NEW cf \in BOOLEAN,
           thread[s].pc \in {"preset", "commit"}, Continue(s, ok, cf)
    PROVE  LET rest == thread[s].todo \ {Min(thread[s].todo)} IN
           /\ \A x \in Server \ {s} : thread'[x] = thread[x]
           /\ \/ thread'[s].pc = "loop" /\ thread'[s].active = 0 /\ thread'[s].best = NULL
              \/ /\ ok \/ cf
                 /\ thread'[s].active = thread[s].active
                 /\ \/ /\ thread'[s].pc = thread[s].pc /\ thread'[s].todo = rest
                       /\ rest # {}
                    \/ /\ thread[s].pc = "preset" /\ thread'[s].pc = "commit"
                       /\ thread'[s].todo = Server /\ rest = {}
<1> DEFINE th == thread[s]
           rest == th.todo \ {Min(th.todo)}
           some == th.ok \/ ok
           Failed == [Idle EXCEPT !.conn = th.conn]
           More == [th EXCEPT !.todo = rest, !.ok = some, !.connect_fail = cf]
           Commit == [th EXCEPT !.pc = "commit", !.todo = Server, !.ok = FALSE,
                                !.connect_fail = cf]
<1>1. th \in Thread
  BY Zenon, ThreadTypes
<1>2. /\ Failed.pc = "loop" /\ Failed.active = 0 /\ Failed.best = NULL
      /\ Idle.pc = "loop" /\ Idle.active = 0 /\ Idle.best = NULL
  BY Zenon DEF Idle
<1>3. /\ More.pc = th.pc /\ More.todo = rest /\ More.active = th.active
      /\ Commit.pc = "commit" /\ Commit.todo = Server /\ Commit.active = th.active
  BY Zenon, <1>1 DEF Thread
<1>4. \E t : /\ thread' = Put(thread, s, t)
             /\ \/ t = Failed \/ t = Idle
                \/ (ok \/ cf) /\ rest # {} /\ t = More
                \/ (ok \/ cf) /\ rest = {} /\ th.pc = "preset" /\ t = Commit
  BY Zenon DEF Continue, Goto
<1> HIDE DEF Failed, More, Commit
<1>5. PICK t : /\ thread' = Put(thread, s, t)
               /\ \/ t = Failed \/ t = Idle
                  \/ (ok \/ cf) /\ rest # {} /\ t = More
                  \/ (ok \/ cf) /\ rest = {} /\ th.pc = "preset" /\ t = Commit
  BY Zenon, <1>4
<1>6. thread'[s] = t /\ \A x \in Server \ {s} : thread'[x] = thread[x]
  BY Zenon, <1>5 DEF TypeOK, Put
<1> QED BY Zenon, <1>2, <1>3, <1>5, <1>6

\* An iteration of cluster_notify_master_changed by server s, which has come to server
\* t.  "go" says that the loop goes on.
LEMMA Advance ==
    ASSUME IInv, NEW s \in Server, NEW t \in Server, NEW go \in BOOLEAN,
           thread[s].pc \in {"preset", "commit"}, t = Target(s), up' = up,
           cuts' = 0 => cuts = 0,
           \A x \in Server \ {t} : master'[x] = master[x] /\ next'[x] = next[x],
           master'[t] = t => \/ master[t] = t
                             \/ t = s /\ thread[s].pc # "preset" /\ next[t] = t,
           next'[t] = t => next[t] = t \/ (t = s /\ thread[s].pc = "preset"),
           t # s /\ go /\ cuts' = 0 => ~up[t] \/ (next'[t] # t /\ master'[t] # t),
           \A x \in Server \ {s} : thread'[x] = thread[x],
           \/ thread'[s].pc = "loop"
           \/ /\ go /\ thread'[s].pc = thread[s].pc
              /\ thread'[s].todo = thread[s].todo \ {t} /\ thread'[s].todo # {}
           \/ /\ go /\ thread[s].pc = "preset" /\ thread'[s].pc = "commit"
              /\ thread'[s].todo = Server /\ thread[s].todo \ {t} = {}
    PROVE  InOrder' /\ NotBefore' /\ NoRival'
<1>0. /\ t \in thread[s].todo /\ \A y \in thread[s].todo : t <= y
      /\ thread[s].todo \subseteq Server
  <2>1. thread[s].todo \subseteq Server /\ thread[s].todo # {}
    BY Zenon DEF IInv, TypeOK, Thread, InOrder
  <2> QED BY Zenon, <2>1, First DEF Target
<1>1. \A x \in thread[s].todo, y \in Server : x <= y => y \in thread[s].todo
  BY Zenon DEF IInv, InOrder
<1>2. InOrder'
  <2>1. \A x \in thread[s].todo \ {t}, y \in Server : x <= y => y \in thread[s].todo \ {t}
    <3> SUFFICES ASSUME NEW x \in thread[s].todo \ {t}, NEW y \in Server, x <= y
                 PROVE  y \in thread[s].todo \ {t}
      BY Zenon
    <3>1. x \in Nat /\ y \in Nat /\ t \in Nat /\ t <= x /\ t # x
      BY Zenon, <1>0, ServerAssumption
    <3>2. y # t
      BY <3>1
    <3> QED BY Zenon, <1>1, <3>2
  <2> QED BY <2>1 DEF IInv, InOrder
<1>3. NotBefore'
  <2> SUFFICES ASSUME NEW x \in Server, master'[x] = x,
                      \/ thread'[x].pc = "preset"
                      \/ thread'[x].pc = "commit" /\ x \in thread'[x].todo
               PROVE  FALSE
    BY Zenon DEF NotBefore
  <2>1. CASE x # s
    BY <2>1 DEF IInv, NotBefore
  <2>2. CASE x = s
    BY <2>2 DEF IInv, NotBefore
  <2> QED BY Zenon, <2>1, <2>2
<1>4. NoRival'
  <2> SUFFICES ASSUME cuts' = 0, NEW a \in Server, NEW b \in Server, a < b,
                      Committed(b, a)', Announced(a, b)'
               PROVE  FALSE
    BY Zenon DEF NoRival
  <2>1. ~(Committed(b, a) /\ Announced(a, b)) /\ a # b
    BY ServerAssumption DEF IInv, NoRival
  <2>2. CASE s = b
    <3>1. Announced(a, b)
      BY <2>1, <2>2 DEF Announced, Standing, IsMaster
    <3>2. ~Committed(b, a)
      BY Zenon, <2>1, <3>1
    <3>3. CASE IsMaster(b)'
      <4>1. t = b /\ next[b] = b /\ up[b] /\ thread[b].pc = "commit"
        BY Zenon, <2>2, <3>2, <3>3 DEF Committed, IsMaster
      <4>2. a \in thread[b].todo
        BY Zenon, <3>2, <4>1 DEF Committed, Standing
      <4>3. b <= a
        BY Zenon, <1>0, <2>2, <4>1, <4>2
      <4> QED BY <4>3, ServerAssumption
    <3>4. CASE Standing(b)' /\ thread'[b].pc = "commit" /\ a \notin thread'[b].todo
      <4>1. go /\ thread[b].pc = "commit" /\ thread'[b].todo = thread[b].todo \ {t}
        BY Zenon, <2>2, <3>4
      <4>2. Standing(b)
        BY Zenon, <2>2, <3>4, <4>1 DEF Standing
      <4>3. t = a
        BY Zenon, <3>2, <3>4, <4>1, <4>2 DEF Committed
      <4>4. ~up[a] \/ (next'[a] # a /\ master'[a] # a)
        BY Zenon, <2>1, <2>2, <4>1, <4>3
      <4> QED BY Zenon, <4>4 DEF Announced, Standing, IsMaster
    <3> QED BY Zenon, <3>3, <3>4 DEF Committed
  <2>3. CASE s = a
    <3>1. Committed(b, a)
      BY <2>1, <2>3 DEF Committed, Standing, IsMaster
    <3>2. ~Announced(a, b)
      BY Zenon, <2>1, <3>1
    <3>3. CASE IsMaster(a)'
      <4>1. next[a] = a /\ up[a] /\ thread[a].pc = "commit"
        BY Zenon, <2>3, <3>2, <3>3 DEF Announced, IsMaster
      <4> QED BY Zenon, <3>2, <4>1 DEF Announced, Standing
    <3>4. CASE Standing(a)' /\ thread[a].pc = "commit"
      BY Zenon, <2>3, <3>2, <3>4 DEF Announced, Standing
    <3>5. CASE /\ Standing(a)' /\ thread[a].pc = "preset"
               /\ go /\ b \notin thread[a].todo \ {t}
      <4>1. t # a
        <5>1. a <= b
          BY ServerAssumption
        <5> QED BY Zenon, <1>0, <1>1, <2>1, <2>3, <3>5, <5>1
      <4>2. Standing(a)
        BY Zenon, <3>5, <4>1 DEF Standing
      <4>3. t = b
        BY Zenon, <3>2, <3>5, <4>2 DEF Announced
      <4>4. ~up[b] \/ (next'[b] # b /\ master'[b] # b)
        BY Zenon, <2>1, <2>3, <3>5, <4>3
      <4> QED BY Zenon, <4>4 DEF Committed, Standing, IsMaster
    <3>6. CASE Standing(a)' /\ thread'[a].pc = "commit" /\ thread[a].pc # "commit"
      BY Zenon, <2>3, <3>5, <3>6
    <3>7. CASE Standing(a)' /\ thread'[a].pc = "preset" /\ b \notin thread'[a].todo
      BY Zenon, <2>3, <3>5, <3>7
    <3> QED BY Zenon, <3>3, <3>4, <3>6, <3>7 DEF Announced
  <2>4. CASE s # a /\ s # b
    BY Zenon, <2>1, <2>4 DEF Announced, Committed, Standing, IsMaster
  <2> QED BY Zenon, <2>2, <2>3, <2>4
<1> QED BY Zenon, <1>2, <1>3, <1>4

\* The steps of an election keep the rest of the invariant.
LEMMA ElectStep ==
    ASSUME IInv, NEW s \in Server, Elect(s)
    PROVE  InOrder' /\ NotBefore' /\ NoRival'
<1>0. TypeOK /\ thread \in [Server -> Thread] /\ thread[s] \in Thread
  BY Zenon, ThreadTypes DEF IInv, TypeOK
<1>1. ASSUME NEW t, t.pc \notin {"preset", "commit"}, thread' = Put(thread, s, t),
             UNCHANGED <<up, next, cuts>>, \A x \in Server : master'[x] = x => master[x] = x
      PROVE  InOrder' /\ NotBefore' /\ NoRival'
  <2>1. \A x \in Server : thread'[x] = IF x = s THEN t ELSE thread[x]
    BY Zenon, <1>0, <1>1 DEF Put
  <2> QED BY Zenon, <1>1, <2>1, CalmStep
<1>2. CASE SelectMaster(s)
  <2>1. [thread[s] EXCEPT !.pc = "select"].pc = "select"
    BY Zenon, <1>0 DEF Thread
  <2> QED BY Zenon, <1>1, <1>2, <2>1 DEF SelectMaster, Goto, cluster, bounds
<1>3. CASE SelectAbort(s)
  <2>1. Idle.pc = "loop"
    BY Zenon DEF Idle
  <2> QED BY Zenon, <1>1, <1>3, <2>1 DEF SelectAbort, Goto, cluster, bounds
<1>4. CASE SelectRound(s)
  <2>1. [thread[s] EXCEPT !.pc = "collect", !.todo = Server].pc = "collect"
    BY Zenon, <1>0 DEF Thread
  <2> QED BY Zenon, <1>1, <1>4, <2>1 DEF SelectRound, Goto, cluster, bounds
<1>5. CASE SelectAgain(s)
  <2>1. [thread[s] EXCEPT !.pc = "select", !.best = NULL, !.active = 0].pc = "select"
    BY Zenon, <1>0 DEF Thread
  <2> QED BY Zenon, <1>1, <1>5, <2>1 DEF SelectAgain, Goto, cluster, bounds
<1>6. CASE GetServerStatus(s)
  <2>1. /\ \E t : t.pc = "collect" /\ thread' = Put(thread, s, t)
        /\ UNCHANGED <<cluster, cuts>>
    <3> DEFINE t == Min(thread[s].todo)
               rest == [thread[s] EXCEPT !.todo = @ \ {t}]
    <3>1. rest.pc = "collect" /\ \A x, y : [rest EXCEPT !.active = x, !.best = y].pc = "collect"
      BY Zenon, <1>0, <1>6 DEF GetServerStatus, Thread
    <3> QED BY Zenon, <1>6, <3>1 DEF GetServerStatus, Goto
  <2> QED BY Zenon, <1>1, <2>1 DEF cluster
<1>7. CASE Decide(s)
  <2>1. \A x \in Server : master'[x] = x => master[x] = x
    BY Zenon, <1>0, <1>7 DEF Decide, SetMaster, Put, TypeOK
  <2>2. UNCHANGED <<up, next, cuts>>
    BY Zenon, <1>7 DEF Decide, bounds
  <2>3. CASE \E t \in {Idle, [Idle EXCEPT !.conn = thread[s].conn]} : thread' = Put(thread, s, t)
    <3>1. \A t \in {Idle, [Idle EXCEPT !.conn = thread[s].conn]} : t.pc = "loop"
      BY DEF Idle
    <3> QED BY Zenon, <1>1, <2>1, <2>2, <2>3, <3>1
  <2>4. ASSUME NEW g \in BOOLEAN, master[s] = NULL, master' = master,
               thread' = Put(thread, s, [thread[s] EXCEPT !.pc = "preset", !.todo = Server,
                                           !.best = NULL, !.active = 0, !.ok = FALSE,
                                           !.connect_fail = g])
        PROVE  InOrder' /\ NotBefore' /\ NoRival'
    <3>1. /\ \A x \in Server \ {s} : thread'[x] = thread[x]
          /\ thread'[s].pc = "preset" /\ thread'[s].todo = Server /\ master'[s] # s
      BY Zenon, <1>0, <2>4, NullAssumption DEF Put, Thread
    <3> QED BY Zenon, <2>1, <2>2, <3>1, CalmStep
  <2> QED BY Zenon, <1>7, <2>3, <2>4 DEF Decide, Goto
<1>8. ASSUME Notifying(s) PROVE Target(s) \in Server
  BY Zenon, <1>0, <1>8, First DEF Notifying, Target, IInv, InOrder, Thread
<1>9. CASE Notify(s)
  <2>1. PICK ok \in BOOLEAN :
           /\ Notified(Target(s), s, thread[s].pc, ok)
           /\ Continue(s, ok, Target(s) = s /\ thread[s].connect_fail)
    BY Zenon, <1>9 DEF Notify
  <2> DEFINE cf == Target(s) = s /\ thread[s].connect_fail
  <2>2. /\ Target(s) \in Server /\ cf \in BOOLEAN /\ (ok \/ cf) \in BOOLEAN
        /\ thread[s].pc \in {"preset", "commit"} /\ up' = up /\ cuts' = cuts
    BY Zenon, <1>8, <1>9 DEF Notify, Notifying, bounds
  <2>3. /\ \A x \in Server \ {Target(s)} : master'[x] = master[x] /\ next'[x] = next[x]
        /\ master'[Target(s)] = Target(s) =>
              \/ master[Target(s)] = Target(s)
              \/ /\ Target(s) = s /\ thread[s].pc # "preset"
                 /\ next[Target(s)] = Target(s)
        /\ next'[Target(s)] = Target(s) =>
              next[Target(s)] = Target(s) \/ (Target(s) = s /\ thread[s].pc = "preset")
        /\ Target(s) # s /\ ok => next'[Target(s)] # Target(s) /\ master'[Target(s)] # Target(s)
    BY Zenon, <1>0, <2>1, <2>2, NotifiedFacts
  <2>4. /\ \A x \in Server \ {s} : thread'[x] = thread[x]
        /\ \/ thread'[s].pc = "loop"
           \/ /\ ok \/ cf
              /\ thread'[s].pc = thread[s].pc
              /\ thread'[s].todo = thread[s].todo \ {Target(s)} /\ thread'[s].todo # {}
           \/ /\ ok \/ cf
              /\ thread[s].pc = "preset" /\ thread'[s].pc = "commit"
              /\ thread'[s].todo = Server /\ thread[s].todo \ {Target(s)} = {}
    BY Zenon, <1>0, <2>1, <2>2, ContinueFacts DEF Target
  <2>5. Target(s) # s /\ (ok \/ cf) => next'[Target(s)] # Target(s) /\ master'[Target(s)] # Target(s)
    BY Zenon, <2>3
  <2> HIDE DEF cf
  <2> QED BY Zenon, <2>2, <2>3, <2>4, <2>5, Advance
<1>10. CASE NotifyConnectFail(s)
  <2>1. /\ Target(s) \in Server /\ thread[s].pc \in {"preset", "commit"}
        /\ UNCHANGED <<up, master, next>> /\ Continue(s, FALSE, TRUE)
    BY Zenon, <1>8, <1>10 DEF NotifyConnectFail, Notifying, cluster
  <2>2. (cuts' = 0 => cuts = 0) /\ (cuts' = 0 => ~up[Target(s)])
    BY <1>0, <1>10, CaseAssumption DEF NotifyConnectFail, TypeOK
  <2>3. /\ \A x \in Server \ {s} : thread'[x] = thread[x]
        /\ \/ thread'[s].pc = "loop"
           \/ /\ thread'[s].pc = thread[s].pc
              /\ thread'[s].todo = thread[s].todo \ {Target(s)} /\ thread'[s].todo # {}
           \/ /\ thread[s].pc = "preset" /\ thread'[s].pc = "commit"
              /\ thread'[s].todo = Server /\ thread[s].todo \ {Target(s)} = {}
    BY Zenon, <1>0, <2>1, ContinueFacts DEF Target
  <2> QED BY Zenon, <2>1, <2>2, <2>3, Advance
<1>11. CASE NotifyLost(s)
  <2>1. /\ Target(s) \in Server /\ thread[s].pc \in {"preset", "commit"}
        /\ up' = up /\ cuts' = cuts /\ Continue(s, FALSE, FALSE) /\ Target(s) # s
    BY Zenon, <1>8, <1>11 DEF NotifyLost, Notifying
  <2>2. /\ \A x \in Server \ {Target(s)} : master'[x] = master[x] /\ next'[x] = next[x]
        /\ master'[Target(s)] = Target(s) => master[Target(s)] = Target(s)
        /\ next'[Target(s)] = Target(s) => next[Target(s)] = Target(s)
    BY Zenon, <1>0, <1>11, <2>1, NotifiedFacts DEF NotifyLost
  <2>3. (\A x \in Server \ {s} : thread'[x] = thread[x]) /\ thread'[s].pc = "loop"
    BY Zenon, <1>0, <2>1, ContinueFacts
  <2> QED BY Zenon, <2>1, <2>2, <2>3, Advance
<1> QED BY Zenon, <1>2, <1>3, <1>4, <1>5, <1>6, <1>7, <1>9, <1>10, <1>11 DEF Elect

\* So do the other steps.
LEMMA OtherStep ==
    ASSUME IInv, NEW s \in Server,
           Start(s) \/ Crash(s) \/ SaveInfo(s) \/ Follow(s) \/ Lead(s)
    PROVE  InOrder' /\ NotBefore' /\ NoRival'
<1>0. TypeOK /\ thread \in [Server -> Thread] /\ thread[s] \in Thread
  BY Zenon, ThreadTypes DEF IInv, TypeOK
<1>1. ASSUME UNCHANGED <<up, next, cuts>>,
             \A x \in Server : master'[x] = x => master[x] = x,
             \A x \in Server : thread'[x].pc = thread[x].pc /\ thread'[x].todo = thread[x].todo
      PROVE  InOrder' /\ NotBefore' /\ NoRival'
  BY Zenon, <1>1, CalmStep
<1>2. CASE Start(s)
  <2>1. /\ \A x \in Server : up'[x] => up[x] \/ x = s
        /\ master[s] = NULL /\ thread[s].pc = "loop"
        /\ UNCHANGED <<master, next, thread, cuts>>
    BY Zenon, <1>0, <1>2 DEF Start, Put, bounds, IInv, DownIdle, TypeOK
  <2>2. \A x \in Server : master'[x] = x => master[x] = x /\ (up'[x] => up[x])
    BY Zenon, <2>1, NullAssumption
  <2> QED BY Zenon, <2>1, <2>2, CalmStep
<1>3. CASE Crash(s)
  <2>1. /\ cuts' = cuts
        /\ \A x \in Server \ {s} : up'[x] = up[x] /\ master'[x] = master[x] /\ next'[x] = next[x]
        /\ ~up'[s] /\ master'[s] = NULL
    BY Zenon, <1>0, <1>3 DEF Crash, Put, TypeOK
  <2>2. /\ thread'[s].pc = "loop"
        /\ \A x \in Server \ {s} : thread'[x].pc = thread[x].pc /\ thread'[x].todo = thread[x].todo
    <3>1. Idle.pc = "loop"
      BY Zenon DEF Idle
    <3>2. \A x \in Server : /\ [thread[x] EXCEPT !.conn = BROKEN].pc = thread[x].pc
                            /\ [thread[x] EXCEPT !.conn = BROKEN].todo = thread[x].todo
      BY Zenon, <1>0 DEF Thread
    <3> QED BY Zenon, <1>3, <3>1, <3>2 DEF Crash
  <2>3. \A x \in Server : master'[x] = x => master[x] = x /\ (up'[x] => up[x])
    BY Zenon, <2>1, NullAssumption
  <2> QED BY Zenon, <2>1, <2>2, <2>3, CalmStep
<1>4. CASE SaveInfo(s)
  BY Zenon, <1>1, <1>4 DEF SaveInfo, bounds
<1>5. CASE Follow(s)
  <2>1. /\ \E c, f : thread' = Put(thread, s, [thread[s] EXCEPT !.conn = c, !.fails = f])
        /\ master' = master \/ master' = Put(master, s, NULL)
        /\ UNCHANGED <<up, next, cuts>>
    BY Zenon, <1>5 DEF Follow, PingMaster, PingFail, MasterLost, Goto, cluster, bounds
  <2>2. \A c, f : /\ [thread[s] EXCEPT !.conn = c, !.fails = f].pc = thread[s].pc
                  /\ [thread[s] EXCEPT !.conn = c, !.fails = f].todo = thread[s].todo
    BY Zenon, <1>0 DEF Thread
  <2>3. \A x \in Server : thread'[x].pc = thread[x].pc /\ thread'[x].todo = thread[x].todo
    <3> PICK c, f : thread' = Put(thread, s, [thread[s] EXCEPT !.conn = c, !.fails = f])
      BY Zenon, <2>1
    <3> DEFINE t == [thread[s] EXCEPT !.conn = c, !.fails = f]
    <3>1. t.pc = thread[s].pc /\ t.todo = thread[s].todo
      BY Zenon, <2>2
    <3> HIDE DEF t
    <3>2. \A x \in Server : thread'[x] = IF x = s THEN t ELSE thread[x]
      BY Zenon, <1>0 DEF Put, t
    <3> QED BY Zenon, <3>1, <3>2
  <2>4. \A x \in Server : master'[x] = x => master[x] = x
    BY <1>0, <2>1, NullAssumption DEF Put, TypeOK
  <2> QED BY Zenon, <1>1, <2>1, <2>3, <2>4
<1>6. CASE Lead(s)
  <2>1. /\ master' = master \/ master' = Put(master, s, NULL)
        /\ UNCHANGED <<up, next, cuts, thread>>
    BY Zenon, <1>6
       DEF Lead, Update, JoinSlave, JoinInconsistent, Replicate, Reselect, bounds
  <2>2. \A x \in Server : master'[x] = x => master[x] = x
    BY <1>0, <2>1, NullAssumption DEF Put, TypeOK
  <2> QED BY Zenon, <1>1, <2>1, <2>2
<1> QED BY Zenon, <1>2, <1>3, <1>4, <1>5, <1>6

\* What the step of a running server to thread t keeps.
LEMMA RunningStep ==
    ASSUME IInv, NEW s \in Server, up[s], up' = up, NEW t, CollectedBy(s, t),
           \A x \in Server : ~up[x] => master'[x] = master[x],
           thread'[s] = t, \A x \in Server \ {s} : thread'[x] = thread[x]
    PROVE  DownIdle' /\ Collected'
<1>1. DownIdle'
  BY Zenon DEF IInv, DownIdle
<1>2. Collected'
  BY Zenon DEF IInv, Collected
<1> QED BY Zenon, <1>1, <1>2

\* Every step of an election keeps what is known about the statuses collected.
LEMMA CollectedElect ==
    ASSUME IInv, NEW s \in Server, Elect(s)
    PROVE  DownIdle' /\ Collected'
<1> DEFINE th == thread[s]
<1>0. /\ TypeOK /\ thread \in [Server -> Thread] /\ th \in Thread
      /\ CollectedBy(s, th) /\ master \in [Server -> Server \cup {NULL}]
  BY Zenon, ThreadTypes DEF IInv, TypeOK, Collected
<1>1. ASSUME NEW t, CollectedBy(s, t), thread' = Put(thread, s, t), up[s], up' = up,
             \A x \in Server \ {s} : master'[x] = master[x]
      PROVE  DownIdle' /\ Collected'
  <2>1. thread'[s] = t /\ \A x \in Server \ {s} : thread'[x] = thread[x]
    BY Zenon, <1>0, <1>1 DEF Put
  <2> QED BY Zenon, <1>1, <2>1, RunningStep
<1>2. CollectedBy(s, Idle) /\ CollectedBy(s, [Idle EXCEPT !.conn = th.conn])
  BY Zenon DEF CollectedBy, Idle
<1>3. CASE SelectMaster(s)
  <2>1. CollectedBy(s, [th EXCEPT !.pc = "select"])
    BY Zenon, <1>0, <1>3 DEF CollectedBy, SelectMaster, Thread
  <2> QED BY Zenon, <1>1, <1>3, <2>1 DEF SelectMaster, Goto, cluster
<1>4. CASE SelectAbort(s)
  BY Zenon, <1>1, <1>2, <1>4 DEF SelectAbort, Goto, cluster
<1>5. CASE SelectRound(s)
  <2>1. CollectedBy(s, [th EXCEPT !.pc = "collect", !.todo = Server])
    <3>1. th.active = 0 /\ Cardinality(Server) \in Nat
      BY Zenon, <1>0, <1>5, ServerAssumption, FS_CardinalityType DEF CollectedBy, SelectRound
    <3> QED BY <1>0, <3>1 DEF CollectedBy, Thread
  <2> QED BY Zenon, <1>1, <1>5, <2>1 DEF SelectRound, Goto, cluster
<1>6. CASE SelectAgain(s)
  <2>1. CollectedBy(s, [th EXCEPT !.pc = "select", !.best = NULL, !.active = 0])
    BY Zenon, <1>0 DEF CollectedBy, Thread
  <2> QED BY Zenon, <1>1, <1>6, <2>1 DEF SelectAgain, Goto, cluster
<1>7. CASE GetServerStatus(s)
  <2> DEFINE t == Min(th.todo)
             rest == [th EXCEPT !.todo = @ \ {t}]
  <2>1. t \in th.todo /\ t \in Server /\ th.todo \subseteq Server
    BY Zenon, <1>0, <1>7, First DEF GetServerStatus, Thread
  <2>2. /\ Cardinality(th.todo \ {t}) = Cardinality(th.todo) - 1
        /\ Cardinality(th.todo) \in Nat /\ Cardinality(Server) \in Nat
    BY <2>1, ServerAssumption, FS_Subset, FS_CardinalityType, FS_RemoveElement
  <2>3. /\ th.active \in Nat /\ th.active + Cardinality(th.todo) <= Cardinality(Server)
        /\ s \notin th.todo => th.best # NULL
    BY <1>0, <1>7, <2>2 DEF CollectedBy, GetServerStatus, Thread
  <2>4. /\ rest.pc = "collect" /\ rest.todo = th.todo \ {t}
        /\ rest.active = th.active /\ rest.best = th.best
    BY Zenon, <1>0, <1>7 DEF GetServerStatus, Thread
  <2>5. ASSUME NEW b, b # NULL
        PROVE  CollectedBy(s, [rest EXCEPT !.active = rest.active + 1, !.best = b])
    <3> DEFINE new == [rest EXCEPT !.active = rest.active + 1, !.best = b]
    <3>1. /\ new.pc = "collect" /\ new.todo = th.todo \ {t}
          /\ new.active = th.active + 1 /\ new.best = b
      BY Zenon, <1>0, <2>4 DEF Thread
    <3> HIDE DEF new
    <3>2. new.active + Cardinality(new.todo) <= Cardinality(Server)
      BY <2>2, <2>3, <3>1
    <3>3. CollectedBy(s, new)
      BY Zenon, <2>5, <3>1, <3>2 DEF CollectedBy
    <3> QED BY Zenon, <3>3 DEF new
  <2>6. ASSUME t # s PROVE CollectedBy(s, rest)
    <3>1. rest.active + Cardinality(rest.todo) <= Cardinality(Server)
      BY <2>2, <2>3, <2>4
    <3> HIDE DEF rest
    <3> QED BY Zenon, <2>3, <2>4, <2>6, <3>1 DEF CollectedBy
  <2>7. StatusOf(t) # NULL
    BY Zenon, <1>0, <2>1, StatusType, CandidateAssumption
  <2>8. t = s => up[t]
    BY Zenon, <1>7 DEF GetServerStatus
  <2> DEFINE best == IF rest.best = NULL \/ Better(StatusOf(t), rest.best)
                     THEN StatusOf(t) ELSE rest.best
  <2>9. best # NULL
    BY Zenon, <2>7
  <2>10. \E x : CollectedBy(s, x) /\ thread' = Put(thread, s, x)
    <3>1. \/ thread' = Put(thread, s, [rest EXCEPT !.active = rest.active + 1, !.best = best])
          \/ t # s /\ thread' = Put(thread, s, rest)
      BY Zenon, <1>7, <2>8 DEF GetServerStatus, Goto
    <3> HIDE DEF best, rest
    <3> QED BY Zenon, <2>5, <2>6, <2>9, <3>1
  <2> QED BY ZenonT(30), <1>1, <1>7, <2>10 DEF GetServerStatus, cluster
<1>8. CASE Decide(s)
  <2>1. \A g \in BOOLEAN : CollectedBy(s, [th EXCEPT !.pc = "preset", !.todo = Server,
                !.best = NULL, !.active = 0, !.ok = FALSE, !.connect_fail = g])
    BY Zenon, <1>0 DEF CollectedBy, Thread
  <2>2. \E t : CollectedBy(s, t) /\ thread' = Put(thread, s, t)
    BY Zenon, <1>2, <1>8, <2>1 DEF Decide, Goto
  <2>3. \A x \in Server \ {s} : master'[x] = master[x]
    BY Zenon, <1>0, <1>8 DEF Decide, SetMaster, Put
  <2> QED BY Zenon, <1>1, <1>8, <2>2, <2>3 DEF Decide
<1>9. ASSUME Notifying(s), NEW ok \in BOOLEAN, NEW cf \in BOOLEAN, Continue(s, ok, cf),
             up' = up, \A x \in Server : ~up[x] => master'[x] = master[x]
      PROVE  DownIdle' /\ Collected'
  <2>1. th.pc \in {"preset", "commit"} /\ up[s] /\ th.active = 0
    BY Zenon, <1>0, <1>9 DEF Notifying, CollectedBy
  <2>2. /\ \A x \in Server \ {s} : thread'[x] = thread[x]
        /\ thread'[s].active = 0
        /\ \/ thread'[s].pc = "loop" /\ thread'[s].best = NULL
           \/ thread'[s].pc \in {"preset", "commit"}
    BY Zenon, <1>0, <1>9, <2>1, ContinueFacts
  <2>3. CollectedBy(s, thread'[s])
    BY Zenon, <2>2 DEF CollectedBy
  <2> QED BY Zenon, <1>9, <2>1, <2>2, <2>3, RunningStep
<1>10. ASSUME Notifying(s), up[Target(s)], NEW ok \in BOOLEAN,
              Notified(Target(s), s, thread[s].pc, ok)
       PROVE  \A x \in Server : ~up[x] => master'[x] = master[x]
  <2>1. Target(s) \in Server
    BY Zenon, <1>0, <1>10, First DEF Notifying, Target, IInv, InOrder, Thread
  <2> QED BY ZenonT(30), <1>0, <1>10, <2>1, NotifiedFacts
<1>11. CASE Notify(s)
  <2>1. (Target(s) = s /\ thread[s].connect_fail) \in BOOLEAN
    BY Zenon
  <2> QED BY Zenon, <1>9, <1>10, <1>11, <2>1 DEF Notify
<1>12. CASE NotifyConnectFail(s)
  BY Zenon, <1>9, <1>12 DEF NotifyConnectFail, cluster
<1>13. CASE NotifyLost(s)
  BY Zenon, <1>9, <1>10, <1>13 DEF NotifyLost
<1> QED BY Zenon, <1>3, <1>4, <1>5, <1>6, <1>7, <1>8, <1>11, <1>12, <1>13 DEF Elect

\* So do the other steps.
LEMMA CollectedOther ==
    ASSUME IInv, NEW s \in Server,
           Start(s) \/ Crash(s) \/ SaveInfo(s) \/ Follow(s) \/ Lead(s)
    PROVE  DownIdle' /\ Collected'
<1>0. /\ TypeOK /\ thread \in [Server -> Thread] /\ thread[s] \in Thread
      /\ \A x \in Server : CollectedBy(x, thread[x])
      /\ master \in [Server -> Server \cup {NULL}]
  BY Zenon, ThreadTypes DEF IInv, TypeOK, Collected
<1>1. CASE Start(s)
  BY Zenon, <1>0, <1>1 DEF Start, Put, IInv, DownIdle, Collected, TypeOK
<1>2. CASE Crash(s)
  <2>1. \A x \in Server : \/ thread'[x] = Idle /\ x = s
                          \/ thread'[x] = thread[x]
                          \/ thread'[x] = [thread[x] EXCEPT !.conn = BROKEN]
    BY Zenon, <1>2 DEF Crash
  <2>2. \A x \in Server : LET t == [thread[x] EXCEPT !.conn = BROKEN] IN
           /\ t.pc = thread[x].pc /\ t.todo = thread[x].todo
           /\ t.best = thread[x].best /\ t.active = thread[x].active
    BY Zenon, <1>0 DEF Thread
  <2>3. Idle.pc = "loop" /\ \A x : CollectedBy(x, Idle)
    BY Zenon DEF CollectedBy, Idle
  <2>4. Collected'
    <3> SUFFICES ASSUME NEW x \in Server PROVE CollectedBy(x, thread'[x])
      BY Zenon DEF Collected
    <3> DEFINE t == [thread[x] EXCEPT !.conn = BROKEN]
    <3>1. /\ t.pc = thread[x].pc /\ t.todo = thread[x].todo
          /\ t.best = thread[x].best /\ t.active = thread[x].active
      BY Zenon, <2>2
    <3>2. CollectedBy(x, thread[x])
      BY Zenon, <1>0
    <3> HIDE DEF t
    <3>3. CollectedBy(x, t)
      BY Zenon, <3>1, <3>2 DEF CollectedBy
    <3> QED BY Zenon, <2>1, <2>3, <3>2, <3>3 DEF t
  <2>5. \A x \in Server \ {s} : up'[x] = up[x] /\ master'[x] = master[x]
    BY Zenon, <1>0, <1>2 DEF Crash, Put, TypeOK
  <2>6. master'[s] = NULL
    BY Zenon, <1>0, <1>2 DEF Crash, Put
  <2>7. \A x \in Server \ {s} : thread'[x].pc = thread[x].pc
    BY Zenon, <2>1, <2>2
  <2>8. thread'[s].pc = "loop"
    BY Zenon, <1>2, <2>3 DEF Crash
  <2> QED BY Zenon, <2>4, <2>5, <2>6, <2>7, <2>8 DEF IInv, DownIdle
<1>3. CASE SaveInfo(s)
  BY Zenon, <1>3 DEF SaveInfo, IInv, DownIdle, Collected
<1>4. CASE Follow(s)
  <2>1. PICK c, f : thread' = Put(thread, s, [thread[s] EXCEPT !.conn = c, !.fails = f])
    BY Zenon, <1>4 DEF Follow, PingMaster, PingFail, MasterLost, Goto
  <2>2. /\ up[s] /\ up' = up
        /\ \A x \in Server \ {s} : master'[x] = master[x]
    BY Zenon, <1>0, <1>4
       DEF Follow, PingMaster, PingFail, MasterLost, Unanswered, Pinging, Put, cluster
  <2> DEFINE t == [thread[s] EXCEPT !.conn = c, !.fails = f]
  <2>3. /\ t.pc = thread[s].pc /\ t.todo = thread[s].todo
        /\ t.best = thread[s].best /\ t.active = thread[s].active
    BY Zenon, <1>0 DEF Thread
  <2>4. thread'[s] = t /\ \A x \in Server \ {s} : thread'[x] = thread[x]
    BY Zenon, <1>0, <2>1 DEF Put
  <2> HIDE DEF t
  <2>5. CollectedBy(s, t)
    BY Zenon, <1>0, <2>3 DEF CollectedBy
  <2> QED BY Zenon, <2>2, <2>4, <2>5, RunningStep
<1>5. CASE Lead(s)
  <2>1. /\ up[s] /\ up' = up /\ thread' = thread
        /\ master' = master \/ master' = Put(master, s, NULL)
    BY Zenon, <1>5 DEF Lead, Update, JoinSlave, JoinInconsistent, Replicate, Reselect, IsMaster
  <2>2. \A x \in Server : ~up[x] => master'[x] = master[x]
    BY Zenon, <1>0, <2>1 DEF Put
  <2> QED BY Zenon, <1>0, <2>1, <2>2, RunningStep
<1> QED BY Zenon, <1>1, <1>2, <1>3, <1>4, <1>5

-----------------------------------------------------------------------------
(* The theorems.                                                           *)

\* The invariant holds at first: no server runs.
LEMMA InvInit == Init => IInv
<1> SUFFICES ASSUME Init PROVE IInv
  BY Zenon
<1>1. /\ Cardinality(Server) \in Nat
      /\ Idle.pc = "loop" /\ Idle.active = 0 /\ Idle.best = NULL
  BY Zenon, ServerAssumption, FS_CardinalityType DEF Idle
<1>2. Idle \in Thread
  BY <1>1 DEF Idle, Thread
<1>3. /\ \A s \in Server : thread[s] = Idle /\ master[s] = NULL /\ ~up[s]
      /\ case \in Case /\ case.saved \subseteq [is_master : BOOLEAN, status : Status]
      /\ case.crashes \in Nat /\ case.losses \in Nat /\ case.cuts \in Nat
  BY Zenon, CaseAssumption DEF Init
<1>4. TypeOK
  <2>1. saved \in [Server -> [is_master : BOOLEAN, status : Status]]
    BY Zenon, <1>3 DEF Init
  <2>2. crashes \in 0 .. case.crashes /\ losses \in 0 .. case.losses /\ cuts \in 0 .. case.cuts
    BY <1>3 DEF Init
  <2>3. INIT \in Status
    BY Zenon DEF Status
  <2> QED BY Zenon, <1>2, <1>3, <2>1, <2>2, <2>3 DEF Init, TypeOK
<1>5. DownIdle /\ InOrder /\ NotBefore
  BY Zenon, <1>1, <1>3 DEF DownIdle, InOrder, NotBefore
<1>6. Collected
  BY Zenon, <1>1, <1>3 DEF Collected, CollectedBy
<1>7. NoRival
  BY Zenon, <1>3 DEF NoRival, Committed, Announced, Standing, IsMaster
<1> QED BY Zenon, <1>4, <1>5, <1>6, <1>7 DEF IInv

\* No step leaves it.
THEOREM Inductive == Spec => []IInv
<1>1. IInv /\ [Next]_vars => IInv'
  <2> SUFFICES ASSUME IInv, [Next]_vars PROVE IInv'
    BY Zenon
  <2>1. ASSUME NEW s \in Server, Elect(s) PROVE IInv'
    BY Zenon, <2>1, TypeElect, ElectStep, CollectedElect DEF IInv
  <2>2. ASSUME NEW s \in Server, Start(s) \/ Crash(s) \/ SaveInfo(s) \/ Follow(s) \/ Lead(s)
        PROVE  IInv'
    BY Zenon, <2>2, TypeOther, OtherStep, CollectedOther DEF IInv
  <2>3. CASE UNCHANGED vars
    BY Zenon, <2>3 DEF vars, cluster, bounds, IInv, TypeOK, DownIdle, Collected, InOrder,
          NotBefore, NoRival, Committed, Announced, Standing, IsMaster
  <2> QED BY Zenon, <2>1, <2>2, <2>3 DEF Next
<1> QED BY InvInit, <1>1, PTL DEF Spec

\* The variables keep their types: active_count stays within the number of servers, and
\* the status that cluster_select_master decides by is there.
THEOREM TypeCorrect == Spec => []TypeOK
BY Inductive, PTL DEF IInv

\* Whichever servers crash, restart, lose requests and elect at once, no two of them take
\* themselves for the master, as long as every running server can be connected to
\* (cluster_notify_master_changed).
THEOREM OneMaster == Spec => []AtMostOneMaster
<1>1. IInv => AtMostOneMaster
  <2> SUFFICES ASSUME IInv, cuts = 0, NEW a \in Server, NEW b \in Server,
                      IsMaster(a), IsMaster(b), a < b
               PROVE  FALSE
    BY ServerAssumption DEF AtMostOneMaster
  <2> QED BY Zenon DEF IInv, NoRival, Committed, Announced
<1> QED BY <1>1, Inductive, PTL
=============================================================================

---------------------------- MODULE ServiceProofs ----------------------------
(***************************************************************************)
(* The properties of Service hold in every behaviour, for every number of  *)
(* servers and clients and whatever the updates do.  The invariant comes   *)
(* first, then why every step keeps the agreement of the servers and       *)
(* leaves a client at most one request in the server, then what follows    *)
(* for the answers and the inode numbers.                                  *)
(***************************************************************************)
EXTENDS Service, TLAPS

-----------------------------------------------------------------------------
(* The invariant. *)

\* The servers that run agree on the records they both have.
Agreement ==
    /\ master # NULL => /\ master \in active
                        /\ \A s \in up : Consistent(s, master)
    /\ master = NULL => /\ active # {} /\ queue = <<>> /\ jobs = {}
                        /\ \A c \in Client : idem[c] = NoRequest
                        /\ \A r, s \in up : Len(log[r]) <= Len(log[s]) => Consistent(r, s)

\* Given the calls and the registered requests, x is the request its client waits
\* for, registered and not answered.
Waiting(x, calls, requests) ==
    /\ calls[x.client].stage # "idle"
    /\ x.id = calls[x.client].id /\ x.id = requests[x.client].id
    /\ requests[x.client].stage = "dealing"

\* A client has one request in the server.
OneRequest ==
    /\ \A i \in 1 .. Len(queue) : Waiting(queue[i], call, idem)
    /\ \A j \in jobs : Waiting(j, call, idem)
    /\ \A i, k \in 1 .. Len(queue) : i # k => queue[i].client # queue[k].client
    /\ \A i \in 1 .. Len(queue), j \in jobs : queue[i].client # j.client
    /\ \A j, k \in jobs : j # k => j.client # k.client
    /\ \A c \in Client : /\ idem[c].id <= call[c].id
                         /\ got[c].id <= call[c].id /\ got[c].term <= term
                         /\ call[c].stage # "idle" => got[c].id < call[c].id

\* Entry e comes from request id of client c in term t.
From(e, c, id, t) == e.client = c /\ e.id = id /\ e.term = t

\* Data q hold nothing of a request.
Absent(q, c, id, t) == \A v \in 1 .. Len(q) : ~From(q[v], c, id, t)

\* Entries come from requests that have been made; one of the present call is
\* registered, and not in the queue.
Origin ==
    /\ \A s \in Server : \A v \in 1 .. Len(log[s]) :
          /\ log[s][v].term <= term
          /\ log[s][v].id <= call[log[s][v].client].id
    /\ master # NULL =>
          /\ \A c \in Client : idem[c].id # call[c].id
                                => Absent(log[master], c, call[c].id, term)
          /\ \A i \in 1 .. Len(queue) :
                Absent(log[master], queue[i].client, queue[i].id, term)

\* Data q hold an update with its result.
Holds(q, c, id, t, version, out) ==
    /\ version \in 1 .. Len(q)
    /\ From(q[version], c, id, t)
    /\ out \in {q[version].out, q[version].cached}

\* What is known of an update that has been answered: an error has left nothing in
\* the data of those that run, a success is in the data of those that are active.
Answered(c, x, t, data, running, actives) ==
    IF x.err # OK \/ x.version = 0 THEN \A s \in running : Absent(data[s], c, x.id, t)
    ELSE \A s \in actives : Holds(data[s], c, x.id, t, x.version, x.out)

\* What is known of one that has been executed; r is its registered request and q
\* the data of the master.
Prepared(j, r, q, t) ==
    /\ r.version = j.version
    /\ IF j.err # OK \/ j.version = 0
       THEN j.version = 0 /\ Absent(q, j.client, j.id, t)
       ELSE /\ Holds(q, j.client, j.id, t, j.version, j.out)
            /\ Holds(q, j.client, j.id, t, j.version, r.out)

Answers ==
    /\ \A j \in jobs : Prepared(j, idem[j.client], log[master], term)
    /\ \A c \in Client :
          idem[c].stage = "finished" => Answered(c, idem[c], term, log, up, active)
    /\ \A c \in Client :
          got[c].id # 0 => Answered(c, got[c], got[c].term, log, up, active)

\* No number in the data of any server is greater than the master's, nor much greater
\* than that of a server which may become the master.
Numbers ==
    /\ \A s \in Server : lag[s] <= Skip
    /\ early = 0 /\ master # NULL =>
          /\ master \in informed
          /\ \A s \in Server : \A v \in 1 .. Len(log[s]) : log[s][v].new <= sn[master]
          /\ \A s \in informed : sn[master] <= sn[s] + lag[s]
    /\ early = 0 /\ master = NULL =>
          \A r \in up, s \in Server : \A v \in 1 .. Len(log[s]) :
              log[s][v].new <= sn[r] + Skip
    /\ InodesUnique

IInv == TypeOK /\ Agreement /\ OneRequest /\ Origin /\ ExecutedOnce /\ Answers /\ Numbers

-----------------------------------------------------------------------------
(* Sequences. *)

\* The order of the numbers.
LEMMA NatSelf == \A n \in Nat : n <= n
OBVIOUS

\* What is in a list after an element has been added, or the first one taken.
LEMMA ListFacts ==
    ASSUME NEW S, NEW q \in Seq(S)
    PROVE  /\ Len(q) \in Nat /\ DOMAIN q = 1 .. Len(q)
           /\ \A i \in 1 .. Len(q) : q[i] \in S
           /\ \A e \in S : /\ Append(q, e) \in Seq(S) /\ Len(Append(q, e)) = Len(q) + 1
                           /\ \A i \in 1 .. Len(q) : Append(q, e)[i] = q[i]
                           /\ Append(q, e)[Len(q) + 1] = e
           /\ q # <<>> => /\ Head(q) = q[1] /\ Head(q) \in S /\ 1 <= Len(q)
                          /\ Tail(q) \in Seq(S) /\ Len(Tail(q)) = Len(q) - 1
                          /\ \A i \in 1 .. Len(Tail(q)) : Tail(q)[i] = q[i + 1]
<1>1. /\ Len(q) \in Nat /\ DOMAIN q = 1 .. Len(q)
      /\ \A i \in 1 .. Len(q) : q[i] \in S
  OBVIOUS
<1>2. ASSUME NEW e \in S
      PROVE  /\ Append(q, e) \in Seq(S) /\ Len(Append(q, e)) = Len(q) + 1
             /\ \A i \in 1 .. Len(q) : Append(q, e)[i] = q[i]
             /\ Append(q, e)[Len(q) + 1] = e
  BY <1>1
<1>3. ASSUME q # <<>>
      PROVE  /\ Head(q) = q[1] /\ Head(q) \in S /\ 1 <= Len(q)
             /\ Tail(q) \in Seq(S) /\ Len(Tail(q)) = Len(q) - 1
             /\ \A i \in 1 .. Len(Tail(q)) : Tail(q)[i] = q[i + 1]
  <2>1. 1 <= Len(q)
    BY <1>3, <1>1
  <2> QED BY <1>3, <1>1, <2>1
<1> QED BY Zenon, <1>1, <1>2, <1>3

\* The first k elements of a list.
LEMMA FirstOnes ==
    ASSUME NEW S, NEW q \in Seq(S), NEW k \in 0 .. Len(q)
    PROVE  /\ SubSeq(q, 1, k) \in Seq(S) /\ Len(SubSeq(q, 1, k)) = k
           /\ \A i \in 1 .. k : SubSeq(q, 1, k)[i] = q[i]
OBVIOUS

-----------------------------------------------------------------------------
(* Types. *)

\* The entry of the update at the head of the queue, and the version it gets.
EntryOf(res) ==
    [client |-> Head(queue).client, id |-> Head(queue).id, term |-> term,
     rec |-> res.rec, out |-> res.out, cached |-> res.cached,
     new |-> IF res.taken THEN sn[master] + 1 ELSE 0]
Done(res) == res.err = OK /\ res.changes

\* What is appended to the log is an entry.
LEMMA EntryType ==
    ASSUME TypeOK, master # NULL, queue # <<>>, NEW res \in Outcome
    PROVE  EntryOf(res) \in Entry
<1>1. queue \in Seq(Task) /\ sn \in [Server -> Nat] /\ master \in Server /\ term \in Nat
  BY Zenon DEF TypeOK
<1>2. Head(queue) \in Task
  BY Zenon, <1>1, ListFacts
<1>3. res.rec \in Rec /\ res.out \in Nat /\ res.cached \in Nat
  BY Zenon DEF Outcome
<1>4. sn[master] + 1 \in Nat
  BY <1>1
<1> QED BY Zenon, <1>1, <1>2, <1>3, <1>4 DEF EntryOf, Entry, Task

\* The types hold at the start.
LEMMA TypeInit == Init => TypeOK
BY ServiceAssumption DEF Init, TypeOK, Registered, CallState, Received, AnyResult, NoRequest, NoCall, NoAnswer

\* A new call keeps the types.
LEMMA TypeAsk == ASSUME TypeOK, NEW c \in Client, Ask(c) PROVE TypeOK'
BY DEF TypeOK, CallState, Ask, cluster, numbers

\* A lost connection keeps the types.
LEMMA TypeBreak == ASSUME TypeOK, NEW c \in Client, Break(c) PROVE TypeOK'
<1>1. call' \in [Client -> CallState]
  BY Zenon DEF TypeOK, CallState, Break
<1>2. breaks' \in Nat
  BY DEF TypeOK, Break
<1> QED BY Zenon, <1>1, <1>2 DEF TypeOK, Break, cluster, numbers

\* An accepted request keeps the types.
LEMMA TypeAccept ==
    ASSUME TypeOK, NEW c \in Client, NEW req \in Request, Accept(c, req) PROVE TypeOK'
<1>1. queue' \in Seq(Task)
  <2>1. queue \in Seq(Task) /\ [client |-> c, id |-> call[c].id, req |-> req] \in Task
    BY Zenon DEF TypeOK, Task, CallState
  <2> QED BY ZenonT(20), <2>1, ListFacts DEF Accept
<1>2. call' \in [Client -> CallState]
  BY Zenon DEF TypeOK, CallState, Accept
<1>3. idem' \in [Client -> Registered]
  BY Zenon DEF TypeOK, CallState, Registered, AnyResult, Accept, NoRequest
<1> QED BY Zenon, <1>1, <1>2, <1>3 DEF TypeOK, Accept, cluster, numbers, bounds

\* What a client receives is a result.
LEMMA TypeResponse ==
    ASSUME TypeOK, NEW c \in Client, NEW err \in AnyResult, NEW out \in Nat,
           NEW version \in Nat, Response(c, err, out, version)
    PROVE  /\ call' \in [Client -> CallState]
           /\ got' \in [Client -> Received]
BY Zenon DEF TypeOK, CallState, Received, Response

\* A refused request keeps the types.
LEMMA TypeRefuse ==
    ASSUME TypeOK, NEW c \in Client, NEW err \in Errno, Refuse(c, err) PROVE TypeOK'
<1>1. Response(c, err, 0, 0)
  BY Zenon DEF Refuse
<1>2. idem' \in [Client -> Registered]
  BY Zenon DEF TypeOK, CallState, Registered, AnyResult, Refuse, NoRequest
<1> QED BY Zenon, <1>1, <1>2, TypeResponse DEF TypeOK, AnyResult, Refuse, cluster, numbers, bounds

\* An answer given again keeps the types.
LEMMA TypeRepeated ==
    ASSUME TypeOK, NEW c \in Client, Repeated(c) PROVE TypeOK'
<1>1. /\ Response(c, idem[c].err, idem[c].out, idem[c].version)
      /\ idem[c].err \in AnyResult /\ idem[c].out \in Nat /\ idem[c].version \in Nat
  BY Zenon DEF Repeated, TypeOK, Registered
<1> QED BY Zenon, <1>1, TypeResponse DEF TypeOK, Repeated, cluster, numbers, bounds

\* Finishing a request keeps the types of what it changes.
LEMMA TypeFinish ==
    ASSUME TypeOK, NEW j \in Job, Finish(j)
    PROVE  /\ idem' \in [Client -> Registered]
           /\ call' \in [Client -> CallState]
           /\ got' \in [Client -> Received]
<1>1. j.client \in Client /\ j.err \in AnyResult /\ j.out \in Nat /\ j.version \in Nat
  BY Zenon DEF Job
<1>2. idem' \in [Client -> Registered]
  BY ZenonT(30), <1>1 DEF TypeOK, Registered, Finish
<1> QED BY Zenon, <1>1, <1>2, TypeResponse DEF TypeOK, Finish

\* The way to the answer keeps the types.
LEMMA TypeDone ==
    ASSUME TypeOK, NEW j \in jobs, UpdateDone(j) \/ ReplicaDone(j) PROVE TypeOK'
<1>1. jobs \subseteq Job /\ j \in Job /\ [j EXCEPT !.stage = "pushed"] \in Job
  BY Zenon DEF TypeOK, Job
<1>2. CASE Finish(j) /\ jobs' = jobs \ {j}
  BY Zenon, <1>1, <1>2, TypeFinish
     DEF TypeOK, UpdateDone, ReplicaDone, cluster, numbers, bounds
<1>3. CASE /\ jobs' = (jobs \ {j}) \cup {[j EXCEPT !.stage = "pushed"]}
           /\ UNCHANGED <<cluster, log, numbers, queue, bounds, idem, call, got>>
  BY Zenon, <1>1, <1>3 DEF TypeOK, cluster, numbers, bounds
<1> QED BY Zenon, <1>2, <1>3 DEF UpdateDone, ReplicaDone

\* The data thread keeps the types.
LEMMA TypeExecute ==
    ASSUME TypeOK, Agreement, NEW res \in Outcome, Execute(res) PROVE TypeOK'
<1>1. queue # <<>> /\ master # NULL /\ master \in Server
  BY Zenon DEF Execute, Agreement, TypeOK
<1>2. /\ Head(queue) \in Task /\ Tail(queue) \in Seq(Task)
      /\ Head(queue).client \in Client /\ Head(queue).id \in Nat
  <2>1. queue \in Seq(Task)
    BY Zenon DEF TypeOK
  <2>2. Head(queue) \in Task /\ Tail(queue) \in Seq(Task)
    BY Zenon, <1>1, <2>1, ListFacts
  <2> QED BY Zenon, <2>2 DEF Task
<1>3. res.err \in AnyResult /\ res.out \in Nat /\ res.cached \in Nat
  BY Zenon DEF Outcome, AnyResult
<1>4. /\ log \in [Server -> Seq(Entry)] /\ Len(log[master]) + 1 \in Nat
      /\ Append(log[master], EntryOf(res)) \in Seq(Entry)
  <2>1. log \in [Server -> Seq(Entry)]
    BY Zenon DEF TypeOK
  <2> QED BY <1>1, <2>1, EntryType, ListFacts
<1>5. log' \in [Server -> Seq(Entry)]
  <2>1. log' = IF Done(res)
               THEN [log EXCEPT ![master] = Append(log[master], EntryOf(res))] ELSE log
    BY Zenon DEF Execute, EntryOf, Done
  <2> QED BY Zenon, <1>1, <1>4, <2>1
<1>6. sn' \in [Server -> Nat] /\ lag' \in [Server -> Nat]
  <2>1. sn \in [Server -> Nat] /\ lag \in [Server -> Nat]
    BY Zenon DEF TypeOK
  <2>2. CASE res.taken
    BY <1>1, <2>1, <2>2 DEF Execute
  <2>3. CASE ~res.taken
    BY Zenon, <2>1, <2>3 DEF Execute
  <2> QED BY Zenon, <2>2, <2>3
<1> DEFINE version == IF Done(res) THEN Len(log[master]) + 1 ELSE 0
           job == [client |-> Head(queue).client, id |-> Head(queue).id,
                   stage |-> "executed", err |-> res.err, out |-> res.out,
                   version |-> version]
<1>7. version \in Nat
  BY Zenon, <1>4
<1>8. jobs' \subseteq Job
  <2>1. job \in Job
    BY Zenon, <1>2, <1>3, <1>7 DEF Job
  <2> QED BY Zenon, <2>1 DEF TypeOK, Execute, Done
<1>9. idem' \in [Client -> Registered]
  <2> DEFINE h == Head(queue).client
  <2>1. idem' = [idem EXCEPT ![h].version = version,
                             ![h].out = IF res.err = OK THEN res.cached ELSE @]
    BY Zenon DEF Execute, Done
  <2>2. idem \in [Client -> Registered] /\ h \in Client
    BY Zenon, <1>2 DEF TypeOK
  <2> HIDE DEF version, h
  <2>3. idem'[h] = [idem[h] EXCEPT !.version = version,
                                   !.out = IF res.err = OK THEN res.cached ELSE @]
    BY Zenon, <2>1, <2>2
  <2>4. idem'[h] \in Registered
    BY ZenonT(30), <1>3, <1>7, <2>2, <2>3 DEF Registered
  <2>5. \A d \in Client : d # h => idem'[d] = idem[d]
    BY Zenon, <2>1, <2>2
  <2>6. idem' = [d \in Client |-> idem'[d]]
    BY ZenonT(30), <2>1, <2>2
  <2> QED BY Zenon, <2>2, <2>4, <2>5, <2>6
<1> QED BY Zenon, <1>2, <1>5, <1>6, <1>8, <1>9 DEF TypeOK, Execute, cluster, bounds

\* A slave that takes a record keeps the types.
LEMMA TypeCopy ==
    ASSUME TypeOK, NEW s \in Server, Copy(s) PROVE TypeOK'
<1>1. log \in [Server -> Seq(Entry)] /\ master \in Server
  BY Zenon DEF TypeOK, Copy
<1> DEFINE v == Len(log[s]) + 1
<1>2. v \in 1 .. Len(log[master])
  BY <1>1, ListFacts DEF Copy
<1>3. Append(log[s], log[master][v]) \in Seq(Entry)
  BY ZenonT(20), <1>1, <1>2, ListFacts
<1>4. log' = [log EXCEPT ![s] = Append(log[s], log[master][v])]
  BY Zenon DEF Copy
<1>5. log' \in [Server -> Seq(Entry)]
  BY Zenon, <1>1, <1>3, <1>4
<1> QED BY Zenon, <1>5 DEF TypeOK, Copy, cluster, numbers, bounds

\* Joining, pinging, starting and electing keep the types.
LEMMA TypeCluster ==
    ASSUME TypeOK, NEW s \in Server, Join(s) \/ Ping(s) \/ Start(s) \/ SetMaster(s)
    PROVE  TypeOK'
<1>1. CASE Join(s)
  BY Zenon, <1>1 DEF TypeOK, Join, numbers, bounds
<1>2. CASE Ping(s)
  <2>1. sn' \in [Server -> Nat] /\ lag' \in [Server -> Nat]
    BY Zenon, <1>2 DEF TypeOK, Ping
  <2> QED BY Zenon, <1>2, <2>1 DEF TypeOK, Ping, cluster, bounds
<1>3. CASE Start(s)
  <2>1. lag' \in [Server -> Nat]
    BY Zenon, <1>3 DEF TypeOK, Start
  <2> QED BY ZenonT(30), <1>3, <2>1 DEF TypeOK, Start, bounds
<1>4. CASE SetMaster(s)
  <2>1. sn' \in [Server -> Nat] /\ lag' \in [Server -> Nat] /\ term' \in Nat
    BY <1>4, ServiceAssumption DEF TypeOK, SetMaster
  <2> QED BY Zenon, <1>4, <2>1 DEF TypeOK, SetMaster, Elected, bounds
<1> QED BY Zenon, <1>1, <1>2, <1>3, <1>4

\* A server that stops keeps the types; it is no longer active.
LEMMA TypeCrash ==
    ASSUME TypeOK, NEW s \in Server, NEW k \in Writable(s), NEW f \in 0 .. sn[s],
           Crash(s, k, f)
    PROVE  TypeOK'
<1>1. log \in [Server -> Seq(Entry)] /\ sn \in [Server -> Nat]
  BY Zenon DEF TypeOK
<1>2. log' \in [Server -> Seq(Entry)]
  <2>1. SubSeq(log[s], 1, k) \in Seq(Entry)
    BY Zenon, <1>1, FirstOnes DEF Writable
  <2> QED BY Zenon, <1>1, <2>1 DEF Crash
<1>3. sn' \in [Server -> Nat] /\ crashes' \in Nat
  <2>1. crashes \in Nat /\ f \in Nat
    BY <1>1 DEF TypeOK
  <2> QED BY <1>1, <2>1 DEF Crash
<1>4. CASE s = master
  <2>1. early' \in Nat
    <3>1. early \in Nat /\ early' = IF up \subseteq informed THEN early ELSE early + 1
      BY Zenon, <1>4 DEF TypeOK, Crash
    <3> QED BY <3>1
  <2>2. call' \in [Client -> CallState]
    <3>1. /\ call \in [Client -> CallState]
          /\ call' = [c \in Client |->
                        IF call[c].stage = "sent" THEN [call[c] EXCEPT !.stage = "calling"]
                        ELSE call[c]]
      BY Zenon, <1>4 DEF TypeOK, Crash
    <3> QED BY ZenonT(20), <3>1 DEF CallState
  <2>3. idem' \in [Client -> Registered]
    <3>1. idem' = [c \in Client |-> NoRequest]
      BY Zenon, <1>4 DEF Crash
    <3>2. NoRequest \in Registered
      BY Zenon DEF NoRequest, Registered, AnyResult
    <3> QED BY Zenon, <3>1, <3>2
  <2>4. queue' \in Seq(Task) /\ jobs' \subseteq Job /\ master' = NULL
    <3>1. queue' = <<>> /\ jobs' = {} /\ master' = NULL
      BY Zenon, <1>4 DEF Crash
    <3> QED BY <3>1
  <2> QED BY ZenonT(30), <1>2, <1>3, <2>1, <2>2, <2>3, <2>4 DEF TypeOK, Crash, Deactivated
<1>5. CASE s # master
  BY ZenonT(30), <1>2, <1>3, <1>5 DEF TypeOK, Crash, Deactivated
<1> QED BY Zenon, <1>4, <1>5

\* Each step keeps the types.
LEMMA TypeStep == TypeOK /\ Agreement /\ [Next]_vars => TypeOK'
<1> SUFFICES ASSUME TypeOK, Agreement, [Next]_vars PROVE TypeOK'
  BY Zenon
<1>1. CASE UNCHANGED vars
  BY Zenon, <1>1 DEF TypeOK, vars, cluster, numbers, bounds
<1>2. CASE Others
  BY Zenon, <1>2, TypeAsk, TypeBreak, TypeRepeated, TypeDone, TypeCopy, TypeCluster,
     TypeCrash DEF Others
<1>3. CASE Next /\ ~Others
  BY Zenon, <1>3, TypeAccept, TypeRefuse, TypeExecute DEF Next
<1> QED BY Zenon, <1>1, <1>2, <1>3

-----------------------------------------------------------------------------
(* What the steps do to the records of the servers. *)

\* The data thread appends one entry to the log of the master, or none.
LEMMA ExecuteLog ==
    ASSUME TypeOK, Agreement, NEW res \in Outcome, Execute(res)
    PROVE  /\ queue # <<>> /\ master # NULL /\ master \in Server
           /\ ~Done(res) => log' = log
           /\ Done(res) =>
                /\ Len(log'[master]) = Len(log[master]) + 1
                /\ log'[master][Len(log[master]) + 1] = EntryOf(res)
                /\ \A v \in 1 .. Len(log[master]) : log'[master][v] = log[master][v]
                /\ \A s \in Server : s # master => log'[s] = log[s]
<1>1. queue # <<>> /\ master # NULL /\ master \in Server
  BY Zenon DEF Execute, Agreement, TypeOK
<1>2. log \in [Server -> Seq(Entry)] /\ EntryOf(res) \in Entry
  BY Zenon, <1>1, EntryType DEF TypeOK
<1>3. log' = IF Done(res)
             THEN [log EXCEPT ![master] = Append(log[master], EntryOf(res))] ELSE log
  BY Zenon DEF Execute, EntryOf, Done
<1>4. CASE Done(res)
  <2>1. log'[master] = Append(log[master], EntryOf(res))
    BY Zenon, <1>1, <1>2, <1>3, <1>4
  <2>2. \A s \in Server : s # master => log'[s] = log[s]
    BY Zenon, <1>2, <1>3, <1>4
  <2> QED BY <1>1, <1>2, <1>4, <2>1, <2>2, ListFacts
<1> QED BY Zenon, <1>1, <1>3, <1>4

\* A slave takes the next record of the master.
LEMMA CopyLog ==
    ASSUME TypeOK, NEW s \in Server, Copy(s)
    PROVE  /\ master # NULL /\ master \in Server /\ s \in up /\ s # master
           /\ Len(log'[s]) = Len(log[s]) + 1 /\ Len(log[s]) + 1 <= Len(log[master])
           /\ log'[s][Len(log[s]) + 1] = log[master][Len(log[s]) + 1]
           /\ \A v \in 1 .. Len(log[s]) : log'[s][v] = log[s][v]
           /\ \A r \in Server : r # s => log'[r] = log[r]
<1>1. log \in [Server -> Seq(Entry)] /\ master \in Server
  BY Zenon DEF TypeOK, Copy
<1>2. Len(log[s]) + 1 \in 1 .. Len(log[master])
  BY <1>1, ListFacts DEF Copy
<1>3. log[master][Len(log[s]) + 1] \in Entry
  BY Zenon, <1>1, <1>2, ListFacts
<1>4. log' = [log EXCEPT ![s] = Append(log[s], log[master][Len(log[s]) + 1])]
  BY Zenon DEF Copy
<1>5. log'[s] = Append(log[s], log[master][Len(log[s]) + 1])
  BY Zenon, <1>1, <1>4
<1>6. \A r \in Server : r # s => log'[r] = log[r]
  BY Zenon, <1>1, <1>4
<1>7. master # NULL /\ s \in up /\ s # master /\ Len(log[s]) + 1 <= Len(log[master])
  BY Zenon DEF Copy
<1> QED BY <1>1, <1>3, <1>5, <1>6, <1>7, ListFacts

\* A server that stops keeps the first k records.
LEMMA CrashLog ==
    ASSUME TypeOK, NEW s \in Server, NEW k \in Writable(s), NEW f, Crash(s, k, f)
    PROVE  /\ Len(log'[s]) = k /\ k \in 0 .. Len(log[s])
           /\ \A v \in 1 .. k : log'[s][v] = log[s][v]
           /\ \A r \in Server : r # s => log'[r] = log[r]
<1>1. log \in [Server -> Seq(Entry)] /\ k \in 0 .. Len(log[s])
  BY Zenon DEF TypeOK, Writable
<1>2. log' = [log EXCEPT ![s] = SubSeq(log[s], 1, k)]
  BY Zenon DEF Crash
<1>3. log'[s] = SubSeq(log[s], 1, k) /\ \A r \in Server : r # s => log'[r] = log[r]
  BY Zenon, <1>1, <1>2
<1> QED BY <1>1, <1>3, FirstOnes

-----------------------------------------------------------------------------
(* The servers agree. *)

\* All logs are empty at the start.
LEMMA AgreementInit == Init => Agreement
BY ServiceAssumption DEF Init, Agreement, Consistent

\* The steps of the network threads change nothing of it.
LEMMA AgreementKept ==
    ASSUME Agreement, UNCHANGED <<cluster, log>>,
           master = NULL => UNCHANGED <<queue, jobs, idem>>
    PROVE  Agreement'
<1>1. UNCHANGED <<master, up, active, log>>
  BY Zenon DEF cluster
<1>2. CASE master = NULL
  BY <1>1, <1>2 DEF Agreement, Consistent
<1>3. CASE master # NULL
  BY <1>1, <1>3 DEF Agreement, Consistent
<1> QED BY Zenon, <1>2, <1>3

\* The log of the master grows at its end.
LEMMA AgreementExecute ==
    ASSUME TypeOK, Agreement, NEW res \in Outcome, Execute(res) PROVE Agreement'
<1>1. master # NULL /\ master \in Server /\ UNCHANGED <<master, up, active>>
  BY Zenon, ExecuteLog DEF Execute, cluster
<1>2. \A s \in up : Consistent(s, master)'
  <2>1. \A s \in up : s \in Server /\ Consistent(s, master) /\ log[s] \in Seq(Entry)
    BY Zenon, <1>1 DEF TypeOK, Agreement
  <2>2. \A s \in up : Len(log[s]) \in Nat
    BY Zenon, <2>1, ListFacts
  <2>3. Len(log[master]) \in Nat
    BY <1>1, ListFacts DEF TypeOK
  <2>4. CASE ~Done(res)
    <3>1. log' = log
      BY Zenon, <2>4, ExecuteLog
    <3> QED BY Zenon, <1>1, <2>1, <3>1 DEF Consistent
  <2>5. CASE Done(res)
    <3>1. /\ Len(log'[master]) = Len(log[master]) + 1
          /\ \A v \in 1 .. Len(log[master]) : log'[master][v] = log[master][v]
          /\ \A s \in up : s # master => log'[s] = log[s]
      BY Zenon, <2>1, <2>5, ExecuteLog
    <3> QED BY <1>1, <2>1, <2>2, <2>3, <3>1 DEF Consistent
  <2> QED BY Zenon, <2>4, <2>5
<1> QED BY Zenon, <1>1, <1>2 DEF Agreement

\* A slave gets the record the master has at that place.
LEMMA AgreementCopy ==
    ASSUME TypeOK, Agreement, NEW s \in Server, Copy(s) PROVE Agreement'
<1>1. /\ master # NULL /\ master \in Server /\ s # master
      /\ UNCHANGED <<master, up, active>>
  BY Zenon, CopyLog DEF Copy, cluster
<1>2. \A r \in up : r \in Server /\ Consistent(r, master) /\ Len(log[r]) \in Nat
  BY Zenon, <1>1, ListFacts DEF TypeOK, Agreement
<1>3. \A r \in up : Consistent(r, master)'
  <2> SUFFICES ASSUME NEW r \in up PROVE Consistent(r, master)'
    BY Zenon
  <2>1. CASE r = s
    BY SMTT(30), <1>1, <1>2, <2>1, CopyLog DEF Consistent
  <2>2. CASE r # s
    BY <1>1, <1>2, <2>2, CopyLog DEF Consistent
  <2> QED BY Zenon, <2>1, <2>2
<1> QED BY Zenon, <1>1, <1>3 DEF Agreement

\* A server that starts agrees with the master; the elected one has a longest log.
LEMMA AgreementCluster ==
    ASSUME TypeOK, Agreement, NEW s \in Server,
           Join(s) \/ Ping(s) \/ Start(s) \/ SetMaster(s)
    PROVE  Agreement'
<1>1. CASE Join(s) \/ Ping(s) \/ Start(s)
  BY <1>1 DEF Agreement, Join, Ping, Start, Consistent, cluster
<1>2. CASE SetMaster(s)
  BY <1>2, ServiceAssumption DEF Agreement, SetMaster, Elected, Consistent
<1> QED BY Zenon, <1>1, <1>2

\* The beginning of a log agrees with what the log agreed with.
LEMMA AgreementCrash ==
    ASSUME TypeOK, Agreement, NEW s \in Server, NEW k \in Writable(s), NEW f,
           Crash(s, k, f)
    PROVE  Agreement'
<1>1. /\ s \in up /\ up' = up \ {s} /\ active' = active \ {s} /\ (active \cap up) \ {s} # {}
      /\ \A r \in up' : r \in Server /\ log'[r] = log[r] /\ Len(log[r]) \in Nat
  BY SMTT(30), CrashLog, ListFacts DEF Crash, Deactivated, TypeOK
<1>2. CASE s = master
  <2>1. master' = NULL /\ queue' = <<>> /\ jobs' = {} /\ idem' = [c \in Client |-> NoRequest]
    BY Zenon, <1>2 DEF Crash
  <2>2. s # NULL /\ \A r \in up : Consistent(r, master)
    BY Zenon, <1>2, ServiceAssumption DEF Agreement
  <2>3. \A r, t \in up' : Len(log'[r]) <= Len(log'[t]) => Consistent(r, t)'
    BY <1>1, <2>2 DEF Consistent
  <2> QED BY Zenon, <1>1, <2>1, <2>3 DEF Agreement
<1>3. CASE s # master
  <2>1. UNCHANGED <<master, queue, jobs, idem>>
    BY Zenon, <1>3 DEF Crash
  <2>2. CASE master = NULL
    BY <1>1, <2>1, <2>2 DEF Agreement, Consistent
  <2>3. CASE master # NULL
    <3>1. master \in active' /\ master \in up'
      BY Zenon, <1>1, <1>3, <2>3 DEF Agreement, TypeOK
    <3> QED BY <1>1, <2>1, <2>3, <3>1 DEF Agreement, Consistent
  <2> QED BY Zenon, <2>2, <2>3
<1> QED BY Zenon, <1>2, <1>3

\* Every step keeps Agreement.
LEMMA AgreementStep == TypeOK /\ Agreement /\ [Next]_vars => Agreement'
<1> SUFFICES ASSUME TypeOK, Agreement, [Next]_vars PROVE Agreement'
  BY Zenon
<1>1. CASE UNCHANGED vars
  BY Zenon, <1>1, AgreementKept DEF vars
<1>2. ASSUME NEW c \in Client, Ask(c) \/ Break(c) \/ Repeated(c) PROVE Agreement'
  BY Zenon, <1>2, AgreementKept DEF Ask, Break, Repeated
<1>3. ASSUME NEW j \in jobs, UpdateDone(j) \/ ReplicaDone(j) PROVE Agreement'
  <2>1. master # NULL
    BY Zenon, <1>3 DEF Agreement
  <2> QED BY Zenon, <1>3, <2>1, AgreementKept DEF UpdateDone, ReplicaDone
<1>4. ASSUME NEW c \in Client, NEW req \in Request, Accept(c, req) PROVE Agreement'
  BY Zenon, <1>4, AgreementKept DEF Accept, Sends
<1>5. ASSUME NEW c \in Client, NEW err \in Errno, Refuse(c, err) PROVE Agreement'
  BY Zenon, <1>5, AgreementKept DEF Refuse, Sends
<1>6. CASE Others
  BY Zenon, <1>2, <1>3, <1>6, AgreementCopy, AgreementCluster, AgreementCrash DEF Others
<1> QED BY Zenon, <1>1, <1>4, <1>5, <1>6, AgreementExecute DEF Next

-----------------------------------------------------------------------------
(* A client has one request in the server. *)

\* No request at the start.
LEMMA OneRequestInit == Init => OneRequest
BY DEF Init, OneRequest, NoRequest, NoCall, NoAnswer

\* What is in the queue and among the jobs.
LEMMA Items ==
    ASSUME TypeOK
    PROVE  /\ Len(queue) \in Nat
           /\ \A i \in 1 .. Len(queue) : queue[i] \in Task /\ queue[i].client \in Client
           /\ \A j \in jobs : j \in Job /\ j.client \in Client
<1>1. queue \in Seq(Task) /\ jobs \subseteq Job
  BY Zenon DEF TypeOK
<1>2. Len(queue) \in Nat /\ \A i \in 1 .. Len(queue) : queue[i] \in Task
  BY Zenon, <1>1, ListFacts
<1>3. \A t \in Task : t.client \in Client
  BY Zenon DEF Task
<1>4. \A j \in Job : j.client \in Client
  BY Zenon DEF Job
<1> QED BY Zenon, <1>1, <1>2, <1>3, <1>4

\* A client whose request is not being dealt with is in no queue.
LEMMA FreeClient ==
    ASSUME TypeOK, OneRequest, NEW c \in Client,
           \/ call[c].stage = "idle"
           \/ idem[c].id # call[c].id
           \/ idem[c].stage # "dealing"
    PROVE  /\ \A i \in 1 .. Len(queue) : queue[i].client # c
           /\ \A j \in jobs : j.client # c
BY DEF OneRequest, Waiting

\* A step that concerns one client, of which nothing is left in the server.
LEMMA OneRequestFree ==
    ASSUME TypeOK, OneRequest, NEW c \in Client,
           queue' = queue, jobs' \subseteq jobs, term' = term,
           \A i \in 1 .. Len(queue) : queue[i].client # c,
           \A j \in jobs' : j.client # c,
           \A d \in Client : d # c => /\ call'[d] = call[d]
                                     /\ idem'[d] = idem[d] /\ got'[d] = got[d],
           idem'[c].id <= call'[c].id,
           got'[c].id <= call'[c].id, got'[c].term <= term,
           call'[c].stage # "idle" => got'[c].id < call'[c].id
    PROVE  OneRequest'
<1>1. \A i \in 1 .. Len(queue) : Waiting(queue[i], call', idem')
  BY Items DEF OneRequest, Waiting
<1>2. \A j \in jobs' : Waiting(j, call', idem')
  BY Items DEF OneRequest, Waiting
<1>3. \A d \in Client : /\ idem'[d].id <= call'[d].id
                        /\ got'[d].id <= call'[d].id /\ got'[d].term <= term
                        /\ call'[d].stage # "idle" => got'[d].id < call'[d].id
  BY Zenon DEF OneRequest
<1> QED BY <1>1, <1>2, <1>3 DEF OneRequest

\* The numbers of a client.
LEMMA ClientTypes ==
    ASSUME TypeOK, NEW c \in Client
    PROVE  /\ call[c] \in CallState /\ call[c].id \in Nat
           /\ idem[c] \in Registered /\ idem[c].id \in Nat
           /\ got[c] \in Received /\ got[c].id \in Nat /\ got[c].term \in Nat
           /\ term \in Nat
<1>1. call[c] \in CallState /\ idem[c] \in Registered /\ got[c] \in Received /\ term \in Nat
  BY Zenon DEF TypeOK
<1> QED BY Zenon, <1>1 DEF CallState, Registered, Received

\* What a response changes.
LEMMA ResponseFacts ==
    ASSUME TypeOK, NEW c \in Client, NEW err, NEW out, NEW version,
           Response(c, err, out, version)
    PROVE  /\ call'[c].id = call[c].id /\ call'[c].stage = "idle"
           /\ got'[c].id = call[c].id /\ got'[c].term = term
           /\ got'[c].err = err /\ got'[c].out = out /\ got'[c].version = version
           /\ \A d \in Client : d # c => call'[d] = call[d] /\ got'[d] = got[d]
<1>1. call \in [Client -> CallState] /\ got \in [Client -> Received]
  BY Zenon DEF TypeOK
<1>2. call'[c].id = call[c].id /\ call'[c].stage = "idle"
  BY Zenon, <1>1 DEF Response, CallState
<1>3. got'[c] = [id |-> call[c].id, term |-> term, err |-> err, out |-> out,
                 version |-> version]
  BY Zenon, <1>1 DEF Response
<1>4. \A d \in Client : d # c => call'[d] = call[d] /\ got'[d] = got[d]
  BY Zenon, <1>1 DEF Response
<1> QED BY <1>2, <1>3, <1>4

\* Only an idle client calls, and it has no request in the server.
LEMMA OneRequestAsk ==
    ASSUME TypeOK, OneRequest, NEW c \in Client, Ask(c) PROVE OneRequest'
<1>1. /\ call[c].stage = "idle" /\ call'[c] = [id |-> call[c].id + 1, stage |-> "calling"]
      /\ \A d \in Client : d # c => call'[d] = call[d]
      /\ queue' = queue /\ jobs' = jobs /\ idem' = idem /\ got' = got /\ term' = term
  BY Zenon DEF Ask, TypeOK, cluster
<1>2. /\ idem[c].id <= call[c].id + 1 /\ got[c].id < call[c].id + 1 /\ got[c].term <= term
  BY ClientTypes DEF OneRequest
<1>3. /\ \A i \in 1 .. Len(queue) : queue[i].client # c
      /\ \A j \in jobs' : j.client # c
  BY Zenon, <1>1, FreeClient
<1>4. /\ idem'[c].id <= call'[c].id /\ got'[c].id <= call'[c].id /\ got'[c].term <= term
      /\ call'[c].stage # "idle" => got'[c].id < call'[c].id
  BY SMTT(30), <1>1, <1>2, ClientTypes
<1> QED BY Zenon, <1>1, <1>3, <1>4, OneRequestFree

\* A lost connection leaves the request where it is.
LEMMA OneRequestBreak ==
    ASSUME TypeOK, OneRequest, NEW c \in Client, Break(c) PROVE OneRequest'
<1>1. /\ call[c].stage = "sent" /\ call'[c].id = call[c].id /\ call'[c].stage = "calling"
      /\ \A d \in Client : d # c => call'[d] = call[d]
      /\ queue' = queue /\ jobs' = jobs /\ idem' = idem /\ got' = got /\ term' = term
  BY Zenon DEF Break, TypeOK, CallState, cluster
<1> QED BY SMTT(30), <1>1, Items DEF OneRequest, Waiting

\* A refused request is never queued.
LEMMA OneRequestRefuse ==
    ASSUME TypeOK, OneRequest, NEW c \in Client, NEW err \in Errno, Refuse(c, err)
    PROVE  OneRequest'
<1>1. /\ Response(c, err, 0, 0) /\ idem[c].id # call[c].id
      /\ idem'[c].id = call[c].id /\ \A d \in Client : d # c => idem'[d] = idem[d]
      /\ queue' = queue /\ jobs' = jobs /\ term' = term
  BY Zenon DEF Refuse, Known, TypeOK, NoRequest, cluster
<1>2. /\ call'[c].id = call[c].id /\ call'[c].stage = "idle"
      /\ got'[c].id = call[c].id /\ got'[c].term = term
      /\ \A d \in Client : d # c => call'[d] = call[d] /\ got'[d] = got[d]
  BY Zenon, <1>1, ResponseFacts
<1>3. /\ \A i \in 1 .. Len(queue) : queue[i].client # c
      /\ \A j \in jobs' : j.client # c
  BY Zenon, <1>1, FreeClient
<1>4. /\ idem'[c].id <= call'[c].id /\ got'[c].id <= call'[c].id /\ got'[c].term <= term
      /\ call'[c].stage # "idle" => got'[c].id < call'[c].id
  BY <1>1, <1>2, ClientTypes
<1> QED BY Zenon, <1>1, <1>2, <1>3, <1>4, OneRequestFree

\* A finished request is neither queued nor in execution.
LEMMA OneRequestRepeated ==
    ASSUME TypeOK, OneRequest, NEW c \in Client, Repeated(c) PROVE OneRequest'
<1>1. /\ Response(c, idem[c].err, idem[c].out, idem[c].version)
      /\ idem[c].stage # "dealing" /\ idem' = idem
      /\ queue' = queue /\ jobs' = jobs /\ term' = term
  BY Zenon DEF Repeated, cluster
<1>2. idem[c].id <= call[c].id
  BY Zenon DEF OneRequest
<1>3. /\ call'[c].id = call[c].id /\ call'[c].stage = "idle"
      /\ got'[c].id = call[c].id /\ got'[c].term = term
      /\ \A d \in Client : d # c => call'[d] = call[d] /\ got'[d] = got[d]
  BY ZenonT(30), <1>1, ResponseFacts
<1>4. /\ \A i \in 1 .. Len(queue) : queue[i].client # c
      /\ \A j \in jobs' : j.client # c
  BY Zenon, <1>1, FreeClient
<1>5. /\ idem'[c].id <= call'[c].id /\ got'[c].id <= call'[c].id /\ got'[c].term <= term
      /\ call'[c].stage # "idle" => got'[c].id < call'[c].id
  BY SMTT(30), <1>1, <1>2, <1>3, ClientTypes
<1> QED BY Zenon, <1>1, <1>3, <1>4, <1>5, OneRequestFree

\* What Finish changes.
LEMMA FinishFacts ==
    ASSUME TypeOK, NEW j \in jobs, Finish(j)
    PROVE  /\ j.client \in Client
           /\ idem'[j.client].id = idem[j.client].id
           /\ idem'[j.client].stage = "finished" /\ idem'[j.client].err = j.err
           /\ idem'[j.client].out = idem[j.client].out
           /\ idem'[j.client].version = idem[j.client].version
           /\ call'[j.client].id = call[j.client].id
           /\ \/ call[j.client].stage # "sent" /\ call' = call /\ got' = got
              \/ /\ call'[j.client].stage = "idle"
                 /\ got'[j.client].id = call[j.client].id /\ got'[j.client].term = term
                 /\ got'[j.client].err = j.err /\ got'[j.client].out = j.out
                 /\ got'[j.client].version = j.version
           /\ \A d \in Client : d # j.client => /\ call'[d] = call[d]
                                                /\ idem'[d] = idem[d] /\ got'[d] = got[d]
<1>1. j.client \in Client /\ idem \in [Client -> Registered]
  BY ZenonT(20), Items DEF TypeOK
<1>2. /\ idem'[j.client].id = idem[j.client].id
      /\ idem'[j.client].stage = "finished" /\ idem'[j.client].err = j.err
      /\ idem'[j.client].out = idem[j.client].out
      /\ idem'[j.client].version = idem[j.client].version
      /\ \A d \in Client : d # j.client => idem'[d] = idem[d]
  BY <1>1 DEF Finish, Registered
<1>3. CASE call[j.client].stage = "sent"
  <2>1. Response(j.client, j.err, j.out, j.version)
    BY Zenon, <1>3 DEF Finish
  <2> QED BY <1>1, <1>2, <2>1, ResponseFacts
<1>4. CASE call[j.client].stage # "sent"
  BY Zenon, <1>1, <1>2, <1>4 DEF Finish
<1> QED BY ZenonT(20), <1>3, <1>4

\* A request that finishes leaves the server.
LEMMA OneRequestFinish ==
    ASSUME TypeOK, OneRequest, NEW j \in jobs, Finish(j), jobs' = jobs \ {j},
           queue' = queue, term' = term
    PROVE  OneRequest'
<1> DEFINE c == j.client
<1>1. c \in Client
  BY Zenon, Items
<1>2. /\ \A i \in 1 .. Len(queue) : queue[i].client # c
      /\ \A k \in jobs' : k.client # c
      /\ jobs' \subseteq jobs
  BY Zenon DEF OneRequest
<1>3. \A d \in Client : d # c => call'[d] = call[d] /\ idem'[d] = idem[d] /\ got'[d] = got[d]
  BY ZenonT(30), FinishFacts
<1>4. /\ idem[c].id <= call[c].id /\ got[c].id <= call[c].id /\ got[c].term <= term
      /\ call[c].stage # "idle" => got[c].id < call[c].id
  BY Zenon, <1>1 DEF OneRequest
<1>5. /\ idem'[c].id <= call'[c].id /\ got'[c].id <= call'[c].id /\ got'[c].term <= term
      /\ call'[c].stage # "idle" => got'[c].id < call'[c].id
  <2>1. /\ idem'[c].id = idem[c].id /\ call'[c].id = call[c].id
        /\ \/ call' = call /\ got' = got
           \/ call'[c].stage = "idle" /\ got'[c].id = call[c].id /\ got'[c].term = term
    BY Zenon, FinishFacts
  <2> QED BY <1>1, <1>4, <2>1, ClientTypes
<1> HIDE DEF c
<1> QED BY Zenon, <1>1, <1>2, <1>3, <1>5, OneRequestFree

\* The way to the answer keeps a client to one request.
LEMMA OneRequestDone ==
    ASSUME TypeOK, OneRequest, NEW j \in jobs, UpdateDone(j) \/ ReplicaDone(j)
    PROVE  OneRequest'
<1>1. queue' = queue /\ term' = term
  BY Zenon DEF UpdateDone, ReplicaDone, cluster
<1>2. CASE Finish(j) /\ jobs' = jobs \ {j}
  BY Zenon, <1>1, <1>2, OneRequestFinish
<1>3. CASE /\ jobs' = (jobs \ {j}) \cup {[j EXCEPT !.stage = "pushed"]}
           /\ UNCHANGED <<idem, call, got>>
  <2> DEFINE p == [j EXCEPT !.stage = "pushed"]
  <2>1. p.client = j.client /\ p.id = j.id
    BY Zenon, Items DEF Job
  <2>2. jobs' = (jobs \ {j}) \cup {p}
    BY Zenon, <1>3
  <2> HIDE DEF p
  <2>3. \A k \in jobs' : k = p \/ (k \in jobs /\ k # j)
    BY Zenon, <2>2
  <2> QED BY <1>1, <1>3, <2>1, <2>3 DEF OneRequest, Waiting
<1> QED BY Zenon, <1>2, <1>3 DEF UpdateDone, ReplicaDone

\* A request is queued only if its client has none in the server.
LEMMA OneRequestAccept ==
    ASSUME TypeOK, OneRequest, NEW c \in Client, NEW req \in Request, Accept(c, req)
    PROVE  OneRequest'
<1> DEFINE task == [client |-> c, id |-> call[c].id, req |-> req]
<1>1. /\ call[c].stage = "calling" /\ idem[c].id # call[c].id
      /\ jobs' = jobs /\ got' = got /\ term' = term
      /\ queue' = Append(queue, task)
  BY Zenon DEF Accept, Sends, Known, cluster
<1>2. /\ call'[c].id = call[c].id /\ call'[c].stage = "sent"
      /\ \A d \in Client : d # c => call'[d] = call[d]
  BY Zenon DEF Accept, TypeOK, CallState
<1>3. /\ idem'[c].id = call[c].id /\ idem'[c].stage = "dealing"
      /\ \A d \in Client : d # c => idem'[d] = idem[d]
  BY Zenon DEF Accept, TypeOK, NoRequest
<1>4. /\ \A i \in 1 .. Len(queue) : queue[i].client # c
      /\ \A j \in jobs : j.client # c
  BY Zenon, <1>1, FreeClient
<1>5. /\ Len(queue') = Len(queue) + 1 /\ queue'[Len(queue) + 1] = task
      /\ \A i \in 1 .. Len(queue) : queue'[i] = queue[i]
  <2>1. queue \in Seq(Task) /\ task \in Task
    BY Zenon, ClientTypes DEF TypeOK, Task
  <2> HIDE DEF task
  <2> QED BY SMTT(30), <1>1, <2>1, ListFacts
<1>6. task.client = c /\ task.id = call[c].id
  BY Zenon
<1> HIDE DEF task
<1>7. \A i \in 1 .. Len(queue') : i = Len(queue) + 1 \/ i \in 1 .. Len(queue)
  BY SMTT(30), <1>5, Items
<1>8. \A i \in 1 .. Len(queue') : Waiting(queue'[i], call', idem')
  <2>1. \A i \in 1 .. Len(queue) : Waiting(queue[i], call', idem')
    <3> SUFFICES ASSUME NEW i \in 1 .. Len(queue) PROVE Waiting(queue[i], call', idem')
      BY Zenon
    <3>1. Waiting(queue[i], call, idem) /\ queue[i].client \in Client /\ queue[i].client # c
      BY Zenon, <1>4, Items DEF OneRequest
    <3>2. /\ call'[queue[i].client] = call[queue[i].client]
          /\ idem'[queue[i].client] = idem[queue[i].client]
      BY Zenon, <1>2, <1>3, <3>1
    <3> QED BY Zenon, <3>1, <3>2 DEF Waiting
  <2>2. Waiting(task, call', idem')
    BY Zenon, <1>2, <1>3, <1>6 DEF Waiting
  <2> QED BY Zenon, <1>5, <1>7, <2>1, <2>2
<1>9. \A j \in jobs' : Waiting(j, call', idem')
  <2> SUFFICES ASSUME NEW j \in jobs PROVE Waiting(j, call', idem')
    BY Zenon, <1>1
  <2>1. Waiting(j, call, idem) /\ j.client \in Client /\ j.client # c
    BY Zenon, <1>4, Items DEF OneRequest
  <2>2. call'[j.client] = call[j.client] /\ idem'[j.client] = idem[j.client]
    BY Zenon, <1>2, <1>3, <2>1
  <2> QED BY Zenon, <2>1, <2>2 DEF Waiting
<1>10. \A i, k \in 1 .. Len(queue') : i # k => queue'[i].client # queue'[k].client
  <2> SUFFICES ASSUME NEW i \in 1 .. Len(queue'), NEW k \in 1 .. Len(queue'), i # k
               PROVE  queue'[i].client # queue'[k].client
    BY Zenon
  <2>1. CASE i = Len(queue) + 1
    BY Zenon, <1>4, <1>5, <1>6, <1>7, <2>1
  <2>2. CASE k = Len(queue) + 1
    BY Zenon, <1>4, <1>5, <1>6, <1>7, <2>2
  <2>3. CASE i \in 1 .. Len(queue) /\ k \in 1 .. Len(queue)
    BY Zenon, <1>5, <2>3 DEF OneRequest
  <2> QED BY Zenon, <1>7, <2>1, <2>2, <2>3
<1>11. \A i \in 1 .. Len(queue'), j \in jobs' : queue'[i].client # j.client
  <2> SUFFICES ASSUME NEW i \in 1 .. Len(queue'), NEW j \in jobs
               PROVE  queue'[i].client # j.client
    BY Zenon, <1>1
  <2>1. CASE i = Len(queue) + 1
    BY Zenon, <1>4, <1>5, <1>6, <2>1
  <2>2. CASE i \in 1 .. Len(queue)
    BY Zenon, <1>5, <2>2 DEF OneRequest
  <2> QED BY Zenon, <1>7, <2>1, <2>2
<1>12. \A d \in Client : /\ idem'[d].id <= call'[d].id
                         /\ got'[d].id <= call'[d].id /\ got'[d].term <= term'
                         /\ call'[d].stage # "idle" => got'[d].id < call'[d].id
  <2> SUFFICES ASSUME NEW d \in Client
               PROVE  /\ idem'[d].id <= call'[d].id
                      /\ got'[d].id <= call'[d].id /\ got'[d].term <= term'
                      /\ call'[d].stage # "idle" => got'[d].id < call'[d].id
    BY Zenon
  <2>1. /\ idem[d].id <= call[d].id /\ got[d].id <= call[d].id /\ got[d].term <= term
        /\ call[d].stage # "idle" => got[d].id < call[d].id
    BY Zenon DEF OneRequest
  <2> QED BY SMTT(30), <1>1, <1>2, <1>3, <2>1, ClientTypes
<1> QED BY Zenon, <1>1, <1>8, <1>9, <1>10, <1>11, <1>12 DEF OneRequest

\* What Execute does to the request at the head of the queue.
JobOf(res) ==
    [client |-> Head(queue).client, id |-> Head(queue).id, stage |-> "executed",
     err |-> res.err, out |-> res.out,
     version |-> IF Done(res) THEN Len(log[master]) + 1 ELSE 0]

\* What the data thread does to the queue, the tasks and the registered requests.
LEMMA ExecuteFacts ==
    ASSUME TypeOK, Agreement, NEW res \in Outcome, Execute(res)
    PROVE  /\ Head(queue) = queue[1] /\ 1 <= Len(queue) /\ queue[1].client \in Client
           /\ Len(queue') = Len(queue) - 1
           /\ \A i \in 1 .. Len(queue') : queue'[i] = queue[i + 1] /\ i + 1 \in 1 .. Len(queue)
           /\ jobs' = jobs \cup {JobOf(res)}
           /\ idem'[queue[1].client].id = idem[queue[1].client].id
           /\ idem'[queue[1].client].stage = idem[queue[1].client].stage
           /\ idem'[queue[1].client].version = JobOf(res).version
           /\ res.err = OK => idem'[queue[1].client].out = res.cached
           /\ \A d \in Client : d # queue[1].client => idem'[d] = idem[d]
           /\ UNCHANGED <<call, got, master, term, up, active>>
<1>1. queue # <<>> /\ queue \in Seq(Task)
  BY Zenon, ExecuteLog DEF TypeOK
<1>2. /\ Head(queue) = queue[1] /\ 1 <= Len(queue) /\ Len(queue) \in Nat
      /\ Len(Tail(queue)) = Len(queue) - 1
      /\ \A i \in 1 .. Len(Tail(queue)) : Tail(queue)[i] = queue[i + 1]
  BY Zenon, <1>1, ListFacts
<1>3. queue[1].client \in Client
  BY <1>2, Items
<1>4. queue' = Tail(queue) /\ jobs' = jobs \cup {JobOf(res)}
  BY Zenon DEF Execute, JobOf, Done
<1>5. UNCHANGED <<call, got, master, term, up, active>>
  BY Zenon DEF Execute, cluster
<1>6. idem' = [idem EXCEPT ![queue[1].client].version = JobOf(res).version,
                           ![queue[1].client].out = IF res.err = OK THEN res.cached ELSE @]
  BY Zenon, <1>2 DEF Execute, JobOf, Done
<1>7. idem \in [Client -> Registered]
  BY Zenon DEF TypeOK
<1>8. /\ idem'[queue[1].client].id = idem[queue[1].client].id
      /\ idem'[queue[1].client].stage = idem[queue[1].client].stage
      /\ idem'[queue[1].client].version = JobOf(res).version
      /\ res.err = OK => idem'[queue[1].client].out = res.cached
      /\ \A d \in Client : d # queue[1].client => idem'[d] = idem[d]
  BY <1>3, <1>6, <1>7 DEF Registered
<1>9. \A i \in 1 .. Len(queue') : queue'[i] = queue[i + 1] /\ i + 1 \in 1 .. Len(queue)
  BY <1>2, <1>4
<1> QED BY ZenonT(30), <1>2, <1>3, <1>4, <1>5, <1>8, <1>9

\* The request at the head of the queue becomes a task.
LEMMA OneRequestExecute ==
    ASSUME TypeOK, Agreement, OneRequest, NEW res \in Outcome, Execute(res)
    PROVE  OneRequest'
<1> DEFINE job == JobOf(res)
<1>1. job.client = queue[1].client /\ job.id = queue[1].id
  BY Zenon, ExecuteFacts DEF JobOf
<1>2. /\ 1 \in 1 .. Len(queue) /\ queue[1].client \in Client
      /\ \A i \in 1 .. Len(queue') : /\ queue'[i] = queue[i + 1]
                                     /\ i + 1 \in 1 .. Len(queue) /\ i + 1 # 1
      /\ \A i, k \in 1 .. Len(queue') : i # k => i + 1 # k + 1
  <2>1. 1 <= Len(queue) /\ Len(queue) \in Nat /\ Len(queue') = Len(queue) - 1
    BY Zenon, ExecuteFacts, Items
  <2>2. /\ 1 \in 1 .. Len(queue)
        /\ \A i \in 1 .. Len(queue') : i + 1 # 1
        /\ \A i, k \in 1 .. Len(queue') : i # k => i + 1 # k + 1
    BY <2>1
  <2> QED BY Zenon, <2>2, ExecuteFacts
<1>3. \A j \in jobs' : j = job \/ j \in jobs
  BY Zenon, ExecuteFacts
<1>4. /\ call' = call /\ got' = got /\ term' = term
      /\ \A d \in Client : idem'[d].id = idem[d].id /\ idem'[d].stage = idem[d].stage
  BY Zenon, ExecuteFacts
<1> HIDE DEF job
<1>5. \A i \in 1 .. Len(queue') : Waiting(queue'[i], call', idem')
  <2> SUFFICES ASSUME NEW i \in 1 .. Len(queue') PROVE Waiting(queue'[i], call', idem')
    BY Zenon
  <2>1. /\ queue'[i] = queue[i + 1] /\ queue[i + 1].client \in Client
        /\ Waiting(queue[i + 1], call, idem)
    BY Zenon, <1>2, Items DEF OneRequest
  <2> QED BY Zenon, <1>4, <2>1 DEF Waiting
<1>6. \A j \in jobs' : Waiting(j, call', idem')
  <2> SUFFICES ASSUME NEW j \in jobs' PROVE Waiting(j, call', idem')
    BY Zenon
  <2>1. CASE j = job
    <3>1. Waiting(queue[1], call, idem)
      BY Zenon, <1>2 DEF OneRequest
    <3> QED BY ZenonT(30), <1>1, <1>2, <1>4, <2>1, <3>1 DEF Waiting
  <2>2. CASE j \in jobs
    <3>1. Waiting(j, call, idem) /\ j.client \in Client
      BY Zenon, <2>2, Items DEF OneRequest
    <3> QED BY Zenon, <1>4, <3>1 DEF Waiting
  <2> QED BY Zenon, <1>3, <2>1, <2>2
<1>7. \A i, k \in 1 .. Len(queue') : i # k => queue'[i].client # queue'[k].client
  BY ZenonT(30), <1>2 DEF OneRequest
<1>8. \A i \in 1 .. Len(queue'), j \in jobs' : queue'[i].client # j.client
  <2> SUFFICES ASSUME NEW i \in 1 .. Len(queue'), NEW j \in jobs'
               PROVE  queue'[i].client # j.client
    BY Zenon
  <2>1. CASE j = job
    <3>1. /\ queue'[i] = queue[i + 1] /\ i + 1 \in 1 .. Len(queue) /\ i + 1 # 1
          /\ 1 \in 1 .. Len(queue)
      BY Zenon, <1>2
    <3>2. queue[i + 1].client # queue[1].client
      BY Zenon, <3>1 DEF OneRequest
    <3> QED BY Zenon, <1>1, <2>1, <3>1, <3>2
  <2>2. CASE j \in jobs
    <3>1. queue'[i] = queue[i + 1] /\ i + 1 \in 1 .. Len(queue)
      BY Zenon, <1>2
    <3> QED BY Zenon, <2>2, <3>1 DEF OneRequest
  <2> QED BY Zenon, <1>3, <2>1, <2>2
<1>9. \A j, k \in jobs' : j # k => j.client # k.client
  <2> SUFFICES ASSUME NEW j \in jobs', NEW k \in jobs', j # k
               PROVE  j.client # k.client
    BY Zenon
  <2>1. \A x \in jobs : x.client # job.client
    BY Zenon, <1>1, <1>2 DEF OneRequest
  <2>2. CASE j = job \/ k = job
    BY Zenon, <1>3, <2>1, <2>2
  <2>3. CASE j \in jobs /\ k \in jobs
    BY Zenon, <2>3 DEF OneRequest
  <2> QED BY Zenon, <1>3, <2>2, <2>3
<1> QED BY ZenonT(20), <1>4, <1>5, <1>6, <1>7, <1>8, <1>9 DEF OneRequest

\* Steps of the servers.
LEMMA OneRequestKept ==
    ASSUME TypeOK, OneRequest, UNCHANGED <<queue, jobs, idem, call, got>>,
           term' \in Nat, term <= term'
    PROVE  OneRequest'
<1>1. \A c \in Client : got[c].term <= term'
  BY ClientTypes DEF OneRequest
<1> QED BY <1>1 DEF OneRequest

\* What a crash of the master does to the calls.
LEMMA CrashCalls ==
    ASSUME TypeOK, NEW s \in Server, NEW k, NEW f, Crash(s, k, f)
    PROVE  \A c \in Client : /\ call'[c].id = call[c].id
                             /\ call'[c].stage = "idle" <=> call[c].stage = "idle"
<1>1. call \in [Client -> CallState]
  BY Zenon DEF TypeOK
<1>2. CASE s = master
  <2>1. call' = [c \in Client |->
                    IF call[c].stage = "sent" THEN [call[c] EXCEPT !.stage = "calling"]
                    ELSE call[c]]
    BY Zenon, <1>2 DEF Crash
  <2> QED BY Zenon, <1>1, <2>1 DEF CallState
<1>3. CASE s # master
  BY Zenon, <1>3 DEF Crash
<1> QED BY Zenon, <1>2, <1>3

\* With the master all requests are gone.
LEMMA OneRequestCrash ==
    ASSUME TypeOK, OneRequest, NEW s \in Server, NEW k, NEW f, Crash(s, k, f)
    PROVE  OneRequest'
<1>1. term' = term /\ got' = got
  BY Zenon DEF Crash
<1>2. CASE s = master
  <2>1. queue' = <<>> /\ jobs' = {} /\ idem' = [c \in Client |-> NoRequest]
    BY Zenon, <1>2 DEF Crash
  <2>2. Len(queue') = 0 /\ \A c \in Client : idem'[c].id = 0
    BY Zenon, <2>1 DEF NoRequest
  <2>3. \A c \in Client : /\ idem'[c].id <= call'[c].id
                          /\ got'[c].id <= call'[c].id /\ got'[c].term <= term'
                          /\ call'[c].stage # "idle" => got'[c].id < call'[c].id
    <3> TAKE c \in Client
    <3>1. /\ call'[c].id = call[c].id
          /\ call'[c].stage # "idle" => call[c].stage # "idle"
      BY Zenon, CrashCalls
    <3>2. /\ got[c].id <= call[c].id /\ got[c].term <= term
          /\ call[c].stage # "idle" => got[c].id < call[c].id
      BY Zenon DEF OneRequest
    <3>3. call[c].id \in Nat
      BY Zenon, ClientTypes
    <3>4. idem'[c].id = 0
      BY Zenon, <2>2
    <3>5. idem'[c].id <= call'[c].id
      BY <3>1, <3>3, <3>4
    <3> QED BY ZenonT(30), <1>1, <3>1, <3>2, <3>5
  <2>4. 1 .. Len(queue') = {}
    BY <2>2
  <2> QED BY Zenon, <2>1, <2>3, <2>4 DEF OneRequest
<1>3. CASE s # master
  <2>1. UNCHANGED <<queue, jobs, idem, call, got>>
    BY Zenon, <1>3 DEF Crash
  <2>2. term' \in Nat /\ term <= term'
    BY <1>1 DEF TypeOK
  <2> QED BY Zenon, <2>1, <2>2, OneRequestKept
<1> QED BY Zenon, <1>2, <1>3

\* Every step keeps OneRequest.
LEMMA OneRequestStep == TypeOK /\ Agreement /\ OneRequest /\ [Next]_vars => OneRequest'
<1> SUFFICES ASSUME TypeOK, Agreement, OneRequest, [Next]_vars PROVE OneRequest'
  BY Zenon
<1>1. term \in Nat /\ term <= term /\ term <= term + 1 /\ term + 1 \in Nat
  BY DEF TypeOK
<1>2. CASE UNCHANGED vars
  BY Zenon, <1>1, <1>2, OneRequestKept DEF vars, cluster
<1>3. ASSUME NEW s \in Server,
             Copy(s) \/ Join(s) \/ Ping(s) \/ Start(s) \/ SetMaster(s)
      PROVE  OneRequest'
  BY Zenon, <1>1, <1>3, OneRequestKept DEF Copy, Join, Ping, Start, SetMaster, cluster
<1>4. CASE Others
  BY Zenon, <1>3, <1>4, OneRequestAsk, OneRequestBreak, OneRequestRepeated,
     OneRequestDone, OneRequestCrash DEF Others
<1> QED BY Zenon, <1>2, <1>4, OneRequestAccept, OneRequestRefuse, OneRequestExecute DEF Next

-----------------------------------------------------------------------------
(* Data that begin with the same records. *)

Begins(p, q) == Len(p) <= Len(q) /\ \A v \in 1 .. Len(p) : p[v] = q[v]

\* What the shorter data hold, and what the longer ones do not.
LEMMA BeginsFacts ==
    ASSUME NEW p \in Seq(Entry), NEW q \in Seq(Entry), Begins(p, q),
           NEW c, NEW id, NEW t
    PROVE  /\ Absent(q, c, id, t) => Absent(p, c, id, t)
           /\ \A version, out : /\ Holds(p, c, id, t, version, out)
                                   => Holds(q, c, id, t, version, out)
                                /\ Holds(q, c, id, t, version, out) /\ version <= Len(p)
                                   => Holds(p, c, id, t, version, out)
<1>1. Len(p) \in Nat /\ Len(q) \in Nat
  BY Zenon, ListFacts
<1>2. \A v \in 1 .. Len(p) : v \in 1 .. Len(q) /\ p[v] = q[v]
  BY <1>1 DEF Begins
<1>3. \A v \in 1 .. Len(q) : v <= Len(p) => v \in 1 .. Len(p)
  BY <1>1
<1> QED BY Zenon, <1>2, <1>3 DEF Absent, Holds

\* The records of every server.
LEMMA LogTypes ==
    ASSUME TypeOK, NEW s \in Server
    PROVE  /\ log[s] \in Seq(Entry) /\ Len(log[s]) \in Nat
           /\ \A v \in 1 .. Len(log[s]) :
                 /\ log[s][v] \in Entry /\ log[s][v].client \in Client
                 /\ log[s][v].id \in Nat /\ log[s][v].term \in Nat /\ log[s][v].new \in Nat
<1>1. log[s] \in Seq(Entry)
  BY Zenon DEF TypeOK
<1>2. Len(log[s]) \in Nat /\ \A v \in 1 .. Len(log[s]) : log[s][v] \in Entry
  BY Zenon, <1>1, ListFacts
<1>3. \A e \in Entry : e.client \in Client /\ e.id \in Nat /\ e.term \in Nat /\ e.new \in Nat
  BY Zenon DEF Entry
<1> QED BY Zenon, <1>1, <1>2, <1>3

\* No record is new to all servers: each has the first records of some server.
OldData ==
    \A r \in Server : \E t \in Server :
        \A v \in 1 .. Len(log'[r]) : v \in 1 .. Len(log[t]) /\ log'[r][v] = log[t][v]

\* Steps that leave the logs alone.
LEMMA OldKept == ASSUME log' = log PROVE OldData
BY Zenon DEF OldData

\* A slave gets nothing that the master has not.
LEMMA OldCopy ==
    ASSUME TypeOK, Agreement, NEW s \in Server, Copy(s) PROVE OldData
<1>1. /\ master # NULL /\ master \in Server /\ s \in up /\ Consistent(s, master)
      /\ Len(log[s]) \in Nat /\ Len(log[master]) \in Nat
  BY Zenon, CopyLog, LogTypes DEF Agreement
<1>2. \A v \in 1 .. Len(log'[s]) : v \in 1 .. Len(log[master]) /\ log'[s][v] = log[master][v]
  BY SMTT(30), <1>1, CopyLog DEF Consistent
<1>3. \A r \in Server : r # s => log'[r] = log[r]
  BY Zenon, CopyLog
<1> QED BY <1>1, <1>2, <1>3 DEF OldData

\* A server that stops only loses entries.
LEMMA OldCrash ==
    ASSUME TypeOK, NEW s \in Server, NEW k \in Writable(s), NEW f, Crash(s, k, f)
    PROVE  OldData
<1>1. Len(log[s]) \in Nat
  BY Zenon, LogTypes
<1>2. \A v \in 1 .. Len(log'[s]) : v \in 1 .. Len(log[s]) /\ log'[s][v] = log[s][v]
  BY <1>1, CrashLog
<1>3. \A r \in Server : r # s => log'[r] = log[r]
  BY Zenon, CrashLog
<1> QED BY Zenon, <1>2, <1>3 DEF OldData

-----------------------------------------------------------------------------
(* Where the records come from. *)

\* No entry, no request at the start.
LEMMA OriginInit == Init => Origin
BY DEF Init, Origin, NoRequest, NoCall, Absent

\* Steps that give the master no record.
LEMMA OriginOld ==
    ASSUME TypeOK, Origin, OldData, term' \in Nat, term <= term',
           \A c \in Client : call'[c].id \in Nat /\ call[c].id <= call'[c].id
    PROVE  \A s \in Server : \A v \in 1 .. Len(log'[s]) :
              /\ log'[s][v].term <= term'
              /\ log'[s][v].id <= call'[log'[s][v].client].id
<1> SUFFICES ASSUME NEW s \in Server, NEW v \in 1 .. Len(log'[s])
             PROVE  /\ log'[s][v].term <= term'
                    /\ log'[s][v].id <= call'[log'[s][v].client].id
  BY Zenon
<1>1. PICK t \in Server : v \in 1 .. Len(log[t]) /\ log'[s][v] = log[t][v]
  BY Zenon DEF OldData
<1>2. /\ log[t][v].term <= term /\ log[t][v].id <= call[log[t][v].client].id
      /\ log[t][v].client \in Client /\ log[t][v].id \in Nat /\ log[t][v].term \in Nat
  BY Zenon, <1>1, LogTypes DEF Origin
<1>3. term \in Nat /\ call[log[t][v].client].id \in Nat
  BY Zenon, <1>2, ClientTypes DEF TypeOK
<1>4. log[t][v].id <= call'[log[t][v].client].id
  BY SMTT(30), <1>2, <1>3
<1> QED BY <1>1, <1>2, <1>3, <1>4

\* Steps that leave the queue and the numbers of the requests.
LEMMA OriginKept ==
    ASSUME TypeOK, Origin, OldData, term' = term, queue' = queue, master' = master,
           master # NULL => log'[master] = log[master],
           \A c \in Client : /\ call'[c].id = call[c].id
                             /\ idem'[c].id = idem[c].id \/ idem'[c].id = call[c].id
    PROVE  Origin'
<1>1. \A s \in Server : \A v \in 1 .. Len(log'[s]) :
         /\ log'[s][v].term <= term'
         /\ log'[s][v].id <= call'[log'[s][v].client].id
  <2>1. term' \in Nat /\ term <= term'
    BY Zenon, NatSelf DEF TypeOK
  <2>2. \A c \in Client : call'[c].id \in Nat /\ call[c].id <= call'[c].id
    BY Zenon, ClientTypes, NatSelf
  <2> QED BY Zenon, <2>1, <2>2, OriginOld
<1>2. ASSUME master # NULL
      PROVE  /\ \A c \in Client : idem'[c].id # call'[c].id
                                    => Absent(log'[master], c, call'[c].id, term)
             /\ \A i \in 1 .. Len(queue) :
                   Absent(log'[master], queue[i].client, queue[i].id, term)
  BY Zenon, <1>2 DEF Origin
<1> QED BY ZenonT(20), <1>1, <1>2 DEF Origin

\* A new call has a number that no entry has.
LEMMA OriginAsk ==
    ASSUME TypeOK, Origin, NEW c \in Client, Ask(c) PROVE Origin'
<1>1. /\ call'[c].id = call[c].id + 1 /\ \A d \in Client : d # c => call'[d] = call[d]
      /\ UNCHANGED <<master, term, log, queue, idem>>
  BY Zenon DEF Ask, TypeOK, cluster
<1>2. \A d \in Client : call'[d].id \in Nat /\ call[d].id <= call'[d].id
  BY <1>1, ClientTypes
<1>3. \A s \in Server : \A v \in 1 .. Len(log'[s]) :
         /\ log'[s][v].term <= term'
         /\ log'[s][v].id <= call'[log'[s][v].client].id
  <2>1. term' \in Nat /\ term <= term'
    BY Zenon, <1>1, NatSelf DEF TypeOK
  <2> QED BY Zenon, <1>1, <1>2, <2>1, OldKept, OriginOld
<1>4. master # NULL => Absent(log[master], c, call[c].id + 1, term)
  <2> SUFFICES ASSUME master # NULL, NEW v \in 1 .. Len(log[master]),
                      log[master][v].client = c, log[master][v].id = call[c].id + 1
               PROVE  FALSE
    BY Zenon DEF Absent, From
  <2>1. master \in Server
    BY Zenon DEF TypeOK
  <2>2. log[master][v].id <= call[c].id
    BY Zenon, <2>1 DEF Origin
  <2> QED BY <2>2, ClientTypes
<1>5. master # NULL =>
        \A d \in Client : idem[d].id # call'[d].id => Absent(log[master], d, call'[d].id, term)
  BY Zenon, <1>1, <1>4 DEF Origin
<1> QED BY Zenon, <1>1, <1>3, <1>5 DEF Origin

\* A request that is registered now has left nothing yet.
LEMMA OriginAccept ==
    ASSUME TypeOK, Origin, NEW c \in Client, NEW req \in Request, Accept(c, req)
    PROVE  Origin'
<1> DEFINE task == [client |-> c, id |-> call[c].id, req |-> req]
<1>1. /\ master # NULL /\ idem[c].id # call[c].id
      /\ UNCHANGED <<master, term, log>> /\ queue' = Append(queue, task)
  BY Zenon DEF Accept, Sends, Known, cluster
<1>2. /\ \A d \in Client : call'[d].id = call[d].id
      /\ idem'[c].id = call[c].id /\ \A d \in Client : d # c => idem'[d] = idem[d]
  BY DEF Accept, TypeOK, CallState, NoRequest
<1>3. \A s \in Server : \A v \in 1 .. Len(log'[s]) :
         /\ log'[s][v].term <= term'
         /\ log'[s][v].id <= call'[log'[s][v].client].id
  <2>1. \A d \in Client : call'[d].id \in Nat /\ call[d].id <= call'[d].id
    BY Zenon, <1>2, ClientTypes, NatSelf
  <2>2. term' \in Nat /\ term <= term'
    BY Zenon, <1>1, NatSelf DEF TypeOK
  <2> QED BY Zenon, <1>1, <2>1, <2>2, OldKept, OriginOld
<1>4. Absent(log[master], c, call[c].id, term)
  BY Zenon, <1>1 DEF Origin
<1>5. task.client = c /\ task.id = call[c].id
  BY Zenon
<1>6. /\ Len(queue') = Len(queue) + 1 /\ queue'[Len(queue) + 1] = task
      /\ \A i \in 1 .. Len(queue) : queue'[i] = queue[i]
  <2>1. queue \in Seq(Task) /\ task \in Task
    BY Zenon, ClientTypes DEF TypeOK, Task
  <2> HIDE DEF task
  <2> QED BY <1>1, <2>1, ListFacts
<1> HIDE DEF task
<1>7. \A i \in 1 .. Len(queue') : Absent(log[master], queue'[i].client, queue'[i].id, term)
  <2>1. Len(queue) \in Nat
    BY Zenon, Items
  <2>2. \A i \in 1 .. Len(queue') : i \in 1 .. Len(queue) \/ i = Len(queue) + 1
    BY <1>6, <2>1
  <2> QED BY Zenon, <1>1, <1>4, <1>5, <1>6, <2>2 DEF Origin
<1>8. \A d \in Client : idem'[d].id # call'[d].id => Absent(log[master], d, call'[d].id, term)
  BY Zenon, <1>1, <1>2 DEF Origin
<1> QED BY Zenon, <1>1, <1>3, <1>7, <1>8 DEF Origin

\* Execute adds a record of the client whose request it executes.
LEMMA ExecuteAbsent ==
    ASSUME TypeOK, Agreement, NEW res \in Outcome, Execute(res),
           NEW c, NEW id, NEW t, NEW s \in Server, Absent(log[s], c, id, t),
           s = master => ~(c = queue[1].client /\ id = queue[1].id /\ t = term)
    PROVE  Absent(log'[s], c, id, t)
<1>1. CASE Done(res) /\ s = master
  <2>1. ~From(EntryOf(res), c, id, t)
    BY Zenon, <1>1, ExecuteFacts DEF EntryOf, From
  <2>2. Len(log[s]) \in Nat
    BY Zenon, LogTypes
  <2>3. \A v \in 1 .. Len(log'[s]) : v \in 1 .. Len(log[s]) \/ v = Len(log[s]) + 1
    BY <1>1, <2>2, ExecuteLog
  <2>4. /\ log'[s][Len(log[s]) + 1] = EntryOf(res)
        /\ \A v \in 1 .. Len(log[s]) : log'[s][v] = log[s][v]
    BY Zenon, <1>1, ExecuteLog
  <2> QED BY Zenon, <2>1, <2>3, <2>4 DEF Absent
<1>2. CASE ~(Done(res) /\ s = master)
  <2>1. log'[s] = log[s]
    BY Zenon, <1>2, ExecuteLog
  <2> QED BY Zenon, <2>1
<1> QED BY Zenon, <1>1, <1>2

\* The new entry is from the head of the queue, which is registered.
LEMMA OriginExecute ==
    ASSUME TypeOK, Agreement, OneRequest, Origin, NEW res \in Outcome, Execute(res)
    PROVE  Origin'
<1>1. /\ master # NULL /\ master \in Server /\ UNCHANGED <<call, master, term>>
      /\ 1 \in 1 .. Len(queue) /\ queue[1].client \in Client
  <2>1. /\ master # NULL /\ master \in Server /\ UNCHANGED <<call, master, term>>
        /\ 1 <= Len(queue) /\ Len(queue) \in Nat /\ queue[1].client \in Client
    BY Zenon, ExecuteLog, ExecuteFacts, Items
  <2>2. 1 \in 1 .. Len(queue)
    BY <2>1
  <2> QED BY Zenon, <2>1, <2>2
<1>2. queue[1].id = call[queue[1].client].id /\ queue[1].id = idem[queue[1].client].id
  BY Zenon, <1>1 DEF OneRequest, Waiting
<1>3. \A s \in Server : \A v \in 1 .. Len(log'[s]) :
         log'[s][v].term <= term /\ log'[s][v].id <= call[log'[s][v].client].id
  <2> SUFFICES ASSUME NEW s \in Server, NEW v \in 1 .. Len(log'[s])
               PROVE  log'[s][v].term <= term /\ log'[s][v].id <= call[log'[s][v].client].id
    BY Zenon
  <2>1. CASE v \in 1 .. Len(log[s]) /\ log'[s][v] = log[s][v]
    BY Zenon, <2>1 DEF Origin
  <2>2. CASE log'[s][v] = EntryOf(res)
    <3>1. /\ EntryOf(res).term = term /\ EntryOf(res).client = queue[1].client
          /\ EntryOf(res).id = queue[1].id
      BY Zenon, ExecuteFacts DEF EntryOf
    <3>2. term \in Nat /\ call[queue[1].client].id \in Nat
      BY Zenon, <1>1, ClientTypes
    <3>3. term <= term /\ call[queue[1].client].id <= call[queue[1].client].id
      BY <3>2
    <3> QED BY Zenon, <1>2, <2>2, <3>1, <3>3
  <2>3. CASE log'[s] = log[s]
    BY Zenon, <2>1, <2>3
  <2>4. CASE Done(res) /\ s = master
    <3>1. /\ Len(log[s]) \in Nat /\ Len(log'[s]) = Len(log[s]) + 1
          /\ log'[s][Len(log[s]) + 1] = EntryOf(res)
          /\ \A u \in 1 .. Len(log[s]) : log'[s][u] = log[s][u]
      BY Zenon, <2>4, ExecuteLog, LogTypes
    <3>2. v \in 1 .. Len(log[s]) \/ v = Len(log[s]) + 1
      BY <3>1
    <3> QED BY Zenon, <2>1, <2>2, <3>1, <3>2
  <2> QED BY Zenon, <2>3, <2>4, ExecuteLog
<1>4. \A d \in Client : idem'[d].id # call[d].id => Absent(log'[master], d, call[d].id, term)
  <2> SUFFICES ASSUME NEW d \in Client, idem'[d].id # call[d].id
               PROVE  Absent(log'[master], d, call[d].id, term)
    BY Zenon
  <2>1. idem'[d].id = idem[d].id
    BY Zenon, ExecuteFacts
  <2>2. d # queue[1].client /\ Absent(log[master], d, call[d].id, term)
    BY Zenon, <1>1, <1>2, <2>1 DEF Origin
  <2> QED BY Zenon, <1>1, <2>2, ExecuteAbsent
<1>5. \A i \in 1 .. Len(queue') :
         Absent(log'[master], queue'[i].client, queue'[i].id, term)
  <2> SUFFICES ASSUME NEW i \in 1 .. Len(queue')
               PROVE  Absent(log'[master], queue'[i].client, queue'[i].id, term)
    BY Zenon
  <2>1. queue'[i] = queue[i + 1] /\ i + 1 \in 1 .. Len(queue) /\ i + 1 # 1
    BY ExecuteFacts, Items
  <2>2. /\ queue[i + 1].client # queue[1].client
        /\ Absent(log[master], queue[i + 1].client, queue[i + 1].id, term)
    BY Zenon, <1>1, <2>1 DEF OneRequest, Origin
  <2> QED BY Zenon, <1>1, <2>1, <2>2, ExecuteAbsent
<1> QED BY Zenon, <1>1, <1>3, <1>4, <1>5 DEF Origin

\* No entry is from the term that begins.
LEMMA OriginSetMaster ==
    ASSUME TypeOK, Agreement, Origin, NEW s \in Server, SetMaster(s) PROVE Origin'
<1>1. master = NULL /\ master' = s /\ term' = term + 1 /\ UNCHANGED <<log, queue, idem, call>>
  BY Zenon DEF SetMaster
<1>2. term \in Nat /\ term' \in Nat /\ term <= term'
  BY <1>1 DEF TypeOK
<1>3. \A r \in Server : \A v \in 1 .. Len(log'[r]) :
         /\ log'[r][v].term <= term'
         /\ log'[r][v].id <= call'[log'[r][v].client].id
  <2>1. \A d \in Client : call'[d].id \in Nat /\ call[d].id <= call'[d].id
    BY <1>1, ClientTypes
  <2> QED BY Zenon, <1>1, <1>2, <2>1, OldKept, OriginOld
<1>4. \A c, id : Absent(log[s], c, id, term + 1)
  <2>1. \A v \in 1 .. Len(log[s]) : log[s][v].term # term + 1
    BY <1>2, LogTypes DEF Origin
  <2> QED BY Zenon, <2>1 DEF Absent, From
<1> QED BY Zenon, <1>1, <1>3, <1>4 DEF Origin

\* Without a master nothing is queued; entries are only lost.
LEMMA OriginCrash ==
    ASSUME TypeOK, Origin, NEW s \in Server, NEW k \in Writable(s), NEW f, Crash(s, k, f)
    PROVE  Origin'
<1>1. term' = term /\ OldData /\ \A d \in Client : call'[d].id = call[d].id
  BY Zenon, OldCrash, CrashCalls DEF Crash
<1>2. CASE s = master
  <2>1. master' = NULL
    BY Zenon, <1>2 DEF Crash
  <2>2. \A d \in Client : call'[d].id \in Nat /\ call[d].id <= call'[d].id
    BY <1>1, ClientTypes
  <2>3. term' \in Nat /\ term <= term'
    BY <1>1 DEF TypeOK
  <2>4. \A r \in Server : \A v \in 1 .. Len(log'[r]) :
           /\ log'[r][v].term <= term'
           /\ log'[r][v].id <= call'[log'[r][v].client].id
    BY Zenon, <1>1, <2>2, <2>3, OriginOld
  <2> QED BY Zenon, <2>1, <2>4 DEF Origin
<1>3. CASE s # master
  <2>1. UNCHANGED <<master, queue, idem>>
    BY Zenon, <1>3 DEF Crash
  <2>2. master # NULL => log'[master] = log[master]
    BY ZenonT(20), <1>3, CrashLog DEF TypeOK
  <2> QED BY Zenon, <1>1, <2>1, <2>2, OriginKept
<1> QED BY Zenon, <1>2, <1>3

\* Every step keeps Origin.
LEMMA OriginStep ==
    TypeOK /\ Agreement /\ OneRequest /\ Origin /\ [Next]_vars => Origin'
<1> SUFFICES ASSUME TypeOK, Agreement, OneRequest, Origin, [Next]_vars PROVE Origin'
  BY Zenon
<1>1. CASE UNCHANGED vars
  BY Zenon, <1>1, OldKept, OriginKept DEF vars, cluster
<1>2. ASSUME NEW c \in Client, Break(c) PROVE Origin'
  <2>1. \A d \in Client : call'[d].id = call[d].id
    BY Zenon, <1>2 DEF Break, TypeOK, CallState
  <2> QED BY Zenon, <1>2, <2>1, OldKept, OriginKept DEF Break, cluster
<1>3. ASSUME NEW c \in Client, Repeated(c) PROVE Origin'
  <2>1. \A d \in Client : call'[d].id = call[d].id
    BY Zenon, <1>3, ResponseFacts DEF Repeated
  <2> QED BY Zenon, <1>3, <2>1, OldKept, OriginKept DEF Repeated, cluster
<1>4. ASSUME NEW c \in Client, NEW err \in Errno, Refuse(c, err) PROVE Origin'
  <2>1. \A d \in Client : call'[d].id = call[d].id
    BY Zenon, <1>4, ResponseFacts DEF Refuse
  <2>2. \A d \in Client : idem'[d].id = idem[d].id \/ idem'[d].id = call[d].id
    BY ZenonT(20), <1>4 DEF Refuse, TypeOK, NoRequest
  <2> QED BY Zenon, <1>4, <2>1, <2>2, OldKept, OriginKept DEF Refuse, cluster
<1>5. ASSUME NEW j \in jobs, UpdateDone(j) \/ ReplicaDone(j) PROVE Origin'
  <2>1. UNCHANGED <<master, term, log, queue>>
    BY Zenon, <1>5 DEF UpdateDone, ReplicaDone, cluster
  <2>2. Finish(j) \/ UNCHANGED <<idem, call>>
    BY Zenon, <1>5 DEF UpdateDone, ReplicaDone
  <2>3. \A d \in Client : call'[d].id = call[d].id /\ idem'[d].id = idem[d].id
    BY Zenon, <2>2, FinishFacts
  <2> QED BY Zenon, <2>1, <2>3, OldKept, OriginKept
<1>6. ASSUME NEW s \in Server, Copy(s) PROVE Origin'
  <2>1. log'[master] = log[master]
    BY Zenon, <1>6, CopyLog
  <2> QED BY Zenon, <1>6, <2>1, OldCopy, OriginKept DEF Copy, cluster
<1>7. ASSUME NEW s \in Server, Join(s) \/ Ping(s) \/ Start(s) PROVE Origin'
  BY Zenon, <1>7, OldKept, OriginKept DEF Join, Ping, Start, cluster
<1>8. CASE Others
  BY ZenonT(30), <1>2, <1>3, <1>5, <1>6, <1>7, <1>8, OriginAsk, OriginSetMaster, OriginCrash
     DEF Others
<1> QED BY Zenon, <1>1, <1>4, <1>8, OriginAccept, OriginExecute DEF Next

-----------------------------------------------------------------------------
(* No request is executed twice. *)

Distinct(e, f) == e.client # f.client \/ e.id # f.id \/ e.term # f.term

\* Entries that were there before are from different requests.
LEMMA OnceOld == ASSUME ExecutedOnce, OldData PROVE ExecutedOnce'
<1> SUFFICES ASSUME NEW s \in Server, NEW v \in 1 .. Len(log'[s]),
                    NEW w \in 1 .. Len(log'[s]), v # w
             PROVE  Distinct(log'[s][v], log'[s][w])
  BY DEF ExecutedOnce, Distinct
<1>1. PICK t \in Server : /\ v \in 1 .. Len(log[t]) /\ log'[s][v] = log[t][v]
                         /\ w \in 1 .. Len(log[t]) /\ log'[s][w] = log[t][w]
  BY Zenon DEF OldData
<1>2. Distinct(log[t][v], log[t][w])
  BY Zenon, <1>1 DEF ExecutedOnce, Distinct
<1> QED BY Zenon, <1>1, <1>2

\* The new entry is from a request that had left nothing.
LEMMA OnceExecute ==
    ASSUME TypeOK, Agreement, Origin, ExecutedOnce, NEW res \in Outcome, Execute(res)
    PROVE  ExecutedOnce'
<1>1. CASE ~Done(res)
  BY ZenonT(20), <1>1, ExecuteLog, OldKept, OnceOld
<1>2. CASE Done(res)
  <2>1. \A v \in 1 .. Len(log[master]) : ~From(log[master][v], EntryOf(res).client,
                                               EntryOf(res).id, EntryOf(res).term)
    <3>1. master # NULL /\ 1 \in 1 .. Len(queue)
      <4>1. master # NULL /\ 1 <= Len(queue) /\ Len(queue) \in Nat
        BY Zenon, ExecuteLog, ExecuteFacts, Items
      <4> QED BY <4>1
    <3>2. Absent(log[master], queue[1].client, queue[1].id, term)
      BY Zenon, <3>1 DEF Origin
    <3>3. /\ EntryOf(res).client = queue[1].client /\ EntryOf(res).id = queue[1].id
          /\ EntryOf(res).term = term
      BY Zenon, ExecuteFacts DEF EntryOf
    <3> QED BY Zenon, <3>2, <3>3 DEF Absent
  <2>2. /\ master \in Server /\ Len(log[master]) \in Nat
        /\ Len(log'[master]) = Len(log[master]) + 1
        /\ log'[master][Len(log[master]) + 1] = EntryOf(res)
        /\ \A v \in 1 .. Len(log[master]) : log'[master][v] = log[master][v]
        /\ \A s \in Server : s # master => log'[s] = log[s]
    BY Zenon, <1>2, ExecuteLog, LogTypes
  <2>3. \A v \in 1 .. Len(log[master]) : /\ Distinct(log[master][v], EntryOf(res))
                                          /\ Distinct(EntryOf(res), log[master][v])
    BY Zenon, <2>1 DEF From, Distinct
  <2> SUFFICES ASSUME NEW s \in Server, NEW v \in 1 .. Len(log'[s]),
                      NEW w \in 1 .. Len(log'[s]), v # w
               PROVE  Distinct(log'[s][v], log'[s][w])
    BY ZenonT(20) DEF ExecutedOnce, Distinct
  <2>4. CASE s # master
    <3>1. log'[s] = log[s]
      BY Zenon, <2>2, <2>4
    <3>2. v \in 1 .. Len(log[s]) /\ w \in 1 .. Len(log[s])
      BY Zenon, <3>1
    <3>3. Distinct(log[s][v], log[s][w])
      BY Zenon, <3>2 DEF ExecutedOnce, Distinct
    <3> QED BY Zenon, <3>1, <3>3
  <2>5. CASE s = master /\ v = Len(log[master]) + 1
    <3>1. w \in 1 .. Len(log[master])
      BY <2>2, <2>5
    <3> QED BY Zenon, <2>2, <2>3, <2>5, <3>1
  <2>6. CASE s = master /\ w = Len(log[master]) + 1
    <3>1. v \in 1 .. Len(log[master])
      BY <2>2, <2>6
    <3> QED BY Zenon, <2>2, <2>3, <2>6, <3>1
  <2>7. CASE s = master /\ v \in 1 .. Len(log[master]) /\ w \in 1 .. Len(log[master])
    <3>1. Distinct(log[master][v], log[master][w])
      BY ZenonT(20), <2>2, <2>7 DEF ExecutedOnce, Distinct
    <3> QED BY Zenon, <2>2, <2>7, <3>1
  <2> QED BY SMTT(30), <2>2, <2>4, <2>5, <2>6, <2>7
<1> QED BY Zenon, <1>1, <1>2

\* Which steps bring no new record.
LEMMA OldStep ==
    ASSUME TypeOK, Agreement, [Next]_vars, ~(\E res \in Outcome : Execute(res))
    PROVE  OldData
<1>1. CASE log' = log
  BY Zenon, <1>1, OldKept
<1>2. CASE Others
  BY Zenon, <1>1, <1>2, OldCopy, OldCrash
     DEF Others, Ask, Break, Repeated, UpdateDone, ReplicaDone, Join, Ping, Start, SetMaster
<1> QED BY Zenon, <1>1, <1>2 DEF Next, vars, Accept, Refuse

\* Every step keeps ExecutedOnce.
LEMMA OnceStep ==
    TypeOK /\ Agreement /\ Origin /\ ExecutedOnce /\ [Next]_vars => ExecutedOnce'
BY Zenon, OnceExecute, OnceOld, OldStep

-----------------------------------------------------------------------------
(* Inode numbers. *)

\* No number has been given out in the model at the start.
LEMMA NumbersInit == Init => Numbers
BY ServiceAssumption DEF Init, Numbers, InodesUnique

\* Entries that were there before have different numbers.
LEMMA UniqueOld ==
    ASSUME InodesUnique, OldData, early' = 0 => early = 0 PROVE InodesUnique'
<1> SUFFICES ASSUME early' = 0, NEW s \in Server, NEW v \in 1 .. Len(log'[s]),
                    NEW w \in 1 .. Len(log'[s]), v # w, log'[s][v].new # 0
             PROVE  log'[s][v].new # log'[s][w].new
  BY Zenon DEF InodesUnique
<1>1. PICK t \in Server : /\ v \in 1 .. Len(log[t]) /\ log'[s][v] = log[t][v]
                         /\ w \in 1 .. Len(log[t]) /\ log'[s][w] = log[t][w]
  BY Zenon DEF OldData
<1> QED BY Zenon, <1>1 DEF InodesUnique

\* Steps that leave the numbers.
LEMMA NumbersKept ==
    ASSUME TypeOK, Numbers, OldData, UNCHANGED <<numbers, master, up>> PROVE Numbers'
<1>1. UNCHANGED <<sn, lag, informed, early, master, up>>
  BY Zenon DEF numbers
<1>2. InodesUnique'
  BY Zenon, <1>1, UniqueOld DEF Numbers
<1>3. \A s \in Server : \A v \in 1 .. Len(log'[s]) :
         \E t \in Server : v \in 1 .. Len(log[t]) /\ log'[s][v] = log[t][v]
  BY Zenon DEF OldData
<1>4. early = 0 /\ master # NULL =>
         \A s \in Server : \A v \in 1 .. Len(log'[s]) : log'[s][v].new <= sn[master]
  BY ZenonT(30), <1>3 DEF Numbers
<1>5. early = 0 /\ master = NULL =>
         \A r \in up, s \in Server : \A v \in 1 .. Len(log'[s]) :
             log'[s][v].new <= sn[r] + Skip
  BY ZenonT(30), <1>3 DEF Numbers
<1> QED BY Zenon, <1>1, <1>2, <1>4, <1>5 DEF Numbers

\* The counters of a server.
LEMMA CounterTypes ==
    ASSUME TypeOK, NEW s \in Server
    PROVE  sn[s] \in Nat /\ lag[s] \in Nat /\ Skip \in Nat
BY Zenon, ServiceAssumption DEF TypeOK

\* The number taken is greater than all others, and Rate bounds the lag.
LEMMA NumbersExecute ==
    ASSUME TypeOK, Agreement, Numbers, NEW res \in Outcome, Execute(res) PROVE Numbers'
<1>1. /\ master # NULL /\ master \in Server /\ informed \subseteq up /\ up \subseteq Server
      /\ UNCHANGED <<master, up, informed, early>>
  BY Zenon, ExecuteLog, ExecuteFacts DEF TypeOK, Execute
<1>2. \A s \in Server : lag[s] <= Skip
  BY Zenon DEF Numbers
<1>3. \A s \in Server : s # master => sn'[s] = sn[s]
  BY Zenon, <1>1 DEF Execute, TypeOK
<1>4. /\ ~res.taken => sn' = sn /\ lag' = lag
      /\ res.taken => /\ sn'[master] = sn[master] + 1
                      /\ \A s \in up : s # master => lag[s] < Skip /\ lag'[s] = lag[s] + 1
                      /\ \A s \in Server : (s \in up /\ s # master) \/ lag'[s] = 0
  BY ZenonT(20), <1>1 DEF Execute, TypeOK, Rate
<1>5. \A s \in Server : lag'[s] <= Skip
  BY <1>1, <1>2, <1>4, CounterTypes
<1>6. sn[master] <= sn'[master] /\ sn'[master] \in Nat /\ sn[master] \in Nat
  BY <1>1, <1>4, CounterTypes
<1>7. ASSUME early = 0 PROVE \A s \in informed : sn'[master] <= sn'[s] + lag'[s]
  <2>1. \A s \in informed : sn[master] <= sn[s] + lag[s]
    BY Zenon, <1>1, <1>7 DEF Numbers
  <2> QED BY <1>1, <1>3, <1>4, <2>1, CounterTypes
<1>8. ASSUME early = 0
      PROVE  /\ \A s \in Server : \A v \in 1 .. Len(log'[s]) : log'[s][v].new <= sn'[master]
             /\ InodesUnique'
  <2>1. /\ \A s \in Server : \A v \in 1 .. Len(log[s]) : log[s][v].new <= sn[master]
        /\ InodesUnique
    BY Zenon, <1>1, <1>8 DEF Numbers
  <2>2. CASE ~Done(res)
    <3>1. log' = log
      BY Zenon, <2>2, ExecuteLog
    <3>2. InodesUnique'
      BY Zenon, <1>1, <2>1, <3>1, OldKept, UniqueOld
    <3>3. ASSUME NEW s \in Server, NEW v \in 1 .. Len(log[s])
          PROVE  log[s][v].new <= sn'[master]
      <4>1. log[s][v].new <= sn[master] /\ log[s][v].new \in Nat
        BY Zenon, <2>1, LogTypes
      <4> QED BY <1>6, <4>1
    <3> QED BY Zenon, <3>1, <3>2, <3>3
  <2>3. CASE Done(res)
    <3>1. /\ Len(log[master]) \in Nat /\ Len(log'[master]) = Len(log[master]) + 1
          /\ log'[master][Len(log[master]) + 1] = EntryOf(res)
          /\ \A v \in 1 .. Len(log[master]) : log'[master][v] = log[master][v]
          /\ \A s \in Server : s # master => log'[s] = log[s]
      BY Zenon, <2>3, ExecuteLog, LogTypes
    <3>2. EntryOf(res).new = 0 \/ (EntryOf(res).new = sn'[master] /\ sn'[master] > sn[master])
      <4>1. EntryOf(res).new = IF res.taken THEN sn[master] + 1 ELSE 0
        BY Zenon DEF EntryOf
      <4> QED BY <1>1, <1>4, <4>1, CounterTypes
    <3>3. \A s \in Server : \A v \in 1 .. Len(log[s]) :
             /\ log[s][v].new <= sn'[master]
             /\ EntryOf(res).new # 0 => log[s][v].new # EntryOf(res).new
      <4> SUFFICES ASSUME NEW s \in Server, NEW v \in 1 .. Len(log[s])
                   PROVE  /\ log[s][v].new <= sn'[master]
                          /\ EntryOf(res).new # 0 => log[s][v].new # EntryOf(res).new
        BY Zenon
      <4>1. log[s][v].new <= sn[master] /\ log[s][v].new \in Nat
        BY Zenon, <2>1, LogTypes
      <4> QED BY <1>6, <3>2, <4>1
    <3>4. EntryOf(res).new <= sn'[master] /\ EntryOf(res).new \in Nat
      BY SMTT(30), <1>6, <3>2
    <3>5. \A s \in Server : \A v \in 1 .. Len(log'[s]) :
             \/ v \in 1 .. Len(log[s]) /\ log'[s][v] = log[s][v]
             \/ s = master /\ v = Len(log[master]) + 1
      BY <3>1
    <3>6. \A s \in Server : \A v \in 1 .. Len(log'[s]) : log'[s][v].new <= sn'[master]
      BY Zenon, <3>1, <3>3, <3>4, <3>5
    <3>7. InodesUnique'
      <4> SUFFICES ASSUME NEW s \in Server, NEW v \in 1 .. Len(log'[s]),
                          NEW w \in 1 .. Len(log'[s]), v # w, log'[s][v].new # 0
                   PROVE  log'[s][v].new # log'[s][w].new
        BY Zenon DEF InodesUnique
      <4>1. CASE v \in 1 .. Len(log[s]) /\ w \in 1 .. Len(log[s])
        BY SMTT(30), <1>8, <2>1, <3>1, <4>1 DEF InodesUnique
      <4>2. CASE s = master /\ v = Len(log[master]) + 1 /\ w \in 1 .. Len(log[s])
        BY Zenon, <1>1, <3>1, <3>3, <4>2
      <4>3. CASE s = master /\ w = Len(log[master]) + 1 /\ v \in 1 .. Len(log[s])
        BY ZenonT(30), <1>1, <3>1, <3>3, <4>3
      <4> QED BY Zenon, <3>5, <4>1, <4>2, <4>3
    <3> QED BY Zenon, <3>6, <3>7
  <2> QED BY Zenon, <2>2, <2>3
<1>9. InodesUnique'
  BY Zenon, <1>1, <1>8 DEF InodesUnique
<1> QED BY Zenon, <1>1, <1>5, <1>7, <1>8, <1>9 DEF Numbers

\* A ping brings the number of the master.
LEMMA NumbersPing ==
    ASSUME TypeOK, Numbers, NEW s \in Server, Ping(s) PROVE Numbers'
<1>1. /\ master # NULL /\ master \in Server /\ s # master /\ informed \subseteq Server
      /\ UNCHANGED <<master, up, log, early>> /\ informed' = informed \cup {s}
  BY ZenonT(20) DEF Ping, TypeOK, cluster
<1>2. /\ sn'[s] = IF sn[master] > sn[s] THEN sn[master] ELSE sn[s]
      /\ lag'[s] = 0
      /\ \A r \in Server : r # s => sn'[r] = sn[r] /\ lag'[r] = lag[r]
  BY ZenonT(20) DEF Ping, TypeOK
<1>3. \A r \in Server : lag'[r] <= Skip
  <2>1. 0 <= Skip
    BY ServiceAssumption
  <2> QED BY Zenon, <1>2, <2>1 DEF Numbers
<1>4. early = 0 => \A r \in informed' : sn'[master] <= sn'[r] + lag'[r]
  <2> SUFFICES ASSUME early = 0, NEW r \in informed'
               PROVE  sn'[master] <= sn'[r] + lag'[r]
    BY Zenon
  <2>1. sn'[master] = sn[master] /\ sn[master] \in Nat /\ sn[s] \in Nat
    BY Zenon, <1>1, <1>2, CounterTypes
  <2>2. CASE r = s
    BY <1>2, <2>1, <2>2
  <2>3. CASE r # s
    BY Zenon, <1>1, <1>2, <2>1, <2>3 DEF Numbers
  <2> QED BY Zenon, <2>2, <2>3
<1>5. InodesUnique'
  BY ZenonT(20), <1>1, OldKept, UniqueOld DEF Numbers
<1> QED BY Zenon, <1>1, <1>2, <1>3, <1>4, <1>5 DEF Numbers

\* A server that starts has not pinged the master.
LEMMA NumbersStart ==
    ASSUME TypeOK, Numbers, NEW s \in Server, Start(s) PROVE Numbers'
<1>1. /\ master # NULL /\ s \notin informed /\ informed \subseteq Server
      /\ UNCHANGED <<master, log, sn, informed, early>>
  BY Zenon DEF Start, TypeOK
<1>2. lag'[s] = 0 /\ \A r \in Server : r # s => lag'[r] = lag[r]
  BY Zenon DEF Start, TypeOK
<1>3. \A r \in Server : lag'[r] <= Skip
  <2>1. 0 <= Skip
    BY ServiceAssumption
  <2> QED BY Zenon, <1>2, <2>1 DEF Numbers
<1>4. InodesUnique'
  BY Zenon, <1>1, OldKept, UniqueOld DEF Numbers
<1>5. early = 0 => \A r \in informed : sn[master] <= sn[r] + lag'[r]
  BY Zenon, <1>1, <1>2 DEF Numbers
<1> QED BY ZenonT(20), <1>1, <1>3, <1>4, <1>5 DEF Numbers

\* The numbers skipped are at least those given out since the last ping.
LEMMA NumbersSetMaster ==
    ASSUME TypeOK, Numbers, NEW s \in Server, SetMaster(s) PROVE Numbers'
<1>1. /\ master = NULL /\ master' = s /\ s # NULL /\ s \in up /\ informed' = {s}
      /\ UNCHANGED <<log, early>>
  BY Zenon, ServiceAssumption DEF SetMaster, Elected
<1>2. sn'[s] = sn[s] + Skip /\ lag' = [r \in Server |-> 0]
  BY Zenon DEF SetMaster, TypeOK
<1>3. \A r \in Server : lag'[r] <= Skip
  BY <1>2, ServiceAssumption
<1>4. InodesUnique'
  BY ZenonT(20), <1>1, OldKept, UniqueOld DEF Numbers
<1>5. early = 0 => \A r \in Server : \A v \in 1 .. Len(log[r]) : log[r][v].new <= sn'[s]
  BY Zenon, <1>1, <1>2 DEF Numbers
<1>6. sn'[s] <= sn'[s] + lag'[s]
  <2>1. sn[s] \in Nat /\ Skip \in Nat /\ lag'[s] = 0
    BY Zenon, <1>2, CounterTypes
  <2> QED BY <1>2, <2>1
<1> QED BY ZenonT(20), <1>1, <1>3, <1>4, <1>5, <1>6 DEF Numbers

\* If the master stops and all had pinged it, none is more than Skip behind.
LEMMA NumbersCrash ==
    ASSUME TypeOK, Agreement, Numbers, NEW s \in Server, NEW k \in Writable(s),
           NEW f \in 0 .. sn[s], Crash(s, k, f)
    PROVE  Numbers'
<1>1. /\ up' = up \ {s} /\ informed' = informed \ {s} /\ lag' = lag
      /\ up \subseteq Server /\ informed \subseteq Server
      /\ \A r \in Server : r # s => sn'[r] = sn[r]
  BY ZenonT(20) DEF Crash, TypeOK
<1>2. /\ s = master => early' = (IF up \subseteq informed THEN early ELSE early + 1)
      /\ s # master => early' = early
      /\ early \in Nat
  BY Zenon DEF Crash, TypeOK
<1>3. early' = 0 => early = 0 /\ (s = master => up \subseteq informed)
  BY <1>2
<1>4. \A r \in Server : \A v \in 1 .. Len(log'[r]) :
         \E t \in Server : v \in 1 .. Len(log[t]) /\ log'[r][v] = log[t][v]
  BY Zenon, OldCrash DEF OldData
<1>5. InodesUnique' /\ \A r \in Server : lag'[r] <= Skip
  BY ZenonT(20), <1>1, <1>3, OldCrash, UniqueOld DEF Numbers
<1>6. CASE s = master /\ early' = 0
  <2>1. master' = NULL /\ master # NULL
    BY Zenon, <1>6, ServiceAssumption DEF Crash
  <2>2. /\ \A r \in Server : \A v \in 1 .. Len(log[r]) : log[r][v].new <= sn[master]
        /\ \A r \in up : sn[master] <= sn[r] + lag[r] /\ lag[r] <= Skip
    BY ZenonT(20), <1>1, <1>3, <1>6, <2>1 DEF Numbers
  <2>3. ASSUME NEW r \in up', NEW t \in Server, NEW v \in 1 .. Len(log[t])
        PROVE  log[t][v].new <= sn'[r] + Skip
    <3>1. r \in up /\ r \in Server /\ sn'[r] = sn[r]
      BY Zenon, <1>1
    <3>2. log[t][v].new <= sn[master] /\ sn[master] <= sn[r] + lag[r] /\ lag[r] <= Skip
      BY Zenon, <2>2, <3>1
    <3>3. log[t][v].new \in Nat /\ sn[r] \in Nat /\ lag[r] \in Nat /\ Skip \in Nat
      BY Zenon, <3>1, LogTypes, CounterTypes
    <3>4. sn[master] \in Nat
      BY Zenon, <1>6, CounterTypes
    <3> QED BY SMTT(30), <3>1, <3>2, <3>3, <3>4
  <2>4. \A r \in up', t \in Server : \A v \in 1 .. Len(log'[t]) :
           log'[t][v].new <= sn'[r] + Skip
    <3> SUFFICES ASSUME NEW r \in up', NEW t \in Server, NEW v \in 1 .. Len(log'[t])
                 PROVE  log'[t][v].new <= sn'[r] + Skip
      BY Zenon
    <3>1. PICK u \in Server : v \in 1 .. Len(log[u]) /\ log'[t][v] = log[u][v]
      BY Zenon, <1>4
    <3> QED BY Zenon, <2>3, <3>1
  <2> QED BY Zenon, <1>5, <2>1, <2>4 DEF Numbers
<1>7. CASE s # master /\ early' = 0
  <2>1. master' = master
    BY Zenon, <1>7 DEF Crash
  <2>2. CASE master = NULL
    <3>1. \A r \in up', t \in Server : \A v \in 1 .. Len(log[t]) :
             log[t][v].new <= sn'[r] + Skip
      BY Zenon, <1>1, <1>3, <1>7, <2>2 DEF Numbers
    <3>2. \A r \in up', t \in Server : \A v \in 1 .. Len(log'[t]) :
             log'[t][v].new <= sn'[r] + Skip
      <4> SUFFICES ASSUME NEW r \in up', NEW t \in Server, NEW v \in 1 .. Len(log'[t])
                   PROVE  log'[t][v].new <= sn'[r] + Skip
        BY Zenon
      <4>1. PICK u \in Server : v \in 1 .. Len(log[u]) /\ log'[t][v] = log[u][v]
        BY Zenon, <1>4
      <4> QED BY ZenonT(30), <3>1, <4>1
    <3> QED BY ZenonT(20), <1>5, <2>1, <2>2, <3>2 DEF Numbers
  <2>3. CASE master # NULL
    <3>1. master \in Server /\ sn'[master] = sn[master]
      BY ZenonT(20), <1>1, <1>7, <2>3 DEF TypeOK
    <3>2. /\ master \in informed'
          /\ \A t \in Server : \A v \in 1 .. Len(log[t]) : log[t][v].new <= sn[master]
          /\ \A r \in informed' : sn'[master] <= sn'[r] + lag'[r]
      BY ZenonT(20), <1>1, <1>3, <1>7, <2>3, <3>1 DEF Numbers
    <3>3. \A t \in Server : \A v \in 1 .. Len(log'[t]) : log'[t][v].new <= sn'[master]
      BY ZenonT(30), <1>4, <3>1, <3>2
    <3> QED BY ZenonT(30), <1>5, <2>1, <2>3, <3>2, <3>3 DEF Numbers
  <2> QED BY Zenon, <2>2, <2>3
<1>8. CASE early' # 0
  BY Zenon, <1>5, <1>8 DEF Numbers
<1> QED BY ZenonT(20), <1>6, <1>7, <1>8

\* Every step keeps Numbers.
LEMMA NumbersStep == TypeOK /\ Agreement /\ Numbers /\ [Next]_vars => Numbers'
<1> SUFFICES ASSUME TypeOK, Agreement, Numbers, [Next]_vars PROVE Numbers'
  BY Zenon
<1>1. CASE log' = log /\ UNCHANGED <<numbers, master, up>>
  BY Zenon, <1>1, OldKept, NumbersKept
<1>2. ASSUME NEW s \in Server, Copy(s) PROVE Numbers'
  BY Zenon, <1>2, OldCopy, NumbersKept DEF Copy, cluster
<1>3. CASE Others
  BY Zenon, <1>1, <1>2, <1>3, NumbersPing, NumbersStart, NumbersSetMaster, NumbersCrash
     DEF Others, Ask, Break, Repeated, UpdateDone, ReplicaDone, Join, cluster
<1> QED BY Zenon, <1>1, <1>3, NumbersExecute DEF Next, vars, Accept, Refuse, cluster

-----------------------------------------------------------------------------
(* Answers. *)

\* What is known of an answered update stays known, if the data of every running
\* server begin those of one that ran, and the data of every active server begin
\* with those of one that was active.
LEMMA AnsweredLater ==
    ASSUME NEW c, NEW x, NEW t,
           NEW p \in [Server -> Seq(Entry)], NEW q \in [Server -> Seq(Entry)],
           NEW running \in SUBSET Server, NEW later \in SUBSET Server,
           NEW actives \in SUBSET Server, NEW remaining \in SUBSET Server,
           Answered(c, x, t, p, running, actives),
           \A s \in later : \E r \in running : Begins(q[s], p[r]),
           \A s \in remaining : \E r \in actives : Begins(p[r], q[s])
    PROVE  Answered(c, x, t, q, later, remaining)
<1>1. ASSUME NEW s \in later, \A r \in running : Absent(p[r], c, x.id, t)
      PROVE  Absent(q[s], c, x.id, t)
  <2>1. PICK r \in running : Begins(q[s], p[r])
    BY Zenon
  <2>2. p[r] \in Seq(Entry) /\ q[s] \in Seq(Entry) /\ Absent(p[r], c, x.id, t)
    BY Zenon, <1>1
  <2> QED BY Zenon, <2>1, <2>2, BeginsFacts
<1>2. ASSUME NEW s \in remaining,
             \A r \in actives : Holds(p[r], c, x.id, t, x.version, x.out)
      PROVE  Holds(q[s], c, x.id, t, x.version, x.out)
  <2>1. PICK r \in actives : Begins(p[r], q[s])
    BY Zenon
  <2>2. /\ p[r] \in Seq(Entry) /\ q[s] \in Seq(Entry)
        /\ Holds(p[r], c, x.id, t, x.version, x.out)
    BY Zenon, <1>2
  <2> QED BY Zenon, <2>1, <2>2, BeginsFacts
<1> QED BY Zenon, <1>1, <1>2 DEF Answered

\* Only these fields of an answer matter.
LEMMA AnsweredSame ==
    ASSUME NEW c, NEW x, NEW y, NEW t, NEW p, NEW running, NEW actives,
           Answered(c, x, t, p, running, actives),
           y.id = x.id, y.err = x.err, y.version = x.version, y.out = x.out
    PROVE  Answered(c, y, t, p, running, actives)
BY Zenon DEF Answered

\* A log is the beginning of itself.
LEMMA BeginsSelf == ASSUME NEW p \in Seq(Entry) PROVE Begins(p, p)
BY SMTT(30), ListFacts DEF Begins

\* Nothing has been answered at the start.
LEMMA AnswersInit == Init => Answers
<1> SUFFICES ASSUME Init PROVE Answers
  BY Zenon
<1>1. jobs = {} /\ \A c \in Client : idem[c] = NoRequest /\ got[c] = NoAnswer
  BY Zenon DEF Init
<1>2. NoRequest.stage # "finished" /\ NoAnswer.id = 0
  BY DEF NoRequest, NoAnswer
<1>3. \A c \in Client : idem[c].stage # "finished" /\ got[c].id = 0
  BY <1>1, <1>2
<1> QED BY Zenon, <1>1, <1>3 DEF Answers

\* Steps that leave the data: what has been answered before is still true.
LEMMA AnsweredKept ==
    ASSUME TypeOK, Answers, UNCHANGED <<log, up, active, term>>, NEW c \in Client,
           idem'[c] = idem[c] \/ idem'[c].stage # "finished", got'[c] = got[c]
    PROVE  /\ idem'[c].stage = "finished"
                 => Answered(c, idem'[c], term', log', up', active')
           /\ got'[c].id # 0 => Answered(c, got'[c], got'[c].term, log', up', active')
BY Zenon DEF Answers

\* A request that is unknown, or is not registered, has left nothing in the data.
LEMMA AnswersRefuse ==
    ASSUME TypeOK, Agreement, OneRequest, Origin, Answers, NEW c \in Client,
           NEW err \in Errno, Refuse(c, err)
    PROVE  Answers'
<1>1. /\ master # NULL /\ idem[c].id # call[c].id
      /\ UNCHANGED <<log, up, active, term, master, jobs>>
      /\ Response(c, err, 0, 0)
  BY Zenon DEF Refuse, Sends, Known, cluster
<1>2. /\ idem'[c].id = call[c].id /\ idem'[c].err = err
      /\ \A d \in Client : d # c => idem'[d] = idem[d]
  BY Zenon DEF Refuse, TypeOK, NoRequest
<1>3. err # OK
  BY Zenon, ServiceAssumption
<1>4. \A s \in up : Absent(log[s], c, call[c].id, term)
  <2> SUFFICES ASSUME NEW s \in up PROVE Absent(log[s], c, call[c].id, term)
    BY Zenon
  <2>1. Absent(log[master], c, call[c].id, term) /\ Begins(log[s], log[master])
    BY ZenonT(30), <1>1 DEF Origin, Agreement, Consistent, Begins
  <2>2. log[s] \in Seq(Entry) /\ log[master] \in Seq(Entry)
    BY Zenon, <1>1 DEF TypeOK
  <2> QED BY Zenon, <2>1, <2>2, BeginsFacts
<1>5. Answered(c, idem'[c], term', log', up', active')
  BY Zenon, <1>1, <1>2, <1>3, <1>4 DEF Answered
<1>6. Answered(c, got'[c], got'[c].term, log', up', active')
  <2>1. got'[c].id = call[c].id /\ got'[c].term = term /\ got'[c].err = err
    BY Zenon, <1>1, ResponseFacts
  <2> QED BY ZenonT(30), <1>1, <1>3, <1>4, <2>1 DEF Answered
<1>7. \A d \in Client : d # c => got'[d] = got[d]
  BY Zenon, <1>1, ResponseFacts
<1>8. \A j \in jobs' : Prepared(j, idem'[j.client], log'[master'], term')
  BY Zenon, <1>1, <1>2, FreeClient, Items DEF Answers
<1> QED BY Zenon, <1>1, <1>2, <1>5, <1>6, <1>7, <1>8, AnsweredKept DEF Answers

\* A request that is registered now is not finished.
LEMMA AnswersAccept ==
    ASSUME TypeOK, OneRequest, Answers, NEW c \in Client, NEW req \in Request,
           Accept(c, req)
    PROVE  Answers'
<1>1. /\ idem[c].id # call[c].id
      /\ UNCHANGED <<log, up, active, term, master, jobs, got>>
  BY Zenon DEF Accept, Known, cluster
<1>2. /\ idem'[c].stage # "finished"
      /\ \A d \in Client : d # c => idem'[d] = idem[d]
  BY Zenon DEF Accept, TypeOK, NoRequest
<1>3. \A j \in jobs' : Prepared(j, idem'[j.client], log'[master'], term')
  BY Zenon, <1>1, <1>2, FreeClient, Items DEF Answers
<1> QED BY Zenon, <1>1, <1>2, <1>3, AnsweredKept DEF Answers

\* The answer given again was true of the registered request.
LEMMA AnswersRepeated ==
    ASSUME TypeOK, Answers, NEW c \in Client, Repeated(c) PROVE Answers'
<1>1. /\ idem[c].id = call[c].id /\ idem[c].stage = "finished"
      /\ UNCHANGED <<log, up, active, term, master, jobs, idem>>
      /\ Response(c, idem[c].err, idem[c].out, idem[c].version)
  BY Zenon DEF Repeated, Known, cluster
<1>2. /\ got'[c].id = idem[c].id /\ got'[c].term = term /\ got'[c].err = idem[c].err
      /\ got'[c].out = idem[c].out /\ got'[c].version = idem[c].version
      /\ \A d \in Client : d # c => got'[d] = got[d]
  <2> DEFINE e == idem[c].err
             o == idem[c].out
             v == idem[c].version
  <2>1. Response(c, e, o, v)
    BY Zenon, <1>1
  <2> HIDE DEF e, o, v
  <2>2. /\ got'[c].id = call[c].id /\ got'[c].term = term /\ got'[c].err = e
        /\ got'[c].out = o /\ got'[c].version = v
        /\ \A d \in Client : d # c => call'[d] = call[d] /\ got'[d] = got[d]
    <3>1. got'[c].id = call[c].id /\ got'[c].term = term
      BY Zenon, <2>1, ResponseFacts
    <3>2. got'[c].err = e /\ got'[c].out = o /\ got'[c].version = v
      <4>1. got'[c] = [id |-> call[c].id, term |-> term, err |-> e, out |-> o, version |-> v]
        BY Zenon, <2>1 DEF Response, TypeOK
      <4> QED BY <4>1
    <3>3. \A d \in Client : d # c => call'[d] = call[d] /\ got'[d] = got[d]
      BY Zenon, <2>1, ResponseFacts
    <3> QED BY Zenon, <3>1, <3>2, <3>3
  <2> QED BY Zenon, <1>1, <2>2 DEF e, o, v
<1>3. Answered(c, got'[c], got'[c].term, log', up', active')
  <2>1. Answered(c, idem[c], term, log, up, active)
    BY Zenon, <1>1 DEF Answers
  <2>2. Answered(c, got'[c], term, log, up, active)
    BY Zenon, <1>2, <2>1, AnsweredSame
  <2> QED BY Zenon, <1>1, <1>2, <2>2
<1> QED BY Zenon, <1>1, <1>2, <1>3, AnsweredKept DEF Answers

\* The answer of a job whose update all active servers have.
LEMMA AnswersFinish ==
    ASSUME TypeOK, Agreement, OneRequest, Answers, NEW j \in jobs, Finish(j),
           jobs' = jobs \ {j}, UNCHANGED <<log, up, active, term, master>>,
           \/ j.err # OK \/ j.version = 0
           \/ \A s \in active : j.version <= Len(log[s])
    PROVE  Answers'
<1> DEFINE c == j.client
<1>1. /\ c \in Client /\ master # NULL /\ master \in Server
      /\ Prepared(j, idem[c], log[master], term)
      /\ j.id = call[c].id /\ j.id = idem[c].id
  BY Zenon, Items DEF Agreement, TypeOK, Answers, OneRequest, Waiting
<1>2. /\ idem'[c].id = j.id /\ idem'[c].err = j.err /\ idem'[c].version = j.version
      /\ idem'[c].out = idem[c].out
      /\ \A d \in Client : d # c => idem'[d] = idem[d] /\ got'[d] = got[d]
      /\ \/ got' = got
         \/ /\ got'[c].id = j.id /\ got'[c].term = term /\ got'[c].err = j.err
            /\ got'[c].out = j.out /\ got'[c].version = j.version
  BY ZenonT(30), <1>1, FinishFacts DEF Prepared
<1>3. \A s \in up : /\ log[s] \in Seq(Entry) /\ log[master] \in Seq(Entry)
                    /\ Begins(log[s], log[master])
  BY Zenon, <1>1 DEF TypeOK, Agreement, Consistent, Begins
<1>4. ASSUME NEW y, y.id = j.id, y.err = j.err, y.version = j.version,
             y.out = j.out \/ y.out = idem[c].out
      PROVE  Answered(c, y, term, log, up, active)
  <2>1. CASE j.err # OK \/ j.version = 0
    <3>1. Absent(log[master], c, j.id, term)
      BY Zenon, <1>1, <2>1 DEF Prepared
    <3>2. \A s \in up : Absent(log[s], c, j.id, term)
      BY Zenon, <1>3, <3>1, BeginsFacts
    <3> QED BY Zenon, <1>4, <2>1, <3>2 DEF Answered
  <2>2. CASE ~(j.err # OK \/ j.version = 0)
    <3>1. Holds(log[master], c, j.id, term, j.version, y.out)
      BY Zenon, <1>1, <1>4, <2>2 DEF Prepared
    <3>2. ASSUME NEW s \in active PROVE Holds(log[s], c, j.id, term, j.version, y.out)
      <4>1. s \in up /\ j.version <= Len(log[s])
        BY Zenon, <2>2 DEF TypeOK
      <4> QED BY Zenon, <1>3, <3>1, <4>1, BeginsFacts
    <3> QED BY Zenon, <1>4, <2>2, <3>2 DEF Answered
  <2> QED BY Zenon, <2>1, <2>2
<1>5. Answered(c, idem'[c], term', log', up', active')
  BY Zenon, <1>2, <1>4
<1>6. got'[c].id # 0 => Answered(c, got'[c], got'[c].term, log', up', active')
  BY Zenon, <1>1, <1>2, <1>4 DEF Answers
<1>7. \A d \in Client : d # c =>
         /\ idem'[d].stage = "finished"
              => Answered(d, idem'[d], term', log', up', active')
         /\ got'[d].id # 0 => Answered(d, got'[d], got'[d].term, log', up', active')
  BY Zenon, <1>2, AnsweredKept
<1>8. \A k \in jobs' : Prepared(k, idem'[k.client], log'[master'], term')
  BY Zenon, <1>2, Items DEF Answers, OneRequest
<1> QED BY Zenon, <1>5, <1>6, <1>7, <1>8 DEF Answers

\* What is answered at once has left nothing in any log.
LEMMA AnswersUpdateDone ==
    ASSUME TypeOK, Agreement, OneRequest, Answers, NEW j \in jobs, UpdateDone(j)
    PROVE  Answers'
<1>1. UNCHANGED <<log, up, active, term, master>>
  BY Zenon DEF UpdateDone, cluster
<1>2. CASE j.err = OK /\ j.version > 0
  <2> DEFINE k == [j EXCEPT !.stage = "pushed"]
  <2>1. jobs' = (jobs \ {j}) \cup {k} /\ UNCHANGED <<idem, call, got>>
    BY Zenon, <1>2 DEF UpdateDone
  <2>2. /\ k.client = j.client /\ k.id = j.id /\ k.err = j.err /\ k.out = j.out
        /\ k.version = j.version
    BY Zenon, Items DEF Job
  <2> HIDE DEF k
  <2>3. Prepared(k, idem[k.client], log[master], term)
    BY Zenon, <2>2 DEF Answers, Prepared
  <2> QED BY Zenon, <1>1, <2>1, <2>3 DEF Answers
<1>3. CASE ~(j.err = OK /\ j.version > 0)
  <2>1. j.err # OK \/ j.version = 0
    <3>1. j.version \in Nat
      BY Zenon, Items DEF Job
    <3> QED BY <1>3, <3>1
  <2>2. Finish(j) /\ jobs' = jobs \ {j}
    BY Zenon, <1>3 DEF UpdateDone
  <2> QED BY Zenon, <1>1, <2>1, <2>2, AnswersFinish
<1> QED BY Zenon, <1>2, <1>3

\* What is answered now is in the log of every active server.
LEMMA AnswersReplicaDone ==
    ASSUME TypeOK, Agreement, OneRequest, Answers, NEW j \in jobs, ReplicaDone(j)
    PROVE  Answers'
BY Zenon, AnswersFinish DEF ReplicaDone, cluster

\* A client whose update is in the server has not been answered.
LEMMA NotAnswered ==
    ASSUME TypeOK, OneRequest, NEW x, x.client \in Client, Waiting(x, call, idem)
    PROVE  /\ idem[x.client].stage # "finished"
           /\ got[x.client].id # x.id
<1>1. /\ idem[x.client].stage = "dealing" /\ x.id = call[x.client].id
      /\ got[x.client].id < call[x.client].id
  BY Zenon DEF Waiting, OneRequest
<1>2. got[x.client].id \in Nat /\ call[x.client].id \in Nat
  BY Zenon, ClientTypes
<1> QED BY <1>1, <1>2

\* A slave that has all that was answered becomes active.
LEMMA AnswersJoin ==
    ASSUME TypeOK, Agreement, OneRequest, Answers, NEW s \in Server, Join(s)
    PROVE  Answers'
<1>1. /\ master # NULL /\ master \in Server /\ s \in up /\ active' = active \cup {s}
      /\ UNCHANGED <<log, up, term, master, jobs, idem, got>>
      /\ \A v \in Len(log[s]) + 1 .. Len(log[master]) : \E j \in jobs : j.version = v
  BY Zenon DEF Join, TypeOK
<1>2. /\ log[s] \in Seq(Entry) /\ log[master] \in Seq(Entry)
      /\ Begins(log[s], log[master]) /\ master \in active
  BY Zenon, <1>1 DEF TypeOK, Agreement, Consistent, Begins
<1>3. Len(log[s]) \in Nat /\ Len(log[master]) \in Nat
  BY Zenon, <1>2, ListFacts
<1>4. ASSUME NEW c \in Client, NEW x, NEW t, Answered(c, x, t, log, up, active),
             \A j \in jobs : ~(j.client = c /\ j.id = x.id /\ t = term)
      PROVE  Answered(c, x, t, log, up, active')
  <2>1. CASE x.err # OK \/ x.version = 0
    BY Zenon, <1>4, <2>1 DEF Answered
  <2>2. CASE ~(x.err # OK \/ x.version = 0)
    <3>1. /\ Holds(log[master], c, x.id, t, x.version, x.out)
          /\ \A r \in active : Holds(log[r], c, x.id, t, x.version, x.out)
      BY Zenon, <1>2, <1>4, <2>2 DEF Answered
    <3>2. ASSUME ~(x.version <= Len(log[s])) PROVE FALSE
      <4>1. x.version \in Len(log[s]) + 1 .. Len(log[master]) /\ x.version # 0
        <5>1. x.version \in 1 .. Len(log[master])
          BY Zenon, <3>1 DEF Holds
        <5> QED BY <1>3, <3>2, <5>1
      <4>2. PICK j \in jobs : j.version = x.version
        BY Zenon, <1>1, <4>1
      <4>3. From(log[master][x.version], j.client, j.id, term)
        BY Zenon, <4>1, <4>2 DEF Answers, Prepared, Holds
      <4> QED BY Zenon, <1>4, <3>1, <4>3 DEF Holds, From
    <3>3. Holds(log[s], c, x.id, t, x.version, x.out)
      BY Zenon, <1>2, <3>1, <3>2, BeginsFacts
    <3> QED BY Zenon, <1>1, <2>2, <3>1, <3>3 DEF Answered
  <2> QED BY Zenon, <2>1, <2>2
<1>5. \A c \in Client : idem[c].stage = "finished" =>
         Answered(c, idem[c], term, log, up, active')
  BY Zenon, <1>4, NotAnswered, Items DEF Answers, OneRequest
<1>6. \A c \in Client : got[c].id # 0 => Answered(c, got[c], got[c].term, log, up, active')
  BY Zenon, <1>4, NotAnswered, Items DEF Answers, OneRequest
<1> QED BY Zenon, <1>1, <1>5, <1>6 DEF Answers

\* Steps of the cluster and of the slaves: no record is new to those that run.
LEMMA AnsweredCarried ==
    ASSUME TypeOK, TypeOK', Answers, got' = got,
           \A c \in Client : idem'[c].stage = "finished" => idem' = idem /\ term' = term,
           \A s \in up' : \E r \in up : Begins(log'[s], log[r]),
           \A s \in active' : \E r \in active : Begins(log[r], log'[s])
    PROVE  /\ \A c \in Client : idem'[c].stage = "finished" =>
                 Answered(c, idem'[c], term', log', up', active')
           /\ \A c \in Client : got'[c].id # 0 =>
                 Answered(c, got'[c], got'[c].term, log', up', active')
<1>1. /\ log \in [Server -> Seq(Entry)] /\ log' \in [Server -> Seq(Entry)]
      /\ up \in SUBSET Server /\ up' \in SUBSET Server
      /\ active \in SUBSET Server /\ active' \in SUBSET Server
  BY Zenon DEF TypeOK
<1>2. ASSUME NEW c \in Client, NEW x, NEW t, Answered(c, x, t, log, up, active)
      PROVE  Answered(c, x, t, log', up', active')
  BY Zenon, <1>1, <1>2, AnsweredLater
<1> QED BY Zenon, <1>2 DEF Answers

\* A slave that takes a record keeps what it has, and gets nothing that was
\* answered with an error.
LEMMA AnswersCopy ==
    ASSUME TypeOK, TypeOK', Agreement, Answers, NEW s \in Server, Copy(s) PROVE Answers'
<1>1. /\ UNCHANGED <<master, term, up, active, jobs, idem, got>>
      /\ log'[master] = log[master] /\ master \in active
      /\ \A r \in Server : log[r] \in Seq(Entry)
      /\ active \subseteq up /\ up \subseteq Server
  BY Zenon, CopyLog DEF Copy, cluster, Agreement, TypeOK
<1>2. ASSUME NEW r \in Server, r # s PROVE Begins(log'[r], log[r]) /\ Begins(log[r], log'[r])
  BY Zenon, <1>1, <1>2, CopyLog, BeginsSelf
<1>3. Begins(log[s], log'[s]) /\ Begins(log'[s], log[master])
  <2>1. /\ Len(log[s]) \in Nat /\ Len(log'[s]) = Len(log[s]) + 1
        /\ Len(log[s]) + 1 <= Len(log[master])
        /\ log'[s][Len(log[s]) + 1] = log[master][Len(log[s]) + 1]
        /\ \A v \in 1 .. Len(log[s]) : log'[s][v] = log[s][v]
    BY Zenon, CopyLog, LogTypes
  <2>2. \A v \in 1 .. Len(log[s]) : log[s][v] = log[master][v]
    BY Zenon, CopyLog DEF Agreement, Consistent
  <2>3. Len(log[master]) \in Nat
    BY Zenon, CopyLog, LogTypes
  <2>4. \A v \in 1 .. Len(log'[s]) : v \in 1 .. Len(log[s]) \/ v = Len(log[s]) + 1
    BY <2>1
  <2>5. \A v \in 1 .. Len(log'[s]) : log'[s][v] = log[master][v]
    BY Zenon, <2>1, <2>2, <2>4
  <2>6. Len(log[s]) <= Len(log'[s]) /\ Len(log'[s]) <= Len(log[master])
    BY SMTT(30), <2>1, <2>3
  <2> QED BY Zenon, <2>1, <2>5, <2>6 DEF Begins
<1>4. /\ \A r \in up' : \E t \in up : Begins(log'[r], log[t])
      /\ \A r \in active' : \E t \in active : Begins(log[t], log'[r])
  BY Zenon, <1>1, <1>2, <1>3
<1> QED BY Zenon, <1>1, <1>4, AnsweredCarried DEF Answers

\* A server that starts has the first records of the master.
LEMMA AnswersStart ==
    ASSUME TypeOK, TypeOK', Agreement, Answers, NEW s \in Server, Start(s) PROVE Answers'
<1>1. /\ UNCHANGED <<master, term, log, active, jobs, idem, got>>
      /\ up' = up \cup {s} /\ master \in active /\ Begins(log[s], log[master])
      /\ active \subseteq up /\ up \subseteq Server
  BY Zenon DEF Start, Agreement, TypeOK, Consistent, Begins
<1>2. \A r \in Server : Begins(log[r], log[r])
  BY Zenon, LogTypes, BeginsSelf
<1>3. /\ \A r \in up' : \E t \in up : Begins(log'[r], log[t])
      /\ \A r \in active' : \E t \in active : Begins(log[t], log'[r])
  BY Zenon, <1>1, <1>2
<1> QED BY Zenon, <1>1, <1>3, AnsweredCarried DEF Answers

\* The server that is elected has the records of an active one.
LEMMA AnswersSetMaster ==
    ASSUME TypeOK, TypeOK', Agreement, Answers, NEW s \in Server, SetMaster(s)
    PROVE  Answers'
<1>1. /\ master = NULL /\ UNCHANGED <<log, up, jobs, idem, got>> /\ active' = {s}
      /\ Elected(s) /\ jobs = {} /\ active # {} /\ active \subseteq up /\ up \subseteq Server
      /\ \A c \in Client : idem[c] = NoRequest
  BY Zenon DEF SetMaster, Agreement, TypeOK
<1>2. \A r \in Server : Begins(log[r], log[r])
  BY Zenon, LogTypes, BeginsSelf
<1>3. PICK a \in active : TRUE
  BY Zenon, <1>1
<1>4. Begins(log[a], log[s])
  BY Zenon, <1>1, <1>3 DEF Elected, Agreement, Consistent, Begins
<1>5. /\ \A r \in up' : \E t \in up : Begins(log'[r], log[t])
      /\ \A r \in active' : \E t \in active : Begins(log[t], log'[r])
  BY Zenon, <1>1, <1>2, <1>3, <1>4
<1>6. \A c \in Client : idem'[c].stage # "finished"
  <2>1. NoRequest.stage = "none"
    BY Zenon DEF NoRequest
  <2> QED BY Zenon, <1>1, <2>1
<1> QED BY Zenon, <1>1, <1>5, <1>6, AnsweredCarried DEF Answers

\* A server that stops is not active any more, and loses entries only.
LEMMA AnswersCrash ==
    ASSUME TypeOK, TypeOK', Agreement, Answers, NEW s \in Server,
           NEW k \in Writable(s), NEW f, Crash(s, k, f)
    PROVE  Answers'
<1>1. /\ UNCHANGED <<term, got>> /\ up' = up \ {s} /\ active' = active \ {s}
      /\ active \subseteq up /\ up \subseteq Server
  BY Zenon DEF Crash, Deactivated, TypeOK
<1>2. \A r \in Server : r # s => /\ log'[r] = log[r] /\ Begins(log'[r], log[r])
                                 /\ Begins(log[r], log'[r])
  BY Zenon, CrashLog, LogTypes, BeginsSelf
<1>3. /\ \A r \in up' : \E t \in up : Begins(log'[r], log[t])
      /\ \A r \in active' : \E t \in active : Begins(log[t], log'[r])
  BY Zenon, <1>1, <1>2
<1>4. CASE s = master
  <2>1. jobs' = {} /\ idem' = [c \in Client |-> NoRequest]
    BY Zenon, <1>4 DEF Crash
  <2>2. \A c \in Client : idem'[c].stage # "finished"
    BY Zenon, <2>1 DEF NoRequest
  <2> QED BY Zenon, <1>1, <1>3, <2>1, <2>2, AnsweredCarried DEF Answers
<1>5. CASE s # master
  <2>1. UNCHANGED <<master, jobs, idem>> /\ (jobs # {} => log'[master] = log[master])
    BY Zenon, <1>2, <1>5 DEF Crash, Agreement, TypeOK
  <2> QED BY Zenon, <1>1, <1>3, <2>1, AnsweredCarried DEF Answers
<1> QED BY Zenon, <1>4, <1>5

\* An update is executed for a client that has not been answered.
LEMMA AnswersExecute ==
    ASSUME TypeOK, TypeOK', Agreement, OneRequest, Origin, Answers,
           NEW res \in Outcome, Execute(res)
    PROVE  Answers'
<1> DEFINE c == queue[1].client
<1>1. /\ master # NULL /\ master \in Server /\ 1 \in 1 .. Len(queue) /\ c \in Client
      /\ UNCHANGED <<got, master, term, up, active>>
      /\ active \subseteq up /\ up \subseteq Server
  <2>1. /\ master # NULL /\ master \in Server /\ c \in Client /\ 1 <= Len(queue)
        /\ UNCHANGED <<got, master, term, up, active>>
    BY Zenon, ExecuteLog, ExecuteFacts
  <2>2. 1 \in 1 .. Len(queue)
    BY SMTT(30), <2>1, Items
  <2> QED BY Zenon, <2>1, <2>2 DEF TypeOK
<1>2. /\ Waiting(queue[1], call, idem) /\ \A j \in jobs : j.client # c
      /\ Absent(log[master], c, queue[1].id, term)
  BY Zenon, <1>1 DEF OneRequest, Origin
<1>3. \A s \in Server : Begins(log[s], log'[s]) /\ log[s] \in Seq(Entry) /\ log'[s] \in Seq(Entry)
  <2> SUFFICES ASSUME NEW s \in Server PROVE Begins(log[s], log'[s])
    BY Zenon DEF TypeOK
  <2>1. CASE log'[s] = log[s]
    BY ZenonT(30), <2>1, LogTypes, BeginsSelf
  <2>2. CASE s = master /\ Done(res)
    <3>1. /\ Len(log[s]) \in Nat /\ Len(log'[s]) = Len(log[s]) + 1
          /\ \A v \in 1 .. Len(log[s]) : log'[s][v] = log[s][v]
      BY Zenon, <2>2, ExecuteLog, LogTypes
    <3>2. Len(log[s]) <= Len(log'[s])
      BY <3>1
    <3> QED BY Zenon, <3>1, <3>2 DEF Begins
  <2> QED BY Zenon, <2>1, <2>2, ExecuteLog
<1>4. ASSUME NEW d \in Client, NEW x, NEW t, Answered(d, x, t, log, up, active),
             ~(d = c /\ x.id = queue[1].id /\ t = term)
      PROVE  Answered(d, x, t, log', up', active')
  <2>1. \A s \in Server : Absent(log[s], d, x.id, t) => Absent(log'[s], d, x.id, t)
    BY Zenon, <1>4, ExecuteAbsent
  <2>2. \A s \in Server : Holds(log[s], d, x.id, t, x.version, x.out)
                            => Holds(log'[s], d, x.id, t, x.version, x.out)
    BY Zenon, <1>3, BeginsFacts
  <2> QED BY Zenon, <1>1, <1>4, <2>1, <2>2 DEF Answered
<1>5. \A d \in Client : idem'[d].stage = "finished" =>
         Answered(d, idem'[d], term', log', up', active')
  <2> SUFFICES ASSUME NEW d \in Client, idem'[d].stage = "finished"
               PROVE  Answered(d, idem'[d], term', log', up', active')
    BY Zenon
  <2>1. d # c /\ idem'[d] = idem[d]
    BY ZenonT(30), <1>1, <1>2, ExecuteFacts, NotAnswered
  <2> QED BY Zenon, <1>1, <1>4, <2>1 DEF Answers
<1>6. \A d \in Client : got'[d].id # 0 =>
         Answered(d, got'[d], got'[d].term, log', up', active')
  BY Zenon, <1>1, <1>2, <1>4, NotAnswered DEF Answers
<1>7. ASSUME NEW j \in jobs PROVE Prepared(j, idem'[j.client], log'[master], term)
  <2>1. /\ j.client # c /\ j.client \in Client /\ idem'[j.client] = idem[j.client]
        /\ Prepared(j, idem[j.client], log[master], term)
    BY Zenon, <1>2, Items, ExecuteFacts DEF Answers
  <2>2. Absent(log[master], j.client, j.id, term) => Absent(log'[master], j.client, j.id, term)
    BY Zenon, <1>1, <2>1, ExecuteAbsent
  <2>3. \A out : Holds(log[master], j.client, j.id, term, j.version, out)
                 => Holds(log'[master], j.client, j.id, term, j.version, out)
    BY Zenon, <1>1, <1>3, BeginsFacts
  <2> QED BY Zenon, <2>1, <2>2, <2>3 DEF Prepared
<1>8. Prepared(JobOf(res), idem'[c], log'[master], term)
  <2>1. /\ JobOf(res).client = c /\ JobOf(res).id = queue[1].id
        /\ JobOf(res).err = res.err /\ JobOf(res).out = res.out
        /\ JobOf(res).version = IF Done(res) THEN Len(log[master]) + 1 ELSE 0
        /\ idem'[c].version = JobOf(res).version
        /\ res.err = OK => idem'[c].out = res.cached
    BY Zenon, ExecuteFacts DEF JobOf
  <2>2. CASE Done(res)
    <3> DEFINE v == Len(log[master]) + 1
    <3>1. /\ v \in 1 .. Len(log'[master]) /\ v # 0 /\ log'[master][v] = EntryOf(res)
      <4>1. /\ Len(log[master]) \in Nat /\ Len(log'[master]) = Len(log[master]) + 1
            /\ log'[master][Len(log[master]) + 1] = EntryOf(res)
        BY Zenon, <2>2, ExecuteLog, LogTypes
      <4>2. v \in 1 .. Len(log'[master]) /\ v # 0
        BY <4>1
      <4> QED BY Zenon, <4>1, <4>2
    <3>2. /\ EntryOf(res).client = c /\ EntryOf(res).id = queue[1].id
          /\ EntryOf(res).term = term
          /\ EntryOf(res).out = res.out /\ EntryOf(res).cached = res.cached
      BY Zenon, ExecuteFacts DEF EntryOf
    <3> HIDE DEF v
    <3>3. \A out \in {res.out, res.cached} : Holds(log'[master], c, queue[1].id, term, v, out)
      BY Zenon, <3>1, <3>2 DEF Holds, From
    <3>4. JobOf(res).version = v /\ res.err = OK
      BY Zenon, <2>1, <2>2 DEF v, Done
    <3> QED BY ZenonT(30), <2>1, <3>1, <3>3, <3>4 DEF Prepared
  <2>3. CASE ~Done(res)
    BY Zenon, <1>2, <2>1, <2>3, ExecuteLog DEF Prepared
  <2> QED BY Zenon, <2>2, <2>3
<1>9. \A j \in jobs' : Prepared(j, idem'[j.client], log'[master'], term')
  <2>1. JobOf(res).client = c /\ jobs' = jobs \cup {JobOf(res)}
    BY Zenon, ExecuteFacts DEF JobOf
  <2> QED BY Zenon, <1>1, <1>7, <1>8, <2>1
<1> QED BY Zenon, <1>5, <1>6, <1>9 DEF Answers

\* Every step keeps Answers.
LEMMA AnswersStep == IInv /\ TypeOK' /\ [Next]_vars => Answers'
<1> SUFFICES ASSUME TypeOK, TypeOK', Agreement, OneRequest, Origin, Answers, [Next]_vars
             PROVE  Answers'
  BY Zenon DEF IInv
<1>1. CASE UNCHANGED <<cluster, log, jobs, idem, got>>
  BY Zenon, <1>1 DEF Answers, cluster
<1>2. ASSUME NEW s \in Server, Copy(s) \/ Start(s) \/ SetMaster(s) PROVE Answers'
  BY Zenon, <1>2, AnswersCopy, AnswersStart, AnswersSetMaster
<1>3. CASE Others
  BY ZenonT(30), <1>1, <1>2, <1>3, AnswersRepeated, AnswersUpdateDone, AnswersReplicaDone,
     AnswersJoin, AnswersCrash DEF Others, Ask, Break, Ping
<1> QED BY Zenon, <1>1, <1>3, AnswersAccept, AnswersRefuse, AnswersExecute DEF Next, vars

-----------------------------------------------------------------------------
(* The theorems. *)

\* The invariant holds at the start.
LEMMA InvInit == Init => IInv
<1> SUFFICES ASSUME Init PROVE ExecutedOnce
  BY Zenon, TypeInit, AgreementInit, OneRequestInit, OriginInit, AnswersInit, NumbersInit DEF IInv
<1> QED BY DEF Init, ExecutedOnce

\* Every step keeps the invariant.
LEMMA InvStep == IInv /\ [Next]_vars => IInv'
<1> SUFFICES ASSUME IInv, [Next]_vars PROVE IInv'
  BY Zenon
<1>1. TypeOK'
  BY Zenon, TypeStep DEF IInv
<1>2. Agreement' /\ OneRequest' /\ Origin'
  BY Zenon, AgreementStep, OneRequestStep, OriginStep DEF IInv
<1>3. ExecutedOnce' /\ Answers' /\ Numbers'
  BY Zenon, <1>1, OnceStep, AnswersStep, NumbersStep DEF IInv
<1> QED BY Zenon, <1>1, <1>2, <1>3 DEF IInv

\* The invariant holds in every behaviour, for any number of servers, clients, requests,
\* lost connections and crashes, and whatever executing an update comes to.
THEOREM Inductive == Spec => []IInv
BY InvInit, InvStep, PTL DEF Spec

\* Every variable keeps its type; in particular a server that has stopped is not
\* among those the master waits for.
THEOREM TypeCorrect == Spec => []TypeOK
<1>1. IInv => TypeOK
  BY Zenon DEF IInv
<1> QED BY <1>1, Inductive, PTL

\* No master executes a request twice, however often it is sent.
THEOREM ExecutedAtMostOnce == Spec => []ExecutedOnce
<1>1. IInv => ExecutedOnce
  BY ZenonT(30) DEF IInv
<1> QED BY <1>1, Inductive, PTL

\* What a client has been answered is what is in the data of the master, after any
\* number of changes of the master.
THEOREM AnswersTrue == Spec => []AnswerIsTrue
<1>1. IInv => AnswerIsTrue
  <2> SUFFICES ASSUME IInv, NEW c \in Client, master # NULL, got[c].id # 0
               PROVE  LET mine == {v \in 1 .. Len(log[master]) :
                                      /\ log[master][v].client = c
                                      /\ log[master][v].id = got[c].id
                                      /\ log[master][v].term = got[c].term}
                      IN  IF got[c].err # OK \/ got[c].version = 0 THEN mine = {}
                          ELSE /\ got[c].version \in mine
                               /\ got[c].out \in {log[master][got[c].version].out,
                                                  log[master][got[c].version].cached}
    BY ZenonT(20) DEF AnswerIsTrue
  <2>1. master \in active /\ master \in up
    BY Zenon DEF IInv, Agreement, TypeOK
  <2>2. Answered(c, got[c], got[c].term, log, up, active)
    BY Zenon DEF IInv, Answers
  <2>3. CASE got[c].err # OK \/ got[c].version = 0
    <3>1. Absent(log[master], c, got[c].id, got[c].term)
      BY ZenonT(20), <2>1, <2>2, <2>3 DEF Answered
    <3> QED BY Zenon, <2>3, <3>1 DEF Absent, From
  <2>4. CASE ~(got[c].err # OK \/ got[c].version = 0)
    <3>1. Holds(log[master], c, got[c].id, got[c].term, got[c].version, got[c].out)
      BY Zenon, <2>1, <2>2, <2>4 DEF Answered
    <3> QED BY Zenon, <2>4, <3>1 DEF Holds, From
  <2> QED BY ZenonT(20), <2>3, <2>4
<1> QED BY <1>1, Inductive, PTL

\* No inode number is given out twice while no master crashes before the others have
\* pinged it.
THEOREM NumbersUnique == Spec => []InodesUnique
<1>1. IInv => InodesUnique
  BY Zenon DEF IInv, Numbers
<1> QED BY <1>1, Inductive, PTL
=============================================================================

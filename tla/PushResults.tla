------------------------------ MODULE PushResults ------------------------------
(***************************************************************************)
(* What push_result_ring.c promises to the replication of a slave: the set *)
(* of versions the slave has been sent and has not answered for.           *)
(***************************************************************************)
EXTENDS Integers

CONSTANT Version

VARIABLES sent,      \* the last version sent
          waiting    \* the versions whose result is awaited

vars == <<sent, waiting>>

Init == sent = 0 /\ waiting = {}

\* A record with one or more versions is sent.
Add(last) ==
    /\ last > sent
    /\ \E first \in sent + 1 .. last :
          waiting' = waiting \cup (first .. last)
    /\ sent' = last

\* The slave answers for a version.
Answer(v) == v \in waiting /\ waiting' = waiting \ {v} /\ UNCHANGED sent

\* The oldest results are given up.
Expire(v) ==
    /\ v \in waiting /\ waiting' = {w \in waiting : w > v}
    /\ UNCHANGED sent

\* The connection is closed.  The next one may begin with a later version.
Clear == waiting' = {} /\ sent' \in {v \in {0} \cup Version : v >= sent}

Next == \/ \E v \in Version : Add(v) \/ Answer(v) \/ Expire(v)
        \/ Clear

Spec == Init /\ [][Next]_vars
=============================================================================

---------------------------- MODULE VersionStream ----------------------------
(***************************************************************************)
(* What the master's binlog producer promises to the replication queues:   *)
(* one stream of records whose version ranges follow each other without a  *)
(* hole.  Only a new term of mastership may move the expected version, and *)
(* only forward.                                                           *)
(***************************************************************************)
EXTENDS Naturals, Sequences

CONSTANT Version     \* the versions there are

VARIABLES expected,   \* the version the next record has to start at
          stream      \* the records handed over so far

vars == <<expected, stream>>

VersionRange == {r \in [first : Version, last : Version] : r.first <= r.last}

Init == /\ expected \in Version
        /\ stream = <<>>

\* The record that starts at the expected version is appended.
Deliver(r) == /\ r.first = expected
              /\ expected' = r.last + 1
              /\ stream' = Append(stream, r)

\* A new term begins after every version delivered so far.
NewTerm == /\ expected' \in Version
           /\ expected' >= expected
           /\ UNCHANGED stream

Next == NewTerm \/ \E r \in VersionRange : Deliver(r)

Spec == Init /\ [][Next]_vars
=============================================================================

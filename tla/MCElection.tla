------------------------------ MODULE MCElection ------------------------------
(* Election for TLC: the cases.                                               *)
EXTENDS Election

FirstStart == [is_master |-> FALSE, status |-> INIT]
Restarted == [is_master |-> FALSE, status |-> OFFLINE]

\* Servers started for the first time, with a crash at any time; and servers started
\* again, with requests lost and a server that cannot be connected to.
Cases ==
    {[saved |-> {FirstStart}, crashes |-> 1, losses |-> 0, cuts |-> 0],
     [saved |-> {Restarted}, crashes |-> 0, losses |-> 1, cuts |-> 1]}
OneLoss == {[saved |-> {FirstStart}, crashes |-> 0, losses |-> 1, cuts |-> 0]}
=============================================================================

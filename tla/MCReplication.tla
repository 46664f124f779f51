---------------------------- MODULE MCReplication ----------------------------
(* Replication for TLC: the slaves are interchangeable.                      *)
EXTENDS Replication, TLC

SlaveSymmetry == Permutations(Slave)
=============================================================================

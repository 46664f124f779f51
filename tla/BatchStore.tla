------------------------------ MODULE BatchStore ------------------------------
(***************************************************************************)
(* What the store of a namespace promises: batches of entries are put into  *)
(* it as a whole, each of them once and in the order of the records they    *)
(* come from.                                                               *)
(***************************************************************************)
EXTENDS Integers

CONSTANTS Put(_, _),    \* the pieces after the entries of a batch
          Tally(_, _)   \* the counters after them

VARIABLES batch,     \* the last one
          pieces, counts,
          stored     \* the version of the last record in it

vars == <<batch, pieces, counts, stored>>

\* The last batch has been put already: putting it again changes nothing.
Init == stored \in Nat /\ Put(pieces, batch) = pieces

Commit ==
    /\ stored' \in Nat /\ stored < stored'
    /\ pieces' = Put(pieces, batch')
    /\ counts' = Tally(counts, batch')

Next == Commit
Spec == Init /\ [][Next]_vars
=============================================================================

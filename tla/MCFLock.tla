------------------------------ MODULE MCFLock ------------------------------
EXTENDS FLock, TLC
\* Two neighbouring bytes, and a region from the first to the end of the file.
Regions == {[offset |-> 0, length |-> 1], [offset |-> 1, length |-> 1],
            [offset |-> 0, length |-> 0]}
TaskSymmetry == Permutations(Task)
=============================================================================

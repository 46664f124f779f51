--------------------------------- MODULE Lists ---------------------------------
(***************************************************************************)
(* The operators on sequences that the modules of the directory tree use.   *)
(* They are defined as in the community modules; those are not extended,    *)
(* because all that they define would be in the context of every step of    *)
(* the proofs about the store.                                              *)
(***************************************************************************)
EXTENDS Integers, Sequences, FiniteSets, Folds

Last(s) == s[Len(s)]
Front(s) == SubSeq(s, 1, Len(s) - 1)
ToSet(s) == {s[k] : k \in DOMAIN s}

\* op(... op(op(base, s[1]), s[2]) ..., s[Len(s)])
FoldLeft(op(_, _), base, s) ==
    LET upto[k \in 0 .. Len(s)] == IF k = 0 THEN base ELSE op(upto[k - 1], s[k])
    IN  upto[Len(s)]

\* s[1] \o s[2] \o ... \o s[Len(s)]
FlattenSeq(s) == FoldLeft(\o, <<>>, s)

\* For an op whose result does not depend on the order.
FoldSet(op(_, _), base, S) ==
    MapThenFoldSet(op, base, LAMBDA x : x, LAMBDA T : CHOOSE x \in T : TRUE, S)
=============================================================================

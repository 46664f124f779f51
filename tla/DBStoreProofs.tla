---------------------------- MODULE DBStoreProofs ----------------------------
(***************************************************************************)
(* Properties of the storage of a namespace, for every set of requests.    *)
(***************************************************************************)
EXTENDS DBStore, WellFoundedInduction, TLAPS

-----------------------------------------------------------------------------
(* Induction over the natural numbers, in terms of sets. *)

\* A set of natural numbers has a least one.
LEMMA Least ==
    ASSUME NEW T, T \subseteq Nat, T # {}
    PROVE  \E m \in T : \A k \in T : m <= k
<1>1. PICK m \in T : \A k \in T : <<k, m>> \notin OpToRel(<, Nat)
  BY WFMin, NatLessThanWellFounded, Zenon
<1>2. ASSUME NEW k \in T PROVE m <= k
  <2>1. k \in Nat /\ m \in Nat OBVIOUS
  <2>2. ~(k < m)
    BY <1>1, <2>1, Zenon DEF OpToRel
  <2> QED BY <2>1, <2>2
<1> QED BY <1>2

LEMMA Induction ==
    ASSUME NEW T, 0 \in T, \A n \in Nat : n \in T => n + 1 \in T
    PROVE  Nat \subseteq T
<1> SUFFICES ASSUME Nat \ T # {} PROVE FALSE
  OBVIOUS
<1>1. PICK m \in Nat \ T : \A k \in Nat \ T : m <= k
  BY Least, Zenon
<1>2. m - 1 \in Nat /\ m - 1 \in T
  BY <1>1
<1>3. (m - 1) + 1 = m
  BY <1>1
<1> QED BY <1>1, <1>2, <1>3

-----------------------------------------------------------------------------
(* Counting. *)

\* An entry that changes no counter.
LEMMA CountNothing ==
    ASSUME NEW c, NEW n, ~Created(n), n.op # "remove", n.alloc = 0
    PROVE  Count(c, n) = c
BY DEF Count, CountAlloc, CountName

LEMMA NoChange ==
    ASSUME NEW c, NEW S, NEW entries \in Seq(S), ~Changes(entries)
    PROVE  Counted(c, entries) = c
<1> DEFINE D == 0 .. Len(entries)
           Def(g) == g = [k \in D |-> IF k = 0 THEN c ELSE Count(g[k - 1], entries[k])]
<1>1. \A k \in D : k # 0 => \A x : Count(x, entries[k]) = x
  BY CountNothing DEF Changes
<1>2. Def([k \in D |-> c])
  BY <1>1
<1>3. ASSUME NEW g, Def(g) PROVE g[Len(entries)] = c
  <2> DEFINE T == {n \in Nat : n \in D => g[n] = c}
  <2>1. 0 \in T
    BY <1>3
  <2>2. ASSUME NEW n \in Nat, n \in T PROVE n + 1 \in T
    <3>1. CASE n + 1 \in D
      BY <1>1, <1>3, <2>2, <3>1
    <3> QED BY <3>1
  <2>3. Nat \subseteq T
    BY <2>1, <2>2, Induction, Zenon
  <2> QED BY <2>3
<1> HIDE DEF Def
<1>4. Counted(c, entries) = (CHOOSE g : Def(g))[Len(entries)]
  BY DEF Counted, FoldLeft, Def
<1> QED BY <1>2, <1>3, <1>4

-----------------------------------------------------------------------------
(* Sequences of anything. *)

Sequence(q) == \E S : q \in Seq(S)

LEMMA SequenceFacts ==
    ASSUME NEW q, Sequence(q)
    PROVE  Len(q) \in Nat /\ DOMAIN q = 1 .. Len(q)
BY DEF Sequence

LEMMA SequenceOfFunction ==
    ASSUME NEW n \in Nat, NEW f, f = [k \in 1 .. n |-> f[k]]
    PROVE  Sequence(f) /\ Len(f) = n
<1> DEFINE S == {f[k] : k \in 1 .. n}
<1>1. f \in [1 .. n -> S]
  OBVIOUS
<1>2. f \in Seq(S)
  BY <1>1
<1>3. Len(f) \in Nat /\ DOMAIN f = 1 .. Len(f)
  BY <1>2
<1>4. DOMAIN f = 1 .. n
  BY <1>1
<1>5. Len(f) = n
  BY <1>3, <1>4
<1> QED BY <1>2, <1>5, Zenon DEF Sequence

LEMMA SequenceConcat ==
    ASSUME NEW p, NEW q, Sequence(p), Sequence(q)
    PROVE  Sequence(p \o q)
<1>1. PICK S : p \in Seq(S) BY DEF Sequence
<1>2. PICK R : q \in Seq(R) BY DEF Sequence
<1>3. p \in Seq(S \cup R) /\ q \in Seq(S \cup R)
  BY <1>1, <1>2
<1> QED BY <1>3 DEF Sequence

LEMMA SequenceAppend ==
    ASSUME NEW q, NEW x, Sequence(q)
    PROVE  /\ Sequence(Append(q, x))
           /\ Len(Append(q, x)) = Len(q) + 1
           /\ \A i \in 1 .. Len(q) : Append(q, x)[i] = q[i]
           /\ Append(q, x)[Len(q) + 1] = x
<1>1. PICK S : q \in Seq(S) BY DEF Sequence
<1>2. q \in Seq(S \cup {x})
  BY <1>1
<1> QED BY <1>2 DEF Sequence

LEMMA SequenceSub ==
    ASSUME NEW q, Sequence(q), NEW m \in 1 .. Len(q) + 1, NEW n \in m - 1 .. Len(q)
    PROVE  /\ Sequence(SubSeq(q, m, n))
           /\ Len(SubSeq(q, m, n)) = n - m + 1
           /\ \A i \in 1 .. n - m + 1 : SubSeq(q, m, n)[i] = q[m + i - 1]
<1>1. PICK S : q \in Seq(S) BY DEF Sequence
<1>2. Len(q) \in Nat /\ m \in Int /\ n \in Int /\ m <= n + 1 /\ 1 <= m /\ n <= Len(q)
  BY <1>1
<1>3. Len(SubSeq(q, m, n)) = n - m + 1
  BY <1>1, <1>2
<1>4. \A i \in 1 .. n - m + 1 : SubSeq(q, m, n)[i] = q[m + i - 1]
  BY <1>1, <1>2
<1>5. SubSeq(q, m, n) \in Seq(S)
  BY <1>1, <1>2
<1> QED BY <1>3, <1>4, <1>5, Zenon DEF Sequence

LEMMA SequenceShort ==
    /\ Sequence(<<>>) /\ Len(<<>>) = 0
    /\ \A x : Sequence(<<x>>)
    /\ \A x, y : Sequence(<<x, y>>)
<1>1. \A x : <<x>> \in Seq({x}) OBVIOUS
<1>2. \A x, y : <<x, y>> \in Seq({x, y}) OBVIOUS
<1>3. <<>> \in Seq({}) OBVIOUS
<1> QED BY <1>1, <1>2, <1>3, Zenon DEF Sequence

-----------------------------------------------------------------------------
(* FlattenSeq. *)

Flatten(g, seqs, n) == g = [k \in 0 .. n |-> IF k = 0 THEN <<>> ELSE g[k - 1] \o seqs[k]]

LEMMA FlattenExists ==
    ASSUME NEW seqs
    PROVE  \A n \in Nat : \E g : Flatten(g, seqs, n)
<1> DEFINE T == {n \in Nat : \E g : Flatten(g, seqs, n)}
<1>1. 0 \in T
  <2> DEFINE g == [k \in 0 .. 0 |-> <<>>]
  <2>1. g = [k \in 0 .. 0 |-> IF k = 0 THEN <<>> ELSE g[k - 1] \o seqs[k]]
    OBVIOUS
  <2> HIDE DEF g
  <2> QED BY <2>1 DEF Flatten
<1>2. ASSUME NEW n \in Nat, n \in T PROVE n + 1 \in T
  <2>1. PICK g : Flatten(g, seqs, n)
    BY <1>2
  <2> DEFINE h == [k \in 0 .. n + 1 |-> IF k = n + 1 THEN g[n] \o seqs[k] ELSE g[k]]
  <2>2. ASSUME NEW k \in 0 .. n + 1
        PROVE  h[k] = IF k = 0 THEN <<>> ELSE h[k - 1] \o seqs[k]
    <3>1. CASE k = n + 1
      <4>1. k # 0 /\ k - 1 = n /\ n \in 0 .. n + 1 /\ n # n + 1
        BY <3>1
      <4>2. h[k] = g[n] \o seqs[k] /\ h[n] = g[n]
        BY <3>1, <4>1, Zenon
      <4> QED BY <4>1, <4>2, Zenon
    <3>2. CASE k # n + 1
      <4>1. k \in 0 .. n /\ h[k] = g[k]
        BY <3>2
      <4>2. g[k] = IF k = 0 THEN <<>> ELSE g[k - 1] \o seqs[k]
        BY <2>1, <4>1, Zenon DEF Flatten
      <4>3. k # 0 => k - 1 \in 0 .. n /\ h[k - 1] = g[k - 1]
        BY <4>1
      <4> QED BY <4>1, <4>2, <4>3
    <3> QED BY <3>1, <3>2
  <2>3. h = [k \in 0 .. n + 1 |-> IF k = 0 THEN <<>> ELSE h[k - 1] \o seqs[k]]
    BY <2>2, Zenon
  <2> HIDE DEF h
  <2>4. Flatten(h, seqs, n + 1)
    BY <2>3 DEF Flatten
  <2> QED BY <2>4
<1>3. Nat \subseteq T
  BY <1>1, <1>2, Induction, Zenon
<1> QED BY <1>3

LEMMA FlattenSequence ==
    ASSUME NEW seqs, Sequence(seqs), \A i \in 1 .. Len(seqs) : Sequence(seqs[i])
    PROVE  Sequence(FlattenSeq(seqs))
<1> DEFINE n == Len(seqs)
           g == CHOOSE f : Flatten(f, seqs, n)
<1>0. n \in Nat
  BY SequenceFacts
<1>1. FlattenSeq(seqs) = g[n]
  BY DEF FlattenSeq, FoldLeft, Flatten
<1>2. Flatten(g, seqs, n)
  BY <1>0, FlattenExists
<1> HIDE DEF g
<1>3. \A k \in 0 .. n : g[k] = IF k = 0 THEN <<>> ELSE g[k - 1] \o seqs[k]
  BY <1>2, Zenon DEF Flatten
<1> DEFINE T == {k \in Nat : k \in 0 .. n => Sequence(g[k])}
<1>4. 0 \in T
  BY <1>0, <1>3, SequenceShort
<1>5. ASSUME NEW k \in Nat, k \in T PROVE k + 1 \in T
  <2> SUFFICES ASSUME k + 1 \in 0 .. n PROVE Sequence(g[k + 1])
    OBVIOUS
  <2>1. k \in 0 .. n /\ k + 1 \in 1 .. n /\ (k + 1) - 1 = k /\ k + 1 # 0
    BY <1>0
  <2>2. g[k + 1] = g[k] \o seqs[k + 1]
    BY <1>3, <2>1, Zenon
  <2>3. Sequence(g[k])
    BY <1>5, <2>1
  <2> QED BY <2>1, <2>2, <2>3, SequenceConcat, Zenon
<1>6. Nat \subseteq T
  BY <1>4, <1>5, Induction, Zenon
<1>7. Sequence(g[n])
  BY <1>0, <1>6
<1> QED BY <1>1, <1>7, Zenon

-----------------------------------------------------------------------------
(* The result of an operation has a record of an update and a sequence of
   affected dentries. *)

Good(r) ==
    /\ {"rec", "affected", "ignore"} \subseteq DOMAIN r
    /\ IsUpdate(r.rec) /\ Sequence(r.affected)

LEMMA OpField == "op" \in DOMAIN Record
BY DEF Record

\* A field other than the operation is filled in.
LEMMA FillIn ==
    ASSUME NEW rec, IsUpdate(rec), NEW f, NEW x, f # "op"
    PROVE  IsUpdate([rec EXCEPT ![f] = x])
BY OpField DEF IsUpdate

LEMMA GoodResult ==
    ASSUME NEW err, NEW t, NEW rec, NEW affected, NEW gone, IsUpdate(rec), Sequence(affected)
    PROVE  Good(Result(err, t, rec, affected, gone))
BY DEF Good, Result

LEMMA GoodAnswer ==
    ASSUME NEW err, NEW t, NEW rec, IsUpdate(rec)
    PROVE  Good(Answer(err, t, rec)) /\ Answer(err, t, rec).rec = rec
<1>1. Good(Answer(err, t, rec))
  BY GoodResult, SequenceShort, Zenon DEF Answer
<1> QED BY <1>1 DEF Answer, Result

LEMMA GoodAnswerOf ==
    ASSUME NEW f, NEW rec, IsUpdate(rec)
    PROVE  Good(AnswerOf(f, rec))
BY GoodAnswer, Zenon DEF AnswerOf

LEMMA GoodIgnore ==
    ASSUME NEW r, Good(r), NEW x
    PROVE  Good([r EXCEPT !.ignore = x])
BY DEF Good

LEMMA GoodSetPName ==
    ASSUME NEW f, NEW rec, IsUpdate(rec)
    PROVE  Good(SetPName(f, rec))
<1> DEFINE named(x) == [rec EXCEPT !.parent = f.inode, !.name = x]
<1>1. \A x : IsUpdate(named(x))
  BY OpField DEF IsUpdate
<1>2. \A x : Good(Answer(OK, f.t, named(x)))
  BY <1>1, GoodAnswer, Zenon
<1> HIDE DEF named
<1>3. Good(AnswerOf(f, rec)) /\ Good(Answer(EEXIST, f.t, rec))
  BY GoodAnswer, GoodAnswerOf, Zenon
<1> QED BY <1>2, <1>3, Zenon DEF SetPName, named

LEMMA GoodParent ==
    ASSUME NEW t, NEW pieces, NEW rec, IsUpdate(rec)
    PROVE  Good(FindOrCheckParent(t, pieces, rec))
BY GoodSetPName, GoodAnswer, GoodAnswerOf, Zenon DEF FindOrCheckParent

LEMMA GoodSource ==
    ASSUME NEW t, NEW pieces, NEW rec, IsUpdate(rec)
    PROVE  Good(SetHdlinkSrc(t, pieces, rec))
<1> DEFINE f == LinkSource(t, pieces, rec)
           kind == f.t.d[f.inode].kind
           linked == [rec EXCEPT !.src = f.inode, !.kind = kind]
<1>1. IsUpdate(linked)
  BY OpField DEF IsUpdate
<1>2. Good(Answer(OK, f.t, linked)) /\ Good(Answer(EPERM, f.t, rec)) /\ Good(AnswerOf(f, rec))
  BY <1>1, GoodAnswer, GoodAnswerOf, Zenon
<1> QED BY <1>2, Zenon DEF SetHdlinkSrc, OrFail

LEMMA GoodCreate ==
    ASSUME NEW t, NEW pieces, NEW rec, NEW fresh, IsUpdate(rec)
    PROVE  Good(DentryCreate(t, pieces, rec, fresh))
<1> SUFFICES ASSUME NEW me, NEW i PROVE Good(CreateUnless(me, rec, i))
  BY Zenon DEF DentryCreate
<1> DEFINE affected == IF rec.link THEN <<Affected(rec.src, "update")>> ELSE <<>>
<1>1. Sequence(affected)
  BY SequenceShort, Zenon
<1>2. IsUpdate([rec EXCEPT !.inode = i])
  BY OpField DEF IsUpdate
<1>3. Good(Result(OK, Insert(me.t, rec, i), [rec EXCEPT !.inode = i], affected, {}))
  BY <1>1, <1>2, GoodResult, Zenon
<1>4. \A err : Good(Answer(err, me.t, rec))
  BY GoodAnswer, Zenon
<1> QED BY <1>3, <1>4, Zenon DEF CreateUnless

LEMMA RemoveAffects ==
    ASSUME NEW t, NEW i
    PROVE  Sequence(DoRemove(t, i).affected)
<1>1. ASSUME NEW err, NEW u, NEW rec, NEW affected, NEW gone, Sequence(affected)
      PROVE  Sequence(Result(err, u, rec, affected, gone).affected)
  BY <1>1, Zenon DEF Result
<1>2. /\ \A err, u, rec, x, gone : Sequence(Result(err, u, rec, <<x>>, gone).affected)
      /\ \A err, u, rec, x, y, gone : Sequence(Result(err, u, rec, <<x, y>>, gone).affected)
  BY <1>1, SequenceShort, Zenon
<1>3. Sequence(RemoveLink(t, i).affected)
  BY <1>2, Zenon DEF RemoveLink
<1>4. Sequence(RemovePlain(t, i).affected)
  <2> DEFINE unlinked == [t EXCEPT !.d[i].nlink = @ - 1]
             gone == Result(OK, AddCount(IndexDel(unlinked, i), t.d[i].kind, -1), Record,
                            <<Affected(i, "remove")>>, {i})
             kept == Result(OK, unlinked, Record, <<Affected(i, "update")>>, {})
  <2>1. Sequence(gone.affected) /\ Sequence(kept.affected)
    BY <1>2, Zenon
  <2>2. RemovePlain(t, i) = IF unlinked.d[i].nlink = 0 THEN gone ELSE kept
    BY Zenon DEF RemovePlain
  <2> HIDE DEF gone, kept
  <2> QED BY <2>1, <2>2, Zenon
<1> QED BY <1>3, <1>4, Zenon DEF DoRemove

LEMMA GoodRemove ==
    ASSUME NEW t, NEW pieces, NEW rec, IsUpdate(rec)
    PROVE  Good(DentryRemove(t, pieces, rec))
<1>1. \A i : IsUpdate([rec EXCEPT !.inode = i])
  BY OpField DEF IsUpdate
<1>2. \A u, i : Good(Unlink(DoRemove(u, i), rec, i))
  BY <1>1, GoodResult, RemoveAffects, Zenon DEF Unlink
<1>3. \A err, u : Good(Answer(err, u, rec))
  BY GoodAnswer, Zenon
<1> QED BY <1>2, <1>3, Zenon DEF DentryRemove, OrFail, AnswerOf

LEMMA GoodMove ==
    ASSUME NEW t, NEW rec, NEW s, NEW e, IsUpdate(rec)
    PROVE  Good(Exchange(t, rec, s, e)) /\ Good(Move(t, rec, s, e))
<1>1. IsUpdate([rec EXCEPT !.inode = s])
  BY OpField DEF IsUpdate
<1>2. \A u : Good(Result(OK, u, [rec EXCEPT !.inode = s], <<>>, {}))
  BY <1>1, GoodResult, SequenceShort, Zenon
<1>3. Good(Exchange(t, rec, s, e))
  BY <1>2, Zenon DEF Exchange
<1> DEFINE r == IF e = 0 THEN Answer(OK, t, rec) ELSE DoRemove(t, e)
<1>4. Sequence(r.affected)
  BY RemoveAffects, GoodAnswer, Zenon DEF Good
<1> HIDE DEF r
<1>5. \A u : Good(Result(OK, u, [rec EXCEPT !.inode = s], r.affected, r.gone))
  BY <1>1, <1>4, GoodResult, Zenon
<1>6. Good(MoveOver(r, rec, s, e))
  BY <1>5, Zenon DEF MoveOver
<1> QED BY <1>3, <1>6, Zenon DEF Move, r

LEMMA GoodRename ==
    ASSUME NEW t, NEW pieces, NEW rec, IsUpdate(rec)
    PROVE  Good(DentryRename(t, pieces, rec))
<1>1. \A err, u : Good(Answer(err, u, rec))
  BY GoodAnswer, Zenon
<1>2. \A u, s, e : Good(Exchange(u, rec, s, e)) /\ Good(Move(u, rec, s, e))
  BY GoodMove, Zenon
<1>3. \A c : Good(AnswerOf(c, rec))
  BY GoodAnswerOf, Zenon
<1> QED BY <1>1, <1>2, <1>3, Zenon DEF DentryRename, OrFail

LEMMA GoodRenameOp ==
    ASSUME NEW t, NEW pieces, NEW rec, IsUpdate(rec)
    PROVE  Good(RenameOp(t, pieces, rec))
<1>1. \A c : Good(AnswerOf(c, rec))
  BY GoodAnswerOf, Zenon
<1> DEFINE full(a, b, c, d) == [rec EXCEPT !.from = a, !.from_name = b,
                                           !.parent = c, !.name = d]
<1>2. \A a, b, c, d : IsUpdate(full(a, b, c, d))
  BY OpField DEF IsUpdate
<1> HIDE DEF full
<1>3. \A u, a, b, c, d : Good(DentryRename(u, pieces, full(a, b, c, d)))
  BY <1>2, GoodRename, Zenon
<1>4. \A u : Good(DentryRename(u, pieces, rec))
  BY GoodRename, Zenon
<1> QED BY <1>1, <1>3, <1>4, Zenon DEF RenameOp, OrFail, full

LEMMA GoodUpdate ==
    ASSUME NEW t, NEW pieces, NEW rec, IsUpdate(rec)
    PROVE  Good(IndexUpdate(t, pieces, rec)) /\ Good(CheckSetSize(t, pieces, rec))
<1>1. Good(IndexUpdate(t, pieces, rec))
  BY GoodAnswer, GoodAnswerOf, Zenon DEF IndexUpdate, OrFail
<1> DEFINE upd == [rec EXCEPT !.op = "update"]
<1>2. IsUpdate(upd)
  BY OpField DEF IsUpdate, Ops
<1> HIDE DEF upd
<1>3. ASSUME NEW old PROVE IsUpdate(SetSize(old, upd))
  BY <1>2, OpField DEF SetSize, IsUpdate
<1>4. \A u, old : Good(Answer(OK, u, SetSize(old, upd)))
  BY <1>3, GoodAnswer, Zenon
<1>5. \A f : Good(AnswerOf(f, upd))
  BY <1>2, GoodAnswerOf, Zenon
<1>6. Good(CheckSetSize(t, pieces, rec))
  BY <1>4, <1>5, Zenon DEF CheckSetSize, OrFail, upd
<1> QED BY <1>1, <1>6

LEMMA GoodXattr ==
    ASSUME NEW t, NEW pieces, NEW rec, IsUpdate(rec)
    PROVE  Good(SetXattr(t, pieces, rec)) /\ Good(RemoveXattr(t, pieces, rec))
<1> DEFINE p == XattrPrepare(t, pieces, rec)
<1>1. \A i : IsUpdate([rec EXCEPT !.inode = i])
  BY OpField DEF IsUpdate
<1>2. \A u, i : Good(Answer(OK, u, [rec EXCEPT !.inode = i]))
  BY <1>1, GoodAnswer, Zenon
<1>3. Good(p)
  BY <1>2, GoodAnswerOf, Zenon DEF XattrPrepare, OrFail
<1> HIDE DEF p
<1>4. IsUpdate(p.rec)
  BY <1>3, Zenon DEF Good
<1>5. \A err, u : Good(Answer(err, u, p.rec))
  BY <1>4, GoodAnswer, Zenon
<1>6. \A u : Good(SetPair(u, p.rec))
  BY <1>5, Zenon DEF SetPair
<1>7. \A u : Good(RemovePair(u, p.rec))
  BY <1>5, Zenon DEF RemovePair
<1> QED BY <1>3, <1>6, <1>7, Zenon DEF SetXattr, RemoveXattr, Then, p

LEMMA GoodApply ==
    ASSUME NEW t, NEW pieces, NEW rec, NEW fresh, IsUpdate(rec)
    PROVE  Good(Apply(t, pieces, rec, fresh))
<1>1. CASE rec.op = "create"
  <2> DEFINE p == FindOrCheckParent(t, pieces, rec)
             h == IF p.rec.link THEN SetHdlinkSrc(p.t, pieces, p.rec) ELSE p
             c == DentryCreate(h.t, pieces, h.rec, fresh)
  <2>1. Good(p) BY GoodParent, Zenon
  <2>2. IsUpdate(p.rec) BY <2>1, Zenon DEF Good
  <2> HIDE DEF p
  <2>3. Good(h) BY <2>1, <2>2, GoodSource, Zenon
  <2>4. IsUpdate(h.rec) BY <2>3, Zenon DEF Good
  <2> HIDE DEF h
  <2>5. Good(c) BY <2>4, GoodCreate, Zenon
  <2> HIDE DEF c
  <2>6. Good([c EXCEPT !.ignore = EEXIST]) BY <2>5, GoodIgnore, Zenon
  <2>7. Apply(t, pieces, rec, fresh)
          = Then(p, LAMBDA q : Then(IF q.rec.link THEN SetHdlinkSrc(q.t, pieces, q.rec) ELSE q,
                 LAMBDA g : [DentryCreate(g.t, pieces, g.rec, fresh) EXCEPT !.ignore = EEXIST]))
    BY <1>1 DEF Apply, p
  <2>8. Apply(t, pieces, rec, fresh)
          = IF p.err # OK THEN p ELSE IF h.err # OK THEN h ELSE [c EXCEPT !.ignore = EEXIST]
    BY <2>7, Zenon DEF Then, h, c
  <2> QED BY <2>1, <2>3, <2>6, <2>8, Zenon
<1>2. CASE rec.op = "remove"
  <2> DEFINE p == FindOrCheckParent(t, pieces, rec)
             c == DentryRemove(p.t, pieces, p.rec)
  <2>1. Good(p) BY GoodParent, Zenon
  <2>2. IsUpdate(p.rec) BY <2>1, Zenon DEF Good
  <2> HIDE DEF p
  <2>3. Good(c) BY <2>2, GoodRemove, Zenon
  <2> HIDE DEF c
  <2>4. Good([c EXCEPT !.ignore = ENOENT]) BY <2>3, GoodIgnore, Zenon
  <2>5. Apply(t, pieces, rec, fresh)
          = Then(p, LAMBDA q : [DentryRemove(q.t, pieces, q.rec) EXCEPT !.ignore = ENOENT])
    BY <1>2 DEF Apply, p
  <2>6. Apply(t, pieces, rec, fresh) = IF p.err # OK THEN p ELSE [c EXCEPT !.ignore = ENOENT]
    BY <2>5, Zenon DEF Then, c
  <2> QED BY <2>1, <2>4, <2>6, Zenon
<1>3. CASE rec.op = "rename"
  <2>1. Apply(t, pieces, rec, fresh) = RenameOp(t, pieces, rec)
    BY <1>3 DEF Apply
  <2> QED BY <2>1, GoodRenameOp, Zenon
<1>4. CASE rec.op = "update"
  <2>1. Apply(t, pieces, rec, fresh) = IndexUpdate(t, pieces, rec)
    BY <1>4 DEF Apply
  <2> QED BY <2>1, GoodUpdate, Zenon
<1>5. CASE rec.op = "set_dsize"
  <2>1. Apply(t, pieces, rec, fresh) = CheckSetSize(t, pieces, rec)
    BY <1>5 DEF Apply
  <2> QED BY <2>1, GoodUpdate, Zenon
<1>6. CASE rec.op = "set_xattr"
  <2>1. Apply(t, pieces, rec, fresh) = SetXattr(t, pieces, rec)
    BY <1>6 DEF Apply
  <2> QED BY <2>1, GoodXattr, Zenon
<1>7. CASE rec.op = "remove_xattr"
  <2>1. Apply(t, pieces, rec, fresh) = [RemoveXattr(t, pieces, rec) EXCEPT !.ignore = ENODATA]
    BY <1>7 DEF Apply
  <2> QED BY <2>1, GoodXattr, GoodIgnore, Zenon
<1>8. rec.op \in Ops
  BY DEF IsUpdate
<1> QED BY <1>1, <1>2, <1>3, <1>4, <1>5, <1>6, <1>7, <1>8, Zenon DEF Ops

-----------------------------------------------------------------------------
(* The messages of an event and the entries of a batch are sequences. *)

LEMMA SequenceIf ==
    ASSUME NEW c, NEW p, NEW q, Sequence(p), Sequence(q)
    PROVE  Sequence(IF c THEN p ELSE q)
BY Zenon

LEMMA ParentSequence == \A t, p, op, c : Sequence(ParentMessage(t, p, op, c))
BY SequenceShort, Zenon DEF ParentMessage

LEMMA DentrySequence ==
    /\ \A t, i : Sequence(RemoveMessages(t, i))
    /\ \A t, i, op : Sequence(DentryMessages(t, i, op))
    /\ \A t, p, i : Sequence(MoveMessages(t, p, i))
<1>1. \A t, i : Sequence(RemoveMessages(t, i))
  BY ParentSequence, SequenceShort, SequenceConcat, Zenon DEF RemoveMessages
<1>2. \A t, i, op : Sequence(DentryMessages(t, i, op))
  BY ParentSequence, SequenceShort, SequenceConcat, Zenon DEF DentryMessages
<1>3. \A t, p, i : Sequence(MoveMessages(t, p, i))
  BY <1>2, ParentSequence, SequenceConcat, Zenon DEF MoveMessages
<1> QED BY <1>1, <1>2, <1>3, Zenon

LEMMA AffectedSequence ==
    ASSUME NEW t, NEW affected, Sequence(affected)
    PROVE  Sequence(AffectedMessages(t, affected))
<1> DEFINE part(k) == IF affected[k].op = "remove" THEN RemoveMessages(t, affected[k].inode)
                      ELSE <<Message(affected[k].inode, "basic", "update")>>
           parts == [k \in DOMAIN affected |-> part(k)]
<1>1. Len(affected) \in Nat /\ DOMAIN affected = 1 .. Len(affected)
  BY SequenceFacts, Zenon
<1>2. \A k : Sequence(part(k))
  BY DentrySequence, SequenceShort, Zenon
<1> HIDE DEF part
<1>3. parts = [k \in 1 .. Len(affected) |-> parts[k]] /\ \A k \in 1 .. Len(affected) : parts[k] = part(k)
  BY <1>1, Zenon
<1> HIDE DEF parts
<1>4. Sequence(parts) /\ Len(parts) = Len(affected)
  BY <1>1, <1>3, SequenceOfFunction, Zenon
<1>5. Sequence(FlattenSeq(parts))
  BY <1>2, <1>3, <1>4, FlattenSequence, Zenon
<1> QED BY <1>5, Zenon DEF AffectedMessages, parts, part

LEMMA MessagesSequence ==
    ASSUME NEW t, NEW rec, NEW affected, Sequence(affected)
    PROVE  Sequence(Messages(t, rec, affected))
<1>1. Sequence(AffectedMessages(t, affected))
  BY AffectedSequence, Zenon
<1>2. Sequence(AffectedMessages(t, affected) \o DentryMessages(t, rec.inode, "create"))
  BY <1>1, DentrySequence, SequenceConcat, Zenon
<1>3. Sequence(RemoveEvent(t, rec, affected))
  BY <1>1, ParentSequence, SequenceShort, SequenceConcat, SequenceIf, Zenon DEF RemoveEvent
<1>4. Sequence(RenameEvent(t, rec, affected))
  <2> DEFINE s == rec.inode
             e == CHOOSE c \in t.d[rec.from].children : t.d[c].name = rec.from_name
             both == <<Message(s, "basic", "update"), Message(e, "basic", "update")>>
             here == ParentMessage(t, rec.from, "update", s)
                       \o ParentMessage(t, rec.from, "update", e) \o both
             swap == MoveMessages(t, rec.from, s) \o MoveMessages(t, rec.parent, e)
             same == ParentMessage(t, rec.from, "update", s) \o <<Message(s, "basic", "update")>>
             move == IF rec.from = rec.parent THEN same ELSE MoveMessages(t, rec.from, s)
  <2>1. Sequence(both) /\ Sequence(<<Message(s, "basic", "update")>>)
    BY SequenceShort, Zenon
  <2> HIDE DEF s, e, both
  <2>2. Sequence(here)
    BY <2>1, ParentSequence, SequenceConcat, Zenon
  <2>3. Sequence(swap)
    BY DentrySequence, SequenceConcat, Zenon
  <2>4. Sequence(move)
    BY <2>1, ParentSequence, DentrySequence, SequenceConcat, Zenon
  <2> HIDE DEF move
  <2>5. Sequence(AffectedMessages(t, affected) \o move)
    BY <1>1, <2>4, SequenceConcat, Zenon
  <2> HIDE DEF here, swap
  <2>6. RenameEvent(t, rec, affected)
          = IF rec.flags = "exchange" THEN IF rec.from = rec.parent THEN here ELSE swap
            ELSE AffectedMessages(t, affected) \o move
    BY Zenon DEF RenameEvent, here, swap, move, both, s, e
  <2> QED BY <2>2, <2>3, <2>5, <2>6, Zenon
<1>5. \A m : Sequence(<<m>>)
  BY SequenceShort, Zenon
<1>6. CASE rec.op = "create"
  <2>1. Messages(t, rec, affected)
          = AffectedMessages(t, affected) \o DentryMessages(t, rec.inode, "create")
    BY <1>6 DEF Messages
  <2> QED BY <1>2, <2>1, Zenon
<1>7. CASE rec.op = "remove"
  <2>1. Messages(t, rec, affected) = RemoveEvent(t, rec, affected)
    BY <1>7 DEF Messages
  <2> QED BY <1>3, <2>1, Zenon
<1>8. CASE rec.op = "rename"
  <2>1. Messages(t, rec, affected) = RenameEvent(t, rec, affected)
    BY <1>8 DEF Messages
  <2> QED BY <1>4, <2>1, Zenon
<1>9. CASE rec.op = "update"
  <2>1. \E m : Messages(t, rec, affected) = <<m>>
    BY <1>9 DEF Messages
  <2> QED BY <1>5, <2>1, Zenon
<1>10. CASE rec.op \notin {"create", "remove", "rename", "update"}
  <2>1. \E m : Messages(t, rec, affected) = <<m>>
    BY <1>10 DEF Messages
  <2> QED BY <1>5, <2>1, Zenon
<1> QED BY <1>6, <1>7, <1>8, <1>9, <1>10

LEMMA PackedSequence ==
    ASSUME NEW t, NEW msgs, Sequence(msgs)
    PROVE  Sequence(Pack(t, msgs))
<1> DEFINE packed == Pack(t, msgs)
<1>1. Len(msgs) \in Nat /\ DOMAIN msgs = 1 .. Len(msgs)
  BY SequenceFacts, Zenon
<1>2. packed = [k \in 1 .. Len(msgs) |-> packed[k]]
  BY <1>1 DEF Pack
<1> HIDE DEF packed
<1>3. Sequence(packed)
  BY <1>1, <1>2, SequenceOfFunction, Zenon
<1> QED BY <1>3, Zenon DEF packed

LEMMA PushedSequence ==
    ASSUME NEW r, NEW lists, Good(r)
    PROVE  Sequence(PushEvent(r, lists).msgs)
<1> DEFINE msgs == Messages(r.t, r.rec, r.affected)
<1>1. Sequence(msgs)
  BY MessagesSequence, Zenon DEF Good
<1> HIDE DEF msgs
<1>2. \A t, a : Pushed(t, a, msgs).msgs = Pack(t, msgs)
  BY DEF Pushed
<1>3. \A t, a : Sequence(Pushed(t, a, msgs).msgs)
  BY <1>1, <1>2, PackedSequence, Zenon
<1> QED BY <1>3, Zenon DEF PushEvent, PushMessages, msgs

LEMMA MergeDentrySequence == \A lists, msgs : Sequence(MergeDentry(lists, msgs))
<1> SUFFICES ASSUME NEW lists, NEW msgs PROVE Sequence(MergeDentry(lists, msgs))
  BY Zenon
<1> DEFINE entry(of) == IF of = <<>> THEN <<>> ELSE <<MergeField(lists, of)>>
<1>1. \A of : Sequence(entry(of))
  BY SequenceShort, Zenon
<1> HIDE DEF entry
<1>2. \A a, b, c : Sequence(entry(a) \o entry(b) \o entry(c))
  BY <1>1, SequenceConcat, Zenon
<1>3. Sequence(<<>>) /\ Sequence(<<MergeField(lists, msgs)>>)
  BY SequenceShort, Zenon
<1> QED BY <1>2, <1>3, Zenon DEF MergeDentry, entry

LEMMA MergeNthSequence ==
    \A lists, msgs, nth : Sequence(MergeNth(lists, msgs, nth))
BY MergeDentrySequence, SequenceShort, Zenon DEF MergeNth

LEMMA MergeAllSequence ==
    ASSUME NEW lists, NEW msgs, Sequence(msgs)
    PROVE  Sequence(MergeAll(lists, msgs))
<1> DEFINE S == {msgs[k].inode : k \in DOMAIN msgs}
           part(k) == MergeNth(lists, msgs, Nth(S, k))
           parts == [k \in DOMAIN msgs |-> part(k)]
           n == Len(msgs)
<1>1. n \in Nat /\ DOMAIN msgs = 1 .. n
  BY SequenceFacts, Zenon
<1> HIDE DEF n
<1>2. \A k : Sequence(part(k))
  BY MergeNthSequence, Zenon
<1> HIDE DEF part
<1>3. parts = [k \in 1 .. n |-> parts[k]] /\ \A k \in 1 .. n : parts[k] = part(k)
  BY <1>1, Zenon
<1> HIDE DEF parts
<1>4. Sequence(parts) /\ Len(parts) = n
  BY <1>1, <1>3, SequenceOfFunction, Zenon
<1>5. Sequence(FlattenSeq(parts))
  BY <1>2, <1>3, <1>4, FlattenSequence, Zenon
<1> QED BY <1>5, Zenon DEF MergeAll, parts, part

LEMMA MergeSequence ==
    ASSUME NEW lists, NEW events, Sequence(events),
           \A k \in 1 .. Len(events) : Sequence(events[k].msgs)
    PROVE  Sequence(Merge(lists, events).entries)
<1> DEFINE parts == [k \in DOMAIN events |-> events[k].msgs]
           msgs == FlattenSeq(parts)
           entries == MergeAll(lists, msgs)
<1>1. Len(events) \in Nat /\ DOMAIN events = 1 .. Len(events)
  BY SequenceFacts, Zenon
<1>2. /\ parts = [k \in 1 .. Len(events) |-> parts[k]]
      /\ \A k \in 1 .. Len(events) : parts[k] = events[k].msgs
  BY <1>1, Zenon
<1> HIDE DEF parts
<1>3. Sequence(parts) /\ Len(parts) = Len(events)
  BY <1>1, <1>2, SequenceOfFunction, Zenon
<1>4. Sequence(msgs)
  BY <1>2, <1>3, FlattenSequence, Zenon
<1> HIDE DEF msgs
<1>5. Sequence(entries)
  BY <1>4, MergeAllSequence, Zenon
<1>6. Merge(lists, events) = Merged(lists, entries)
  BY Zenon DEF Merge, msgs, parts
<1> HIDE DEF entries
<1>7. Merged(lists, entries).entries = entries
  BY DEF Merged
<1> QED BY <1>5, <1>6, <1>7, Zenon

-----------------------------------------------------------------------------
(* Storing the entries of a batch, one after the other. *)

Stores(g, pieces, entries, n) ==
    g = [k \in 0 .. n |-> IF k = 0 THEN pieces ELSE StoreEntry(g[k - 1], entries[k])]

LEMMA StoresExist ==
    ASSUME NEW pieces, NEW entries
    PROVE  \A n \in Nat : \E g : Stores(g, pieces, entries, n)
<1> DEFINE T == {n \in Nat : \E g : Stores(g, pieces, entries, n)}
<1>1. 0 \in T
  <2> DEFINE g == [k \in 0 .. 0 |-> pieces]
  <2>1. g = [k \in 0 .. 0 |-> IF k = 0 THEN pieces ELSE StoreEntry(g[k - 1], entries[k])]
    OBVIOUS
  <2> HIDE DEF g
  <2> QED BY <2>1 DEF Stores
<1>2. ASSUME NEW n \in Nat, n \in T PROVE n + 1 \in T
  <2>1. PICK g : Stores(g, pieces, entries, n)
    BY <1>2
  <2> DEFINE h == [k \in 0 .. n + 1 |-> IF k = n + 1 THEN StoreEntry(g[n], entries[k]) ELSE g[k]]
  <2>2. ASSUME NEW k \in 0 .. n + 1
        PROVE  h[k] = IF k = 0 THEN pieces ELSE StoreEntry(h[k - 1], entries[k])
    <3>1. CASE k = n + 1
      BY <3>1
    <3>2. CASE k # n + 1
      <4>1. k \in 0 .. n /\ h[k] = g[k]
        BY <3>2
      <4>2. g[k] = IF k = 0 THEN pieces ELSE StoreEntry(g[k - 1], entries[k])
        BY <2>1, <4>1 DEF Stores
      <4>3. k # 0 => k - 1 \in 0 .. n /\ h[k - 1] = g[k - 1]
        BY <4>1
      <4> QED BY <4>1, <4>2, <4>3
    <3> QED BY <3>1, <3>2
  <2>3. h = [k \in 0 .. n + 1 |-> IF k = 0 THEN pieces ELSE StoreEntry(h[k - 1], entries[k])]
    BY <2>2
  <2> HIDE DEF h
  <2>4. Stores(h, pieces, entries, n + 1)
    BY <2>3 DEF Stores
  <2> QED BY <2>4
<1>3. Nat \subseteq T
  BY <1>1, <1>2, Induction, Zenon
<1> QED BY <1>3

\* The stores on the way to Store(pieces, entries).
Way(g, pieces, entries) ==
    /\ g[0] = pieces
    /\ \A k \in 1 .. Len(entries) : g[k] = StoreEntry(g[k - 1], entries[k])

LEMMA StoreWay ==
    ASSUME NEW pieces, NEW entries, Sequence(entries)
    PROVE  \E g : Way(g, pieces, entries) /\ Store(pieces, entries) = g[Len(entries)]
<1> DEFINE n == Len(entries)
           g == CHOOSE f : Stores(f, pieces, entries, n)
<1>1. n \in Nat
  BY SequenceFacts, Zenon
<1>2. Stores(g, pieces, entries, n)
  BY <1>1, StoresExist, Zenon
<1>3. Store(pieces, entries) = g[n]
  BY DEF Store, FoldLeft, Stores
<1> HIDE DEF g
<1>4. Way(g, pieces, entries)
  BY <1>1, <1>2 DEF Stores, Way
<1> QED BY <1>3, <1>4, Zenon

\* The entries up to some place are stored on the way.
LEMMA StorePrefix ==
    ASSUME NEW pieces, NEW entries, Sequence(entries), NEW g, Way(g, pieces, entries),
           NEW m \in 0 .. Len(entries)
    PROVE  Store(pieces, SubSeq(entries, 1, m)) = g[m]
<1> DEFINE prefix == SubSeq(entries, 1, m)
<1>0. Len(entries) \in Nat
  BY SequenceFacts, Zenon
<1>1. /\ Sequence(prefix) /\ Len(prefix) = m
      /\ \A k \in 1 .. m : prefix[k] = entries[k]
  BY <1>0, SequenceSub
<1> HIDE DEF prefix
<1>2. PICK h : Way(h, pieces, prefix) /\ Store(pieces, prefix) = h[m]
  BY <1>1, StoreWay, Zenon
<1> DEFINE T == {k \in Nat : k <= m => h[k] = g[k]}
<1>3. 0 \in T
  BY <1>2 DEF Way
<1>4. ASSUME NEW k \in Nat, k \in T PROVE k + 1 \in T
  <2> SUFFICES ASSUME k + 1 <= m PROVE h[k + 1] = g[k + 1]
    OBVIOUS
  <2>1. k + 1 \in 1 .. m /\ k + 1 \in 1 .. Len(entries) /\ (k + 1) - 1 = k
    BY <1>0
  <2>2. h[k + 1] = StoreEntry(h[k], entries[k + 1])
    BY <1>1, <1>2, <2>1 DEF Way
  <2>3. g[k + 1] = StoreEntry(g[k], entries[k + 1])
    BY <2>1 DEF Way
  <2>4. h[k] = g[k]
    BY <1>4
  <2> QED BY <2>2, <2>3, <2>4
<1>5. Nat \subseteq T
  BY <1>3, <1>4, Induction, Zenon
<1>6. h[m] = g[m]
  BY <1>5
<1> QED BY <1>2, <1>6, Zenon DEF prefix

-----------------------------------------------------------------------------
(* Storing the entries again, after some or all of them, changes nothing. *)

Piece == {"basic", "children", "xattr"}
IsStore(x) ==
    /\ x = [f \in Piece |-> x[f]]
    /\ \A f \in Piece : x[f] = [i \in DOMAIN x[f] |-> x[f][i]]

\* The entry sets or removes the piece f of the inode i.
Touches(n, f, i) == n.inode = i /\ (n.op = "remove" \/ n.field = f)

\* Two stores have the same piece f of the inode i, or both have none.
Same(x, y, f, i) ==
    /\ i \in DOMAIN x[f] <=> i \in DOMAIN y[f]
    /\ i \in DOMAIN x[f] => x[f][i] = y[f][i]

\* The piece is as the entry has it.
Set(x, n, f, i) ==
    /\ n.op = "remove" => i \notin DOMAIN x[f]
    /\ n.op # "remove" => i \in DOMAIN x[f] /\ x[f][i] = n.buf

LEMMA SameEverywhere ==
    ASSUME NEW x, NEW y, IsStore(x), IsStore(y), \A f \in Piece : \A i : Same(x, y, f, i)
    PROVE  x = y
<1>1. ASSUME NEW f \in Piece PROVE x[f] = y[f]
  <2>1. DOMAIN x[f] = DOMAIN y[f] /\ \A i \in DOMAIN x[f] : x[f][i] = y[f][i]
    BY DEF Same
  <2>2. x[f] = [i \in DOMAIN x[f] |-> x[f][i]] /\ y[f] = [i \in DOMAIN y[f] |-> y[f][i]]
    BY DEF IsStore
  <2> DEFINE p == x[f]
             q == y[f]
  <2> HIDE DEF p, q
  <2>3. /\ DOMAIN p = DOMAIN q /\ \A i \in DOMAIN p : p[i] = q[i]
        /\ p = [i \in DOMAIN p |-> p[i]] /\ q = [i \in DOMAIN q |-> q[i]]
    BY <2>1, <2>2, Zenon DEF p, q
  <2>4. p = q
    BY <2>3
  <2> QED BY <2>4 DEF p, q
<1>2. x = [f \in Piece |-> x[f]] /\ y = [f \in Piece |-> y[f]]
  BY DEF IsStore
<1> HIDE DEF Piece
<1> QED BY <1>1, <1>2

LEMMA SameTransitive ==
    ASSUME NEW x, NEW y, NEW z, NEW f, NEW i, Same(x, y, f, i), Same(y, z, f, i)
    PROVE  Same(x, z, f, i) /\ Same(y, x, f, i)
BY DEF Same

LEMMA StoreOne ==
    ASSUME NEW x, NEW n, IsStore(x)
    PROVE  /\ IsStore(StoreEntry(x, n))
           /\ \A f \in Piece : \A i : ~Touches(n, f, i) => Same(StoreEntry(x, n), x, f, i)
           /\ \A f \in Piece : \A i : Touches(n, f, i) =>
                Set(StoreEntry(x, n), n, f, i)
<1> DEFINE y == StoreEntry(x, n)
<1>0. DOMAIN x = Piece
  BY DEF IsStore
<1>1. CASE n.op = "remove"
  <2>1. y = [f \in Piece |-> Without(x[f], n.inode)]
    BY <1>0, <1>1 DEF StoreEntry
  <2> HIDE DEF y
  <2>2. \A f \in Piece : y[f] = [i \in DOMAIN x[f] \ {n.inode} |-> x[f][i]]
    BY <2>1 DEF Without
  <2>3. IsStore(y)
    BY <2>1, <2>2, Zenon DEF IsStore
  <2>4. \A f \in Piece : \A i : ~Touches(n, f, i) => Same(y, x, f, i)
    BY <1>1, <2>2, Zenon DEF Touches, Same
  <2>5. \A f \in Piece : \A i : Touches(n, f, i) => i \notin DOMAIN y[f]
    BY <2>2, Zenon DEF Touches
  <2> QED BY <1>1, <2>3, <2>4, <2>5, Zenon DEF y, Set
<1>2. CASE n.op # "remove"
  <2> DEFINE new(f) == With(x[f], n.inode, n.buf)
  <2>1. \A f : new(f) = [i \in DOMAIN x[f] \cup {n.inode} |->
                           IF i = n.inode THEN n.buf ELSE x[f][i]]
    BY Zenon DEF With
  <2>2. y = [f \in Piece |-> IF f = n.field THEN new(f) ELSE x[f]]
    BY <1>0, <1>2, Zenon DEF StoreEntry
  <2> HIDE DEF y, new
  <2>3. \A f \in Piece : y[f] = IF f = n.field THEN new(f) ELSE x[f]
    BY <2>2, Zenon
  <2>4. \A f \in Piece : new(f) = [i \in DOMAIN new(f) |-> new(f)[i]]
    BY <2>1, Zenon
  <2>5. IsStore(y)
    <3>1. y = [f \in Piece |-> y[f]]
      BY <2>2
    <3>2. \A f \in Piece : y[f] = [i \in DOMAIN y[f] |-> y[f][i]]
      <4> SUFFICES ASSUME NEW f \in Piece PROVE y[f] = [i \in DOMAIN y[f] |-> y[f][i]]
        BY Zenon
      <4>1. CASE f = n.field
        <5>1. y[f] = new(f)
          BY <2>3, <4>1, Zenon
        <5> QED BY <2>4, <5>1, Zenon
      <4>2. CASE f # n.field
        <5>1. y[f] = x[f] /\ x[f] = [i \in DOMAIN x[f] |-> x[f][i]]
          BY <2>3, <4>2, Zenon DEF IsStore
        <5> QED BY <5>1, Zenon
      <4> QED BY <4>1, <4>2, Zenon
    <3> QED BY <3>1, <3>2, Zenon DEF IsStore
  <2>6. ASSUME NEW f \in Piece, NEW i, ~Touches(n, f, i) PROVE Same(y, x, f, i)
    <3>1. CASE f # n.field
      BY <2>3, <3>1 DEF Same
    <3>2. CASE f = n.field
      <4>1. i # n.inode
        BY <2>6, <3>2 DEF Touches
      <4>2. y[f] = [j \in DOMAIN x[f] \cup {n.inode} |-> IF j = n.inode THEN n.buf ELSE x[f][j]]
        BY <2>1, <2>3, <3>2, Zenon
      <4> QED BY <4>1, <4>2 DEF Same
    <3> QED BY <3>1, <3>2, Zenon
  <2>7. ASSUME NEW f \in Piece, NEW i, Touches(n, f, i)
        PROVE  i \in DOMAIN y[f] /\ y[f][i] = n.buf
    <3>1. f = n.field /\ i = n.inode
      BY <1>2, <2>7 DEF Touches
    <3>2. y[f] = [j \in DOMAIN x[f] \cup {n.inode} |-> IF j = n.inode THEN n.buf ELSE x[f][j]]
      BY <2>1, <2>3, <3>1, Zenon
    <3> QED BY <3>1, <3>2
  <2> QED BY <1>2, <2>5, <2>6, <2>7, Zenon DEF y, Set
<1> QED BY <1>1, <1>2, Zenon

LEMMA TouchedAlike ==
    ASSUME NEW x, NEW y, NEW n, IsStore(x), IsStore(y), NEW f \in Piece, NEW i, Touches(n, f, i)
    PROVE  Same(StoreEntry(x, n), StoreEntry(y, n), f, i)
<1>1. Set(StoreEntry(x, n), n, f, i) /\ Set(StoreEntry(y, n), n, f, i)
  BY StoreOne, Zenon
<1> QED BY <1>1, Zenon DEF Same, Set

\* What no entry up to some place touches is as it was.
Kept(y, x, entries, k) ==
    \A f \in Piece : \A i :
        (\A j \in 1 .. k : ~Touches(entries[j], f, i)) => Same(y, x, f, i)

LEMMA WayKeeps ==
    ASSUME NEW x, NEW entries, NEW g, IsStore(x), Sequence(entries), Way(g, x, entries)
    PROVE  \A k \in 0 .. Len(entries) : IsStore(g[k]) /\ Kept(g[k], x, entries, k)
<1> DEFINE n == Len(entries)
           T == {k \in Nat : k <= n => IsStore(g[k]) /\ Kept(g[k], x, entries, k)}
<1>0. n \in Nat
  BY SequenceFacts, Zenon
<1>1. 0 \in T
  <2>1. g[0] = x
    BY DEF Way
  <2>2. Kept(x, x, entries, 0)
    BY DEF Kept, Same
  <2> QED BY <2>1, <2>2
<1>2. ASSUME NEW k \in Nat, k \in T PROVE k + 1 \in T
  <2> SUFFICES ASSUME k + 1 <= n
               PROVE  IsStore(g[k + 1]) /\ Kept(g[k + 1], x, entries, k + 1)
    OBVIOUS
  <2>1. k <= n /\ k + 1 \in 1 .. n /\ (k + 1) - 1 = k /\ 1 .. k \subseteq 1 .. k + 1
        /\ k + 1 \in 1 .. k + 1
    BY <1>0
  <2>2. g[k + 1] = StoreEntry(g[k], entries[k + 1])
    BY <2>1, Zenon DEF Way
  <2>3. IsStore(g[k]) /\ Kept(g[k], x, entries, k)
    BY <1>2, <2>1, Zenon
  <2>4. IsStore(g[k + 1])
    BY <2>2, <2>3, StoreOne, Zenon
  <2>5. ASSUME NEW f \in Piece, NEW i, \A j \in 1 .. k + 1 : ~Touches(entries[j], f, i)
        PROVE  Same(g[k + 1], x, f, i)
    <3>1. Same(g[k], x, f, i)
      BY <2>1, <2>3, <2>5, Zenon DEF Kept
    <3>2. Same(g[k + 1], g[k], f, i)
      BY <2>1, <2>2, <2>3, <2>5, StoreOne, Zenon
    <3> QED BY <3>1, <3>2, SameTransitive, Zenon
  <2> QED BY <2>4, <2>5, Zenon DEF Kept
<1>3. Nat \subseteq T
  BY <1>1, <1>2, Induction, Zenon
<1> QED BY <1>0, <1>3

\* What some entry touches does not depend on what was there before.
LEMMA WaysMeet ==
    ASSUME NEW x, NEW y, NEW entries, NEW g, NEW h, IsStore(x), IsStore(y),
           Sequence(entries), Way(g, x, entries), Way(h, y, entries)
    PROVE  \A k \in 0 .. Len(entries) : \A f \in Piece : \A i :
             (\E j \in 1 .. k : Touches(entries[j], f, i)) => Same(g[k], h[k], f, i)
<1> DEFINE n == Len(entries)
           Meet(k) == \A f \in Piece : \A i :
             (\E j \in 1 .. k : Touches(entries[j], f, i)) => Same(g[k], h[k], f, i)
           T == {k \in Nat : k <= n => Meet(k)}
<1>0. n \in Nat
  BY SequenceFacts, Zenon
<1>1. 0 \in T
  OBVIOUS
<1>2. ASSUME NEW k \in Nat, k \in T PROVE k + 1 \in T
  <2> SUFFICES ASSUME k + 1 <= n, NEW f \in Piece, NEW i, NEW j \in 1 .. k + 1,
                      Touches(entries[j], f, i)
               PROVE  Same(g[k + 1], h[k + 1], f, i)
    OBVIOUS
  <2>1. k <= n /\ k \in 0 .. n /\ k + 1 \in 1 .. n /\ (k + 1) - 1 = k
        /\ (j \in 1 .. k \/ j = k + 1)
    BY <1>0
  <2>2. /\ g[k + 1] = StoreEntry(g[k], entries[k + 1])
        /\ h[k + 1] = StoreEntry(h[k], entries[k + 1])
    BY <2>1, Zenon DEF Way
  <2>3. IsStore(g[k]) /\ IsStore(h[k])
    BY <2>1, WayKeeps, Zenon
  <2>4. CASE Touches(entries[k + 1], f, i)
    BY <2>2, <2>3, <2>4, TouchedAlike, Zenon
  <2>5. CASE ~Touches(entries[k + 1], f, i)
    <3>1. j \in 1 .. k
      BY <2>1, <2>5, Zenon
    <3>2. Same(g[k], h[k], f, i)
      BY <1>2, <2>1, <3>1, Zenon
    <3>3. Same(g[k + 1], g[k], f, i) /\ Same(h[k + 1], h[k], f, i)
      BY <2>2, <2>3, <2>5, StoreOne, Zenon
    <3>4. Same(h[k], h[k + 1], f, i)
      BY <3>3, Zenon DEF Same
    <3> QED BY <3>2, <3>3, <3>4, SameTransitive, Zenon
  <2> QED BY <2>4, <2>5, Zenon
<1>3. Nat \subseteq T
  BY <1>1, <1>2, Induction, Zenon
<1>4. \A k \in 0 .. n : k \in Nat /\ k <= n
  BY <1>0
<1> QED BY <1>3, <1>4, Zenon

LEMMA StoreIsStore ==
    ASSUME NEW x, NEW entries, IsStore(x), Sequence(entries)
    PROVE  IsStore(Store(x, entries))
<1>1. PICK g : Way(g, x, entries) /\ Store(x, entries) = g[Len(entries)]
  BY StoreWay, Zenon
<1>2. Len(entries) \in Nat /\ Len(entries) \in 0 .. Len(entries)
  BY SequenceFacts
<1> QED BY <1>1, <1>2, WayKeeps, Zenon

\* The redo log is idempotent: after any first part of the batch was stored, storing
\* the whole batch leaves what it would have left without (fdir_storage_engine_redo).
THEOREM StoreAgain ==
    ASSUME NEW x, NEW entries, IsStore(x), Sequence(entries), NEW m \in 0 .. Len(entries)
    PROVE  Store(Store(x, SubSeq(entries, 1, m)), entries) = Store(x, entries)
<1> DEFINE n == Len(entries)
<1>0. n \in Nat /\ n \in 0 .. n
  BY SequenceFacts
<1>1. PICK g : Way(g, x, entries) /\ Store(x, entries) = g[n]
  BY StoreWay, Zenon
<1>2. Store(x, SubSeq(entries, 1, m)) = g[m]
  BY <1>1, StorePrefix
<1>3. IsStore(g[m]) /\ Kept(g[m], x, entries, m)
  BY <1>1, WayKeeps, Zenon
<1>4. PICK h : Way(h, g[m], entries) /\ Store(g[m], entries) = h[n]
  BY StoreWay, Zenon
<1>5. IsStore(g[n]) /\ Kept(g[n], x, entries, n)
  BY <1>0, <1>1, WayKeeps, Zenon
<1>6. IsStore(h[n]) /\ Kept(h[n], g[m], entries, n)
  BY <1>0, <1>3, <1>4, WayKeeps, Zenon
<1>7. ASSUME NEW f \in Piece, NEW i PROVE Same(h[n], g[n], f, i)
  <2>1. CASE \E j \in 1 .. n : Touches(entries[j], f, i)
    BY <1>0, <1>1, <1>3, <1>4, <2>1, WaysMeet, Zenon
  <2>2. CASE \A j \in 1 .. n : ~Touches(entries[j], f, i)
    <3>1. 1 .. m \subseteq 1 .. n
      BY <1>0
    <3>2. Same(h[n], g[m], f, i) /\ Same(g[m], x, f, i) /\ Same(g[n], x, f, i)
      BY <1>3, <1>5, <1>6, <2>2, <3>1, Zenon DEF Kept
    <3> QED BY <3>2, Zenon DEF Same
  <2> QED BY <2>1, <2>2, Zenon
<1>8. h[n] = g[n]
  BY <1>5, <1>6, <1>7, SameEverywhere, Zenon
<1> QED BY <1>1, <1>2, <1>4, <1>8, Zenon

LEMMA StoreTwice ==
    ASSUME NEW x, NEW entries, IsStore(x), Sequence(entries)
    PROVE  Store(Store(x, entries), entries) = Store(x, entries)
<1> DEFINE n == Len(entries)
<1>1. n \in Nat /\ n \in 0 .. n
  BY SequenceFacts
<1>2. PICK g : Way(g, x, entries) /\ Store(x, entries) = g[n]
  BY StoreWay, Zenon
<1>3. Store(x, SubSeq(entries, 1, n)) = g[n]
  BY <1>1, <1>2, StorePrefix
<1>4. Store(Store(x, SubSeq(entries, 1, n)), entries) = Store(x, entries)
  BY <1>1, StoreAgain, Zenon
<1> QED BY <1>2, <1>3, <1>4, Zenon

LEMMA StoreNothing ==
    ASSUME NEW x, NEW entries, Sequence(entries)
    PROVE  Store(x, SubSeq(entries, 1, 0)) = x
<1>1. PICK g : Way(g, x, entries)
  BY StoreWay, Zenon
<1>2. 0 \in 0 .. Len(entries)
  BY SequenceFacts
<1>3. Store(x, SubSeq(entries, 1, 0)) = g[0]
  BY <1>1, <1>2, StorePrefix
<1> QED BY <1>1, <1>3, Zenon DEF Way

-----------------------------------------------------------------------------
(* What an earlier life of the server leaves. *)

LEMMA PackedUpdate ==
    ASSUME NEW rec, IsUpdate(rec)
    PROVE  IsUpdate(Packed(rec))
BY OpField DEF IsUpdate, Packed

LivedWell(s) ==
    /\ Sequence(s.log) /\ \A k \in 1 .. Len(s.log) : IsUpdate(s.log[k])
    /\ Sequence(s.entries) /\ s.field \in Nat /\ IsStore(s.db)

LEMMA LogAppend ==
    ASSUME NEW q, NEW rec, Sequence(q), \A k \in 1 .. Len(q) : IsUpdate(q[k]), IsUpdate(rec)
    PROVE  LET r == Append(q, rec)
           IN  Sequence(r) /\ \A k \in 1 .. Len(r) : IsUpdate(r[k])
<1> DEFINE r == Append(q, rec)
<1>1. /\ Sequence(r) /\ Len(r) = Len(q) + 1
      /\ \A i \in 1 .. Len(q) : r[i] = q[i]
      /\ r[Len(q) + 1] = rec
  BY SequenceAppend
<1> HIDE DEF r
<1>2. Len(q) \in Nat
  BY SequenceFacts, Zenon
<1>3. ASSUME NEW k \in 1 .. Len(r) PROVE IsUpdate(r[k])
  <2>1. k \in 1 .. Len(q) \/ k = Len(q) + 1
    BY <1>1, <1>2
  <2> QED BY <1>1, <2>1, Zenon
<1> QED BY <1>1, <1>3, Zenon DEF r

LEMMA LifeStep ==
    ASSUME NEW s, NEW rec, LivedWell(s), IsUpdate(rec)
    PROVE  LivedWell(Life(s, rec))
<1> DEFINE r == Apply(s.mem, NoPieces, rec, s.next)
           e == PushEvent(r, s.args)
           event == [version |-> s.next, msgs |-> e.msgs]
           m == Merge(e.args, <<event>>)
           n == Stored(s, r, e, m)
<1>1. Good(r)
  BY GoodApply, Zenon
<1> HIDE DEF r
<1>2. Sequence(e.msgs)
  BY <1>1, PushedSequence, Zenon
<1> HIDE DEF e
<1>3. event.msgs = e.msgs
  OBVIOUS
<1> HIDE DEF event
<1>4. /\ Sequence(<<event>>) /\ Len(<<event>>) = 1
      /\ \A k \in 1 .. Len(<<event>>) : <<event>>[k] = event
  BY SequenceShort
<1>5. Sequence(m.entries)
  BY <1>2, <1>3, <1>4, MergeSequence, Zenon
<1> HIDE DEF m
<1>6. /\ n.log = Append(s.log, Packed(r.rec)) /\ n.entries = m.entries
      /\ n.field = s.field + Len(m.entries) /\ n.db = Store(s.db, m.entries)
  BY DEF Stored
<1> HIDE DEF n
<1>7. IsUpdate(Packed(r.rec))
  BY <1>1, PackedUpdate, Zenon DEF Good
<1>8. Sequence(n.log) /\ \A k \in 1 .. Len(n.log) : IsUpdate(n.log[k])
  BY <1>6, <1>7, LogAppend, Zenon DEF LivedWell
<1>9. Len(m.entries) \in Nat
  BY <1>5, SequenceFacts, Zenon
<1>10. s.field \in Nat
  BY Zenon DEF LivedWell
<1>11. n.field \in Nat
  BY <1>6, <1>9, <1>10
<1>12. IsStore(n.db)
  BY <1>5, <1>6, StoreIsStore, Zenon DEF LivedWell
<1>13. LivedWell(n)
  BY <1>5, <1>6, <1>8, <1>11, <1>12, Zenon DEF LivedWell
<1>14. Life(s, rec) = n
  BY Zenon DEF Life, Lives, Notified, n, m, event, e, r
<1> QED BY <1>13, <1>14, Zenon

Lifetime(g, n) == g = [k \in 0 .. n |-> IF k = 0 THEN NoLife ELSE Life(g[k - 1], Boot[k])]

LEMMA LifetimeExists == \A n \in Nat : \E g : Lifetime(g, n)
<1> DEFINE T == {n \in Nat : \E g : Lifetime(g, n)}
<1>1. 0 \in T
  <2> DEFINE g == [k \in 0 .. 0 |-> NoLife]
  <2>1. g = [k \in 0 .. 0 |-> IF k = 0 THEN NoLife ELSE Life(g[k - 1], Boot[k])]
    OBVIOUS
  <2> HIDE DEF g
  <2> QED BY <2>1 DEF Lifetime
<1>2. ASSUME NEW n \in Nat, n \in T PROVE n + 1 \in T
  <2>1. PICK g : Lifetime(g, n)
    BY <1>2
  <2> DEFINE h == [k \in 0 .. n + 1 |-> IF k = n + 1 THEN Life(g[n], Boot[k]) ELSE g[k]]
  <2>2. ASSUME NEW k \in 0 .. n + 1
        PROVE  h[k] = IF k = 0 THEN NoLife ELSE Life(h[k - 1], Boot[k])
    <3>1. CASE k = n + 1
      <4>1. k # 0 /\ k - 1 = n /\ n \in 0 .. n + 1 /\ n # n + 1
        BY <3>1
      <4>2. h[k] = Life(g[n], Boot[k]) /\ h[n] = g[n]
        BY <3>1, <4>1, Zenon
      <4> QED BY <4>1, <4>2, Zenon
    <3>2. CASE k # n + 1
      <4>1. k \in 0 .. n /\ h[k] = g[k]
        BY <3>2
      <4>2. g[k] = IF k = 0 THEN NoLife ELSE Life(g[k - 1], Boot[k])
        BY <2>1, <4>1 DEF Lifetime
      <4>3. k # 0 => k - 1 \in 0 .. n /\ h[k - 1] = g[k - 1]
        BY <4>1
      <4> QED BY <4>1, <4>2, <4>3
    <3> QED BY <3>1, <3>2
  <2>3. h = [k \in 0 .. n + 1 |-> IF k = 0 THEN NoLife ELSE Life(h[k - 1], Boot[k])]
    BY <2>2
  <2> HIDE DEF h
  <2>4. Lifetime(h, n + 1)
    BY <2>3 DEF Lifetime
  <2> QED BY <2>4
<1>3. Nat \subseteq T
  BY <1>1, <1>2, Induction, Zenon
<1> QED BY <1>3

LEMMA LivedIsWell == LivedWell(Lived)
<1> DEFINE n == Len(Boot)
           g == CHOOSE f : Lifetime(f, n)
<1>0. n \in Nat /\ \A k \in 1 .. n : IsUpdate(Boot[k])
  <2> DEFINE S == {r \in ToSet(Boot) : IsUpdate(r)}
  <2>1. Boot \in Seq(S) /\ \A r \in S : IsUpdate(r)
    BY BootAssumption, Zenon
  <2> HIDE DEF S
  <2>2. n \in Nat /\ \A k \in 1 .. n : Boot[k] \in S
    BY <2>1
  <2> QED BY <2>1, <2>2, Zenon
<1>1. Lived = g[n]
  BY DEF Lived, FoldLeft, Lifetime
<1>2. Lifetime(g, n)
  BY <1>0, LifetimeExists, Zenon
<1> HIDE DEF g
<1>3. \A k \in 0 .. n : g[k] = IF k = 0 THEN NoLife ELSE Life(g[k - 1], Boot[k])
  BY <1>2 DEF Lifetime
<1> DEFINE T == {k \in Nat : k \in 0 .. n => LivedWell(g[k])}
<1>4. 0 \in T
  <2>1. g[0] = NoLife
    BY <1>0, <1>3
  <2>2. /\ NoLife.log = <<>> /\ NoLife.entries = <<>> /\ NoLife.field = 0
        /\ NoLife.db = NoPieces
    BY DEF NoLife
  <2>3. IsStore(NoPieces)
    BY DEF NoPieces, IsStore, Piece
  <2>4. Sequence(<<>>) /\ Len(<<>>) = 0 /\ 1 .. 0 = {}
    BY SequenceShort
  <2>5. LivedWell(NoLife)
    BY <2>2, <2>3, <2>4 DEF LivedWell
  <2> QED BY <2>1, <2>5
<1>5. ASSUME NEW k \in Nat, k \in T PROVE k + 1 \in T
  <2> SUFFICES ASSUME k + 1 \in 0 .. n PROVE LivedWell(g[k + 1])
    OBVIOUS
  <2>1. k \in 0 .. n /\ k + 1 \in 1 .. n /\ (k + 1) - 1 = k /\ k + 1 # 0
    BY <1>0
  <2>2. g[k + 1] = Life(g[k], Boot[k + 1])
    BY <1>3, <2>1, Zenon
  <2>3. LivedWell(g[k])
    BY <1>5, <2>1
  <2> QED BY <1>0, <2>1, <2>2, <2>3, LifeStep, Zenon
<1>6. Nat \subseteq T
  BY <1>4, <1>5, Induction, Zenon
<1>7. LivedWell(g[n])
  BY <1>0, <1>6
<1> QED BY <1>1, <1>7, Zenon

-----------------------------------------------------------------------------
(* The inductive invariant. *)

LogOK(q) == Sequence(q) /\ \A k \in 1 .. Len(q) : IsUpdate(q[k])

\* Events with messages, of ascending versions above lo and up to hi.
QueueOK(q, lo, hi) ==
    /\ Sequence(q)
    /\ \A k \in 1 .. Len(q) : /\ Sequence(q[k].msgs)
                              /\ q[k].version \in Nat
                              /\ lo < q[k].version /\ q[k].version <= hi
    /\ \A j, k \in 1 .. Len(q) : j < k => q[j].version < q[k].version

\* The notify thread may work: the server is up, or has stopped loading in the
\* middle of a batch.
Running == phase \in {"replay", "serve"} \/ step # "idle"

Types ==
    /\ written \in Nat /\ version \in Nat /\ crashes \in 0 .. MaxCrashes
    /\ phase \in {"resume", "replay", "serve", "failed"}
    /\ step \in {"idle", "redo", "dump", "store"}
    /\ last.field \in Nat /\ last.dentry \in Nat
    /\ redo.field \in Nat /\ redo.dentry \in Nat
    /\ dump.last \in Nat
    /\ LogOK(log) /\ Sequence(batch) /\ Sequence(redo.entries)

\* The versions, from what is stored to what is executed.
Versions ==
    /\ redo.dentry <= written /\ last.dentry <= written /\ written <= Len(log)
    /\ last.dentry <= version /\ version <= Len(log)
    /\ phase = "serve" => version = Len(log)
    /\ phase # "serve" => written = Len(log)
    /\ phase = "resume" => step = "idle" /\ queue = <<>> /\ version = 0 /\ last.dentry = 0
    /\ Running => redo.dentry <= last.dentry
    /\ step = "redo" => redo.dentry < last.dentry

\* What is counted: the batch of the redo file, in the dump or on top of it.
Counts ==
    /\ dump.last <= redo.field
    /\ Running => last.field = redo.field + IF step = "redo" THEN Len(batch) ELSE 0
    /\ Running => dump.counts = delay
    /\ step = "dump" => dump.last < redo.field \/ ~Changes(redo.entries)
    /\ Running /\ step # "dump" => dump.last = redo.field \/ ~Changes(redo.entries)

\* What is stored: the batch of the redo file, unless it is the one in progress.
Pieces ==
    /\ IsStore(db)
    /\ step \in {"dump", "store"} => redo.entries = batch
    /\ Running /\ step \in {"idle", "redo"} => Store(db, redo.entries) = db

IInv ==
    /\ Types /\ QueueOK(queue, last.dentry, version)
    /\ Versions /\ Counts /\ Pieces

LEMMA QueueEmpty == \A lo, hi : QueueOK(<<>>, lo, hi)
BY SequenceShort DEF QueueOK

LEMMA QueueAppend ==
    ASSUME NEW q, NEW lo \in Nat, NEW hi \in Nat, lo <= hi, QueueOK(q, lo, hi),
           NEW e, e.version = hi + 1, Sequence(e.msgs)
    PROVE  QueueOK(Append(q, e), lo, hi + 1)
<1> DEFINE r == Append(q, e)
<1>0. Sequence(q) /\ Len(q) \in Nat
  BY SequenceFacts, Zenon DEF QueueOK
<1>1. /\ Sequence(r) /\ Len(r) = Len(q) + 1
      /\ \A i \in 1 .. Len(q) : r[i] = q[i]
      /\ r[Len(q) + 1] = e
  BY <1>0, SequenceAppend
<1> HIDE DEF r
<1>2. ASSUME NEW k \in 1 .. Len(r)
      PROVE  /\ Sequence(r[k].msgs) /\ r[k].version \in Nat
             /\ lo < r[k].version /\ r[k].version <= hi + 1
  <2>1. CASE k = Len(q) + 1
    BY <1>1, <2>1
  <2>2. CASE k \in 1 .. Len(q)
    BY <1>1, <2>2 DEF QueueOK
  <2> QED BY <1>0, <1>1, <2>1, <2>2
<1>3. ASSUME NEW j \in 1 .. Len(r), NEW k \in 1 .. Len(r), j < k
      PROVE  r[j].version < r[k].version
  <2>0. j \in 1 .. Len(q)
    BY <1>0, <1>1, <1>3
  <2>1. CASE k = Len(q) + 1
    BY <1>1, <2>0, <2>1 DEF QueueOK
  <2>2. CASE k \in 1 .. Len(q)
    BY <1>1, <1>3, <2>0, <2>2 DEF QueueOK
  <2> QED BY <1>0, <1>1, <2>1, <2>2
<1>4. QueueOK(r, lo, hi + 1)
  BY <1>1, <1>2, <1>3, Zenon DEF QueueOK
<1> QED BY <1>4 DEF r

LEMMA QueueGrow ==
    ASSUME NEW q, NEW lo \in Nat, NEW hi \in Nat, QueueOK(q, lo, hi)
    PROVE  QueueOK(q, lo, hi + 1)
BY DEF QueueOK

LEMMA QueuePop ==
    ASSUME NEW q, NEW lo \in Nat, NEW hi \in Nat, QueueOK(q, lo, hi), NEW n \in 1 .. Len(q)
    PROVE  /\ QueueOK(SubSeq(q, n + 1, Len(q)), q[n].version, hi)
           /\ q[n].version \in Nat /\ lo < q[n].version /\ q[n].version <= hi
           /\ Sequence(SubSeq(q, 1, n))
           /\ \A k \in 1 .. Len(SubSeq(q, 1, n)) : Sequence(SubSeq(q, 1, n)[k].msgs)
<1> DEFINE p == SubSeq(q, 1, n)
           r == SubSeq(q, n + 1, Len(q))
<1>0. Sequence(q) /\ Len(q) \in Nat
  BY SequenceFacts, Zenon DEF QueueOK
<1>1. Sequence(p) /\ Len(p) = n /\ \A k \in 1 .. n : p[k] = q[k]
  BY <1>0, SequenceSub
<1>2. /\ Sequence(r) /\ Len(r) = Len(q) - n
      /\ \A k \in 1 .. Len(q) - n : r[k] = q[n + k]
  <2>1. n + 1 \in 1 .. Len(q) + 1 /\ Len(q) \in (n + 1) - 1 .. Len(q)
    BY <1>0
  <2>2. /\ Sequence(r) /\ Len(r) = Len(q) - (n + 1) + 1
        /\ \A k \in 1 .. Len(q) - (n + 1) + 1 : r[k] = q[(n + 1) + k - 1]
    BY <1>0, <2>1, SequenceSub, Zenon
  <2> HIDE DEF r
  <2> QED BY <1>0, <2>2
<1> HIDE DEF p, r
<1>3. \A k \in 1 .. Len(p) : Sequence(p[k].msgs)
  BY <1>0, <1>1 DEF QueueOK
<1>4. q[n].version \in Nat /\ lo < q[n].version /\ q[n].version <= hi
  BY DEF QueueOK
<1>5. ASSUME NEW k \in 1 .. Len(r)
      PROVE  /\ Sequence(r[k].msgs) /\ r[k].version \in Nat
             /\ q[n].version < r[k].version /\ r[k].version <= hi
  <2>1. n + k \in 1 .. Len(q) /\ n < n + k /\ r[k] = q[n + k]
    BY <1>0, <1>2
  <2> QED BY <2>1 DEF QueueOK
<1>6. ASSUME NEW j \in 1 .. Len(r), NEW k \in 1 .. Len(r), j < k
      PROVE  r[j].version < r[k].version
  <2>1. n + j \in 1 .. Len(q) /\ n + k \in 1 .. Len(q) /\ n + j < n + k
        /\ r[j] = q[n + j] /\ r[k] = q[n + k]
    BY <1>0, <1>2, <1>6
  <2> QED BY <2>1 DEF QueueOK
<1>7. QueueOK(r, q[n].version, hi)
  BY <1>2, <1>5, <1>6, Zenon DEF QueueOK
<1> QED BY <1>1, <1>3, <1>4, <1>7, Zenon DEF p, r

LEMMA InitInv == Init => IInv
<1> SUFFICES ASSUME Init PROVE IInv
  OBVIOUS
<1> DEFINE s == Lived
<1>1. LivedWell(s)
  BY LivedIsWell, Zenon
<1> HIDE DEF s
<1>2. /\ log = s.log /\ written = Len(s.log) /\ db = s.db
      /\ redo = [entries |-> s.entries, field |-> s.field, dentry |-> Len(s.log)]
      /\ dump = [last |-> s.field, counts |-> s.delay]
  BY Zenon DEF Init, s
<1>3. /\ version = 0 /\ phase = "resume" /\ queue = <<>> /\ batch = <<>> /\ step = "idle"
      /\ last = [field |-> 0, dentry |-> 0] /\ crashes = 0
  BY Zenon DEF Init
<1>4. Len(log) \in Nat /\ Sequence(s.log)
  BY <1>1, <1>2, SequenceFacts, Zenon DEF LivedWell
<1>5. /\ redo.entries = s.entries /\ redo.field = s.field /\ redo.dentry = Len(log)
      /\ dump.last = s.field /\ last.field = 0 /\ last.dentry = 0
  BY <1>2, <1>3
<1>6. s.field \in Nat /\ Sequence(s.entries) /\ LogOK(log) /\ IsStore(db)
  BY <1>1, <1>2, Zenon DEF LivedWell, LogOK
<1>7. Types
  BY <1>2, <1>3, <1>4, <1>5, <1>6, SequenceShort, BoundsAssumption DEF Types
<1>8. QueueOK(queue, last.dentry, version)
  BY <1>3, QueueEmpty, Zenon
<1>9. Versions
  BY <1>2, <1>3, <1>4, <1>5 DEF Versions, Running
<1>10. Counts
  BY <1>3, <1>5, <1>6 DEF Counts, Running
<1>11. Pieces
  BY <1>3, <1>6 DEF Pieces, Running
<1> QED BY <1>7, <1>8, <1>9, <1>10, <1>11 DEF IInv

-----------------------------------------------------------------------------
(* Every action preserves it. *)

\* An executed record: its event goes to the end of the queue.
LEMMA ExecutedQueue ==
    ASSUME Types, Versions, QueueOK(queue, last.dentry, version), NEW r, Good(r),
           Executed(r, version + 1), UNCHANGED last
    PROVE  version' = version + 1 /\ QueueOK(queue, last.dentry, version)'
<1> DEFINE e == PushEvent(r, args)
           event == [version |-> version + 1, msgs |-> e.msgs]
<1>1. Sequence(e.msgs)
  BY PushedSequence, Zenon
<1>2. queue' = Append(queue, event) /\ version' = version + 1
  BY Zenon DEF Executed
<1> HIDE DEF e
<1>3. event.version = version + 1 /\ event.msgs = e.msgs
  OBVIOUS
<1> HIDE DEF event
<1>4. version \in Nat /\ last.dentry \in Nat /\ last.dentry <= version
  BY DEF Types, Versions
<1>5. QueueOK(Append(queue, event), last.dentry, version + 1)
  BY <1>1, <1>3, <1>4, QueueAppend, Zenon
<1> QED BY <1>2, <1>5, Zenon

LEMMA RequestInv == IInv /\ Request => IInv'
<1> SUFFICES ASSUME IInv, Request PROVE IInv'
  OBVIOUS
<1> USE DEF IInv
<1>1. PICK req \in Requests : \E r \in {Apply(mem, db, req, version + 1)} :
         IF Recorded(req, r)
         THEN /\ Len(log) < Len(Boot) + MaxUpdates
              /\ log' = Append(log, Packed(r.rec))
              /\ Executed(r, version + 1)
              /\ UNCHANGED <<written, phase>>
         ELSE /\ mem' = r.t
              /\ UNCHANGED <<log, written, args, version, phase, queue>>
  BY Zenon DEF Request
<1> DEFINE r == Apply(mem, db, req, version + 1)
<1>2. Good(r)
  BY GoodApply, RequestsAssumption, Zenon
<1> HIDE DEF r
<1>3. \/ log' = Append(log, Packed(r.rec)) /\ Executed(r, version + 1)
      \/ UNCHANGED <<log, version, queue>>
  BY <1>1, Zenon DEF r
<1>4. /\ phase = "serve" /\ UNCHANGED phase /\ UNCHANGED written
      /\ UNCHANGED batch /\ UNCHANGED step /\ UNCHANGED last /\ UNCHANGED delay
      /\ UNCHANGED redo /\ UNCHANGED dump /\ UNCHANGED db /\ UNCHANGED crashes
  BY <1>1, Zenon DEF Request, notifier, disk
<1>5. Counts' /\ Pieces'
  BY <1>4 DEF Counts, Pieces, Running
<1>6. CASE UNCHANGED <<log, version, queue>>
  BY <1>4, <1>5, <1>6 DEF Types, Versions, Running
<1>7. CASE log' = Append(log, Packed(r.rec)) /\ Executed(r, version + 1)
  <2>1. version' = version + 1 /\ QueueOK(queue, last.dentry, version)'
    BY <1>2, <1>4, <1>7, ExecutedQueue, Zenon
  <2>2. IsUpdate(Packed(r.rec)) /\ LogOK(log) /\ Sequence(log)
    BY <1>2, PackedUpdate, Zenon DEF Good, Types, LogOK
  <2>3. LogOK(log')
    BY <1>7, <2>2, LogAppend, Zenon DEF LogOK
  <2>4. Len(log') = Len(log) + 1 /\ Len(log) \in Nat
    BY <1>7, <2>2, SequenceAppend, SequenceFacts, Zenon
  <2>5. Types'
    BY <1>4, <2>1, <2>3 DEF Types
  <2>6. Versions'
    BY <1>4, <2>1, <2>4 DEF Types, Versions, Running
  <2> QED BY <1>5, <2>1, <2>5, <2>6, Zenon
<1> QED BY <1>3, <1>6, <1>7, Zenon

LEMMA WriteBinlogInv == IInv /\ WriteBinlog => IInv'
<1> SUFFICES ASSUME IInv, WriteBinlog PROVE IInv'
  OBVIOUS
<1> USE DEF IInv
<1>1. /\ written < Len(log) /\ written' = written + 1
      /\ UNCHANGED log /\ UNCHANGED version /\ UNCHANGED phase /\ UNCHANGED queue
      /\ UNCHANGED batch /\ UNCHANGED step /\ UNCHANGED last /\ UNCHANGED delay
      /\ UNCHANGED redo /\ UNCHANGED dump /\ UNCHANGED db /\ UNCHANGED crashes
  BY Zenon DEF WriteBinlog, memory, notifier, disk
<1>2. Len(log) \in Nat
  BY SequenceFacts, Zenon DEF Types, LogOK
<1>3. Types'
  BY <1>1 DEF Types
<1>4. Versions'
  BY <1>1, <1>2 DEF Types, Versions, Running
<1>5. Counts' /\ Pieces' /\ QueueOK(queue, last.dentry, version)'
  BY <1>1, Zenon DEF Counts, Pieces, Running
<1> QED BY <1>3, <1>4, <1>5, Zenon

LEMMA PopEventsInv == IInv /\ PopEvents => IInv'
<1> SUFFICES ASSUME IInv, PopEvents PROVE IInv'
  OBVIOUS
<1> USE DEF IInv
<1>1. /\ step = "idle" /\ phase \in {"replay", "serve"} /\ step' = "redo"
      /\ UNCHANGED log /\ UNCHANGED version /\ UNCHANGED phase /\ UNCHANGED written
      /\ UNCHANGED delay
      /\ UNCHANGED redo /\ UNCHANGED dump /\ UNCHANGED db /\ UNCHANGED crashes
  BY Zenon DEF PopEvents, disk
<1>2. PICK n \in 1 .. Len(queue) :
         /\ \A k \in 1 .. n : queue[k].version <= StorableVersion
         /\ n < Len(queue) => queue[n + 1].version > StorableVersion
         /\ queue' = SubSeq(queue, n + 1, Len(queue))
         /\ \E m \in {Merge(args, SubSeq(queue, 1, n))} :
              /\ args' = m.args
              /\ batch' = m.entries
              /\ last' = [field |-> last.field + Len(m.entries),
                          dentry |-> queue[n].version]
  BY Zenon DEF PopEvents
<1> DEFINE p == SubSeq(queue, 1, n)
           m == Merge(args, p)
           v == queue[n].version
<1>3. /\ batch' = m.entries
      /\ last' = [field |-> last.field + Len(m.entries), dentry |-> v]
  BY <1>2, Zenon
<1>4. last.dentry \in Nat /\ version \in Nat /\ written \in Nat
  BY Zenon DEF Types
<1>5. /\ QueueOK(SubSeq(queue, n + 1, Len(queue)), v, version)
      /\ v \in Nat /\ last.dentry < v /\ v <= version
      /\ Sequence(p) /\ \A k \in 1 .. Len(p) : Sequence(p[k].msgs)
  BY <1>4, QueuePop, Zenon
<1> HIDE DEF p
<1>6. Sequence(m.entries)
  BY <1>5, MergeSequence, Zenon
<1> HIDE DEF m
<1>7. Len(m.entries) \in Nat /\ Len(log) \in Nat
  BY <1>6, SequenceFacts, Zenon DEF Types, LogOK
<1>8. v <= StorableVersion
  <2>1. n \in 1 .. n
    OBVIOUS
  <2> QED BY <1>2, <2>1, Zenon
<1> HIDE DEF v
<1>9. last'.field = last.field + Len(m.entries) /\ last'.dentry = v
  BY <1>3
<1>10. v <= written
  BY <1>1, <1>4, <1>5, <1>8 DEF StorableVersion, Versions
<1>11. Types'
  <2>1. last'.field \in Nat /\ last'.dentry \in Nat
    <3>1. last.field \in Nat
      BY Zenon DEF Types
    <3> QED BY <1>5, <1>7, <1>9, <3>1
  <2>2. Sequence(batch')
    BY <1>3, <1>6, Zenon
  <2> QED BY <1>1, <2>1, <2>2, Zenon DEF Types
<1>12. QueueOK(queue, last.dentry, version)'
  BY <1>1, <1>2, <1>5, <1>9, Zenon DEF v
<1>13. Versions'
  BY <1>1, <1>4, <1>5, <1>7, <1>9, <1>10 DEF Types, Versions, Running
<1>14. Counts'
  BY <1>1, <1>3, <1>7, <1>9 DEF Types, Counts, Running
<1>15. Pieces'
  BY <1>1 DEF Pieces, Running
<1> QED BY <1>11, <1>12, <1>13, <1>14, <1>15, Zenon

LEMMA NothingChanges ==
    ASSUME NEW q, Sequence(q), Len(q) = 0
    PROVE  ~Changes(q)
<1>1. DOMAIN q = {}
  BY SequenceFacts
<1> QED BY <1>1 DEF Changes

LEMMA WriteRedoInv == IInv /\ WriteRedo => IInv'
<1> SUFFICES ASSUME IInv, WriteRedo PROVE IInv'
  OBVIOUS
<1> USE DEF IInv
<1>1. /\ step = "redo" /\ step' = "dump"
      /\ redo' = [entries |-> batch, field |-> last.field, dentry |-> last.dentry]
      /\ UNCHANGED log /\ UNCHANGED version /\ UNCHANGED phase /\ UNCHANGED written
      /\ UNCHANGED queue /\ UNCHANGED batch /\ UNCHANGED last /\ UNCHANGED delay
      /\ UNCHANGED dump /\ UNCHANGED db /\ UNCHANGED crashes
  BY Zenon DEF WriteRedo, memory
<1>2. redo'.entries = batch /\ redo'.field = last.field /\ redo'.dentry = last.dentry
  BY <1>1
<1>3. Len(batch) \in Nat /\ (Len(batch) = 0 => ~Changes(batch))
  BY SequenceFacts, NothingChanges, Zenon DEF Types
<1>4. Types'
  BY <1>1, <1>2 DEF Types
<1>5. Versions'
  BY <1>1, <1>2 DEF Types, Versions, Running
<1>6. Counts'
  <2>1. last.field = redo.field + Len(batch) /\ dump.last <= redo.field /\ dump.counts = delay
    BY <1>1 DEF Counts, Running
  <2>2. dump.last \in Nat /\ redo.field \in Nat
    BY DEF Types
  <2>3. dump.last <= last.field /\ (dump.last < last.field \/ Len(batch) = 0)
    BY <1>3, <2>1, <2>2
  <2>4. last.field = last.field + 0
    BY DEF Types
  <2> QED BY <1>1, <1>2, <1>3, <2>1, <2>3, <2>4, Zenon DEF Counts, Running
<1>7. Pieces' /\ QueueOK(queue, last.dentry, version)'
  BY <1>1, <1>2 DEF Pieces, Running
<1> QED BY <1>4, <1>5, <1>6, <1>7, Zenon

LEMMA DumpNamespacesInv == IInv /\ DumpNamespaces => IInv'
<1> SUFFICES ASSUME IInv, DumpNamespaces PROVE IInv'
  OBVIOUS
<1> USE DEF IInv
<1>1. /\ step = "dump" /\ step' = "store"
      /\ delay' = Counted(delay, batch) /\ dump' = Dumped(batch, dump, delay', last)
      /\ UNCHANGED log /\ UNCHANGED version /\ UNCHANGED phase /\ UNCHANGED written
      /\ UNCHANGED queue /\ UNCHANGED batch /\ UNCHANGED last
      /\ UNCHANGED redo /\ UNCHANGED db /\ UNCHANGED crashes
  BY Zenon DEF DumpNamespaces, memory
<1>2. redo.entries = batch /\ last.field = redo.field + 0 /\ dump.counts = delay
  BY <1>1 DEF Pieces, Counts, Running
<1>3. last.field = redo.field
  BY <1>2 DEF Types
<1>4. /\ Changes(batch) => dump'.last = redo.field /\ dump'.counts = delay'
      /\ ~Changes(batch) => dump' = dump
  BY <1>1, <1>3, Zenon DEF Dumped
<1>5. ~Changes(batch) => delay' = delay
  BY <1>1, NoChange, Zenon DEF Types, Sequence
<1>6. Types'
  BY <1>1, <1>4 DEF Types
<1>7. Versions'
  BY <1>1 DEF Versions, Running
<1>8. Counts'
  <2>1. redo.field \in Nat /\ redo.field <= redo.field /\ redo.field + 0 = redo.field
    BY DEF Types
  <2>2. /\ dump.last <= redo.field /\ Running' /\ step' # "redo" /\ step' # "dump"
        /\ Changes(redo.entries) <=> Changes(batch)
    BY <1>1, <1>2, Zenon DEF Counts, Running
  <2>3. dump'.last <= redo.field /\ dump'.counts = delay'
    BY <1>2, <1>4, <1>5, <2>1, <2>2, Zenon
  <2>4. dump'.last = redo.field \/ ~Changes(redo.entries)
    BY <1>4, <2>2, Zenon
  <2>5. last'.field = redo'.field + 0 /\ redo' = redo
    BY <1>1, <1>3, <2>1, Zenon
  <2> QED BY <2>2, <2>3, <2>4, <2>5, Zenon DEF Counts
<1>9. Pieces' /\ QueueOK(queue, last.dentry, version)'
  BY <1>1, <1>2 DEF Pieces, Running
<1> QED BY <1>6, <1>7, <1>8, <1>9, Zenon

LEMMA StoreBatchInv == IInv /\ StoreBatch => IInv'
<1> SUFFICES ASSUME IInv, StoreBatch PROVE IInv'
  OBVIOUS
<1> USE DEF IInv
<1>1. /\ step = "store" /\ step' = "idle"
      /\ db' = Store(db, batch) /\ batch' = <<>>
      /\ UNCHANGED log /\ UNCHANGED version /\ UNCHANGED phase /\ UNCHANGED written
      /\ UNCHANGED queue /\ UNCHANGED last /\ UNCHANGED delay
      /\ UNCHANGED redo /\ UNCHANGED dump /\ UNCHANGED crashes
  BY Zenon DEF StoreBatch, memory
<1>2. redo.entries = batch /\ IsStore(db) /\ Sequence(batch) /\ Sequence(<<>>)
  BY <1>1, SequenceShort DEF Pieces, Types
<1>3. IsStore(db') /\ Store(db', redo.entries) = db'
  BY <1>1, <1>2, StoreIsStore, StoreTwice, Zenon
<1>4. Types'
  BY <1>1, <1>2, Zenon DEF Types
<1>5. Versions'
  BY <1>1 DEF Versions, Running
<1>6. Counts'
  BY <1>1 DEF Counts, Running
<1>7. Pieces' /\ QueueOK(queue, last.dentry, version)'
  BY <1>1, <1>3 DEF Pieces, Running
<1> QED BY <1>4, <1>5, <1>6, <1>7, Zenon

LEMMA CrashInv == IInv /\ Crash => IInv'
<1> SUFFICES ASSUME IInv, Crash PROVE IInv'
  OBVIOUS
<1> USE DEF IInv
<1>1. /\ crashes < MaxCrashes /\ crashes' = crashes + 1
      /\ log' = SubSeq(log, 1, written)
      /\ version' = 0 /\ phase' = "resume" /\ queue' = <<>>
      /\ batch' = <<>> /\ step' = "idle"
      /\ last' = [field |-> 0, dentry |-> 0]
      /\ UNCHANGED written /\ UNCHANGED redo /\ UNCHANGED dump
  BY Zenon DEF Crash
<1>2. PICK k \in IF step = "store" THEN 0 .. Len(batch) ELSE {0} :
        db' = Store(db, SubSeq(batch, 1, k))
  BY Zenon DEF Crash
<1>3. k \in 0 .. Len(batch) /\ Sequence(batch) /\ Len(batch) \in Nat
  BY SequenceFacts DEF Types
<1>4. Sequence(SubSeq(batch, 1, k))
  BY <1>3, SequenceSub
<1>5. IsStore(db')
  BY <1>2, <1>4, StoreIsStore, Zenon DEF Pieces
<1>6. last'.field = 0 /\ last'.dentry = 0
  BY <1>1
<1>7. LogOK(log') /\ Len(log') = written
  <2>1. Sequence(log) /\ Len(log) \in Nat /\ written \in Nat /\ written <= Len(log)
    BY SequenceFacts DEF Types, LogOK, Versions
  <2>2. /\ Sequence(log') /\ Len(log') = written
        /\ \A i \in 1 .. written : log'[i] = log[i]
    <3>1. written \in 0 .. Len(log)
      BY <2>1
    <3>2. /\ Sequence(SubSeq(log, 1, written)) /\ Len(SubSeq(log, 1, written)) = written
          /\ \A i \in 1 .. written : SubSeq(log, 1, written)[i] = log[i]
      BY <2>1, <3>1, SequenceSub
    <3> QED BY <1>1, <3>2, Zenon
  <2>3. 1 .. written \subseteq 1 .. Len(log)
    BY <2>1
  <2> QED BY <2>2, <2>3, Zenon DEF Types, LogOK
<1>8. Types'
  <2>1. crashes' \in 0 .. MaxCrashes
    <3>1. crashes \in 0 .. MaxCrashes /\ MaxCrashes \in Nat
      BY BoundsAssumption, Zenon DEF Types
    <3> QED BY <1>1, <3>1
  <2>2. 0 \in Nat /\ Sequence(<<>>)
    BY SequenceShort
  <2> QED BY <1>1, <1>6, <1>7, <2>1, <2>2, Zenon DEF Types
<1>9. QueueOK(queue, last.dentry, version)'
  BY <1>1, QueueEmpty, Zenon
<1>10. Versions'
  BY <1>1, <1>6, <1>7 DEF Types, Versions, Running
<1>11. Counts' /\ Pieces'
  <2>1. ~Running' /\ step' = "idle"
    BY <1>1, Zenon DEF Running
  <2> QED BY <1>1, <1>5, <2>1, Zenon DEF Counts, Pieces
<1> QED BY <1>8, <1>9, <1>10, <1>11, Zenon

\* The dump after a restart has what the restart counts.
LEMMA RestartFacts ==
    ASSUME Types, Counts
    PROVE  /\ RestartDump.counts = RestartCounts
           /\ RestartDump.last \in Nat /\ RestartDump.last <= redo.field
           /\ RestartDump.last = redo.field \/ ~Changes(redo.entries)
<1>1. ~Changes(redo.entries) => RestartCounts = dump.counts
  BY NoChange, Zenon DEF Types, Sequence, RestartCounts
<1>2. ~DumpIsOld => RestartCounts = dump.counts /\ dump.last = redo.field
  BY DEF RestartCounts, DumpIsOld
<1>3. RestartDump = IF DumpIsOld /\ Changes(redo.entries)
                    THEN [last |-> redo.field, counts |-> RestartCounts] ELSE dump
  BY DEF RestartDump, Dumped, RestartVersions
<1>4. dump.last \in Nat /\ redo.field \in Nat /\ dump.last <= redo.field
  BY DEF Types, Counts
<1>5. CASE DumpIsOld /\ Changes(redo.entries)
  BY <1>3, <1>4, <1>5
<1>6. CASE ~(DumpIsOld /\ Changes(redo.entries))
  BY <1>1, <1>2, <1>3, <1>4, <1>6
<1> QED BY <1>5, <1>6

LEMMA ResumeInv == IInv /\ Resume => IInv'
<1> SUFFICES ASSUME IInv, Resume PROVE IInv'
  OBVIOUS
<1> USE DEF IInv
<1>1. /\ phase = "resume"
      /\ UNCHANGED log /\ UNCHANGED written /\ UNCHANGED queue /\ UNCHANGED batch
      /\ UNCHANGED step /\ UNCHANGED redo /\ UNCHANGED crashes
  BY Zenon DEF Resume
<1>2. \/ /\ phase' = "failed" /\ UNCHANGED last /\ UNCHANGED delay /\ UNCHANGED dump
         /\ UNCHANGED db /\ UNCHANGED version
      \/ /\ last' = RestartVersions /\ delay' = RestartCounts /\ dump' = RestartDump
         /\ db' = Store(db, redo.entries) /\ phase' \in {"replay", "failed"}
         /\ version' = redo.dentry
  BY DEF Resume, Redone
<1>3. step = "idle" /\ queue = <<>> /\ written = Len(log)
  BY <1>1 DEF Versions
<1>4. CASE /\ phase' = "failed" /\ UNCHANGED last /\ UNCHANGED delay /\ UNCHANGED dump
           /\ UNCHANGED db /\ UNCHANGED version
  <2>1. Types'
    BY <1>1, <1>4 DEF Types
  <2>2. Versions'
    BY <1>1, <1>3, <1>4 DEF Versions, Running
  <2>3. Counts' /\ Pieces' /\ QueueOK(queue, last.dentry, version)'
    BY <1>1, <1>3, <1>4 DEF Counts, Pieces, Running
  <2> QED BY <2>1, <2>2, <2>3, Zenon
<1>5. CASE /\ last' = RestartVersions /\ delay' = RestartCounts /\ dump' = RestartDump
           /\ db' = Store(db, redo.entries) /\ phase' \in {"replay", "failed"}
           /\ version' = redo.dentry
  <2>1. last'.field = redo.field /\ last'.dentry = redo.dentry
    BY <1>5 DEF RestartVersions
  <2>2. /\ dump'.counts = delay' /\ dump'.last \in Nat /\ dump'.last <= redo.field
        /\ dump'.last = redo.field \/ ~Changes(redo.entries)
    BY <1>5, RestartFacts
  <2>3. IsStore(db') /\ Store(db', redo.entries) = db'
    BY <1>5, StoreIsStore, StoreTwice, Zenon DEF Types, Pieces
  <2>4. Types'
    BY <1>1, <1>5, <2>1, <2>2 DEF Types
  <2>5. Versions'
    <3>1. /\ redo.dentry \in Nat /\ written \in Nat
          /\ redo.dentry <= written /\ written <= Len(log) /\ written = Len(log)
      BY <1>3, Zenon DEF Types, Versions
    <3>2. redo.dentry <= redo.dentry /\ redo.dentry <= Len(log)
      BY <3>1
    <3>3. /\ phase' # "serve" /\ phase' # "resume" /\ step' # "redo"
          /\ log' = log /\ written' = written /\ redo' = redo
      BY <1>1, <1>3, <1>5, Zenon
    <3> QED BY <1>5, <2>1, <3>1, <3>2, <3>3, Zenon DEF Versions
  <2>6. Counts'
    <3>1. redo.field \in Nat /\ redo.field + 0 = redo.field
      BY DEF Types
    <3>2. step' # "redo" /\ step' # "dump" /\ redo' = redo
      BY <1>1, <1>3, Zenon
    <3>3. last'.field = redo'.field + 0
      BY <2>1, <3>1, <3>2, Zenon
    <3> QED BY <2>2, <3>2, <3>3, Zenon DEF Counts
  <2>7. Pieces'
    BY <1>1, <1>3, <2>3 DEF Pieces, Running
  <2>8. QueueOK(queue, last.dentry, version)'
    BY <1>1, <1>3, QueueEmpty, Zenon
  <2> QED BY <2>4, <2>5, <2>6, <2>7, <2>8, Zenon
<1> QED BY <1>2, <1>4, <1>5, Zenon

LEMMA CrashResumingInv == IInv /\ CrashResuming => IInv'
<1> SUFFICES ASSUME IInv, CrashResuming PROVE IInv'
  OBVIOUS
<1> USE DEF IInv
<1>1. /\ phase = "resume" /\ dump' = RestartDump
      /\ UNCHANGED log /\ UNCHANGED version /\ UNCHANGED phase /\ UNCHANGED written
      /\ UNCHANGED queue /\ UNCHANGED batch /\ UNCHANGED step /\ UNCHANGED last
      /\ UNCHANGED delay /\ UNCHANGED redo /\ UNCHANGED crashes
  BY Zenon DEF CrashResuming, memory, notifier
<1>2. PICK k \in 0 .. Len(redo.entries) : db' = Store(db, SubSeq(redo.entries, 1, k))
  BY Zenon DEF CrashResuming, Redone
<1>3. Sequence(redo.entries) /\ Len(redo.entries) \in Nat
  BY SequenceFacts DEF Types
<1>4. Sequence(SubSeq(redo.entries, 1, k))
  BY <1>3, SequenceSub
<1>5. IsStore(db')
  BY <1>2, <1>4, StoreIsStore, Zenon DEF Pieces
<1>6. step = "idle"
  BY <1>1 DEF Versions
<1>7. dump'.last \in Nat /\ dump'.last <= redo.field
  BY <1>1, RestartFacts
<1>8. Types'
  BY <1>1, <1>7 DEF Types
<1>9. Versions' /\ QueueOK(queue, last.dentry, version)'
  BY <1>1 DEF Versions, Running
<1>10. Counts' /\ Pieces'
  BY <1>1, <1>5, <1>6, <1>7, Zenon DEF Counts, Pieces, Running
<1> QED BY <1>8, <1>9, <1>10, Zenon

LEMMA ReplayRecordInv == IInv /\ ReplayRecord => IInv'
<1> SUFFICES ASSUME IInv, ReplayRecord PROVE IInv'
  OBVIOUS
<1> USE DEF IInv
<1> DEFINE rec == log[version + 1]
           r == Apply(mem, db, rec, 0)
<1>1. /\ phase = "replay" /\ version < written
      /\ UNCHANGED log /\ UNCHANGED written
      /\ UNCHANGED batch /\ UNCHANGED step /\ UNCHANGED last /\ UNCHANGED delay
      /\ UNCHANGED redo /\ UNCHANGED dump /\ UNCHANGED db /\ UNCHANGED crashes
  BY Zenon DEF ReplayRecord, notifier, disk
<1>2. Len(log) \in Nat /\ written \in Nat /\ version \in Nat /\ written <= Len(log)
      /\ last.dentry \in Nat
  BY SequenceFacts DEF Types, LogOK, Versions
<1>3. version + 1 \in 1 .. Len(log)
  BY <1>1, <1>2
<1>4. Good(r)
  BY <1>3, GoodApply, Zenon DEF Types, LogOK
<1> HIDE DEF r
<1>5. \/ phase' = "failed" /\ UNCHANGED queue /\ UNCHANGED version
      \/ UNCHANGED phase /\ Executed(r, version + 1)
      \/ UNCHANGED phase /\ version' = version + 1 /\ UNCHANGED queue
  BY Zenon DEF ReplayRecord, r
<1>6. CASE phase' = "failed" /\ UNCHANGED queue /\ UNCHANGED version
  <2>1. Types'
    BY <1>1, <1>6 DEF Types
  <2>2. Versions'
    BY <1>1, <1>6 DEF Versions, Running
  <2>3. Counts' /\ Pieces' /\ QueueOK(queue, last.dentry, version)'
    BY <1>1, <1>6, Zenon DEF Counts, Pieces, Running
  <2> QED BY <2>1, <2>2, <2>3, Zenon
<1>7. CASE /\ UNCHANGED phase
           /\ Executed(r, version + 1) \/ (version' = version + 1 /\ UNCHANGED queue)
  <2>1. version' = version + 1 /\ QueueOK(queue, last.dentry, version)'
    <3>1. CASE Executed(r, version + 1)
      BY <1>1, <1>4, <3>1, ExecutedQueue, Zenon
    <3>2. CASE version' = version + 1 /\ UNCHANGED queue
      BY <1>1, <1>2, <3>2, QueueGrow, Zenon
    <3> QED BY <1>7, <3>1, <3>2, Zenon
  <2>2. Types'
    BY <1>1, <1>7, <2>1 DEF Types
  <2>3. Versions'
    BY <1>1, <1>2, <1>7, <2>1 DEF Versions, Running
  <2>4. Counts' /\ Pieces'
    BY <1>1, <1>7, Zenon DEF Counts, Pieces, Running
  <2> QED BY <2>1, <2>2, <2>3, <2>4, Zenon
<1> QED BY <1>5, <1>6, <1>7, Zenon

LEMMA LoadDoneInv == IInv /\ LoadDone => IInv'
<1> SUFFICES ASSUME IInv, LoadDone PROVE IInv'
  OBVIOUS
<1> USE DEF IInv
<1>1. /\ phase = "replay" /\ version = written /\ phase' = "serve"
      /\ UNCHANGED log /\ UNCHANGED written /\ UNCHANGED version /\ UNCHANGED queue
      /\ UNCHANGED batch /\ UNCHANGED step /\ UNCHANGED last /\ UNCHANGED delay
      /\ UNCHANGED redo /\ UNCHANGED dump /\ UNCHANGED db /\ UNCHANGED crashes
  BY Zenon DEF LoadDone, notifier, disk
<1>2. Types'
  BY <1>1 DEF Types
<1>3. Versions'
  BY <1>1 DEF Versions, Running
<1>4. Counts' /\ Pieces' /\ QueueOK(queue, last.dentry, version)'
  BY <1>1 DEF Counts, Pieces, Running
<1> QED BY <1>2, <1>3, <1>4, Zenon

LEMMA StutterInv == IInv /\ UNCHANGED vars => IInv'
<1> SUFFICES ASSUME IInv, UNCHANGED vars PROVE IInv'
  OBVIOUS
<1>1. /\ UNCHANGED log /\ UNCHANGED written /\ UNCHANGED version /\ UNCHANGED queue
      /\ UNCHANGED batch /\ UNCHANGED step /\ UNCHANGED last /\ UNCHANGED delay
      /\ UNCHANGED redo /\ UNCHANGED dump /\ UNCHANGED db /\ UNCHANGED crashes
      /\ UNCHANGED phase
  BY Zenon DEF vars
<1> QED BY <1>1, Zenon DEF IInv, Types, Versions, Counts, Pieces, Running

\* The versions, counters and pieces on disk and those of the threads fit together at
\* every moment, also after a crash and while a batch is half stored.
THEOREM Inductive == Spec => []IInv
<1>1. IInv /\ [Next]_vars => IInv'
  BY RequestInv, WriteBinlogInv, PopEventsInv, WriteRedoInv, DumpNamespacesInv,
     StoreBatchInv, CrashInv, ResumeInv, CrashResumingInv, ReplayRecordInv, LoadDoneInv,
     StutterInv, Zenon DEF Next, Notify
<1> QED BY InitInv, <1>1, PTL DEF Spec

\* TypeOK, for every set of requests and any number of crashes.
THEOREM TypeCorrect == Spec => []TypeOK
<1>1. IInv => TypeOK
  <2> SUFFICES ASSUME IInv PROVE TypeOK
    OBVIOUS
  <2>1. Len(log) \in Nat
    BY SequenceFacts, Zenon DEF IInv, Types, LogOK
  <2> QED BY <2>1 DEF IInv, Types, Versions, Counts, TypeOK
<1> QED BY <1>1, Inductive, PTL

\* What is stored is in the binlog file: a restart, or a slave that asks for the
\* records, finds every record that the store has (less_equal of change_notify_func).
THEOREM BehindBinlog == Spec => []StoreBehindBinlog
<1>1. IInv => StoreBehindBinlog
  BY Zenon DEF IInv, Versions, StoreBehindBinlog
<1> QED BY <1>1, Inductive, PTL

-----------------------------------------------------------------------------
(* The store implements BatchStore: a batch is committed when its redo file is
   written.  Settled is what a restart makes of the disk. *)

Settled == <<redo.entries, Store(db, redo.entries), RestartCounts, redo.dentry>>

\* The counters a restart makes of a dump that has those of the batch, or need not.
LEMMA CountsInDump ==
    ASSUME Types, dump.last = redo.field \/ ~Changes(redo.entries)
    PROVE  RestartCounts = dump.counts
BY NoChange, Zenon DEF Types, Sequence, RestartCounts, DumpIsOld

LEMMA SettledKept == UNCHANGED disk => UNCHANGED Settled
<1> SUFFICES ASSUME UNCHANGED disk PROVE UNCHANGED Settled
  OBVIOUS
<1>1. UNCHANGED redo /\ UNCHANGED dump /\ UNCHANGED db
  BY Zenon DEF disk
<1> QED BY <1>1 DEF Settled, RestartCounts, DumpIsOld

\* Neither the dump of the counters ...
LEMMA DumpSettled == IInv /\ DumpNamespaces => UNCHANGED Settled
<1> SUFFICES ASSUME IInv, DumpNamespaces PROVE UNCHANGED Settled
  OBVIOUS
<1>1. /\ step = "dump" /\ step' = "store" /\ UNCHANGED redo /\ UNCHANGED db
      /\ delay' = Counted(delay, batch)
  BY Zenon DEF DumpNamespaces
<1>2. Types' /\ Counts'
  BY DumpNamespacesInv, Zenon DEF IInv
<1>3. /\ Running /\ dump'.counts = delay'
      /\ dump'.last = redo'.field \/ ~Changes(redo'.entries)
  BY <1>1, <1>2 DEF Counts, Running
<1>4. /\ redo.entries = batch /\ dump.counts = delay
      /\ dump.last < redo.field \/ ~Changes(redo.entries)
      /\ dump.last \in Nat
  BY <1>1, <1>3 DEF IInv, Counts, Pieces, Types
<1>5. RestartCounts' = delay'
  BY <1>2, <1>3, NoChange, Zenon DEF Types, Sequence, RestartCounts, DumpIsOld
<1>6. RestartCounts = Counted(delay, batch)
  <2>1. CASE dump.last < redo.field
    BY <1>4, <2>1 DEF RestartCounts, DumpIsOld
  <2>2. CASE ~Changes(redo.entries)
    <3>1. Types /\ Counted(delay, batch) = delay
      BY <1>4, <2>2, NoChange, Zenon DEF IInv, Types, Sequence
    <3> QED BY <1>4, <2>2, <3>1, CountsInDump, Zenon
  <2> QED BY <1>4, <2>1, <2>2, Zenon
<1> QED BY <1>1, <1>5, <1>6, Zenon DEF Settled

\* ... nor the storage engine ...
LEMMA StoreSettled == IInv /\ StoreBatch => UNCHANGED Settled
<1> SUFFICES ASSUME IInv, StoreBatch PROVE UNCHANGED Settled
  OBVIOUS
<1>1. /\ step = "store" /\ db' = Store(db, batch)
      /\ UNCHANGED redo /\ UNCHANGED dump
  BY Zenon DEF StoreBatch
<1>2. redo.entries = batch /\ IsStore(db) /\ Sequence(batch)
  BY <1>1 DEF IInv, Pieces, Types
<1>3. Store(db', redo.entries) = Store(db, redo.entries)
  BY <1>1, <1>2, StoreTwice, Zenon
<1> QED BY <1>1, <1>3, Zenon DEF Settled, RestartCounts, DumpIsOld

\* ... nor a crash in any of the steps changes it ...
LEMMA CrashSettled == IInv /\ Crash => UNCHANGED Settled
<1> SUFFICES ASSUME IInv, Crash PROVE UNCHANGED Settled
  OBVIOUS
<1>1. UNCHANGED redo /\ UNCHANGED dump
  BY Zenon DEF Crash
<1>2. PICK k \in IF step = "store" THEN 0 .. Len(batch) ELSE {0} :
        db' = Store(db, SubSeq(batch, 1, k))
  BY Zenon DEF Crash
<1>3. IsStore(db) /\ Sequence(batch)
  BY Zenon DEF IInv, Pieces, Types
<1>4. Store(db', redo.entries) = Store(db, redo.entries)
  <2>1. CASE step = "store"
    <3>1. redo.entries = batch /\ k \in 0 .. Len(batch)
      BY <2>1 DEF IInv, Pieces
    <3> QED BY <1>2, <1>3, <3>1, StoreAgain, Zenon
  <2>2. CASE step # "store"
    <3>1. k = 0
      BY <2>2
    <3> QED BY <1>2, <1>3, <3>1, StoreNothing, Zenon
  <2> QED BY <2>1, <2>2, Zenon
<1> QED BY <1>1, <1>4 DEF Settled, RestartCounts, DumpIsOld

\* The counters a restart makes of the dump of an earlier restart.
LEMMA CountsSettled ==
    ASSUME IInv, UNCHANGED redo, dump' = RestartDump
    PROVE  UNCHANGED RestartCounts
<1>1. /\ dump'.counts = RestartCounts
      /\ dump'.last = redo.field \/ ~Changes(redo.entries)
  BY RestartFacts, Zenon DEF IInv
<1>2. Sequence(redo'.entries) /\ redo' = redo
  BY DEF IInv, Types
<1>3. RestartCounts' = dump'.counts
  BY <1>1, <1>2, NoChange, Zenon DEF Sequence, RestartCounts, DumpIsOld
<1> QED BY <1>1, <1>3, Zenon

\* ... nor the restart ...
LEMMA ResumeSettled == IInv /\ Resume => UNCHANGED Settled
<1> SUFFICES ASSUME IInv, Resume PROVE UNCHANGED Settled
  OBVIOUS
<1>1. UNCHANGED redo
  BY Zenon DEF Resume
<1>2. \/ UNCHANGED dump /\ UNCHANGED db
      \/ dump' = RestartDump /\ db' = Store(db, redo.entries)
  BY Zenon DEF Resume, Redone
<1>3. CASE UNCHANGED dump /\ UNCHANGED db
  BY <1>1, <1>3, SettledKept, Zenon DEF disk
<1>4. CASE dump' = RestartDump /\ db' = Store(db, redo.entries)
  <2>1. UNCHANGED RestartCounts
    BY <1>1, <1>4, CountsSettled, Zenon
  <2>2. Store(db', redo.entries) = Store(db, redo.entries)
    BY <1>4, StoreTwice, Zenon DEF IInv, Types, Pieces
  <2> QED BY <1>1, <2>1, <2>2, Zenon DEF Settled
<1> QED BY <1>2, <1>3, <1>4, Zenon

\* ... nor a crash in the middle of it.
LEMMA CrashResumingSettled == IInv /\ CrashResuming => UNCHANGED Settled
<1> SUFFICES ASSUME IInv, CrashResuming PROVE UNCHANGED Settled
  OBVIOUS
<1>1. UNCHANGED redo /\ dump' = RestartDump
  BY Zenon DEF CrashResuming
<1>2. PICK k \in 0 .. Len(redo.entries) : db' = Store(db, SubSeq(redo.entries, 1, k))
  BY Zenon DEF CrashResuming, Redone
<1>3. UNCHANGED RestartCounts
  BY <1>1, CountsSettled, Zenon
<1>4. Store(db', redo.entries) = Store(db, redo.entries)
  BY <1>2, StoreAgain, Zenon DEF IInv, Types, Pieces
<1> QED BY <1>1, <1>3, <1>4, Zenon DEF Settled

\* A new redo file commits its batch: the one before is stored and counted.
LEMMA RedoCommits == IInv /\ WriteRedo => Batches!Commit
<1> SUFFICES ASSUME IInv, WriteRedo PROVE Batches!Commit
  OBVIOUS
<1>1. /\ step = "redo" /\ UNCHANGED dump /\ UNCHANGED db
      /\ redo' = [entries |-> batch, field |-> last.field, dentry |-> last.dentry]
  BY Zenon DEF WriteRedo
<1>2. redo'.entries = batch /\ redo'.field = last.field /\ redo'.dentry = last.dentry
  BY <1>1
<1>3. redo.dentry < last.dentry /\ last.dentry \in Nat /\ Store(db, redo.entries) = db
  BY <1>1, Zenon DEF IInv, Types, Versions, Pieces, Running
<1>4. /\ dump.last = redo.field \/ ~Changes(redo.entries)
      /\ last.field = redo.field + Len(batch) /\ dump.last <= redo.field
  BY <1>1 DEF IInv, Counts, Running
<1>5. RestartCounts = dump.counts
  BY <1>4, CountsInDump, Zenon DEF IInv
<1>6. RestartCounts' = Counted(dump.counts, batch)
  <2>1. /\ Sequence(batch) /\ Len(batch) \in Nat /\ (Len(batch) = 0 => ~Changes(batch))
        /\ dump.last \in Nat /\ redo.field \in Nat
    BY SequenceFacts, NothingChanges, Zenon DEF IInv, Types
  <2>2. dump.last # last.field \/ Len(batch) = 0
    BY <1>4, <2>1
  <2>3. ~Changes(batch) => Counted(dump.counts, batch) = dump.counts
    BY <2>1, NoChange, Zenon DEF Sequence
  <2> QED BY <1>1, <1>2, <2>1, <2>2, <2>3, Zenon DEF RestartCounts, DumpIsOld
<1> QED BY <1>1, <1>2, <1>3, <1>5, <1>6, Zenon DEF Batches!Commit

\* CommitSpec: the three files of the updater and the restart together put every
\* batch into the store as a whole and once, whenever the server crashes
\* (db_updater_deal, resume_from_redo_log).
THEOREM Refinement == Spec => CommitSpec
<1>1. Init /\ IInv => Batches!Init
  <2> SUFFICES ASSUME IInv PROVE Batches!Init
    OBVIOUS
  <2> QED BY StoreTwice, Zenon DEF IInv, Types, Pieces, Batches!Init
<1>2. IInv /\ [Next]_vars => [Batches!Next]_(Batches!vars)
  <2> SUFFICES ASSUME IInv, [Next]_vars
               PROVE  Batches!Commit \/ UNCHANGED Settled
    BY Zenon DEF Batches!Next, Batches!vars, Settled
  <2>1. CASE Request \/ WriteBinlog \/ PopEvents \/ ReplayRecord \/ LoadDone
             \/ UNCHANGED vars
    <3>1. UNCHANGED disk
      BY <2>1, Zenon DEF Request, WriteBinlog, PopEvents, ReplayRecord, LoadDone, vars, disk
    <3> QED BY <3>1, SettledKept, Zenon
  <2>2. CASE WriteRedo
    BY <2>2, RedoCommits, Zenon
  <2>3. CASE DumpNamespaces \/ StoreBatch \/ Crash \/ Resume \/ CrashResuming
    BY <2>3, DumpSettled, StoreSettled, CrashSettled, ResumeSettled, CrashResumingSettled,
       Zenon
  <2> QED BY <2>1, <2>2, <2>3, Zenon DEF Next, Notify
<1> QED BY InitInv, <1>1, <1>2, Inductive, PTL DEF Spec, CommitSpec, Batches!Spec

(* What the updater has counted is what a restart would count, plus the batch *)
(* whose redo file is written and whose dump is not (dump_namespaces).       *)
CountedOnce ==
    phase \in {"replay", "serve"} =>
        RestartCounts = IF step = "dump" THEN Counted(delay, batch) ELSE delay

\* CountedOnce: the counters in memory and those on disk never part, although the dump
\* is skipped for a batch that changes none of them and a restart may find it older or
\* as old as the redo file.
THEOREM DelayCounted == Spec => []CountedOnce
<1>1. IInv => CountedOnce
  <2> SUFFICES ASSUME IInv, phase \in {"replay", "serve"}
               PROVE  RestartCounts = IF step = "dump" THEN Counted(delay, batch)
                                      ELSE delay
    BY Zenon DEF CountedOnce
  <2>1. Types /\ Counts /\ Running /\ dump.counts = delay
    BY Zenon DEF IInv, Counts, Running
  <2>2. CASE step = "dump"
    <3>1. /\ dump.last < redo.field \/ ~Changes(redo.entries)
          /\ redo.entries = batch /\ Sequence(batch)
          /\ dump.last \in Nat /\ redo.field \in Nat
      BY <2>2 DEF IInv, Counts, Pieces, Types
    <3>2. CASE dump.last < redo.field
      BY <2>1, <2>2, <3>1, <3>2 DEF RestartCounts, DumpIsOld
    <3>3. CASE ~Changes(redo.entries)
      <4>1. Counted(delay, batch) = delay
        BY <3>1, <3>3, NoChange, Zenon DEF Sequence
      <4> QED BY <2>1, <2>2, <3>3, <4>1, CountsInDump, Zenon
    <3> QED BY <3>1, <3>2, <3>3, Zenon
  <2>3. CASE step # "dump"
    <3>1. dump.last = redo.field \/ ~Changes(redo.entries)
      BY <2>1, <2>3, Zenon DEF Counts
    <3> QED BY <2>1, <2>3, <3>1, CountsInDump, Zenon
  <2> QED BY <2>2, <2>3, Zenon
<1> QED BY <1>1, Inductive, PTL
=============================================================================

------------------------------- MODULE Hierarchy -------------------------------
(***************************************************************************)
(* What the records of a binlog mean, without inode index, link counts,     *)
(* loading or storing: a hierarchy has one entry per inode ever created,    *)
(* and an entry is visible while it has a name.                             *)
(***************************************************************************)
EXTENDS DentryLoader, Lists

\* The parent of an entry whose name has been removed.
Nowhere == -1

At(h, p, name) == {i \in DOMAIN h : h[i].parent = p /\ h[i].name = name}
Unnamed(h, S) == [i \in DOMAIN h |-> IF i \in S THEN [h[i] EXCEPT !.parent = Nowhere]
                                     ELSE h[i]]
Place(h, i, p, name) == [h EXCEPT ![i].parent = p, ![i].name = name]

Effect(h, r) ==
    CASE r.op = "create" ->
           (r.inode :> [parent |-> r.parent, name |-> r.name, kind |-> r.kind,
                        src |-> r.src, val |-> r.val, alloc |-> 0,
                        xattr |-> {}]) @@ h
      [] r.op = "remove" -> Unnamed(h, {r.inode})
      [] r.op = "rename" /\ r.flags = "exchange" ->
           LET e == CHOOSE i \in At(h, r.parent, r.name) : TRUE
           IN  Place(Place(h, r.inode, r.parent, r.name), e, r.from, r.from_name)
      [] r.op = "rename" /\ r.flags # "exchange" ->
           Place(Unnamed(h, At(h, r.parent, r.name)), r.inode, r.parent, r.name)
      [] r.op = "update" ->
           [h EXCEPT ![r.inode].val = IF r.val = 0 THEN @ ELSE r.val,
                     ![r.inode].alloc = @ + r.inc_alloc]
      [] r.op = "set_xattr" ->
           [h EXCEPT ![r.inode].xattr = {p \in @ : p[1] # r.xattr}
                                            \cup {<<r.xattr, r.val>>}]
      [] r.op = "remove_xattr" ->
           [h EXCEPT ![r.inode].xattr = {p \in @ : p[1] # r.xattr}]

\* The hierarchy a sequence of records makes.
History(log) == FoldLeft(Effect, <<>>, log)

\* The inodes with a name, and with them the sources of named hard links.
Named(h) == {i \in DOMAIN h : h[i].parent # Nowhere}
Alive(h) == Named(h) \cup {h[i].src : i \in {j \in Named(h) : h[j].src # 0}}

\* A directory is linked by itself and its entries, a file by its names.
Links(h, i) ==
    IF h[i].kind = "dir" THEN 1 + Cardinality({j \in DOMAIN h : h[j].parent = i})
    ELSE Cardinality({j \in Named(h) : j = i \/ h[j].src = i})

\* The named entries; a hard link has what its source holds.
Visible(h) ==
    {LET s == IF h[i].src = 0 THEN i ELSE h[i].src
     IN  [inode |-> i, parent |-> h[i].parent, name |-> h[i].name,
          kind |-> h[i].kind, src |-> h[i].src, nlink |-> Links(h, s),
          val |-> h[s].val, alloc |-> h[s].alloc, xattr |-> h[s].xattr] : i \in Named(h)}

\* The number of directories and of files, and the bytes all of them take.
Totals(h) ==
    [dirs |-> Cardinality({i \in Alive(h) : h[i].kind = "dir"}),
     files |-> Cardinality({i \in Alive(h) : h[i].kind # "dir"}),
     used |-> FoldSet(LAMBDA i, n : n + h[i].alloc, 0, Alive(h))]

-----------------------------------------------------------------------------
(* What a client sees: everything below the root, loaded as it is asked for. *)
LoadDentry(t, pieces, i) ==
    Then(CheckLoad(t, pieces, i), LAMBDA c :
        LET s == c.t.d[i].src
        IN  Ret(OK, LoadXattr(c.t, pieces, IF s = 0 THEN i ELSE s)))

\* A level of the tree: all of its dentries are loaded (r), then comes the one below.
Level(r, ids) == [r |-> r, ids |-> ids]
Below(w) == UNION {w.r.t.d[i].children : i \in w.ids}
LoadLevel(w, pieces) ==
    LET load(i, r) == Then(r, LAMBDA f : LoadDentry(f.t, pieces, i))
        next(v) == IF v.r.err # OK THEN v ELSE Level(v.r, Below(v))
    IN  next(Level(FoldSet(load, w.r, w.ids), w.ids))
LoadLevels(t, pieces, n) ==
    FoldLeft(LAMBDA w, k : IF w.r.err # OK THEN w ELSE LoadLevel(w, pieces),
             Level(Ret(OK, t), {t.root}), [k \in 1 .. n |-> k])
\* There are at most as many levels as inodes.
LoadBelow(t, pieces) ==
    LoadLevels(t, pieces, Cardinality(DOMAIN t.d \cup DOMAIN pieces.basic)).r

\* The entries a tree shows when all of it is loaded.
Shown(t) ==
    LET d == t.d
        below[i \in DOMAIN d] == {i} \cup UNION {below[c] : c \in d[i].children}
    IN  IF t.root = 0 THEN {}
        ELSE {LET s == IF d[i].src = 0 THEN i ELSE d[i].src
              IN  [inode |-> i, parent |-> d[i].parent, name |-> d[i].name,
                   kind |-> d[i].kind, src |-> d[i].src, nlink |-> d[s].nlink,
                   val |-> d[s].val, alloc |-> d[s].alloc,
                   xattr |-> d[s].xattr] : i \in below[t.root]}

\* Those it shows when all of it has been loaded from the store, or an error.
View(t, pieces) ==
    IF t.root = 0 THEN {}
    ELSE UNION {IF r.err # OK THEN {[error |-> r.err]} ELSE Shown(r.t) :
                r \in {LoadBelow(t, pieces)}}
=============================================================================

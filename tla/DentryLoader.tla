----------------------------- MODULE DentryLoader -----------------------------
(***************************************************************************)
(* The dentries of a namespace in memory and how they are read back from    *)
(* the storage engine on demand (dentry_loader.c, dentry_serializer.c).      *)
(*                                                                         *)
(* A tree is a record:                                                      *)
(*   d      the dentry objects, by inode number                             *)
(*   index  the inodes in the inode hashtable (hard links are not in it)    *)
(*   root   the inode of current.root, 0 if there is none                   *)
(*   dirs, files, used    the counters of the namespace (current)           *)
(* A dentry has its parent's inode (0 for none), its name, its kind, the    *)
(* inode src a hard link stands for (0 otherwise), nlink, val for all the   *)
(* attributes an update sets, the allocated bytes, its extended attributes  *)
(* as pairs, its children and the pieces of it that are loaded.             *)
(*                                                                         *)
(* A store db keeps the pieces of an inode apart: db.basic, db.children     *)
(* and db.xattr are functions on the inodes that have the piece.            *)
(***************************************************************************)
EXTENDS Integers, Sequences, FiniteSets, TLC, Results

\* The pieces loaded_flags keeps track of, CLIST included.
AllLoaded == {"basic", "children", "xattr", "clist"}

NoTree == [d |-> <<>>, index |-> {}, root |-> 0,
           dirs |-> 0, files |-> 0, used |-> 0]
NoPieces == [basic |-> <<>>, children |-> <<>>, xattr |-> <<>>]

\* What a function returns: the error, the tree, and the inode it has found, if any.
Found(err, t, i) == [err |-> err, t |-> t, inode |-> i]
Ret(err, t) == Found(err, t, 0)

\* A caller ends with the error of a call, or goes on.
Then(r, rest(_)) == IF r.err # OK THEN r ELSE rest(r)

Has(t, i, piece) == piece \in t.d[i].loaded
SetLoaded(t, i, piece) == [t EXCEPT !.d[i].loaded = @ \cup {piece}]

\* pack_basic: what the store keeps of a dentry besides its two lists.
PackBasic(t, i) ==
    LET e == t.d[i]
    IN  [parent |-> e.parent, name |-> e.name, kind |-> e.kind,
         src |-> e.src, nlink |-> e.nlink, val |-> e.val, alloc |-> e.alloc]

NewDentry(parent, name) ==
    [parent |-> parent, name |-> name, kind |-> "none", src |-> 0, nlink |-> 0,
     val |-> 0, alloc |-> 0, xattr |-> {}, children |-> {}, loaded |-> {}]
AllocInit(t, parent, i, name) ==
    [t EXCEPT !.d = (i :> NewDentry(parent, name)) @@ @]

-----------------------------------------------------------------------------
(* The children of a directory come back with inode and name only. i is the
   child that is looked for, 0 for none. *)
StoredChildren(db, i) == IF i \in DOMAIN db.children THEN db.children[i] ELSE {}

LoadChildrenEx(t, db, p, i) ==
    LET pairs == StoredChildren(db, p)
        ids == {c[1] : c \in pairs}
        name(c) == (CHOOSE x \in pairs : x[1] = c)[2]
        fresh == [c \in ids |-> NewDentry(p, name(c))]
        loaded == [t EXCEPT !.d = [fresh @@ @ EXCEPT
                        ![p].children = ids,
                        ![p].nlink = @ + Cardinality(ids),
                        ![p].loaded = @ \cup {"children"}]]
    IN  IF Has(t, p, "children")
        THEN Ret(IF i = 0 \/ i \in t.d[p].children THEN OK ELSE ENOENT, t)
        ELSE IF \E x, y \in pairs : x # y /\ x[2] = y[2]
        THEN Ret(EEXIST, t)
        ELSE Ret(IF i = 0 \/ i \in ids THEN OK ELSE ENOENT, loaded)

\* dentry_load_basic without the source of a hard link; it does not ask
\* whether the dentry had been loaded before.
UnpackBasic(t, db, i) ==
    LET b == db.basic[i]
        e == t.d[i]
        got == [t EXCEPT !.d[i] = [e EXCEPT
                    !.name = b.name, !.kind = b.kind, !.src = b.src,
                    !.val = b.val, !.alloc = b.alloc,
                    !.nlink = IF b.kind = "dir" THEN 1 ELSE b.nlink,
                    !.loaded = @ \cup {"basic"}]]
    IN  IF i \notin DOMAIN db.basic THEN Ret(ENODATA, t)
        ELSE IF \/ e.parent # 0 /\ e.parent # b.parent
                \/ e.name # "null" /\ e.name # b.name
        THEN Ret(EINVAL, t)
        ELSE IF b.src # 0 THEN Ret(OK, got)
        ELSE IF i \in t.index THEN Ret(EEXIST, got)
        ELSE Ret(OK, [got EXCEPT !.index = @ \cup {i}])

LoadChild(t, db, p, i) ==
    Then(LoadChildrenEx(t, db, p, i), LAMBDA r : UnpackBasic(r.t, db, i))

\* dentry_load_inode climbs from the inode to the first ancestor that is in
\* memory and loads the path downwards; an inode without a parent is an orphan.
LoadInode(t, db, i) ==
    LET load[k \in Nat] ==
          LET p == db.basic[k].parent
          IN  IF k \notin DOMAIN db.basic THEN Ret(ENODATA, t)
              ELSE IF p = 0 THEN UnpackBasic(AllocInit(t, 0, k, "null"), db, k)
              ELSE IF p \in t.index THEN LoadChild(t, db, p, k)
              ELSE IF p \in DOMAIN db.basic /\ db.basic[p].parent = 0
              THEN Ret(EINVAL, t)
              ELSE Then(load[p], LAMBDA r : LoadChild(r.t, db, p, k))
    IN  load[i]

LoadBasic(t, db, i) ==
    Then(UnpackBasic(t, db, i), LAMBDA r :
        IF r.t.d[i].src # 0 THEN LoadInode(r.t, db, r.t.d[i].src) ELSE r)

CheckLoad(t, db, i) ==
    Then(IF Has(t, i, "basic") THEN Ret(OK, t) ELSE LoadBasic(t, db, i), LAMBDA r :
        IF r.t.d[i].kind = "dir" /\ ~Has(r.t, i, "children")
        THEN LoadChildrenEx(r.t, db, i, 0) ELSE r)

LoadXattr(t, db, i) ==
    IF Has(t, i, "xattr") THEN t
    ELSE [SetLoaded(t, i, "xattr") EXCEPT
            !.d[i].xattr = IF i \in DOMAIN db.xattr THEN db.xattr[i] ELSE {}]

LoadRoot(t, db, i) ==
    [LoadBasic(AllocInit(t, 0, i, ""), db, i) EXCEPT !.t.root = i]

\* inode_index_get_dentry.
GetInode(t, db, i) == IF i \in t.index THEN Ret(OK, t) ELSE LoadInode(t, db, i)
=============================================================================

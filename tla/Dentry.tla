-------------------------------- MODULE Dentry --------------------------------
(***************************************************************************)
(* The operations on the tree of a namespace: dentry.c, the updates of      *)
(* inode_index.c and the part of data_thread.c that finds the dentries an   *)
(* update is about.  They are functions of the tree and of the store, from  *)
(* which missing dentries are loaded on the way: the data threads of a      *)
(* master, of a slave and of a server that loads its binlog run the same    *)
(* code.                                                                    *)
(*                                                                         *)
(* A record is an update.  A client names the dentry by its path (by =      *)
(* "fullname") or by its inode; the binlog keeps the inodes (by = "inode"). *)
(* An operation returns the error, the tree, the record with what the       *)
(* operation filled in, and affected: the dentries other than its own that  *)
(* it changed.  Removed dentries stay in the tree as objects until the      *)
(* change has been packed (their memory is freed later): gone has them.     *)
(***************************************************************************)
EXTENDS DentryLoader, Lists

ENOTDIR == "ENOTDIR"
ENOTEMPTY == "ENOTEMPTY"
ELOOP == "ELOOP"
EPERM == "EPERM"

\* Every field a record may have, unused ones at their zero.
Record == [op |-> "create", by |-> "inode", inode |-> 0, parent |-> 0,
           name |-> "", kind |-> "none", link |-> FALSE, src |-> 0,
           from |-> 0, from_name |-> "", flags |-> "none", val |-> 0,
           inc_alloc |-> 0, xattr |-> "", path |-> <<>>, src_path |-> <<>>]

Result(err, t, rec, affected, gone) ==
    [err |-> err, t |-> t, rec |-> rec, affected |-> affected, gone |-> gone,
     ignore |-> OK]
Answer(err, t, rec) == Result(err, t, rec, <<>>, {})
AnswerOf(f, rec) == Answer(f.err, f.t, rec)
OrFail(f, rec, rest(_)) == IF f.err # OK THEN AnswerOf(f, rec) ELSE rest(f)
Affected(i, op) == [inode |-> i, op |-> op]

-----------------------------------------------------------------------------
(* Looking for a dentry. *)
ChildrenNamed(t, p, name) == {c \in t.d[p].children : t.d[c].name = name}

ChildOf(t, db, p, name) ==
    LET named == ChildrenNamed(t, p, name)
        c == CHOOSE x \in named : TRUE
    IN  IF t.d[p].kind # "dir" THEN Ret(ENOTDIR, t)
        ELSE IF named = {} THEN Ret(ENOENT, t)
        ELSE Then(CheckLoad(t, db, c), LAMBDA f : Found(OK, f.t, c))

FindChild(t, db, p, name) ==
    Then(CheckLoad(t, db, p), LAMBDA f : ChildOf(f.t, db, p, name))

\* do_find_ex
Walk(t, db, path) ==
    FoldLeft(LAMBDA f, name : Then(f, LAMBDA g : FindChild(g.t, db, g.inode, name)),
             Found(OK, t, t.root), path)

\* dentry_find_parent: the directory a path is in, 0 for the root path.
FindParent(t, db, path) ==
    IF t.root = 0 THEN Ret(ENOENT, t)
    ELSE IF path = <<>> THEN Ret(OK, t)
    ELSE Then(Walk(t, db, Front(path)), LAMBDA f :
            IF f.t.d[f.inode].kind # "dir" THEN Ret(ENOTDIR, f.t) ELSE f)

\* dentry_find: a hard link is followed to its source.
Find(t, db, path) ==
    IF t.root = 0 THEN Ret(ENOENT, t)
    ELSE Then(Walk(t, db, path), LAMBDA f :
            IF f.t.d[f.inode].src = 0 THEN f
            ELSE Found(OK, f.t, f.t.d[f.inode].src))

\* dentry_find_me: the dentry a record names by parent and name.
FindMe(t, db, p, name) ==
    IF p # 0 THEN FindChild(t, db, p, name)
    ELSE IF t.root = 0 THEN Found(IF name = "" THEN ENOENT ELSE EINVAL, t, 0)
    ELSE IF name = "" THEN Found(OK, t, t.root)
    ELSE Found(EINVAL, t, 0)

\* find_or_check_parent, for create and remove; the record gets the parent.
SetPName(f, rec) ==
    LET is_root == rec.path = <<>>
        is_create == rec.op = "create"
    IN  IF f.err # OK /\ ~(f.err = ENOENT /\ is_create /\ is_root)
        THEN AnswerOf(f, rec)
        ELSE IF f.err = OK /\ is_create /\ is_root THEN Answer(EEXIST, f.t, rec)
        ELSE Answer(OK, f.t, [rec EXCEPT !.parent = f.inode,
                                         !.name = IF is_root THEN "" ELSE Last(rec.path)])

FindOrCheckParent(t, db, rec) ==
    IF rec.by = "fullname" THEN SetPName(FindParent(t, db, rec.path), rec)
    ELSE IF rec.parent = 0 THEN Answer(OK, t, rec)
    ELSE AnswerOf(GetInode(t, db, rec.parent), rec)

\* set_hdlink_src_dentry
LinkSource(t, db, rec) ==
    IF rec.by = "fullname" THEN Find(t, db, rec.src_path)
    ELSE Then(GetInode(t, db, rec.src), LAMBDA g : Found(OK, g.t, rec.src))
SetHdlinkSrc(t, db, rec) ==
    OrFail(LinkSource(t, db, rec), rec, LAMBDA f :
        LET e == f.t.d[f.inode]
        IN  IF e.kind = "dir" \/ e.src # 0 THEN Answer(EPERM, f.t, rec)
            ELSE Answer(OK, f.t, [rec EXCEPT !.src = f.inode, !.kind = e.kind]))

-----------------------------------------------------------------------------
(* dentry_create *)
AddCount(t, kind, n) ==
    IF kind = "dir" THEN [t EXCEPT !.dirs = @ + n] ELSE [t EXCEPT !.files = @ + n]

Insert(t, rec, i) ==
    LET new == [NewDentry(rec.parent, rec.name) EXCEPT
                  !.kind = rec.kind, !.src = rec.src, !.nlink = 1,
                  !.val = rec.val, !.loaded = AllLoaded]
        t1 == AddCount([t EXCEPT !.d = (i :> new) @@ @], rec.kind, 1)
        t2 == IF rec.link THEN [t1 EXCEPT !.d[rec.src].nlink = @ + 1]
              ELSE [t1 EXCEPT !.index = @ \cup {i}]
    IN  IF rec.parent = 0 THEN [t2 EXCEPT !.root = i]
        ELSE [t2 EXCEPT !.d[rec.parent].children = @ \cup {i},
                        !.d[rec.parent].nlink = @ + 1]

CreateUnless(me, rec, i) ==
    IF me.err # ENOENT THEN Answer(IF me.err = OK THEN EEXIST ELSE me.err, me.t, rec)
    ELSE IF ~rec.link /\ i \in me.t.index THEN Answer(EEXIST, me.t, rec)
    ELSE Result(OK, Insert(me.t, rec, i), [rec EXCEPT !.inode = i],
                IF rec.link THEN <<Affected(rec.src, "update")>> ELSE <<>>, {})

DentryCreate(t, db, rec, fresh) ==
    CreateUnless(FindMe(t, db, rec.parent, rec.name), rec,
                 IF rec.inode = 0 THEN fresh ELSE rec.inode)

\* Wrong variant: the bytes of the inode stay in use.
IndexDelOnly(t, i) == [t EXCEPT !.index = @ \ {i}]
(* inode_index_del_dentry gives the bytes of the inode back. *)
IndexDel(t, i) == [t EXCEPT !.index = @ \ {i}, !.used = @ - t.d[i].alloc]

(* do_remove_dentry for a hard link and for any other dentry. *)
RemoveLink(t, i) ==
    LET s == t.d[i].src
        unlinked == [t EXCEPT !.d[s].nlink = @ - 1]
        last == unlinked.d[s].nlink = 0
        t1 == IF last THEN AddCount(IndexDel(unlinked, s), t.d[s].kind, -1)
              ELSE unlinked
    IN  Result(OK, AddCount(t1, t.d[i].kind, -1), Record,
               <<Affected(s, IF last THEN "remove" ELSE "update"),
                 Affected(i, "remove")>>,
               IF last THEN {s, i} ELSE {i})

RemovePlain(t, i) ==
    LET unlinked == [t EXCEPT !.d[i].nlink = @ - 1]
    IN  IF unlinked.d[i].nlink = 0
        THEN Result(OK, AddCount(IndexDel(unlinked, i), t.d[i].kind, -1), Record,
                    <<Affected(i, "remove")>>, {i})
        ELSE Result(OK, unlinked, Record, <<Affected(i, "update")>>, {})

DoRemove(t, i) == IF t.d[i].src # 0 THEN RemoveLink(t, i) ELSE RemovePlain(t, i)

\* The name goes with the dentry.
Unlink(r, rec, i) ==
    Result(OK, IF rec.parent = 0 THEN [r.t EXCEPT !.root = 0]
               ELSE [r.t EXCEPT !.d[rec.parent].children = @ \ {i},
                                !.d[rec.parent].nlink = @ - 1],
           [rec EXCEPT !.inode = i], r.affected, r.gone)

DentryRemove(t, db, rec) ==
    OrFail(FindMe(t, db, rec.parent, rec.name), rec, LAMBDA me :
        IF me.t.d[me.inode].kind = "dir" /\ me.t.d[me.inode].children # {}
        THEN Answer(ENOTEMPTY, me.t, rec)
        ELSE Unlink(DoRemove(me.t, me.inode), rec, me.inode))

-----------------------------------------------------------------------------
(* dentry_rename *)
IsAncestor(t, i, p) ==
    LET below[k \in Nat] == k # 0 /\ (k = i \/ below[t.d[k].parent])
    IN  below[p]

\* rename_check finds both dentries; dest is 0 if there is none.
Check(err, t, s, e) == [err |-> err, t |-> t, src |-> s, dest |-> e]
CheckDest(e, rec, s) ==
    LET t == e.t
    IN  IF e.err # OK
        THEN Check(IF rec.flags # "exchange" /\ e.err = ENOENT THEN OK ELSE e.err, t, s, 0)
        ELSE Check(IF rec.flags = "noreplace" THEN EEXIST
                   ELSE IF rec.flags = "exchange" THEN OK
                   ELSE IF t.d[s].kind # t.d[e.inode].kind THEN EINVAL
                   ELSE IF t.d[e.inode].children # {} THEN ENOTEMPTY
                   ELSE OK, t, s, e.inode)
RenameCheck(t, db, rec) ==
    IF rec.from = 0 \/ rec.parent = 0 THEN Ret(EINVAL, t)
    ELSE Then(FindChild(t, db, rec.from, rec.from_name), LAMBDA s :
            CheckDest(FindChild(s.t, db, rec.parent, rec.name), rec, s.inode))

Exchange(t, rec, s, e) ==
    LET t1 == [t EXCEPT !.d[rec.from].children = @ \ {s}]
        t2 == [t1 EXCEPT !.d[rec.parent].children = (@ \ {e}) \cup {s},
                         !.d[s].name = rec.name, !.d[e].name = rec.from_name]
        t3 == [t2 EXCEPT !.d[rec.from].children = @ \cup {e},
                         !.d[s].parent = rec.parent, !.d[e].parent = rec.from]
    IN  Result(OK, t3, [rec EXCEPT !.inode = s], <<>>, {})

\* Wrong variant: the parent that loses an entry keeps its link count.
MoveKeepCount(t, rec, e) ==
    IF rec.from = rec.parent THEN t
    ELSE [t EXCEPT !.d[rec.from].nlink = @ - 1, !.d[rec.parent].nlink = @ + 1]
\* The link counts of the parents; e is the dentry that was replaced, 0 for none.
MoveCount(t, rec, e) ==
    IF e # 0 THEN [t EXCEPT !.d[rec.from].nlink = @ - 1]
    ELSE IF rec.from = rec.parent THEN t
    ELSE [t EXCEPT !.d[rec.from].nlink = @ - 1, !.d[rec.parent].nlink = @ + 1]

\* move_dentry, after what was in the way has been removed (r).
MoveOver(r, rec, s, e) ==
    LET t1 == [r.t EXCEPT !.d[rec.from].children = @ \ {s}, !.d[s].name = rec.name]
        t2 == [t1 EXCEPT !.d[rec.parent].children = (@ \ {e}) \cup {s},
                         !.d[s].parent = rec.parent]
    IN  Result(OK, MoveCount(t2, rec, e), [rec EXCEPT !.inode = s], r.affected, r.gone)
Move(t, rec, s, e) ==
    MoveOver(IF e = 0 THEN Answer(OK, t, rec) ELSE DoRemove(t, e), rec, s, e)

DentryRename(t, db, rec) ==
    OrFail(RenameCheck(t, db, rec), rec, LAMBDA c :
        IF c.dest = c.src THEN Answer(EEXIST, c.t, rec)
        ELSE IF /\ rec.from # rec.parent
                /\ \/ IsAncestor(c.t, c.src, rec.parent)
                   \/ IsAncestor(c.t, IF c.dest # 0 THEN c.dest ELSE rec.parent, rec.from)
        THEN Answer(ELOOP, c.t, rec)
        ELSE IF rec.flags = "exchange" THEN Exchange(c.t, rec, c.src, c.dest)
        ELSE Move(c.t, rec, c.src, c.dest))

\* set_pname_by_fullname: the root has no parent, and cannot be renamed.
ParentOf(t, db, path) ==
    Then(FindParent(t, db, path), LAMBDA f : IF f.inode = 0 THEN Ret(EINVAL, f.t) ELSE f)

\* deal_record_rename_op: both parents, by path or by inode.
RenameOp(t, db, rec) ==
    IF rec.by = "fullname"
    THEN OrFail(ParentOf(t, db, rec.src_path), rec, LAMBDA s :
           OrFail(ParentOf(s.t, db, rec.path), rec, LAMBDA e :
             DentryRename(e.t, db,
               [rec EXCEPT !.from = s.inode, !.from_name = Last(rec.src_path),
                           !.parent = e.inode, !.name = Last(rec.path)])))
    ELSE OrFail(GetInode(t, db, rec.from), rec, LAMBDA s :
           OrFail(GetInode(s.t, db, rec.parent), rec, LAMBDA e :
             DentryRename(e.t, db, rec)))

-----------------------------------------------------------------------------
(* Updates by inode.  val and inc_alloc are 0 when the record does not set   *)
(* them. *)
UpdateDentry(t, i, rec) ==
    [t EXCEPT !.d[i].val = IF rec.val = 0 THEN @ ELSE rec.val,
              !.d[i].alloc = @ + rec.inc_alloc,
              !.used = @ + rec.inc_alloc]

IndexUpdate(t, db, rec) ==
    OrFail(GetInode(t, db, rec.inode), rec, LAMBDA g :
        Answer(OK, UpdateDentry(g.t, rec.inode, rec), rec))

\* inode_index_check_set_dentry_size: a size only grows unless it is forced;
\* the record keeps what it changed and goes on as an update.
SetSize(old, rec) ==
    [rec EXCEPT !.flags = "none",
                !.val = IF IF rec.flags = "force" THEN rec.val # old ELSE rec.val > old
                        THEN @ ELSE 0]
CheckSetSize(t, db, req) ==
    LET rec == [req EXCEPT !.op = "update"]
    IN  OrFail(GetInode(t, db, rec.inode), rec, LAMBDA g :
          LET done == SetSize(g.t.d[rec.inode].val, rec)
          IN  Answer(OK, UpdateDentry(g.t, rec.inode, done), done))

\* xattr_update_prepare
XattrPrepare(t, db, rec) ==
    IF rec.by = "inode" THEN AnswerOf(GetInode(t, db, rec.inode), rec)
    ELSE OrFail(Find(t, db, rec.path), rec, LAMBDA f :
            Answer(OK, f.t, [rec EXCEPT !.inode = f.inode]))

Pairs(t, i, x) == {p \in t.d[i].xattr : p[1] = x}

SetPair(t, rec) ==
    LET old == Pairs(t, rec.inode, rec.xattr)
    IN  IF rec.flags = "create" /\ old # {} THEN Answer(EEXIST, t, rec)
        ELSE IF rec.flags = "replace" /\ old = {} THEN Answer(ENODATA, t, rec)
        ELSE Answer(OK, [t EXCEPT !.d[rec.inode].xattr =
                                    (@ \ old) \cup {<<rec.xattr, rec.val>>}], rec)
SetXattr(t, db, rec) ==
    Then(XattrPrepare(t, db, rec), LAMBDA p :
        SetPair(LoadXattr(p.t, db, p.rec.inode), p.rec))

RemovePair(t, rec) ==
    LET old == Pairs(t, rec.inode, rec.xattr)
    IN  IF old = {} THEN Answer(ENODATA, t, rec)
        ELSE Answer(OK, [t EXCEPT !.d[rec.inode].xattr = @ \ old], rec)
RemoveXattr(t, db, rec) ==
    Then(XattrPrepare(t, db, rec), LAMBDA p :
        RemovePair(LoadXattr(p.t, db, p.rec.inode), p.rec))

-----------------------------------------------------------------------------
(* The switch of deal_update_record.  fresh is the inode that                *)
(* inode_generator_next would give out.  ignore is the error with which a    *)
(* record may end when it is replayed, because it has been executed before. *)
Apply(t, db, rec, fresh) ==
    CASE rec.op = "create" ->
           Then(FindOrCheckParent(t, db, rec), LAMBDA p :
             Then(IF p.rec.link THEN SetHdlinkSrc(p.t, db, p.rec) ELSE p, LAMBDA h :
               [DentryCreate(h.t, db, h.rec, fresh) EXCEPT !.ignore = EEXIST]))
      [] rec.op = "remove" ->
           Then(FindOrCheckParent(t, db, rec), LAMBDA p :
             [DentryRemove(p.t, db, p.rec) EXCEPT !.ignore = ENOENT])
      [] rec.op = "rename" -> RenameOp(t, db, rec)
      [] rec.op = "update" -> IndexUpdate(t, db, rec)
      [] rec.op = "set_dsize" -> CheckSetSize(t, db, rec)
      [] rec.op = "set_xattr" -> SetXattr(t, db, rec)
      [] rec.op = "remove_xattr" ->
           [RemoveXattr(t, db, rec) EXCEPT !.ignore = ENODATA]

\* A size that stays as it is makes no record.
Recorded(req, r) ==
    r.err = OK /\ ~(req.op = "set_dsize" /\ r.rec.val = 0 /\ r.rec.inc_alloc = 0)

\* What binlog_pack_record keeps of an executed record: inodes, not paths, and the
\* flags of a rename only.
Packed(rec) ==
    [rec EXCEPT !.by = "inode", !.path = <<>>, !.src_path = <<>>,
                !.flags = IF rec.op = "rename" THEN @ ELSE "none"]

\* binlog_check_required_fields: what a record read from the binlog must have.
Complete(rec) ==
    /\ rec.inode > 0
    /\ rec.parent = 0 => rec.name = ""
    /\ rec.op = "rename" => /\ rec.parent # 0 /\ rec.name # ""
                            /\ rec.from # 0 /\ rec.from_name # ""

\* The memory of removed dentries is given back.
Free(t, gone) == [t EXCEPT !.d = [i \in DOMAIN @ \ gone |-> @[i]]]
=============================================================================

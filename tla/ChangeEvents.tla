----------------------------- MODULE ChangeEvents -----------------------------
(***************************************************************************)
(* From an executed update to entries of the storage engine.  The data      *)
(* thread turns the update into the messages of a change event              *)
(* (data_thread.c); the event dealer sorts the messages of a batch of       *)
(* events and merges them into one entry per dentry and field               *)
(* (event_dealer.c).                                                        *)
(*                                                                         *)
(* The list of children that is stored for a directory is not the one in    *)
(* the tree: args is the lists of db_args->children, by inode.  The data    *)
(* thread builds a list from the tree when a directory first changes, and   *)
(* from then on only the event dealer changes it, by the messages.          *)
(***************************************************************************)
EXTENDS Dentry

\* A message.  child is 0 where the code has a negative id, to be skipped.
Message(i, field, op) ==
    [inode |-> i, field |-> field, op |-> op, child |-> 0, name |-> "",
     alloc |-> 0, kind |-> "none", buf |-> <<>>]

\* add_to_clist: the stored list of p existed before this update.
AddToClist(t, p) == "clist" \in t.d[p].loaded

\* GENERATE_ADD_TO_PARENT_MESSAGE, GENERATE_REMOVE_FROM_PARENT_MESSAGE
ParentMessage(t, p, op, c) ==
    IF p = 0 THEN <<>>
    ELSE <<[Message(p, "children", op) EXCEPT
              !.child = IF AddToClist(t, p) THEN c ELSE 0, !.name = t.d[c].name]>>

RemoveMessages(t, i) ==
    ParentMessage(t, t.d[i].parent, "remove", i)
        \o <<[Message(i, "remove", "remove") EXCEPT !.alloc = -t.d[i].alloc]>>
DentryMessages(t, i, op) ==
    ParentMessage(t, t.d[i].parent, "create", i) \o <<Message(i, "basic", op)>>
MoveMessages(t, p, i) ==
    ParentMessage(t, p, "remove", i) \o DentryMessages(t, i, "update")

AffectedMessages(t, affected) ==
    FlattenSeq([k \in DOMAIN affected |->
        IF affected[k].op = "remove" THEN RemoveMessages(t, affected[k].inode)
        ELSE <<Message(affected[k].inode, "basic", "update")>>])

RemoveEvent(t, rec, affected) ==
    AffectedMessages(t, affected)
        \o IF Affected(rec.inode, "remove") \in ToSet(affected) THEN <<>>
           ELSE ParentMessage(t, t.d[rec.inode].parent, "remove", rec.inode)

RenameEvent(t, rec, affected) ==
    LET s == rec.inode
        e == CHOOSE c \in t.d[rec.from].children : t.d[c].name = rec.from_name
    IN  IF rec.flags = "exchange"
        THEN IF rec.from = rec.parent
             THEN ParentMessage(t, rec.from, "update", s)
                    \o ParentMessage(t, rec.from, "update", e)
                    \o <<Message(s, "basic", "update"), Message(e, "basic", "update")>>
             ELSE MoveMessages(t, rec.from, s) \o MoveMessages(t, rec.parent, e)
        ELSE AffectedMessages(t, affected)
               \o IF rec.from = rec.parent
                  THEN ParentMessage(t, rec.from, "update", s)
                         \o <<Message(s, "basic", "update")>>
                  ELSE MoveMessages(t, rec.from, s)

Messages(t, rec, affected) ==
    CASE rec.op = "create" ->
           AffectedMessages(t, affected) \o DentryMessages(t, rec.inode, "create")
      [] rec.op = "remove" -> RemoveEvent(t, rec, affected)
      [] rec.op = "rename" -> RenameEvent(t, rec, affected)
      [] rec.op = "update" ->
           <<[Message(rec.inode, "basic", "update") EXCEPT !.alloc = rec.inc_alloc]>>
      [] OTHER -> <<Message(rec.inode, "xattr", "update")>>

\* check_load_children of the directories that an event has messages for.
ListOf(t, p) == {<<c, t.d[c].name>> : c \in t.d[p].children}
NewLists(t, msgs) ==
    {p \in DOMAIN t.d : /\ ~AddToClist(t, p)
                        /\ \E k \in DOMAIN msgs : /\ msgs[k].inode = p
                                                  /\ msgs[k].field = "children"}
WithLists(t, new) ==
    [t EXCEPT !.d = [i \in DOMAIN @ |->
        IF i \in new THEN [@[i] EXCEPT !.loaded = @ \cup {"clist"}] ELSE @[i]]]

\* pack_messages: a message takes along what the piece holds now.
Pack(t, msgs) ==
    [k \in DOMAIN msgs |->
        LET m == [msgs[k] EXCEPT !.kind = t.d[msgs[k].inode].kind]
        IN  IF m.op = "remove" \/ m.field = "children" THEN m
            ELSE [m EXCEPT !.buf = IF m.field = "basic" THEN PackBasic(t, m.inode)
                                   ELSE t.d[m.inode].xattr]]

\* push_to_db_update_queue: the tree, the lists and the messages of the event.
\* A removed name of an inode that lives on leaves it without a parent.
Pushed(t, args, msgs) == [t |-> t, args |-> args, msgs |-> Pack(t, msgs)]
Orphaned(t, r) ==
    IF r.rec.op = "remove" /\ Affected(r.rec.inode, "remove") \notin ToSet(r.affected)
    THEN [t EXCEPT !.d[r.rec.inode].parent = 0] ELSE t
PushMessages(r, args, msgs) ==
    LET new == NewLists(r.t, msgs)
    IN  Pushed(Orphaned(WithLists(r.t, new), r),
               [p \in new |-> ListOf(r.t, p)] @@ args, msgs)
PushEvent(r, args) == PushMessages(r, args, Messages(r.t, r.rec, r.affected))

-----------------------------------------------------------------------------
(* The event dealer. *)
NoList(args, i) == IF i \in DOMAIN args THEN args[i] ELSE {}

MergeChildren(list, m) ==
    LET old == {c \in list : c[1] = m.child}
    IN  IF m.child = 0 THEN list
        ELSE IF m.op = "create"
        THEN IF old = {} THEN list \cup {<<m.child, m.name>>} ELSE list
        ELSE IF m.op = "remove" THEN list \ old
        ELSE IF old = {} THEN list
        ELSE (list \ old) \cup {<<m.child, m.name>>}

Entry(m, op, alloc, buf) ==
    [inode |-> m.inode, field |-> IF m.field = "remove" THEN "basic" ELSE m.field,
     op |-> op, alloc |-> alloc, kind |-> m.kind, buf |-> buf]

AllocSum(msgs) == FoldLeft(LAMBDA n, m : n + m.alloc, 0, msgs)

\* merge_one_field_messages: one dentry, one field, in the order of the ids.
MergeField(args, msgs) ==
    LET first == Head(msgs)
        last == Last(msgs)
    IN  IF last.field = "children"
        THEN Entry(last, "update", 0,
                   FoldLeft(MergeChildren, NoList(args, last.inode), msgs))
        ELSE Entry(last,
                   IF last.field = "remove" THEN "remove"
                   ELSE IF first.op = "create" /\ first.field = "basic" THEN "create"
                   ELSE "update",
                   AllocSum(msgs), last.buf)

\* merge_one_dentry_messages: nothing is left of a dentry that was created and
\* removed within the batch.
MergeDentry(args, msgs) ==
    LET field(f) == SelectSeq(msgs, LAMBDA m : m.field = f)
        entry(of) == IF of = <<>> THEN <<>> ELSE <<MergeField(args, of)>>
    IN  IF Last(msgs).field # "remove"
        THEN entry(field("basic")) \o entry(field("children")) \o entry(field("xattr"))
        ELSE IF Head(msgs).op = "create" /\ Head(msgs).field = "basic" THEN <<>>
        ELSE <<MergeField(args, msgs)>>

\* The order of compare_msg_ptr_func: by inode, field and id.
Nth(S, k) == {i \in S : Cardinality({j \in S : j < i}) = k - 1}
MessagesOf(msgs, i) ==
    LET of(f) == SelectSeq(msgs, LAMBDA m : m.inode = i /\ m.field = f)
    IN  of("basic") \o of("children") \o of("xattr") \o of("remove")

\* merge_messages: the entries, and the lists after the messages.
MergeNth(args, msgs, nth) ==
    IF nth = {} THEN <<>>
    ELSE MergeDentry(args, MessagesOf(msgs, CHOOSE i \in nth : TRUE))
MergeAll(args, msgs) ==
    LET inodes == {msgs[k].inode : k \in DOMAIN msgs}
    IN  FlattenSeq([k \in DOMAIN msgs |-> MergeNth(args, msgs, Nth(inodes, k))])
Merged(args, entries) ==
    LET lists == {k \in DOMAIN entries : entries[k].field = "children"}
    IN  [entries |-> entries,
         args |-> [i \in {entries[k].inode : k \in lists} |->
                     entries[CHOOSE k \in lists : entries[k].inode = i].buf] @@ args]
Merge(args, events) ==
    Merged(args, MergeAll(args, FlattenSeq([k \in DOMAIN events |-> events[k].msgs])))

-----------------------------------------------------------------------------
(* The storage engine is a library outside of this code: storing an entry
   sets a piece of an inode or removes the inode, and storing it again
   changes nothing. *)
With(f, i, x) == [k \in DOMAIN f \cup {i} |-> IF k = i THEN x ELSE f[k]]
Without(f, i) == [k \in DOMAIN f \ {i} |-> f[k]]
StoreEntry(db, n) ==
    IF n.op = "remove" THEN [piece \in DOMAIN db |-> Without(db[piece], n.inode)]
    ELSE [db EXCEPT ![n.field] = With(@, n.inode, n.buf)]
Store(db, entries) == FoldLeft(StoreEntry, db, entries)
=============================================================================

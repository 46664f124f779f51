------------------------------- MODULE Requests -------------------------------
(***************************************************************************)
(* The handlers of the update commands in service_handler.c: how a request  *)
(* becomes the record that the data thread executes, or is refused.         *)
(*                                                                         *)
(* A dentry is named by a path (by = "fullname"), by its parent's inode and *)
(* its name ("pname") or by its inode.  The lengths and strings of the      *)
(* protocol are one flag: sound is FALSE if a length is out of range, a     *)
(* path does not begin with a slash or the body has another length than     *)
(* its parts.                                                               *)
(***************************************************************************)
EXTENDS Dentry

\* Every field a request may have, unused ones at their zero.
Call == [cmd |-> "create", by |-> "fullname", sound |-> TRUE, ns |-> "ns",
         src_ns |-> "ns", path |-> <<>>, src_path |-> <<>>, parent |-> 0,
         name |-> "", src_parent |-> 0, src_name |-> "", inode |-> 0,
         src_inode |-> 0, mode |-> "none", flags |-> "none", mask |-> TRUE,
         val |-> 0, inc_alloc |-> 0, xattr |-> ""]

Parsed(err, rec) == [err |-> err, rec |-> rec]
Refused == Parsed(EINVAL, Record)

-----------------------------------------------------------------------------
(* The dentry a request is about. *)

\* server_parse_dentry_for_update
ParseDentry(req) == [Record EXCEPT !.by = "fullname", !.path = req.path]

\* server_parse_pname_for_update
ParsePName(req) ==
    [Record EXCEPT !.by = "pname", !.parent = req.parent, !.name = req.name]

\* server_parse_inode_for_update does not set dentry_type: the record object keeps
\* what its last user left in it.
ParseInode(req, left) ==
    [Record EXCEPT !.by = left.by, !.path = left.path, !.inode = req.inode]

Target(req) == IF req.by = "fullname" THEN ParseDentry(req) ELSE ParsePName(req)

-----------------------------------------------------------------------------
(* The commands. *)

\* parse_create_dentry_mode, init_record_for_create
ParseCreate(req) ==
    IF req.mode \in {"none", "symlink"} THEN Refused
    ELSE Parsed(OK, [Target(req) EXCEPT !.op = "create", !.kind = req.mode])

ParseSymlink(req) == Parsed(OK, [Target(req) EXCEPT !.op = "create", !.kind = "symlink"])

ParseHdlink(req) ==
    LET rec == [Target(req) EXCEPT !.op = "create", !.link = TRUE]
    IN  IF req.by # "fullname" THEN Parsed(OK, [rec EXCEPT !.src = req.src_inode])
        ELSE IF req.src_ns # req.ns THEN Refused
        ELSE Parsed(OK, [rec EXCEPT !.src_path = req.src_path])

ParseRemove(req) == Parsed(OK, [Target(req) EXCEPT !.op = "remove"])

ParseRename(req) ==
    LET rec == [Target(req) EXCEPT !.op = "rename", !.flags = req.flags]
    IN  IF req.src_ns # req.ns THEN Refused
        ELSE IF req.by = "fullname"
        THEN Parsed(OK, [rec EXCEPT !.src_path = req.src_path])
        ELSE Parsed(OK, [rec EXCEPT !.from = req.src_parent, !.from_name = req.src_name])

\* parse_xattr_fields, service_do_setxattr
ParseSetXattr(req, left) ==
    Parsed(OK, [IF req.by = "fullname" THEN ParseDentry(req) ELSE ParseInode(req, left)
                EXCEPT !.op = "set_xattr", !.xattr = req.xattr, !.val = req.val,
                       !.flags = req.flags])

ParseRemoveXattr(req, left) ==
    Parsed(OK, [IF req.by = "fullname" THEN ParseDentry(req) ELSE ParseInode(req, left)
                EXCEPT !.op = "remove_xattr", !.xattr = req.xattr])

ParseSetDsize(req) ==
    Parsed(OK, [Record EXCEPT !.op = "set_dsize", !.inode = req.inode, !.val = req.val,
                              !.inc_alloc = req.inc_alloc, !.flags = req.flags])

ParseModifyStat(req) ==
    IF ~req.mask THEN Refused
    ELSE Parsed(OK, [Record EXCEPT !.op = "update", !.inode = req.inode, !.val = req.val])

\* The switch of service_process.  left is what the record object still holds.
Parse(req, left) ==
    IF ~req.sound THEN Refused
    ELSE CASE req.cmd = "create" -> ParseCreate(req)
           [] req.cmd = "symlink" -> ParseSymlink(req)
           [] req.cmd = "hdlink" -> ParseHdlink(req)
           [] req.cmd = "remove" -> ParseRemove(req)
           [] req.cmd = "rename" -> ParseRename(req)
           [] req.cmd = "set_xattr" -> ParseSetXattr(req, left)
           [] req.cmd = "remove_xattr" -> ParseRemoveXattr(req, left)
           [] req.cmd = "set_dsize" -> ParseSetDsize(req)
           [] req.cmd = "modify_stat" -> ParseModifyStat(req)

-----------------------------------------------------------------------------
(* set_update_result_and_output: the inode in the response to an executed    *)
(* record and the one kept for a repeated request.  t is the tree before     *)
(* removed dentries are freed. *)
Responded(r) ==
    CASE r.rec.op \in {"create", "remove", "update"} -> r.rec.inode
      [] r.rec.op = "rename" -> IF r.affected = <<>> THEN 0 ELSE Last(r.affected).inode
      [] OTHER -> 0

\* dentry_stat_output follows a hard link.
StatOutput(r) ==
    LET i == Responded(r)
    IN  IF i # 0 /\ r.t.d[i].src # 0 THEN r.t.d[i].src ELSE i
=============================================================================

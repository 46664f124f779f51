------------------------------ MODULE ClientProto ------------------------------
(***************************************************************************)
(* The update requests of the client library, client_proto.c: what the      *)
(* functions put into the message that the server's handlers (Requests)     *)
(* take apart.  Each checks the lengths of its names before it sends        *)
(* anything, so the requests here are sound.                                *)
(***************************************************************************)
EXTENDS Requests

\* client_check_set_proto_dentry
ByFullname(cmd, path) == [Call EXCEPT !.cmd = cmd, !.path = path]

\* client_check_set_proto_pname
ByPName(cmd, parent, name) ==
    [Call EXCEPT !.cmd = cmd, !.by = "pname", !.parent = parent, !.name = name]

\* client_check_set_proto_inode_info
ByInode(cmd, inode) == [Call EXCEPT !.cmd = cmd, !.by = "inode", !.inode = inode]

-----------------------------------------------------------------------------
create_dentry(path, mode) == [ByFullname("create", path) EXCEPT !.mode = mode]

create_dentry_by_pname(parent, name, mode) ==
    [ByPName("create", parent, name) EXCEPT !.mode = mode]

\* The mode of a symbolic link is sent as well; the server sets its type.
symlink_dentry(path, mode) == [ByFullname("symlink", path) EXCEPT !.mode = mode]

symlink_dentry_by_pname(parent, name, mode) ==
    [ByPName("symlink", parent, name) EXCEPT !.mode = mode]

link_dentry(src, dest) == [ByFullname("hdlink", dest) EXCEPT !.src_path = src]

link_dentry_by_pname(src_inode, parent, name) ==
    [ByPName("hdlink", parent, name) EXCEPT !.src_inode = src_inode]

remove_dentry(path) == ByFullname("remove", path)

remove_dentry_by_pname(parent, name) == ByPName("remove", parent, name)

rename_dentry(src, dest, flags) ==
    [ByFullname("rename", dest) EXCEPT !.src_path = src, !.flags = flags]

rename_dentry_by_pname(src_parent, src_name, parent, name, flags) ==
    [ByPName("rename", parent, name) EXCEPT
        !.src_parent = src_parent, !.src_name = src_name, !.flags = flags]

set_xattr_by_path(path, name, value, flags) ==
    [ByFullname("set_xattr", path) EXCEPT
        !.xattr = name, !.val = value, !.flags = flags]

set_xattr_by_inode(inode, name, value, flags) ==
    [ByInode("set_xattr", inode) EXCEPT
        !.xattr = name, !.val = value, !.flags = flags]

remove_xattr_by_path(path, name) == [ByFullname("remove_xattr", path) EXCEPT !.xattr = name]

remove_xattr_by_inode(inode, name) == [ByInode("remove_xattr", inode) EXCEPT !.xattr = name]

set_dentry_size(inode, size, inc_alloc, flags) ==
    [ByInode("set_dsize", inode) EXCEPT
        !.val = size, !.inc_alloc = inc_alloc, !.flags = flags]

modify_dentry_stat(inode, stat) == [ByInode("modify_stat", inode) EXCEPT !.val = stat]
=============================================================================

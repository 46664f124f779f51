---------------------------- MODULE MCDirService ----------------------------
(* A small namespace for DirService: the root, the directory /a and /f. *)
EXTENDS DirService, ClientProto

\* Inodes are the positions here: the root is 1, /a is 2, /f is 3.  Every request of
\* the client library is sent once.
Earlier ==
    <<create_dentry(<<>>, "dir"), create_dentry(<<"a">>, "dir"),
      create_dentry_by_pname(1, "f", "file"),
      link_dentry(<<"f">>, <<"l">>), link_dentry_by_pname(3, 2, "h"),
      symlink_dentry_by_pname(1, "s", "file"),
      rename_dentry_by_pname(1, "s", 2, "s", "none"),
      remove_dentry_by_pname(2, "h"),
      symlink_dentry(<<"t">>, "file"), remove_dentry(<<"t">>),
      set_xattr_by_path(<<"l">>, "x", 1, "none"), remove_xattr_by_path(<<"f">>, "x"),
      set_xattr_by_inode(3, "y", 1, "none"), remove_xattr_by_inode(3, "y"),
      modify_dentry_stat(3, 1), set_dentry_size(3, 2, 1, "none")>>

Asked == {link_dentry(<<"l">>, <<"a", "g">>), rename_dentry(<<"a", "g">>, <<"f">>, "none"),
          create_dentry(<<"b">>, "none")}

Errors == {"EEXIST", "ENOENT", "EINVAL", "ENODATA", "ENOTDIR", "ENOTEMPTY", "ELOOP",
           "EPERM"}
=============================================================================

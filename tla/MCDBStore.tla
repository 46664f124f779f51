------------------------------ MODULE MCDBStore ------------------------------
(* A small namespace for DBStore: the root, the directory /a with the file   *)
(* /a/g, and the file /f. *)
EXTENDS DBStore

ByPath(op, path) == [Record EXCEPT !.op = op, !.by = "fullname", !.path = path]
Creation(path, kind) == [ByPath("create", path) EXCEPT !.kind = kind]
Renaming(from, to, flags) ==
    [ByPath("rename", to) EXCEPT !.src_path = from, !.flags = flags]

Earlier == <<Creation(<<>>, "dir"), Creation(<<"a">>, "dir"),
             Creation(<<"a", "g">>, "file"), Creation(<<"f">>, "file"),
             [ByPath("set_xattr", <<"f">>) EXCEPT !.xattr = "x", !.val = 1]>>

Asked == {Creation(<<"a", "f">>, "file"),
          ByPath("remove", <<"a", "g">>), ByPath("remove", <<"a">>),
          Renaming(<<"f">>, <<"a", "g">>, "none"),
          Renaming(<<"f">>, <<"a", "g">>, "exchange"),
          Renaming(<<"a">>, <<"b">>, "none"),
          [Record EXCEPT !.op = "set_dsize", !.inode = 4, !.val = 2, !.inc_alloc = 1],
          [ByPath("remove_xattr", <<"f">>) EXCEPT !.xattr = "x"]}
=============================================================================

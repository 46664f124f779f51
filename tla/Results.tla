------------------------------- MODULE Results -------------------------------
(* Results of operations: 0 and the errno values that more than one part of  *)
(* the server tells apart.                                                   *)
OK == "OK"
ENOENT == "ENOENT"
EEXIST == "EEXIST"
EINVAL == "EINVAL"
ENODATA == "ENODATA"
=============================================================================

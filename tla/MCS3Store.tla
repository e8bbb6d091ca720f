------------------------------ MODULE MCS3Store ------------------------------
(* An instance of S3Store for TLC: what goes wrong. *)
EXTENDS S3Store

RequestsFail == {"crash", "write", "compare", "rename", "last", "removeLast", "remove"}
==============================================================================

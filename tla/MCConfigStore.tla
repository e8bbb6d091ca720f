---------------------------- MODULE MCConfigStore ----------------------------
(* Instances of ConfigStore for TLC: what goes wrong in each run. *)
EXTENDS ConfigStore

\* A file that exists can be read, and a directory.
ReadableFiles == AllFaults \ {"list", "compare"}
CleanErrors == {"create", "compare", "rename", "last"}
==============================================================================

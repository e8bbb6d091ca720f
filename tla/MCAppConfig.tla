----------------------------- MODULE MCAppConfig -----------------------------
(* Instances of AppConfig for TLC. *)
EXTENDS AppConfig, TLC

\* Programs started with the same paths, and sessions, are alike.
SamePaths == [p \in Proc |-> <<"conf.lock", "repo/lock", "log.lock">>]
Files == {"conf.lock", "repo/lock", "log.lock"}
Symmetry == Permutations(Proc) \cup Permutations(Session)
==============================================================================

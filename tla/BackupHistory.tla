---------------------------- MODULE BackupHistory ----------------------------
(***************************************************************************)
(* What the store of one device's configurations promises: a numbered      *)
(* history.  A new configuration gets a number above every number present, *)
(* a stored configuration never changes, and one is discarded only when    *)
(* MaxFiles newer ones are present.  ConfigStore.tla implements it with    *)
(* files.                                                                  *)
(***************************************************************************)
EXTENDS Integers, FiniteSets, Functions

CONSTANTS Content,     \* configurations
          MaxFiles     \* how many to keep; 0 keeps them all

VARIABLE hist          \* the history: number -> configuration

Init == DOMAIN hist = {}

Newer(i) == {k \in DOMAIN hist : k > i}

Commit == \E i \in DOMAIN hist' \ DOMAIN hist :
             /\ i \in Nat /\ Newer(i) = {}
             /\ hist'[i] \in Content
             /\ DOMAIN hist' = DOMAIN hist \cup {i}
             /\ Restrict(hist', DOMAIN hist) = hist

Discard == \E i \in DOMAIN hist :
             /\ MaxFiles > 0 /\ Cardinality(Newer(i)) >= MaxFiles
             /\ hist' = Restrict(hist, DOMAIN hist \ {i})

Next == Commit \/ Discard

Spec == Init /\ [][Next]_hist
==============================================================================

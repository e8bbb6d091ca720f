------------------------------- MODULE ScanPass -------------------------------
(***************************************************************************)
(* What a pass of the scanner promises, without goroutines, channels or    *)
(* the device table.  A pass starts with a list of devices and a limit;    *)
(* every device of the list is passed over or started, once; started jobs  *)
(* never exceed the limit; the next pass starts only when every device of  *)
(* the list was dealt with and every job it started is over.               *)
(* Scheduler.tla implements it.                                            *)
(***************************************************************************)
EXTENDS Naturals, FiniteSets

CONSTANTS Device,      \* device identifiers
          Limit        \* values of maxconcurrency; 0 means unlimited

VARIABLES todo,        \* devices of this pass not dealt with yet
          running,     \* devices whose job is in progress
          limit        \* the limit this pass works under

vars == <<todo, running, limit>>

Init == todo = {} /\ running = {} /\ limit \in Limit

BelowLimit == limit > 0 => Cardinality(running) < limit

Begin == /\ todo = {} /\ running = {}
         /\ todo' \in SUBSET Device
         /\ limit' \in Limit
         /\ UNCHANGED running

PassOver(d) == /\ d \in todo
               /\ todo' = todo \ {d}
               /\ UNCHANGED <<running, limit>>

Start(d) == /\ d \in todo
            /\ BelowLimit
            /\ todo' = todo \ {d}
            /\ running' = running \cup {d}
            /\ UNCHANGED limit

Finish(d) == /\ d \in running
             /\ running' = running \ {d}
             /\ UNCHANGED <<todo, limit>>

Next == \/ Begin
        \/ \E d \in Device : PassOver(d) \/ Start(d) \/ Finish(d)

Safety == Init /\ [][Next]_vars

\* Every pass comes to its end.
Spec == Safety /\ []<>(todo = {} /\ running = {})
==============================================================================

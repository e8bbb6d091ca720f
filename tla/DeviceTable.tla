----------------------------- MODULE DeviceTable -----------------------------
(***************************************************************************)
(* The in-memory device table of src/dev/table.go: a map from device ids   *)
(* to device entries.  Every method of the Go type holds the table's lock  *)
(* from its first to its last line and copies the entry on its way in or   *)
(* out, so each method is one atomic function of the table's value.  A     *)
(* table is a function whose domain is the set of registered ids.          *)
(*                                                                         *)
(* An entry keeps what the rest of the system tells apart: the deletion    *)
(* mark and the revision of the properties (both part of DevConfig, what   *)
(* an operator edits), and lastSuccess (run-time status).                  *)
(***************************************************************************)
EXTENDS Integers, Functions

CONSTANT Rev     \* revisions of a device's properties text

\* The zero time.Time: "never backed up", or cleared to expire the holdtime.
Never == -1

Entry == [deleted: BOOLEAN, rev: Rev, lastSuccess: Nat \cup {Never}]

\* GetDevice fails exactly when this is FALSE; otherwise it returns table[d].
Found(table, d) == d \in DOMAIN table

SetDevice(table, d, entry) ==
    IF Found(table, d) THEN table
    ELSE [x \in DOMAIN table \cup {d} |-> IF x = d THEN entry ELSE table[x]]

UpdateDevice(table, d, entry) ==
    IF Found(table, d) THEN [table EXCEPT ![d] = entry] ELSE table

PurgeDevice(table, d) == Restrict(table, DOMAIN table \ {d})

\* Device.Holdtime(now, holdtime) > 0: the device was backed up less than
\* `hold' ago.  For the zero time the subtraction saturates, so it is never held.
Held(entry, now, hold) ==
    /\ entry.lastSuccess # Never
    /\ hold - (now - entry.lastSuccess) > 0
==============================================================================

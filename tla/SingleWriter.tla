--------------------------- MODULE SingleWriter ---------------------------
(***************************************************************************)
(* What the lock file of internal/syncd promises about the store: it is    *)
(* open for writing in one process at a time, and the row of sync_state is *)
(* written by that process only, in its own name.                          *)
(***************************************************************************)
CONSTANTS Procs, None, Rows

VARIABLES writer, row

vars == <<writer, row>>

Init == writer = None /\ row \in Rows

Open(p) == writer = None /\ writer' = p /\ UNCHANGED row

\* The writer writes the row, naming itself.
Write(p) == writer = p /\ row' \in Rows /\ row'.pid = p /\ UNCHANGED writer

Close == writer # None /\ writer' = None /\ UNCHANGED row

Next == Close \/ \E p \in Procs : Open(p) \/ Write(p)

Spec == Init /\ [][Next]_vars
=============================================================================

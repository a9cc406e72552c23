--------------------------- MODULE InternalSyncMC ---------------------------
(* Instances of InternalSync for TLC: two devices, d1 the busier one. *)
EXTENDS InternalSync

CONSTANTS d1, d2, e1, e2, e3

\* d1 writes every event, d2 only downloads.
OneWriter == [e \in Event |-> d1]

\* d1 writes e1 and e3, the server's administrator e2.
AdminWrites == [e \in Event |-> IF e = e2 THEN Server ELSE d1]

\* No form resolves a duplicate.
NoneSettles == [e \in Event |-> {}]

\* e2 resolves the duplicate that e1 flags.
LastSettles == [e \in Event |-> IF e = e2 THEN {e1} ELSE {}]
=============================================================================

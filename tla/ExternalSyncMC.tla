--------------------------- MODULE ExternalSyncMC ---------------------------
(* Values of the constants of ExternalSync for TLC. *)
EXTENDS ExternalSync, TLC

CONSTANTS apg, house, child, group, person

\* A household of an apg, with a child.
Family == house :> apg @@ child :> house
=============================================================================

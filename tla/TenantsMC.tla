----------------------------- MODULE TenantsMC -----------------------------
(* One program, two requests alike but for their names, for TLC. *)
EXTENDS Tenants, TLC

Renaming == Permutations(Tenant) \cup Permutations(Req)

\* Bound: the third upload comes with a push or with a fault, not with both.
Sparse == uploads + pushes + faults <= 4
=============================================================================

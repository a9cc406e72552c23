---------------------------- MODULE EventStoreMC ----------------------------
(* Two calls, three events that differ only in name, for TLC. *)
EXTENDS EventStore, TLC

Renaming == Permutations(Call) \cup Permutations(Event)
=============================================================================

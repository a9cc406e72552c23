---------------------------- MODULE DeviceAppMC ----------------------------
(* Programs and slots are alike but for their names, for TLC.              *)
EXTENDS DeviceApp, TLC

Renaming == Permutations(App) \cup Permutations(Slot)
=============================================================================

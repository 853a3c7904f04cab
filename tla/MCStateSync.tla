----------------------------- MODULE MCStateSync -----------------------------
(***************************************************************************)
(* Two devices that each change twice, and two refreshes.  The devices are *)
(* interchangeable, and so are the refreshes.                              *)
(***************************************************************************)
EXTENDS StateSync, TLC

Symmetry == Permutations(SyncDevice) \cup Permutations(SyncRefresh)
=============================================================================

------------------------------ MODULE MCSyncLocal -------------------------------
(* Small instances of SyncLocal for TLC. *)
EXTENDS SyncLocal, TLC

Symmetry == Permutations(Entries)
================================================================================

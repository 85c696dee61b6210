------------------------------ MODULE MCGitStore -------------------------------
(* Small instances of GitStore for TLC. *)
EXTENDS GitStore, TLC

Symmetry == Permutations(Clients) \cup Permutations(Procs) \cup Permutations(Entries)
================================================================================

----------------------------- MODULE MCPushRegistry ----------------------------
(* PushRegistry for TLC.                                                   *)
EXTENDS PushRegistry, TLC

Symmetry == Permutations(Subs) \cup Permutations(Keys)
================================================================================

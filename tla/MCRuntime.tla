----------------------------- MODULE MCRuntime -----------------------------
(* Small instances of Runtime for TLC.                                     *)
EXTENDS Runtime, TLC

Symmetric == Permutations(Threads) \cup Permutations(Networks)
=============================================================================
